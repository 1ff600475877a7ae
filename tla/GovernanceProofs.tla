-------------------------- MODULE GovernanceProofs --------------------------
(***************************************************************************)
(* Proofs about the governance of tools and the synchronization of         *)
(* servers, for any number of tools, rules and overlapping requests.       *)
(***************************************************************************)
EXTENDS GovernanceProperties, FiniteSetTheorems, WellFoundedInduction, TLAPS

RuleOperations == {"create rule", "update rule", "delete rule"}

(***************************************************************************)
(* What the tables hold.                                                   *)
(***************************************************************************)
CatalogueHolds ==
    /\ agents \in [Agents -> {"absent", "live", "deleted"}]
    /\ servers \in [Servers -> ServerRows]
    /\ tools \in [Tools -> ToolRows]
    /\ rules \in [RuleIds -> RuleRows \cup {None}]
    /\ \A t \in Tools : tools[t].id = t
    /\ \A i \in RuleIds : rules[i] # None => rules[i].id = i
    /\ \A s \in Servers : servers[s].agent # None => agents[servers[s].agent] # "absent"

RegisterHolds ==
    /\ records \in [Tools -> RecordRows \cup {None}]
    /\ {controls, snapshot, trusted} \subseteq BOOLEAN

\* An alert is known by its key and its number; numbers are dense, so that the
\* next one is new.
SameState(a, b) ==
    /\ a.status = b.status /\ a.acked = b.acked
    /\ a.closed = b.closed /\ a.closer = b.closer

AlertsHold ==
    /\ alerts \subseteq AlertRows
    /\ \A a, b \in alerts : SameAlert(a, b) => SameState(a, b)
    /\ \A a \in alerts :
          /\ IsFiniteSet(Numbers(AlertKey(a)))
          /\ a.number <= Cardinality(Numbers(AlertKey(a)))

(***************************************************************************)
(* What a request holds of what it has read.                               *)
(***************************************************************************)
RequestFields ==
    {"pc", "op", "turn", "target", "body", "seen", "covered", "view", "alone"}

LoadHolds(q) ==
    \/ q.op = "create rule" /\ q.target \in RuleIds /\ q.body \in RuleBodies
    \/ /\ q.op \in {"update rule", "delete rule"}
       /\ q.target \in RuleIds /\ q.seen \in RuleRows /\ q.seen.id = q.target
       /\ rules[q.target] # None
       /\ IF q.op = "update rule" THEN q.body \in RuleBodies ELSE q.body = [deleted |-> TRUE]
    \/ /\ q.op = "update tool"
       /\ q.target \in Tools /\ q.seen \in ToolRows /\ q.seen.id = q.target
       /\ IsToolPatch(q.body) /\ tools[q.target].state # "absent"
    \/ q.op \in AlertOperations /\ q.seen \in AlertRows /\ q.seen.status \in From(q.op)

ViewHolds(v) ==
    /\ v.rules \subseteq RuleRows
    /\ v.tools \subseteq ToolRows /\ \A t \in v.tools : t.server # None
    /\ v.active \subseteq AlertRows
    /\ v.records \in [Tools -> RecordRows \cup {None}] /\ v.controls \in BOOLEAN

\* A row that a request has loaded and may write to.
RowHolds(row) ==
    row \in ToolRows /\ row.server # None /\ tools[row.id].state # "absent"

SyncHolds(q) ==
    /\ q.op = "sync" /\ q.target \in Servers /\ q.seen \in ServerRows
    /\ q.seen.agent # None => agents[q.seen.agent] # "absent"

PlanHolds(q) ==
    LET plan == q.body IN
    /\ DOMAIN plan = {"offer", "match", "gone", "names"}
    /\ plan.offer \in Discoveries
    /\ plan.match \in [DOMAIN plan.offer -> ToolRows \cup {None}]
    /\ \A n \in DOMAIN plan.match :
          plan.match[n] # None => tools[plan.match[n].id].state # "absent"
    /\ \A g \in plan.gone : RowHolds(g)

TurnHolds(q) ==
    \/ q.turn = "all" /\ q.op \in RuleOperations
    \/ q.turn = "risk" /\ q.op \in RuleOperations \cup {"register", "summary"}
    \/ /\ q.turn = "tool" /\ q.op = "update tool"
       /\ q.target \in Tools /\ RowHolds(tools[q.target])
       /\ q.pc = "read" => RowHolds(q.seen) /\ q.seen.id = q.target
    \/ /\ q.turn = "review" /\ q.op = "review tool"
       /\ q.target \in Tools /\ RowHolds(q.seen) /\ q.seen.id = q.target
       /\ q.body \in [risk : RiskLevels, permission : Permissions, reviewed : {TRUE}]
    \/ q.pc = "read" /\ q.turn = "sync" /\ SyncHolds(q) /\ PlanHolds(q)

RequestHolds(q) ==
    /\ DOMAIN q = RequestFields
    /\ q.pc = "loaded" => LoadHolds(q)
    /\ q.pc \in {"reconcile", "ruled", "read"} => TurnHolds(q)
    /\ q.pc = "ruled" => DOMAIN q.view = DOMAIN NoView /\ q.view.rules \subseteq RuleRows
    /\ q.pc = "read" => DOMAIN q.view = DOMAIN NoView /\ ViewHolds(q.view)
    /\ q.pc \in {"loaded", "reconcile"} => q.view = NoView
    /\ q.pc = "projected" => q.op \in {"register", "summary"}
    /\ q.pc = "built" => q.op = "summary" /\ q.seen \in BOOLEAN
    /\ q.pc \in {"discovering", "discovered", "failing"} => SyncHolds(q)
    /\ q.pc = "discovering" => q.turn = "sync"
    /\ q.pc = "discovered" => q.turn = "sync" /\ q.body \in Discoveries
    /\ q.pc \in Ended \cup {"loaded", "reconcile", "ruled", "read", "projected", "built",
                            "discovering", "discovered", "failing"}

(***************************************************************************)
(* What a request that has been alone knows: nothing has changed since it  *)
(* read it.                                                                *)
(***************************************************************************)
AloneHolds(r) ==
    LET q == requests[r] IN
    q.alone /\ InProgress(r) =>
      /\ Others(r) = {}
      /\ q.pc = "loaded" /\ q.op = "create rule" => rules[q.target] = None
      /\ q.pc = "loaded" /\ q.op = "update tool" =>
            /\ tools[q.target] = q.seen
            /\ "name" \in DOMAIN q.body =>
                  q.body.name = q.seen.name \/ ~NameTaken(q.seen.agent, q.body.name)
      /\ q.pc = "read" => q.view.records = records /\ q.view.controls = controls
      /\ q.pc = "read" /\ q.turn = "risk" => q.view.tools = DiscoveredRows
      /\ q.pc = "projected" =>
            \A t \in Discovered : records[t] # None /\ \E row \in q.view.tools : row.id = t
      /\ q.pc = "built" => q.seen = snapshot
      /\ q.pc = "failing" => q.turn # "sync"
      /\ q.pc = "read" /\ q.turn = "sync" =>
            /\ q.body.names => agents[Namesake[q.target]] = "absent"
            /\ \A n \in DOMAIN q.body.match : q.body.match[n] = None =>
                  Adoptable(LinkedAgent(q.seen, q.target), n) = {}

(***************************************************************************)
(* What has not happened while nothing has met.                            *)
(***************************************************************************)
TransitionsHold ==
    "transition met" \notin mishaps =>
        \A r \in Requests : InProgress(r) /\ requests[r].op \in AlertOperations =>
            Others(r) = {} /\ requests[r].seen \in alerts

ReconcilersHold ==
    mishaps \cap {"reconciliations met", "transition met"} = {} =>
        \A r \in Requests : InProgress(r) =>
            /\ Others(r) = {}
            /\ requests[r].pc = "read" => requests[r].view.active = ActiveAlerts

DoublesHold ==
    mishaps \cap {"reconciliations met", "reopened", "transition met"} = {} =>
        /\ doubled = {} /\ Doubles(alerts) = {}
        /\ \A r \in Requests : InProgress(r) => requests[r].op # "reopen"

GovernanceInv ==
    /\ CatalogueHolds /\ RegisterHolds /\ AlertsHold
    /\ DOMAIN requests = Requests
    /\ \A r \in Requests : RequestHolds(requests[r]) /\ AloneHolds(r)
    /\ FieldsMatchStatus /\ TransitionsHold /\ ReconcilersHold /\ DoublesHold
-----------------------------------------------------------------------------
(***************************************************************************)
(* Rows.                                                                   *)
(***************************************************************************)
LEMMA WithFields ==
    ASSUME NEW row, NEW fields
    PROVE  /\ DOMAIN With(row, fields) = DOMAIN row
           /\ \A f \in DOMAIN row :
                 With(row, fields)[f] = IF f \in DOMAIN fields THEN fields[f] ELSE row[f]
  BY DEF With

\* An UPDATE writes to each attribute what it was or what the session made of it.
LEMMA NetChangeFields ==
    ASSUME NEW row, NEW seen, NEW new
    PROVE  /\ DOMAIN NetChange(row, seen, new) = DOMAIN row
           /\ \A f \in DOMAIN row : NetChange(row, seen, new)[f] =
                 IF new[f] # seen[f] THEN new[f] ELSE row[f]
  BY DEF NetChange

LEMMA ToolNetChange ==
    ASSUME NEW row \in ToolRows, NEW seen, NEW new \in ToolRows
    PROVE  NetChange(row, seen, new) \in ToolRows
<1> DEFINE net == NetChange(row, seen, new)
<1>1. net = [f \in {"id", "state", "agent", "server", "name", "schema", "version",
                    "description", "reviewed", "risk", "permission", "enabled"} |->
                IF new[f] # seen[f] THEN new[f] ELSE row[f]]
  BY DEF NetChange, ToolRows
<1> HIDE DEF net
<1>2. net \in ToolRows
  BY <1>1 DEF ToolRows
<1> QED BY <1>2 DEF net

\* An UPDATE of a row that is as it was loaded leaves what the session made of it.
LEMMA ToolRewritten ==
    ASSUME NEW row \in ToolRows, NEW new \in ToolRows
    PROVE  NetChange(row, row, new) = new
<1> PICK fields : fields = {"id", "state", "agent", "server", "name", "schema", "version",
                            "description", "reviewed", "risk", "permission", "enabled"}
  OBVIOUS
<1>1. /\ DOMAIN row = fields /\ DOMAIN new = fields
      /\ new = [f \in fields |-> new[f]]
  BY DEF ToolRows
<1>2. NetChange(row, row, new) = [f \in fields |-> IF new[f] # row[f] THEN new[f] ELSE row[f]]
  BY <1>1 DEF NetChange
<1> QED BY <1>1, <1>2

LEMMA RuleNetChange ==
    ASSUME NEW row \in RuleRows, NEW seen, NEW new \in RuleRows
    PROVE  NetChange(row, seen, new) \in RuleRows
<1> DEFINE net == NetChange(row, seen, new)
<1>1. net = [f \in {"id", "scope", "agent", "tool", "risk", "effect", "priority",
                    "enabled", "deleted"} |->
                IF new[f] # seen[f] THEN new[f] ELSE row[f]]
  BY DEF NetChange, RuleRows
<1> HIDE DEF net
<1>2. net \in RuleRows
  BY <1>1 DEF RuleRows
<1> QED BY <1>2 DEF net

LEMMA ServerNetChange ==
    ASSUME NEW row \in ServerRows, NEW seen, NEW new \in ServerRows
    PROVE  /\ NetChange(row, seen, new) \in ServerRows
           /\ NetChange(row, seen, new).agent \in {row.agent, new.agent}
<1> DEFINE net == NetChange(row, seen, new)
<1>1. net = [f \in {"agent", "deleted", "status"} |->
                IF new[f] # seen[f] THEN new[f] ELSE row[f]]
  BY DEF NetChange, ServerRows
<1> HIDE DEF net
<1>2. net \in ServerRows /\ net.agent \in {row.agent, new.agent}
  BY <1>1 DEF ServerRows
<1> QED BY <1>2 DEF net

LEMMA RecordNetChange ==
    ASSUME NEW row \in RecordRows, NEW seen, NEW new \in RecordRows
    PROVE  NetChange(row, seen, new) \in RecordRows
<1> DEFINE net == NetChange(row, seen, new)
<1>1. net = [f \in {"risk", "governance", "coverage", "compliance"} |->
                IF new[f] # seen[f] THEN new[f] ELSE row[f]]
  BY DEF NetChange, RecordRows
<1> HIDE DEF net
<1>2. net \in RecordRows
  BY <1>1 DEF RecordRows
<1> QED BY <1>2 DEF net

LEMMA RiskRecordType ==
    ASSUME NEW tool \in ToolRows, NEW ruleSet
    PROVE  RiskRecord(tool, ruleSet) \in RecordRows
<1>1. GovernanceStatus(tool, ruleSet) \in {"unreviewed", "reviewed", "governed"}
  BY DEF GovernanceStatus
<1>2. PolicyCoverage(tool, ruleSet) \in {"covered", "partially_covered", "uncovered"}
  BY DEF PolicyCoverage
<1>3. \A v : ComplianceStatusFor(v) \in {"compliant", "warning", "non_compliant"}
  BY DEF ComplianceStatusFor
<1> QED BY <1>1, <1>2, <1>3 DEF RiskRecord, RecordRows, ToolRows

LEMMA NewRuleType ==
    ASSUME NEW i \in RuleIds, NEW body \in RuleBodySpace
    PROVE  NewRule(i, body) \in RuleRows /\ NewRule(i, body).id = i
  BY DEF NewRule, RuleRows, RuleBodySpace

LEMMA PatchedType ==
    ASSUME NEW seen \in ToolRows, NEW patch, IsToolPatch(patch)
    PROVE  /\ With(seen, patch) \in ToolRows
           /\ \A f \in {"id", "state", "agent", "server", "schema", "version", "reviewed"} :
                 With(seen, patch)[f] = seen[f]
           /\ With(seen, patch).name = IF "name" \in DOMAIN patch THEN patch.name ELSE seen.name
<1> DEFINE row == With(seen, patch)
<1>1. row = [f \in {"id", "state", "agent", "server", "name", "schema", "version",
                    "description", "reviewed", "risk", "permission", "enabled"} |->
                IF f \in DOMAIN patch THEN patch[f] ELSE seen[f]]
  BY DEF With, ToolRows
<1> HIDE DEF row
<1>2. \A f \in {"id", "state", "agent", "server", "schema", "version", "reviewed"} :
         row[f] = seen[f]
  BY <1>1 DEF IsToolPatch
<1>3. /\ row.name \in Names /\ row.description \in Texts \cup {None}
      /\ row.permission \in Permissions /\ row.risk \in RiskLevels /\ row.enabled \in BOOLEAN
  BY <1>1 DEF IsToolPatch, ToolRows
<1>4. row.name = IF "name" \in DOMAIN patch THEN patch.name ELSE seen.name
  BY <1>1
<1>5. row \in ToolRows
  BY <1>1, <1>2, <1>3 DEF ToolRows
<1> QED BY <1>2, <1>4, <1>5 DEF row

LEMMA ReviewedType ==
    ASSUME NEW seen \in ToolRows,
           NEW body \in [risk : RiskLevels, permission : Permissions, reviewed : {TRUE}]
    PROVE  /\ With(seen, body) \in ToolRows
           /\ With(seen, body).id = seen.id /\ With(seen, body).state = seen.state
           /\ With(seen, body).agent = seen.agent /\ With(seen, body).server = seen.server
           /\ With(seen, body).reviewed = TRUE
<1> DEFINE row == With(seen, body)
<1>1. row = [f \in {"id", "state", "agent", "server", "name", "schema", "version",
                    "description", "reviewed", "risk", "permission", "enabled"} |->
                IF f \in {"risk", "permission", "reviewed"} THEN body[f] ELSE seen[f]]
  BY DEF With, ToolRows
<1> HIDE DEF row
<1>2. row \in ToolRows /\ row.id = seen.id /\ row.state = seen.state
      /\ row.agent = seen.agent /\ row.server = seen.server /\ row.reviewed = TRUE
  BY <1>1 DEF ToolRows
<1> QED BY <1>2 DEF row

-----------------------------------------------------------------------------
(***************************************************************************)
(* What a reconciliation wants.                                            *)
(***************************************************************************)
AlertKinds == ToolAlertKinds \cup RiskAlertKinds \cup EventAlertKinds

WantRows ==
    [kind : AlertKinds, tool : Tools, server : Servers, severity : RiskLevels,
     verdict : {"active", "resolved", "none"}]

LEMMA WantType ==
    ASSUME NEW kind \in AlertKinds, NEW tool \in ToolRows, tool.server # None,
           NEW verdict \in {"active", "resolved", "none"}
    PROVE  Want(kind, tool, verdict) \in WantRows
<1>1. AlertSeverity(kind, tool) \in RiskLevels
  BY DEF AlertSeverity, RiskLevels, AlertKinds
<1> QED BY <1>1 DEF Want, WantRows, ToolRows

LEMMA ToolWantsType ==
    ASSUME NEW tool \in ToolRows, tool.server # None, NEW ruleSet, NEW lost
    PROVE  ToolWants(tool, ruleSet, lost) \subseteq WantRows
<1>1. \A kind \in ToolAlertKinds :
         ToolAlertOpinion(kind, tool, ruleSet, lost) \in {"active", "resolved", "none"}
  BY DEF ToolAlertKinds, ToolAlertOpinion, Opinion
<1>2. ToolAlertKinds \subseteq AlertKinds
  BY DEF AlertKinds
<1> QED BY <1>1, <1>2, WantType DEF ToolWants

LEMMA RiskWantsType ==
    ASSUME NEW rows \in SUBSET ToolRows, \A t \in rows : t.server # None, NEW ruleSet
    PROVE  RiskWants(rows, ruleSet) \subseteq WantRows
<1>1. \A kind \in RiskAlertKinds : \A t \in rows :
         RiskAlertOpinion(kind, t, RiskRecord(t, ruleSet)) \in {"active", "resolved", "none"}
  BY DEF RiskAlertKinds, RiskAlertOpinion, Opinion
<1>2. RiskAlertKinds \subseteq AlertKinds
  BY DEF AlertKinds
<1>3. ASSUME NEW t \in rows
      PROVE  {Want(k, t, RiskAlertOpinion(k, t, RiskRecord(t, ruleSet))) :
                 k \in RiskAlertKinds} \subseteq WantRows
  BY <1>1, <1>2, WantType
<1> QED BY <1>3 DEF RiskWants

-----------------------------------------------------------------------------
(***************************************************************************)
(* The alerts that a transaction leaves.                                   *)
(***************************************************************************)
Consistent(a) ==
    /\ a.status = "open" => ~a.acked
    /\ a.status = "acknowledged" => a.acked
    /\ a.status = "resolved" <=> a.closed
    /\ a.closer => a.closed

NoDoubles == doubled = {} /\ Doubles(alerts) = {}

LEMMA NewAlertFields ==
    ASSUME NEW w \in WantRows
    PROVE  /\ AlertKey(NewAlert(w)) = AlertKey(w)
           /\ NewAlert(w).number = Cardinality(Numbers(AlertKey(w))) + 1
           /\ NewAlert(w).status = "open" /\ Consistent(NewAlert(w))
           /\ Cardinality(Numbers(AlertKey(w))) \in Nat => NewAlert(w) \in AlertRows
           /\ \A v \in WantRows : SameAlert(NewAlert(w), NewAlert(v))
                                  => SameState(NewAlert(w), NewAlert(v))
  BY DEF NewAlert, AlertKey, Consistent, AlertRows, WantRows, AlertKinds, SameState

\* Every key has finitely many numbers, and none beyond their count.
LEMMA NumbersBounded ==
    ASSUME AlertsHold, NEW key
    PROVE  /\ IsFiniteSet(Numbers(key)) /\ Cardinality(Numbers(key)) \in Nat
           /\ \A n \in Numbers(key) : n \in Nat /\ n <= Cardinality(Numbers(key))
<1>1. CASE Of(alerts, key) = {}
  <2>1. Numbers(key) = {}
    BY <1>1 DEF Numbers
  <2> QED BY <2>1, FS_EmptySet
<1>2. CASE Of(alerts, key) # {}
  <2>1. PICK a \in alerts : AlertKey(a) = key
    BY <1>2 DEF Of
  <2>2. IsFiniteSet(Numbers(key))
    BY <2>1 DEF AlertsHold
  <2>3. \A n \in Numbers(key) : \E b \in alerts : b.number = n /\ AlertKey(b) = key
    BY DEF Numbers, Of
  <2>4. \A b \in alerts : b.number \in Nat
    BY DEF AlertsHold, AlertRows
  <2> QED BY <2>2, <2>3, <2>4, FS_CardinalityType DEF AlertsHold
<1> QED BY <1>1, <1>2

\* A transaction that updates alerts without changing what they are about, and
\* creates alerts with the next numbers.
LEMMA AlertsAfter ==
    ASSUME AlertsHold, NEW upd \in [alerts -> AlertRows], NEW created \in SUBSET AlertRows,
           \A a \in alerts : SameAlert(upd[a], a),
           \A a, b \in alerts : SameAlert(a, b) => SameState(upd[a], upd[b]),
           \A c \in created : c.number = Cardinality(Numbers(AlertKey(c))) + 1,
           \A c, d \in created : SameAlert(c, d) => SameState(c, d),
           alerts' = {upd[a] : a \in alerts} \cup created
    PROVE  AlertsHold'
<1> DEFINE Fresh(key) == Cardinality(Numbers(key)) + 1
<1>1. alerts' \subseteq AlertRows
  OBVIOUS
<1>2. ASSUME NEW key
      PROVE  Numbers(key)' = Numbers(key) \/ Numbers(key)' = Numbers(key) \cup {Fresh(key)}
  <2>1. \A n \in Numbers(key)' : n \in Numbers(key) \/ n = Fresh(key)
    BY DEF Numbers, Of, SameAlert, AlertKey
  <2>2. Numbers(key) \subseteq Numbers(key)'
    <3> SUFFICES ASSUME NEW a \in alerts, AlertKey(a) = key
                 PROVE  a.number \in Numbers(key)'
      BY DEF Numbers, Of
    <3>1. upd[a] \in alerts' /\ AlertKey(upd[a]) = key /\ upd[a].number = a.number
      BY DEF SameAlert
    <3> QED BY <3>1 DEF Numbers, Of, AlertKey
  <2> QED BY <2>1, <2>2
<1>3. ASSUME NEW a \in alerts', NEW b \in alerts', SameAlert(a, b)
      PROVE  SameState(a, b)
  <2>1. \A x \in alerts : \A c \in created : ~SameAlert(upd[x], c)
    <3> SUFFICES ASSUME NEW x \in alerts, NEW c \in created, SameAlert(upd[x], c)
                 PROVE  FALSE
      OBVIOUS
    <3>1. AlertKey(x) = AlertKey(c) /\ x.number = Fresh(AlertKey(x))
      BY DEF SameAlert
    <3>2. x.number \in Numbers(AlertKey(x))
      BY DEF Numbers, Of
    <3> QED BY <3>1, <3>2, NumbersBounded
  <2>2. \A x, y \in alerts : SameAlert(upd[x], upd[y]) => SameAlert(x, y)
    BY DEF SameAlert
  <2> QED BY <1>3, <2>1, <2>2 DEF SameAlert, SameState
<1>4. ASSUME NEW a \in alerts'
      PROVE  /\ IsFiniteSet(Numbers(AlertKey(a))')
             /\ a.number <= Cardinality(Numbers(AlertKey(a))')
  <2> DEFINE key == AlertKey(a)
  <2>1. a.number \in Numbers(key)'
    BY DEF Numbers, Of, AlertKey
  <2>2. /\ IsFiniteSet(Numbers(key)) /\ Cardinality(Numbers(key)) \in Nat
        /\ \A n \in Numbers(key) : n \in Nat /\ n <= Cardinality(Numbers(key))
    BY NumbersBounded
  <2> HIDE DEF key
  <2>3. CASE Numbers(key)' = Numbers(key)
    BY <2>1, <2>2, <2>3 DEF key
  <2>4. CASE Numbers(key)' = Numbers(key) \cup {Fresh(key)}
    <3>1. Fresh(key) \notin Numbers(key)
      BY <2>2
    <3>2. /\ IsFiniteSet(Numbers(key) \cup {Fresh(key)})
          /\ Cardinality(Numbers(key) \cup {Fresh(key)}) = Cardinality(Numbers(key)) + 1
      BY <2>2, <3>1, FS_AddElement
    <3> QED BY <2>1, <2>2, <2>4, <3>2 DEF key
  <2> QED BY <1>2, <2>3, <2>4
<1> QED BY <1>1, <1>3, <1>4 DEF AlertsHold

\* A reconciliation keeps what holds of alerts; and it doubles none when the alerts it
\* has found active are the ones that are.
LEMMA ReconcilesKeeps ==
    ASSUME AlertsHold, NEW wants \in SUBSET WantRows, NEW active, Reconciles(wants, active)
    PROVE  /\ AlertsHold'
           /\ (\A a \in alerts : Consistent(a)) => (\A a \in alerts' : Consistent(a))
           /\ NoDoubles /\ active = ActiveAlerts => NoDoubles'
<1>1. PICK picked \in Resolvable(wants, active) :
         SetAlerts({IF \E p \in picked : SameAlert(a, p)
                    THEN [a EXCEPT !.status = "resolved", !.closed = TRUE] ELSE a : a \in alerts}
                   \cup Created(wants, active))
  BY DEF Reconciles
<1> DEFINE upd == [a \in alerts |->
                      IF \E p \in picked : SameAlert(a, p)
                      THEN [a EXCEPT !.status = "resolved", !.closed = TRUE] ELSE a]
           created == Created(wants, active)
<1>2. /\ alerts' = {upd[a] : a \in alerts} \cup created
      /\ doubled' = doubled \cup Doubles(alerts')
  BY <1>1 DEF SetAlerts
<1>3. upd \in [alerts -> AlertRows]
  <2>1. ASSUME NEW a \in alerts
        PROVE  [a EXCEPT !.status = "resolved", !.closed = TRUE] \in AlertRows
    BY DEF AlertsHold, AlertRows
  <2> QED BY <2>1 DEF AlertsHold
<1>4. \A a \in alerts : /\ SameAlert(upd[a], a)
                        /\ upd[a] = a \/ upd[a] = [a EXCEPT !.status = "resolved", !.closed = TRUE]
  BY DEF AlertsHold, AlertRows, SameAlert, AlertKey
<1>5. \A a, b \in alerts : SameAlert(a, b) => SameState(upd[a], upd[b])
  <2> SUFFICES ASSUME NEW a \in alerts, NEW b \in alerts, SameAlert(a, b)
               PROVE  SameState(upd[a], upd[b])
    OBVIOUS
  <2>1. (\E p \in picked : SameAlert(a, p)) <=> (\E p \in picked : SameAlert(b, p))
    BY DEF SameAlert
  <2>2. a \in AlertRows /\ b \in AlertRows /\ SameState(a, b)
    BY DEF AlertsHold
  <2> QED BY <2>1, <2>2 DEF SameState, AlertRows
<1>6. \A w \in WantRows : Cardinality(Numbers(AlertKey(w))) \in Nat
  BY NumbersBounded
<1>7. \A c \in created : \E w \in WantRows : c = NewAlert(w) /\ Of(active, AlertKey(w)) = {}
  BY DEF Created
<1>8. /\ created \subseteq AlertRows
      /\ \A c \in created : c.number = Cardinality(Numbers(AlertKey(c))) + 1
      /\ \A c, d \in created : SameAlert(c, d) => SameState(c, d)
      /\ \A c \in created : Consistent(c) /\ Of(active, AlertKey(c)) = {}
  BY <1>6, <1>7, NewAlertFields
<1> HIDE DEF upd, created
<1>9. AlertsHold'
  BY <1>2, <1>3, <1>4, <1>5, <1>8, AlertsAfter
<1>10. ASSUME \A a \in alerts : Consistent(a)
       PROVE  \A a \in alerts' : Consistent(a)
  <2>1. \A a \in alerts : Consistent([a EXCEPT !.status = "resolved", !.closed = TRUE])
    BY <1>10 DEF Consistent, AlertsHold, AlertRows
  <2>2. ASSUME NEW a \in alerts
        PROVE  Consistent(upd[a])
    <3>1. upd[a] = a \/ upd[a] = [a EXCEPT !.status = "resolved", !.closed = TRUE]
      BY <1>4
    <3>2. Consistent(a) /\ Consistent([a EXCEPT !.status = "resolved", !.closed = TRUE])
      BY <1>10, <2>1
    <3> QED BY <3>1, <3>2
  <2> QED BY <1>2, <1>8, <2>2
<1>11. ASSUME NoDoubles, active = ActiveAlerts
       PROVE  NoDoubles'
  <2>1. ASSUME NEW a \in alerts
        PROVE  upd[a].status \in {"open", "acknowledged"} => upd[a] = a
    <3>1. [a EXCEPT !.status = "resolved", !.closed = TRUE].status = "resolved"
      BY DEF AlertsHold, AlertRows
    <3> QED BY <1>4, <3>1
  <2>2. \A a \in alerts : upd[a].status \in {"open", "acknowledged"} =>
                             a \in Of(active, AlertKey(a))
    BY <1>11, <2>1 DEF ActiveAlerts, Of
  <2>3. \A a \in alerts : \A d \in created :
           upd[a].status \in {"open", "acknowledged"} => AlertKey(upd[a]) # AlertKey(d)
    BY <2>1, <2>2, <1>8
  <2>4. ASSUME NEW b \in alerts', NEW c \in alerts', AlertKey(b) = AlertKey(c),
               b.status \in {"open", "acknowledged"}, c.status \in {"open", "acknowledged"}
        PROVE  b.number = c.number
    <3>1. CASE b \in created /\ c \in created
      BY <2>4, <3>1, <1>8
    <3>2. CASE b \notin created /\ c \notin created
      <4>1. b \in alerts /\ c \in alerts
        BY <3>2, <2>1, <2>4, <1>2
      <4> QED BY <4>1, <2>4, <1>11 DEF NoDoubles, Doubles
    <3>3. CASE b \in created /\ c \notin created
      BY <3>3, <1>2, <2>3, <2>4
    <3>4. CASE b \notin created /\ c \in created
      BY <3>4, <1>2, <2>3, <2>4
    <3> QED BY <3>1, <3>2, <3>3, <3>4
  <2>5. Doubles(alerts') = {}
    BY <2>4 DEF Doubles
  <2> QED BY <1>2, <1>11, <2>5 DEF NoDoubles
<1> QED BY <1>9, <1>10, <1>11

\* What a transition makes of a row that may have changed since it was loaded.
Transits(op, row, seen, next) ==
    /\ op = "acknowledge" =>
          /\ next.status = "acknowledged" /\ next.acked = TRUE
          /\ next.closed = row.closed /\ next.closer = row.closer
    /\ op = "resolve" =>
          /\ next.status = "resolved" /\ next.acked = row.acked
          /\ next.closed = TRUE /\ next.closer = TRUE
    /\ op = "reopen" =>
          /\ next.status = IF "open" # seen.status THEN "open" ELSE row.status
          /\ next.acked = IF FALSE # seen.acked THEN FALSE ELSE row.acked
          /\ next.closed = IF FALSE # seen.closed THEN FALSE ELSE row.closed
          /\ next.closer = IF FALSE # seen.closer THEN FALSE ELSE row.closer

LEMMA TransitionedFields ==
    ASSUME NEW op \in AlertOperations, NEW row \in AlertRows, NEW seen \in AlertRows
    PROVE  /\ Transitioned(op, row, seen) \in AlertRows
           /\ SameAlert(row, seen) => SameAlert(Transitioned(op, row, seen), row)
           /\ Transits(op, row, seen, Transitioned(op, row, seen))
<1>1. CASE op = "acknowledge"
  <2> DEFINE next == [row EXCEPT !.status = "acknowledged", !.acked = TRUE]
  <2>1. Transitioned(op, row, seen) = next
    BY <1>1 DEF Transitioned
  <2>2. /\ next \in AlertRows /\ AlertKey(next) = AlertKey(row) /\ next.number = row.number
        /\ next.status = "acknowledged" /\ next.acked = TRUE
        /\ next.closed = row.closed /\ next.closer = row.closer
    BY DEF AlertRows, AlertKey
  <2> QED BY <1>1, <2>1, <2>2 DEF SameAlert, Transits
<1>2. CASE op = "resolve"
  <2> DEFINE next == [row EXCEPT !.status = "resolved", !.closed = TRUE, !.closer = TRUE]
  <2>1. Transitioned(op, row, seen) = next
    BY <1>2 DEF Transitioned
  <2>2. /\ next \in AlertRows /\ AlertKey(next) = AlertKey(row) /\ next.number = row.number
        /\ next.status = "resolved" /\ next.acked = row.acked
        /\ next.closed = TRUE /\ next.closer = TRUE
    BY DEF AlertRows, AlertKey
  <2> QED BY <1>2, <2>1, <2>2 DEF SameAlert, Transits
<1>3. CASE op = "reopen"
  <2> DEFINE new == [seen EXCEPT !.status = "open", !.acked = FALSE,
                                 !.closed = FALSE, !.closer = FALSE]
             next == NetChange(row, seen, new)
  <2>1. Transitioned(op, row, seen) = next
    BY <1>3 DEF Transitioned
  <2>2. /\ new \in AlertRows
        /\ new.kind = seen.kind /\ new.tool = seen.tool /\ new.server = seen.server
        /\ new.number = seen.number /\ new.severity = seen.severity
        /\ new.status = "open" /\ new.acked = FALSE /\ new.closed = FALSE /\ new.closer = FALSE
    BY DEF AlertRows
  <2> HIDE DEF new
  <2>3. next = [f \in {"kind", "tool", "server", "number", "severity", "status", "acked",
                       "closed", "closer"} |-> IF new[f] # seen[f] THEN new[f] ELSE row[f]]
    BY DEF NetChange, AlertRows
  <2> HIDE DEF next
  <2>4. /\ next.kind = row.kind /\ next.tool = row.tool /\ next.server = row.server
        /\ next.number = row.number /\ next.severity = row.severity
    BY <2>2, <2>3
  <2>5. /\ next.status = IF "open" # seen.status THEN "open" ELSE row.status
        /\ next.acked = IF FALSE # seen.acked THEN FALSE ELSE row.acked
        /\ next.closed = IF FALSE # seen.closed THEN FALSE ELSE row.closed
        /\ next.closer = IF FALSE # seen.closer THEN FALSE ELSE row.closer
    BY <2>2, <2>3
  <2>6. next \in AlertRows
    BY <2>2, <2>3, <2>4, <2>5 DEF AlertRows
  <2> QED BY <1>3, <2>1, <2>4, <2>5, <2>6 DEF SameAlert, AlertKey, Transits
<1> QED BY <1>1, <1>2, <1>3 DEF AlertOperations

LEMMA TransitionKeeps ==
    ASSUME AlertsHold, NEW op \in AlertOperations, NEW seen \in AlertRows,
           SetAlerts({IF SameAlert(a, seen) THEN Transitioned(op, a, seen) ELSE a : a \in alerts})
    PROVE  /\ AlertsHold'
           /\ (\A a \in alerts : Consistent(a)) /\ seen \in alerts /\ seen.status \in From(op)
              => (\A a \in alerts' : Consistent(a))
           /\ NoDoubles /\ seen \in alerts /\ seen.status \in From(op) /\ op # "reopen"
              => NoDoubles'
<1> DEFINE upd == [a \in alerts |-> IF SameAlert(a, seen) THEN Transitioned(op, a, seen) ELSE a]
<1>1. alerts \subseteq AlertRows /\ \A a, b \in alerts : SameAlert(a, b) => SameState(a, b)
  BY DEF AlertsHold
<1> PICK created \in SUBSET AlertRows : created = {}
  OBVIOUS
<1>2. /\ alerts' = {upd[a] : a \in alerts} \cup created
      /\ doubled' = doubled \cup Doubles(alerts')
  BY DEF SetAlerts
<1>3. upd \in [alerts -> AlertRows]
  BY <1>1, TransitionedFields
<1>4. \A a \in alerts : upd[a] = IF SameAlert(a, seen) THEN Transitioned(op, a, seen) ELSE a
  OBVIOUS
<1> HIDE DEF upd
<1>10. ASSUME NEW a \in alerts, SameAlert(a, seen)
       PROVE  /\ upd[a] = Transitioned(op, a, seen) /\ SameAlert(upd[a], a)
              /\ Transits(op, a, seen, upd[a])
  BY <1>1, <1>4, <1>10, TransitionedFields
<1>5. ASSUME NEW a \in alerts
      PROVE  SameAlert(upd[a], a)
  <2>1. CASE SameAlert(a, seen)
    BY <1>10, <2>1
  <2>2. CASE ~SameAlert(a, seen)
    BY <1>4, <2>2 DEF SameAlert
  <2> QED BY <2>1, <2>2
<1>6. ASSUME NEW a \in alerts, NEW b \in alerts, SameAlert(a, b)
      PROVE  SameState(upd[a], upd[b])
  <2>1. SameAlert(a, seen) <=> SameAlert(b, seen)
    BY <1>6 DEF SameAlert
  <2>2. SameState(a, b) /\ a \in AlertRows /\ b \in AlertRows
    BY <1>1, <1>6
  <2>3. CASE ~SameAlert(a, seen)
    BY <1>4, <2>1, <2>2, <2>3
  <2>4. CASE SameAlert(a, seen)
    <3>1. /\ Transits(op, a, seen, upd[a]) /\ Transits(op, b, seen, upd[b])
          /\ a.status = b.status /\ a.acked = b.acked
          /\ a.closed = b.closed /\ a.closer = b.closer
      BY <1>10, <2>1, <2>2, <2>4 DEF SameState
    <3>2. CASE op = "acknowledge"
      BY <2>2, <3>1, <3>2 DEF SameState, Transits
    <3>3. CASE op = "resolve"
      BY <2>2, <3>1, <3>3 DEF SameState, Transits
    <3>4. CASE op = "reopen"
      BY <2>2, <3>1, <3>4 DEF SameState, Transits
    <3> QED BY <3>2, <3>3, <3>4 DEF AlertOperations
  <2> QED BY <2>3, <2>4
<1>7. AlertsHold'
  BY <1>2, <1>3, <1>5, <1>6, AlertsAfter
<1>8. ASSUME \A a \in alerts : Consistent(a), seen \in alerts, seen.status \in From(op)
      PROVE  \A a \in alerts' : Consistent(a)
  <2> SUFFICES ASSUME NEW a \in alerts
               PROVE  Consistent(upd[a])
    BY <1>2
  <2>1. CASE ~SameAlert(a, seen)
    BY <1>4, <1>8, <2>1
  <2>2. CASE SameAlert(a, seen)
    <3>1. SameState(a, seen) /\ a \in AlertRows /\ Consistent(a)
      BY <1>1, <1>8, <2>2
    <3>2. Transits(op, a, seen, upd[a])
      BY <1>10, <2>2
    <3>3. /\ a.status = seen.status /\ a.acked = seen.acked
          /\ a.closed = seen.closed /\ a.closer = seen.closer
      BY <3>1 DEF SameState
    <3>4. CASE op = "acknowledge"
      <4>1. a.status = "open"
        BY <1>8, <3>3, <3>4 DEF From
      <4>2. a.closed = FALSE /\ a.closer = FALSE
        BY <3>1, <4>1 DEF Consistent, AlertRows
      <4>3. /\ upd[a].status = "acknowledged" /\ upd[a].acked = TRUE
            /\ upd[a].closed = FALSE /\ upd[a].closer = FALSE
        BY <3>2, <3>4, <4>2 DEF Transits
      <4> QED BY <4>3 DEF Consistent
    <3>5. CASE op = "resolve"
      BY <3>1, <3>2, <3>5 DEF Consistent, Transits
    <3>6. CASE op = "reopen"
      <4>1. a.status = "resolved" /\ seen.status # "open"
        BY <1>8, <3>3, <3>6 DEF From
      <4>2. upd[a].status = "open" /\ upd[a].acked = FALSE
            /\ upd[a].closed = FALSE /\ upd[a].closer = FALSE
        BY <3>1, <3>2, <3>3, <3>6, <4>1 DEF AlertRows, Transits
      <4> QED BY <4>2 DEF Consistent
    <3> QED BY <3>4, <3>5, <3>6 DEF AlertOperations
  <2> QED BY <2>1, <2>2
<1>9. ASSUME NoDoubles, seen \in alerts, seen.status \in From(op), op # "reopen"
      PROVE  NoDoubles'
  <2>1. ASSUME NEW a \in alerts, upd[a].status \in {"open", "acknowledged"}
        PROVE  a.status \in {"open", "acknowledged"}
    <3>1. CASE ~SameAlert(a, seen)
      BY <1>4, <2>1, <3>1
    <3>2. CASE SameAlert(a, seen)
      <4>1. a.status = seen.status /\ a \in AlertRows
        BY <1>1, <1>9, <3>2 DEF SameState
      <4>2. Transits(op, a, seen, upd[a])
        BY <1>10, <3>2
      <4> QED BY <1>9, <2>1, <4>1, <4>2 DEF From, AlertOperations, Transits
    <3> QED BY <3>1, <3>2
  <2>2. ASSUME NEW b \in alerts', NEW c \in alerts', AlertKey(b) = AlertKey(c),
               b.status \in {"open", "acknowledged"}, c.status \in {"open", "acknowledged"}
        PROVE  b.number = c.number
    <3>1. PICK x \in alerts, y \in alerts : b = upd[x] /\ c = upd[y]
      BY <1>2
    <3>2. /\ AlertKey(x) = AlertKey(y) /\ b.number = x.number /\ c.number = y.number
          /\ {x.status, y.status} \subseteq {"open", "acknowledged"}
      BY <1>5, <2>1, <2>2, <3>1 DEF SameAlert
    <3> QED BY <1>9, <3>2 DEF NoDoubles, Doubles
  <2>3. Doubles(alerts') = {}
    BY <2>2 DEF Doubles
  <2> QED BY <1>2, <1>9, <2>3 DEF NoDoubles
<1> QED BY <1>7, <1>8, <1>9

-----------------------------------------------------------------------------
(***************************************************************************)
(* The register a transaction leaves.                                      *)
(***************************************************************************)
LEMMA RegisterAfterType ==
    ASSUME RegisterHolds, NEW v, ViewHolds(v)
    PROVE  /\ RegisterAfter(v) \in [Tools -> RecordRows \cup {None}]
           /\ v.records = records => \A row \in v.tools : RegisterAfter(v)[row.id] # None
<1>1. None \notin RecordRows
  BY GovernanceAssumption
<1>2. ASSUME NEW t \in Tools
      PROVE  /\ RegisterAfter(v)[t] \in RecordRows \cup {None}
             /\ v.records = records /\ (\E row \in v.tools : row.id = t)
                => RegisterAfter(v)[t] # None
  <2> DEFINE own == {row \in v.tools : row.id = t}
             new == RiskRecord(CHOOSE row \in own : TRUE, v.rules)
  <2>1. RegisterAfter(v)[t] = IF own = {} THEN None
                              ELSE IF v.records[t] = None THEN new
                              ELSE IF records[t] = None THEN None
                              ELSE NetChange(records[t], v.records[t], new)
    BY DEF RegisterAfter
  <2>2. ASSUME own # {}
        PROVE  new \in RecordRows
    <3>1. (CHOOSE row \in own : TRUE) \in ToolRows
      BY <2>2 DEF ViewHolds
    <3> QED BY <3>1, RiskRecordType
  <2> HIDE DEF new
  <2>3. /\ records[t] \in RecordRows \cup {None}
        /\ \A seen : records[t] # None /\ own # {} => NetChange(records[t], seen, new) \in RecordRows
    BY <2>2, RecordNetChange DEF RegisterHolds
  <2>4. (\E row \in v.tools : row.id = t) => own # {}
    OBVIOUS
  <2> HIDE DEF own
  <2> QED BY <1>1, <2>1, <2>2, <2>3, <2>4
<1>3. RegisterAfter(v) \in [Tools -> RecordRows \cup {None}]
  <2>1. DOMAIN RegisterAfter(v) = Tools /\ RegisterAfter(v) = [t \in Tools |-> RegisterAfter(v)[t]]
    BY DEF RegisterAfter
  <2> QED BY <1>2, <2>1
<1>4. \A row \in v.tools : row.id \in Tools
  BY DEF ViewHolds, ToolRows
<1> QED BY <1>2, <1>3, <1>4

-----------------------------------------------------------------------------
(***************************************************************************)
(* Requests other than the one that takes a step.                          *)
(***************************************************************************)
RequestsTyped ==
    /\ DOMAIN requests = Requests
    /\ \A r \in Requests : DOMAIN requests[r] = RequestFields

\* Rows once created stay, tools of a server stay tools of servers, and an agent that
\* exists has existed.
Grows ==
    /\ \A t \in Tools :
          /\ tools[t].state # "absent" => tools'[t].state # "absent"
          /\ tools[t].server # None => tools'[t].server # None
    /\ \A a \in Agents : agents[a] # "absent" => agents'[a] # "absent"
    /\ \A i \in RuleIds : rules[i] # None => rules'[i] # None

SameRequest(p, q) ==
    /\ q.pc = p.pc /\ q.op = p.op /\ q.turn = p.turn /\ q.target = p.target
    /\ q.body = p.body /\ q.seen = p.seen /\ q.covered = p.covered /\ q.view = p.view

LEMMA RequestKept ==
    ASSUME CatalogueHolds, CatalogueHolds', Grows, NEW r \in Requests,
           RequestHolds(requests[r]), SameRequest(requests[r], requests'[r]),
           DOMAIN requests'[r] = RequestFields
    PROVE  RequestHolds(requests[r])'
<1> PICK p : p = requests[r]
  OBVIOUS
<1> PICK q : q = requests'[r]
  OBVIOUS
<1>1. RequestHolds(p) /\ SameRequest(p, q) /\ DOMAIN q = RequestFields
  OBVIOUS
<1>2. \A row : RowHolds(row) => RowHolds(row)'
  BY DEF RowHolds, Grows, ToolRows
<1>3. LoadHolds(p) => LoadHolds(q)'
  BY <1>1 DEF LoadHolds, SameRequest, Grows
<1>4. SyncHolds(p) => SyncHolds(q)'
  BY <1>1 DEF SyncHolds, SameRequest, Grows, ServerRows
<1>5. ASSUME PlanHolds(p)
      PROVE  PlanHolds(q)'
  <2>1. q.body = p.body
    BY <1>1 DEF SameRequest
  <2> PICK plan : plan = p.body
    OBVIOUS
  <2>2. /\ DOMAIN plan = {"offer", "match", "gone", "names"}
        /\ plan.offer \in Discoveries
        /\ plan.match \in [DOMAIN plan.offer -> ToolRows \cup {None}]
        /\ \A n \in DOMAIN plan.match :
              plan.match[n] # None => tools[plan.match[n].id].state # "absent"
        /\ \A g \in plan.gone : RowHolds(g)
    BY <1>5 DEF PlanHolds
  <2>3. \A g \in plan.gone : RowHolds(g)'
    BY <1>2, <2>2
  <2>4. ASSUME NEW n \in DOMAIN plan.match, plan.match[n] # None
        PROVE  tools'[plan.match[n].id].state # "absent"
    <3>1. plan.match[n] \in ToolRows
      BY <2>2, <2>4
    <3>2. plan.match[n].id \in Tools
      BY <3>1 DEF ToolRows
    <3> QED BY <2>2, <2>4, <3>2 DEF Grows
  <2>5. q.body = plan
    BY <2>1
  <2> QED BY <2>2, <2>3, <2>4, <2>5 DEF PlanHolds
<1>6. ASSUME NEW t \in Tools, RowHolds(tools[t])
      PROVE  RowHolds(tools[t])'
  <2>1. tools'[t] \in ToolRows /\ tools'[t].id = t /\ tools[t].id = t
    BY DEF CatalogueHolds
  <2> QED BY <1>6, <2>1 DEF RowHolds, Grows
<1>7. ASSUME TurnHolds(p)
      PROVE  TurnHolds(q)'
  <2>1. CASE p.turn \in {"all", "risk"} /\ p.op \in RuleOperations \cup {"register", "summary"}
    BY <1>1, <1>7, <2>1 DEF TurnHolds, SameRequest
  <2>2. CASE p.turn = "tool"
    BY <1>1, <1>2, <1>6, <1>7, <2>2 DEF TurnHolds, SameRequest
  <2>3. CASE p.turn = "review"
    BY <1>1, <1>2, <1>7, <2>3 DEF TurnHolds, SameRequest
  <2>4. CASE p.turn = "sync"
    BY <1>1, <1>4, <1>5, <1>7, <2>4 DEF TurnHolds, SameRequest
  <2> QED BY <1>7, <2>1, <2>2, <2>3, <2>4 DEF TurnHolds
<1> QED BY <1>1, <1>3, <1>4, <1>7 DEF RequestHolds, SameRequest, ViewHolds

\* Only operations that reconcile and transitions of alerts are ever in progress.
LEMMA ProgressOps ==
    ASSUME NEW r \in Requests, RequestHolds(requests[r]), InProgress(r)
    PROVE  requests[r].op \in Reconcilers \cup AlertOperations
  BY DEF RequestHolds, InProgress, Ended, LoadHolds, TurnHolds, SyncHolds, Reconcilers,
         RuleOperations

\* What a request is when it has begun, and what the others are.
HasBegun(r, op, state) ==
    /\ requests[r].pc = "idle" /\ RequestsTyped'
    /\ requests'[r].op = op /\ requests'[r].alone = (Others(r) = {})
    /\ \A f \in RequestFields \ {"op", "alone"} :
          requests'[r][f] = IF f \in DOMAIN state THEN state[f] ELSE IdleRequest[f]
    /\ \A q \in Requests \ {r} :
          /\ SameRequest(requests[q], requests'[q])
          /\ InProgress(q) => requests'[q].alone = FALSE

LEMMA Begun ==
    ASSUME RequestsTyped, NEW r \in Requests, NEW op, NEW state, Begins(r, op, state)
    PROVE  HasBegun(r, op, state)
<1> PICK base : base = With(IdleRequest, state)
  OBVIOUS
<1> PICK none : none = (Others(r) = {})
  OBVIOUS
<1>1. /\ DOMAIN base = RequestFields
      /\ \A f \in RequestFields : base[f] = IF f \in DOMAIN state THEN state[f]
                                            ELSE IdleRequest[f]
  <2>1. DOMAIN IdleRequest = RequestFields
    BY DEF IdleRequest, RequestFields
  <2> QED BY <2>1, WithFields
<1>2. /\ requests[r].pc = "idle"
      /\ requests' = [q \in Requests |->
            IF q = r THEN [base EXCEPT !.op = op, !.alone = none]
            ELSE IF InProgress(q) THEN [requests[q] EXCEPT !.alone = FALSE]
            ELSE requests[q]]
  BY DEF Begins
<1>3. requests'[r] = [base EXCEPT !.op = op, !.alone = none]
  BY <1>2
<1>4. /\ DOMAIN requests'[r] = RequestFields
      /\ requests'[r].op = op /\ requests'[r].alone = none
      /\ \A f \in RequestFields \ {"op", "alone"} : requests'[r][f] = base[f]
  BY <1>1, <1>3 DEF RequestFields
<1>5. ASSUME NEW q \in Requests \ {r}
      PROVE  /\ SameRequest(requests[q], requests'[q])
             /\ InProgress(q) => requests'[q].alone = FALSE
             /\ DOMAIN requests'[q] = RequestFields
  <2>1. requests'[q] = IF InProgress(q) THEN [requests[q] EXCEPT !.alone = FALSE]
                       ELSE requests[q]
    BY <1>2
  <2>2. DOMAIN requests[q] = RequestFields
    BY DEF RequestsTyped
  <2>3. CASE InProgress(q)
    BY <2>1, <2>2, <2>3 DEF SameRequest, RequestFields
  <2>4. CASE ~InProgress(q)
    BY <2>1, <2>2, <2>4 DEF SameRequest
  <2> QED BY <2>3, <2>4
<1>6. RequestsTyped'
  BY <1>2, <1>4, <1>5 DEF RequestsTyped
<1> QED BY <1>1, <1>2, <1>4, <1>5, <1>6 DEF HasBegun

\* The invariant survives the beginning of a request.
LEMMA BeginKeeps ==
    ASSUME GovernanceInv, NEW r \in Requests, NEW op, NEW state, Begins(r, op, state),
           Grows, CatalogueHolds', UNCHANGED projections, RequestHolds(requests[r])',
           requests'[r].pc \in {"loaded", "reconcile", "discovering", "done"},
           op \in AlertOperations => requests'[r].seen \in alerts,
           requests'[r].pc = "loaded" /\ op = "create rule" =>
              rules'[requests'[r].target] = None,
           requests'[r].pc = "loaded" /\ op = "update tool" =>
              /\ tools'[requests'[r].target] = requests'[r].seen
              /\ "name" \in DOMAIN requests'[r].body =>
                    \/ requests'[r].body.name = requests'[r].seen.name
                    \/ ~NameTaken(requests[r].seen.agent, requests[r].body.name)'
    PROVE  GovernanceInv'
<1>1. RequestsTyped /\ CatalogueHolds
  BY DEF GovernanceInv, RequestsTyped, RequestHolds
<1>2. /\ requests[r].pc = "idle" /\ RequestsTyped'
      /\ requests'[r].op = op /\ requests'[r].alone = (Others(r) = {})
      /\ \A q \in Requests \ {r} :
            /\ SameRequest(requests[q], requests'[q])
            /\ InProgress(q) => requests'[q].alone = FALSE
  BY <1>1, Begun DEF HasBegun
<1>3. /\ mishaps' = mishaps \cup Mishaps(r, op)
      /\ trusted' = (trusted /\ Others(r) = {} /\ op \notin AlertOperations)
  BY DEF Begins
<1>4. ~InProgress(r) /\ \A q \in Requests \ {r} : InProgress(q)' <=> InProgress(q)
  BY <1>2 DEF InProgress, Ended, SameRequest
<1>5. Others(r)' = Others(r) /\ \A q \in Requests : r \notin Others(q)
  BY <1>4 DEF Others
<1>6. \A q \in Requests : RequestHolds(requests[q])'
  BY <1>1, <1>2, RequestKept DEF GovernanceInv, RequestsTyped
<1>7. ASSUME NEW q \in Requests
      PROVE  AloneHolds(q)'
  <2>1. CASE q = r
    <3>1. requests'[r].alone => Others(r)' = {}
      BY <1>2, <1>5
    <3>2. requests'[r].pc \notin {"read", "projected", "built", "failing"}
      OBVIOUS
    <3>3. requests'[r].op = op
      BY <1>2
    <3> QED BY <2>1, <3>1, <3>2, <3>3 DEF AloneHolds
  <2>2. CASE q # r
    BY <1>2, <1>4, <2>2 DEF AloneHolds
  <2> QED BY <2>1, <2>2
<1>8. RegisterHolds'
  BY <1>3 DEF RegisterHolds, GovernanceInv, projections
<1>9. alerts' = alerts /\ doubled' = doubled
  BY DEF projections
<1>10. AlertsHold'
  BY <1>9 DEF GovernanceInv, AlertsHold, Numbers, Of
<1>11. FieldsMatchStatus'
  BY <1>3, <1>9 DEF GovernanceInv, FieldsMatchStatus
<1>12. ASSUME "transition met" \notin mishaps', NEW q \in Requests, InProgress(q)',
              requests'[q].op \in AlertOperations
       PROVE  Others(q)' = {} /\ requests'[q].seen \in alerts'
  <2>1. \A p \in Others(r) : {op, requests[p].op} \cap AlertOperations = {}
    BY <1>3, <1>12 DEF Mishaps
  <2>2. CASE q = r
    BY <1>2, <1>5, <1>9, <1>12, <2>1, <2>2
  <2>3. CASE q # r
    <3>1. q \in Others(r) /\ requests[q].op = requests'[q].op
      BY <1>2, <1>4, <1>12, <2>3 DEF Others, SameRequest
    <3> QED BY <1>12, <2>1, <3>1
  <2> QED BY <2>2, <2>3
<1>13. ASSUME mishaps' \cap {"reconciliations met", "transition met"} = {},
              NEW q \in Requests, InProgress(q)'
       PROVE  /\ Others(q)' = {}
              /\ requests'[q].pc = "read" => requests'[q].view.active = ActiveAlerts'
  <2>1. \A p \in Others(r) : /\ ~({op, requests[p].op} \subseteq Reconcilers)
                             /\ {op, requests[p].op} \cap AlertOperations = {}
    BY <1>3, <1>13 DEF Mishaps
  <2>2. \A p \in Others(r) : requests[p].op \in Reconcilers \cup AlertOperations
    BY ProgressOps DEF GovernanceInv, Others
  <2>3. CASE InProgress(r)'
    <3>1. op \in Reconcilers \cup AlertOperations
      <4>1. RequestHolds(requests[r])' /\ requests'[r].pc \notin Ended
        BY <1>6, <2>3 DEF InProgress
      <4> QED BY <1>2, <4>1 DEF RequestHolds, Ended, LoadHolds, TurnHolds, SyncHolds,
                                Reconcilers, RuleOperations
    <3>2. Others(r) = {}
      BY <2>1, <2>2, <3>1
    <3>3. q = r
      BY <1>4, <1>13, <3>2 DEF Others
    <3> QED BY <1>5, <3>2, <3>3
  <2>4. CASE ~InProgress(r)'
    <3>1. q # r /\ InProgress(q) /\ requests'[q].pc = requests[q].pc
          /\ requests'[q].view = requests[q].view
      BY <1>2, <1>4, <1>13, <2>4 DEF SameRequest
    <3>2. mishaps \cap {"reconciliations met", "transition met"} = {}
      BY <1>3, <1>13
    <3>3. /\ Others(q) = {}
          /\ requests[q].pc = "read" => requests[q].view.active = ActiveAlerts
      BY <3>1, <3>2 DEF GovernanceInv, ReconcilersHold
    <3>4. Others(q)' = {}
      BY <1>4, <2>4, <3>3 DEF Others
    <3> QED BY <1>9, <3>1, <3>3, <3>4 DEF ActiveAlerts
  <2> QED BY <2>3, <2>4
<1>14. ASSUME mishaps' \cap {"reconciliations met", "reopened", "transition met"} = {}
       PROVE  /\ doubled' = {} /\ Doubles(alerts') = {}
              /\ \A q \in Requests : InProgress(q)' => requests'[q].op # "reopen"
  <2>1. mishaps \cap {"reconciliations met", "reopened", "transition met"} = {}
    BY <1>3, <1>14
  <2>2. op # "reopen"
    BY <1>3, <1>14 DEF Mishaps
  <2>3. ASSUME NEW q \in Requests, InProgress(q)'
        PROVE  requests'[q].op # "reopen"
    <3>1. CASE q = r
      BY <1>2, <2>2, <3>1
    <3>2. CASE q # r
      <4>1. InProgress(q) /\ requests'[q].op = requests[q].op
        BY <1>2, <1>4, <2>3, <3>2 DEF SameRequest
      <4> QED BY <2>1, <4>1 DEF GovernanceInv, DoublesHold
    <3> QED BY <3>1, <3>2
  <2> QED BY <1>9, <2>1, <2>3 DEF GovernanceInv, DoublesHold
<1>15. TransitionsHold'
  BY <1>12 DEF TransitionsHold
<1>16. ReconcilersHold'
  BY <1>13 DEF ReconcilersHold
<1>17. DoublesHold'
  BY <1>14 DEF DoublesHold
<1> QED BY <1>2, <1>6, <1>7, <1>8, <1>10, <1>11, <1>15, <1>16, <1>17
        DEF GovernanceInv, RequestsTyped

\* A step of a request is a step of that request alone.
LEMMA OthersKept ==
    ASSUME RequestsTyped, NEW r \in Requests, NEW next,
           requests' = [requests EXCEPT ![r] = next]
    PROVE  /\ DOMAIN requests' = Requests /\ requests'[r] = next
           /\ \A q \in Requests \ {r} : requests'[q] = requests[q]
           /\ \A q \in Requests \ {r} : InProgress(q)' <=> InProgress(q)
           /\ Others(r)' = Others(r)
<1>1. /\ DOMAIN requests' = Requests /\ requests'[r] = next
      /\ \A q \in Requests \ {r} : requests'[q] = requests[q]
  BY DEF RequestsTyped
<1>2. \A q \in Requests \ {r} : InProgress(q)' <=> InProgress(q)
  BY <1>1 DEF InProgress
<1> QED BY <1>1, <1>2 DEF Others

\* The invariant survives a step of a request that has begun.
LEMMA StepKeeps ==
    ASSUME GovernanceInv, NEW r \in Requests, InProgress(r), NEW next,
           requests' = [requests EXCEPT ![r] = next], Grows, mishaps' = mishaps,
           CatalogueHolds', RegisterHolds', AlertsHold', FieldsMatchStatus',
           RequestHolds(requests[r])', AloneHolds(r)',
           next.pc \notin Ended =>
              next.op = requests[r].op /\ next.op \notin AlertOperations,
           mishaps \cap {"reconciliations met", "transition met"} = {} /\ next.pc = "read" =>
              next.view.active = ActiveAlerts',
           mishaps \cap {"reconciliations met", "reopened", "transition met"} = {} =>
              NoDoubles'
    PROVE  GovernanceInv'
<1>1. RequestsTyped
  BY DEF GovernanceInv, RequestsTyped, RequestHolds
<1>2. /\ DOMAIN requests' = Requests /\ requests'[r] = next
      /\ \A q \in Requests \ {r} : requests'[q] = requests[q]
      /\ \A q \in Requests \ {r} : InProgress(q)' <=> InProgress(q)
      /\ Others(r)' = Others(r)
  BY <1>1, OthersKept
<1>3. InProgress(r)' <=> next.pc \notin Ended
  BY <1>2 DEF InProgress
<1>4. \A q \in Requests \ {r} : r \in Others(q)
  BY DEF Others
<1>5. ASSUME NEW q \in Requests \ {r}
      PROVE  RequestHolds(requests[q])'
  <2>1. SameRequest(requests[q], requests'[q]) /\ DOMAIN requests'[q] = RequestFields
    BY <1>1, <1>2 DEF SameRequest, RequestsTyped
  <2> QED BY <2>1, RequestKept DEF GovernanceInv
<1>6. ASSUME NEW q \in Requests \ {r}
      PROVE  AloneHolds(q)'
  <2>1. ~(requests[q].alone /\ InProgress(q))
    BY <1>4 DEF GovernanceInv, AloneHolds
  <2> QED BY <1>2, <2>1 DEF AloneHolds
<1>7. ASSUME "transition met" \notin mishaps', NEW q \in Requests, InProgress(q)',
             requests'[q].op \in AlertOperations
      PROVE  Others(q)' = {} /\ requests'[q].seen \in alerts'
  <2>1. q # r
    BY <1>2, <1>3, <1>7
  <2>2. InProgress(q) /\ requests[q].op \in AlertOperations
    BY <1>2, <1>7, <2>1
  <2>3. Others(q) = {}
    BY <1>7, <2>2 DEF GovernanceInv, TransitionsHold
  <2> QED BY <1>4, <2>1, <2>3
<1>8. ASSUME mishaps' \cap {"reconciliations met", "transition met"} = {},
             NEW q \in Requests, InProgress(q)'
      PROVE  /\ Others(q)' = {}
             /\ requests'[q].pc = "read" => requests'[q].view.active = ActiveAlerts'
  <2>1. mishaps \cap {"reconciliations met", "transition met"} = {}
    BY <1>8
  <2>2. \A p \in Requests : InProgress(p) => Others(p) = {}
    BY <2>1 DEF GovernanceInv, ReconcilersHold
  <2>3. q = r
    BY <1>2, <1>4, <1>8, <2>2
  <2> QED BY <1>2, <2>1, <2>2, <2>3
<1>9. ASSUME mishaps' \cap {"reconciliations met", "reopened", "transition met"} = {}
      PROVE  /\ doubled' = {} /\ Doubles(alerts') = {}
             /\ \A q \in Requests : InProgress(q)' => requests'[q].op # "reopen"
  <2>1. mishaps \cap {"reconciliations met", "reopened", "transition met"} = {}
    BY <1>9
  <2>2. \A q \in Requests : InProgress(q) => requests[q].op # "reopen"
    BY <2>1 DEF GovernanceInv, DoublesHold
  <2>3. ASSUME NEW q \in Requests, InProgress(q)'
        PROVE  requests'[q].op # "reopen"
    <3>1. CASE q = r
      BY <1>2, <1>3, <2>2, <2>3, <3>1
    <3>2. CASE q # r
      BY <1>2, <2>2, <2>3, <3>2
    <3> QED BY <3>1, <3>2
  <2>4. doubled' = {} /\ Doubles(alerts') = {}
    BY <2>1 DEF NoDoubles
  <2> QED BY <2>3, <2>4
<1>10. TransitionsHold'
  BY <1>7 DEF TransitionsHold
<1>11. ReconcilersHold'
  BY <1>8 DEF ReconcilersHold
<1>12. DoublesHold'
  BY <1>9 DEF DoublesHold
<1> QED BY <1>2, <1>5, <1>6, <1>10, <1>11, <1>12 DEF GovernanceInv

-----------------------------------------------------------------------------
(***************************************************************************)
(* What a step leaves alone, and what a transaction leaves.                *)
(***************************************************************************)
LEMMA CatalogueKept ==
    ASSUME CatalogueHolds, UNCHANGED catalogue
    PROVE  CatalogueHolds' /\ Grows
  BY DEF CatalogueHolds, Grows, catalogue

LEMMA AlertsKept ==
    ASSUME GovernanceInv, UNCHANGED <<alerts, doubled, mishaps>>
    PROVE  /\ AlertsHold' /\ FieldsMatchStatus'
           /\ mishaps \cap {"reconciliations met", "reopened", "transition met"} = {}
              => NoDoubles'
<1>1. AlertsHold'
  BY DEF GovernanceInv, AlertsHold, Numbers, Of
<1>2. FieldsMatchStatus'
  BY DEF GovernanceInv, FieldsMatchStatus
<1>3. ASSUME mishaps \cap {"reconciliations met", "reopened", "transition met"} = {}
      PROVE  NoDoubles'
  <2>1. doubled = {} /\ Doubles(alerts) = {}
    BY <1>3 DEF GovernanceInv, DoublesHold
  <2> QED BY <2>1 DEF NoDoubles
<1> QED BY <1>1, <1>2, <1>3

LEMMA Reconciled ==
    ASSUME GovernanceInv, NEW r \in Requests, requests[r].pc = "read",
           NEW wants \in SUBSET WantRows, Reconciles(wants, requests[r].view.active),
           mishaps' = mishaps
    PROVE  /\ AlertsHold' /\ FieldsMatchStatus'
           /\ mishaps \cap {"reconciliations met", "reopened", "transition met"} = {}
              => NoDoubles'
<1> PICK active : active = requests[r].view.active
  OBVIOUS
<1>1. AlertsHold /\ Reconciles(wants, active)
  BY DEF GovernanceInv
<1>2. /\ AlertsHold'
      /\ (\A a \in alerts : Consistent(a)) => (\A a \in alerts' : Consistent(a))
      /\ NoDoubles /\ active = ActiveAlerts => NoDoubles'
  BY <1>1, ReconcilesKeeps
<1>3. FieldsMatchStatus'
  BY <1>2 DEF GovernanceInv, FieldsMatchStatus, Consistent
<1>4. ASSUME mishaps \cap {"reconciliations met", "reopened", "transition met"} = {}
      PROVE  NoDoubles'
  <2>1. NoDoubles
    BY <1>4 DEF GovernanceInv, DoublesHold, NoDoubles
  <2>2. InProgress(r) /\ mishaps \cap {"reconciliations met", "transition met"} = {}
    BY <1>4 DEF InProgress, Ended
  <2>3. active = ActiveAlerts
    BY <2>2 DEF GovernanceInv, ReconcilersHold
  <2> QED BY <1>2, <2>1, <2>3
<1> QED BY <1>2, <1>3, <1>4

LEMMA Registered ==
    ASSUME RegisterHolds, NEW v, ViewHolds(v), SetRegister(v), snapshot' = snapshot,
           trusted' \in BOOLEAN
    PROVE  RegisterHolds'
  BY RegisterAfterType DEF RegisterHolds, SetRegister

\* A request that has ended holds nothing.
LEMMA EndKeeps ==
    ASSUME GovernanceInv, NEW r \in Requests, InProgress(r), NEW pc \in Ended, Ends(r, pc),
           Grows, mishaps' = mishaps, CatalogueHolds', RegisterHolds', AlertsHold',
           FieldsMatchStatus',
           mishaps \cap {"reconciliations met", "reopened", "transition met"} = {} =>
              NoDoubles'
    PROVE  GovernanceInv'
<1> PICK next : next = [IdleRequest EXCEPT !.pc = pc]
  OBVIOUS
<1>1. DOMAIN next = RequestFields /\ next.pc = pc /\ requests' = [requests EXCEPT ![r] = next]
  BY DEF IdleRequest, RequestFields, Ends
<1>2. requests'[r] = next
  BY <1>1 DEF GovernanceInv
<1>3. RequestHolds(requests[r])'
  BY <1>1, <1>2 DEF RequestHolds, Ended
<1>4. AloneHolds(r)'
  BY <1>1, <1>2 DEF AloneHolds, InProgress
<1>5. next.pc \in Ended /\ next.pc # "read"
  BY <1>1 DEF Ended
<1> QED BY <1>1, <1>3, <1>4, <1>5, StepKeeps

-----------------------------------------------------------------------------
(***************************************************************************)
(* The actions that begin a request.                                       *)
(***************************************************************************)
LEMMA CreateRuleKeeps ==
    ASSUME GovernanceInv, NEW r \in Requests, NEW i \in RuleIds, NEW body \in RuleBodies,
           LoadRuleToCreate(r, i, body)
    PROVE  GovernanceInv'
<1>0. PICK state : state = [pc |-> "loaded", target |-> i, body |-> body]
  OBVIOUS
<1>1. /\ Begins(r, "create rule", state) /\ rules[i] = None
      /\ UNCHANGED catalogue /\ UNCHANGED projections
  BY <1>0 DEF LoadRuleToCreate, catalogue, projections
<1>2. CatalogueHolds' /\ Grows
  BY <1>1, CatalogueKept DEF GovernanceInv
<1>3. /\ DOMAIN requests'[r] = RequestFields /\ requests'[r].op = "create rule"
      /\ requests'[r].view = NoView /\ requests'[r].pc = "loaded"
      /\ requests'[r].target = i /\ requests'[r].body = body
  <2>1. RequestsTyped
    BY DEF GovernanceInv, RequestsTyped, RequestHolds
  <2>2. IdleRequest.view = NoView
    BY DEF IdleRequest
  <2>5. Begins(r, "create rule", state)
    BY <1>1
  <2>3. HasBegun(r, "create rule", state)
    BY <2>1, <2>5, Begun
  <2> QED BY <1>0, <2>2, <2>3 DEF HasBegun, RequestsTyped, RequestFields
<1>4. RequestHolds(requests[r])'
  BY <1>3 DEF RequestHolds, LoadHolds, Ended
<1>5. rules'[i] = None
  BY <1>1 DEF catalogue
<1> QED BY <1>1, <1>2, <1>3, <1>4, <1>5, BeginKeeps DEF AlertOperations

LEMMA LoadRuleKeeps ==
    ASSUME GovernanceInv, NEW r \in Requests, NEW i \in RuleIds, NEW op, NEW body,
           op = "update rule" => body \in RuleBodies, LoadRule(r, i, op, body)
    PROVE  GovernanceInv'
<1>0. PICK state : state = [pc |-> "loaded", target |-> i, seen |-> rules[i],
                          body |-> IF op = "delete rule" THEN [deleted |-> TRUE] ELSE body,
                          covered |-> CoveredTools]
  OBVIOUS
<1>1. /\ Begins(r, op, state) /\ op \in {"update rule", "delete rule"}
      /\ rules[i] # None /\ UNCHANGED catalogue /\ UNCHANGED projections
  BY <1>0 DEF LoadRule, RuleExists, catalogue, projections
<1>2. CatalogueHolds' /\ Grows
  BY <1>1, CatalogueKept DEF GovernanceInv
<1>3. /\ DOMAIN requests'[r] = RequestFields /\ requests'[r].op = op
      /\ requests'[r].view = NoView /\ requests'[r].pc = "loaded"
      /\ requests'[r].target = i
      /\ requests'[r].seen = rules[i]
      /\ requests'[r].body = IF op = "delete rule" THEN [deleted |-> TRUE] ELSE body
  <2>1. RequestsTyped
    BY DEF GovernanceInv, RequestsTyped, RequestHolds
  <2>2. IdleRequest.view = NoView
    BY DEF IdleRequest
  <2>5. Begins(r, op, state)
    BY <1>1
  <2>3. HasBegun(r, op, state)
    BY <2>1, <2>5, Begun
  <2> QED BY <1>0, <2>2, <2>3 DEF HasBegun, RequestsTyped, RequestFields
<1>4. rules[i] \in RuleRows /\ rules[i].id = i /\ rules'[i] # None
  BY <1>1 DEF GovernanceInv, CatalogueHolds, catalogue
<1>5. RequestHolds(requests[r])'
  BY <1>1, <1>3, <1>4 DEF RequestHolds, LoadHolds, Ended
<1> QED BY <1>1, <1>2, <1>3, <1>5, BeginKeeps DEF AlertOperations

LEMMA ReviewToolKeeps ==
    ASSUME GovernanceInv, NEW r \in Requests, NEW t \in Tools, NEW review \in Reviews,
           ReviewTool(r, t, review)
    PROVE  GovernanceInv'
<1>9. PICK body : body = [risk |-> review.risk, permission |-> review.permission,
                        reviewed |-> TRUE]
  OBVIOUS
<1>0. PICK state : state = [pc |-> "reconcile", turn |-> "review", target |-> t,
                          seen |-> tools[t], body |-> body]
  OBVIOUS
<1>1. /\ Begins(r, "review tool", state) /\ tools[t].state = "live"
      /\ tools[t].server # None /\ UNCHANGED catalogue /\ UNCHANGED projections
  BY <1>0, <1>9 DEF ReviewTool, catalogue, projections
<1>2. CatalogueHolds' /\ Grows
  BY <1>1, CatalogueKept DEF GovernanceInv
<1>3. /\ DOMAIN requests'[r] = RequestFields /\ requests'[r].op = "review tool"
      /\ requests'[r].pc = "reconcile" /\ requests'[r].turn = "review"
      /\ requests'[r].target = t /\ requests'[r].seen = tools[t]
      /\ requests'[r].body = body /\ requests'[r].view = NoView
  <2>1. RequestsTyped
    BY DEF GovernanceInv, RequestsTyped, RequestHolds
  <2>2. IdleRequest.view = NoView
    BY DEF IdleRequest
  <2>5. Begins(r, "review tool", state)
    BY <1>1
  <2>3. HasBegun(r, "review tool", state)
    BY <2>1, <2>5, Begun
  <2> QED BY <1>0, <2>2, <2>3 DEF HasBegun, RequestsTyped, RequestFields
<1>4. tools[t] \in ToolRows /\ tools[t].id = t /\ tools'[t] = tools[t]
  BY <1>1 DEF GovernanceInv, CatalogueHolds, catalogue
<1>5. body \in [risk : RiskLevels, permission : Permissions, reviewed : {TRUE}]
  BY <1>9, GovernanceAssumption
<1>6. RowHolds(tools[t])'
  BY <1>1, <1>4 DEF RowHolds
<1>7. TurnHolds(requests[r])'
  BY <1>3, <1>4, <1>5, <1>6 DEF TurnHolds
<1>8. RequestHolds(requests[r])'
  BY <1>3, <1>7 DEF RequestHolds, Ended
<1> QED BY <1>1, <1>2, <1>3, <1>8, BeginKeeps DEF AlertOperations

LEMMA LoadToolKeeps ==
    ASSUME GovernanceInv, NEW r \in Requests, NEW t \in Tools, NEW patch \in ToolPatches,
           LoadTool(r, t, patch)
    PROVE  GovernanceInv'
<1>0. PICK state : state = [pc |-> "loaded", target |-> t, seen |-> tools[t], body |-> patch]
  OBVIOUS
<1>1. /\ Begins(r, "update tool", state) /\ tools[t].state = "live"
      /\ "name" \in DOMAIN patch =>
            patch.name = tools[t].name \/ ~NameTaken(tools[t].agent, patch.name)
      /\ UNCHANGED catalogue /\ UNCHANGED projections
  BY <1>0 DEF LoadTool, catalogue, projections
<1>2. CatalogueHolds' /\ Grows
  BY <1>1, CatalogueKept DEF GovernanceInv
<1>3. /\ DOMAIN requests'[r] = RequestFields /\ requests'[r].op = "update tool"
      /\ requests'[r].view = NoView /\ requests'[r].pc = "loaded"
      /\ requests'[r].target = t
      /\ requests'[r].seen = tools[t] /\ requests'[r].body = patch
  <2>1. RequestsTyped
    BY DEF GovernanceInv, RequestsTyped, RequestHolds
  <2>2. IdleRequest.view = NoView
    BY DEF IdleRequest
  <2>5. Begins(r, "update tool", state)
    BY <1>1
  <2>3. HasBegun(r, "update tool", state)
    BY <2>1, <2>5, Begun
  <2> QED BY <1>0, <2>2, <2>3 DEF HasBegun, RequestsTyped, RequestFields
<1>4. tools[t] \in ToolRows /\ tools[t].id = t /\ tools' = tools
  BY <1>1 DEF GovernanceInv, CatalogueHolds, catalogue
<1>5. IsToolPatch(patch)
  BY GovernanceAssumption
<1>6. LoadHolds(requests[r])'
  BY <1>1, <1>3, <1>4, <1>5 DEF LoadHolds
<1>7. RequestHolds(requests[r])'
  BY <1>3, <1>6 DEF RequestHolds, Ended
<1>8. \A name : NameTaken(tools[t].agent, name) =
                   (\E u \in Tools : /\ tools[u].state = "live"
                                     /\ tools[u].agent = tools[t].agent /\ tools[u].name = name)
  BY DEF NameTaken
<1>9. "name" \in DOMAIN patch =>
         patch.name = tools[t].name \/ ~NameTaken(requests[r].seen.agent, requests[r].body.name)'
  BY <1>1, <1>3, <1>4, <1>8 DEF NameTaken
<1> QED BY <1>1, <1>2, <1>3, <1>4, <1>7, <1>9, BeginKeeps DEF AlertOperations

LEMMA DeletionKeeps ==
    ASSUME GovernanceInv, NEW r \in Requests, NEW op \in {"delete", "relink"},
           Begins(r, op, [pc |-> "done"]), UNCHANGED projections, CatalogueHolds', Grows
    PROVE  GovernanceInv'
<1>0. PICK state : state = [pc |-> "done"]
  OBVIOUS
<1>4. Begins(r, op, state)
  BY <1>0
<1>1. /\ DOMAIN requests'[r] = RequestFields /\ requests'[r].op = op
      /\ requests'[r].pc = "done"
  <2>1. RequestsTyped
    BY DEF GovernanceInv, RequestsTyped, RequestHolds
  <2>3. HasBegun(r, op, state)
    BY <1>4, <2>1, Begun
  <2> QED BY <1>0, <2>3 DEF HasBegun, RequestsTyped, RequestFields
<1>2. RequestHolds(requests[r])'
  BY <1>1 DEF RequestHolds, Ended
<1> QED BY <1>1, <1>2, BeginKeeps DEF AlertOperations

LEMMA DeleteKeeps ==
    ASSUME GovernanceInv, NEW r \in Requests,
           \/ \E t \in Tools : DeleteTool(r, t)
           \/ \E s \in Servers : DeleteServer(r, s)
           \/ \E a \in Agents : DeleteAgent(r, a)
           \/ \E s \in Servers, a \in Agents \cup {None} : RelinkServer(r, s, a)
    PROVE  GovernanceInv'
<1>1. ASSUME NEW t \in Tools, DeleteTool(r, t)
      PROVE  GovernanceInv'
  <2>1. CatalogueHolds' /\ Grows
    BY <1>1 DEF DeleteTool, GovernanceInv, CatalogueHolds, Grows, ToolRows
  <2> QED BY <1>1, <2>1, DeletionKeeps DEF DeleteTool
<1>2. ASSUME NEW s \in Servers, DeleteServer(r, s)
      PROVE  GovernanceInv'
  <2> PICK row : row = [servers[s] EXCEPT !.deleted = TRUE]
    OBVIOUS
  <2>2. servers' = [servers EXCEPT ![s] = row] /\ UNCHANGED <<agents, tools, rules>>
    BY <1>2 DEF DeleteServer
  <2>3. row \in ServerRows /\ row.agent = servers[s].agent
    BY DEF GovernanceInv, CatalogueHolds, ServerRows
  <2>1. CatalogueHolds' /\ Grows
    BY <2>2, <2>3 DEF GovernanceInv, CatalogueHolds, Grows
  <2> QED BY <1>2, <2>1, DeletionKeeps DEF DeleteServer
<1>3. ASSUME NEW a \in Agents, DeleteAgent(r, a)
      PROVE  GovernanceInv'
  <2>1. CatalogueHolds' /\ Grows
    BY <1>3 DEF DeleteAgent, GovernanceInv, CatalogueHolds, Grows, ServerRows
  <2> QED BY <1>3, <2>1, DeletionKeeps DEF DeleteAgent
<1>4. ASSUME NEW s \in Servers, NEW a \in Agents \cup {None}, RelinkServer(r, s, a)
      PROVE  GovernanceInv'
  <2> DEFINE row == [servers[s] EXCEPT !.agent = a]
  <2>a. servers' = [servers EXCEPT ![s] = row] /\ UNCHANGED <<agents, tools, rules, projections>>
    BY <1>4 DEF RelinkServer
  <2>b. row \in ServerRows /\ row.agent = a /\ (a # None => agents[a] # "absent")
    <3>1. servers[s] \in ServerRows
      BY DEF GovernanceInv, CatalogueHolds
    <3>2. row \in ServerRows /\ row.agent = a
      BY <3>1 DEF ServerRows
    <3>3. a # None => agents[a] = "live"
      BY <1>4 DEF RelinkServer
    <3> QED BY <3>2, <3>3
  <2> HIDE DEF row
  <2>c. servers' \in [Servers -> ServerRows] /\ UNCHANGED <<agents, tools, rules>>
    BY <2>a, <2>b DEF GovernanceInv, CatalogueHolds
  <2>d. \A v \in Servers : servers'[v].agent # None => agents'[servers'[v].agent] # "absent"
    BY <2>a, <2>b DEF GovernanceInv, CatalogueHolds
  <2>1. CatalogueHolds' /\ Grows
    BY <2>c, <2>d DEF GovernanceInv, CatalogueHolds, Grows
  <2> QED BY <1>4, <2>1, DeletionKeeps DEF RelinkServer
<1> QED BY <1>1, <1>2, <1>3, <1>4

LEMMA LoadAlertKeeps ==
    ASSUME GovernanceInv, NEW r \in Requests, NEW a \in alerts, NEW op \in AlertOperations,
           LoadAlert(r, a, op)
    PROVE  GovernanceInv'
<1>0. PICK state : state = [pc |-> "loaded", seen |-> a]
  OBVIOUS
<1>1. /\ Begins(r, op, state) /\ a.status \in From(op)
      /\ UNCHANGED catalogue /\ UNCHANGED projections
  BY <1>0 DEF LoadAlert, catalogue, projections
<1>2. CatalogueHolds' /\ Grows
  BY <1>1, CatalogueKept DEF GovernanceInv
<1>3. /\ DOMAIN requests'[r] = RequestFields /\ requests'[r].op = op
      /\ requests'[r].view = NoView /\ requests'[r].pc = "loaded"
      /\ requests'[r].seen = a
  <2>1. RequestsTyped
    BY DEF GovernanceInv, RequestsTyped, RequestHolds
  <2>2. IdleRequest.view = NoView
    BY DEF IdleRequest
  <2>5. Begins(r, op, state)
    BY <1>1
  <2>3. HasBegun(r, op, state)
    BY <2>1, <2>5, Begun
  <2> QED BY <1>0, <2>2, <2>3 DEF HasBegun, RequestsTyped, RequestFields
<1>4. a \in AlertRows
  BY DEF GovernanceInv, AlertsHold
<1>5. RequestHolds(requests[r])'
  BY <1>1, <1>3, <1>4 DEF RequestHolds, LoadHolds, Ended
<1> QED BY <1>1, <1>2, <1>3, <1>5, BeginKeeps DEF AlertOperations

LEMMA ReadRegisterKeeps ==
    ASSUME GovernanceInv, NEW r \in Requests, NEW op, ReadRegister(r, op)
    PROVE  GovernanceInv'
<1>0. PICK state : state = [pc |-> "reconcile", turn |-> "risk"]
  OBVIOUS
<1>1. /\ Begins(r, op, state) /\ op \in {"register", "summary"}
      /\ UNCHANGED catalogue /\ UNCHANGED projections
  BY <1>0 DEF ReadRegister, catalogue, projections
<1>2. CatalogueHolds' /\ Grows
  BY <1>1, CatalogueKept DEF GovernanceInv
<1>3. /\ DOMAIN requests'[r] = RequestFields /\ requests'[r].op = op
      /\ requests'[r].pc = "reconcile" /\ requests'[r].turn = "risk"
      /\ requests'[r].view = NoView
  <2>1. RequestsTyped
    BY DEF GovernanceInv, RequestsTyped, RequestHolds
  <2>2. IdleRequest.view = NoView
    BY DEF IdleRequest
  <2>5. Begins(r, op, state)
    BY <1>1
  <2>3. HasBegun(r, op, state)
    BY <2>1, <2>5, Begun
  <2> QED BY <1>0, <2>2, <2>3 DEF HasBegun, RequestsTyped, RequestFields
<1>4. RequestHolds(requests[r])'
  BY <1>1, <1>3 DEF RequestHolds, TurnHolds, Ended
<1> QED BY <1>1, <1>2, <1>3, <1>4, BeginKeeps DEF AlertOperations

LEMMA LoadServerKeeps ==
    ASSUME GovernanceInv, NEW r \in Requests, NEW s \in Servers, LoadServer(r, s)
    PROVE  GovernanceInv'
<1>0. PICK state : state = [pc |-> "discovering", turn |-> "sync", target |-> s,
                          seen |-> servers[s]]
  OBVIOUS
<1>1. /\ Begins(r, "sync", state) /\ UNCHANGED catalogue /\ UNCHANGED projections
  BY <1>0 DEF LoadServer, catalogue, projections
<1>2. CatalogueHolds' /\ Grows
  BY <1>1, CatalogueKept DEF GovernanceInv
<1>3. /\ DOMAIN requests'[r] = RequestFields /\ requests'[r].op = "sync"
      /\ requests'[r].pc = "discovering" /\ requests'[r].turn = "sync"
      /\ requests'[r].target = s /\ requests'[r].seen = servers[s]
  <2>1. RequestsTyped
    BY DEF GovernanceInv, RequestsTyped, RequestHolds
  <2>5. Begins(r, "sync", state)
    BY <1>1
  <2>3. HasBegun(r, "sync", state)
    BY <2>1, <2>5, Begun
  <2> QED BY <1>0, <2>3 DEF HasBegun, RequestsTyped, RequestFields
<1>4. servers[s] \in ServerRows /\ (servers[s].agent # None => agents'[servers[s].agent] # "absent")
  BY <1>1 DEF GovernanceInv, CatalogueHolds, catalogue
<1>5. RequestHolds(requests[r])'
  BY <1>1, <1>3, <1>4 DEF RequestHolds, SyncHolds, Ended
<1> QED BY <1>1, <1>2, <1>3, <1>5, BeginKeeps DEF AlertOperations

-----------------------------------------------------------------------------
(***************************************************************************)
(* The transactions of rules, tools and alerts.                            *)
(***************************************************************************)
LEMMA RuleWritten ==
    ASSUME NEW seen \in RuleRows, NEW body \in RuleBodySpace \cup {[deleted |-> TRUE]}
    PROVE  With(seen, body) \in RuleRows /\ With(seen, body).id = seen.id
<1> DEFINE row == With(seen, body)
<1>1. row = [f \in {"id", "scope", "agent", "tool", "risk", "effect", "priority",
                    "enabled", "deleted"} |-> IF f \in DOMAIN body THEN body[f] ELSE seen[f]]
  BY DEF With, RuleRows
<1> HIDE DEF row
<1>2. CASE body \in RuleBodySpace
  <2>1. /\ DOMAIN body = {"scope", "agent", "tool", "risk", "effect", "priority", "enabled"}
        /\ body.scope \in Scopes /\ body.agent \in Agents \cup {None}
        /\ body.tool \in Tools \cup {None} /\ body.risk \in RiskLevels
        /\ body.effect \in Effects /\ body.priority \in Int /\ body.enabled \in BOOLEAN
    BY <1>2 DEF RuleBodySpace
  <2>2. row \in RuleRows /\ row.id = seen.id
    BY <1>1, <2>1 DEF RuleRows
  <2> QED BY <2>2 DEF row
<1>3. CASE body = [deleted |-> TRUE]
  <2>1. row \in RuleRows /\ row.id = seen.id
    BY <1>1, <1>3 DEF RuleRows
  <2> QED BY <2>1 DEF row
<1> QED BY <1>2, <1>3

LEMMA CommitRuleKeeps ==
    ASSUME GovernanceInv, NEW r \in Requests, CommitRule(r)
    PROVE  GovernanceInv'
<1> PICK q : q = requests[r]
  OBVIOUS
<1> PICK i : i = q.target
  OBVIOUS
<1>1. /\ q.pc = "loaded" /\ q.op \in RuleOperations
      /\ UNCHANGED <<agents, servers, tools>> /\ UNCHANGED <<alerts, doubled, mishaps>>
      /\ UNCHANGED <<records, controls, snapshot, trusted>>
  BY DEF CommitRule, projections, RuleOperations
<1>2. RequestHolds(q) /\ LoadHolds(q) /\ DOMAIN q = RequestFields /\ q.view = NoView
  BY <1>1 DEF GovernanceInv, RequestHolds
<1>3. i \in RuleIds
  BY <1>1, <1>2 DEF LoadHolds, RuleOperations, AlertOperations
<1>4. InProgress(r) /\ RequestsTyped
  BY <1>1 DEF InProgress, Ended, GovernanceInv, RequestsTyped, RequestHolds
<1>5. /\ AlertsHold' /\ FieldsMatchStatus'
      /\ mishaps \cap {"reconciliations met", "reopened", "transition met"} = {} => NoDoubles'
  BY <1>1, AlertsKept
<1>6. RegisterHolds'
  BY <1>1 DEF GovernanceInv, RegisterHolds
<1>7. CASE q.op = "create rule" /\ rules[i] # None
  <2>1. Ends(r, "conflict") /\ UNCHANGED rules
    BY <1>7 DEF CommitRule
  <2>2. CatalogueHolds' /\ Grows
    BY <1>1, <2>1, CatalogueKept DEF GovernanceInv, catalogue
  <2> QED BY <1>1, <1>4, <1>5, <1>6, <2>1, <2>2, EndKeeps DEF Ended
<1>8. CASE ~(q.op = "create rule" /\ rules[i] # None)
  <2> PICK row : row = IF q.op = "create rule" THEN NewRule(i, q.body)
                       ELSE NetChange(rules[i], q.seen, With(q.seen, q.body))
    OBVIOUS
  <2> PICK next : next = [q EXCEPT !.pc = "reconcile", !.turn = "all"]
    OBVIOUS
  <2>1. rules' = [rules EXCEPT ![i] = row] /\ requests' = [requests EXCEPT ![r] = next]
    BY <1>8 DEF CommitRule
  <2>2. row \in RuleRows /\ row.id = i
    <3>1. CASE q.op = "create rule"
      <4>1. q.body \in RuleBodySpace
        BY <1>2, <3>1, GovernanceAssumption DEF LoadHolds, AlertOperations
      <4> QED BY <1>3, <3>1, <4>1, NewRuleType
    <3>2. CASE q.op # "create rule"
      <4>1. /\ q.seen \in RuleRows /\ q.seen.id = i /\ rules[i] # None
            /\ q.body \in RuleBodySpace \cup {[deleted |-> TRUE]}
        BY <1>1, <1>2, <3>2, GovernanceAssumption DEF LoadHolds, RuleOperations, AlertOperations
      <4>2. With(q.seen, q.body) \in RuleRows /\ With(q.seen, q.body).id = i
        BY <4>1, RuleWritten
      <4>3. rules[i] \in RuleRows /\ rules[i].id = i
        BY <1>3, <4>1 DEF GovernanceInv, CatalogueHolds
      <4>4. NetChange(rules[i], q.seen, With(q.seen, q.body)) \in RuleRows
        BY <4>2, <4>3, RuleNetChange
      <4>5. NetChange(rules[i], q.seen, With(q.seen, q.body)).id = i
        <5>1. "id" \in DOMAIN rules[i]
          BY <4>3 DEF RuleRows
        <5>2. NetChange(rules[i], q.seen, With(q.seen, q.body))["id"] =
                 IF With(q.seen, q.body)["id"] # q.seen["id"]
                 THEN With(q.seen, q.body)["id"] ELSE rules[i]["id"]
          BY <5>1 DEF NetChange
        <5> QED BY <4>1, <4>2, <4>3, <5>2
      <4> QED BY <3>2, <4>4, <4>5
    <3> QED BY <3>1, <3>2
  <2>3. CatalogueHolds' /\ Grows
    BY <1>1, <1>3, <2>1, <2>2, GovernanceAssumption DEF GovernanceInv, CatalogueHolds, Grows
  <2>4. /\ DOMAIN next = RequestFields /\ next.pc = "reconcile" /\ next.turn = "all"
        /\ next.op = q.op /\ next.view = NoView
    BY <1>2 DEF RequestFields
  <2>5. requests'[r] = next /\ Others(r)' = Others(r)
    BY <1>4, <2>1, OthersKept
  <2>6. RequestHolds(requests[r])'
    BY <1>1, <2>4, <2>5 DEF RequestHolds, TurnHolds, Ended
  <2>7. AloneHolds(r)'
    <3>1. next.alone = q.alone
      BY <1>2 DEF RequestFields
    <3> QED BY <1>4, <2>4, <2>5, <3>1 DEF GovernanceInv, AloneHolds
  <2> QED BY <1>1, <1>4, <1>5, <1>6, <2>1, <2>3, <2>4, <2>6, <2>7, StepKeeps
          DEF RuleOperations, AlertOperations
<1> QED BY <1>7, <1>8

LEMMA CommitToolKeeps ==
    ASSUME GovernanceInv, NEW r \in Requests, CommitTool(r)
    PROVE  GovernanceInv'
<1> PICK q : q = requests[r]
  OBVIOUS
<1> PICK t : t = q.target
  OBVIOUS
<1> PICK row : row = NetChange(tools[t], q.seen, With(q.seen, q.body))
  OBVIOUS
<1>1. /\ q.pc = "loaded" /\ q.op = "update tool"
      /\ UNCHANGED <<agents, servers, rules>> /\ UNCHANGED <<alerts, doubled, mishaps>>
      /\ UNCHANGED <<records, controls, snapshot, trusted>>
  BY DEF CommitTool, projections
<1>2. LoadHolds(q) /\ DOMAIN q = RequestFields /\ q.view = NoView
  BY <1>1 DEF GovernanceInv, RequestHolds
<1>3. /\ t \in Tools /\ q.seen \in ToolRows /\ q.seen.id = t
      /\ IsToolPatch(q.body) /\ tools[t].state # "absent"
  BY <1>1, <1>2 DEF LoadHolds, AlertOperations
<1>4. InProgress(r) /\ RequestsTyped
  BY <1>1 DEF InProgress, Ended, GovernanceInv, RequestsTyped, RequestHolds
<1>5. /\ AlertsHold' /\ FieldsMatchStatus'
      /\ mishaps \cap {"reconciliations met", "reopened", "transition met"} = {} => NoDoubles'
  BY <1>1, AlertsKept
<1>6. RegisterHolds'
  BY <1>1 DEF GovernanceInv, RegisterHolds
<1>7. /\ row \in ToolRows /\ row.id = t /\ row.state = tools[t].state
      /\ row.server = tools[t].server
  <2>1. /\ With(q.seen, q.body) \in ToolRows
        /\ \A f \in {"id", "state", "server"} : With(q.seen, q.body)[f] = q.seen[f]
    BY <1>3, PatchedType
  <2>2. tools[t] \in ToolRows /\ tools[t].id = t
    BY <1>3 DEF GovernanceInv, CatalogueHolds
  <2>3. \A f \in {"id", "state", "server"} : row[f] = tools[t][f]
    BY <2>1, <2>2, NetChangeFields DEF ToolRows
  <2> QED BY <2>1, <2>2, <2>3, ToolNetChange
<1>8. /\ tools' \in {tools, [tools EXCEPT ![t] = row]}
      /\ \/ Ends(r, "conflict") \/ Ends(r, "done")
         \/ /\ row.server # None /\ tools' = [tools EXCEPT ![t] = row]
            /\ requests' = [requests EXCEPT ![r] = [q EXCEPT !.pc = "reconcile",
                                                             !.turn = "tool"]]
  BY DEF CommitTool
<1>9. CatalogueHolds' /\ Grows
  BY <1>1, <1>3, <1>7, <1>8 DEF GovernanceInv, CatalogueHolds, Grows
<1>10. CASE Ends(r, "conflict") \/ Ends(r, "done")
  BY <1>1, <1>4, <1>5, <1>6, <1>9, <1>10, EndKeeps DEF Ended
<1>11. CASE /\ row.server # None /\ tools' = [tools EXCEPT ![t] = row]
            /\ requests' = [requests EXCEPT ![r] = [q EXCEPT !.pc = "reconcile",
                                                             !.turn = "tool"]]
  <2>1. PICK next : next = [q EXCEPT !.pc = "reconcile", !.turn = "tool"]
    OBVIOUS
  <2>2. /\ DOMAIN next = RequestFields /\ next.pc = "reconcile" /\ next.turn = "tool"
        /\ next.op = q.op /\ next.view = NoView /\ next.target = t /\ next.alone = q.alone
    BY <1>2, <2>1 DEF RequestFields
  <2>3. requests' = [requests EXCEPT ![r] = next]
    BY <1>11, <2>1
  <2>4. requests'[r] = next /\ Others(r)' = Others(r)
    BY <1>4, <2>3, OthersKept
  <2>5. RowHolds(tools[t])'
    BY <1>3, <1>7, <1>11 DEF RowHolds, GovernanceInv, CatalogueHolds
  <2>6. RequestHolds(requests[r])'
    BY <1>1, <1>3, <2>2, <2>4, <2>5 DEF RequestHolds, TurnHolds, Ended
  <2>7. AloneHolds(r)'
    BY <1>4, <2>2, <2>4 DEF GovernanceInv, AloneHolds
  <2> QED BY <1>1, <1>4, <1>5, <1>6, <1>9, <2>2, <2>3, <2>6, <2>7, StepKeeps
          DEF AlertOperations
<1> QED BY <1>8, <1>10, <1>11

LEMMA CommitAlertKeeps ==
    ASSUME GovernanceInv, NEW r \in Requests, CommitAlert(r)
    PROVE  GovernanceInv'
<1> PICK q : q = requests[r]
  OBVIOUS
<1>1. /\ q.pc = "loaded" /\ q.op \in AlertOperations /\ Ends(r, "done")
      /\ SetAlerts({IF SameAlert(a, q.seen) THEN Transitioned(q.op, a, q.seen) ELSE a :
                       a \in alerts})
      /\ UNCHANGED catalogue /\ UNCHANGED <<records, controls, snapshot, trusted>>
      /\ mishaps' = mishaps
  BY DEF CommitAlert
<1>2. LoadHolds(q)
  BY <1>1 DEF GovernanceInv, RequestHolds
<1>3. q.seen \in AlertRows /\ q.seen.status \in From(q.op)
  BY <1>1, <1>2 DEF LoadHolds, AlertOperations
<1>4. InProgress(r)
  BY <1>1 DEF InProgress, Ended
<1>5. /\ AlertsHold'
      /\ (\A a \in alerts : Consistent(a)) /\ q.seen \in alerts => (\A a \in alerts' : Consistent(a))
      /\ NoDoubles /\ q.seen \in alerts /\ q.op # "reopen" => NoDoubles'
  <2>1. AlertsHold
    BY DEF GovernanceInv
  <2> QED BY <1>1, <1>3, <2>1, TransitionKeeps
<1>6. FieldsMatchStatus'
  <2>1. "transition met" \notin mishaps => q.seen \in alerts
    BY <1>1, <1>4 DEF GovernanceInv, TransitionsHold
  <2> QED BY <1>1, <1>5, <2>1 DEF GovernanceInv, FieldsMatchStatus, Consistent
<1>7. ASSUME mishaps \cap {"reconciliations met", "reopened", "transition met"} = {}
      PROVE  NoDoubles'
  <2>1. NoDoubles /\ q.op # "reopen"
    BY <1>4, <1>7 DEF GovernanceInv, DoublesHold, NoDoubles
  <2>2. q.seen \in alerts
    BY <1>1, <1>4, <1>7 DEF GovernanceInv, TransitionsHold
  <2> QED BY <1>5, <2>1, <2>2
<1>8. CatalogueHolds' /\ Grows
  BY <1>1, CatalogueKept DEF GovernanceInv
<1>9. RegisterHolds'
  BY <1>1 DEF GovernanceInv, RegisterHolds
<1> QED BY <1>1, <1>4, <1>5, <1>6, <1>7, <1>8, <1>9, EndKeeps DEF Ended

-----------------------------------------------------------------------------
(***************************************************************************)
(* The reads, and the transactions of the risk register.                   *)
(***************************************************************************)
LEMMA BuildItemsKeeps ==
    ASSUME GovernanceInv, NEW r \in Requests, BuildItems(r)
    PROVE  GovernanceInv'
<1> PICK q : q = requests[r]
  OBVIOUS
<1> PICK next : next = [q EXCEPT !.pc = "built", !.seen = snapshot, !.view = NoView]
  OBVIOUS
<1>1. /\ q.pc = "projected" /\ UNCHANGED catalogue /\ UNCHANGED <<alerts, doubled, mishaps>>
      /\ UNCHANGED <<records, controls, snapshot, trusted>>
      /\ \/ Ends(r, "conflict") \/ Ends(r, "done")
         \/ q.op # "register" /\ requests' = [requests EXCEPT ![r] = next]
  BY DEF BuildItems, projections
<1>2. q.op \in {"register", "summary"} /\ DOMAIN q = RequestFields
  BY <1>1 DEF GovernanceInv, RequestHolds
<1>3. InProgress(r) /\ RequestsTyped
  BY <1>1 DEF InProgress, Ended, GovernanceInv, RequestsTyped, RequestHolds
<1>4. /\ AlertsHold' /\ FieldsMatchStatus'
      /\ mishaps \cap {"reconciliations met", "reopened", "transition met"} = {} => NoDoubles'
  BY <1>1, AlertsKept
<1>5. RegisterHolds'
  BY <1>1 DEF GovernanceInv, RegisterHolds
<1>6. CatalogueHolds' /\ Grows
  BY <1>1, CatalogueKept DEF GovernanceInv
<1>7. CASE Ends(r, "conflict") \/ Ends(r, "done")
  BY <1>1, <1>3, <1>4, <1>5, <1>6, <1>7, EndKeeps DEF Ended
<1>8. CASE q.op # "register" /\ requests' = [requests EXCEPT ![r] = next]
  <2>1. /\ DOMAIN next = RequestFields /\ next.pc = "built" /\ next.op = q.op
        /\ next.seen = snapshot /\ next.alone = q.alone
    BY <1>2 DEF RequestFields
  <2>2. requests'[r] = next /\ Others(r)' = Others(r)
    BY <1>3, <1>8, OthersKept
  <2>3. snapshot \in BOOLEAN
    BY DEF GovernanceInv, RegisterHolds
  <2>4. RequestHolds(requests[r])'
    BY <1>2, <1>8, <2>1, <2>2, <2>3 DEF RequestHolds, Ended
  <2>5. AloneHolds(r)'
    BY <1>1, <1>3, <2>1, <2>2 DEF GovernanceInv, AloneHolds
  <2> QED BY <1>1, <1>2, <1>3, <1>4, <1>5, <1>6, <1>8, <2>1, <2>4, <2>5, StepKeeps
          DEF AlertOperations
<1> QED BY <1>1, <1>7, <1>8

LEMMA CommitSnapshotKeeps ==
    ASSUME GovernanceInv, NEW r \in Requests, CommitSnapshot(r)
    PROVE  GovernanceInv'
<1>1. /\ requests[r].pc = "built" /\ UNCHANGED catalogue /\ UNCHANGED <<alerts, doubled, mishaps>>
      /\ UNCHANGED <<records, controls, trusted>> /\ snapshot' = TRUE
      /\ Ends(r, "conflict") \/ Ends(r, "done")
  BY DEF CommitSnapshot
<1>2. InProgress(r)
  BY <1>1 DEF InProgress, Ended
<1>3. /\ AlertsHold' /\ FieldsMatchStatus'
      /\ mishaps \cap {"reconciliations met", "reopened", "transition met"} = {} => NoDoubles'
  BY <1>1, AlertsKept
<1>4. RegisterHolds'
  BY <1>1 DEF GovernanceInv, RegisterHolds
<1>5. CatalogueHolds' /\ Grows
  BY <1>1, CatalogueKept DEF GovernanceInv
<1> QED BY <1>1, <1>2, <1>3, <1>4, <1>5, EndKeeps DEF Ended

LEMMA CrashKeeps ==
    ASSUME GovernanceInv, NEW r \in Requests, Crash(r) \/ Conflict(r)
    PROVE  GovernanceInv'
<1>1. /\ requests[r].pc \in {"reconcile", "projected", "built", "read"}
      /\ UNCHANGED catalogue /\ UNCHANGED <<alerts, doubled, mishaps>>
      /\ UNCHANGED <<records, controls, snapshot>> /\ trusted' = FALSE
      /\ Ends(r, "crashed") \/ Ends(r, "conflict")
  BY DEF Crash, Conflict, projections
<1>2. InProgress(r)
  BY <1>1 DEF InProgress, Ended
<1>3. /\ AlertsHold' /\ FieldsMatchStatus'
      /\ mishaps \cap {"reconciliations met", "reopened", "transition met"} = {} => NoDoubles'
  BY <1>1, AlertsKept
<1>4. RegisterHolds'
  BY <1>1 DEF GovernanceInv, RegisterHolds
<1>5. CatalogueHolds' /\ Grows
  BY <1>1, CatalogueKept DEF GovernanceInv
<1> QED BY <1>1, <1>2, <1>3, <1>4, <1>5, EndKeeps DEF Ended

LEMMA ReadRulesKeeps ==
    ASSUME GovernanceInv, NEW r \in Requests, ReadRules(r)
    PROVE  GovernanceInv'
<1> PICK q : q = requests[r]
  OBVIOUS
<1> PICK view : view = [q.view EXCEPT !.rules = EnabledRules]
  OBVIOUS
<1> PICK next : next = [q EXCEPT !.pc = "ruled", !.view = view]
  OBVIOUS
<1>1. /\ q.pc = "reconcile" /\ UNCHANGED catalogue /\ UNCHANGED <<alerts, doubled, mishaps>>
      /\ UNCHANGED <<records, controls, snapshot, trusted>>
  BY DEF ReadRules, projections
<1>2. DOMAIN q = RequestFields /\ TurnHolds(q) /\ q.view = NoView
  BY <1>1 DEF GovernanceInv, RequestHolds
<1>3. requests' = [requests EXCEPT ![r] = next]
  BY <1>2 DEF ReadRules, RequestFields
<1>4. InProgress(r) /\ RequestsTyped
  BY <1>1 DEF InProgress, Ended, GovernanceInv, RequestsTyped, RequestHolds
<1>5. /\ AlertsHold' /\ FieldsMatchStatus'
      /\ mishaps \cap {"reconciliations met", "reopened", "transition met"} = {} => NoDoubles'
  BY <1>1, AlertsKept
<1>6. RegisterHolds'
  BY <1>1 DEF GovernanceInv, RegisterHolds
<1>7. CatalogueHolds' /\ Grows
  BY <1>1, CatalogueKept DEF GovernanceInv
<1>8. DOMAIN view = DOMAIN NoView /\ view.rules = EnabledRules
  BY <1>2 DEF NoView
<1>9. EnabledRules \subseteq RuleRows
  BY DEF EnabledRules, Range, GovernanceInv, CatalogueHolds
<1>10. /\ DOMAIN next = RequestFields /\ next.pc = "ruled" /\ next.view = view
       /\ next.op = q.op /\ next.turn = q.turn /\ next.target = q.target
       /\ next.seen = q.seen /\ next.body = q.body /\ next.alone = q.alone
  BY <1>2 DEF RequestFields
<1>11. requests'[r] = next /\ Others(r)' = Others(r)
  BY <1>3, <1>4, OthersKept
<1>12. TurnHolds(next)'
  BY <1>1, <1>2, <1>10 DEF TurnHolds, RowHolds, catalogue
<1>13. RequestHolds(requests[r])'
  BY <1>8, <1>9, <1>10, <1>11, <1>12 DEF RequestHolds, Ended
<1>14. AloneHolds(r)'
  BY <1>4, <1>10, <1>11 DEF GovernanceInv, AloneHolds
<1>15. q.op \notin AlertOperations
  BY <1>1, <1>2 DEF TurnHolds, AlertOperations, RuleOperations
<1> QED BY <1>1, <1>3, <1>4, <1>5, <1>6, <1>7, <1>10, <1>13, <1>14, <1>15, StepKeeps

\* The rows a reconciliation reads.
LEMMA DiscoveredType ==
    ASSUME CatalogueHolds
    PROVE  /\ DiscoveredRows \subseteq ToolRows
           /\ \A t \in DiscoveredRows : t.server # None /\ t.id \in Discovered
           /\ Discovered \subseteq Tools /\ \A t \in Discovered : tools[t].id = t
  BY DEF DiscoveredRows, Discovered, IsDiscovered, CatalogueHolds

LEMMA ReadToolsKeeps ==
    ASSUME GovernanceInv, NEW r \in Requests, ReadTools(r)
    PROVE  GovernanceInv'
<1> PICK q : q = requests[r]
  OBVIOUS
<1>20. PICK own : own = IF q.turn = "review" THEN {With(q.seen, q.body)} ELSE {}
  OBVIOUS
<1>21. PICK view : view = ViewWith(r, own)
  OBVIOUS
<1>22. PICK seen : seen = IF q.turn = "tool" THEN tools[q.target] ELSE q.seen
  OBVIOUS
<1>23. PICK next : next = [q EXCEPT !.pc = "read", !.view = view, !.seen = seen]
  OBVIOUS
<1>1. /\ q.pc = "ruled" /\ UNCHANGED catalogue /\ UNCHANGED <<alerts, doubled, mishaps>>
      /\ UNCHANGED <<records, controls, snapshot, trusted>>
  BY DEF ReadTools, projections
<1>2. /\ DOMAIN q = RequestFields /\ TurnHolds(q) /\ q.view.rules \subseteq RuleRows
  BY <1>1 DEF GovernanceInv, RequestHolds
<1>3. requests' = [requests EXCEPT ![r] = next]
  <2>1. requests' = [requests EXCEPT ![r] = [q EXCEPT
           !.pc = "read", !.view = ViewWith(r, IF q.turn = "review" THEN {With(q.seen, q.body)}
                                               ELSE {}),
           !.seen = IF q.turn = "tool" THEN tools[q.target] ELSE q.seen]]
    BY <1>2 DEF ReadTools, RequestFields
  <2> QED BY <1>20, <1>21, <1>22, <1>23, <2>1
<1>4. InProgress(r) /\ RequestsTyped
  BY <1>1 DEF InProgress, Ended, GovernanceInv, RequestsTyped, RequestHolds
<1>5. /\ AlertsHold' /\ FieldsMatchStatus'
      /\ mishaps \cap {"reconciliations met", "reopened", "transition met"} = {} => NoDoubles'
  BY <1>1, AlertsKept
<1>6. RegisterHolds'
  BY <1>1 DEF GovernanceInv, RegisterHolds
<1>7. CatalogueHolds' /\ Grows
  BY <1>1, CatalogueKept DEF GovernanceInv
<1>8. /\ own \subseteq ToolRows /\ \A o \in own : o.server # None
  <2>1. CASE q.turn = "review"
    <3>1. /\ q.seen \in ToolRows /\ q.seen.server # None
          /\ q.body \in [risk : RiskLevels, permission : Permissions, reviewed : {TRUE}]
      BY <1>1, <1>2, <2>1 DEF TurnHolds, RowHolds
    <3>2. With(q.seen, q.body) \in ToolRows /\ With(q.seen, q.body).server = q.seen.server
      BY <3>1, ReviewedType
    <3> QED BY <1>20, <2>1, <3>1, <3>2
  <2>2. CASE q.turn # "review"
    BY <1>20, <2>2
  <2> QED BY <2>1, <2>2
<1>9. /\ DOMAIN view = DOMAIN NoView /\ view.rules = q.view.rules
      /\ view.tools = {t \in DiscoveredRows : \A o \in own : o.id # t.id} \cup
                      {o \in own : o.id \in Discovered}
      /\ view.active = ActiveAlerts /\ view.records = records /\ view.controls = controls
  BY <1>21 DEF ViewWith, NoView
<1>10. ViewHolds(view)
  <2>1. view.tools \subseteq ToolRows /\ \A t \in view.tools : t.server # None
    BY <1>8, <1>9, DiscoveredType DEF GovernanceInv
  <2>2. view.active \subseteq AlertRows
    BY <1>9 DEF ActiveAlerts, GovernanceInv, AlertsHold
  <2> QED BY <1>2, <1>9, <2>1, <2>2 DEF ViewHolds, GovernanceInv, RegisterHolds
<1>11. /\ DOMAIN next = RequestFields /\ next.pc = "read" /\ next.view = view
       /\ next.op = q.op /\ next.turn = q.turn /\ next.target = q.target
       /\ next.seen = seen /\ next.body = q.body /\ next.alone = q.alone
  BY <1>2, <1>23 DEF RequestFields
<1>12. requests'[r] = next /\ Others(r)' = Others(r)
  BY <1>3, <1>4, OthersKept
<1>13. TurnHolds(next)'
  <2>1. \A row : RowHolds(row)' <=> RowHolds(row)
    BY <1>1 DEF RowHolds, catalogue
  <2>2. \A t \in Tools : tools'[t] = tools[t] /\ tools[t].id = t
    BY <1>1 DEF catalogue, GovernanceInv, CatalogueHolds
  <2>3. CASE q.turn \in {"all", "risk"}
    BY <1>2, <1>11, <2>3 DEF TurnHolds
  <2>4. CASE q.turn = "tool"
    <3>1. q.target \in Tools /\ RowHolds(tools[q.target]) /\ q.op = "update tool"
      BY <1>2, <2>4 DEF TurnHolds
    <3>2. seen = tools[q.target] /\ seen.id = q.target
      BY <1>22, <2>2, <2>4, <3>1
    <3>3. RowHolds(seen)' /\ RowHolds(tools[next.target])'
      BY <1>11, <2>1, <2>2, <3>1, <3>2
    <3> QED BY <1>11, <2>4, <3>1, <3>2, <3>3 DEF TurnHolds
  <2>5. CASE q.turn = "review"
    <3>1. seen = q.seen
      BY <1>22, <2>5
    <3> QED BY <1>2, <1>11, <2>1, <2>5, <3>1 DEF TurnHolds
  <2> QED BY <1>1, <1>2, <2>3, <2>4, <2>5 DEF TurnHolds
<1>14. RequestHolds(requests[r])'
  <2>1. ViewHolds(view)'
    BY <1>10 DEF ViewHolds
  <2> QED BY <1>9, <1>11, <1>12, <1>13, <2>1 DEF RequestHolds, Ended
<1>15. q.turn # "sync" /\ (q.turn = "risk" => view.tools = DiscoveredRows)
  BY <1>1, <1>2, <1>9, <1>20 DEF TurnHolds
<1>16. DiscoveredRows' = DiscoveredRows
  BY <1>1 DEF DiscoveredRows, Discovered, IsDiscovered, catalogue
<1>17. AloneHolds(r)'
  <2>1. requests'[r].alone => Others(r)' = {}
    BY <1>4, <1>11, <1>12 DEF GovernanceInv, AloneHolds
  <2> QED BY <1>1, <1>9, <1>11, <1>12, <1>15, <1>16, <2>1 DEF AloneHolds
<1>18. q.op \notin AlertOperations
  BY <1>1, <1>2 DEF TurnHolds, AlertOperations, RuleOperations
<1>19. next.view.active = ActiveAlerts'
  BY <1>1, <1>9, <1>11 DEF ActiveAlerts
<1> QED BY <1>1, <1>3, <1>4, <1>5, <1>6, <1>7, <1>11, <1>14, <1>17, <1>18, <1>19, StepKeeps

LEMMA ReconcileAllToolsKeeps ==
    ASSUME GovernanceInv, NEW r \in Requests, ReconcileAllTools(r)
    PROVE  GovernanceInv'
<1> PICK q : q = requests[r]
  OBVIOUS
<1>20. PICK next : next = [q EXCEPT !.pc = "reconcile", !.turn = "risk", !.view = NoView,
                                    !.covered = {}]
  OBVIOUS
<1> DEFINE Lost(t) == t.id \in q.covered /\ ~IsCovered(t, q.view.rules)
           wants == UNION {ToolWants(t, q.view.rules, Lost(t)) : t \in q.view.tools}
<1>1. /\ q.pc = "read" /\ q.turn = "all" /\ UNCHANGED catalogue /\ mishaps' = mishaps
      /\ UNCHANGED <<records, controls, snapshot, trusted>>
      /\ requests' = [requests EXCEPT ![r] = next]
      /\ Reconciles(wants, q.view.active)
  BY <1>20 DEF ReconcileAllTools
<1>2. DOMAIN q = RequestFields /\ TurnHolds(q) /\ ViewHolds(q.view)
  BY <1>1 DEF GovernanceInv, RequestHolds
<1>3. q.op \in RuleOperations
  BY <1>1, <1>2 DEF TurnHolds
<1>4. InProgress(r) /\ RequestsTyped
  BY <1>1 DEF InProgress, Ended, GovernanceInv, RequestsTyped, RequestHolds
<1>5. wants \subseteq WantRows
  <2>1. ASSUME NEW t \in q.view.tools
        PROVE  ToolWants(t, q.view.rules, Lost(t)) \subseteq WantRows
    <3>1. t \in ToolRows /\ t.server # None
      BY <1>2 DEF ViewHolds
    <3> QED BY <3>1, ToolWantsType
  <2> QED BY <2>1
<1> HIDE DEF wants
<1>6. /\ AlertsHold' /\ FieldsMatchStatus'
      /\ mishaps \cap {"reconciliations met", "reopened", "transition met"} = {} => NoDoubles'
  BY <1>1, <1>5, Reconciled
<1>7. RegisterHolds'
  BY <1>1 DEF GovernanceInv, RegisterHolds
<1>8. CatalogueHolds' /\ Grows
  BY <1>1, CatalogueKept DEF GovernanceInv
<1>9. /\ DOMAIN next = RequestFields /\ next.pc = "reconcile" /\ next.view = NoView
      /\ next.op = q.op /\ next.turn = "risk" /\ next.alone = q.alone
  BY <1>2, <1>20 DEF RequestFields
<1>10. requests'[r] = next /\ Others(r)' = Others(r)
  BY <1>1, <1>4, OthersKept
<1>11. RequestHolds(requests[r])'
  BY <1>3, <1>9, <1>10 DEF RequestHolds, TurnHolds, Ended
<1>12. AloneHolds(r)'
  BY <1>4, <1>9, <1>10 DEF GovernanceInv, AloneHolds
<1> QED BY <1>1, <1>3, <1>4, <1>6, <1>7, <1>8, <1>9, <1>11, <1>12, StepKeeps
        DEF RuleOperations, AlertOperations

LEMMA ReconcileRiskKeeps ==
    ASSUME GovernanceInv, NEW r \in Requests, ReconcileRisk(r)
    PROVE  GovernanceInv'
<1> PICK q : q = requests[r]
  OBVIOUS
<1> PICK v : v = q.view
  OBVIOUS
<1>20. PICK next : next = [q EXCEPT !.pc = "projected"]
  OBVIOUS
<1>1. /\ q.pc = "read" /\ q.turn = "risk" /\ UNCHANGED catalogue
      /\ mishaps' = mishaps /\ snapshot' = snapshot
      /\ Reconciles(RiskWants(v.tools, v.rules), v.active) /\ SetRegister(v)
      /\ trusted' = (trusted \/ (~(q.op \in {"register", "summary"}) /\ q.alone))
      /\ IF q.op \in {"register", "summary"} THEN requests' = [requests EXCEPT ![r].pc = "projected"]
         ELSE Ends(r, "done")
  BY DEF ReconcileRisk
<1>2. DOMAIN q = RequestFields /\ TurnHolds(q) /\ ViewHolds(v)
  BY <1>1 DEF GovernanceInv, RequestHolds
<1>3. InProgress(r) /\ RequestsTyped
  BY <1>1 DEF InProgress, Ended, GovernanceInv, RequestsTyped, RequestHolds
<1>4. RiskWants(v.tools, v.rules) \subseteq WantRows
  BY <1>2, RiskWantsType DEF ViewHolds
<1>5. /\ AlertsHold' /\ FieldsMatchStatus'
      /\ mishaps \cap {"reconciliations met", "reopened", "transition met"} = {} => NoDoubles'
  BY <1>1, <1>4, Reconciled
<1>6. RegisterHolds'
  <2>1. trusted' \in BOOLEAN
    BY <1>1
  <2> QED BY <1>1, <1>2, <2>1, Registered DEF GovernanceInv
<1>7. CatalogueHolds' /\ Grows
  BY <1>1, CatalogueKept DEF GovernanceInv
<1>8. CASE q.op \notin {"register", "summary"}
  BY <1>1, <1>3, <1>5, <1>6, <1>7, <1>8, EndKeeps DEF Ended
<1>9. CASE q.op \in {"register", "summary"}
  <2>1. /\ DOMAIN next = RequestFields /\ next.pc = "projected" /\ next.view = v
        /\ next.op = q.op /\ next.alone = q.alone
    BY <1>2, <1>20 DEF RequestFields
  <2>2. requests' = [requests EXCEPT ![r] = next]
    BY <1>1, <1>9, <1>20
  <2>3. requests'[r] = next /\ Others(r)' = Others(r)
    BY <1>3, <2>2, OthersKept
  <2>4. RequestHolds(requests[r])'
    BY <1>9, <2>1, <2>3 DEF RequestHolds, Ended
  <2>5. ASSUME q.alone
        PROVE  /\ Others(r) = {}
               /\ \A t \in Discovered' : records'[t] # None /\ \E row \in v.tools : row.id = t
    <3>1. Others(r) = {} /\ v.records = records /\ v.tools = DiscoveredRows
      BY <1>1, <1>3, <2>5 DEF GovernanceInv, AloneHolds
    <3>2. Discovered' = Discovered
      BY <1>1 DEF Discovered, IsDiscovered, catalogue
    <3>3. \A row \in v.tools : records'[row.id] # None
      BY <1>1, <1>2, <3>1, RegisterAfterType DEF GovernanceInv, SetRegister
    <3>4. \A t \in Discovered : tools[t] \in v.tools /\ tools[t].id = t
      BY <3>1, DiscoveredType DEF DiscoveredRows, GovernanceInv
    <3> QED BY <3>1, <3>2, <3>3, <3>4
  <2>6. AloneHolds(r)'
    BY <2>1, <2>3, <2>5 DEF AloneHolds
  <2> QED BY <1>1, <1>3, <1>5, <1>6, <1>7, <1>9, <2>1, <2>2, <2>4, <2>6, StepKeeps
          DEF Ended, AlertOperations
<1> QED BY <1>8, <1>9

LEMMA ReconcileToolKeeps ==
    ASSUME GovernanceInv, NEW r \in Requests, ReconcileTool(r)
    PROVE  GovernanceInv'
<1> PICK q : q = requests[r]
  OBVIOUS
<1> PICK v : v = q.view
  OBVIOUS
<1>20. PICK tool : tool = IF q.turn = "review" THEN With(q.seen, q.body) ELSE q.seen
  OBVIOUS
<1>1. /\ q.pc = "read" /\ q.turn \in {"tool", "review"}
      /\ UNCHANGED <<agents, servers, rules>> /\ UNCHANGED <<trusted, mishaps, snapshot>>
      /\ Reconciles(ToolWants(tool, v.rules, FALSE) \cup RiskWants(v.tools, v.rules), v.active)
      /\ SetRegister(v) /\ Ends(r, "done")
      /\ tools' = IF q.turn = "review"
                  THEN [tools EXCEPT ![q.target] = NetChange(tools[q.target], q.seen, tool)]
                  ELSE tools
  BY <1>20 DEF ReconcileTool
<1>2. TurnHolds(q) /\ ViewHolds(v)
  BY <1>1 DEF GovernanceInv, RequestHolds
<1>3. InProgress(r)
  BY <1>1 DEF InProgress, Ended
<1>4. /\ q.target \in Tools /\ q.seen \in ToolRows /\ q.seen.id = q.target
      /\ q.seen.server # None /\ tools[q.target].state # "absent"
      /\ q.turn = "review" =>
            q.body \in [risk : RiskLevels, permission : Permissions, reviewed : {TRUE}]
  BY <1>1, <1>2 DEF TurnHolds, RowHolds
<1>5. tool \in ToolRows /\ \A f \in {"id", "state", "server"} : tool[f] = q.seen[f]
  <2>1. CASE q.turn = "review"
    <3>1. /\ With(q.seen, q.body) \in ToolRows
          /\ With(q.seen, q.body).id = q.seen.id /\ With(q.seen, q.body).state = q.seen.state
          /\ With(q.seen, q.body).server = q.seen.server
      BY <1>4, <2>1, ReviewedType
    <3> QED BY <1>20, <2>1, <3>1
  <2>2. CASE q.turn # "review"
    BY <1>4, <1>20, <2>2
  <2> QED BY <2>1, <2>2
<1>6. ToolWants(tool, v.rules, FALSE) \cup RiskWants(v.tools, v.rules) \subseteq WantRows
  <2>1. tool.server # None
    BY <1>4, <1>5
  <2>2. RiskWants(v.tools, v.rules) \subseteq WantRows
    BY <1>2, RiskWantsType DEF ViewHolds
  <2> QED BY <1>5, <2>1, <2>2, ToolWantsType
<1>7. /\ AlertsHold' /\ FieldsMatchStatus'
      /\ mishaps \cap {"reconciliations met", "reopened", "transition met"} = {} => NoDoubles'
  BY <1>1, <1>6, Reconciled
<1>8. RegisterHolds'
  <2>1. trusted' \in BOOLEAN
    BY <1>1 DEF GovernanceInv, RegisterHolds
  <2> QED BY <1>1, <1>2, <2>1, Registered DEF GovernanceInv
<1>9. CatalogueHolds' /\ Grows
  <2>1. CASE q.turn = "tool"
    <3>1. UNCHANGED catalogue
      BY <1>1, <2>1 DEF catalogue
    <3> QED BY <3>1, CatalogueKept DEF GovernanceInv
  <2>2. CASE q.turn = "review"
    <3>1. PICK row : row = NetChange(tools[q.target], q.seen, tool)
      OBVIOUS
    <3>2. tools[q.target] \in ToolRows /\ tools[q.target].id = q.target
      BY <1>4 DEF GovernanceInv, CatalogueHolds
    <3>3. \A f \in {"id", "state", "server"} : row[f] = tools[q.target][f]
      BY <1>5, <3>1, <3>2, NetChangeFields DEF ToolRows
    <3>4. row \in ToolRows
      BY <1>5, <3>1, <3>2, ToolNetChange
    <3>5. tools' = [tools EXCEPT ![q.target] = row]
      BY <1>1, <2>2, <3>1
    <3> QED BY <1>1, <1>4, <3>2, <3>3, <3>4, <3>5 DEF GovernanceInv, CatalogueHolds, Grows
  <2> QED BY <1>1, <2>1, <2>2
<1> QED BY <1>1, <1>3, <1>7, <1>8, <1>9, EndKeeps DEF Ended

-----------------------------------------------------------------------------
(***************************************************************************)
(* The synchronization of a server.                                        *)
(***************************************************************************)
LEMMA LinkedAgentType ==
    ASSUME NEW server \in ServerRows, NEW s \in Servers
    PROVE  LinkedAgent(server, s) \in Agents
  BY ServerSyncAssumption DEF LinkedAgent, ServerRows

LEMMA OfferType ==
    ASSUME NEW offer \in Discoveries, NEW n \in DOMAIN offer
    PROVE  n \in Names /\ offer[n] \in [schema : Texts, description : Texts]
  BY ServerSyncAssumption

\* What a sync writes to a row: nothing that people decide.
PeopleFields == {"risk", "permission", "reviewed", "enabled"}

LEMMA UpdatedType ==
    ASSUME NEW row \in ToolRows, NEW s \in Servers,
           NEW content \in [schema : Texts, description : Texts]
    PROVE  /\ Updated(row, s, content) \in ToolRows /\ Updated(row, s, content).server = s
           /\ \A f \in {"id", "state"} \cup PeopleFields : Updated(row, s, content)[f] = row[f]
<1> DEFINE new == Updated(row, s, content)
<1>1. PICK version : version = IF row.schema = content.schema THEN row.version ELSE row.version + 1
  OBVIOUS
<1>2. version \in Nat
  BY <1>1 DEF ToolRows
<1>3. new = [row EXCEPT !.server = s, !.description = content.description,
                        !.schema = content.schema, !.version = version]
  BY <1>1 DEF Updated, ToolRows
<1> HIDE DEF new
<1>4. new = [f \in {"id", "state", "agent", "server", "name", "schema", "version",
                    "description", "reviewed", "risk", "permission", "enabled"} |->
                IF f = "server" THEN s ELSE IF f = "description" THEN content.description
                ELSE IF f = "schema" THEN content.schema
                ELSE IF f = "version" THEN version ELSE row[f]]
  BY <1>3 DEF ToolRows
<1>5. new \in ToolRows /\ new.server = s
  BY <1>2, <1>4 DEF ToolRows
<1>6. \A f \in {"id", "state"} \cup PeopleFields : new[f] = row[f]
  BY <1>4 DEF PeopleFields
<1> QED BY <1>5, <1>6 DEF new

LEMMA NewToolType ==
    ASSUME NEW t \in Tools, NEW agent \in Agents, NEW s \in Servers, NEW name \in Names,
           NEW content \in [schema : Texts, description : Texts]
    PROVE  /\ NewTool(t, agent, s, name, content) \in ToolRows
           /\ NewTool(t, agent, s, name, content).id = t
           /\ NewTool(t, agent, s, name, content).server = s
           /\ NewTool(t, agent, s, name, content).state = "live"
  BY DEF NewTool, ToolRows, RiskLevels, Permissions

\* A sync that is ready to commit.
Ready(r) ==
    /\ requests[r].pc = "read" /\ requests[r].turn = "sync"
    /\ DOMAIN requests[r] = RequestFields
    /\ SyncHolds(requests[r]) /\ PlanHolds(requests[r])
    /\ DOMAIN requests[r].view = DOMAIN NoView /\ ViewHolds(requests[r].view)

LEMMA IsReady ==
    ASSUME GovernanceInv, NEW r \in Requests,
           requests[r].pc = "read", requests[r].turn = "sync"
    PROVE  Ready(r)
  BY DEF GovernanceInv, RequestHolds, TurnHolds, Ready

LEMMA NewToolsType ==
    ASSUME CatalogueHolds, NEW r, Ready(r), RowsLeft(r)
    PROVE  \A c \in NewTools(r) : /\ c \in ToolRows /\ c.server = requests[r].target
                                  /\ c.state = "live" /\ tools[c.id].state = "absent"
<1> PICK q : q = requests[r]
  OBVIOUS
<1>20. PICK ids : ids = CHOOSE f \in [Unmatched(r) -> Free] : IsInjective(f)
  OBVIOUS
<1>1. ids \in [Unmatched(r) -> Free]
  BY <1>20 DEF RowsLeft
<1>2. /\ q.target \in Servers /\ q.seen \in ServerRows /\ q.body.offer \in Discoveries
      /\ DOMAIN q.body.match = DOMAIN q.body.offer
  BY DEF Ready, SyncHolds, PlanHolds
<1>3. PICK agent : agent = LinkedAgent(q.seen, q.target)
  OBVIOUS
<1>4. agent \in Agents
  BY <1>2, <1>3, LinkedAgentType
<1>5. NewTools(r) = {NewTool(ids[n], agent, q.target, n, q.body.offer[n]) : n \in Unmatched(r)}
  BY <1>3, <1>20 DEF NewTools
<1>6. ASSUME NEW n \in Unmatched(r)
      PROVE  /\ NewTool(ids[n], agent, q.target, n, q.body.offer[n]) \in ToolRows
             /\ NewTool(ids[n], agent, q.target, n, q.body.offer[n]).id = ids[n]
             /\ NewTool(ids[n], agent, q.target, n, q.body.offer[n]).server = q.target
             /\ NewTool(ids[n], agent, q.target, n, q.body.offer[n]).state = "live"
             /\ tools[ids[n]].state = "absent"
  <2>1. n \in DOMAIN q.body.offer
    BY <1>2 DEF Unmatched
  <2>2. n \in Names /\ q.body.offer[n] \in [schema : Texts, description : Texts]
    BY <1>2, <2>1, OfferType
  <2>3. ids[n] \in Tools /\ tools[ids[n]].state = "absent"
    BY <1>1 DEF Free
  <2> QED BY <1>2, <1>4, <2>2, <2>3, NewToolType
<1> QED BY <1>5, <1>6

\* The rows that a sync has matched, as it will write them.
LEMMA KeptType ==
    ASSUME NEW r, Ready(r), NEW n \in DOMAIN requests[r].body.match \ Unmatched(r)
    PROVE  /\ requests[r].body.match[n] \in ToolRows
           /\ tools[requests[r].body.match[n].id].state # "absent"
           /\ Updated(requests[r].body.match[n], requests[r].target, requests[r].body.offer[n])
                 \in ToolRows
           /\ Updated(requests[r].body.match[n], requests[r].target,
                      requests[r].body.offer[n]).server = requests[r].target
           /\ \A f \in {"id", "state"} \cup PeopleFields :
                 Updated(requests[r].body.match[n], requests[r].target,
                         requests[r].body.offer[n])[f] = requests[r].body.match[n][f]
<1>1. /\ requests[r].target \in Servers /\ requests[r].body.offer \in Discoveries
      /\ DOMAIN requests[r].body.match = DOMAIN requests[r].body.offer
      /\ requests[r].body.match[n] \in ToolRows
      /\ tools[requests[r].body.match[n].id].state # "absent"
  BY DEF Ready, SyncHolds, PlanHolds, Unmatched
<1>2. requests[r].body.offer[n] \in [schema : Texts, description : Texts]
  BY <1>1, OfferType
<1> QED BY <1>1, <1>2, UpdatedType

\* What a sync makes of a row: one that is not there may be created, and of one that is
\* there the decisions of people are left alone.
SyncedRow(t, row) ==
    /\ row \in ToolRows /\ row.id = t
    /\ tools[t].state # "absent" => row.state # "absent"
    /\ tools[t].server # None => row.server # None
    /\ tools[t].state # "absent" => \A f \in PeopleFields : row[f] = tools[t][f]

LEMMA SyncedRows ==
    ASSUME CatalogueHolds, NEW r, Ready(r), RowsLeft(r), NEW t \in Tools
    PROVE  SyncedRow(t, ToolsAfterSync(r, NewTools(r))[t])
<1> PICK q : q = requests[r]
  OBVIOUS
<1> PICK created : created = NewTools(r)
  OBVIOUS
<1>1. PICK change : change = {n \in DOMAIN q.body.match \ Unmatched(r) : q.body.match[n].id = t}
  OBVIOUS
<1>2. PICK n : n = CHOOSE m \in change : TRUE
  OBVIOUS
<1>3. tools[t] \in ToolRows /\ tools[t].id = t /\ q.target \in Servers
  BY DEF CatalogueHolds, Ready, SyncHolds
<1>4. ToolsAfterSync(r, created)[t] =
         IF \E c \in created : c.id = t THEN CHOOSE c \in created : c.id = t
         ELSE IF change # {}
         THEN NetChange(tools[t], q.body.match[n], Updated(q.body.match[n], q.target, q.body.offer[n]))
         ELSE IF \E g \in q.body.gone : g.id = t THEN [tools[t] EXCEPT !.state = "deleted"]
         ELSE tools[t]
  BY <1>1, <1>2 DEF ToolsAfterSync
<1>5. CASE \E c \in created : c.id = t
  <2>1. PICK c : c = CHOOSE x \in created : x.id = t
    OBVIOUS
  <2>2. c \in created /\ c.id = t
    BY <1>5, <2>1
  <2>3. c \in ToolRows /\ c.server = q.target /\ tools[t].state = "absent"
    BY <2>2, NewToolsType
  <2>4. c.server # None
    BY <1>3, <2>3, GovernanceAssumption
  <2>5. ToolsAfterSync(r, created)[t] = c
    BY <1>4, <1>5, <2>1
  <2> QED BY <2>2, <2>3, <2>4, <2>5 DEF SyncedRow
<1>6. CASE ~(\E c \in created : c.id = t) /\ change # {}
  <2>1. n \in DOMAIN q.body.match \ Unmatched(r) /\ q.body.match[n].id = t
    BY <1>1, <1>2, <1>6
  <2>2. PICK seen : seen = q.body.match[n]
    OBVIOUS
  <2>3. PICK new : new = Updated(seen, q.target, q.body.offer[n])
    OBVIOUS
  <2>4. /\ seen \in ToolRows /\ new \in ToolRows /\ new.server = q.target
        /\ \A f \in {"id", "state"} \cup PeopleFields : new[f] = seen[f]
    BY <2>1, <2>2, <2>3, KeptType
  <2>5. PICK net : net = NetChange(tools[t], seen, new)
    OBVIOUS
  <2>6. \A f \in DOMAIN tools[t] : net[f] = IF new[f] # seen[f] THEN new[f] ELSE tools[t][f]
    BY <2>5, NetChangeFields
  <2>7. {"id", "state", "server"} \cup PeopleFields \subseteq DOMAIN tools[t]
    BY <1>3 DEF ToolRows, PeopleFields
  <2>8. \A f \in {"id", "state"} \cup PeopleFields : net[f] = tools[t][f]
    BY <2>4, <2>6, <2>7
  <2>9. net["server"] \in {tools[t]["server"], new["server"]}
    BY <2>6, <2>7
  <2>10. net \in ToolRows
    BY <1>3, <2>4, <2>5, ToolNetChange
  <2>11. q.target # None
    BY <1>3, GovernanceAssumption
  <2>12. ToolsAfterSync(r, created)[t] = net
    BY <1>4, <1>6, <2>2, <2>3, <2>5
  <2> QED BY <1>3, <2>4, <2>8, <2>9, <2>10, <2>11, <2>12 DEF SyncedRow
<1>7. CASE ~(\E c \in created : c.id = t) /\ change = {} /\ (\E g \in q.body.gone : g.id = t)
  <2>1. ToolsAfterSync(r, created)[t] = [tools[t] EXCEPT !.state = "deleted"]
    BY <1>4, <1>7
  <2> QED BY <1>3, <2>1 DEF SyncedRow, ToolRows, PeopleFields
<1>8. CASE ~(\E c \in created : c.id = t) /\ change = {} /\ ~(\E g \in q.body.gone : g.id = t)
  <2>1. ToolsAfterSync(r, created)[t] = tools[t]
    BY <1>4, <1>8
  <2> QED BY <1>3, <2>1 DEF SyncedRow
<1> QED BY <1>5, <1>6, <1>7, <1>8

LEMMA DiscoverKeeps ==
    ASSUME GovernanceInv, NEW r \in Requests, NEW offer \in Discoveries, Discover(r, offer)
    PROVE  GovernanceInv'
<1> PICK q : q = requests[r]
  OBVIOUS
<1>20. PICK next : next = [q EXCEPT !.pc = "discovered", !.body = offer]
  OBVIOUS
<1>1. /\ q.pc = "discovering" /\ UNCHANGED catalogue /\ UNCHANGED <<alerts, doubled, mishaps>>
      /\ UNCHANGED <<records, controls, snapshot, trusted>>
  BY DEF Discover, projections
<1>2. DOMAIN q = RequestFields /\ SyncHolds(q) /\ q.turn = "sync"
  BY <1>1 DEF GovernanceInv, RequestHolds
<1>3. requests' = [requests EXCEPT ![r] = next]
  BY <1>2, <1>20 DEF Discover, RequestFields
<1>4. InProgress(r) /\ RequestsTyped
  BY <1>1 DEF InProgress, Ended, GovernanceInv, RequestsTyped, RequestHolds
<1>5. /\ AlertsHold' /\ FieldsMatchStatus'
      /\ mishaps \cap {"reconciliations met", "reopened", "transition met"} = {} => NoDoubles'
  BY <1>1, AlertsKept
<1>6. RegisterHolds'
  BY <1>1 DEF GovernanceInv, RegisterHolds
<1>7. CatalogueHolds' /\ Grows
  BY <1>1, CatalogueKept DEF GovernanceInv
<1>8. /\ DOMAIN next = RequestFields /\ next.pc = "discovered" /\ next.body = offer
      /\ next.op = q.op /\ next.turn = q.turn /\ next.target = q.target
      /\ next.seen = q.seen /\ next.alone = q.alone
  BY <1>2, <1>20 DEF RequestFields
<1>9. requests'[r] = next /\ Others(r)' = Others(r)
  BY <1>3, <1>4, OthersKept
<1>10. SyncHolds(next)'
  BY <1>1, <1>2, <1>8 DEF SyncHolds, catalogue
<1>11. RequestHolds(requests[r])'
  BY <1>2, <1>8, <1>9, <1>10 DEF RequestHolds, Ended
<1>12. AloneHolds(r)'
  BY <1>4, <1>8, <1>9 DEF GovernanceInv, AloneHolds
<1>13. next.op \notin AlertOperations
  BY <1>2, <1>8 DEF SyncHolds, AlertOperations
<1> QED BY <1>1, <1>3, <1>4, <1>5, <1>6, <1>7, <1>8, <1>11, <1>12, <1>13, StepKeeps

\* A failure is recorded in the row of the server.
LEMMA FailureKeeps ==
    ASSUME GovernanceInv, NEW r \in Requests, DiscoveryFails(r) \/ RecordSyncFailure(r)
    PROVE  GovernanceInv'
<1> PICK q : q = requests[r]
  OBVIOUS
<1>1. /\ q.pc \in {"discovering", "failing"}
      /\ UNCHANGED <<agents, tools, rules>> /\ UNCHANGED <<alerts, doubled, mishaps>>
      /\ UNCHANGED <<records, controls, snapshot, trusted>>
      /\ Ends(r, "conflict") \/ Ends(r, "done")
  BY DEF DiscoveryFails, RecordSyncFailure, projections
<1>2. SyncHolds(q)
  BY <1>1 DEF GovernanceInv, RequestHolds
<1>3. InProgress(r)
  BY <1>1 DEF InProgress, Ended
<1>4. /\ AlertsHold' /\ FieldsMatchStatus'
      /\ mishaps \cap {"reconciliations met", "reopened", "transition met"} = {} => NoDoubles'
  BY <1>1, AlertsKept
<1>5. RegisterHolds'
  BY <1>1 DEF GovernanceInv, RegisterHolds
<1>6. q.target \in Servers /\ servers[q.target] \in ServerRows
  BY <1>2 DEF SyncHolds, GovernanceInv, CatalogueHolds
<1>7. PICK row : /\ servers' = [servers EXCEPT ![q.target] = row] /\ row \in ServerRows
                 /\ row.agent \in {servers[q.target].agent, q.seen.agent}
  <2>1. CASE DiscoveryFails(r)
    <3>1. PICK new : new = [q.seen EXCEPT !.status = "error"]
      OBVIOUS
    <3>2. new \in ServerRows /\ new.agent = q.seen.agent
      BY <1>2, <3>1 DEF SyncHolds, ServerRows
    <3>3. servers' = [servers EXCEPT ![q.target] = NetChange(servers[q.target], q.seen, new)]
      BY <2>1, <3>1 DEF DiscoveryFails
    <3>4. /\ NetChange(servers[q.target], q.seen, new) \in ServerRows
          /\ NetChange(servers[q.target], q.seen, new).agent
                \in {servers[q.target].agent, new.agent}
      BY <1>6, <3>2, ServerNetChange
    <3> QED BY <3>2, <3>3, <3>4
  <2>2. CASE RecordSyncFailure(r)
    <3>1. PICK new : new = [servers[q.target] EXCEPT !.status = "error"]
      OBVIOUS
    <3>2. new \in ServerRows /\ new.agent = servers[q.target].agent
      BY <1>6, <3>1 DEF ServerRows
    <3>3. servers' = [servers EXCEPT ![q.target] = new]
      BY <1>6, <2>2, <3>1 DEF RecordSyncFailure, GovernanceInv, CatalogueHolds
    <3> QED BY <3>2, <3>3
  <2> QED BY <2>1, <2>2
<1>8. CatalogueHolds' /\ Grows
  BY <1>1, <1>2, <1>6, <1>7 DEF GovernanceInv, CatalogueHolds, Grows, SyncHolds
<1> QED BY <1>1, <1>3, <1>4, <1>5, <1>8, EndKeeps DEF Ended

\* What a sync matches of a server's tools by name, and what it adopts.
LEMMA MatchedType ==
    ASSUME CatalogueHolds, NEW s \in Servers, NEW agent, NEW offer, NEW dict \in ByName(s)
    PROVE  /\ DOMAIN Matched(offer, dict, agent) = DOMAIN offer
           /\ \A n \in DOMAIN offer :
                 LET row == Matched(offer, dict, agent)[n] IN
                 \/ row \in ToolRows /\ tools[row.id].state # "absent"
                 \/ row = None /\ Adoptable(agent, n) = {}
           /\ \A n \in DOMAIN dict : RowHolds(tools[dict[n]])
<1>1. DOMAIN Matched(offer, dict, agent) = DOMAIN offer
  BY DEF Matched
<1>2. \A n \in DOMAIN dict : dict[n] \in Live /\ tools[dict[n]].server = s
  BY DEF ByName
<1>3. \A t \in Live : t \in Tools /\ tools[t] \in ToolRows /\ tools[t].id = t
                      /\ tools[t].state = "live"
  BY DEF Live, CatalogueHolds
<1>4. ASSUME NEW n \in DOMAIN offer
      PROVE  \/ /\ Matched(offer, dict, agent)[n] \in ToolRows
                /\ tools[Matched(offer, dict, agent)[n].id].state # "absent"
             \/ Matched(offer, dict, agent)[n] = None /\ Adoptable(agent, n) = {}
  <2>1. PICK found : found = Adoptable(agent, n)
    OBVIOUS
  <2>2. Matched(offer, dict, agent)[n] =
           IF n \in DOMAIN dict THEN tools[dict[n]]
           ELSE IF found = {} THEN None ELSE tools[CHOOSE t \in found : TRUE]
    BY <2>1 DEF Matched
  <2>3. CASE n \in DOMAIN dict
    <3>1. Matched(offer, dict, agent)[n] = tools[dict[n]]
      BY <2>2, <2>3
    <3>2. /\ tools[dict[n]] \in ToolRows /\ tools[dict[n]].id = dict[n]
          /\ tools[dict[n]].state = "live"
      BY <1>2, <1>3, <2>3
    <3> QED BY <3>1, <3>2
  <2>4. CASE n \notin DOMAIN dict /\ found # {}
    <3>1. PICK t : t = CHOOSE u \in found : TRUE
      OBVIOUS
    <3>2. t \in Live
      BY <2>1, <2>4, <3>1 DEF Adoptable
    <3>3. Matched(offer, dict, agent)[n] = tools[t]
      BY <2>2, <2>4, <3>1
    <3>4. tools[t] \in ToolRows /\ tools[t].id = t /\ tools[t].state = "live"
      BY <1>3, <3>2
    <3> QED BY <3>3, <3>4
  <2>5. CASE n \notin DOMAIN dict /\ found = {}
    BY <2>1, <2>2, <2>5
  <2> QED BY <2>3, <2>4, <2>5
<1>5. \A n \in DOMAIN dict : RowHolds(tools[dict[n]])
  <2>1. s # None
    BY GovernanceAssumption
  <2> QED BY <1>2, <1>3, <2>1 DEF RowHolds
<1> QED BY <1>1, <1>4, <1>5

LEMMA ReadSyncKeeps ==
    ASSUME GovernanceInv, NEW r \in Requests, ReadSync(r)
    PROVE  GovernanceInv'
<1> DEFINE q == requests[r]
           s == q.target
           agent == LinkedAgent(q.seen, s)
<1>1. /\ q.pc = "discovered" /\ UNCHANGED catalogue /\ UNCHANGED <<alerts, doubled, mishaps>>
      /\ UNCHANGED <<records, controls, snapshot, trusted>>
  BY DEF ReadSync, projections
<1>2. /\ DOMAIN q = RequestFields /\ SyncHolds(q) /\ q.turn = "sync" /\ q.body \in Discoveries
      /\ s \in Servers /\ q.op = "sync"
  BY <1>1 DEF GovernanceInv, RequestHolds, SyncHolds
<1>3. InProgress(r) /\ RequestsTyped /\ q.op \notin AlertOperations
  BY <1>1, <1>2 DEF InProgress, Ended, GovernanceInv, RequestsTyped, RequestHolds, AlertOperations
<1>4. /\ AlertsHold' /\ FieldsMatchStatus'
      /\ mishaps \cap {"reconciliations met", "reopened", "transition met"} = {} => NoDoubles'
  BY <1>1, AlertsKept
<1>5. RegisterHolds'
  BY <1>1 DEF GovernanceInv, RegisterHolds
<1>6. CatalogueHolds /\ CatalogueHolds' /\ Grows
  BY <1>1, CatalogueKept DEF GovernanceInv
<1>7. CASE LinkFails(q.seen, s)
  <2>1. PICK next : next = [q EXCEPT !.pc = "failing", !.turn = None]
    OBVIOUS
  <2>2. requests' = [requests EXCEPT ![r] = next]
    BY <1>2, <1>7, <2>1 DEF ReadSync, RequestFields
  <2>3. /\ DOMAIN next = RequestFields /\ next.pc = "failing" /\ next.turn = None
        /\ next.op = q.op /\ next.target = s /\ next.seen = q.seen /\ next.alone = q.alone
    BY <1>2, <2>1 DEF RequestFields
  <2>4. requests'[r] = next /\ Others(r)' = Others(r)
    BY <1>3, <2>2, OthersKept
  <2>5. SyncHolds(next)'
    BY <1>1, <1>2, <2>3 DEF SyncHolds, catalogue
  <2>6. RequestHolds(requests[r])'
    BY <2>3, <2>4, <2>5 DEF RequestHolds, Ended
  <2>7. None # "sync"
    BY GovernanceAssumption
  <2>8. AloneHolds(r)'
    BY <1>3, <2>3, <2>4, <2>7 DEF GovernanceInv, AloneHolds
  <2> QED BY <1>1, <1>3, <1>4, <1>5, <1>6, <2>2, <2>3, <2>6, <2>8, StepKeeps
<1>8. CASE ~LinkFails(q.seen, s)
  <2>1. PICK dict \in ByName(s) :
           LET match == Matched(q.body, dict, agent)
               kept == {n \in DOMAIN match : match[n] # None}
               own == {Updated(match[n], s, q.body[n]) : n \in kept}
               gone == {tools[dict[n]] : n \in DOMAIN dict \ DOMAIN match}
               Shown(o) == agents[o.agent] = "live" /\ ~servers[s].deleted
           IN  requests' = [requests EXCEPT ![r] =
                  [q EXCEPT !.pc = "read",
                            !.body = [offer |-> q.body, match |-> match, gone |-> gone,
                                      names |-> agents[agent] = "absent"],
                            !.view = [rules |-> EnabledRules,
                                      tools |-> {t \in DiscoveredRows :
                                         \A o \in own \cup gone : o.id # t.id}
                                         \cup {o \in own : Shown(o)},
                                      active |-> ActiveAlerts, records |-> records,
                                      controls |-> controls]]]
    BY <1>8 DEF ReadSync
  <2> DEFINE found == Matched(q.body, dict, agent)
             own == {Updated(found[n], s, q.body[n]) : n \in {m \in DOMAIN found : found[m] # None}}
             removed == {tools[dict[n]] : n \in DOMAIN dict \ DOMAIN found}
             shown == {o \in own : agents[o.agent] = "live" /\ ~servers[s].deleted}
             rows == {t \in DiscoveredRows : \A o \in own \cup removed : o.id # t.id} \cup shown
             planned == [offer |-> q.body, match |-> found, gone |-> removed,
                         names |-> agents[agent] = "absent"]
             viewed == [rules |-> EnabledRules, tools |-> rows, active |-> ActiveAlerts,
                        records |-> records, controls |-> controls]
  <2>2. requests' = [requests EXCEPT ![r] =
           [q EXCEPT !.pc = "read", !.body = planned, !.view = viewed]]
    BY <2>1
  <2>3. /\ DOMAIN found = DOMAIN q.body
        /\ \A n \in DOMAIN q.body :
              \/ found[n] \in ToolRows /\ tools[found[n].id].state # "absent"
              \/ found[n] = None /\ Adoptable(agent, n) = {}
        /\ \A g \in removed : RowHolds(g)
        /\ found = [n \in DOMAIN q.body |-> found[n]]
    <3>1. found = [n \in DOMAIN q.body |-> found[n]]
      BY DEF Matched
    <3>2. /\ DOMAIN found = DOMAIN q.body
          /\ \A n \in DOMAIN q.body :
                LET row == found[n] IN
                \/ row \in ToolRows /\ tools[row.id].state # "absent"
                \/ row = None /\ Adoptable(agent, n) = {}
          /\ \A n \in DOMAIN dict : RowHolds(tools[dict[n]])
      BY <1>2, <1>6, MatchedType
    <3>3. \A g \in removed : RowHolds(g)
      BY <3>2
    <3> HIDE DEF found, removed
    <3> QED BY <3>1, <3>2, <3>3
  <2>4. own \subseteq ToolRows /\ \A o \in own : o.server # None
    <3>1. ASSUME NEW n \in DOMAIN q.body, found[n] # None
          PROVE  Updated(found[n], s, q.body[n]) \in ToolRows
                 /\ Updated(found[n], s, q.body[n]).server = s
      <4>1. found[n] \in ToolRows
        BY <2>3, <3>1
      <4>2. q.body[n] \in [schema : Texts, description : Texts]
        BY <1>2, OfferType
      <4> QED BY <1>2, <4>1, <4>2, UpdatedType
    <3>2. s # None
      BY <1>2, GovernanceAssumption
    <3> QED BY <2>3, <3>1, <3>2
  <2>5. rows \subseteq ToolRows /\ \A t \in rows : t.server # None
    BY <1>6, <2>4, DiscoveredType
  <2>6. PICK match : match = found
    OBVIOUS
  <2>7. PICK gone : gone = removed
    OBVIOUS
  <2>8. PICK plan : plan = [offer |-> q.body, match |-> match, gone |-> gone,
                            names |-> agents[agent] = "absent"]
    OBVIOUS
  <2>9. PICK view : view = viewed
    OBVIOUS
  <2> HIDE DEF found, removed, rows, own, shown
  <2>10. PICK next : next = [q EXCEPT !.pc = "read", !.body = plan, !.view = view]
    OBVIOUS
  <2>11. requests' = [requests EXCEPT ![r] = next]
    BY <2>2, <2>6, <2>7, <2>8, <2>9, <2>10
  <2>12. /\ DOMAIN match = DOMAIN q.body
         /\ \A n \in DOMAIN q.body :
               \/ match[n] \in ToolRows /\ tools[match[n].id].state # "absent"
               \/ match[n] = None /\ Adoptable(agent, n) = {}
         /\ \A g \in gone : RowHolds(g)
         /\ match = [n \in DOMAIN q.body |-> match[n]]
    BY <2>3, <2>6, <2>7
  <2>13. ViewHolds(view) /\ DOMAIN view = DOMAIN NoView
    <3>1. EnabledRules \subseteq RuleRows
      BY <1>6 DEF EnabledRules, Range, CatalogueHolds
    <3>2. ActiveAlerts \subseteq AlertRows
      BY DEF ActiveAlerts, GovernanceInv, AlertsHold
    <3> QED BY <2>5, <2>9, <3>1, <3>2 DEF ViewHolds, NoView, GovernanceInv, RegisterHolds
  <2>14. /\ DOMAIN next = RequestFields /\ next.pc = "read" /\ next.turn = "sync"
         /\ next.op = q.op /\ next.target = s /\ next.seen = q.seen /\ next.alone = q.alone
         /\ next.body = plan /\ next.view = view
    BY <1>2, <2>10 DEF RequestFields
  <2>15. requests'[r] = next /\ Others(r)' = Others(r)
    BY <1>3, <2>11, OthersKept
  <2>16. SyncHolds(next)'
    BY <1>1, <1>2, <2>14 DEF SyncHolds, catalogue
  <2>17. PlanHolds(next)'
    <3>1. /\ DOMAIN plan = {"offer", "match", "gone", "names"}
          /\ plan.offer = q.body /\ plan.match = match /\ plan.gone = gone
      BY <2>8
    <3>2. match \in [DOMAIN q.body -> ToolRows \cup {None}]
      BY <2>12
    <3>3. \A g \in gone : RowHolds(g)'
      BY <1>1, <2>12 DEF RowHolds, catalogue
    <3>4. \A n \in DOMAIN match : match[n] # None => tools'[match[n].id].state # "absent"
      BY <1>1, <2>12 DEF catalogue
    <3> QED BY <1>2, <2>14, <3>1, <3>2, <3>3, <3>4 DEF PlanHolds
  <2>18. ViewHolds(view)'
    BY <2>13 DEF ViewHolds
  <2>19. RequestHolds(requests[r])'
    <3>1. TurnHolds(next)'
      BY <2>14, <2>16, <2>17 DEF TurnHolds
    <3> QED BY <2>13, <2>14, <2>15, <2>18, <3>1 DEF RequestHolds, Ended
  <2>20. AloneHolds(r)'
    <3>1. requests'[r].alone => Others(r)' = {}
      BY <1>3, <2>14, <2>15 DEF GovernanceInv, AloneHolds
    <3>2. view.records = records /\ view.controls = controls
      BY <2>9
    <3>3. plan.match = match /\ (plan.names => agents[Namesake[s]] = "absent")
      BY <1>2, <2>8 DEF LinkedAgent, SyncHolds
    <3>4. PICK linked : linked = agent
      OBVIOUS
    <3>5. LinkedAgent(next.seen, next.target) = linked
      BY <2>14, <3>4
    <3>6. \A n \in DOMAIN match : match[n] = None => Adoptable(linked, n) = {}
      BY <2>12, <3>4, GovernanceAssumption
    <3>7. \A n : Adoptable(linked, n)' = Adoptable(linked, n)
      BY <1>1 DEF Adoptable, Live, catalogue
    <3>8. LinkedAgent(requests[r].seen, requests[r].target)' = linked
      BY <2>15, <3>5 DEF LinkedAgent
    <3>9. \A n \in DOMAIN match : match[n] = None =>
             Adoptable(LinkedAgent(requests[r].seen, requests[r].target), n)' = {}
      BY <3>6, <3>7, <3>8 DEF Adoptable
    <3> QED BY <1>1, <2>14, <2>15, <3>1, <3>2, <3>3, <3>9 DEF AloneHolds, catalogue
  <2>21. next.view.active = ActiveAlerts'
    BY <1>1, <2>9, <2>14 DEF ActiveAlerts
  <2> QED BY <1>1, <1>3, <1>4, <1>5, <1>6, <2>11, <2>14, <2>19, <2>20, <2>21, StepKeeps
<1> QED BY <1>7, <1>8

\* The unique indexes refuse nothing when what was read is what is there.
LEMMA NoRegisterConflict ==
    ASSUME NEW v, ViewHolds(v), v.records = records, v.controls = controls
    PROVE  ~RegisterConflict(v)
  BY DEF RegisterConflict

LEMMA FailSyncKeeps ==
    ASSUME GovernanceInv, NEW r \in Requests, FailSync(r)
    PROVE  GovernanceInv' /\ ~requests[r].alone
<1> PICK q : q = requests[r]
  OBVIOUS
<1>20. PICK next : next = [q EXCEPT !.pc = "failing"]
  OBVIOUS
<1>1. /\ q.pc = "read" /\ q.turn = "sync" /\ SyncConflict(r)
      /\ UNCHANGED catalogue /\ UNCHANGED <<alerts, doubled, mishaps>>
      /\ UNCHANGED <<records, controls, snapshot, trusted>>
      /\ requests' = [requests EXCEPT ![r] = next]
  BY <1>20 DEF FailSync, projections
<1>2. Ready(r) /\ SyncHolds(q) /\ DOMAIN q = RequestFields /\ ViewHolds(q.view)
  BY <1>1, IsReady DEF Ready
<1>3. InProgress(r) /\ RequestsTyped /\ q.op \notin AlertOperations
  BY <1>1, <1>2 DEF InProgress, Ended, GovernanceInv, RequestsTyped, RequestHolds, AlertOperations,
                    SyncHolds
<1>4. /\ AlertsHold' /\ FieldsMatchStatus'
      /\ mishaps \cap {"reconciliations met", "reopened", "transition met"} = {} => NoDoubles'
  BY <1>1, AlertsKept
<1>5. RegisterHolds'
  BY <1>1 DEF GovernanceInv, RegisterHolds
<1>6. CatalogueHolds' /\ Grows
  BY <1>1, CatalogueKept DEF GovernanceInv
<1>7. /\ DOMAIN next = RequestFields /\ next.pc = "failing" /\ next.alone = q.alone
      /\ next.op = q.op /\ next.target = q.target /\ next.seen = q.seen
  BY <1>2, <1>20 DEF RequestFields
<1>8. requests'[r] = next /\ Others(r)' = Others(r)
  BY <1>1, <1>3, OthersKept
<1>9. SyncHolds(next)'
  BY <1>1, <1>2, <1>7 DEF SyncHolds, catalogue
<1>10. RequestHolds(requests[r])'
  BY <1>7, <1>8, <1>9 DEF RequestHolds, Ended
<1>11. ~q.alone
  <2> SUFFICES ASSUME q.alone
               PROVE  FALSE
    OBVIOUS
  <2>1. /\ q.view.records = records /\ q.view.controls = controls
        /\ q.body.names => agents[Namesake[q.target]] = "absent"
        /\ \A n \in DOMAIN q.body.match : q.body.match[n] = None =>
              Adoptable(LinkedAgent(q.seen, q.target), n) = {}
    BY <1>1, <1>3 DEF GovernanceInv, AloneHolds
  <2>2. ~RegisterConflict(q.view)
    BY <1>2, <2>1, NoRegisterConflict
  <2> QED BY <1>1, <2>1, <2>2 DEF SyncConflict, Unmatched
<1>12. AloneHolds(r)'
  BY <1>7, <1>8, <1>11 DEF AloneHolds
<1> QED BY <1>1, <1>3, <1>4, <1>5, <1>6, <1>7, <1>10, <1>11, <1>12, StepKeeps

LEMMA SyncWantsType ==
    ASSUME CatalogueHolds, NEW r, Ready(r), RowsLeft(r), NEW created, created = NewTools(r)
    PROVE  /\ EventWants(r, created) \subseteq WantRows
           /\ \A n \in DOMAIN requests[r].body.match \ Unmatched(r) : \A ruleSet :
                 ToolWants(Updated(requests[r].body.match[n], requests[r].target,
                                   requests[r].body.offer[n]), ruleSet, FALSE) \subseteq WantRows
           /\ \A c \in created : \A ruleSet : ToolWants(c, ruleSet, FALSE) \subseteq WantRows
<1> PICK q : q = requests[r]
  OBVIOUS
<1> PICK kept : kept = DOMAIN q.body.match \ Unmatched(r)
  OBVIOUS
<1> DEFINE Row(n) == Updated(q.body.match[n], q.target, q.body.offer[n])
<1>1. q.target # None
  BY GovernanceAssumption DEF Ready, SyncHolds
<1>2. \A n \in kept : Row(n) \in ToolRows /\ Row(n).server # None
  BY <1>1, KeptType
<1>3. \A c \in created : c \in ToolRows /\ c.server # None
  BY <1>1, NewToolsType
<1>4. \A g \in q.body.gone : g \in ToolRows /\ g.server # None
  BY DEF Ready, PlanHolds, RowHolds
<1>5. ASSUME NEW kind \in EventAlertKinds, NEW t \in ToolRows, t.server # None
      PROVE  Event(kind, t) \in WantRows
  <2>1. kind \in AlertKinds
    BY DEF AlertKinds
  <2> QED BY <1>5, <2>1, WantType DEF Event
<1>6. EventWants(r, created) \subseteq WantRows
  <2>1. ASSUME NEW w \in EventWants(r, created)
        PROVE  \/ \E t \in created : w = Event("new_tool_discovered", t)
               \/ \E n \in kept : w = Event("description_changed", Row(n))
               \/ \E n \in kept : w = Event("schema_changed", Row(n))
               \/ \E g \in q.body.gone : w = Event("tool_removed", g)
    BY <2>1 DEF EventWants
  <2> HIDE DEF Row
  <2> QED BY <1>2, <1>3, <1>4, <1>5, <2>1 DEF EventAlertKinds
<1>7. \A n \in kept : \A ruleSet : ToolWants(Row(n), ruleSet, FALSE) \subseteq WantRows
  BY <1>2, ToolWantsType
<1>8. \A c \in created : \A ruleSet : ToolWants(c, ruleSet, FALSE) \subseteq WantRows
  BY <1>3, ToolWantsType
<1> QED BY <1>6, <1>7, <1>8

LEMMA CommitSyncKeeps ==
    ASSUME GovernanceInv, NEW r \in Requests, CommitSync(r)
    PROVE  GovernanceInv'
<1> DEFINE q == requests[r]
           s == q.target
           agent == LinkedAgent(q.seen, s)
           created == NewTools(r)
           v == SyncView(r, created)
           kept == {Updated(q.body.match[n], s, q.body.offer[n]) :
                       n \in DOMAIN q.body.match \ Unmatched(r)}
           wants == EventWants(r, created)
                    \cup (UNION {ToolWants(t, v.rules, FALSE) : t \in kept \cup created})
                    \cup RiskWants(v.tools, v.rules)
<1>1. /\ q.pc = "read" /\ q.turn = "sync" /\ RowsLeft(r)
      /\ Reconciles(wants, v.active) /\ SetRegister(v)
      /\ tools' = ToolsAfterSync(r, created)
      /\ agents' = [agents EXCEPT ![agent] = IF @ = "absent" THEN "live" ELSE @]
      /\ servers' = [servers EXCEPT ![s] =
            NetChange(servers[s], q.seen, [q.seen EXCEPT !.agent = agent, !.status = "connected"])]
      /\ Ends(r, "done")
      /\ UNCHANGED <<rules, snapshot, trusted, mishaps>>
  BY DEF CommitSync
<1>2. Ready(r) /\ CatalogueHolds
  BY <1>1, IsReady DEF GovernanceInv
<1>3. /\ s \in Servers /\ q.seen \in ServerRows /\ ViewHolds(q.view)
      /\ DOMAIN q.view = DOMAIN NoView
  BY <1>2 DEF Ready, SyncHolds
<1>4. agent \in Agents
  BY <1>3, LinkedAgentType
<1>5. InProgress(r)
  BY <1>1 DEF InProgress, Ended
<1>6. /\ v.rules = q.view.rules /\ v.active = q.view.active /\ v.records = q.view.records
      /\ v.controls = q.view.controls /\ v.tools \subseteq q.view.tools \cup created
  BY <1>3 DEF SyncView, NoView
<1>7. \A c \in created : c \in ToolRows /\ c.server # None
  <2>1. s # None
    BY <1>3, GovernanceAssumption
  <2> QED BY <1>2, <2>1, NewToolsType, <1>1
<1>8. ViewHolds(v)
  BY <1>3, <1>6, <1>7 DEF ViewHolds
<1>9. wants \subseteq WantRows
  <2>1. /\ EventWants(r, created) \subseteq WantRows
        /\ \A n \in DOMAIN q.body.match \ Unmatched(r) : \A ruleSet :
              ToolWants(Updated(q.body.match[n], s, q.body.offer[n]), ruleSet, FALSE)
                 \subseteq WantRows
        /\ \A c \in created : \A ruleSet : ToolWants(c, ruleSet, FALSE) \subseteq WantRows
    BY <1>1, <1>2, SyncWantsType
  <2>2. \A t \in kept \cup created : ToolWants(t, v.rules, FALSE) \subseteq WantRows
    BY <2>1
  <2>3. RiskWants(v.tools, v.rules) \subseteq WantRows
    BY <1>8, RiskWantsType DEF ViewHolds
  <2>4. UNION {ToolWants(t, v.rules, FALSE) : t \in kept \cup created} \subseteq WantRows
    <3> HIDE DEF kept, created, v
    <3> QED BY <2>2
  <2>5. EventWants(r, created) \subseteq WantRows
    BY <2>1
  <2> HIDE DEF kept, created, v
  <2> QED BY <2>3, <2>4, <2>5
<1>10. /\ AlertsHold' /\ FieldsMatchStatus'
       /\ mishaps \cap {"reconciliations met", "reopened", "transition met"} = {} => NoDoubles'
  <2>1. Reconciles(wants, q.view.active)
    BY <1>1, <1>6
  <2> HIDE DEF wants
  <2> QED BY <1>1, <1>9, <2>1, Reconciled
<1>11. RegisterHolds'
  <2>1. trusted' \in BOOLEAN /\ snapshot' = snapshot
    BY <1>1 DEF GovernanceInv, RegisterHolds
  <2> HIDE DEF v
  <2> QED BY <1>1, <1>8, <2>1, Registered DEF GovernanceInv
<1>12. \A t \in Tools : SyncedRow(t, tools'[t])
  BY <1>1, <1>2, SyncedRows
<1>13. DOMAIN tools' = Tools /\ tools' = [t \in Tools |-> tools'[t]]
  <2>1. \A x : /\ DOMAIN ToolsAfterSync(r, x) = Tools
               /\ ToolsAfterSync(r, x) = [t \in Tools |-> ToolsAfterSync(r, x)[t]]
    BY DEF ToolsAfterSync
  <2> HIDE DEF created
  <2> QED BY <1>1, <2>1
<1>14. /\ agents' \in [Agents -> {"absent", "live", "deleted"}] /\ agents'[agent] # "absent"
       /\ \A a \in Agents : agents[a] # "absent" => agents'[a] # "absent"
  BY <1>1, <1>2, <1>4 DEF CatalogueHolds
<1>15. PICK row : /\ servers' = [servers EXCEPT ![s] = row] /\ row \in ServerRows
                  /\ row.agent \in {servers[s].agent, agent}
  <2>1. PICK new : new = [q.seen EXCEPT !.agent = agent, !.status = "connected"]
    OBVIOUS
  <2>2. new \in ServerRows /\ new.agent = agent
    BY <1>3, <1>4, <2>1 DEF ServerRows
  <2>3. servers[s] \in ServerRows
    BY <1>2, <1>3 DEF CatalogueHolds
  <2>4. NetChange(servers[s], q.seen, new) \in ServerRows
        /\ NetChange(servers[s], q.seen, new).agent \in {servers[s].agent, new.agent}
    BY <2>2, <2>3, ServerNetChange
  <2> HIDE DEF agent, s
  <2> QED BY <1>1, <2>1, <2>2, <2>4
<1>16. Grows
  BY <1>1, <1>12, <1>14 DEF SyncedRow, Grows
<1>17. CatalogueHolds'
  <2>1. tools' \in [Tools -> ToolRows] /\ \A t \in Tools : tools'[t].id = t
    BY <1>12, <1>13 DEF SyncedRow
  <2>2. servers' \in [Servers -> ServerRows]
    BY <1>2, <1>15 DEF CatalogueHolds
  <2>3. ASSUME NEW x \in Servers, servers'[x].agent # None
        PROVE  agents'[servers'[x].agent] # "absent"
    <3>1. servers'[x].agent \in {servers[x].agent, agent}
      BY <1>2, <1>15 DEF CatalogueHolds
    <3>2. servers[x].agent \in Agents \cup {None}
      BY <1>2 DEF CatalogueHolds, ServerRows
    <3>3. servers[x].agent # None => agents[servers[x].agent] # "absent"
      BY <1>2 DEF CatalogueHolds
    <3> HIDE DEF agent
    <3> QED BY <1>14, <2>3, <3>1, <3>2, <3>3
  <2> QED BY <1>1, <1>2, <1>14, <2>1, <2>2, <2>3 DEF CatalogueHolds
<1> QED BY <1>1, <1>5, <1>10, <1>11, <1>16, <1>17, EndKeeps DEF Ended

-----------------------------------------------------------------------------
(***************************************************************************)
(* The invariant.                                                          *)
(***************************************************************************)
LEMMA GovernanceInvInit ==
    ASSUME GovernanceInit
    PROVE  GovernanceInv
<1>1. PICK c \in InitialCatalogs : /\ agents = c.agents /\ servers = c.servers
                                   /\ tools = c.tools /\ rules = c.rules
  BY DEF GovernanceInit
<1>2. /\ alerts = {} /\ records = [t \in Tools |-> None] /\ controls = FALSE
      /\ snapshot = FALSE /\ requests = [r \in Requests |-> IdleRequest]
      /\ trusted = FALSE /\ doubled = {} /\ mishaps = {}
  BY DEF GovernanceInit
<1>3. IsCatalog(c)
  BY GovernanceAssumption
<1>4. CatalogueHolds
  BY <1>1, <1>3 DEF IsCatalog, CatalogueHolds
<1>5. RegisterHolds
  BY <1>2 DEF RegisterHolds
<1>6. AlertsHold
  BY <1>2 DEF AlertsHold
<1>7. DOMAIN IdleRequest = RequestFields /\ IdleRequest.pc = "idle"
  BY DEF IdleRequest, RequestFields
<1>8. \A r \in Requests : requests[r].pc = "idle" /\ DOMAIN requests[r] = RequestFields
  BY <1>2, <1>7
<1>9. \A r \in Requests : ~InProgress(r)
  BY <1>8 DEF InProgress, Ended
<1>10. \A r \in Requests : RequestHolds(requests[r])
  BY <1>8 DEF RequestHolds, Ended
<1>11. \A r \in Requests : AloneHolds(r)
  BY <1>9 DEF AloneHolds
<1>12. Doubles(alerts) = {}
  BY <1>2 DEF Doubles
<1> QED BY <1>2, <1>4, <1>5, <1>6, <1>9, <1>10, <1>11, <1>12
        DEF GovernanceInv, FieldsMatchStatus, TransitionsHold, ReconcilersHold, DoublesHold

LEMMA RuleNextKeeps ==
    ASSUME GovernanceInv, NEW r \in Requests, RuleNext(r)
    PROVE  GovernanceInv'
<1>1. ASSUME NEW i \in RuleIds, NEW b \in RuleBodies, LoadRuleToCreate(r, i, b)
      PROVE  GovernanceInv'
  BY <1>1, CreateRuleKeeps
<1>2. ASSUME NEW i \in RuleIds, NEW b \in RuleBodies, LoadRule(r, i, "update rule", b)
      PROVE  GovernanceInv'
  BY <1>2, LoadRuleKeeps
<1>3. ASSUME NEW i \in RuleIds, LoadRule(r, i, "delete rule", None)
      PROVE  GovernanceInv'
  BY <1>3, LoadRuleKeeps
<1>4. ASSUME CommitRule(r)
      PROVE  GovernanceInv'
  BY <1>4, CommitRuleKeeps
<1> QED BY <1>1, <1>2, <1>3, <1>4 DEF RuleNext

LEMMA CatalogueNextKeeps ==
    ASSUME GovernanceInv, NEW r \in Requests, CatalogueNext(r)
    PROVE  GovernanceInv'
<1>1. ASSUME NEW t \in Tools, NEW b \in Reviews, ReviewTool(r, t, b)
      PROVE  GovernanceInv'
  BY <1>1, ReviewToolKeeps
<1>2. ASSUME NEW t \in Tools, NEW b \in ToolPatches, LoadTool(r, t, b)
      PROVE  GovernanceInv'
  BY <1>2, LoadToolKeeps
<1>3. ASSUME CommitTool(r)
      PROVE  GovernanceInv'
  BY <1>3, CommitToolKeeps
<1>4. ASSUME \/ \E t \in Tools : DeleteTool(r, t)
             \/ \E s \in Servers : DeleteServer(r, s)
             \/ \E a \in Agents : DeleteAgent(r, a)
             \/ \E s \in Servers, a \in Agents \cup {None} : RelinkServer(r, s, a)
      PROVE  GovernanceInv'
  BY <1>4, DeleteKeeps
<1> QED BY <1>1, <1>2, <1>3, <1>4 DEF CatalogueNext

LEMMA SyncNextKeeps ==
    ASSUME GovernanceInv, NEW r \in Requests, SyncNext(r)
    PROVE  GovernanceInv'
<1>1. ASSUME NEW s \in Servers, LoadServer(r, s)
      PROVE  GovernanceInv'
  BY <1>1, LoadServerKeeps
<1>2. ASSUME NEW offer \in Discoveries, Discover(r, offer)
      PROVE  GovernanceInv'
  BY <1>2, DiscoverKeeps
<1> QED BY <1>1, <1>2, FailureKeeps, ReadSyncKeeps, FailSyncKeeps, CommitSyncKeeps DEF SyncNext

LEMMA GovernanceNextKeeps ==
    ASSUME GovernanceInv, NEW r \in Requests, GovernanceNext(r)
    PROVE  GovernanceInv'
<1>1. ASSUME AlertNext(r)
      PROVE  GovernanceInv'
  BY <1>1, LoadAlertKeeps, CommitAlertKeeps DEF AlertNext
<1>2. ASSUME RegisterNext(r)
      PROVE  GovernanceInv'
  BY <1>2, ReadRegisterKeeps, BuildItemsKeeps, CommitSnapshotKeeps DEF RegisterNext
<1>3. ASSUME ReadRules(r) \/ ReadTools(r) \/ ReconcileAllTools(r) \/ ReconcileRisk(r)
             \/ ReconcileTool(r)
      PROVE  GovernanceInv'
  BY <1>3, ReadRulesKeeps, ReadToolsKeeps, ReconcileAllToolsKeeps, ReconcileRiskKeeps,
     ReconcileToolKeeps
<1>4. ASSUME Conflict(r) \/ Crash(r)
      PROVE  GovernanceInv'
  BY <1>4, CrashKeeps
<1> QED BY <1>1, <1>2, <1>3, <1>4, RuleNextKeeps, CatalogueNextKeeps DEF GovernanceNext

LEMMA StutterKeeps ==
    ASSUME GovernanceInv, UNCHANGED governanceVars
    PROVE  GovernanceInv'
<1>1. /\ UNCHANGED catalogue /\ UNCHANGED <<alerts, doubled, mishaps>>
      /\ UNCHANGED <<records, controls, snapshot, trusted, requests>>
  BY DEF governanceVars, projections
<1>2. CatalogueHolds' /\ Grows
  BY <1>1, CatalogueKept DEF GovernanceInv
<1>3. /\ AlertsHold' /\ FieldsMatchStatus'
      /\ mishaps \cap {"reconciliations met", "reopened", "transition met"} = {} => NoDoubles'
  BY <1>1, AlertsKept
<1>4. RegisterHolds'
  BY <1>1 DEF GovernanceInv, RegisterHolds
<1>5. ASSUME NEW r \in Requests
      PROVE  RequestHolds(requests[r])'
  <2>1. RequestHolds(requests[r]) /\ DOMAIN requests'[r] = RequestFields
    BY <1>1 DEF GovernanceInv, RequestHolds
  <2>2. SameRequest(requests[r], requests'[r])
    BY <1>1 DEF SameRequest
  <2> QED BY <1>2, <2>1, <2>2, RequestKept DEF GovernanceInv
<1>6. \A r \in Requests : Others(r)' = Others(r) /\ (InProgress(r)' <=> InProgress(r))
  BY <1>1 DEF Others, InProgress
<1>7. ASSUME NEW r \in Requests
      PROVE  AloneHolds(r)'
  <2>1. AloneHolds(r)
    BY DEF GovernanceInv
  <2>2. \A agent, name : /\ Adoptable(agent, name)' = Adoptable(agent, name)
                         /\ NameTaken(agent, name)' <=> NameTaken(agent, name)
    BY <1>1 DEF Adoptable, Live, NameTaken, catalogue
  <2>3. Discovered' = Discovered /\ DiscoveredRows' = DiscoveredRows
    BY <1>1 DEF DiscoveredRows, Discovered, IsDiscovered, catalogue
  <2> QED BY <1>1, <1>6, <2>1, <2>2, <2>3 DEF AloneHolds, LinkedAgent, catalogue
<1>8. TransitionsHold' /\ ReconcilersHold' /\ DoublesHold'
  <2>1. ActiveAlerts' = ActiveAlerts
    BY <1>1 DEF ActiveAlerts
  <2>2. TransitionsHold /\ ReconcilersHold /\ DoublesHold
    BY DEF GovernanceInv
  <2>3. TransitionsHold'
    BY <1>1, <1>6, <2>2 DEF TransitionsHold
  <2>4. ReconcilersHold'
    BY <1>1, <1>6, <2>1, <2>2 DEF ReconcilersHold
  <2>5. DoublesHold'
    BY <1>1, <1>3, <1>6, <2>2 DEF DoublesHold, NoDoubles
  <2> QED BY <2>3, <2>4, <2>5
<1> QED BY <1>1, <1>2, <1>3, <1>4, <1>5, <1>7, <1>8 DEF GovernanceInv

LEMMA GovernanceInvKept == GovernanceInv /\ [Next]_governanceVars => GovernanceInv'
<1> SUFFICES ASSUME GovernanceInv, [Next]_governanceVars
             PROVE  GovernanceInv'
  OBVIOUS
<1>1. CASE UNCHANGED governanceVars
  BY <1>1, StutterKeeps
<1>2. ASSUME NEW r \in Requests, GovernanceNext(r) \/ SyncNext(r)
      PROVE  GovernanceInv'
  BY <1>2, GovernanceNextKeeps, SyncNextKeeps
<1> QED BY <1>1, <1>2 DEF Next

LEMMA GovernanceInvariant == Spec => []GovernanceInv
<1>1. GovernanceInit => GovernanceInv
  BY GovernanceInvInit
<1> QED BY <1>1, GovernanceInvKept, PTL DEF Spec

(***************************************************************************)
(* Theorem: whatever overlaps, the tables hold what their columns admit    *)
(* (models/*.py): each tool, server, rule, alert and record keeps its      *)
(* form, and the times and users of an alert tell its status unless a      *)
(* transition has met another request.                                     *)
(***************************************************************************)
THEOREM GovernanceTypeCorrect == Spec => []GovernanceTypeOK
<1>1. GovernanceInv => GovernanceTypeOK
  BY DEF GovernanceInv, CatalogueHolds, RegisterHolds, AlertsHold, GovernanceTypeOK
<1> QED BY <1>1, GovernanceInvariant, PTL

(***************************************************************************)
(* Theorem: two active alerts of one kind for one tool take two            *)
(* reconciliations that overlap, an alert reopened, or a transition that   *)
(* overlaps another request (create_alert_pending and transition_alert of  *)
(* services/governance_alerts.py look for an active alert or write one     *)
(* over, without a lock or a unique index).                                *)
(***************************************************************************)
THEOREM NoDuplicateAlerts == Spec => []DuplicatesNeedMishap
<1>1. GovernanceInv => DuplicatesNeedMishap
  BY DEF GovernanceInv, DoublesHold, DuplicatesNeedMishap
<1> QED BY <1>1, GovernanceInvariant, PTL

-----------------------------------------------------------------------------
(***************************************************************************)
(* Requests that fail.                                                     *)
(***************************************************************************)
\* A step that sends no request to a conflict.
NoneFails == \A q \in Requests : requests'[q].pc = "conflict" => requests[q].pc = "conflict"

LEMMA BeginFailsNone ==
    ASSUME RequestsTyped, NEW r \in Requests, NEW op, NEW state, Begins(r, op, state),
           "pc" \in DOMAIN state, state.pc # "conflict"
    PROVE  NoneFails
<1>1. HasBegun(r, op, state)
  BY Begun
<1>2. requests'[r].pc = state.pc
  BY <1>1 DEF HasBegun, RequestFields
<1> QED BY <1>1, <1>2 DEF HasBegun, SameRequest, NoneFails

\* A step of r fails at most r.
LEMMA StepFails ==
    ASSUME RequestsTyped, NEW r \in Requests, NEW next,
           requests' = [requests EXCEPT ![r] = next]
    PROVE  \A q \in Requests : requests'[q].pc = "conflict" =>
              requests[q].pc = "conflict" \/ (q = r /\ next.pc = "conflict")
<1>1. /\ requests'[r] = next /\ \A q \in Requests \ {r} : requests'[q] = requests[q]
  BY DEF RequestsTyped
<1>2. requests'[r].pc = next.pc
  BY <1>1
<1>3. ASSUME NEW q \in Requests, q # r
      PROVE  requests'[q].pc = requests[q].pc
  BY <1>1, <1>3
<1> QED BY <1>2, <1>3

\* The operations that begin in one step, the synchronization apart.
Beginning(r) ==
    \/ \E i \in RuleIds, body \in RuleBodies : LoadRuleToCreate(r, i, body)
    \/ \E i \in RuleIds, op \in RuleOperations :
          \E body \in RuleBodies \cup {None} : LoadRule(r, i, op, body)
    \/ \E t \in Tools, review \in Reviews : ReviewTool(r, t, review)
    \/ \E t \in Tools, patch \in ToolPatches : LoadTool(r, t, patch)
    \/ \E t \in Tools : DeleteTool(r, t)
    \/ \E s \in Servers : DeleteServer(r, s)
    \/ \E a \in Agents : DeleteAgent(r, a)
    \/ \E s \in Servers, a \in Agents \cup {None} : RelinkServer(r, s, a)
    \/ \E a \in alerts, op \in AlertOperations : LoadAlert(r, a, op)
    \/ \E op \in {"register", "summary"} : ReadRegister(r, op)

BeginsSome(r) ==
    \E op, state : /\ Begins(r, op, state) /\ "pc" \in DOMAIN state
                   /\ state.pc \in {"loaded", "reconcile", "done"}

LEMMA BeginningBegins ==
    ASSUME NEW r \in Requests, Beginning(r)
    PROVE  BeginsSome(r)
<1>1. ASSUME NEW i \in RuleIds, NEW body \in RuleBodies, LoadRuleToCreate(r, i, body)
      PROVE  BeginsSome(r)
  <2> PICK state : state = [pc |-> "loaded", target |-> i, body |-> body]
    OBVIOUS
  <2>1. Begins(r, "create rule", state) /\ "pc" \in DOMAIN state /\ state.pc = "loaded"
    BY <1>1 DEF LoadRuleToCreate
  <2> QED BY <2>1 DEF BeginsSome
<1>2. ASSUME NEW i \in RuleIds, NEW op, NEW body, LoadRule(r, i, op, body)
      PROVE  BeginsSome(r)
  <2> PICK state : state = [pc |-> "loaded", target |-> i, seen |-> rules[i],
                      body |-> IF op = "delete rule" THEN [deleted |-> TRUE] ELSE body,
                      covered |-> CoveredTools]
    OBVIOUS
  <2>1. Begins(r, op, state) /\ "pc" \in DOMAIN state /\ state.pc = "loaded"
    BY <1>2 DEF LoadRule
  <2> QED BY <2>1 DEF BeginsSome
<1>3. ASSUME NEW t \in Tools, NEW review \in Reviews, ReviewTool(r, t, review)
      PROVE  BeginsSome(r)
  <2> PICK state :
         state = [pc |-> "reconcile", turn |-> "review", target |-> t, seen |-> tools[t],
                  body |-> [risk |-> review.risk, permission |-> review.permission,
                           reviewed |-> TRUE]]
    OBVIOUS
  <2>1. Begins(r, "review tool", state) /\ "pc" \in DOMAIN state /\ state.pc = "reconcile"
    BY <1>3 DEF ReviewTool
  <2> QED BY <2>1 DEF BeginsSome
<1>4. ASSUME NEW t \in Tools, NEW patch \in ToolPatches, LoadTool(r, t, patch)
      PROVE  BeginsSome(r)
  <2> PICK state : state = [pc |-> "loaded", target |-> t, seen |-> tools[t], body |-> patch]
    OBVIOUS
  <2>1. Begins(r, "update tool", state) /\ "pc" \in DOMAIN state /\ state.pc = "loaded"
    BY <1>4 DEF LoadTool
  <2> QED BY <2>1 DEF BeginsSome
<1>5. ASSUME \/ \E t \in Tools : DeleteTool(r, t)
             \/ \E s \in Servers : DeleteServer(r, s)
             \/ \E a \in Agents : DeleteAgent(r, a)
             \/ \E s \in Servers, a \in Agents \cup {None} : RelinkServer(r, s, a)
      PROVE  BeginsSome(r)
  <2> PICK state : state = [pc |-> "done"]
    OBVIOUS
  <2>1. Begins(r, "delete", state) \/ Begins(r, "relink", state)
    BY <1>5 DEF DeleteTool, DeleteServer, DeleteAgent, RelinkServer
  <2>2. "pc" \in DOMAIN state /\ state.pc = "done"
    OBVIOUS
  <2> QED BY <2>1, <2>2 DEF BeginsSome
<1>6. ASSUME NEW a \in alerts, NEW op \in AlertOperations, LoadAlert(r, a, op)
      PROVE  BeginsSome(r)
  <2> PICK state : state = [pc |-> "loaded", seen |-> a]
    OBVIOUS
  <2>1. Begins(r, op, state) /\ "pc" \in DOMAIN state /\ state.pc = "loaded"
    BY <1>6 DEF LoadAlert
  <2> QED BY <2>1 DEF BeginsSome
<1>7. ASSUME NEW op, ReadRegister(r, op)
      PROVE  BeginsSome(r)
  <2> PICK state : state = [pc |-> "reconcile", turn |-> "risk"]
    OBVIOUS
  <2>1. Begins(r, op, state) /\ "pc" \in DOMAIN state /\ state.pc = "reconcile"
    BY <1>7 DEF ReadRegister
  <2> QED BY <2>1 DEF BeginsSome
<1> QED BY <1>1, <1>2, <1>3, <1>4, <1>5, <1>6, <1>7 DEF Beginning

LEMMA LoadServerBegins ==
    ASSUME RequestsTyped, NEW r \in Requests, NEW s \in Servers, LoadServer(r, s)
    PROVE  /\ NoneFails /\ \E state : Begins(r, "sync", state)
           /\ requests'[r].pc = "discovering" /\ requests'[r].target = s
           /\ requests'[r].seen = servers[s]
<1> PICK state : state = [pc |-> "discovering", turn |-> "sync", target |-> s,
                          seen |-> servers[s]]
  OBVIOUS
<1>1. Begins(r, "sync", state) /\ "pc" \in DOMAIN state /\ state.pc = "discovering"
  BY DEF LoadServer
<1>2. HasBegun(r, "sync", state)
  BY <1>1, Begun
<1>3. /\ requests'[r].pc = "discovering" /\ requests'[r].target = s
      /\ requests'[r].seen = servers[s]
  BY <1>2 DEF HasBegun, RequestFields
<1> QED BY <1>1, <1>3, BeginFailsNone

LEMMA BeginningsFailNone ==
    ASSUME RequestsTyped, NEW r \in Requests,
           Beginning(r) \/ \E s \in Servers : LoadServer(r, s)
    PROVE  NoneFails
<1>1. CASE Beginning(r)
  <2>1. PICK op, state : /\ Begins(r, op, state) /\ "pc" \in DOMAIN state
                         /\ state.pc \in {"loaded", "reconcile", "done"}
    BY <1>1, BeginningBegins DEF BeginsSome
  <2> QED BY <2>1, BeginFailsNone
<1> QED BY <1>1, LoadServerBegins

\* A session that ends is nobody else's.
LEMMA EndFails ==
    ASSUME RequestsTyped, NEW r \in Requests, NEW pc, Ends(r, pc)
    PROVE  \A q \in Requests : requests'[q].pc = "conflict" =>
              requests[q].pc = "conflict" \/ (q = r /\ pc = "conflict")
<1> PICK next : next = [IdleRequest EXCEPT !.pc = pc]
  OBVIOUS
<1>1. requests' = [requests EXCEPT ![r] = next]
  BY DEF Ends
<1>2. next.pc = pc
  BY DEF IdleRequest
<1> QED BY <1>1, <1>2, StepFails

LEMMA EndFailsNone ==
    ASSUME RequestsTyped, NEW r \in Requests, Ends(r, "done") \/ Ends(r, "crashed")
    PROVE  NoneFails
  BY EndFails DEF NoneFails

LEMMA StepFailsNone ==
    ASSUME RequestsTyped, NEW r \in Requests, NEW next,
           requests' = [requests EXCEPT ![r] = next], next.pc # "conflict"
    PROVE  NoneFails
  BY StepFails DEF NoneFails

LEMMA ReadingFailsNone ==
    ASSUME RequestsTyped, NEW r \in Requests,
           \/ ReadRules(r) \/ ReadTools(r) \/ ReconcileAllTools(r) \/ ReconcileRisk(r)
           \/ ReconcileTool(r) \/ Crash(r) \/ CommitAlert(r)
           \/ \E offer \in Discoveries : Discover(r, offer)
           \/ DiscoveryFails(r) \/ ReadSync(r) \/ FailSync(r) \/ CommitSync(r)
    PROVE  NoneFails
<1>1. ASSUME Ends(r, "done") \/ Ends(r, "crashed")
      PROVE  NoneFails
  BY <1>1, EndFailsNone
<1>2. ASSUME NEW next, requests' = [requests EXCEPT ![r] = next], next.pc # "conflict"
      PROVE  NoneFails
  BY <1>2, StepFailsNone
<1> PICK q : q = requests[r]
  OBVIOUS
<1>3. DOMAIN q = RequestFields
  BY DEF RequestsTyped
<1>4. CASE ReadRules(r)
  <2> PICK next : next = [q EXCEPT !.pc = "ruled",
                                   !.view = [@ EXCEPT !.rules = EnabledRules]]
    OBVIOUS
  <2>1. requests' = [requests EXCEPT ![r] = next]
    BY <1>4 DEF ReadRules
  <2>2. next.pc = "ruled"
    BY <1>3 DEF RequestFields
  <2> QED BY <1>2, <2>1, <2>2
<1>5. CASE ReadTools(r)
  <2> PICK own : own = IF q.turn = "review" THEN {With(q.seen, q.body)} ELSE {}
    OBVIOUS
  <2> PICK next : next = [q EXCEPT !.pc = "read", !.view = ViewWith(r, own),
                        !.seen = IF q.turn = "tool" THEN tools[q.target] ELSE q.seen]
    OBVIOUS
  <2>1. requests' = [requests EXCEPT ![r] = next]
    BY <1>5 DEF ReadTools
  <2>2. next.pc = "read"
    BY <1>3 DEF RequestFields
  <2> QED BY <1>2, <2>1, <2>2
<1>6. CASE ReconcileAllTools(r)
  <2> PICK next : next = [q EXCEPT !.pc = "reconcile", !.turn = "risk",
                                   !.view = NoView, !.covered = {}]
    OBVIOUS
  <2>1. requests' = [requests EXCEPT ![r] = next]
    BY <1>6 DEF ReconcileAllTools
  <2>2. next.pc = "reconcile"
    BY <1>3 DEF RequestFields
  <2> QED BY <1>2, <2>1, <2>2
<1>7. CASE ReconcileRisk(r)
  <2> PICK next : next = [q EXCEPT !.pc = "projected"]
    OBVIOUS
  <2>1. requests' = [requests EXCEPT ![r] = next] \/ Ends(r, "done")
    BY <1>7 DEF ReconcileRisk
  <2>2. next.pc = "projected"
    BY <1>3 DEF RequestFields
  <2> QED BY <1>1, <1>2, <2>1, <2>2
<1>8. CASE ReconcileTool(r) \/ Crash(r) \/ CommitAlert(r) \/ DiscoveryFails(r) \/ CommitSync(r)
  BY <1>1, <1>8 DEF ReconcileTool, Crash, CommitAlert, DiscoveryFails, CommitSync
<1>9. ASSUME NEW offer, Discover(r, offer)
      PROVE  NoneFails
  <2> PICK next : next = [q EXCEPT !.pc = "discovered", !.body = offer]
    OBVIOUS
  <2>1. requests' = [requests EXCEPT ![r] = next]
    BY <1>9 DEF Discover
  <2>2. next.pc = "discovered"
    BY <1>3 DEF RequestFields
  <2> QED BY <1>2, <2>1, <2>2
<1>10. CASE ReadSync(r)
  <2>1. \E next : requests' = [requests EXCEPT ![r] = next] /\ next.pc \in {"failing", "read"}
    <3>1. CASE LinkFails(q.seen, q.target)
      <4> PICK next : next = [q EXCEPT !.pc = "failing", !.turn = None]
        OBVIOUS
      <4>1. requests' = [requests EXCEPT ![r] = next]
        BY <1>10, <3>1 DEF ReadSync
      <4>2. next.pc = "failing"
        BY <1>3 DEF RequestFields
      <4> QED BY <4>1, <4>2
    <3>2. CASE ~LinkFails(q.seen, q.target)
      <4>1. requests'[r].pc = "read" /\ \E next : requests' = [requests EXCEPT ![r] = next]
        BY <1>3, <1>10, <3>2 DEF ReadSync, RequestsTyped, RequestFields
      <4>2. PICK next : requests' = [requests EXCEPT ![r] = next]
        BY <4>1
      <4>3. requests'[r] = next
        BY <4>2 DEF RequestsTyped
      <4> QED BY <4>1, <4>2, <4>3
    <3> QED BY <3>1, <3>2
  <2> QED BY <1>2, <2>1
<1>11. CASE FailSync(r)
  <2> PICK next : next = [q EXCEPT !.pc = "failing"]
    OBVIOUS
  <2>1. requests' = [requests EXCEPT ![r] = next]
    BY <1>11 DEF FailSync
  <2>2. next.pc = "failing"
    BY <1>3 DEF RequestFields
  <2> QED BY <1>2, <2>1, <2>2
<1> QED BY <1>4, <1>5, <1>6, <1>7, <1>8, <1>9, <1>10, <1>11

\* The row of a tool that ran alone is the one it loaded, and what its update gives it no
\* other tool of its agent has.
LEMMA CommitToolFails ==
    ASSUME GovernanceInv, NEW r \in Requests, CommitTool(r), requests[r].alone
    PROVE  NoneFails
<1> DEFINE q == requests[r]
           t == q.target
           row == NetChange(tools[t], q.seen, With(q.seen, q.body))
<1>1. q.pc = "loaded" /\ q.op = "update tool" /\ InProgress(r) /\ RequestsTyped
  BY DEF CommitTool, InProgress, Ended, GovernanceInv, RequestsTyped, RequestHolds
<1>2. /\ t \in Tools /\ q.seen \in ToolRows /\ IsToolPatch(q.body)
      /\ DOMAIN q = RequestFields
  BY <1>1 DEF GovernanceInv, RequestHolds, LoadHolds, AlertOperations
<1>3. /\ tools[t] = q.seen
      /\ "name" \in DOMAIN q.body =>
            q.body.name = q.seen.name \/ ~NameTaken(q.seen.agent, q.body.name)
  BY <1>1 DEF GovernanceInv, AloneHolds
<1>4. /\ With(q.seen, q.body) \in ToolRows
      /\ \A f \in {"id", "state", "agent", "server", "schema", "version", "reviewed"} :
            With(q.seen, q.body)[f] = q.seen[f]
      /\ With(q.seen, q.body).name = IF "name" \in DOMAIN q.body THEN q.body.name
                                     ELSE q.seen.name
  BY <1>2, PatchedType
<1>5. \A f \in DOMAIN q.seen : row[f] = With(q.seen, q.body)[f]
  BY <1>3, NetChangeFields
<1>6. {"agent", "name"} \subseteq DOMAIN q.seen
  BY <1>2 DEF ToolRows
<1>7. row.agent = q.seen.agent /\ row.name = With(q.seen, q.body).name
  BY <1>4, <1>5, <1>6
<1>8. ~(\E u \in Tools \ {t} :
           /\ row.name # tools[t].name
           /\ {tools[u].state, row.state} = {"live"}
           /\ tools[u].agent = row.agent /\ tools[u].name = row.name)
  <2> HIDE DEF row, t, q
  <2> SUFFICES ASSUME NEW u \in Tools \ {t}, row.name # tools[t].name, tools[u].state = "live",
                      tools[u].agent = row.agent, tools[u].name = row.name
               PROVE  FALSE
    OBVIOUS
  <2>1. "name" \in DOMAIN q.body /\ row.name = q.body.name /\ q.body.name # q.seen.name
    BY <1>3, <1>4, <1>7
  <2>2. NameTaken(q.seen.agent, q.body.name)
    BY <1>7, <2>1 DEF NameTaken
  <2> QED BY <1>3, <2>1, <2>2
<1>9. PICK next : next = [q EXCEPT !.pc = "reconcile", !.turn = "tool"]
  OBVIOUS
<1>10. next.pc = "reconcile"
  BY <1>2, <1>9 DEF RequestFields
<1>11. Ends(r, "done") \/ requests' = [requests EXCEPT ![r] = next]
  BY <1>8, <1>9 DEF CommitTool
<1> HIDE DEF row, t, q
<1> QED BY <1>1, <1>10, <1>11, EndFailsNone, StepFailsNone

LEMMA CommitRuleFails ==
    ASSUME GovernanceInv, NEW r \in Requests, CommitRule(r), requests[r].alone
    PROVE  NoneFails
<1> PICK q : q = requests[r]
  OBVIOUS
<1>1. q.pc = "loaded" /\ InProgress(r) /\ RequestsTyped /\ DOMAIN q = RequestFields
  BY DEF CommitRule, InProgress, Ended, GovernanceInv, RequestsTyped, RequestHolds
<1>2. q.op = "create rule" => rules[q.target] = None
  BY <1>1 DEF GovernanceInv, AloneHolds
<1>3. PICK next : next = [q EXCEPT !.pc = "reconcile", !.turn = "all"]
  OBVIOUS
<1>4. next.pc = "reconcile"
  BY <1>1, <1>3 DEF RequestFields
<1>5. requests' = [requests EXCEPT ![r] = next]
  BY <1>2, <1>3 DEF CommitRule
<1> QED BY <1>1, <1>4, <1>5, StepFailsNone

\* The register conflicts with what was committed since it was read.
LEMMA ConflictFails ==
    ASSUME GovernanceInv, NEW r \in Requests, Conflict(r)
    PROVE  ~requests[r].alone
<1> PICK v : v = requests[r].view
  OBVIOUS
<1>1. requests[r].pc = "read" /\ RegisterConflict(v) /\ InProgress(r) /\ ViewHolds(v)
  BY DEF Conflict, InProgress, Ended, GovernanceInv, RequestHolds
<1> SUFFICES ASSUME requests[r].alone
             PROVE  FALSE
  OBVIOUS
<1>2. v.records = records /\ v.controls = controls
  BY <1>1 DEF GovernanceInv, AloneHolds
<1> QED BY <1>1, <1>2, NoRegisterConflict

LEMMA RegisterFails ==
    ASSUME GovernanceInv, NEW r \in Requests, BuildItems(r) \/ CommitSnapshot(r),
           requests[r].alone
    PROVE  NoneFails
<1> PICK q : q = requests[r]
  OBVIOUS
<1>1. InProgress(r) /\ RequestsTyped /\ DOMAIN q = RequestFields /\ RequestHolds(q)
  BY DEF BuildItems, CommitSnapshot, InProgress, Ended, GovernanceInv, RequestsTyped, RequestHolds
<1>2. CASE BuildItems(r)
  <2>1. \A t \in Discovered : records[t] # None /\ \E row \in q.view.tools : row.id = t
    BY <1>1, <1>2 DEF BuildItems, GovernanceInv, AloneHolds
  <2>2. ~(\E t \in Discovered : t \notin {row.id : row \in q.view.tools} \/ records[t] = None)
    BY <2>1
  <2>3. PICK next : next = [q EXCEPT !.pc = "built", !.seen = snapshot, !.view = NoView]
    OBVIOUS
  <2>4. next.pc = "built"
    BY <1>1, <2>3 DEF RequestFields
  <2>5. Ends(r, "done") \/ requests' = [requests EXCEPT ![r] = next]
    BY <1>2, <2>2, <2>3 DEF BuildItems
  <2> QED BY <1>1, <2>4, <2>5, EndFailsNone, StepFailsNone
<1>3. CASE CommitSnapshot(r)
  <2>1. q.pc = "built" /\ q.seen = snapshot /\ q.seen \in BOOLEAN
    BY <1>1, <1>3 DEF CommitSnapshot, GovernanceInv, AloneHolds, RequestHolds
  <2>2. Ends(r, "done")
    BY <1>3, <2>1 DEF CommitSnapshot
  <2> QED BY <1>1, <2>2, EndFailsNone
<1> QED BY <1>2, <1>3

LEMMA SyncFailureFails ==
    ASSUME GovernanceInv, NEW r \in Requests, RecordSyncFailure(r), requests[r].alone
    PROVE  NoneFails
<1>1. requests[r].pc = "failing" /\ InProgress(r) /\ RequestsTyped
  BY DEF RecordSyncFailure, InProgress, Ended, GovernanceInv, RequestsTyped, RequestHolds
<1>2. requests[r].turn # "sync"
  BY <1>1 DEF GovernanceInv, AloneHolds
<1>3. Ends(r, "done")
  BY <1>2 DEF RecordSyncFailure
<1> QED BY <1>1, <1>3, EndFailsNone

\* Only the request that takes the step may fail by it, and not if it was alone.
LEMMA StepConflicts ==
    ASSUME GovernanceInv, NEW r \in Requests, GovernanceNext(r) \/ SyncNext(r)
    PROVE  \A q \in Requests :
              requests[q].pc # "conflict" /\ requests'[q].pc = "conflict"
              => ~requests[q].alone
<1>1. RequestsTyped
  BY DEF GovernanceInv, RequestsTyped, RequestHolds
<1>2. ASSUME NoneFails
      PROVE  \A q \in Requests : requests'[q].pc = "conflict" => requests[q].pc = "conflict"
  BY <1>2 DEF NoneFails
<1>3. CASE \/ CommitRule(r) \/ CommitTool(r) \/ Conflict(r) \/ BuildItems(r)
           \/ CommitSnapshot(r) \/ RecordSyncFailure(r)
  <2>1. NoneFails \/ ~requests[r].alone
    BY <1>3, CommitRuleFails, CommitToolFails, ConflictFails, RegisterFails, SyncFailureFails
  <2>2. \E next : requests' = [requests EXCEPT ![r] = next]
    BY <1>3 DEF CommitRule, CommitTool, Conflict, BuildItems, CommitSnapshot, RecordSyncFailure,
                Ends
  <2>3. \A q \in Requests : requests'[q].pc = "conflict" => requests[q].pc = "conflict" \/ q = r
    BY <1>1, <2>2, StepFails
  <2> QED BY <1>2, <2>1, <2>3
<1>4. ASSUME ~(\/ CommitRule(r) \/ CommitTool(r) \/ Conflict(r) \/ BuildItems(r)
               \/ CommitSnapshot(r) \/ RecordSyncFailure(r))
      PROVE  NoneFails
  <2>1. ASSUME RuleNext(r)
        PROVE  NoneFails
    BY <1>1, <1>4, <2>1, BeginningsFailNone
       DEF RuleNext, Beginning, RuleOperations
  <2>2. ASSUME CatalogueNext(r)
        PROVE  NoneFails
    BY <1>1, <1>4, <2>2, BeginningsFailNone DEF CatalogueNext, Beginning
  <2>3. ASSUME AlertNext(r) \/ RegisterNext(r)
        PROVE  NoneFails
    BY <1>1, <1>4, <2>3, BeginningsFailNone, ReadingFailsNone
       DEF AlertNext, RegisterNext, Beginning
  <2>4. ASSUME SyncNext(r)
        PROVE  NoneFails
    BY <1>1, <1>4, <2>4, BeginningsFailNone, ReadingFailsNone DEF SyncNext
  <2>5. ASSUME ReadRules(r) \/ ReadTools(r) \/ ReconcileAllTools(r) \/ ReconcileRisk(r)
               \/ ReconcileTool(r) \/ Crash(r)
        PROVE  NoneFails
    BY <1>1, <2>5, ReadingFailsNone
  <2> QED BY <1>4, <2>1, <2>2, <2>3, <2>4, <2>5 DEF GovernanceNext
<1> QED BY <1>2, <1>3, <1>4

(***************************************************************************)
(* Theorem: a request fails on a constraint, a vanished row or a missing   *)
(* key only if another request has been in progress with it: run one after *)
(* the other, the operations on rules, tools, servers and the risk         *)
(* register never refuse each other's rows.                                *)
(***************************************************************************)
THEOREM ConflictsTakeOverlap == Spec => ConflictsNeedOverlap
<1>1. GovernanceInv /\ [Next]_governanceVars =>
         [\A r \in Requests :
            requests[r].pc # "conflict" /\ requests'[r].pc = "conflict"
            => ~requests[r].alone]_governanceVars
  BY StepConflicts DEF Next
<1> QED BY <1>1, GovernanceInvariant, PTL DEF Spec, ConflictsNeedOverlap

-----------------------------------------------------------------------------
(***************************************************************************)
(* Who classifies tools.                                                   *)
(***************************************************************************)
\* A step that leaves what people have decided of the tools that exist.
Classified ==
    \A t \in Tools : tools[t].state # "absent" =>
        \A f \in PeopleFields : tools'[t][f] = tools[t][f]

LEMMA CommitToolClassifies ==
    ASSUME GovernanceInv, NEW r \in Requests, CommitTool(r)
    PROVE  \A t \in Tools : tools[t].reviewed => tools'[t].reviewed
<1> DEFINE q == requests[r]
           t == q.target
           row == NetChange(tools[t], q.seen, With(q.seen, q.body))
<1>1. /\ t \in Tools /\ q.seen \in ToolRows /\ IsToolPatch(q.body)
      /\ tools[t] \in ToolRows /\ tools \in [Tools -> ToolRows]
  BY DEF CommitTool, GovernanceInv, RequestHolds, LoadHolds, AlertOperations, CatalogueHolds
<1>2. \A f \in {"id", "state", "agent", "server", "schema", "version", "reviewed"} :
         With(q.seen, q.body)[f] = q.seen[f]
  BY <1>1, PatchedType
<1>3. With(q.seen, q.body)["reviewed"] = q.seen["reviewed"]
  BY <1>2
<1>4. row["reviewed"] = tools[t]["reviewed"]
  <2>1. "reviewed" \in DOMAIN tools[t]
    BY <1>1 DEF ToolRows
  <2> QED BY <1>3, <2>1, NetChangeFields
<1>5. tools' = tools \/ tools' = [tools EXCEPT ![t] = row]
  BY DEF CommitTool
<1> HIDE DEF row, t, q
<1> QED BY <1>1, <1>4, <1>5

LEMMA ReviewClassifies ==
    ASSUME GovernanceInv, NEW r \in Requests, ReconcileTool(r)
    PROVE  \A t \in Tools : tools[t].reviewed => tools'[t].reviewed
<1> DEFINE q == requests[r]
           t == q.target
           row == NetChange(tools[t], q.seen, With(q.seen, q.body))
<1>1. CASE q.turn # "review"
  BY <1>1 DEF ReconcileTool
<1>2. CASE q.turn = "review"
  <2>1. /\ t \in Tools /\ q.seen \in ToolRows
        /\ q.body \in [risk : RiskLevels, permission : Permissions, reviewed : {TRUE}]
        /\ tools[t] \in ToolRows /\ tools \in [Tools -> ToolRows]
    BY <1>2 DEF ReconcileTool, GovernanceInv, RequestHolds, TurnHolds, RowHolds, CatalogueHolds
  <2>2. With(q.seen, q.body)["reviewed"] = TRUE
    BY <2>1, ReviewedType
  <2>3. row["reviewed"] = IF With(q.seen, q.body)["reviewed"] # q.seen["reviewed"]
                          THEN With(q.seen, q.body)["reviewed"] ELSE tools[t]["reviewed"]
    <3>1. "reviewed" \in DOMAIN tools[t]
      BY <2>1 DEF ToolRows
    <3> QED BY <3>1, NetChangeFields
  <2>4. tools[t].reviewed => row.reviewed
    BY <2>2, <2>3
  <2>5. tools' = [tools EXCEPT ![t] = row]
    BY <1>2 DEF ReconcileTool
  <2> HIDE DEF row, t, q
  <2> QED BY <2>1, <2>4, <2>5
<1> QED BY <1>1, <1>2

LEMMA DeleteClassifies ==
    ASSUME CatalogueHolds, NEW r, NEW t \in Tools, DeleteTool(r, t)
    PROVE  Classified
<1>1. tools' = [tools EXCEPT ![t].state = "deleted"]
  BY DEF DeleteTool
<1> QED BY <1>1 DEF Classified, CatalogueHolds, ToolRows, PeopleFields

LEMMA SyncClassifies ==
    ASSUME GovernanceInv, NEW r \in Requests, CommitSync(r)
    PROVE  Classified
<1>1. requests[r].pc = "read" /\ requests[r].turn = "sync" /\ RowsLeft(r)
      /\ tools' = ToolsAfterSync(r, NewTools(r))
  BY DEF CommitSync
<1>2. Ready(r) /\ CatalogueHolds
  BY <1>1, IsReady DEF GovernanceInv
<1>3. \A t \in Tools : SyncedRow(t, ToolsAfterSync(r, NewTools(r))[t])
  BY <1>1, <1>2, SyncedRows
<1> QED BY <1>1, <1>3 DEF SyncedRow, Classified

\* Only an update and a review of a tool classify it.
LEMMA StepClassifies ==
    ASSUME GovernanceInv, NEW r \in Requests, GovernanceNext(r) \/ SyncNext(r),
           ~CommitTool(r), ~ReconcileTool(r)
    PROVE  Classified
<1>1. CatalogueHolds
  BY DEF GovernanceInv
<1>2. ASSUME tools' = tools
      PROVE  Classified
  BY <1>2 DEF Classified
<1>3. ASSUME RuleNext(r)
      PROVE  Classified
  BY <1>2, <1>3 DEF RuleNext, LoadRuleToCreate, LoadRule, CommitRule, catalogue
<1>4. ASSUME CatalogueNext(r)
      PROVE  Classified
  BY <1>1, <1>2, <1>4, DeleteClassifies
     DEF CatalogueNext, ReviewTool, LoadTool, DeleteServer, RelinkServer, DeleteAgent, catalogue
<1>5. ASSUME AlertNext(r) \/ RegisterNext(r)
      PROVE  Classified
  BY <1>2, <1>5
     DEF AlertNext, LoadAlert, CommitAlert, RegisterNext, ReadRegister, BuildItems,
         CommitSnapshot, catalogue
<1>6. ASSUME SyncNext(r)
      PROVE  Classified
  BY <1>2, <1>6, SyncClassifies
     DEF SyncNext, LoadServer, Discover, DiscoveryFails, RecordSyncFailure, ReadSync, FailSync,
         catalogue
<1>7. ASSUME ReadRules(r) \/ ReadTools(r) \/ ReconcileAllTools(r) \/ ReconcileRisk(r)
             \/ Conflict(r) \/ Crash(r)
      PROVE  Classified
  BY <1>2, <1>7
     DEF ReadRules, ReadTools, ReconcileAllTools, ReconcileRisk, Conflict, Crash, catalogue
<1> QED BY <1>3, <1>4, <1>5, <1>6, <1>7 DEF GovernanceNext

(***************************************************************************)
(* Theorem: whatever overlaps, no synchronization changes the risk, the    *)
(* permission, the review or the enablement of a tool that exists, and     *)
(* nothing takes a review back (sync_mcp_server of                         *)
(* services/mcp_servers.py writes only what was discovered; an update      *)
(* of a tool has no field for its review).                                 *)
(***************************************************************************)
THEOREM PeopleClassify == Spec => OnlyPeopleClassify
<1> DEFINE Step ==
        \A t \in Tools :
          tools[t].state # "absent" =>
          /\ tools[t].reviewed => tools'[t].reviewed
          /\ (\E r \in Requests : Syncs(r) /\ requests'[r] # requests[r]) =>
                \A f \in {"risk", "permission", "reviewed", "enabled"} :
                    tools'[t][f] = tools[t][f]
<1>1. ASSUME GovernanceInv, NEW r \in Requests, GovernanceNext(r) \/ SyncNext(r)
      PROVE  Step
  <2>1. CASE ~CommitTool(r) /\ ~ReconcileTool(r)
    <3>1. Classified
      BY <1>1, <2>1, StepClassifies
    <3> QED BY <3>1 DEF Classified, PeopleFields
  <2>2. CASE CommitTool(r) \/ ReconcileTool(r)
    <3>1. \A t \in Tools : tools[t].reviewed => tools'[t].reviewed
      BY <1>1, <2>2, CommitToolClassifies, ReviewClassifies
    <3>2. PICK next : requests' = [requests EXCEPT ![r] = next]
      BY <2>2 DEF CommitTool, ReconcileTool, Ends
    <3>3. ~Syncs(r)
      BY <2>2 DEF CommitTool, ReconcileTool, Syncs
    <3>4. \A q \in Requests : Syncs(q) => requests'[q] = requests[q]
      <4>1. RequestsTyped
        BY <1>1 DEF GovernanceInv, RequestsTyped, RequestHolds
      <4> QED BY <3>2, <3>3, <4>1 DEF RequestsTyped
    <3> QED BY <3>1, <3>4
  <2> QED BY <2>1, <2>2
<1>2. ASSUME UNCHANGED governanceVars
      PROVE  Step
  BY <1>2 DEF governanceVars, catalogue
<1>3. GovernanceInv /\ [Next]_governanceVars => [Step]_governanceVars
  BY <1>1 DEF Next
<1> QED BY <1>3, GovernanceInvariant, PTL DEF Spec, OnlyPeopleClassify

-----------------------------------------------------------------------------
(***************************************************************************)
(* The order of rules, and the simulator.                                  *)
(***************************************************************************)
\* SortsBefore is a strict weak order.
LEMMA RuleOrder ==
    ASSUME NEW a \in RuleRows, NEW b \in RuleRows, NEW c \in RuleRows
    PROVE  /\ ~SortsBefore(a, a)
           /\ SortsBefore(a, b) /\ SortsBefore(b, c) => SortsBefore(a, c)
           /\ SortsBefore(a, b) => SortsBefore(a, c) \/ SortsBefore(c, b)
<1>1. \A r \in RuleRows : /\ ScopeRank[r.scope] \in Nat /\ r.priority \in Int
                          /\ RiskSeverity[r.risk] \in Nat
  BY DEF RuleRows, Scopes, RiskLevels, ScopeRank, RiskSeverity
<1> QED BY <1>1 DEF SortsBefore

\* Rules with identifiers of their own, as the table has them.
IsRuleSet(M) ==
    M \subseteq RuleRows /\ \A r, s \in M : r.id = s.id => r = s

LEMMA SomeRuleIsBest ==
    ASSUME NEW M, IsRuleSet(M), M # {}
    PROVE  BestRules(M) # {}
<1> DEFINE Below(r) == {s \in M : SortsBefore(s, r)}
           Ids(r) == {s.id : s \in Below(r)}
           all == {Ids(r) : r \in M}
<1>1. IsWellFoundedOn(StrictSubsetOrdering(RuleIds), FiniteSubsetsOf(RuleIds))
  BY GovernanceAssumption, FS_StrictSubsetOrderingWellFounded
<1>2. \A r \in M : Ids(r) \in SUBSET RuleIds
  BY DEF IsRuleSet, RuleRows
<1>3. all \subseteq FiniteSubsetsOf(RuleIds) /\ all # {}
  <2>1. \A ids \in SUBSET RuleIds : IsFiniteSet(ids)
    BY GovernanceAssumption, FS_Subset
  <2> QED BY <1>2, <2>1 DEF FiniteSubsetsOf
<1> HIDE DEF all
<1>4. PICK least \in all : \A ids \in all : ~(<<ids, least>> \in StrictSubsetOrdering(RuleIds))
  BY <1>1, <1>3, WFMin
<1>5. PICK r \in M : least = Ids(r)
  BY DEF all
<1>6. ASSUME NEW s \in M, SortsBefore(s, r)
      PROVE  FALSE
  <2>1. Below(s) \subseteq Below(r)
    BY <1>6, RuleOrder DEF IsRuleSet
  <2>2. s.id \in Ids(r)
    BY <1>6
  <2>3. s.id \notin Ids(s)
    <3> SUFFICES ASSUME NEW x \in Below(s), x.id = s.id
                 PROVE  FALSE
      OBVIOUS
    <3>1. x = s
      BY DEF IsRuleSet
    <3> QED BY <3>1, RuleOrder DEF IsRuleSet
  <2>4. Ids(s) \subseteq Ids(r) /\ Ids(s) # Ids(r)
    BY <2>1, <2>2, <2>3
  <2>5. Ids(s) \in all
    BY DEF all
  <2>6. <<Ids(s), Ids(r)>> \in StrictSubsetOrdering(RuleIds)
    <3> HIDE DEF Ids
    <3> QED BY <1>2, <2>4 DEF StrictSubsetOrdering
  <2> QED BY <1>4, <1>5, <2>5, <2>6
<1> QED BY <1>6 DEF BestRules

\* What one more rule changes in the winners.
LEMMA BestWithOneMore ==
    ASSUME NEW M \in SUBSET RuleRows, NEW p \in RuleRows
    PROVE  /\ (\A r \in BestRules(M) : SortsBefore(p, r)) /\ (M # {} => BestRules(M) # {})
              => BestRules(M \cup {p}) = {p}
           /\ (\E r \in BestRules(M) : ~SortsBefore(p, r))
              => \/ BestRules(M \cup {p}) = BestRules(M)
                 \/ BestRules(M \cup {p}) = BestRules(M) \cup {p}
<1>1. ASSUME \A r \in BestRules(M) : SortsBefore(p, r), M # {} => BestRules(M) # {}
      PROVE  BestRules(M \cup {p}) = {p}
  <2>1. \A s \in M : SortsBefore(p, s)
    <3> SUFFICES ASSUME NEW s \in M
                 PROVE  SortsBefore(p, s)
      OBVIOUS
    <3>1. PICK r \in BestRules(M) : SortsBefore(p, r)
      BY <1>1
    <3>2. r \in M /\ ~SortsBefore(s, r)
      BY DEF BestRules
    <3> QED BY <3>1, <3>2, RuleOrder
  <2>2. ~SortsBefore(p, p) /\ \A s \in M : ~SortsBefore(s, p)
    BY <2>1, RuleOrder
  <2> QED BY <2>1, <2>2 DEF BestRules
<1>2. ASSUME NEW r \in BestRules(M), ~SortsBefore(p, r)
      PROVE  \/ BestRules(M \cup {p}) = BestRules(M)
             \/ BestRules(M \cup {p}) = BestRules(M) \cup {p}
  <2>1. r \in M /\ \A s \in M : ~SortsBefore(s, r)
    BY DEF BestRules
  <2>2. \A s \in BestRules(M) : ~SortsBefore(p, s)
    <3> SUFFICES ASSUME NEW s \in BestRules(M), SortsBefore(p, s)
                 PROVE  FALSE
      OBVIOUS
    <3>1. s \in M /\ ~SortsBefore(r, s)
      BY <2>1 DEF BestRules
    <3> QED BY <1>2, <2>1, <3>1, RuleOrder
  <2>3. BestRules(M) \subseteq BestRules(M \cup {p})
    BY <2>2 DEF BestRules
  <2>4. BestRules(M \cup {p}) \subseteq BestRules(M) \cup {p}
    BY DEF BestRules
  <2> QED BY <2>3, <2>4
<1> QED BY <1>1, <1>2

\* The rules in force, and a rule that is proposed in place of one of them.
LEMMA RulesInForce ==
    ASSUME CatalogueHolds
    PROVE  IsRuleSet(EnabledRules)
<1>1. \A r \in EnabledRules : r \in RuleRows /\ r.id \in RuleIds /\ r = rules[r.id]
  BY DEF EnabledRules, Range, CatalogueHolds, RuleRows
<1> QED BY <1>1 DEF IsRuleSet

\* A rule whose tool is its agent's applies to a tool where the gateway matches it.
LEMMA AppliesWhereMatched ==
    ASSUME CatalogueHolds, NEW r \in RuleRows,
           r.scope = "tool" => tools[r.tool].agent = r.agent,
           NEW t \in DiscoveredRows
    PROVE  AppliesTo(r, t) <=> ScopeMatches(r, t.agent, t.id)
<1>1. PICK x \in Tools : t = tools[x] /\ tools[x].id = x
  BY DEF DiscoveredRows, Discovered, CatalogueHolds
<1> QED BY <1>1 DEF AppliesTo, ScopeMatches

\* What is matched with a tool is what applies to it, before the proposal and after.
LEMMA MatchedWithTool ==
    ASSUME CatalogueHolds, NEW R \in SUBSET RuleRows,
           \A r \in R : r.scope = "tool" => tools[r.tool].agent = r.agent,
           NEW t \in DiscoveredRows
    PROVE  /\ RulesMatching(t, R) = MatchingRules(R, t.agent, t.id, t.risk)
           /\ IsCovered(t, R) <=> \E r \in R : ScopeMatches(r, t.agent, t.id)
<1>1. \A r \in R : AppliesTo(r, t) <=> ScopeMatches(r, t.agent, t.id)
  BY AppliesWhereMatched
<1> QED BY <1>1 DEF RulesMatching, ApplicablePolicies, MatchingRules, IsCovered

\* The effects the gateway may decide.
Decided(R, t) == {d.effect : d \in Decisions(R, t.agent, t.id, t.risk)}

LEMMA DecidedEffects ==
    ASSUME NEW R, NEW t, NEW M, M = MatchingRules(R, t.agent, t.id, t.risk)
    PROVE  Decided(R, t) =
              IF M = {} THEN {DefaultEffect(t.risk)} ELSE {r.effect : r \in BestRules(M)}
<1>1. CASE M = {}
  <2>1. Decisions(R, t.agent, t.id, t.risk) =
           {[effect |-> DefaultEffect(t.risk), rule |-> None]}
    BY <1>1 DEF Decisions
  <2> QED BY <1>1, <2>1 DEF Decided
<1>2. CASE M # {}
  <2> PICK best : best = BestRules(M)
    OBVIOUS
  <2> PICK D : D = Decisions(R, t.agent, t.id, t.risk)
    OBVIOUS
  <2>1. D = {[effect |-> r.effect, rule |-> r.id] : r \in best}
    BY <1>2 DEF Decisions
  <2>2. \A d \in D : \E r \in best : d.effect = r.effect
    BY <2>1
  <2>3. \A r \in best : \E d \in D : d.effect = r.effect
    <3> SUFFICES ASSUME NEW r \in best
                 PROVE  \E d \in D : d.effect = r.effect
      OBVIOUS
    <3>1. [effect |-> r.effect, rule |-> r.id] \in D
      BY <2>1
    <3> QED BY <3>1
  <2>4. {d.effect : d \in D} = {r.effect : r \in best}
    BY <2>2, <2>3
  <2> QED BY <1>2, <2>4 DEF Decided
<1> QED BY <1>1, <1>2

\* What the gateway decides of a tool that the proposal reaches is what was foretold, or
\* a rule of equal rank and another effect has been warned of.
LEMMA DecisionForetold ==
    ASSUME NEW base, NEW p \in RuleRows, NEW t, NEW M, IsRuleSet(M),
           M = RulesMatching(t, base), M = MatchingRules(base, t.agent, t.id, t.risk),
           ProposalAffects(p, t), p.enabled \in BOOLEAN,
           NEW after, after = IF p.enabled THEN base \cup {p} ELSE base
    PROVE  \/ Decided(after, t) = ForetoldEffects(p, t, base)
           \/ ConflictWarnings(p, t, base) # {}
              /\ Decided(after, t) = ForetoldEffects(p, t, base) \cup {p.effect}
<1> PICK decided : decided = Decided(after, t)
  OBVIOUS
<1>1. CurrentEffects(t, base) =
         IF M = {} THEN {DefaultEffect(t.risk)} ELSE {r.effect : r \in BestRules(M)}
  BY DEF CurrentEffects
<1>2. CASE ~p.enabled
  <2>1. decided = CurrentEffects(t, base)
    BY <1>1, <1>2, DecidedEffects
  <2> QED BY <1>2, <2>1 DEF ForetoldEffects, ProposedWins
<1>3. CASE p.enabled
  <2>1. MatchingRules(after, t.agent, t.id, t.risk) = M \cup {p}
    BY <1>3 DEF MatchingRules, ProposalAffects
  <2>2. decided = {r.effect : r \in BestRules(M \cup {p})}
    BY <2>1, DecidedEffects
  <2>3. ProposedWins(p, t, base) <=> \A r \in BestRules(M) : SortsBefore(p, r)
    BY <1>3 DEF ProposedWins
  <2>4. M \subseteq RuleRows /\ (M # {} => BestRules(M) # {})
    BY SomeRuleIsBest DEF IsRuleSet
  <2>5. CASE ProposedWins(p, t, base)
    <3>1. BestRules(M \cup {p}) = {p}
      BY <2>3, <2>4, <2>5, BestWithOneMore
    <3>2. decided = {p.effect}
      BY <2>2, <3>1
    <3> QED BY <2>5, <3>2 DEF ForetoldEffects
  <2>6. CASE ~ProposedWins(p, t, base)
    <3>1. PICK best \in BestRules(M) : ~SortsBefore(p, best)
      BY <2>3, <2>6
    <3>2. best \in M
      BY <3>1 DEF BestRules
    <3>3. ForetoldEffects(p, t, base) = {r.effect : r \in BestRules(M)}
      BY <1>1, <2>6, <3>2 DEF ForetoldEffects
    <3>4. CASE BestRules(M \cup {p}) = BestRules(M)
      BY <2>2, <3>3, <3>4
    <3>5. CASE BestRules(M \cup {p}) = BestRules(M) \cup {p}
      <4>1. decided = ForetoldEffects(p, t, base) \cup {p.effect}
        BY <2>2, <3>3, <3>5
      <4>2. CASE best.effect = p.effect
        BY <3>1, <3>3, <4>1, <4>2
      <4>3. CASE best.effect # p.effect
        BY <1>3, <3>2, <4>1, <4>3 DEF ConflictWarnings
      <4> QED BY <4>2, <4>3
    <3> QED BY <2>4, <3>1, <3>4, <3>5, BestWithOneMore
  <2> QED BY <2>5, <2>6
<1> QED BY <1>2, <1>3

(***************************************************************************)
(* Theorem: in every catalogue that operations have left, whatever         *)
(* overlapped, and of every proposal, the simulator                        *)
(* (services/policy_simulations.py) foretells the governed tools, the      *)
(* alerts a reconciliation would resolve and the decisions of the gateway, *)
(* as long as the rules in force name tools with their agents.             *)
(***************************************************************************)
THEOREM SimulatorForesees ==
    Spec => [](RulesAreScoped => Foretells) /\ []SimulationForesees
<1>1. ASSUME GovernanceInv, RulesAreScoped, NEW p \in Proposals, ScopeExists(p)
      PROVE  LET base == {r \in EnabledRules : r.id # p.id}
                 after == IF p.enabled THEN base \cup {p} ELSE base
                 Outcome(t) == {d.effect : d \in Decisions(after, t.agent, t.id, t.risk)}
             IN  /\ ForetoldGoverned(p, DiscoveredRows, base) = Governed(DiscoveredRows, after)
                 /\ \A t \in GapsResolved(p, DiscoveredRows, EnabledRules, base) :
                       \A k \in {"ungoverned_tool", "policy_coverage_lost"} :
                          ToolAlertOpinion(k, t, after, FALSE) = "resolved"
                 /\ \A t \in DiscoveredRows :
                       ProposalAffects(p, t) =>
                          \/ Outcome(t) = ForetoldEffects(p, t, base)
                          \/ ConflictWarnings(p, t, base) # {}
                             /\ Outcome(t) = ForetoldEffects(p, t, base) \cup {p.effect}
  <2>1. PICK base : base = {r \in EnabledRules : r.id # p.id}
    OBVIOUS
  <2>2. PICK after : after = IF p.enabled THEN base \cup {p} ELSE base
    OBVIOUS
  <2>3. CatalogueHolds /\ IsRuleSet(base)
    BY <1>1, <2>1, RulesInForce DEF GovernanceInv, IsRuleSet
  <2>4. p \in RuleRows /\ p.enabled \in BOOLEAN
    BY ProposalsAssumption, NewRuleType DEF Proposals, RuleRows
  <2>5. \A r \in base \cup {p} : r.scope = "tool" => tools[r.tool].agent = r.agent
    BY <1>1, <2>1 DEF RulesAreScoped, ScopeExists
  <2>6. base \subseteq RuleRows /\ base \cup {p} \subseteq RuleRows /\ after \subseteq RuleRows
    BY <2>2, <2>3, <2>4 DEF IsRuleSet
  <2>7. \A r \in after : r.scope = "tool" => tools[r.tool].agent = r.agent
    BY <2>2, <2>5
  <2>8. ASSUME NEW t \in DiscoveredRows
        PROVE  IsCovered(t, after) <=>
                  IsCovered(t, base) \/ (p.enabled /\ ScopeMatches(p, t.agent, t.id))
    <3>1. IsCovered(t, base) <=> \E r \in base : ScopeMatches(r, t.agent, t.id)
      BY <2>3, <2>5, <2>6, MatchedWithTool
    <3>2. IsCovered(t, after) <=> \E r \in after : ScopeMatches(r, t.agent, t.id)
      BY <2>3, <2>6, <2>7, MatchedWithTool
    <3> QED BY <2>2, <3>1, <3>2
  <2>9. ForetoldGoverned(p, DiscoveredRows, base) = Governed(DiscoveredRows, after)
    BY <2>8 DEF ForetoldGoverned, Governed
  <2>10. ASSUME NEW t \in GapsResolved(p, DiscoveredRows, EnabledRules, base),
                NEW k \in {"ungoverned_tool", "policy_coverage_lost"}
         PROVE  ToolAlertOpinion(k, t, after, FALSE) = "resolved"
    <3>1. t.reviewed /\ IsCovered(t, after)
      BY <2>9 DEF GapsResolved, Governed
    <3> QED BY <3>1 DEF ToolAlertOpinion, Opinion
  <2>11. ASSUME NEW t \in DiscoveredRows, ProposalAffects(p, t)
         PROVE  \/ {d.effect : d \in Decisions(after, t.agent, t.id, t.risk)} =
                      ForetoldEffects(p, t, base)
                \/ ConflictWarnings(p, t, base) # {}
                   /\ {d.effect : d \in Decisions(after, t.agent, t.id, t.risk)} =
                         ForetoldEffects(p, t, base) \cup {p.effect}
    <3>1. PICK M : M = RulesMatching(t, base)
      OBVIOUS
    <3>2. M = MatchingRules(base, t.agent, t.id, t.risk)
      BY <2>3, <2>5, <2>6, <3>1, MatchedWithTool
    <3>3. IsRuleSet(M)
      BY <2>3, <3>1 DEF RulesMatching, ApplicablePolicies, IsRuleSet
    <3>4. \/ Decided(after, t) = ForetoldEffects(p, t, base)
          \/ ConflictWarnings(p, t, base) # {}
             /\ Decided(after, t) = ForetoldEffects(p, t, base) \cup {p.effect}
      BY <2>2, <2>4, <2>11, <3>1, <3>2, <3>3, DecisionForetold
    <3> QED BY <3>4 DEF Decided
  <2> QED BY <2>1, <2>2, <2>9, <2>10, <2>11
<1>2. GovernanceInv => (RulesAreScoped => Foretells)
  BY <1>1 DEF Foretells
<1>3. (RulesAreScoped => Foretells) => SimulationForesees
  BY DEF SimulationForesees
<1> QED BY <1>2, <1>3, GovernanceInvariant, PTL

-----------------------------------------------------------------------------
(***************************************************************************)
(* A synchronization that runs alone.                                      *)
(***************************************************************************)
\* The rows that the transaction is going to update and to remove are those of the table,
\* and every tool of the server is among them, or one of the same name is.
Planned(q) ==
    /\ \A n \in DOMAIN q.body.match : q.body.match[n] # None =>
          /\ q.body.match[n] = tools[q.body.match[n].id]
          /\ q.body.match[n].state = "live" /\ q.body.match[n].name = n
    /\ \A g \in q.body.gone : g = tools[g.id] /\ g.name \notin DOMAIN q.body.match
    /\ \A t \in Tools : tools[t].state = "live" /\ tools[t].server = q.target =>
          \E u \in Tools :
             /\ tools[u].state = "live" /\ tools[u].server = q.target
             /\ tools[u].name = tools[t].name
             /\ IF tools[u].name \in DOMAIN q.body.match
                THEN q.body.match[tools[u].name] = tools[u] ELSE tools[u] \in q.body.gone

KnowsServer(q) ==
    /\ q.pc \in {"discovering", "discovered"} => q.seen = servers[q.target]
    /\ q.pc = "read" /\ q.turn = "sync" => q.seen = servers[q.target] /\ Planned(q)

SyncInv == \A r \in Requests : requests[r].alone => KnowsServer(requests[r])

LEMMA PlannedWhenRead ==
    ASSUME CatalogueHolds, NEW s \in Servers, NEW agent, NEW offer, NEW dict \in ByName(s),
           NEW match, match = Matched(offer, dict, agent),
           NEW gone, gone = {tools[dict[n]] : n \in DOMAIN dict \ DOMAIN match},
           NEW q, q.body.match = match, q.body.gone = gone, q.target = s
    PROVE  Planned(q)
<1>1. \A t \in Live : t \in Tools /\ tools[t].id = t /\ tools[t].state = "live"
  BY DEF Live, CatalogueHolds
<1>2. /\ DOMAIN dict = {tools[t].name : t \in {u \in Live : tools[u].server = s}}
      /\ \A n \in DOMAIN dict : /\ dict[n] \in Live /\ tools[dict[n]].server = s
                                /\ tools[dict[n]].name = n
  BY DEF ByName
<1>3. /\ DOMAIN match = DOMAIN offer
      /\ \A n \in DOMAIN match \cap DOMAIN dict : match[n] = tools[dict[n]]
  BY DEF Matched
<1>4. ASSUME NEW n \in DOMAIN match, match[n] # None
      PROVE  match[n] = tools[match[n].id] /\ match[n].state = "live" /\ match[n].name = n
  <2>1. CASE n \in DOMAIN dict
    <3>1. match[n] = tools[dict[n]]
      BY <1>3, <2>1
    <3> QED BY <1>1, <1>2, <2>1, <3>1
  <2>2. CASE n \notin DOMAIN dict
    <3>1. PICK found : found = Adoptable(agent, n)
      OBVIOUS
    <3>2. match[n] = IF found = {} THEN None ELSE tools[CHOOSE t \in found : TRUE]
      BY <1>3, <2>2, <3>1 DEF Matched
    <3>3. PICK t : t = CHOOSE u \in found : TRUE
      OBVIOUS
    <3>4. match[n] = tools[t] /\ t \in found
      BY <1>4, <3>2, <3>3
    <3>5. t \in Live /\ tools[t].name = n
      BY <3>1, <3>4 DEF Adoptable
    <3> QED BY <1>1, <3>4, <3>5
  <2> QED BY <2>1, <2>2
<1>5. ASSUME NEW g \in gone
      PROVE  g = tools[g.id] /\ g.name \notin DOMAIN match
  <2>1. PICK n \in DOMAIN dict \ DOMAIN match : g = tools[dict[n]]
    OBVIOUS
  <2> QED BY <1>1, <1>2, <2>1
<1>6. ASSUME NEW t \in Tools, tools[t].state = "live", tools[t].server = s
      PROVE  \E u \in Tools :
                /\ tools[u].state = "live" /\ tools[u].server = s
                /\ tools[u].name = tools[t].name
                /\ IF tools[u].name \in DOMAIN match
                   THEN match[tools[u].name] = tools[u] ELSE tools[u] \in gone
  <2>1. PICK n : n = tools[t].name
    OBVIOUS
  <2>2. n \in DOMAIN dict
    BY <1>2, <1>6, <2>1 DEF Live
  <2>3. PICK u : u = dict[n]
    OBVIOUS
  <2>4. u \in Live /\ tools[u].server = s /\ tools[u].name = n
    BY <1>2, <2>2, <2>3
  <2>5. u \in Tools /\ tools[u].state = "live"
    BY <1>1, <2>4
  <2>6. IF n \in DOMAIN match THEN match[n] = tools[u] ELSE tools[u] \in gone
    BY <1>3, <2>2, <2>3
  <2> QED BY <2>1, <2>4, <2>5, <2>6
<1> QED BY <1>4, <1>5, <1>6 DEF Planned

\* A request that has not begun to synchronize knows nothing of a server.
Elsewhere(q) ==
    /\ q.pc \notin {"discovering", "discovered"}
    /\ q.pc = "read" => q.turn # "sync"

\* A step of another request leaves no request alone.
LEMMA SyncKeptByStep ==
    ASSUME GovernanceInv, SyncInv, NEW r \in Requests, InProgress(r), NEW next,
           requests' = [requests EXCEPT ![r] = next],
           requests'[r].alone => KnowsServer(requests[r])'
    PROVE  SyncInv'
<1>1. RequestsTyped
  BY DEF GovernanceInv, RequestsTyped, RequestHolds
<1>2. ASSUME NEW q \in Requests, q # r, requests'[q].alone
      PROVE  KnowsServer(requests[q])'
  <2>1. requests'[q] = requests[q]
    BY <1>1, <1>2 DEF RequestsTyped
  <2>2. ~InProgress(q)
    <3>1. r \in Others(q)
      BY <1>2 DEF Others
    <3> QED BY <1>2, <2>1, <3>1 DEF GovernanceInv, AloneHolds
  <2> QED BY <2>1, <2>2 DEF KnowsServer, InProgress, Ended
<1> QED BY <1>2 DEF SyncInv

LEMMA SyncKeptByBeginning ==
    ASSUME GovernanceInv, SyncInv, NEW r \in Requests, NEW op, NEW state,
           Begins(r, op, state), KnowsServer(requests[r])'
    PROVE  SyncInv'
<1>1. RequestsTyped
  BY DEF GovernanceInv, RequestsTyped, RequestHolds
<1>2. HasBegun(r, op, state)
  BY <1>1, Begun
<1>3. ASSUME NEW q \in Requests, q # r, requests'[q].alone
      PROVE  KnowsServer(requests[q])'
  <2>1. ~InProgress(q) /\ requests'[q].pc = requests[q].pc
    BY <1>2, <1>3 DEF HasBegun, SameRequest
  <2> QED BY <2>1 DEF KnowsServer, InProgress, Ended
<1> QED BY <1>3 DEF SyncInv

LEMMA SyncKeptByEnd ==
    ASSUME GovernanceInv, SyncInv, NEW r \in Requests, InProgress(r), NEW pc \in Ended,
           Ends(r, pc)
    PROVE  SyncInv'
<1>1. PICK next : next = [IdleRequest EXCEPT !.pc = pc]
  OBVIOUS
<1>2. requests' = [requests EXCEPT ![r] = next] /\ next.pc = pc
  BY <1>1 DEF Ends, IdleRequest
<1>3. requests'[r] = next
  BY <1>2 DEF GovernanceInv
<1>4. KnowsServer(requests[r])'
  BY <1>2, <1>3 DEF KnowsServer, Ended
<1> QED BY <1>2, <1>4, SyncKeptByStep

LEMMA SyncKeptByBeginnings ==
    ASSUME GovernanceInv, SyncInv, NEW r \in Requests,
           Beginning(r) \/ \E s \in Servers : LoadServer(r, s)
    PROVE  SyncInv'
<1>1. RequestsTyped
  BY DEF GovernanceInv, RequestsTyped, RequestHolds
<1>2. CASE Beginning(r)
  <2>1. PICK op, state : /\ Begins(r, op, state) /\ "pc" \in DOMAIN state
                         /\ state.pc \in {"loaded", "reconcile", "done"}
    BY <1>2, BeginningBegins DEF BeginsSome
  <2>2. HasBegun(r, op, state)
    BY <1>1, <2>1, Begun
  <2>3. requests'[r].pc = state.pc
    BY <2>1, <2>2 DEF HasBegun, RequestFields
  <2>4. KnowsServer(requests[r])'
    BY <2>1, <2>3 DEF KnowsServer
  <2> QED BY <2>1, <2>4, SyncKeptByBeginning
<1>3. ASSUME NEW s \in Servers, LoadServer(r, s)
      PROVE  SyncInv'
  <2>1. servers' = servers
    BY <1>3 DEF LoadServer, catalogue
  <2>2. /\ requests'[r].pc = "discovering" /\ requests'[r].target = s
        /\ requests'[r].seen = servers[s]
    BY <1>1, <1>3, LoadServerBegins
  <2>3. PICK state : Begins(r, "sync", state)
    BY <1>1, <1>3, LoadServerBegins
  <2>4. KnowsServer(requests[r])'
    BY <2>1, <2>2 DEF KnowsServer
  <2> QED BY <2>3, <2>4, SyncKeptByBeginning
<1> QED BY <1>2, <1>3

\* What the other operations do to a request is not a synchronization.
LEMMA SyncKeptByOperations ==
    ASSUME GovernanceInv, SyncInv, NEW r \in Requests,
           \/ ReadRules(r) \/ ReadTools(r) \/ ReconcileAllTools(r) \/ ReconcileRisk(r)
           \/ ReconcileTool(r) \/ Conflict(r) \/ Crash(r) \/ CommitAlert(r)
           \/ CommitRule(r) \/ CommitTool(r) \/ BuildItems(r) \/ CommitSnapshot(r)
           \/ DiscoveryFails(r) \/ RecordSyncFailure(r) \/ FailSync(r) \/ CommitSync(r)
    PROVE  SyncInv'
<1> PICK q : q = requests[r]
  OBVIOUS
<1>1. InProgress(r) /\ RequestsTyped /\ DOMAIN q = RequestFields /\ RequestHolds(q)
  <2>1. q.pc \notin Ended
    BY DEF ReadRules, ReadTools, ReconcileAllTools, ReconcileRisk, ReconcileTool, Conflict, Crash,
           CommitAlert, CommitRule, CommitTool, BuildItems, CommitSnapshot, DiscoveryFails,
           RecordSyncFailure, FailSync, CommitSync, Ended
  <2> QED BY <2>1 DEF GovernanceInv, RequestsTyped, RequestHolds, InProgress
<1>2. ASSUME NEW next, requests' = [requests EXCEPT ![r] = next], Elsewhere(next)
      PROVE  SyncInv'
  <2>1. requests'[r] = next
    BY <1>1, <1>2 DEF RequestsTyped
  <2>2. KnowsServer(requests[r])'
    BY <1>2, <2>1 DEF KnowsServer, Elsewhere
  <2> QED BY <1>1, <1>2, <2>2, SyncKeptByStep
<1>3. ASSUME NEW pc \in Ended, Ends(r, pc)
      PROVE  SyncInv'
  BY <1>1, <1>3, SyncKeptByEnd
<1>4. CASE ReadRules(r)
  <2> PICK next : next = [q EXCEPT !.pc = "ruled",
                                   !.view = [@ EXCEPT !.rules = EnabledRules]]
    OBVIOUS
  <2>1. requests' = [requests EXCEPT ![r] = next]
    BY <1>4 DEF ReadRules
  <2>2. Elsewhere(next)
    BY <1>1 DEF RequestFields, Elsewhere
  <2> QED BY <1>2, <2>1, <2>2
<1>5. CASE ReadTools(r)
  <2> PICK own : own = IF q.turn = "review" THEN {With(q.seen, q.body)} ELSE {}
    OBVIOUS
  <2> PICK next : next = [q EXCEPT !.pc = "read", !.view = ViewWith(r, own),
                        !.seen = IF q.turn = "tool" THEN tools[q.target] ELSE q.seen]
    OBVIOUS
  <2>1. requests' = [requests EXCEPT ![r] = next] /\ q.pc = "ruled"
    BY <1>5 DEF ReadTools
  <2>2. q.turn # "sync"
    BY <1>1, <2>1 DEF RequestHolds, TurnHolds
  <2>3. Elsewhere(next)
    BY <1>1, <2>2 DEF RequestFields, Elsewhere
  <2> QED BY <1>2, <2>1, <2>3
<1>6. CASE ReconcileAllTools(r)
  <2> PICK next : next = [q EXCEPT !.pc = "reconcile", !.turn = "risk",
                                   !.view = NoView, !.covered = {}]
    OBVIOUS
  <2>1. requests' = [requests EXCEPT ![r] = next]
    BY <1>6 DEF ReconcileAllTools
  <2>2. Elsewhere(next)
    BY <1>1 DEF RequestFields, Elsewhere
  <2> QED BY <1>2, <2>1, <2>2
<1>7. CASE ReconcileRisk(r)
  <2> PICK next : next = [q EXCEPT !.pc = "projected"]
    OBVIOUS
  <2>1. requests' = [requests EXCEPT ![r] = next] \/ Ends(r, "done")
    BY <1>7 DEF ReconcileRisk
  <2>2. Elsewhere(next)
    BY <1>1 DEF RequestFields, Elsewhere
  <2> QED BY <1>2, <1>3, <2>1, <2>2 DEF Ended
<1>8. CASE \/ ReconcileTool(r) \/ Conflict(r) \/ Crash(r) \/ CommitAlert(r) \/ CommitSnapshot(r)
           \/ DiscoveryFails(r) \/ RecordSyncFailure(r) \/ CommitSync(r)
  <2>1. \E pc \in Ended : Ends(r, pc)
    BY <1>8 DEF ReconcileTool, Conflict, Crash, CommitAlert, CommitSnapshot, DiscoveryFails,
                RecordSyncFailure, CommitSync, Ended
  <2> QED BY <1>3, <2>1
<1>9. CASE CommitRule(r)
  <2> PICK next : next = [q EXCEPT !.pc = "reconcile", !.turn = "all"]
    OBVIOUS
  <2>1. requests' = [requests EXCEPT ![r] = next] \/ Ends(r, "conflict")
    BY <1>9 DEF CommitRule
  <2>2. Elsewhere(next)
    BY <1>1 DEF RequestFields, Elsewhere
  <2> QED BY <1>2, <1>3, <2>1, <2>2 DEF Ended
<1>10. CASE CommitTool(r)
  <2> PICK next : next = [q EXCEPT !.pc = "reconcile", !.turn = "tool"]
    OBVIOUS
  <2>1. requests' = [requests EXCEPT ![r] = next] \/ Ends(r, "conflict") \/ Ends(r, "done")
    BY <1>10 DEF CommitTool
  <2>2. Elsewhere(next)
    BY <1>1 DEF RequestFields, Elsewhere
  <2> QED BY <1>2, <1>3, <2>1, <2>2 DEF Ended
<1>11. CASE BuildItems(r)
  <2> PICK next : next = [q EXCEPT !.pc = "built", !.seen = snapshot, !.view = NoView]
    OBVIOUS
  <2>1. requests' = [requests EXCEPT ![r] = next] \/ Ends(r, "conflict") \/ Ends(r, "done")
    BY <1>11 DEF BuildItems
  <2>2. Elsewhere(next)
    BY <1>1 DEF RequestFields, Elsewhere
  <2> QED BY <1>2, <1>3, <2>1, <2>2 DEF Ended
<1>12. CASE FailSync(r)
  <2> PICK next : next = [q EXCEPT !.pc = "failing"]
    OBVIOUS
  <2>1. requests' = [requests EXCEPT ![r] = next]
    BY <1>12 DEF FailSync
  <2>2. Elsewhere(next)
    BY <1>1 DEF RequestFields, Elsewhere
  <2> QED BY <1>2, <2>1, <2>2
<1> QED BY <1>4, <1>5, <1>6, <1>7, <1>8, <1>9, <1>10, <1>11, <1>12

LEMMA SyncKeptByDiscovery ==
    ASSUME GovernanceInv, SyncInv, NEW r \in Requests,
           NEW offer \in Discoveries, Discover(r, offer)
    PROVE  SyncInv'
<1> PICK q : q = requests[r]
  OBVIOUS
<1> PICK next : next = [q EXCEPT !.pc = "discovered", !.body = offer]
  OBVIOUS
<1>1. q.pc = "discovering" /\ servers' = servers /\ requests' = [requests EXCEPT ![r] = next]
  BY DEF Discover, catalogue
<1>2. InProgress(r) /\ RequestsTyped /\ DOMAIN q = RequestFields
  BY <1>1 DEF InProgress, Ended, GovernanceInv, RequestsTyped, RequestHolds
<1>3. /\ next.pc = "discovered" /\ next.seen = q.seen /\ next.target = q.target
      /\ next.alone = q.alone
  BY <1>2 DEF RequestFields
<1>4. requests'[r] = next
  BY <1>1, <1>2 DEF RequestsTyped
<1>5. requests'[r].alone => KnowsServer(requests[r])'
  BY <1>1, <1>3, <1>4 DEF SyncInv, KnowsServer
<1> QED BY <1>1, <1>2, <1>5, SyncKeptByStep

LEMMA SyncKeptByReading ==
    ASSUME GovernanceInv, SyncInv, NEW r \in Requests, ReadSync(r)
    PROVE  SyncInv'
<1> DEFINE q == requests[r]
           s == q.target
           agent == LinkedAgent(q.seen, s)
<1>1. q.pc = "discovered" /\ servers' = servers /\ tools' = tools
  BY DEF ReadSync, catalogue
<1>2. InProgress(r) /\ RequestsTyped /\ DOMAIN q = RequestFields /\ s \in Servers
  BY <1>1 DEF InProgress, Ended, GovernanceInv, RequestsTyped, RequestHolds, SyncHolds
<1>3. q.alone => q.seen = servers[s]
  BY <1>1 DEF SyncInv, KnowsServer
<1>4. CASE LinkFails(q.seen, s)
  <2> PICK next : next = [q EXCEPT !.pc = "failing", !.turn = None]
    OBVIOUS
  <2>1. requests' = [requests EXCEPT ![r] = next]
    BY <1>4 DEF ReadSync
  <2>2. next.pc = "failing" /\ requests'[r] = next
    BY <1>2, <2>1 DEF RequestFields, RequestsTyped
  <2>3. KnowsServer(requests[r])'
    BY <2>2 DEF KnowsServer
  <2> HIDE DEF q
  <2> QED BY <1>2, <2>1, <2>3, SyncKeptByStep
<1>5. CASE ~LinkFails(q.seen, s)
  <2>1. PICK dict \in ByName(s) :
           LET match == Matched(q.body, dict, agent)
               kept == {n \in DOMAIN match : match[n] # None}
               own == {Updated(match[n], s, q.body[n]) : n \in kept}
               gone == {tools[dict[n]] : n \in DOMAIN dict \ DOMAIN match}
               Shown(o) == agents[o.agent] = "live" /\ ~servers[s].deleted
           IN  requests' = [requests EXCEPT ![r] =
                  [q EXCEPT !.pc = "read",
                            !.body = [offer |-> q.body, match |-> match, gone |-> gone,
                                      names |-> agents[agent] = "absent"],
                            !.view = [rules |-> EnabledRules,
                                      tools |-> {t \in DiscoveredRows :
                                         \A o \in own \cup gone : o.id # t.id}
                                         \cup {o \in own : Shown(o)},
                                      active |-> ActiveAlerts, records |-> records,
                                      controls |-> controls]]]
    BY <1>5 DEF ReadSync
  <2> DEFINE found == Matched(q.body, dict, agent)
             own == {Updated(found[n], s, q.body[n]) : n \in {m \in DOMAIN found : found[m] # None}}
             removed == {tools[dict[n]] : n \in DOMAIN dict \ DOMAIN found}
             shown == {o \in own : agents[o.agent] = "live" /\ ~servers[s].deleted}
             rows == {t \in DiscoveredRows : \A o \in own \cup removed : o.id # t.id} \cup shown
             planned == [offer |-> q.body, match |-> found, gone |-> removed,
                         names |-> agents[agent] = "absent"]
             viewed == [rules |-> EnabledRules, tools |-> rows, active |-> ActiveAlerts,
                        records |-> records, controls |-> controls]
  <2>2. requests' = [requests EXCEPT ![r] =
           [q EXCEPT !.pc = "read", !.body = planned, !.view = viewed]]
    BY <2>1
  <2>3. PICK match : match = found
    OBVIOUS
  <2>4. PICK gone : gone = removed
    OBVIOUS
  <2>5. gone = {tools[dict[n]] : n \in DOMAIN dict \ DOMAIN match}
    BY <2>3, <2>4
  <2>6. planned.match = match /\ planned.gone = gone
    BY <2>3, <2>4
  <2>7. PICK plan : plan = planned
    OBVIOUS
  <2>8. PICK view : view = viewed
    OBVIOUS
  <2>9. plan.match = match /\ plan.gone = gone
    BY <2>6, <2>7
  <2> HIDE DEF found, removed, rows, own, shown, planned, viewed
  <2>10. PICK next : next = [q EXCEPT !.pc = "read", !.body = plan, !.view = view]
    OBVIOUS
  <2>11. requests' = [requests EXCEPT ![r] = next]
    BY <2>2, <2>7, <2>8, <2>10
  <2>12. /\ next.pc = "read" /\ next.body = plan /\ next.seen = q.seen /\ next.target = s
         /\ next.alone = q.alone
    BY <1>2, <2>10 DEF RequestFields
  <2>13. next.body.match = match /\ next.body.gone = gone
    BY <2>9, <2>12
  <2>14. PICK offer : offer = q.body
    OBVIOUS
  <2>15. PICK linked : linked = agent
    OBVIOUS
  <2>16. match = Matched(offer, dict, linked)
    BY <2>3, <2>14, <2>15 DEF found
  <2>17. PICK server : server = s
    OBVIOUS
  <2>18. server \in Servers /\ dict \in ByName(server) /\ next.target = server
    BY <1>2, <2>12, <2>17
  <2>19. CatalogueHolds
    BY DEF GovernanceInv
  <2>20. Planned(next)
    BY <2>5, <2>13, <2>16, <2>18, <2>19, PlannedWhenRead
  <2>21. requests'[r] = next
    BY <1>2, <2>11 DEF RequestsTyped
  <2>22. Planned(next)'
    BY <1>1, <2>20 DEF Planned
  <2>23. requests'[r].alone => KnowsServer(requests[r])'
    BY <1>1, <1>3, <2>12, <2>21, <2>22 DEF KnowsServer
  <2> HIDE DEF q
  <2> QED BY <1>2, <2>11, <2>23, SyncKeptByStep
<1> QED BY <1>4, <1>5

LEMMA SyncInvariant == Spec => []SyncInv
<1>1. GovernanceInit => SyncInv
  BY DEF GovernanceInit, SyncInv, KnowsServer, IdleRequest
<1>2. ASSUME GovernanceInv, SyncInv, NEW r \in Requests, GovernanceNext(r) \/ SyncNext(r)
      PROVE  SyncInv'
  <2>1. ASSUME RuleNext(r)
        PROVE  SyncInv'
    BY <1>2, <2>1, SyncKeptByBeginnings, SyncKeptByOperations
       DEF RuleNext, Beginning, RuleOperations
  <2>2. ASSUME CatalogueNext(r)
        PROVE  SyncInv'
    BY <1>2, <2>2, SyncKeptByBeginnings, SyncKeptByOperations DEF CatalogueNext, Beginning
  <2>3. ASSUME AlertNext(r) \/ RegisterNext(r)
        PROVE  SyncInv'
    BY <1>2, <2>3, SyncKeptByBeginnings, SyncKeptByOperations
       DEF AlertNext, RegisterNext, Beginning
  <2>4. ASSUME SyncNext(r)
        PROVE  SyncInv'
    BY <1>2, <2>4, SyncKeptByBeginnings, SyncKeptByOperations, SyncKeptByDiscovery,
       SyncKeptByReading
       DEF SyncNext
  <2>5. ASSUME ReadRules(r) \/ ReadTools(r) \/ ReconcileAllTools(r) \/ ReconcileRisk(r)
               \/ ReconcileTool(r) \/ Conflict(r) \/ Crash(r)
        PROVE  SyncInv'
    BY <1>2, <2>5, SyncKeptByOperations
  <2> QED BY <1>2, <2>1, <2>2, <2>3, <2>4, <2>5 DEF GovernanceNext
<1>3. ASSUME SyncInv, UNCHANGED governanceVars
      PROVE  SyncInv'
  BY <1>3 DEF governanceVars, catalogue, SyncInv, KnowsServer, Planned
<1>4. GovernanceInv /\ SyncInv /\ [Next]_governanceVars => SyncInv'
  BY <1>2, <1>3 DEF Next
<1> QED BY <1>1, <1>4, GovernanceInvariant, PTL DEF Spec

\* The row of a tool after the transaction: of one created for a name, of one matched
\* with a name, of one removed, and of the others.
CreatedFor(q, t, n, row) ==
    /\ row.state = "live" /\ row.server = q.target /\ row.name = n
    /\ row.schema = q.body.offer[n].schema /\ row.description = q.body.offer[n].description
    /\ tools[t].state = "absent"

MatchedWith(q, t, n, row) ==
    /\ row.state = "live" /\ row.server = q.target /\ row.name = n
    /\ row.schema = q.body.offer[n].schema /\ row.description = q.body.offer[n].description
    /\ q.body.match[n] # None /\ q.body.match[n].id = t

LEMMA UpdatedContent ==
    ASSUME NEW row \in ToolRows, NEW s, NEW content
    PROVE  /\ Updated(row, s, content).name = row.name
           /\ Updated(row, s, content).state = row.state
           /\ Updated(row, s, content).server = s
           /\ Updated(row, s, content).schema = content.schema
           /\ Updated(row, s, content).description = content.description
           /\ DOMAIN Updated(row, s, content) = DOMAIN row
  BY DEF Updated, ToolRows

\* An UPDATE of a row that is as it was loaded writes what the session made of it.
LEMMA NetChangeOfCurrent ==
    ASSUME NEW row, NEW new, DOMAIN new = DOMAIN row
    PROVE  \A f \in DOMAIN row : NetChange(row, row, new)[f] = new[f]
  BY DEF NetChange

LEMMA MatchedRow ==
    ASSUME CatalogueHolds, NEW r, Ready(r), RowsLeft(r), Planned(requests[r]),
           NEW n \in DOMAIN requests[r].body.match \ Unmatched(r)
    PROVE  /\ MatchedWith(requests[r], requests[r].body.match[n].id, n,
                          ToolsAfterSync(r, NewTools(r))[requests[r].body.match[n].id])
           /\ ToolsAfterSync(r, NewTools(r))[requests[r].body.match[n].id] =
                 Updated(requests[r].body.match[n], requests[r].target,
                         requests[r].body.offer[n])
<1> PICK q : q = requests[r]
  OBVIOUS
<1> PICK created : created = NewTools(r)
  OBVIOUS
<1>1. PICK t : t = q.body.match[n].id
  OBVIOUS
<1>2. /\ q.body.match[n] # None /\ q.body.match[n] \in ToolRows
      /\ q.body.match[n] = tools[t] /\ tools[t].state = "live" /\ tools[t].name = n
      /\ t \in Tools
  <2>1. q.body.match[n] # None /\ q.body.match[n] \in ToolRows
    BY KeptType DEF Unmatched
  <2>2. q.body.match[n] = tools[t] /\ q.body.match[n].state = "live" /\ q.body.match[n].name = n
    BY <1>1, <2>1 DEF Planned
  <2> QED BY <1>1, <2>1, <2>2 DEF ToolRows
<1>3. \A c \in created : c.id # t
  BY <1>2, NewToolsType
<1>4. PICK change : change = {m \in DOMAIN q.body.match \ Unmatched(r) : q.body.match[m].id = t}
  OBVIOUS
<1>5. change = {n} /\ n = CHOOSE m \in change : TRUE
  <2>1. ASSUME NEW m \in DOMAIN q.body.match \ Unmatched(r), q.body.match[m].id = t
        PROVE  m = n
    <3>1. q.body.match[m] = tools[t] /\ q.body.match[m].name = m
      BY <2>1 DEF Planned, Unmatched
    <3> QED BY <1>2, <3>1
  <2> QED BY <1>1, <1>4, <2>1
<1>6. PICK m : m = CHOOSE x \in change : TRUE
  OBVIOUS
<1>7. ToolsAfterSync(r, created)[t] =
         IF \E c \in created : c.id = t THEN CHOOSE c \in created : c.id = t
         ELSE IF change # {}
         THEN NetChange(tools[t], q.body.match[m], Updated(q.body.match[m], q.target, q.body.offer[m]))
         ELSE IF \E g \in q.body.gone : g.id = t THEN [tools[t] EXCEPT !.state = "deleted"]
         ELSE tools[t]
  BY <1>2, <1>4, <1>6 DEF ToolsAfterSync
<1>8. PICK seen : seen = q.body.match[n]
  OBVIOUS
<1>9. PICK content : content = q.body.offer[n]
  OBVIOUS
<1>10. PICK s : s = q.target
  OBVIOUS
<1>11. PICK new : new = Updated(seen, s, content)
  OBVIOUS
<1>12. PICK net : net = NetChange(tools[t], seen, new)
  OBVIOUS
<1>13. ToolsAfterSync(r, created)[t] = net
  BY <1>3, <1>5, <1>6, <1>7, <1>8, <1>9, <1>10, <1>11, <1>12
<1>14. seen \in ToolRows /\ seen = tools[t]
  BY <1>2, <1>8
<1>15. /\ new.name = seen.name /\ new.state = seen.state /\ new.server = s
       /\ new.schema = content.schema /\ new.description = content.description
       /\ DOMAIN new = DOMAIN seen
  BY <1>11, <1>14, UpdatedContent
<1>16. \A f \in DOMAIN seen : net[f] = new[f]
  BY <1>12, <1>14, <1>15, NetChangeOfCurrent
<1>17. {"state", "server", "name", "schema", "description"} \subseteq DOMAIN seen
  BY <1>14 DEF ToolRows
<1>18. /\ net.state = "live" /\ net.server = s /\ net.name = n
       /\ net.schema = content.schema /\ net.description = content.description
  BY <1>2, <1>14, <1>15, <1>16, <1>17
<1>19. new \in ToolRows
  BY <1>8, <1>9, <1>10, <1>11, KeptType
<1>20. net = new
  BY <1>12, <1>14, <1>19, ToolRewritten
<1> QED BY <1>1, <1>2, <1>8, <1>9, <1>10, <1>11, <1>13, <1>18, <1>20 DEF MatchedWith

LEMMA CreatedRow ==
    ASSUME CatalogueHolds, NEW r, Ready(r), RowsLeft(r)
    PROVE  \E ids \in [Unmatched(r) -> Free] :
              /\ IsInjective(ids)
              /\ \A n \in Unmatched(r) :
                    CreatedFor(requests[r], ids[n], n, ToolsAfterSync(r, NewTools(r))[ids[n]])
              /\ \A c \in NewTools(r) : \E n \in Unmatched(r) : c.id = ids[n]
              /\ \A c \in NewTools(r) : ToolsAfterSync(r, NewTools(r))[c.id] = c
<1> PICK q : q = requests[r]
  OBVIOUS
<1> PICK created : created = NewTools(r)
  OBVIOUS
<1> PICK agent : agent = LinkedAgent(q.seen, q.target)
  OBVIOUS
<1>1. PICK ids : ids = CHOOSE f \in [Unmatched(r) -> Free] : IsInjective(f)
  OBVIOUS
<1>2. ids \in [Unmatched(r) -> Free] /\ IsInjective(ids)
  BY <1>1 DEF RowsLeft
<1>3. created = {NewTool(ids[n], agent, q.target, n, q.body.offer[n]) : n \in Unmatched(r)}
  BY <1>1 DEF NewTools
<1>4. ASSUME NEW n \in Unmatched(r)
      PROVE  /\ CreatedFor(q, ids[n], n, ToolsAfterSync(r, created)[ids[n]])
             /\ ToolsAfterSync(r, created)[ids[n]] =
                   NewTool(ids[n], agent, q.target, n, q.body.offer[n])
  <2>1. PICK t : t = ids[n]
    OBVIOUS
  <2>2. t \in Tools /\ tools[t].state = "absent"
    BY <1>2, <2>1 DEF Free
  <2>3. PICK row : row = NewTool(t, agent, q.target, n, q.body.offer[n])
    OBVIOUS
  <2>4. row \in created
    BY <1>3, <2>1, <2>3
  <2>5. \A m \in Unmatched(r) :
           NewTool(ids[m], agent, q.target, m, q.body.offer[m]).id = ids[m]
    BY DEF NewTool
  <2>6. \A m \in Unmatched(r) : ids[m] = t => m = n
    BY <1>2, <2>1 DEF IsInjective
  <2>7. \A c \in created : c.id = t => c = row
    BY <1>3, <2>1, <2>3, <2>5, <2>6
  <2>8. row.id = t
    BY <2>3 DEF NewTool
  <2>9. row = CHOOSE c \in created : c.id = t
    BY <2>4, <2>7, <2>8
  <2>10. ToolsAfterSync(r, created)[t] = row
    BY <2>2, <2>4, <2>8, <2>9 DEF ToolsAfterSync
  <2>11. /\ row.state = "live" /\ row.server = q.target /\ row.name = n
         /\ row.schema = q.body.offer[n].schema
         /\ row.description = q.body.offer[n].description
    BY <2>3 DEF NewTool
  <2> QED BY <2>1, <2>2, <2>3, <2>10, <2>11 DEF CreatedFor
<1>5. \A c \in created : \E n \in Unmatched(r) :
         c.id = ids[n] /\ c = NewTool(ids[n], agent, q.target, n, q.body.offer[n])
  BY <1>3 DEF NewTool
<1>6. \A c \in created : ToolsAfterSync(r, created)[c.id] = c
  BY <1>4, <1>5
<1> QED BY <1>2, <1>4, <1>5, <1>6

\* The other tools are removed, or are as they were.
LEMMA OtherRow ==
    ASSUME CatalogueHolds, NEW r, Ready(r), RowsLeft(r), Planned(requests[r]), NEW t \in Tools,
           \A c \in NewTools(r) : c.id # t,
           \A n \in DOMAIN requests[r].body.match \ Unmatched(r) : requests[r].body.match[n].id # t
    PROVE  LET row == ToolsAfterSync(r, NewTools(r))[t] IN
           IF \E g \in requests[r].body.gone : g.id = t THEN row.state = "deleted"
           ELSE row = tools[t]
<1> PICK q : q = requests[r]
  OBVIOUS
<1> PICK created : created = NewTools(r)
  OBVIOUS
<1>1. {m \in DOMAIN q.body.match \ Unmatched(r) : q.body.match[m].id = t} = {}
  OBVIOUS
<1>2. ToolsAfterSync(r, created)[t] =
         IF \E g \in q.body.gone : g.id = t THEN [tools[t] EXCEPT !.state = "deleted"]
         ELSE tools[t]
  BY <1>1 DEF ToolsAfterSync
<1>3. [tools[t] EXCEPT !.state = "deleted"].state = "deleted"
  BY DEF CatalogueHolds, ToolRows
<1> QED BY <1>2, <1>3

\* What the property says of the tools, of the rows that the transaction leaves.
OfServer(rows, s) == {t \in Tools : rows[t].state = "live" /\ rows[t].server = s}

Offers(row, n, content) ==
    /\ row.name = n
    /\ row.schema = content.schema /\ row.description = content.description

OneOfEachName(s) ==
    \A t, u \in OfServer(tools, s) : tools[t].name = tools[u].name => t = u

Reflects(rows, s, offer) ==
    /\ \A n \in DOMAIN offer : \E t \in OfServer(rows, s) : Offers(rows[t], n, offer[n])
    /\ OneOfEachName(s) => Cardinality(OfServer(rows, s)) = Cardinality(DOMAIN offer)

\* Each offered name has its row, and every other tool of the server goes.
LEMMA EveryRowIsOffered ==
    ASSUME CatalogueHolds, NEW r, Ready(r), RowsLeft(r), Planned(requests[r]),
           OneOfEachName(requests[r].target), NEW ids,
           \A c \in NewTools(r) : \E n \in Unmatched(r) : c.id = ids[n],
           NEW t \in Tools, NEW rows, rows = ToolsAfterSync(r, NewTools(r)),
           rows[t].state = "live", rows[t].server = requests[r].target
    PROVE  \/ \E n \in Unmatched(r) : t = ids[n]
           \/ \E n \in DOMAIN requests[r].body.match \ Unmatched(r) :
                 t = requests[r].body.match[n].id
<1> SUFFICES ASSUME ~(\E n \in Unmatched(r) : t = ids[n]),
                    ~(\E n \in DOMAIN requests[r].body.match \ Unmatched(r) :
                         t = requests[r].body.match[n].id)
             PROVE  FALSE
  OBVIOUS
<1> PICK q : q = requests[r]
  OBVIOUS
<1>1. IF \E g \in q.body.gone : g.id = t THEN rows[t].state = "deleted" ELSE rows[t] = tools[t]
  BY OtherRow
<1>2. rows[t] = tools[t] /\ ~\E g \in q.body.gone : g.id = t
  BY <1>1
<1>3. tools[t].state = "live" /\ tools[t].server = q.target
  BY <1>2
<1>4. PICK u \in Tools :
         /\ tools[u].state = "live" /\ tools[u].server = q.target
         /\ tools[u].name = tools[t].name
         /\ IF tools[u].name \in DOMAIN q.body.match
            THEN q.body.match[tools[u].name] = tools[u] ELSE tools[u] \in q.body.gone
  BY <1>3 DEF Planned
<1>5. u = t
  BY <1>3, <1>4 DEF OneOfEachName, OfServer
<1>6. tools[t].id = t /\ tools[t] # None
  BY GovernanceAssumption DEF CatalogueHolds
<1>7. CASE tools[t].name \in DOMAIN q.body.match
  <2>1. q.body.match[tools[t].name] = tools[t]
    BY <1>4, <1>5, <1>7
  <2>2. tools[t].name \in DOMAIN q.body.match \ Unmatched(r)
    BY <1>6, <1>7, <2>1 DEF Unmatched
  <2> QED BY <1>6, <2>1, <2>2
<1>8. CASE tools[t].name \notin DOMAIN q.body.match
  BY <1>2, <1>4, <1>5, <1>6, <1>8
<1> QED BY <1>7, <1>8

LEMMA RowsReflectOffer ==
    ASSUME CatalogueHolds, NEW r, Ready(r), RowsLeft(r), Planned(requests[r])
    PROVE  Reflects(ToolsAfterSync(r, NewTools(r)), requests[r].target, requests[r].body.offer)
<1> PICK q : q = requests[r]
  OBVIOUS
<1>1. PICK rows : rows = ToolsAfterSync(r, NewTools(r))
  OBVIOUS
<1>2. PICK s : s = q.target
  OBVIOUS
<1>3. PICK offer : offer = q.body.offer
  OBVIOUS
<1>4. PICK match : match = q.body.match
  OBVIOUS
<1>5. PICK missing : missing = Unmatched(r)
  OBVIOUS
<1>6. DOMAIN match = DOMAIN offer /\ missing \subseteq DOMAIN offer /\ IsFiniteSet(DOMAIN offer)
  <2>1. offer \in Discoveries /\ DOMAIN match = DOMAIN offer
    BY <1>3, <1>4 DEF Ready, PlanHolds
  <2> QED BY <1>4, <1>5, <2>1, ServerSyncAssumption DEF Unmatched
<1>7. PICK ids \in [Unmatched(r) -> Free] :
         /\ \A n \in Unmatched(r) :
               CreatedFor(requests[r], ids[n], n, ToolsAfterSync(r, NewTools(r))[ids[n]])
         /\ \A c \in NewTools(r) : \E n \in Unmatched(r) : c.id = ids[n]
  BY CreatedRow
<1>8. PICK F : F = [n \in DOMAIN offer |-> IF n \in missing THEN ids[n] ELSE match[n].id]
  OBVIOUS
<1>9. ASSUME NEW n \in DOMAIN offer
      PROVE  F[n] \in OfServer(rows, s) /\ Offers(rows[F[n]], n, offer[n])
  <2>1. CASE n \in missing
    <3>1. F[n] = ids[n] /\ ids[n] \in Tools
      BY <1>5, <1>7, <1>8, <2>1 DEF Free
    <3>2. CreatedFor(q, ids[n], n, rows[ids[n]])
      BY <1>1, <1>5, <1>7, <2>1
    <3> QED BY <1>2, <1>3, <3>1, <3>2 DEF CreatedFor, OfServer, Offers
  <2>2. CASE n \notin missing
    <3>1. F[n] = match[n].id
      BY <1>8, <2>2
    <3>2. n \in DOMAIN requests[r].body.match \ Unmatched(r)
      BY <1>4, <1>5, <1>6, <2>2
    <3>3. MatchedWith(q, F[n], n, rows[F[n]])
      BY <1>1, <1>4, <3>1, <3>2, MatchedRow
    <3>4. F[n] \in Tools
      BY <1>4, <3>1, <3>2, KeptType DEF ToolRows
    <3> QED BY <1>2, <1>3, <3>3, <3>4 DEF MatchedWith, OfServer, Offers
  <2> QED BY <2>1, <2>2
<1>10. F \in Injection(DOMAIN offer, OfServer(rows, s))
  <2>1. F \in [DOMAIN offer -> OfServer(rows, s)]
    BY <1>8, <1>9
  <2>2. \A n, m \in DOMAIN offer : F[n] = F[m] => n = m
    BY <1>9 DEF Offers
  <2> QED BY <2>1, <2>2 DEF Injection, IsInjective
<1>11. ASSUME OneOfEachName(s)
       PROVE  Cardinality(OfServer(rows, s)) = Cardinality(DOMAIN offer)
  <2>1. ASSUME NEW t \in OfServer(rows, s)
        PROVE  \E n \in DOMAIN offer : F[n] = t
    <3>1. t \in Tools /\ rows[t].state = "live" /\ rows[t].server = requests[r].target
      BY <1>2, <2>1 DEF OfServer
    <3>2. OneOfEachName(requests[r].target)
      BY <1>2, <1>11
    <3>3. \/ \E n \in Unmatched(r) : t = ids[n]
          \/ \E n \in DOMAIN requests[r].body.match \ Unmatched(r) :
                t = requests[r].body.match[n].id
      BY <1>1, <1>7, <3>1, <3>2, EveryRowIsOffered
    <3> QED BY <1>4, <1>5, <1>6, <1>8, <3>3
  <2>2. F \in Surjection(DOMAIN offer, OfServer(rows, s))
    BY <1>10, <2>1 DEF Injection, Surjection
  <2> QED BY <1>6, <1>10, <2>2, FS_Surjection
<1> QED BY <1>1, <1>2, <1>3, <1>9, <1>11 DEF Reflects

\* A synchronization that has read the tables is done when it commits, and in no other way.
LEMMA BeginningsEndNothing ==
    ASSUME RequestsTyped, NEW p \in Requests,
           Beginning(p) \/ \E s \in Servers : LoadServer(p, s),
           NEW r \in Requests, Syncs(r)
    PROVE  requests'[r].pc # "done"
<1>1. PICK op, state : Begins(p, op, state)
  BY BeginningBegins, LoadServerBegins DEF BeginsSome
<1>2. HasBegun(p, op, state)
  BY <1>1, Begun
<1>3. p # r /\ requests'[r].pc = "read"
  BY <1>2 DEF HasBegun, SameRequest, Syncs
<1> QED BY <1>3

LEMMA SyncEndsByCommit ==
    ASSUME RequestsTyped, NEW p \in Requests,
           \/ ReadRules(p) \/ ReadTools(p) \/ ReconcileAllTools(p) \/ ReconcileRisk(p)
           \/ ReconcileTool(p) \/ Conflict(p) \/ Crash(p) \/ CommitAlert(p)
           \/ CommitRule(p) \/ CommitTool(p) \/ BuildItems(p) \/ CommitSnapshot(p)
           \/ DiscoveryFails(p) \/ RecordSyncFailure(p) \/ FailSync(p) \/ CommitSync(p)
           \/ ReadSync(p) \/ \E offer \in Discoveries : Discover(p, offer),
           NEW r \in Requests, Syncs(r), requests'[r].pc = "done"
    PROVE  CommitSync(r)
<1>1. \E next : requests' = [requests EXCEPT ![p] = next]
  <2>1. CASE \/ ReadRules(p) \/ ReadTools(p) \/ ReconcileAllTools(p) \/ FailSync(p)
             \/ \E offer \in Discoveries : Discover(p, offer)
    BY <2>1 DEF ReadRules, ReadTools, ReconcileAllTools, FailSync, Discover
  <2>2. CASE \/ ReconcileRisk(p) \/ ReconcileTool(p) \/ Conflict(p) \/ Crash(p) \/ CommitAlert(p)
             \/ CommitRule(p) \/ CommitTool(p) \/ BuildItems(p) \/ CommitSnapshot(p)
             \/ DiscoveryFails(p) \/ RecordSyncFailure(p) \/ CommitSync(p)
    BY <2>2 DEF ReconcileRisk, ReconcileTool, Conflict, Crash, CommitAlert, CommitRule, CommitTool,
                BuildItems, CommitSnapshot, DiscoveryFails, RecordSyncFailure, CommitSync, Ends
  <2>3. CASE ReadSync(p)
    BY <2>3 DEF ReadSync
  <2> QED BY <2>1, <2>2, <2>3
<1>2. p = r
  BY <1>1 DEF RequestsTyped, Syncs
<1>3. ~FailSync(r)
  <2> SUFFICES ASSUME FailSync(r) PROVE FALSE
    OBVIOUS
  <2>1. requests'[r].pc = "failing"
    BY DEF FailSync, RequestsTyped, RequestFields
  <2> QED BY <2>1
<1> QED BY <1>2, <1>3
        DEF Syncs, ReadRules, ReadTools, ReconcileAllTools, ReconcileRisk, ReconcileTool, Conflict,
            Crash, CommitAlert, CommitRule, CommitTool, BuildItems, CommitSnapshot,
            DiscoveryFails, RecordSyncFailure, ReadSync, Discover

LEMMA SyncEnds ==
    ASSUME RequestsTyped, NEW p \in Requests, GovernanceNext(p) \/ SyncNext(p),
           NEW r \in Requests, Syncs(r), requests'[r].pc = "done"
    PROVE  CommitSync(r)
<1>1. ~(Beginning(p) \/ \E s \in Servers : LoadServer(p, s))
  BY BeginningsEndNothing
<1>2. ASSUME RuleNext(p)
      PROVE  CommitSync(r)
  BY <1>1, <1>2, SyncEndsByCommit DEF RuleNext, Beginning, RuleOperations
<1>3. ASSUME CatalogueNext(p)
      PROVE  CommitSync(r)
  BY <1>1, <1>3, SyncEndsByCommit DEF CatalogueNext, Beginning
<1>4. ASSUME AlertNext(p) \/ RegisterNext(p)
      PROVE  CommitSync(r)
  BY <1>1, <1>4, SyncEndsByCommit DEF AlertNext, RegisterNext, Beginning
<1>5. ASSUME SyncNext(p)
      PROVE  CommitSync(r)
  BY <1>1, <1>5, SyncEndsByCommit DEF SyncNext
<1>6. ASSUME ReadRules(p) \/ ReadTools(p) \/ ReconcileAllTools(p) \/ ReconcileRisk(p)
             \/ ReconcileTool(p) \/ Conflict(p) \/ Crash(p)
      PROVE  CommitSync(r)
  BY <1>6, SyncEndsByCommit
<1> QED BY <1>2, <1>3, <1>4, <1>5, <1>6 DEF GovernanceNext

\* The row of a server that has an agent keeps it: the transaction writes what has changed.
LEMMA LinkKept ==
    ASSUME CatalogueHolds, NEW r, Ready(r), CommitSync(r),
           requests[r].seen = servers[requests[r].target],
           servers[requests[r].target].agent # None
    PROVE  servers'[requests[r].target].agent = servers[requests[r].target].agent
<1> PICK q : q = requests[r]
  OBVIOUS
<1>1. PICK s : s = q.target
  OBVIOUS
<1>2. PICK seen : seen = q.seen
  OBVIOUS
<1>3. PICK agent : agent = LinkedAgent(seen, s)
  OBVIOUS
<1>4. PICK new : new = [seen EXCEPT !.agent = agent, !.status = "connected"]
  OBVIOUS
<1>5. PICK row : row = NetChange(servers[s], seen, new)
  OBVIOUS
<1>6. servers' = [servers EXCEPT ![s] = row]
  BY <1>1, <1>2, <1>3, <1>4, <1>5 DEF CommitSync
<1>7. s \in Servers /\ servers[s] \in ServerRows /\ servers'[s] = row
  BY <1>1, <1>6 DEF Ready, SyncHolds, CatalogueHolds
<1>8. agent = seen.agent /\ seen = servers[s]
  BY <1>1, <1>2, <1>3 DEF LinkedAgent
<1>9. {"agent", "status"} \subseteq DOMAIN seen
  BY <1>7, <1>8 DEF ServerRows
<1>10. new["agent"] = seen["agent"]
  BY <1>4, <1>8, <1>9
<1>11. row["agent"] = servers[s]["agent"]
  BY <1>5, <1>8, <1>9, <1>10, NetChangeFields
<1> QED BY <1>1, <1>7, <1>11

(***************************************************************************)
(* Theorem: a synchronization that nothing has overlapped leaves the       *)
(* server with exactly the tools it has discovered, under their names,     *)
(* schemas and descriptions, however many they are and whatever was there  *)
(* before (two live tools of the server under one name excepted, of which  *)
(* the dictionary of sync_mcp_server in services/mcp_servers.py keeps one  *)
(* only), and leaves a linked server with its agent.                       *)
(***************************************************************************)
THEOREM SyncReflects == Spec => SyncReflectsDiscovery
<1> DEFINE Done(r) ==
        Syncs(r) /\ requests'[r].pc = "done" /\ requests[r].alone =>
          LET s == requests[r].target
              offer == requests[r].body.offer
              own == {t \in Tools : tools[t].state = "live" /\ tools[t].server = s}
              new == {t \in Tools : tools'[t].state = "live" /\ tools'[t].server = s}
          IN  /\ \A n \in DOMAIN offer : \E t \in new :
                    /\ tools'[t].name = n
                    /\ tools'[t].schema = offer[n].schema
                    /\ tools'[t].description = offer[n].description
              /\ (\A t, u \in own : tools[t].name = tools[u].name => t = u) =>
                    Cardinality(new) = Cardinality(DOMAIN offer)
              /\ servers[s].agent # None => servers'[s].agent = servers[s].agent
<1>1. ASSUME GovernanceInv, SyncInv, NEW p \in Requests, GovernanceNext(p) \/ SyncNext(p),
             NEW r \in Requests, Syncs(r), requests'[r].pc = "done", requests[r].alone
      PROVE  Done(r)
  <2>1. CatalogueHolds /\ RequestsTyped
    BY <1>1 DEF GovernanceInv, RequestsTyped, RequestHolds
  <2>2. CommitSync(r)
    BY <1>1, <2>1, SyncEnds
  <2>3. Ready(r)
    BY <1>1, IsReady DEF Syncs
  <2>4. requests[r].seen = servers[requests[r].target] /\ Planned(requests[r])
    BY <1>1 DEF SyncInv, KnowsServer, Syncs
  <2>5. RowsLeft(r) /\ tools' = ToolsAfterSync(r, NewTools(r))
    BY <2>2 DEF CommitSync
  <2>6. Reflects(tools', requests[r].target, requests[r].body.offer)
    BY <2>1, <2>3, <2>4, <2>5, RowsReflectOffer
  <2>7. servers[requests[r].target].agent # None =>
           servers'[requests[r].target].agent = servers[requests[r].target].agent
    BY <2>1, <2>2, <2>3, <2>4, LinkKept
  <2> QED BY <2>6, <2>7 DEF Reflects, OneOfEachName, OfServer, Offers
<1>2. GovernanceInv /\ SyncInv /\ [Next]_governanceVars =>
         [\A r \in Requests : Done(r)]_governanceVars
  <2>1. ASSUME GovernanceInv, SyncInv, NEW p \in Requests, GovernanceNext(p) \/ SyncNext(p)
        PROVE  \A r \in Requests : Done(r)
    BY <1>1, <2>1
  <2> QED BY <2>1 DEF Next
<1> QED BY <1>2, GovernanceInvariant, SyncInvariant, PTL DEF Spec, SyncReflectsDiscovery

-----------------------------------------------------------------------------
(***************************************************************************)
(* What a reconciliation does to the alerts of a key.                      *)
(***************************************************************************)
\* The verdicts that are given on a key.
Verdicts(wants, key) == {w.verdict : w \in Of(wants, key)}

ActiveOf(key) == Of(ActiveAlerts, key)

\* Only one alert of the key is active.
LEMMA OneActive ==
    ASSUME NEW a \in ActiveAlerts, NEW b \in ActiveAlerts, AlertKey(a) = AlertKey(b),
           AlertKey(a) \notin Doubles(alerts)
    PROVE  SameAlert(a, b)
<1>1. /\ a \in alerts /\ b \in alerts
      /\ {a.status, b.status} \subseteq {"open", "acknowledged"}
  BY DEF ActiveAlerts
<1>2. a.number = b.number
  BY <1>1 DEF Doubles
<1> QED BY <1>2 DEF SameAlert

\* The alerts a reconciliation leaves: those it resolves, those it leaves alone, and new ones.
LEMMA ReconciledRows ==
    ASSUME AlertsHold, NEW wants \in SUBSET WantRows, Reconciles(wants, ActiveAlerts)
    PROVE  \E picked \in Resolvable(wants, ActiveAlerts) :
              /\ doubled' = doubled \cup Doubles(alerts')
              /\ \A b \in alerts' :
                    \/ \E w \in wants : /\ w.verdict = "active" /\ ActiveOf(AlertKey(w)) = {}
                                        /\ AlertKey(b) = AlertKey(w)
                    \/ b.status = "resolved"
                    \/ b \in alerts /\ ~\E p \in picked : SameAlert(b, p)
              /\ \A a \in alerts : (~\E p \in picked : SameAlert(a, p)) => a \in alerts'
              /\ \A w \in wants : w.verdict = "active" /\ ActiveOf(AlertKey(w)) = {} =>
                    \E b \in alerts' : AlertKey(b) = AlertKey(w) /\ b.status = "open"
<1>1. PICK picked \in Resolvable(wants, ActiveAlerts) :
         SetAlerts({IF \E p \in picked : SameAlert(a, p)
                    THEN [a EXCEPT !.status = "resolved", !.closed = TRUE] ELSE a : a \in alerts}
                   \cup Created(wants, ActiveAlerts))
  BY DEF Reconciles
<1> DEFINE created == Created(wants, ActiveAlerts)
           kept == {IF \E p \in picked : SameAlert(a, p)
                    THEN [a EXCEPT !.status = "resolved", !.closed = TRUE] ELSE a : a \in alerts}
<1>2. alerts' = kept \cup created /\ doubled' = doubled \cup Doubles(alerts')
  BY <1>1 DEF SetAlerts
<1>3. created = {NewAlert(w) : w \in {v \in wants : v.verdict = "active"
                                                    /\ ActiveOf(AlertKey(v)) = {}}}
  BY DEF Created, ActiveOf
<1>4. \A w \in wants : AlertKey(NewAlert(w)) = AlertKey(w) /\ NewAlert(w).status = "open"
  BY DEF NewAlert, AlertKey
<1>5. \A a \in alerts : [a EXCEPT !.status = "resolved", !.closed = TRUE].status = "resolved"
  BY DEF AlertsHold, AlertRows
<1> HIDE DEF created
<1>6. ASSUME NEW b \in alerts'
      PROVE  \/ \E w \in wants : /\ w.verdict = "active" /\ ActiveOf(AlertKey(w)) = {}
                                 /\ AlertKey(b) = AlertKey(w)
             \/ b.status = "resolved"
             \/ b \in alerts /\ ~\E p \in picked : SameAlert(b, p)
  <2>1. CASE b \in created
    BY <1>3, <1>4, <2>1
  <2>2. CASE b \in kept
    BY <1>5, <2>2
  <2> QED BY <1>2, <2>1, <2>2
<1>7. \A a \in alerts : (~\E p \in picked : SameAlert(a, p)) => a \in alerts'
  BY <1>2
<1>8. ASSUME NEW w \in wants, w.verdict = "active", ActiveOf(AlertKey(w)) = {}
      PROVE  \E b \in alerts' : AlertKey(b) = AlertKey(w) /\ b.status = "open"
  <2>1. NewAlert(w) \in alerts'
    BY <1>2, <1>3, <1>8
  <2> QED BY <1>4, <2>1
<1> QED BY <1>2, <1>6, <1>7, <1>8

\* An alert that is due is active afterwards, unless it has ever been doubled one that
\* is not due is not, and one on which there is no opinion is as before.
Heeded(wants, key) ==
    /\ Verdicts(wants, key) = {"active"} => ActiveOf(key)' # {}
    /\ Verdicts(wants, key) = {"resolved"} /\ key \notin Doubles(alerts) => ActiveOf(key)' = {}
    /\ Verdicts(wants, key) \subseteq {"none"} => (ActiveOf(key)' = {} <=> ActiveOf(key) = {})

LEMMA VerdictsAreHeeded ==
    ASSUME AlertsHold, NEW wants \in SUBSET WantRows, Reconciles(wants, ActiveAlerts), NEW key
    PROVE  Heeded(wants, key)
<1>1. PICK picked \in Resolvable(wants, ActiveAlerts) :
              /\ doubled' = doubled \cup Doubles(alerts')
              /\ \A b \in alerts' :
                    \/ \E w \in wants : /\ w.verdict = "active" /\ ActiveOf(AlertKey(w)) = {}
                                        /\ AlertKey(b) = AlertKey(w)
                    \/ b.status = "resolved"
                    \/ b \in alerts /\ ~\E p \in picked : SameAlert(b, p)
              /\ \A a \in alerts : (~\E p \in picked : SameAlert(a, p)) => a \in alerts'
              /\ \A w \in wants : w.verdict = "active" /\ ActiveOf(AlertKey(w)) = {} =>
                    \E b \in alerts' : AlertKey(b) = AlertKey(w) /\ b.status = "open"
  BY ReconciledRows
<1> DEFINE keys == {AlertKey(w) : w \in {v \in wants : v.verdict = "resolved"}}
           found == {a \in ActiveAlerts : AlertKey(a) \in keys}
<1>2. /\ picked \subseteq found
      /\ \A k \in keys : Cardinality(Of(picked, k)) = IF Of(found, k) = {} THEN 0 ELSE 1
  BY DEF Resolvable
<1>3. ActiveAlerts' = {b \in alerts' : b.status \in {"open", "acknowledged"}}
  BY DEF ActiveAlerts
<1>4. \A rows, k : Of(rows, k) = {a \in rows : AlertKey(a) = k}
  BY DEF Of
<1>5. \A w \in wants : AlertKey(w) = key => w.verdict \in Verdicts(wants, key)
  BY <1>4 DEF Verdicts
<1>6. \A p \in picked : p \in ActiveAlerts /\ AlertKey(p) \in keys
  BY <1>2
<1>7. key \in keys => "resolved" \in Verdicts(wants, key)
  BY <1>5
<1>8. ASSUME key \notin keys, ActiveOf(key) # {}
      PROVE  ActiveOf(key)' # {}
  <2>1. PICK a \in ActiveAlerts : AlertKey(a) = key
    BY <1>4, <1>8 DEF ActiveOf
  <2>2. ~\E p \in picked : SameAlert(a, p)
    BY <1>6, <1>8, <2>1 DEF SameAlert
  <2>3. a \in alerts /\ a.status \in {"open", "acknowledged"}
    BY <2>1 DEF ActiveAlerts
  <2>4. a \in ActiveAlerts'
    BY <1>1, <1>3, <2>2, <2>3
  <2> QED BY <1>4, <2>1, <2>4 DEF ActiveOf
<1>9. ASSUME \A w \in wants : AlertKey(w) = key => w.verdict # "active",
             NEW b \in ActiveAlerts', AlertKey(b) = key
      PROVE  b \in ActiveAlerts /\ ~\E p \in picked : SameAlert(b, p)
  <2>1. b \in alerts' /\ b.status \in {"open", "acknowledged"}
    BY <1>3
  <2>2. b \in alerts /\ ~\E p \in picked : SameAlert(b, p)
    BY <1>1, <1>9, <2>1
  <2> QED BY <2>1, <2>2 DEF ActiveAlerts
<1>10. ASSUME Verdicts(wants, key) = {"active"}
       PROVE  ActiveOf(key)' # {}
  <2>1. CASE ActiveOf(key) # {}
    BY <1>7, <1>8, <1>10, <2>1
  <2>2. CASE ActiveOf(key) = {}
    <3>1. PICK w \in wants : AlertKey(w) = key /\ w.verdict = "active"
      BY <1>4, <1>10 DEF Verdicts
    <3>2. PICK b \in alerts' : AlertKey(b) = key /\ b.status = "open"
      BY <1>1, <2>2, <3>1
    <3> QED BY <1>3, <1>4, <3>2 DEF ActiveOf
  <2> QED BY <2>1, <2>2
<1>11. ASSUME Verdicts(wants, key) = {"resolved"}, key \notin Doubles(alerts)
       PROVE  ActiveOf(key)' = {}
  <2> SUFFICES ASSUME NEW b \in ActiveAlerts', AlertKey(b) = key
               PROVE  FALSE
    BY <1>4 DEF ActiveOf
  <2>1. b \in ActiveAlerts /\ ~\E p \in picked : SameAlert(b, p)
    BY <1>5, <1>9, <1>11
  <2>2. key \in keys
    BY <1>4, <1>11 DEF Verdicts
  <2>3. b \in Of(found, key)
    BY <1>4, <2>1, <2>2
  <2>4. Cardinality(Of(picked, key)) = 1
    BY <1>2, <2>2, <2>3
  <2>5. Of(picked, key) # {}
    BY <2>4, FS_EmptySet
  <2>6. PICK p \in picked : AlertKey(p) = key
    BY <1>4, <2>5
  <2>7. SameAlert(b, p)
    BY <1>6, <1>11, <2>1, <2>6, OneActive
  <2> QED BY <2>1, <2>6, <2>7
<1>12. ASSUME Verdicts(wants, key) \subseteq {"none"}
       PROVE  ActiveOf(key)' = {} <=> ActiveOf(key) = {}
  <2>1. ASSUME ActiveOf(key) = {}
        PROVE  ActiveOf(key)' = {}
    BY <1>4, <1>5, <1>9, <1>12, <2>1 DEF ActiveOf
  <2> QED BY <1>7, <1>8, <1>12, <2>1
<1> QED BY <1>10, <1>11, <1>12 DEF Heeded

-----------------------------------------------------------------------------
(***************************************************************************)
(* The verdicts of a transaction.                                          *)
(***************************************************************************)
DistinctIds(rows) == \A a, b \in rows : a.id = b.id => a = b

KeyOf(kind, row) == <<kind, row.id, row.server>>

LEMMA WantFields ==
    ASSUME NEW kind, NEW row, NEW verdict
    PROVE  /\ AlertKey(Want(kind, row, verdict)) = KeyOf(kind, row)
           /\ Want(kind, row, verdict).verdict = verdict
  BY DEF Want, AlertKey, KeyOf

LEMMA VerdictMembers ==
    ASSUME NEW wants, NEW key
    PROVE  \A v : v \in Verdicts(wants, key) <=>
                    \E w \in wants : AlertKey(w) = key /\ w.verdict = v
  BY DEF Verdicts, Of

LEMMA VerdictsOfTool ==
    ASSUME NEW row, NEW ruleSet, NEW lost, NEW key
    PROVE  /\ \A k \in ToolAlertKinds : key = KeyOf(k, row) =>
                 Verdicts(ToolWants(row, ruleSet, lost), key)
                    = {ToolAlertOpinion(k, row, ruleSet, lost)}
           /\ (\A k \in ToolAlertKinds : key # KeyOf(k, row)) =>
                 Verdicts(ToolWants(row, ruleSet, lost), key) = {}
<1>1. ToolWants(row, ruleSet, lost) =
         {Want(k, row, ToolAlertOpinion(k, row, ruleSet, lost)) : k \in ToolAlertKinds}
  BY DEF ToolWants
<1>2. Of(ToolWants(row, ruleSet, lost), key) =
         {w \in ToolWants(row, ruleSet, lost) : AlertKey(w) = key}
  BY DEF Of
<1>3. \A k, j : KeyOf(k, row) = KeyOf(j, row) => k = j
  BY DEF KeyOf
<1>4. ASSUME NEW k \in ToolAlertKinds, key = KeyOf(k, row)
      PROVE  Verdicts(ToolWants(row, ruleSet, lost), key)
                = {ToolAlertOpinion(k, row, ruleSet, lost)}
  <2>1. PICK w : w = Want(k, row, ToolAlertOpinion(k, row, ruleSet, lost))
    OBVIOUS
  <2>2. w.verdict = ToolAlertOpinion(k, row, ruleSet, lost) /\ AlertKey(w) = key
    BY <1>4, <2>1, WantFields
  <2>3. Of(ToolWants(row, ruleSet, lost), key) = {w}
    BY <1>1, <1>2, <1>3, <1>4, <2>1, <2>2, WantFields
  <2> QED BY <2>2, <2>3 DEF Verdicts
<1>5. ASSUME \A k \in ToolAlertKinds : key # KeyOf(k, row)
      PROVE  Verdicts(ToolWants(row, ruleSet, lost), key) = {}
  BY <1>1, <1>5, WantFields, VerdictMembers
<1> QED BY <1>4, <1>5

LEMMA VerdictsOfUnion ==
    ASSUME NEW A, NEW B, NEW key
    PROVE  Verdicts(A \cup B, key) = Verdicts(A, key) \cup Verdicts(B, key)
  BY DEF Verdicts, Of

AllWanted(wants, wanted, rows) ==
    \A w : w \in wants <=> \E t \in rows : w \in wanted[t]

\* Of many tools with their own wants, a key concerns the one it names.
LEMMA VerdictsOfMany ==
    ASSUME NEW rows, NEW wanted, NEW wants, NEW key, AllWanted(wants, wanted, rows)
    PROVE  \A row \in rows :
              (\A other \in rows \ {row} : Verdicts(wanted[other], key) = {}) =>
              Verdicts(wants, key) = Verdicts(wanted[row], key)
<1>1. \A v : v \in Verdicts(wants, key) <=> \E t \in rows : v \in Verdicts(wanted[t], key)
  BY VerdictMembers DEF AllWanted
<1>2. ASSUME NEW row \in rows, \A other \in rows \ {row} : Verdicts(wanted[other], key) = {}
      PROVE  Verdicts(wants, key) = Verdicts(wanted[row], key)
  <2>1. \A v : v \in Verdicts(wants, key) <=> v \in Verdicts(wanted[row], key)
    BY <1>1, <1>2
  <2> QED BY <2>1
<1> QED BY <1>2

\* The wants of many tools; of each it is told whether it has lost its coverage.
WantsOf(rows, ruleSet, lost) == UNION {ToolWants(t, ruleSet, lost[t]) : t \in rows}

LEMMA VerdictsOfTools ==
    ASSUME NEW rows, DistinctIds(rows), NEW ruleSet, NEW lost, NEW wants,
           wants = WantsOf(rows, ruleSet, lost)
    PROVE  /\ \A row \in rows : \A k \in ToolAlertKinds :
                 Verdicts(wants, KeyOf(k, row)) = {ToolAlertOpinion(k, row, ruleSet, lost[row])}
           /\ \A t : (\A row \in rows : row.id # t.id) =>
                 \A k : Verdicts(wants, KeyOf(k, t)) = {}
           /\ \A t : \A k : k \notin ToolAlertKinds => Verdicts(wants, KeyOf(k, t)) = {}
<1>8. PICK wanted : wanted = [t \in rows |-> ToolWants(t, ruleSet, lost[t])]
  OBVIOUS
<1>1. AllWanted(wants, wanted, rows)
  BY <1>8 DEF AllWanted, WantsOf
<1>2. ASSUME NEW k, NEW t
      PROVE  \A row \in rows : row.id # t.id \/ k \notin ToolAlertKinds =>
                Verdicts(wanted[row], KeyOf(k, t)) = {}
  <2>1. \A row \in rows : \A j \in ToolAlertKinds :
           row.id # t.id \/ k \notin ToolAlertKinds => KeyOf(k, t) # KeyOf(j, row)
    BY DEF KeyOf
  <2> QED BY <1>8, <2>1, VerdictsOfTool
<1>3. ASSUME NEW row \in rows, NEW k \in ToolAlertKinds
      PROVE  Verdicts(wants, KeyOf(k, row)) = {ToolAlertOpinion(k, row, ruleSet, lost[row])}
  <2>1. \A other \in rows \ {row} : other.id # row.id
    BY DEF DistinctIds
  <2>2. \A other \in rows \ {row} : Verdicts(wanted[other], KeyOf(k, row)) = {}
    BY <1>2, <2>1
  <2>9. PICK key : key = KeyOf(k, row)
    OBVIOUS
  <2>3. Verdicts(wants, key) = Verdicts(wanted[row], key)
    BY <1>1, <2>2, <2>9, VerdictsOfMany
  <2> QED BY <1>8, <2>3, <2>9, VerdictsOfTool
<1>4. ASSUME NEW t, NEW k, (\A row \in rows : row.id # t.id) \/ k \notin ToolAlertKinds
      PROVE  Verdicts(wants, KeyOf(k, t)) = {}
  <2>1. \A row \in rows : Verdicts(wanted[row], KeyOf(k, t)) = {}
    BY <1>2, <1>4
  <2>9. PICK key : key = KeyOf(k, t)
    OBVIOUS
  <2>2. \A row \in rows : Verdicts(wanted[row], key) = {}
    BY <2>1, <2>9
  <2>3. ASSUME NEW w \in wants
        PROVE  AlertKey(w) # key
    <3>1. PICK row \in rows : w \in wanted[row]
      BY <1>1 DEF AllWanted
    <3>2. AlertKey(w) = key => w.verdict \in Verdicts(wanted[row], key)
      BY <3>1 DEF Verdicts, Of
    <3> QED BY <2>2, <3>2
  <2>4. Verdicts(wants, key) = {}
    BY <2>3 DEF Verdicts, Of
  <2> QED BY <2>4, <2>9
<1> QED BY <1>3, <1>4

LEMMA VerdictsOfRow ==
    ASSUME NEW row, NEW ruleSet, NEW wants, NEW key,
           wants = {Want(k, row, RiskAlertOpinion(k, row, RiskRecord(row, ruleSet))) :
                       k \in RiskAlertKinds}
    PROVE  /\ \A k \in RiskAlertKinds : key = KeyOf(k, row) =>
                 Verdicts(wants, key) = {RiskAlertOpinion(k, row, RiskRecord(row, ruleSet))}
           /\ (\A k \in RiskAlertKinds : key # KeyOf(k, row)) => Verdicts(wants, key) = {}
<1>2. Of(wants, key) = {w \in wants : AlertKey(w) = key}
  BY DEF Of
<1>3. \A k, j : KeyOf(k, row) = KeyOf(j, row) => k = j
  BY DEF KeyOf
<1>4. ASSUME NEW k \in RiskAlertKinds, key = KeyOf(k, row)
      PROVE  Verdicts(wants, key) = {RiskAlertOpinion(k, row, RiskRecord(row, ruleSet))}
  <2>1. PICK w : w = Want(k, row, RiskAlertOpinion(k, row, RiskRecord(row, ruleSet)))
    OBVIOUS
  <2>2. /\ w.verdict = RiskAlertOpinion(k, row, RiskRecord(row, ruleSet))
        /\ AlertKey(w) = key
    BY <1>4, <2>1, WantFields
  <2>3. Of(wants, key) = {w}
    BY <1>2, <1>3, <1>4, <2>1, <2>2, WantFields
  <2> QED BY <2>2, <2>3 DEF Verdicts
<1>5. ASSUME \A k \in RiskAlertKinds : key # KeyOf(k, row)
      PROVE  Verdicts(wants, key) = {}
  BY <1>5, WantFields, VerdictMembers
<1> QED BY <1>4, <1>5

LEMMA VerdictsOfRows ==
    ASSUME NEW rows, DistinctIds(rows), NEW ruleSet
    PROVE  /\ \A row \in rows : \A k \in RiskAlertKinds :
                 Verdicts(RiskWants(rows, ruleSet), KeyOf(k, row)) =
                    {RiskAlertOpinion(k, row, RiskRecord(row, ruleSet))}
           /\ \A t : \A k : k \notin RiskAlertKinds =>
                 Verdicts(RiskWants(rows, ruleSet), KeyOf(k, t)) = {}
<1> DEFINE Wanted(t) == {Want(k, t, RiskAlertOpinion(k, t, RiskRecord(t, ruleSet))) :
                            k \in RiskAlertKinds}
<1>8. PICK wanted : wanted = [t \in rows |-> Wanted(t)]
  OBVIOUS
<1>9. PICK wants : wants = RiskWants(rows, ruleSet)
  OBVIOUS
<1>1. AllWanted(wants, wanted, rows)
  BY <1>8, <1>9 DEF RiskWants, AllWanted
<1>4. ASSUME NEW row \in rows, NEW key
      PROVE  /\ \A k \in RiskAlertKinds : key = KeyOf(k, row) =>
                   Verdicts(wanted[row], key) =
                      {RiskAlertOpinion(k, row, RiskRecord(row, ruleSet))}
             /\ (\A k \in RiskAlertKinds : key # KeyOf(k, row)) =>
                   Verdicts(wanted[row], key) = {}
  <2>1. wanted[row] = Wanted(row)
    BY <1>8
  <2> QED BY <2>1, VerdictsOfRow
<1>5. ASSUME NEW k, NEW t
      PROVE  \A row \in rows : row.id # t.id \/ k \notin RiskAlertKinds =>
                Verdicts(wanted[row], KeyOf(k, t)) = {}
  <2>1. \A row \in rows : \A j \in RiskAlertKinds :
           row.id # t.id \/ k \notin RiskAlertKinds => KeyOf(k, t) # KeyOf(j, row)
    BY DEF KeyOf
  <2> QED BY <1>4, <2>1
<1>6. ASSUME NEW row \in rows, NEW k \in RiskAlertKinds
      PROVE  Verdicts(wants, KeyOf(k, row)) = {RiskAlertOpinion(k, row, RiskRecord(row, ruleSet))}
  <2>1. \A other \in rows \ {row} : other.id # row.id
    BY DEF DistinctIds
  <2>2. \A other \in rows \ {row} : Verdicts(wanted[other], KeyOf(k, row)) = {}
    BY <1>5, <2>1
  <2>9. PICK key : key = KeyOf(k, row)
    OBVIOUS
  <2>3. Verdicts(wants, key) = Verdicts(wanted[row], key)
    BY <1>1, <2>2, <2>9, VerdictsOfMany
  <2> QED BY <1>4, <1>9, <2>3, <2>9
<1>7. ASSUME NEW t, NEW k, k \notin RiskAlertKinds
      PROVE  Verdicts(wants, KeyOf(k, t)) = {}
  <2>1. \A row \in rows : Verdicts(wanted[row], KeyOf(k, t)) = {}
    BY <1>5, <1>7
  <2>9. PICK key : key = KeyOf(k, t)
    OBVIOUS
  <2>2. \A row \in rows : Verdicts(wanted[row], key) = {}
    BY <2>1, <2>9
  <2>3. Verdicts(wants, key) = {}
    BY <1>1, <2>2, VerdictMembers DEF AllWanted
  <2> QED BY <2>3, <2>9
<1> QED BY <1>6, <1>7, <1>9

-----------------------------------------------------------------------------
(***************************************************************************)
(* The projections of a tool agree with the catalogue.                     *)
(***************************************************************************)
\* An alert is active when it is due and, unless it has ever been doubled, only then.
Agrees(kind, t, due) ==
    /\ due => IsActive(kind, t)
    /\ Single(kind, t) /\ IsActive(kind, t) => due

\* What reconcile_tool_pending is about.
ToolAgrees(t) ==
    LET tool == tools[t] IN
    /\ Agrees("high_risk_unreviewed", t, ~tool.reviewed /\ tool.risk \in HighRisks)
    /\ Agrees("ungoverned_tool", t, ~(tool.reviewed /\ IsCovered(tool, EnabledRules)))
    /\ Single("policy_coverage_lost", t) /\ IsActive("policy_coverage_lost", t)
          => ~IsCovered(tool, EnabledRules)

\* What the reconciliation of the risk register is about.
RiskAgrees(t) ==
    LET tool == tools[t]
        record == RiskRecord(tool, EnabledRules)
    IN  /\ records[t] = record
        /\ Agrees("compliance_non_compliant", t, record.compliance = "non_compliant")
        /\ Agrees("critical_policy_coverage_lost", t,
                  tool.risk = "critical" /\ record.coverage = "uncovered")
        /\ Agrees("critical_tool_unreviewed", t,
                  tool.risk = "critical" /\ record.governance = "unreviewed")

\* A transaction that gives the alerts of the keys these verdicts.
Reconciling(wants) ==
    /\ AlertsHold /\ Doubles(alerts) \subseteq doubled
    /\ wants \subseteq WantRows /\ Reconciles(wants, ActiveAlerts)

LEMMA DoublesAreNoted ==
    ASSUME NEW wants, NEW active, Reconciles(wants, active)
    PROVE  doubled \subseteq doubled' /\ Doubles(alerts)' \subseteq doubled'
  BY DEF Reconciles, SetAlerts, Doubles

LEMMA AlertFollows ==
    ASSUME NEW wants, Reconciling(wants), NEW kind, NEW t, NEW key,
           key = <<kind, t, tools'[t].server>>
    PROVE  /\ \A due \in BOOLEAN : Verdicts(wants, key) = {Opinion(due)} =>
                 /\ due => IsActive(kind, t)'
                 /\ Single(kind, t)' /\ IsActive(kind, t)' => due
           /\ Verdicts(wants, key) = {} /\ tools'[t] = tools[t] =>
                 /\ Single(kind, t)' => Single(kind, t)
                 /\ IsActive(kind, t)' <=> IsActive(kind, t)
<1>1. Heeded(wants, key)
  BY VerdictsAreHeeded DEF Reconciling
<1>2. doubled \subseteq doubled' /\ Doubles(alerts) \subseteq doubled
  BY DoublesAreNoted DEF Reconciling
<1>3. /\ Single(kind, t)' <=> key \notin doubled'
      /\ IsActive(kind, t)' <=> ActiveOf(key)' # {}
  BY DEF Single, IsActive, ActiveOf, Of
<1>4. tools'[t] = tools[t] =>
         /\ Single(kind, t) <=> key \notin doubled
         /\ IsActive(kind, t) <=> ActiveOf(key) # {}
  BY DEF Single, IsActive, ActiveOf
<1>5. ASSUME NEW due \in BOOLEAN, Verdicts(wants, key) = {Opinion(due)}
      PROVE  /\ due => IsActive(kind, t)'
             /\ Single(kind, t)' /\ IsActive(kind, t)' => due
  <2>2. CASE due
    BY <1>1, <1>3, <1>5, <2>2 DEF Heeded, Opinion
  <2>3. CASE ~due
    <3>1. Single(kind, t)' => key \notin Doubles(alerts)
      BY <1>2, <1>3
    <3> QED BY <1>1, <1>3, <1>5, <2>3, <3>1 DEF Heeded, Opinion
  <2> QED BY <2>2, <2>3
<1>6. ASSUME Verdicts(wants, key) = {}, tools'[t] = tools[t]
      PROVE  /\ Single(kind, t)' => Single(kind, t)
             /\ IsActive(kind, t)' <=> IsActive(kind, t)
  BY <1>1, <1>2, <1>3, <1>4, <1>6 DEF Heeded
<1> QED BY <1>5, <1>6

\* The transaction has given its verdict on a tool with the rules as they are.
LEMMA ToolFollows ==
    ASSUME NEW wants, Reconciling(wants), NEW t \in Tools, CatalogueHolds',
           NEW row, row = tools'[t], NEW ruleSet, ruleSet = EnabledRules',
           NEW lost \in BOOLEAN, lost => ~IsCovered(row, ruleSet),
           \A k \in ToolAlertKinds :
              Verdicts(wants, KeyOf(k, row)) = {ToolAlertOpinion(k, row, ruleSet, lost)}
    PROVE  ToolAgrees(t)'
<1>1. \A k : KeyOf(k, row) = <<k, t, tools'[t].server>>
  BY DEF KeyOf, CatalogueHolds
<1>2. Agrees("high_risk_unreviewed", t, ~row.reviewed /\ row.risk \in HighRisks)'
  <2> PICK key : key = <<"high_risk_unreviewed", t, tools'[t].server>>
    OBVIOUS
  <2> PICK due \in BOOLEAN : due <=> ~row.reviewed /\ row.risk \in HighRisks
    OBVIOUS
  <2>1. Verdicts(wants, key) = {Opinion(due)}
    BY <1>1 DEF ToolAlertKinds, ToolAlertOpinion, Opinion
  <2>2. /\ due => IsActive("high_risk_unreviewed", t)'
        /\ Single("high_risk_unreviewed", t)' /\ IsActive("high_risk_unreviewed", t)' => due
    BY <2>1, AlertFollows
  <2> QED BY <2>2 DEF Agrees
<1>3. Agrees("ungoverned_tool", t, ~(row.reviewed /\ IsCovered(row, ruleSet)))'
  <2> PICK key : key = <<"ungoverned_tool", t, tools'[t].server>>
    OBVIOUS
  <2> PICK due \in BOOLEAN : due <=> ~(row.reviewed /\ IsCovered(row, ruleSet))
    OBVIOUS
  <2>1. Verdicts(wants, key) = {Opinion(due)}
    BY <1>1 DEF ToolAlertKinds, ToolAlertOpinion, Opinion
  <2>2. /\ due => IsActive("ungoverned_tool", t)'
        /\ Single("ungoverned_tool", t)' /\ IsActive("ungoverned_tool", t)' => due
    BY <2>1, AlertFollows
  <2> QED BY <2>2 DEF Agrees
<1>4. ASSUME Single("policy_coverage_lost", t)', IsActive("policy_coverage_lost", t)',
             IsCovered(row, ruleSet)
      PROVE  FALSE
  <2> PICK key : key = <<"policy_coverage_lost", t, tools'[t].server>>
    OBVIOUS
  <2>1. Verdicts(wants, key) = {Opinion(FALSE)}
    BY <1>1, <1>4 DEF ToolAlertKinds, ToolAlertOpinion, Opinion
  <2> QED BY <1>4, <2>1, AlertFollows
<1>5. /\ Agrees("high_risk_unreviewed", t, ~tools[t].reviewed /\ tools[t].risk \in HighRisks)'
      /\ Agrees("ungoverned_tool", t, ~(tools[t].reviewed /\ IsCovered(tools[t], EnabledRules)))'
  BY <1>2, <1>3 DEF Agrees
<1> QED BY <1>4, <1>5 DEF ToolAgrees

LEMMA RiskFollows ==
    ASSUME NEW wants, Reconciling(wants), NEW t \in Tools, CatalogueHolds',
           NEW row, row = tools'[t], NEW ruleSet, ruleSet = EnabledRules',
           NEW record, record = RiskRecord(row, ruleSet), records'[t] = record,
           \A k \in RiskAlertKinds :
              Verdicts(wants, KeyOf(k, row)) = {RiskAlertOpinion(k, row, record)}
    PROVE  RiskAgrees(t)'
<1>1. \A k : KeyOf(k, row) = <<k, t, tools'[t].server>>
  BY DEF KeyOf, CatalogueHolds
<1>2. Agrees("compliance_non_compliant", t, record.compliance = "non_compliant")'
  <2> PICK key : key = <<"compliance_non_compliant", t, tools'[t].server>>
    OBVIOUS
  <2> PICK due \in BOOLEAN : due <=> record.compliance = "non_compliant"
    OBVIOUS
  <2>1. Verdicts(wants, key) = {Opinion(due)}
    BY <1>1 DEF RiskAlertKinds, RiskAlertOpinion, Opinion
  <2>2. /\ due => IsActive("compliance_non_compliant", t)'
        /\ Single("compliance_non_compliant", t)' /\ IsActive("compliance_non_compliant", t)' => due
    BY <2>1, AlertFollows
  <2> QED BY <2>2 DEF Agrees
<1>3. Agrees("critical_policy_coverage_lost", t,
             row.risk = "critical" /\ record.coverage = "uncovered")'
  <2> PICK key : key = <<"critical_policy_coverage_lost", t, tools'[t].server>>
    OBVIOUS
  <2> PICK due \in BOOLEAN : due <=> row.risk = "critical" /\ record.coverage = "uncovered"
    OBVIOUS
  <2>1. Verdicts(wants, key) = {Opinion(due)}
    BY <1>1 DEF RiskAlertKinds, RiskAlertOpinion, Opinion
  <2>2. /\ due => IsActive("critical_policy_coverage_lost", t)'
        /\ Single("critical_policy_coverage_lost", t)' /\ IsActive("critical_policy_coverage_lost", t)' => due
    BY <2>1, AlertFollows
  <2> QED BY <2>2 DEF Agrees
<1>4. Agrees("critical_tool_unreviewed", t,
             row.risk = "critical" /\ record.governance = "unreviewed")'
  <2> PICK key : key = <<"critical_tool_unreviewed", t, tools'[t].server>>
    OBVIOUS
  <2> PICK due \in BOOLEAN : due <=> row.risk = "critical" /\ record.governance = "unreviewed"
    OBVIOUS
  <2>1. Verdicts(wants, key) = {Opinion(due)}
    BY <1>1 DEF RiskAlertKinds, RiskAlertOpinion, Opinion
  <2>2. /\ due => IsActive("critical_tool_unreviewed", t)'
        /\ Single("critical_tool_unreviewed", t)' /\ IsActive("critical_tool_unreviewed", t)' => due
    BY <2>1, AlertFollows
  <2> QED BY <2>2 DEF Agrees
<1> QED BY <1>2, <1>3, <1>4 DEF RiskAgrees, Agrees

\* The transaction says nothing of the alerts of a tool.
LEMMA ToolUntouched ==
    ASSUME NEW wants, Reconciling(wants), NEW t \in Tools, CatalogueHolds,
           tools'[t] = tools[t], rules' = rules, ToolAgrees(t),
           \A k \in ToolAlertKinds : Verdicts(wants, KeyOf(k, tools[t])) = {}
    PROVE  ToolAgrees(t)'
<1>1. \A k : KeyOf(k, tools[t]) = <<k, t, tools'[t].server>>
  BY DEF KeyOf, CatalogueHolds
<1>2. \A k \in ToolAlertKinds :
         /\ Single(k, t)' => Single(k, t)
         /\ IsActive(k, t)' <=> IsActive(k, t)
  BY <1>1, AlertFollows
<1>3. EnabledRules' = EnabledRules
  BY DEF EnabledRules
<1> QED BY <1>2, <1>3 DEF ToolAgrees, Agrees, ToolAlertKinds

\* Nothing has changed that the projections of a tool depend on.
LEMMA AgreementKept ==
    ASSUME NEW t, tools'[t] = tools[t], rules' = rules, UNCHANGED <<alerts, doubled, records>>
    PROVE  /\ ToolAgrees(t) => ToolAgrees(t)'
           /\ RiskAgrees(t) => RiskAgrees(t)'
<1>1. EnabledRules' = EnabledRules
  BY DEF EnabledRules
<1>2. \A k : (Single(k, t)' <=> Single(k, t)) /\ (IsActive(k, t)' <=> IsActive(k, t))
  BY DEF Single, IsActive, Of, ActiveAlerts
<1>3. ToolAgrees(t) => ToolAgrees(t)'
  BY <1>1, <1>2 DEF ToolAgrees, Agrees
<1>4. PICK record : record = RiskRecord(tools[t], EnabledRules)
  OBVIOUS
<1>5. record = RiskRecord(tools'[t], EnabledRules')
  BY <1>1, <1>4
<1>6. RiskAgrees(t) => RiskAgrees(t)'
  BY <1>2, <1>4, <1>5 DEF RiskAgrees, Agrees
<1> QED BY <1>3, <1>6

\* The record of a tool is what its rules and its row make it, after a transaction that has
\* read the records as they are.
LEMMA RegisterFollows ==
    ASSUME RegisterHolds, NEW v, ViewHolds(v), v.records = records, DistinctIds(v.tools),
           NEW row \in v.tools
    PROVE  RegisterAfter(v)[row.id] = RiskRecord(row, v.rules)
<1>1. PICK t : t = row.id
  OBVIOUS
<1>2. row \in ToolRows /\ t \in Tools
  BY <1>1 DEF ViewHolds, ToolRows
<1>3. PICK own : own = {o \in v.tools : o.id = t}
  OBVIOUS
<1>4. own = {row} /\ row = CHOOSE o \in own : TRUE
  BY <1>1, <1>3 DEF DistinctIds
<1>5. PICK new : new = RiskRecord(row, v.rules)
  OBVIOUS
<1>6. RegisterAfter(v)[t] = IF v.records[t] = None THEN new
                            ELSE IF records[t] = None THEN None
                            ELSE NetChange(records[t], v.records[t], new)
  BY <1>2, <1>3, <1>4, <1>5 DEF RegisterAfter
<1>7. new \in RecordRows
  BY <1>2, <1>5, RiskRecordType
<1>8. ASSUME records[t] # None
      PROVE  NetChange(records[t], records[t], new) = new
  <2>1. records[t] \in RecordRows
    BY <1>2, <1>8 DEF RegisterHolds
  <2>2. NetChange(records[t], records[t], new) =
           [f \in {"risk", "governance", "coverage", "compliance"} |->
               IF new[f] # records[t][f] THEN new[f] ELSE records[t][f]]
    BY <2>1 DEF NetChange, RecordRows
  <2>3. new = [f \in {"risk", "governance", "coverage", "compliance"} |-> new[f]]
    BY <1>7 DEF RecordRows
  <2> QED BY <2>2, <2>3
<1> QED BY <1>1, <1>5, <1>6, <1>8

-----------------------------------------------------------------------------
(***************************************************************************)
(* What makes the projections agree: who still has to repair what.         *)
(***************************************************************************)
RepairPhases == {"reconcile", "ruled", "read"}

\* A request that still has to repair all tools, after a change of the rules, or the tool
\* it has written.
Repairs(q, t) ==
    /\ q.pc \in RepairPhases
    /\ q.op \in RuleOperations \/ (q.turn = "tool" /\ q.target = t)

AwaitsRepair(t) == \E r \in Requests : Repairs(requests[r], t)

\* What is trusted agrees or is going to, and nothing that overlaps can disturb it.
TrustedTools ==
    trusted => \A t \in Discovered : AwaitsRepair(t) \/ (ToolAgrees(t) /\ RiskAgrees(t))

TrustedRequests ==
    trusted => \A r \in Requests : InProgress(r) =>
        requests[r].alone /\ requests[r].op \notin AlertOperations

\* The first reconciliation of an operation on a rule, if it is alone, has repaired the
\* alerts of tools; the second one is about the register.
HalfWay(q) == q.pc \in RepairPhases /\ q.op \in RuleOperations /\ q.turn = "risk"

HalfRepaired(r) ==
    requests[r].alone /\ HalfWay(requests[r]) => \A t \in Discovered : ToolAgrees(t)

\* The rows that a review, and a synchronization, will find discovered when they commit.
ReviewedRows(q) ==
    {t \in DiscoveredRows : t.id # q.target} \cup
    {o \in {With(q.seen, q.body)} : o.id \in Discovered}

SyncedRowsOf(q) ==
    {Updated(q.body.match[n], q.target, q.body.offer[n]) :
        n \in {m \in DOMAIN q.body.match : q.body.match[m] # None}}

SyncedView(q) ==
    /\ agents[LinkedAgent(q.seen, q.target)] \in {"absent", "live"}
    /\ q.view.tools =
          {t \in DiscoveredRows : \A o \in SyncedRowsOf(q) \cup q.body.gone : o.id # t.id}
          \cup {o \in SyncedRowsOf(q) : agents[o.agent] = "live" /\ ~servers[q.target].deleted}

\* What a request that is alone has read is as it was.
KnowsPosture(q) ==
    /\ q.pc \in {"ruled", "read"} => q.view.rules = EnabledRules
    /\ q.pc = "read" => q.view.active = ActiveAlerts
    /\ q.pc = "read" /\ q.turn \in {"all", "risk", "tool"} => q.view.tools = DiscoveredRows
    /\ q.pc = "read" /\ q.turn = "tool" => q.seen = tools[q.target]
    /\ q.pc \in RepairPhases /\ q.turn = "review" => q.seen = tools[q.target]
    /\ q.pc = "read" /\ q.turn = "review" => q.view.tools = ReviewedRows(q)
    /\ q.pc = "read" /\ q.turn = "sync" => SyncedView(q)

\* A tool is of an agent that there is, or was.
LinksHold == \A t \in Tools : tools[t].state # "absent" => agents[tools[t].agent] # "absent"

PostureInv ==
    /\ Doubles(alerts) \subseteq doubled /\ LinksHold
    /\ \A r \in Requests :
          /\ requests[r].alone /\ InProgress(r) => KnowsPosture(requests[r])
          /\ HalfRepaired(r)
    /\ TrustedRequests /\ TrustedTools

\* A step of a request leaves no other one alone.
LEMMA OthersAreNotAlone ==
    ASSUME GovernanceInv, NEW r \in Requests, InProgress(r),
           NEW q \in Requests \ {r}, InProgress(q)
    PROVE  ~requests[q].alone
<1>1. r \in Others(q)
  BY DEF Others
<1> QED BY <1>1 DEF GovernanceInv, AloneHolds

LEMMA PostureKeptByStep ==
    ASSUME GovernanceInv, PostureInv, NEW r \in Requests, InProgress(r), NEW next,
           requests' = [requests EXCEPT ![r] = next],
           next.pc \notin Ended =>
              next.op = requests[r].op /\ next.alone = requests[r].alone,
           Doubles(alerts)' \subseteq doubled', LinksHold',
           trusted' => trusted \/ (requests[r].alone /\ next.pc \in Ended),
           next.pc \notin Ended /\ requests[r].alone => KnowsPosture(requests[r])',
           requests[r].alone /\ HalfWay(next) => \A t \in Discovered' : ToolAgrees(t)',
           TrustedTools'
    PROVE  PostureInv'
<1>1. RequestsTyped
  BY DEF GovernanceInv, RequestsTyped, RequestHolds
<1>2. /\ requests'[r] = next
      /\ \A q \in Requests \ {r} : requests'[q] = requests[q]
      /\ \A q \in Requests \ {r} : InProgress(q)' <=> InProgress(q)
  BY <1>1, OthersKept
<1>3. InProgress(r)' <=> next.pc \notin Ended
  BY <1>2 DEF InProgress
<1>4. ASSUME NEW q \in Requests
      PROVE  /\ requests'[q].alone /\ InProgress(q)' => KnowsPosture(requests[q])'
             /\ HalfRepaired(q)'
  <2>1. CASE q = r
    <3>1. HalfWay(next) => next.pc \notin Ended
      BY DEF HalfWay, RepairPhases, Ended
    <3> QED BY <1>2, <1>3, <2>1, <3>1 DEF HalfRepaired
  <2>2. CASE q # r
    <3>1. requests'[q].alone => ~InProgress(q) /\ ~InProgress(q)'
      BY <1>2, <2>2, OthersAreNotAlone
    <3>2. HalfWay(requests'[q]) => InProgress(q)'
      BY DEF HalfWay, RepairPhases, Ended, InProgress
    <3> QED BY <3>1, <3>2 DEF HalfRepaired
  <2> QED BY <2>1, <2>2
<1>5. ASSUME trusted', NEW q \in Requests, InProgress(q)'
      PROVE  requests'[q].alone /\ requests'[q].op \notin AlertOperations
  <2>1. CASE trusted
    BY <1>2, <1>3, <1>5, <2>1 DEF PostureInv, TrustedRequests
  <2>2. CASE ~trusted
    <3>1. requests[r].alone /\ next.pc \in Ended
      BY <1>5, <2>2
    <3>2. q # r /\ InProgress(q)
      BY <1>2, <1>3, <1>5, <3>1
    <3>3. Others(r) = {}
      BY <3>1 DEF GovernanceInv, AloneHolds
    <3> QED BY <3>2, <3>3 DEF Others
  <2> QED BY <2>1, <2>2
<1>6. TrustedRequests'
  BY <1>5 DEF TrustedRequests
<1> QED BY <1>4, <1>6 DEF PostureInv

\* What the projections are about stays as it is, for the tools that stay discovered.
Undisturbed ==
    /\ \A t \in Discovered' : t \in Discovered /\ tools'[t] = tools[t]
    /\ rules' = rules /\ UNCHANGED <<alerts, doubled, records>>

LEMMA QuietStep ==
    ASSUME GovernanceInv, PostureInv, NEW r \in Requests, InProgress(r), NEW next,
           requests' = [requests EXCEPT ![r] = next], Undisturbed, LinksHold',
           next.pc \notin Ended =>
              next.op = requests[r].op /\ next.alone = requests[r].alone,
           HalfWay(next) => HalfWay(requests[r]),
           trusted' => trusted /\ \A t : Repairs(requests[r], t) => Repairs(next, t),
           next.pc \notin Ended /\ requests[r].alone => KnowsPosture(requests[r])'
    PROVE  PostureInv'
<1>1. RequestsTyped
  BY DEF GovernanceInv, RequestsTyped, RequestHolds
<1>2. /\ requests'[r] = next
      /\ \A q \in Requests \ {r} : requests'[q] = requests[q]
  BY <1>1, OthersKept
<1>3. \A t \in Discovered' : /\ ToolAgrees(t) => ToolAgrees(t)'
                             /\ RiskAgrees(t) => RiskAgrees(t)'
  BY AgreementKept DEF Undisturbed
<1>4. ASSUME trusted', NEW t \in Discovered'
      PROVE  AwaitsRepair(t)' \/ (ToolAgrees(t)' /\ RiskAgrees(t)')
  <2>1. AwaitsRepair(t) \/ (ToolAgrees(t) /\ RiskAgrees(t))
    BY <1>4 DEF PostureInv, TrustedTools, Undisturbed
  <2>2. CASE AwaitsRepair(t)
    <3>1. PICK q \in Requests : Repairs(requests[q], t)
      BY <2>2 DEF AwaitsRepair
    <3>2. Repairs(requests'[q], t)
      BY <1>2, <1>4, <3>1
    <3> QED BY <3>2 DEF AwaitsRepair, Repairs
  <2> QED BY <1>3, <1>4, <2>1, <2>2
<1>5. TrustedTools'
  BY <1>4 DEF TrustedTools
<1>6. Doubles(alerts)' \subseteq doubled'
  BY DEF PostureInv, Undisturbed, Doubles
<1>7. requests[r].alone /\ HalfWay(next) => \A t \in Discovered' : ToolAgrees(t)'
  BY <1>3 DEF PostureInv, HalfRepaired, Undisturbed
<1> QED BY <1>5, <1>6, <1>7, PostureKeptByStep

LEMMA QuietEnd ==
    ASSUME GovernanceInv, PostureInv, NEW r \in Requests, InProgress(r), NEW pc \in Ended,
           Ends(r, pc), Undisturbed, LinksHold',
           trusted' => trusted /\ requests[r].pc \notin RepairPhases
    PROVE  PostureInv'
<1>1. PICK next : next = [IdleRequest EXCEPT !.pc = pc]
  OBVIOUS
<1>2. requests' = [requests EXCEPT ![r] = next] /\ next.pc = pc
  BY <1>1 DEF Ends, IdleRequest
<1>3. ~HalfWay(next)
  BY <1>2 DEF HalfWay, RepairPhases, Ended
<1>4. trusted' => trusted /\ \A t : Repairs(requests[r], t) => Repairs(next, t)
  BY DEF Repairs
<1> QED BY <1>2, <1>3, <1>4, QuietStep

LEMMA DiscoveredKept ==
    ASSUME UNCHANGED catalogue
    PROVE  /\ Discovered' = Discovered /\ DiscoveredRows' = DiscoveredRows
           /\ EnabledRules' = EnabledRules
  BY DEF catalogue, Discovered, IsDiscovered, DiscoveredRows, EnabledRules

LEMMA CatalogueUndisturbed ==
    ASSUME PostureInv, UNCHANGED catalogue, UNCHANGED <<alerts, doubled, records>>
    PROVE  Undisturbed /\ LinksHold'
<1>1. Discovered' = Discovered
  BY DiscoveredKept
<1> QED BY <1>1 DEF catalogue, Undisturbed, PostureInv, LinksHold

LEMMA PostureKeptByEnds ==
    ASSUME GovernanceInv, PostureInv, NEW r \in Requests,
           Crash(r) \/ Conflict(r) \/ CommitSnapshot(r)
    PROVE  PostureInv'
<1>1. InProgress(r)
  BY DEF Crash, Conflict, CommitSnapshot, InProgress, Ended
<1>2. UNCHANGED catalogue /\ UNCHANGED <<alerts, doubled, records>>
  BY DEF Crash, Conflict, CommitSnapshot, projections
<1>3. \E pc \in Ended : Ends(r, pc)
  BY DEF Crash, Conflict, CommitSnapshot, Ended
<1>4. trusted' => trusted /\ requests[r].pc \notin RepairPhases
  BY DEF Crash, Conflict, CommitSnapshot, RepairPhases
<1> QED BY <1>1, <1>2, <1>3, <1>4, CatalogueUndisturbed, QuietEnd

LEMMA PostureKeptByBuildItems ==
    ASSUME GovernanceInv, PostureInv, NEW r \in Requests, BuildItems(r)
    PROVE  PostureInv'
<1> PICK q : q = requests[r]
  OBVIOUS
<1> PICK next : next = [q EXCEPT !.pc = "built", !.seen = snapshot, !.view = NoView]
  OBVIOUS
<1>1. /\ q.pc = "projected" /\ UNCHANGED catalogue /\ UNCHANGED <<alerts, doubled, records>>
      /\ trusted' = trusted
      /\ \/ \E pc \in Ended : Ends(r, pc)
         \/ requests' = [requests EXCEPT ![r] = next]
  BY DEF BuildItems, projections, Ended
<1>2. InProgress(r) /\ q.pc \notin RepairPhases /\ RequestsTyped
  BY <1>1 DEF InProgress, Ended, RepairPhases, GovernanceInv, RequestsTyped, RequestHolds
<1>3. Undisturbed /\ LinksHold'
  BY <1>1, CatalogueUndisturbed
<1>4. CASE \E pc \in Ended : Ends(r, pc)
  BY <1>1, <1>2, <1>3, <1>4, QuietEnd
<1>5. CASE requests' = [requests EXCEPT ![r] = next]
  <2>1. next.pc = "built" /\ next.op = q.op /\ next.alone = q.alone
    BY <1>2 DEF RequestsTyped, RequestFields
  <2>2. requests'[r] = next
    BY <1>2, <1>5 DEF RequestsTyped
  <2>3. KnowsPosture(requests[r])'
    BY <2>1, <2>2 DEF KnowsPosture, RepairPhases
  <2>4. ~HalfWay(next)
    BY <2>1 DEF HalfWay, RepairPhases
  <2>5. \A t : ~Repairs(requests[r], t)
    BY <1>2 DEF Repairs
  <2> QED BY <1>1, <1>2, <1>3, <1>5, <2>1, <2>3, <2>4, <2>5, QuietStep
<1> QED BY <1>1, <1>4, <1>5

LEMMA PostureKeptByReadRules ==
    ASSUME GovernanceInv, PostureInv, NEW r \in Requests, ReadRules(r)
    PROVE  PostureInv'
<1> PICK q : q = requests[r]
  OBVIOUS
<1> PICK next : next = [q EXCEPT !.pc = "ruled", !.view = [@ EXCEPT !.rules = EnabledRules]]
  OBVIOUS
<1>1. /\ q.pc = "reconcile" /\ UNCHANGED catalogue /\ UNCHANGED <<alerts, doubled, records>>
      /\ trusted' = trusted /\ requests' = [requests EXCEPT ![r] = next]
  BY DEF ReadRules, projections
<1>2. InProgress(r) /\ RequestsTyped /\ q.view = NoView
  BY <1>1 DEF InProgress, Ended, GovernanceInv, RequestsTyped, RequestHolds
<1>3. Undisturbed /\ LinksHold'
  BY <1>1, CatalogueUndisturbed
<1>4. /\ next.pc = "ruled" /\ next.op = q.op /\ next.alone = q.alone /\ next.turn = q.turn
      /\ next.target = q.target /\ next.seen = q.seen /\ next.view.rules = EnabledRules
  BY <1>2 DEF RequestsTyped, RequestFields, NoView
<1>5. requests'[r] = next
  BY <1>1, <1>2 DEF RequestsTyped
<1>6. HalfWay(next) => HalfWay(requests[r])
  BY <1>1, <1>4 DEF HalfWay, RepairPhases
<1>7. \A t : Repairs(requests[r], t) => Repairs(next, t)
  BY <1>4 DEF Repairs, RepairPhases
<1>8. ASSUME q.alone
      PROVE  KnowsPosture(next)'
  <2>1. q.turn = "review" => q.seen = tools[q.target]
    BY <1>1, <1>2, <1>8 DEF PostureInv, KnowsPosture, RepairPhases
  <2>2. EnabledRules' = EnabledRules /\ tools' = tools
    BY <1>1, DiscoveredKept DEF catalogue
  <2> QED BY <1>4, <2>1, <2>2 DEF KnowsPosture
<1>9. q.alone => KnowsPosture(requests[r])'
  BY <1>5, <1>8 DEF KnowsPosture
<1> QED BY <1>1, <1>2, <1>3, <1>4, <1>6, <1>7, <1>9, QuietStep

LEMMA PostureKeptByReadTools ==
    ASSUME GovernanceInv, PostureInv, NEW r \in Requests, ReadTools(r)
    PROVE  PostureInv'
<1>1. PICK q : q = requests[r]
  OBVIOUS
<1>2. PICK own : own = IF q.turn = "review" THEN {With(q.seen, q.body)} ELSE {}
  OBVIOUS
<1>3. PICK view : view = ViewWith(r, own)
  OBVIOUS
<1>4. PICK seen : seen = IF q.turn = "tool" THEN tools[q.target] ELSE q.seen
  OBVIOUS
<1>5. PICK next : next = [q EXCEPT !.pc = "read", !.view = view, !.seen = seen]
  OBVIOUS
<1>6. /\ q.pc = "ruled" /\ UNCHANGED catalogue /\ UNCHANGED <<alerts, doubled, records>>
      /\ trusted' = trusted /\ requests' = [requests EXCEPT ![r] = next]
  BY <1>1, <1>2, <1>3, <1>4, <1>5 DEF ReadTools, projections
<1>7. InProgress(r) /\ RequestsTyped /\ TurnHolds(q) /\ q.turn # "sync"
  BY <1>1, <1>6 DEF InProgress, Ended, GovernanceInv, RequestsTyped, RequestHolds, TurnHolds
<1>8. Undisturbed /\ LinksHold'
  BY <1>6, CatalogueUndisturbed
<1>9. /\ next.pc = "read" /\ next.op = q.op /\ next.alone = q.alone /\ next.turn = q.turn
      /\ next.target = q.target /\ next.seen = seen /\ next.view = view /\ next.body = q.body
  BY <1>1, <1>5, <1>7 DEF RequestsTyped, RequestFields
<1>10. requests'[r] = next
  BY <1>6, <1>7 DEF RequestsTyped
<1>11. HalfWay(next) => HalfWay(requests[r])
  BY <1>1, <1>6, <1>9 DEF HalfWay, RepairPhases
<1>12. \A t : Repairs(requests[r], t) => Repairs(next, t)
  BY <1>1, <1>9 DEF Repairs, RepairPhases
<1>13. /\ view.rules = q.view.rules /\ view.active = ActiveAlerts
       /\ view.tools = {t \in DiscoveredRows : \A o \in own : o.id # t.id} \cup
                       {o \in own : o.id \in Discovered}
  BY <1>1, <1>3 DEF ViewWith
<1>14. ASSUME q.alone
       PROVE  KnowsPosture(next)'
  <2>1. /\ q.view.rules = EnabledRules
        /\ q.turn = "review" => q.seen = tools[q.target]
    BY <1>1, <1>6, <1>7, <1>14 DEF PostureInv, KnowsPosture, RepairPhases
  <2>2. /\ EnabledRules' = EnabledRules /\ tools' = tools /\ ActiveAlerts' = ActiveAlerts
        /\ DiscoveredRows' = DiscoveredRows /\ Discovered' = Discovered
    BY <1>6, DiscoveredKept DEF catalogue, ActiveAlerts
  <2>3. q.turn # "review" => view.tools = DiscoveredRows
    BY <1>2, <1>13
  <2>4. ASSUME q.turn = "review"
        PROVE  view.tools = ReviewedRows(next)
    <3>1. own = {With(q.seen, q.body)} /\ seen = q.seen
      BY <1>2, <1>4, <2>4
    <3>2. With(q.seen, q.body).id = q.target
      BY <1>7, <2>4, ReviewedType DEF TurnHolds, RowHolds
    <3> QED BY <1>9, <1>13, <3>1, <3>2 DEF ReviewedRows
  <2>5. q.turn = "review" => view.tools = ReviewedRows(next)'
    BY <2>2, <2>4 DEF ReviewedRows
  <2>6. q.turn = "tool" => seen = tools[q.target]
    BY <1>4
  <2>7. q.turn = "review" => seen = tools[q.target]
    BY <1>4, <2>1
  <2> QED BY <1>7, <1>9, <1>13, <2>1, <2>2, <2>3, <2>5, <2>6, <2>7 DEF KnowsPosture
<1>15. requests[r].alone => KnowsPosture(requests[r])'
  BY <1>1, <1>10, <1>14 DEF KnowsPosture
<1>16. next.op = requests[r].op /\ next.alone = requests[r].alone
  BY <1>1, <1>9
<1> QED BY <1>6, <1>7, <1>8, <1>11, <1>12, <1>15, <1>16, QuietStep

LEMMA PostureKeptBySyncSteps ==
    ASSUME GovernanceInv, PostureInv, NEW r \in Requests,
           FailSync(r) \/ \E offer \in Discoveries : Discover(r, offer)
    PROVE  PostureInv'
<1> PICK q : q = requests[r]
  OBVIOUS
<1>1. PICK body : \/ /\ FailSync(r) /\ requests' = [requests EXCEPT ![r] = [q EXCEPT !.pc = "failing"]]
                  \/ /\ \E offer \in Discoveries : Discover(r, offer)
                     /\ requests' = [requests EXCEPT ![r] =
                           [q EXCEPT !.pc = "discovered", !.body = body]]
  BY DEF FailSync, Discover
<1>2. PICK next : /\ requests' = [requests EXCEPT ![r] = next]
                  /\ next = [q EXCEPT !.pc = "failing"]
                     \/ next = [q EXCEPT !.pc = "discovered", !.body = body]
  BY <1>1
<1>3. /\ UNCHANGED catalogue /\ UNCHANGED <<alerts, doubled, records>> /\ trusted' = trusted
      /\ q.pc \in {"discovering", "read"} /\ (q.pc = "read" => q.turn = "sync")
  BY DEF FailSync, Discover, projections
<1>4. InProgress(r) /\ RequestsTyped
  BY <1>3 DEF InProgress, Ended, GovernanceInv, RequestsTyped, RequestHolds
<1>5. q.op = "sync" /\ q.turn = "sync"
  BY <1>3 DEF GovernanceInv, RequestHolds, TurnHolds, SyncHolds
<1>6. Undisturbed /\ LinksHold'
  BY <1>3, CatalogueUndisturbed
<1>7. next.pc \in {"failing", "discovered"} /\ next.op = q.op /\ next.alone = q.alone
  BY <1>2, <1>4 DEF RequestsTyped, RequestFields
<1>8. requests'[r] = next
  BY <1>2, <1>4 DEF RequestsTyped
<1>9. KnowsPosture(requests[r])'
  BY <1>7, <1>8 DEF KnowsPosture, RepairPhases
<1>10. ~HalfWay(next)
  BY <1>7 DEF HalfWay, RepairPhases
<1>11. \A t : ~Repairs(requests[r], t)
  BY <1>5 DEF Repairs, RuleOperations
<1> QED BY <1>2, <1>3, <1>4, <1>6, <1>7, <1>9, <1>10, <1>11, QuietStep

LEMMA PostureKeptByFailure ==
    ASSUME GovernanceInv, PostureInv, NEW r \in Requests,
           DiscoveryFails(r) \/ RecordSyncFailure(r)
    PROVE  PostureInv'
<1> PICK q : q = requests[r]
  OBVIOUS
<1>1. /\ q.pc \in {"discovering", "failing"} /\ UNCHANGED <<agents, tools, rules>>
      /\ UNCHANGED <<alerts, doubled, records>> /\ trusted' = trusted
      /\ \E pc \in Ended : Ends(r, pc)
  BY DEF DiscoveryFails, RecordSyncFailure, projections, Ended
<1>2. InProgress(r) /\ q.pc \notin RepairPhases /\ q.target \in Servers /\ q.seen \in ServerRows
  BY <1>1 DEF InProgress, Ended, RepairPhases, GovernanceInv, RequestHolds, SyncHolds
<1>3. \A s \in Servers : servers'[s].deleted = servers[s].deleted
  <2>1. servers \in [Servers -> ServerRows]
    BY DEF GovernanceInv, CatalogueHolds
  <2>2. CASE DiscoveryFails(r)
    <3>1. PICK new : new = [q.seen EXCEPT !.status = "error"]
      OBVIOUS
    <3>2. new.deleted = q.seen.deleted
      BY <1>2, <3>1 DEF ServerRows
    <3>3. PICK net : net = NetChange(servers[q.target], q.seen, new)
      OBVIOUS
    <3>4. net.deleted = servers[q.target].deleted
      BY <1>2, <2>1, <3>2, <3>3, NetChangeFields DEF ServerRows
    <3>5. servers' = [servers EXCEPT ![q.target] = net]
      BY <2>2, <3>1, <3>3 DEF DiscoveryFails
    <3> QED BY <2>1, <3>4, <3>5
  <2>3. CASE RecordSyncFailure(r)
    <3>1. servers' = [servers EXCEPT ![q.target] = [@ EXCEPT !.status = "error"]]
      BY <2>3 DEF RecordSyncFailure
    <3>2. [servers[q.target] EXCEPT !.status = "error"].deleted = servers[q.target].deleted
      BY <1>2, <2>1 DEF ServerRows
    <3> QED BY <1>2, <2>1, <3>1, <3>2
  <2> QED BY <2>2, <2>3
<1>4. \A t \in Tools : tools[t].server # None => tools[t].server \in Servers
  BY DEF GovernanceInv, CatalogueHolds, ToolRows
<1>5. Discovered' = Discovered
  BY <1>1, <1>3, <1>4 DEF Discovered, IsDiscovered
<1>6. Undisturbed /\ LinksHold'
  BY <1>1, <1>5 DEF Undisturbed, PostureInv, LinksHold
<1> QED BY <1>1, <1>2, <1>6, QuietEnd

LEMMA PostureKeptByReadSync ==
    ASSUME GovernanceInv, PostureInv, NEW r \in Requests, ReadSync(r)
    PROVE  PostureInv'
<1> DEFINE q == requests[r]
           s == q.target
           agent == LinkedAgent(q.seen, s)
<1>4. /\ q.pc = "discovered" /\ UNCHANGED catalogue /\ UNCHANGED <<alerts, doubled, records>>
      /\ trusted' = trusted
  BY DEF ReadSync, projections
<1>5. /\ InProgress(r) /\ RequestsTyped /\ q.pc \notin RepairPhases
      /\ q.op = "sync" /\ q.turn = "sync" /\ s \in Servers /\ q.seen \in ServerRows
  BY <1>4 DEF InProgress, Ended, GovernanceInv, RequestsTyped, RequestHolds,
                          SyncHolds, RepairPhases
<1>6. Undisturbed /\ LinksHold'
  BY <1>4, CatalogueUndisturbed
<1>7. \A t : ~Repairs(requests[r], t)
  BY <1>5 DEF Repairs
<1>8. CASE LinkFails(q.seen, s)
  <2>1. PICK next : next = [q EXCEPT !.pc = "failing", !.turn = None]
    OBVIOUS
  <2>2. requests' = [requests EXCEPT ![r] = next]
    BY <1>8, <2>1 DEF ReadSync
  <2>3. next.pc = "failing" /\ next.op = q.op /\ next.alone = q.alone
    BY <1>5, <2>1 DEF RequestsTyped, RequestFields
  <2>4. requests'[r] = next
    BY <1>5, <2>2 DEF RequestsTyped
  <2>5. KnowsPosture(requests[r])'
    BY <2>3, <2>4 DEF KnowsPosture, RepairPhases
  <2>6. ~HalfWay(next)
    BY <2>3 DEF HalfWay, RepairPhases
  <2> QED BY <1>4, <1>5, <1>6, <1>7, <2>2, <2>3, <2>5, <2>6, QuietStep
<1>9. CASE ~LinkFails(q.seen, s)
  <2>1. PICK dict \in ByName(s) :
           LET match == Matched(q.body, dict, agent)
               kept == {n \in DOMAIN match : match[n] # None}
               own == {Updated(match[n], s, q.body[n]) : n \in kept}
               gone == {tools[dict[n]] : n \in DOMAIN dict \ DOMAIN match}
               Shown(o) == agents[o.agent] = "live" /\ ~servers[s].deleted
           IN  requests' = [requests EXCEPT ![r] =
                  [q EXCEPT !.pc = "read",
                            !.body = [offer |-> q.body, match |-> match, gone |-> gone,
                                      names |-> agents[agent] = "absent"],
                            !.view = [rules |-> EnabledRules,
                                      tools |-> {t \in DiscoveredRows :
                                         \A o \in own \cup gone : o.id # t.id}
                                         \cup {o \in own : Shown(o)},
                                      active |-> ActiveAlerts, records |-> records,
                                      controls |-> controls]]]
    BY <1>9 DEF ReadSync
  <2> DEFINE match == Matched(q.body, dict, agent)
             own == {Updated(match[n], s, q.body[n]) : n \in {m \in DOMAIN match : match[m] # None}}
             gone == {tools[dict[n]] : n \in DOMAIN dict \ DOMAIN match}
             shown == {o \in own : agents[o.agent] = "live" /\ ~servers[s].deleted}
             rows == {t \in DiscoveredRows : \A o \in own \cup gone : o.id # t.id} \cup shown
             plan == [offer |-> q.body, match |-> match, gone |-> gone,
                      names |-> agents[agent] = "absent"]
             view == [rules |-> EnabledRules, tools |-> rows, active |-> ActiveAlerts,
                      records |-> records, controls |-> controls]
             reading == [q EXCEPT !.pc = "read", !.body = plan, !.view = view]
  <2>2. requests' = [requests EXCEPT ![r] = reading]
    BY <2>1
  <2>3. /\ plan.offer = q.body /\ plan.match = match /\ plan.gone = gone
        /\ view.rules = EnabledRules /\ view.tools = rows /\ view.active = ActiveAlerts
    OBVIOUS
  <2>4. rows = {t \in DiscoveredRows : \A o \in own \cup gone : o.id # t.id}
               \cup {o \in own : agents[o.agent] = "live" /\ ~servers[s].deleted}
    OBVIOUS
  <2>5. own = {Updated(match[n], s, q.body[n]) : n \in {m \in DOMAIN match : match[m] # None}}
    OBVIOUS
  <2> HIDE DEF match, own, gone, shown, rows, plan, view
  <2>6. PICK next : next = reading
    OBVIOUS
  <2>7. /\ next.pc = "read" /\ next.op = q.op /\ next.alone = q.alone /\ next.turn = "sync"
        /\ next.body = plan /\ next.view = view /\ next.seen = q.seen /\ next.target = s
    BY <1>5, <2>6 DEF RequestsTyped, RequestFields
  <2>8. requests' = [requests EXCEPT ![r] = next]
    BY <2>2, <2>6
  <2> HIDE DEF reading, agent
  <2>9. requests'[r] = next
    BY <1>5, <2>8 DEF RequestsTyped
  <2>10. agents[agent] \in {"absent", "live"}
    <3>1. agent \in Agents
      BY <1>5, LinkedAgentType DEF agent
    <3> QED BY <1>9, <3>1 DEF LinkFails, GovernanceInv, CatalogueHolds, agent
  <2>11. SyncedRowsOf(next) = own
    BY <2>3, <2>5, <2>7 DEF SyncedRowsOf
  <2>12. SyncedView(next)
    BY <2>3, <2>4, <2>7, <2>10, <2>11 DEF SyncedView, agent
  <2>13. SyncedView(next)'
    BY <1>4, <2>12, DiscoveredKept DEF SyncedView, SyncedRowsOf, catalogue
  <2>14. EnabledRules' = EnabledRules /\ ActiveAlerts' = ActiveAlerts
    BY <1>4, DiscoveredKept DEF ActiveAlerts
  <2>15. KnowsPosture(next)'
    BY <2>3, <2>7, <2>13, <2>14 DEF KnowsPosture
  <2>16. KnowsPosture(requests[r])'
    BY <2>9, <2>15 DEF KnowsPosture
  <2>17. ~HalfWay(next)
    BY <2>7 DEF HalfWay
  <2> QED BY <1>4, <1>5, <1>6, <1>7, <2>8, <2>7, <2>16, <2>17, QuietStep
<1> QED BY <1>8, <1>9

\* A request begins, and no other one is alone any more.
LEMMA PostureKeptByBeginning ==
    ASSUME GovernanceInv, PostureInv, NEW r \in Requests, NEW op, NEW state,
           Begins(r, op, state), Undisturbed, LinksHold', ~HalfWay(requests'[r]),
           KnowsPosture(requests[r])'
    PROVE  PostureInv'
<1>1. RequestsTyped
  BY DEF GovernanceInv, RequestsTyped, RequestHolds
<1>2. HasBegun(r, op, state)
  BY <1>1, Begun
<1>3. ASSUME NEW q \in Requests, q # r
      PROVE  /\ requests'[q].alone => ~InProgress(q)
             /\ requests'[q].pc = requests[q].pc /\ (InProgress(q)' <=> InProgress(q))
  BY <1>2, <1>3 DEF HasBegun, SameRequest, InProgress
<1>4. ASSUME NEW q \in Requests
      PROVE  /\ requests'[q].alone /\ InProgress(q)' => KnowsPosture(requests[q])'
             /\ HalfRepaired(q)'
  <2>1. CASE q = r
    BY <2>1 DEF HalfRepaired
  <2>2. CASE q # r
    <3>1. HalfWay(requests'[q]) => InProgress(q)'
      BY DEF HalfWay, RepairPhases, Ended, InProgress
    <3> QED BY <1>3, <2>2, <3>1 DEF HalfRepaired
  <2> QED BY <2>1, <2>2
<1>5. /\ trusted' => trusted /\ Others(r) = {} /\ op \notin AlertOperations
      /\ ~InProgress(r)
  BY <1>2 DEF Begins, HasBegun, InProgress, Ended
<1>6. TrustedRequests'
  <2> SUFFICES ASSUME trusted', NEW q \in Requests, InProgress(q)'
               PROVE  requests'[q].alone /\ requests'[q].op \notin AlertOperations
    BY DEF TrustedRequests
  <2>1. CASE q = r
    BY <1>2, <1>5, <2>1 DEF HasBegun
  <2>2. CASE q # r
    BY <1>3, <1>5, <2>2 DEF Others
  <2> QED BY <2>1, <2>2
<1>7. TrustedTools'
  <2> SUFFICES ASSUME trusted', NEW t \in Discovered'
               PROVE  ToolAgrees(t)' /\ RiskAgrees(t)'
    BY DEF TrustedTools
  <2>1. ~AwaitsRepair(t)
    <3> SUFFICES ASSUME NEW q \in Requests, Repairs(requests[q], t)
                 PROVE  FALSE
      BY DEF AwaitsRepair
    <3>1. InProgress(q)
      BY DEF Repairs, RepairPhases, InProgress, Ended
    <3> QED BY <1>5, <3>1 DEF Others
  <2>2. ToolAgrees(t) /\ RiskAgrees(t)
    BY <1>5, <2>1 DEF PostureInv, TrustedTools, Undisturbed
  <2> QED BY <2>2, AgreementKept DEF Undisturbed
<1>8. Doubles(alerts)' \subseteq doubled'
  BY DEF PostureInv, Undisturbed, Doubles
<1> QED BY <1>4, <1>6, <1>7, <1>8 DEF PostureInv

LEMMA DeletionsUndisturbed ==
    ASSUME GovernanceInv, PostureInv, NEW r \in Requests,
           \/ \E t \in Tools : DeleteTool(r, t)
           \/ \E s \in Servers : DeleteServer(r, s)
           \/ \E a \in Agents : DeleteAgent(r, a)
           \/ \E s \in Servers, a \in Agents \cup {None} : RelinkServer(r, s, a)
    PROVE  Undisturbed /\ LinksHold'
<1>1. /\ tools \in [Tools -> ToolRows] /\ servers \in [Servers -> ServerRows]
      /\ agents \in [Agents -> {"absent", "live", "deleted"}] /\ LinksHold
  BY DEF GovernanceInv, CatalogueHolds, PostureInv
<1>2. rules' = rules /\ UNCHANGED <<alerts, doubled, records>>
  BY DEF DeleteTool, DeleteServer, DeleteAgent, RelinkServer, projections
<1>3. \A t \in Tools : tools[t].agent \in Agents /\ tools[t].server \in Servers \cup {None}
  BY <1>1 DEF ToolRows
<1>4. ASSUME NEW t \in Tools, DeleteTool(r, t)
      PROVE  Undisturbed /\ LinksHold'
  <2>1. /\ tools' = [tools EXCEPT ![t] = [tools[t] EXCEPT !.state = "deleted"]]
        /\ UNCHANGED <<agents, servers>> /\ tools[t].state = "live"
    BY <1>4 DEF DeleteTool
  <2>2. /\ [tools[t] EXCEPT !.state = "deleted"].state = "deleted"
        /\ [tools[t] EXCEPT !.state = "deleted"].agent = tools[t].agent
    BY <1>1 DEF ToolRows
  <2>3. \A u \in Tools : tools'[u] = IF u = t THEN [tools[t] EXCEPT !.state = "deleted"]
                                     ELSE tools[u]
    BY <1>1, <2>1
  <2>4. \A u \in Discovered' : u \in Discovered /\ tools'[u] = tools[u]
    BY <2>1, <2>2, <2>3 DEF Discovered, IsDiscovered
  <2> QED BY <1>1, <1>2, <2>1, <2>2, <2>3, <2>4 DEF Undisturbed, LinksHold
<1>5. ASSUME NEW s \in Servers, DeleteServer(r, s)
      PROVE  Undisturbed /\ LinksHold'
  <2>1. /\ servers' = [servers EXCEPT ![s] = [servers[s] EXCEPT !.deleted = TRUE]]
        /\ UNCHANGED <<agents, tools>>
    BY <1>5 DEF DeleteServer
  <2>2. \A v \in Servers : servers[v].deleted => servers'[v].deleted
    BY <1>1, <2>1 DEF ServerRows
  <2>3. \A u \in Discovered' : u \in Discovered
    BY <1>3, <2>1, <2>2 DEF Discovered, IsDiscovered
  <2> QED BY <1>1, <1>2, <2>1, <2>3 DEF Undisturbed, LinksHold
<1>6. ASSUME NEW a \in Agents, DeleteAgent(r, a)
      PROVE  Undisturbed /\ LinksHold'
  <2>1. /\ agents' = [agents EXCEPT ![a] = "deleted"] /\ UNCHANGED <<servers, tools>>
    BY <1>6 DEF DeleteAgent
  <2>2. \A b \in Agents : /\ agents'[b] = "live" => agents[b] = "live"
                          /\ agents[b] # "absent" => agents'[b] # "absent"
    BY <1>1, <2>1
  <2>3. \A u \in Discovered' : u \in Discovered
    BY <1>3, <2>1, <2>2 DEF Discovered, IsDiscovered
  <2> QED BY <1>1, <1>2, <1>3, <2>1, <2>2, <2>3 DEF Undisturbed, LinksHold
<1>7. ASSUME NEW s \in Servers, NEW a \in Agents \cup {None}, RelinkServer(r, s, a)
      PROVE  Undisturbed /\ LinksHold'
  <2>1. /\ servers' = [servers EXCEPT ![s] = [servers[s] EXCEPT !.agent = a]]
        /\ UNCHANGED <<agents, tools>>
    BY <1>7 DEF RelinkServer
  <2>2. \A v \in Servers : servers'[v].deleted = servers[v].deleted
    BY <1>1, <2>1 DEF ServerRows
  <2>3. \A u \in Discovered' : u \in Discovered
    BY <1>3, <2>1, <2>2 DEF Discovered, IsDiscovered
  <2> QED BY <1>1, <1>2, <2>1, <2>3 DEF Undisturbed, LinksHold
<1> QED BY <1>4, <1>5, <1>6, <1>7

LEMMA PostureKeptByBeginnings ==
    ASSUME GovernanceInv, PostureInv, NEW r \in Requests,
           Beginning(r) \/ \E s \in Servers : LoadServer(r, s)
    PROVE  PostureInv'
<1>1. RequestsTyped
  BY DEF GovernanceInv, RequestsTyped, RequestHolds
<1>2. Undisturbed /\ LinksHold'
  <2>1. CASE \/ \E t \in Tools : DeleteTool(r, t)
             \/ \E s \in Servers : DeleteServer(r, s)
             \/ \E a \in Agents : DeleteAgent(r, a)
             \/ \E s \in Servers, a \in Agents \cup {None} : RelinkServer(r, s, a)
    BY <2>1, DeletionsUndisturbed
  <2>2. CASE UNCHANGED catalogue /\ UNCHANGED <<alerts, doubled, records>>
    BY <2>2, CatalogueUndisturbed
  <2> QED BY <2>1, <2>2 DEF Beginning, LoadRuleToCreate, LoadRule, ReviewTool, LoadTool,
                            LoadAlert, ReadRegister, LoadServer, projections
<1>3. ASSUME NEW t \in Tools, NEW review \in Reviews, ReviewTool(r, t, review)
      PROVE  PostureInv'
  <2> PICK state :
         state = [pc |-> "reconcile", turn |-> "review", target |-> t, seen |-> tools[t],
                  body |-> [risk |-> review.risk, permission |-> review.permission,
                           reviewed |-> TRUE]]
    OBVIOUS
  <2>1. Begins(r, "review tool", state) /\ tools' = tools
    BY <1>3 DEF ReviewTool, catalogue
  <2>2. HasBegun(r, "review tool", state)
    BY <1>1, <2>1, Begun
  <2>3. /\ requests'[r].op = "review tool" /\ requests'[r].pc = "reconcile"
        /\ requests'[r].turn = "review" /\ requests'[r].target = t
        /\ requests'[r].seen = tools[t]
    BY <2>2 DEF HasBegun, RequestFields
  <2>4. ~HalfWay(requests'[r]) /\ KnowsPosture(requests[r])'
    BY <2>1, <2>3 DEF HalfWay, KnowsPosture
  <2> QED BY <1>2, <2>1, <2>4, PostureKeptByBeginning
<1>4. ASSUME NEW op \in {"register", "summary"}, ReadRegister(r, op)
      PROVE  PostureInv'
  <2> PICK state : state = [pc |-> "reconcile", turn |-> "risk"]
    OBVIOUS
  <2>1. Begins(r, op, state)
    BY <1>4 DEF ReadRegister
  <2>2. HasBegun(r, op, state)
    BY <1>1, <2>1, Begun
  <2>3. requests'[r].op = op /\ requests'[r].pc = "reconcile" /\ requests'[r].turn = "risk"
    BY <2>2 DEF HasBegun, RequestFields
  <2>4. ~HalfWay(requests'[r]) /\ KnowsPosture(requests[r])'
    BY <2>3 DEF HalfWay, KnowsPosture, RuleOperations
  <2> QED BY <1>2, <2>1, <2>4, PostureKeptByBeginning
<1>5. ASSUME NEW op, NEW state, Begins(r, op, state), "pc" \in DOMAIN state,
             state.pc \in {"loaded", "done", "discovering"}
      PROVE  PostureInv'
  <2>1. HasBegun(r, op, state)
    BY <1>1, <1>5, Begun
  <2>2. requests'[r].pc = state.pc
    BY <1>5, <2>1 DEF HasBegun, RequestFields
  <2>3. ~HalfWay(requests'[r]) /\ KnowsPosture(requests[r])'
    BY <1>5, <2>2 DEF HalfWay, KnowsPosture, RepairPhases
  <2> QED BY <1>2, <1>5, <2>3, PostureKeptByBeginning
<1>6. ASSUME NEW s \in Servers, LoadServer(r, s)
      PROVE  PostureInv'
  <2> PICK state : state = [pc |-> "discovering", turn |-> "sync", target |-> s,
                            seen |-> servers[s]]
    OBVIOUS
  <2>1. Begins(r, "sync", state) /\ "pc" \in DOMAIN state /\ state.pc = "discovering"
    BY <1>6 DEF LoadServer
  <2> QED BY <1>5, <2>1
<1>7. ASSUME Beginning(r)
      PROVE  PostureInv'
  <2>1. ASSUME NEW i \in RuleIds, NEW body, LoadRuleToCreate(r, i, body)
        PROVE  PostureInv'
    <3> PICK state : state = [pc |-> "loaded", target |-> i, body |-> body]
      OBVIOUS
    <3>1. Begins(r, "create rule", state) /\ "pc" \in DOMAIN state /\ state.pc = "loaded"
      BY <2>1 DEF LoadRuleToCreate
    <3> QED BY <1>5, <3>1
  <2>2. ASSUME NEW i \in RuleIds, NEW op, NEW body, LoadRule(r, i, op, body)
        PROVE  PostureInv'
    <3> PICK state : state = [pc |-> "loaded", target |-> i, seen |-> rules[i],
                        body |-> IF op = "delete rule" THEN [deleted |-> TRUE] ELSE body,
                        covered |-> CoveredTools]
      OBVIOUS
    <3>1. Begins(r, op, state) /\ "pc" \in DOMAIN state /\ state.pc = "loaded"
      BY <2>2 DEF LoadRule
    <3> QED BY <1>5, <3>1
  <2>3. ASSUME NEW t \in Tools, NEW patch, LoadTool(r, t, patch)
        PROVE  PostureInv'
    <3> PICK state : state = [pc |-> "loaded", target |-> t, seen |-> tools[t], body |-> patch]
      OBVIOUS
    <3>1. Begins(r, "update tool", state) /\ "pc" \in DOMAIN state /\ state.pc = "loaded"
      BY <2>3 DEF LoadTool
    <3> QED BY <1>5, <3>1
  <2>4. ASSUME NEW a \in alerts, NEW op, LoadAlert(r, a, op)
        PROVE  PostureInv'
    <3> PICK state : state = [pc |-> "loaded", seen |-> a]
      OBVIOUS
    <3>1. Begins(r, op, state) /\ "pc" \in DOMAIN state /\ state.pc = "loaded"
      BY <2>4 DEF LoadAlert
    <3> QED BY <1>5, <3>1
  <2>5. ASSUME \/ \E t \in Tools : DeleteTool(r, t)
               \/ \E s \in Servers : DeleteServer(r, s)
               \/ \E a \in Agents : DeleteAgent(r, a)
               \/ \E s \in Servers, a \in Agents \cup {None} : RelinkServer(r, s, a)
        PROVE  PostureInv'
    <3> PICK state : state = [pc |-> "done"]
      OBVIOUS
    <3>1. Begins(r, "delete", state) \/ Begins(r, "relink", state)
      BY <2>5 DEF DeleteTool, DeleteServer, DeleteAgent, RelinkServer
    <3>2. "pc" \in DOMAIN state /\ state.pc = "done"
      OBVIOUS
    <3> QED BY <1>5, <3>1, <3>2
  <2> QED BY <1>3, <1>4, <1>7, <2>1, <2>2, <2>3, <2>4, <2>5 DEF Beginning
<1> QED BY <1>6, <1>7

\* Whoever is trusted is alone, and has left right what it does not repair.
LEMMA AgreesUnlessRepaired ==
    ASSUME GovernanceInv, PostureInv, trusted, NEW r \in Requests, InProgress(r)
    PROVE  /\ requests[r].alone /\ requests[r].op \notin AlertOperations
           /\ \A t \in Discovered : Repairs(requests[r], t) \/ (ToolAgrees(t) /\ RiskAgrees(t))
<1>1. requests[r].alone /\ requests[r].op \notin AlertOperations
  BY DEF PostureInv, TrustedRequests
<1>2. \A q \in Requests : InProgress(q) => q = r
  BY <1>1 DEF GovernanceInv, AloneHolds, Others
<1>3. \A q \in Requests, t \in Discovered : Repairs(requests[q], t) => q = r
  BY <1>2 DEF Repairs, RepairPhases, InProgress, Ended
<1>4. \A t \in Discovered : AwaitsRepair(t) => Repairs(requests[r], t)
  BY <1>3 DEF AwaitsRepair
<1> QED BY <1>1, <1>4 DEF PostureInv, TrustedTools

LEMMA PostureKeptByCommitRule ==
    ASSUME GovernanceInv, PostureInv, NEW r \in Requests, CommitRule(r)
    PROVE  PostureInv'
<1> PICK q : q = requests[r]
  OBVIOUS
<1> PICK next : next = [q EXCEPT !.pc = "reconcile", !.turn = "all"]
  OBVIOUS
<1>1. /\ q.pc = "loaded" /\ q.op \in RuleOperations /\ UNCHANGED <<agents, servers, tools>>
      /\ UNCHANGED <<alerts, doubled, records>> /\ trusted' = trusted
      /\ \/ Ends(r, "conflict") /\ UNCHANGED rules
         \/ requests' = [requests EXCEPT ![r] = next]
  BY DEF CommitRule, projections, RuleOperations
<1>2. InProgress(r) /\ RequestsTyped /\ q.pc \notin RepairPhases
  BY <1>1 DEF InProgress, Ended, GovernanceInv, RequestsTyped, RequestHolds, RepairPhases
<1>3. CASE Ends(r, "conflict") /\ UNCHANGED rules
  <2>1. Undisturbed /\ LinksHold'
    BY <1>1, <1>3, CatalogueUndisturbed DEF catalogue
  <2> QED BY <1>1, <1>2, <1>3, <2>1, QuietEnd DEF Ended
<1>4. CASE requests' = [requests EXCEPT ![r] = next]
  <2>1. next.pc = "reconcile" /\ next.turn = "all" /\ next.op = q.op /\ next.alone = q.alone
    BY <1>2 DEF RequestsTyped, RequestFields
  <2>2. requests'[r] = next
    BY <1>2, <1>4 DEF RequestsTyped
  <2>3. KnowsPosture(requests[r])' /\ ~HalfWay(next)
    BY <2>1, <2>2 DEF KnowsPosture, HalfWay
  <2>4. \A t : Repairs(next, t)
    BY <1>1, <2>1 DEF Repairs, RepairPhases
  <2>5. \A t : AwaitsRepair(t)'
    BY <2>2, <2>4 DEF AwaitsRepair, Repairs
  <2>6. TrustedTools'
    BY <2>5 DEF TrustedTools
  <2>7. LinksHold' /\ Doubles(alerts)' \subseteq doubled'
    BY <1>1 DEF PostureInv, LinksHold, Doubles
  <2> QED BY <1>1, <1>2, <1>4, <2>1, <2>3, <2>6, <2>7, PostureKeptByStep
<1> QED BY <1>1, <1>3, <1>4

LEMMA PostureKeptByCommitTool ==
    ASSUME GovernanceInv, PostureInv, NEW r \in Requests, CommitTool(r)
    PROVE  PostureInv'
<1> PICK q : q = requests[r]
  OBVIOUS
<1> PICK t : t = q.target
  OBVIOUS
<1> PICK row : row = NetChange(tools[t], q.seen, With(q.seen, q.body))
  OBVIOUS
<1> PICK next : next = [q EXCEPT !.pc = "reconcile", !.turn = "tool"]
  OBVIOUS
<1>1. /\ q.pc = "loaded" /\ q.op = "update tool" /\ UNCHANGED <<agents, servers, rules>>
      /\ UNCHANGED <<alerts, doubled, records>> /\ trusted' = trusted
      /\ \/ Ends(r, "conflict") /\ tools' = tools
         \/ /\ tools' = [tools EXCEPT ![t] = row]
            /\ \/ Ends(r, "done") /\ row.server = None
               \/ requests' = [requests EXCEPT ![r] = next]
  BY DEF CommitTool, projections
<1>2. InProgress(r) /\ RequestsTyped /\ q.pc \notin RepairPhases
  BY <1>1 DEF InProgress, Ended, GovernanceInv, RequestsTyped, RequestHolds, RepairPhases
<1>3. t \in Tools /\ q.seen \in ToolRows /\ IsToolPatch(q.body)
  BY <1>1 DEF GovernanceInv, RequestHolds, LoadHolds, AlertOperations
<1>4. row.state = tools[t].state /\ row.agent = tools[t].agent
  <2>1. /\ With(q.seen, q.body) \in ToolRows
        /\ \A f \in {"state", "agent"} : With(q.seen, q.body)[f] = q.seen[f]
    BY <1>3, PatchedType
  <2>2. tools[t] \in ToolRows
    BY <1>3 DEF GovernanceInv, CatalogueHolds
  <2>3. \A f \in {"state", "agent"} : row[f] = tools[t][f]
    BY <2>1, <2>2, NetChangeFields DEF ToolRows
  <2> QED BY <2>3
<1>5. CASE Ends(r, "conflict") /\ tools' = tools
  <2>1. Undisturbed /\ LinksHold'
    BY <1>1, <1>5, CatalogueUndisturbed DEF catalogue
  <2> QED BY <1>1, <1>2, <1>5, <2>1, QuietEnd DEF Ended
<1>6. CASE tools' = [tools EXCEPT ![t] = row]
  <2>1. /\ \A u \in Tools : tools'[u] = IF u = t THEN row ELSE tools[u]
        /\ LinksHold
    BY <1>3, <1>6 DEF GovernanceInv, CatalogueHolds, PostureInv
  <2>2. LinksHold'
    <3>1. \A u \in Tools : /\ tools'[u].state = tools[u].state
                          /\ tools'[u].agent = tools[u].agent
      BY <1>4, <2>1
    <3> QED BY <1>1, <2>1, <3>1 DEF LinksHold
  <2>3. \A u \in Discovered' : u # t => u \in Discovered /\ tools'[u] = tools[u]
    BY <1>1, <2>1 DEF Discovered, IsDiscovered
  <2>4. CASE Ends(r, "done") /\ row.server = None
    <3>1. t \notin Discovered'
      BY <1>3, <2>1, <2>4 DEF Discovered, IsDiscovered
    <3>2. Undisturbed
      BY <1>1, <2>3, <3>1 DEF Undisturbed
    <3> QED BY <1>1, <1>2, <2>2, <2>4, <3>2, QuietEnd DEF Ended
  <2>5. CASE requests' = [requests EXCEPT ![r] = next]
    <3>1. /\ next.pc = "reconcile" /\ next.turn = "tool" /\ next.op = q.op
          /\ next.alone = q.alone /\ next.target = t
      BY <1>2 DEF RequestsTyped, RequestFields
    <3>2. requests'[r] = next
      BY <1>2, <2>5 DEF RequestsTyped
    <3>3. KnowsPosture(requests[r])' /\ ~HalfWay(next)
      BY <3>1, <3>2 DEF KnowsPosture, HalfWay
    <3>4. AwaitsRepair(t)'
      BY <3>1, <3>2 DEF AwaitsRepair, Repairs, RepairPhases
    <3>5. ASSUME trusted', NEW u \in Discovered', u # t
          PROVE  ToolAgrees(u)' /\ RiskAgrees(u)'
      <4>1. u \in Discovered /\ tools'[u] = tools[u] /\ ~Repairs(q, u)
        BY <1>2, <2>3, <3>5 DEF Repairs
      <4>2. ToolAgrees(u) /\ RiskAgrees(u)
        BY <1>1, <1>2, <3>5, <4>1, AgreesUnlessRepaired
      <4> QED BY <1>1, <4>1, <4>2, AgreementKept
    <3>6. TrustedTools'
      BY <3>4, <3>5 DEF TrustedTools
    <3>7. Doubles(alerts)' \subseteq doubled'
      BY <1>1 DEF PostureInv, Doubles
    <3> QED BY <1>1, <1>2, <2>2, <2>5, <3>1, <3>3, <3>6, <3>7, PostureKeptByStep
  <2> QED BY <1>1, <1>6, <2>4, <2>5, <1>5
<1> QED BY <1>1, <1>5, <1>6

LEMMA PostureKeptByCommitAlert ==
    ASSUME GovernanceInv, PostureInv, NEW r \in Requests, CommitAlert(r)
    PROVE  PostureInv'
<1> PICK next : next = [IdleRequest EXCEPT !.pc = "done"]
  OBVIOUS
<1>1. /\ requests[r].pc = "loaded" /\ requests[r].op \in AlertOperations
      /\ doubled' = doubled \cup Doubles(alerts') /\ UNCHANGED catalogue
      /\ trusted' = trusted /\ requests' = [requests EXCEPT ![r] = next]
  BY DEF CommitAlert, SetAlerts, Ends
<1>2. InProgress(r) /\ next.pc \in Ended
  BY <1>1 DEF InProgress, Ended, IdleRequest
<1>3. ~trusted
  BY <1>1, <1>2, AgreesUnlessRepaired
<1>4. TrustedTools'
  BY <1>1, <1>3 DEF TrustedTools
<1>5. LinksHold' /\ Doubles(alerts)' \subseteq doubled'
  BY <1>1 DEF PostureInv, LinksHold, Doubles, catalogue
<1>6. ~HalfWay(next)
  BY <1>2 DEF HalfWay, RepairPhases, Ended
<1> QED BY <1>1, <1>2, <1>4, <1>5, <1>6, PostureKeptByStep

-----------------------------------------------------------------------------
(***************************************************************************)
(* The transactions that repair.                                           *)
(***************************************************************************)
LEMMA DiscoveredAreDistinct ==
    ASSUME CatalogueHolds
    PROVE  /\ DistinctIds(DiscoveredRows)
           /\ \A t \in Discovered : t \in Tools /\ tools[t].id = t /\ tools[t] \in DiscoveredRows
  BY DEF DistinctIds, DiscoveredRows, Discovered, CatalogueHolds

\* The register and its alerts, after a transaction that knows the tools and the rules.
LEMMA RegisterAgrees ==
    ASSUME RegisterHolds, CatalogueHolds', NEW wants, Reconciling(wants),
           NEW v, ViewHolds(v), v.records = records, SetRegister(v),
           v.tools = DiscoveredRows', v.rules = EnabledRules',
           \A row \in v.tools : \A k \in RiskAlertKinds :
              Verdicts(wants, KeyOf(k, row)) =
                 Verdicts(RiskWants(v.tools, v.rules), KeyOf(k, row))
    PROVE  \A t \in Discovered' : RiskAgrees(t)'
<1>1. DistinctIds(v.tools)
  BY DEF DistinctIds, DiscoveredRows, Discovered, CatalogueHolds
<1>2. ASSUME NEW t \in Discovered'
      PROVE  RiskAgrees(t)'
  <2>1. PICK row : row = tools'[t]
    OBVIOUS
  <2>2. row \in v.tools /\ row.id = t /\ t \in Tools
    BY <2>1 DEF DiscoveredRows, Discovered, CatalogueHolds
  <2>3. PICK record : record = RiskRecord(row, v.rules)
    OBVIOUS
  <2>4. records'[t] = record
    BY <2>2, <2>3, <1>1, RegisterFollows DEF SetRegister
  <2>5. \A k \in RiskAlertKinds :
           Verdicts(wants, KeyOf(k, row)) = {RiskAlertOpinion(k, row, record)}
    BY <1>1, <2>2, <2>3, VerdictsOfRows
  <2>6. PICK ruleSet : ruleSet = EnabledRules'
    OBVIOUS
  <2>7. record = RiskRecord(row, ruleSet)
    BY <2>3, <2>6
  <2> QED BY <2>1, <2>2, <2>4, <2>5, <2>6, <2>7, RiskFollows
<1> QED BY <1>2

LEMMA PostureKeptByReconcileAllTools ==
    ASSUME GovernanceInv, PostureInv, NEW r \in Requests, ReconcileAllTools(r)
    PROVE  PostureInv'
<1> PICK q : q = requests[r]
  OBVIOUS
<1> PICK v : v = q.view
  OBVIOUS
<1>20. PICK next : next = [q EXCEPT !.pc = "reconcile", !.turn = "risk", !.view = NoView,
                                    !.covered = {}]
  OBVIOUS
<1>21. PICK lost : lost = [t \in v.tools |-> t.id \in q.covered /\ ~IsCovered(t, v.rules)]
  OBVIOUS
<1>22. PICK wants : wants = WantsOf(v.tools, v.rules, lost)
  OBVIOUS
<1>1. /\ q.pc = "read" /\ q.turn = "all" /\ UNCHANGED catalogue
      /\ records' = records /\ trusted' = trusted /\ requests' = [requests EXCEPT ![r] = next]
  BY <1>20 DEF ReconcileAllTools
<1>2. Reconciles(wants, v.active)
  <2>1. Reconciles(UNION {ToolWants(t, v.rules, t.id \in q.covered /\ ~IsCovered(t, v.rules)) :
                             t \in v.tools}, v.active)
    BY DEF ReconcileAllTools
  <2>2. wants = UNION {ToolWants(t, v.rules, t.id \in q.covered /\ ~IsCovered(t, v.rules)) :
                          t \in v.tools}
    BY <1>21, <1>22 DEF WantsOf
  <2> QED BY <2>1, <2>2
<1>3. InProgress(r) /\ RequestsTyped /\ TurnHolds(q) /\ ViewHolds(v)
  BY <1>1 DEF InProgress, Ended, GovernanceInv, RequestsTyped, RequestHolds
<1>4. q.op \in RuleOperations
  BY <1>1, <1>3 DEF TurnHolds
<1>5. /\ next.pc = "reconcile" /\ next.turn = "risk" /\ next.op = q.op /\ next.alone = q.alone
  BY <1>3, <1>20 DEF RequestsTyped, RequestFields
<1>6. requests'[r] = next
  BY <1>1, <1>3 DEF RequestsTyped
<1>7. KnowsPosture(requests[r])'
  BY <1>5, <1>6 DEF KnowsPosture
<1>8. \A t : Repairs(next, t)
  BY <1>4, <1>5 DEF Repairs, RepairPhases
<1>9. \A t : AwaitsRepair(t)'
  BY <1>6, <1>8 DEF AwaitsRepair, Repairs
<1>10. TrustedTools'
  BY <1>9 DEF TrustedTools
<1>11. LinksHold' /\ Doubles(alerts)' \subseteq doubled'
  BY <1>1, <1>2, DoublesAreNoted DEF PostureInv, LinksHold, catalogue
<1>12. wants \subseteq WantRows
  <2>1. ASSUME NEW t \in v.tools
        PROVE  ToolWants(t, v.rules, lost[t]) \subseteq WantRows
    BY <1>3, ToolWantsType DEF ViewHolds
  <2> QED BY <1>22, <2>1 DEF WantsOf
<1>13. ASSUME q.alone
       PROVE  \A t \in Discovered' : ToolAgrees(t)'
  <2>1. v.rules = EnabledRules /\ v.active = ActiveAlerts /\ v.tools = DiscoveredRows
    BY <1>1, <1>3, <1>13 DEF PostureInv, KnowsPosture
  <2>2. Reconciling(wants)
    BY <1>2, <1>12, <2>1 DEF Reconciling, GovernanceInv, PostureInv
  <2>3. CatalogueHolds /\ CatalogueHolds'
    BY <1>1, CatalogueKept DEF GovernanceInv
  <2>4. EnabledRules' = EnabledRules /\ Discovered' = Discovered /\ tools' = tools
    BY <1>1, DiscoveredKept DEF catalogue
  <2>5. \A row \in v.tools : \A k \in ToolAlertKinds :
           Verdicts(wants, KeyOf(k, row)) = {ToolAlertOpinion(k, row, v.rules, lost[row])}
    <3>1. DistinctIds(v.tools)
      BY <2>1, <2>3, DiscoveredAreDistinct
    <3> QED BY <1>22, <3>1, VerdictsOfTools
  <2>6. ASSUME NEW t \in Discovered
        PROVE  ToolAgrees(t)'
    <3>1. PICK row : row = tools[t]
      OBVIOUS
    <3>2. row \in v.tools /\ t \in Tools
      BY <2>1, <2>3, <3>1, DiscoveredAreDistinct
    <3>3. PICK was \in BOOLEAN : was = lost[row]
      BY <1>21, <3>2
    <3>4. was => ~IsCovered(row, v.rules)
      BY <1>21, <3>2, <3>3
    <3>5. PICK ruleSet : ruleSet = EnabledRules'
      OBVIOUS
    <3>6. \A k \in ToolAlertKinds :
             Verdicts(wants, KeyOf(k, row)) = {ToolAlertOpinion(k, row, ruleSet, was)}
      BY <2>1, <2>4, <2>5, <3>2, <3>3, <3>5
    <3>7. row = tools'[t] /\ (was => ~IsCovered(row, ruleSet))
      BY <2>1, <2>4, <3>1, <3>4, <3>5
    <3> QED BY <2>2, <2>3, <3>2, <3>5, <3>6, <3>7, ToolFollows
  <2> QED BY <2>4, <2>6
<1> QED BY <1>1, <1>3, <1>5, <1>7, <1>10, <1>11, <1>13, PostureKeptByStep

LEMMA PostureKeptByReconcileRisk ==
    ASSUME GovernanceInv, PostureInv, NEW r \in Requests, ReconcileRisk(r)
    PROVE  PostureInv'
<1> PICK q : q = requests[r]
  OBVIOUS
<1> PICK v : v = q.view
  OBVIOUS
<1>20. PICK next : next = IF q.op \in {"register", "summary"} THEN [q EXCEPT !.pc = "projected"]
                          ELSE [IdleRequest EXCEPT !.pc = "done"]
  OBVIOUS
<1>21. PICK wants : wants = RiskWants(v.tools, v.rules)
  OBVIOUS
<1>1. /\ q.pc = "read" /\ q.turn = "risk" /\ UNCHANGED catalogue
      /\ Reconciles(wants, v.active) /\ SetRegister(v)
      /\ trusted' = (trusted \/ (~(q.op \in {"register", "summary"}) /\ q.alone))
  BY <1>21 DEF ReconcileRisk
<1>2. InProgress(r) /\ RequestsTyped /\ TurnHolds(q) /\ ViewHolds(v)
  BY <1>1 DEF InProgress, Ended, GovernanceInv, RequestsTyped, RequestHolds
<1>3. q.op \in RuleOperations \cup {"register", "summary"}
  BY <1>1, <1>2 DEF TurnHolds
<1>4. /\ requests' = [requests EXCEPT ![r] = next]
      /\ IF q.op \in {"register", "summary"}
         THEN next.pc = "projected" /\ next.op = q.op /\ next.alone = q.alone
         ELSE next.pc = "done"
  <2>1. CASE q.op \in {"register", "summary"}
    <3>1. requests' = [requests EXCEPT ![r] = next]
      BY <1>20, <2>1 DEF ReconcileRisk
    <3> QED BY <1>2, <1>20, <2>1, <3>1 DEF RequestsTyped, RequestFields
  <2>2. CASE q.op \notin {"register", "summary"}
    <3>1. requests' = [requests EXCEPT ![r] = next]
      BY <1>20, <2>2 DEF ReconcileRisk, Ends
    <3> QED BY <1>20, <2>2, <3>1 DEF IdleRequest
  <2> QED BY <2>1, <2>2
<1>5. requests'[r] = next
  BY <1>2, <1>4 DEF RequestsTyped
<1>6. ~HalfWay(next) /\ (next.pc \notin Ended => KnowsPosture(requests[r])')
  BY <1>4, <1>5 DEF HalfWay, KnowsPosture, RepairPhases, Ended
<1>7. LinksHold' /\ Doubles(alerts)' \subseteq doubled'
  BY <1>1, DoublesAreNoted DEF PostureInv, LinksHold, catalogue
<1>8. trusted' => trusted \/ (q.alone /\ next.pc \in Ended)
  BY <1>1, <1>4 DEF Ended
<1>9. trusted' => q.alone
  BY <1>1, <1>2, AgreesUnlessRepaired
<1>10. ASSUME trusted'
       PROVE  \A t \in Discovered' : ToolAgrees(t)' /\ RiskAgrees(t)'
  <2>1. /\ v.rules = EnabledRules /\ v.active = ActiveAlerts /\ v.tools = DiscoveredRows
        /\ v.records = records
    BY <1>1, <1>2, <1>9, <1>10 DEF PostureInv, KnowsPosture, GovernanceInv, AloneHolds
  <2>2. wants \subseteq WantRows
    BY <1>2, <1>21, RiskWantsType DEF ViewHolds
  <2>3. Reconciling(wants)
    BY <1>1, <2>1, <2>2 DEF Reconciling, GovernanceInv, PostureInv
  <2>4. CatalogueHolds /\ CatalogueHolds' /\ RegisterHolds
    BY <1>1, CatalogueKept DEF GovernanceInv
  <2>5. /\ EnabledRules' = EnabledRules /\ Discovered' = Discovered
        /\ DiscoveredRows' = DiscoveredRows /\ tools' = tools /\ rules' = rules
    BY <1>1, DiscoveredKept DEF catalogue
  <2>6. \A t \in Discovered' : RiskAgrees(t)'
    BY <1>1, <1>2, <1>21, <2>1, <2>3, <2>4, <2>5, RegisterAgrees
  <2>7. \A t \in Discovered : ToolAgrees(t)
    <3>1. CASE q.op \in RuleOperations
      <4>1. HalfWay(q)
        BY <1>1, <3>1 DEF HalfWay, RepairPhases
      <4> QED BY <1>9, <1>10, <4>1 DEF PostureInv, HalfRepaired
    <3>2. CASE q.op \notin RuleOperations
      <4>1. trusted /\ \A t : ~Repairs(q, t)
        BY <1>1, <1>3, <1>10, <3>2 DEF Repairs
      <4> QED BY <1>2, <4>1, AgreesUnlessRepaired
    <3> QED BY <3>1, <3>2
  <2>8. \A k \in ToolAlertKinds : k \notin RiskAlertKinds
    BY DEF ToolAlertKinds, RiskAlertKinds
  <2>9. \A t \in Discovered : \A k \in ToolAlertKinds :
           Verdicts(wants, KeyOf(k, tools[t])) = {}
    BY <1>21, <2>1, <2>4, <2>8, DiscoveredAreDistinct, VerdictsOfRows
  <2>10. \A t \in Discovered : ToolAgrees(t)'
    <3>1. Discovered \subseteq Tools
      BY DEF Discovered
    <3> QED BY <2>3, <2>4, <2>5, <2>7, <2>9, <3>1, ToolUntouched
  <2> QED BY <2>5, <2>6, <2>10
<1>11. TrustedTools'
  BY <1>10 DEF TrustedTools
<1> QED BY <1>2, <1>4, <1>6, <1>7, <1>8, <1>11, PostureKeptByStep DEF Ended

LEMMA PostureKeptByReconcileTool ==
    ASSUME GovernanceInv, PostureInv, NEW r \in Requests, ReconcileTool(r)
    PROVE  PostureInv'
<1> PICK q : q = requests[r]
  OBVIOUS
<1> PICK v : v = q.view
  OBVIOUS
<1> PICK target : target = q.target
  OBVIOUS
<1>20. PICK tool : tool = IF q.turn = "review" THEN With(q.seen, q.body) ELSE q.seen
  OBVIOUS
<1>21. PICK wanted : wanted = ToolWants(tool, v.rules, FALSE)
  OBVIOUS
<1>24. PICK risks : risks = RiskWants(v.tools, v.rules)
  OBVIOUS
<1>22. PICK wants : wants = wanted \cup risks
  OBVIOUS
<1>23. PICK next : next = [IdleRequest EXCEPT !.pc = "done"]
  OBVIOUS
<1>1. /\ q.pc = "read" /\ q.turn \in {"tool", "review"}
      /\ UNCHANGED <<agents, servers, rules>> /\ trusted' = trusted
      /\ Reconciles(wants, v.active) /\ SetRegister(v) /\ requests' = [requests EXCEPT ![r] = next]
      /\ tools' = IF q.turn = "review"
                  THEN [tools EXCEPT ![target] = NetChange(tools[target], q.seen, tool)]
                  ELSE tools
  BY <1>20, <1>21, <1>22, <1>23, <1>24 DEF ReconcileTool, Ends
<1>2. InProgress(r) /\ RequestsTyped /\ TurnHolds(q) /\ ViewHolds(v)
  BY <1>1 DEF InProgress, Ended, GovernanceInv, RequestsTyped, RequestHolds
<1>3. next.pc \in Ended /\ ~HalfWay(next)
  BY <1>23 DEF IdleRequest, Ended, HalfWay, RepairPhases
<1>4. /\ target \in Tools /\ q.seen \in ToolRows /\ q.seen.id = target /\ q.seen.server # None
      /\ q.op \notin RuleOperations
      /\ q.turn = "review" =>
            q.body \in [risk : RiskLevels, permission : Permissions, reviewed : {TRUE}]
  BY <1>1, <1>2 DEF TurnHolds, RowHolds, RuleOperations
<1>5. tool \in ToolRows /\ \A f \in {"id", "state", "agent", "server"} : tool[f] = q.seen[f]
  <2>1. CASE q.turn = "review"
    <3>1. /\ With(q.seen, q.body) \in ToolRows
          /\ With(q.seen, q.body).id = q.seen.id /\ With(q.seen, q.body).state = q.seen.state
          /\ With(q.seen, q.body).agent = q.seen.agent
          /\ With(q.seen, q.body).server = q.seen.server
      BY <1>4, <2>1, ReviewedType
    <3> QED BY <1>20, <2>1, <3>1
  <2>2. CASE q.turn # "review"
    BY <1>4, <1>20, <2>2
  <2> QED BY <2>1, <2>2
<1>6. CatalogueHolds /\ CatalogueHolds' /\ RegisterHolds
  BY ReconcileToolKeeps DEF GovernanceInv
<1>7. \A t \in Tools : /\ tools'[t].agent = tools[t].agent /\ tools'[t].state = tools[t].state
                       /\ tools'[t].server = tools[t].server
                       /\ t # target => tools'[t] = tools[t]
  <2>1. PICK row : row = NetChange(tools[target], q.seen, tool)
    OBVIOUS
  <2>2. \A f \in {"agent", "state", "server"} : row[f] = tools[target][f]
    <3>1. tools[target] \in ToolRows
      BY <1>4, <1>6 DEF CatalogueHolds
    <3> QED BY <1>5, <2>1, <3>1, NetChangeFields DEF ToolRows
  <2>3. tools' = [tools EXCEPT ![target] = row] \/ tools' = tools
    BY <1>1, <2>1
  <2> QED BY <1>6, <2>2, <2>3 DEF CatalogueHolds
<1>8. LinksHold' /\ Doubles(alerts)' \subseteq doubled'
  BY <1>1, <1>7, DoublesAreNoted DEF PostureInv, LinksHold
<1>9. Discovered' = Discovered
  BY <1>1, <1>7 DEF Discovered, IsDiscovered
<1>10. ASSUME trusted
       PROVE  \A t \in Discovered' : ToolAgrees(t)' /\ RiskAgrees(t)'
  <2>1. q.alone
    BY <1>2, <1>10, AgreesUnlessRepaired
  <2>2. /\ v.rules = EnabledRules /\ v.active = ActiveAlerts /\ v.records = records
        /\ q.turn = "tool" => v.tools = DiscoveredRows
        /\ q.turn = "review" => v.tools = ReviewedRows(q)
        /\ q.seen = tools[target]
    BY <1>1, <1>2, <2>1 DEF PostureInv, KnowsPosture, GovernanceInv, AloneHolds, RepairPhases
  <2>3. tools'[target] = tool
    <3>1. CASE q.turn = "review"
      <4>1. NetChange(tools[target], q.seen, tool) = tool
        BY <1>4, <1>5, <2>2, ToolRewritten
      <4> QED BY <1>1, <1>4, <1>6, <3>1, <4>1 DEF CatalogueHolds
    <3>2. CASE q.turn = "tool"
      BY <1>1, <1>20, <2>2, <3>2
    <3> QED BY <1>1, <3>1, <3>2
  <2>4. v.tools = DiscoveredRows'
    <3>1. CASE q.turn = "review"
      <4>1. v.tools = {t \in DiscoveredRows : t.id # target} \cup
                      {o \in {tool} : o.id \in Discovered}
        BY <1>20, <2>2, <3>1 DEF ReviewedRows
      <4>2. \A t \in Discovered : t \in Tools /\ tools[t].id = t
        BY <1>6, DiscoveredAreDistinct
      <4>3. tool.id = target
        BY <1>4, <1>5
      <4>4. \A t \in Discovered : tools'[t] = IF t = target THEN tool ELSE tools[t]
        BY <1>7, <2>3, <4>2
      <4> QED BY <1>9, <4>1, <4>2, <4>3, <4>4 DEF DiscoveredRows
    <3>2. CASE q.turn = "tool"
      <4>1. tools' = tools
        BY <1>1, <3>2
      <4> QED BY <1>9, <2>2, <3>2, <4>1 DEF DiscoveredRows
    <3> QED BY <1>1, <3>1, <3>2
  <2>5. EnabledRules' = EnabledRules /\ rules' = rules
    BY <1>1 DEF EnabledRules
  <2>6. wants \subseteq WantRows
    <3>1. tool.server # None
      BY <1>4, <1>5
    <3>2. RiskWants(v.tools, v.rules) \subseteq WantRows
      BY <1>2, RiskWantsType DEF ViewHolds
    <3>3. wanted \subseteq WantRows
      BY <1>5, <1>21, <3>1, ToolWantsType
    <3> QED BY <1>22, <1>24, <3>2, <3>3
  <2>7. Reconciling(wants)
    BY <1>1, <2>2, <2>6 DEF Reconciling, GovernanceInv, PostureInv
  <2>8. DistinctIds(v.tools) /\ \A t \in Discovered' : tools'[t] \in v.tools
    BY <1>6, <2>4 DEF DistinctIds, DiscoveredRows, Discovered, CatalogueHolds
  <2>9. ASSUME NEW k, NEW t, k \notin ToolAlertKinds \/ t.id # tool.id
        PROVE  Verdicts(wanted, KeyOf(k, t)) = {}
    <3>1. PICK key : key = KeyOf(k, t)
      OBVIOUS
    <3>2. \A j \in ToolAlertKinds : key # KeyOf(j, tool)
      BY <2>9, <3>1 DEF KeyOf
    <3> QED BY <1>21, <3>1, <3>2, VerdictsOfTool
  <2>13. \A key : Verdicts(wants, key) = Verdicts(wanted, key) \cup Verdicts(risks, key)
    BY <1>22, VerdictsOfUnion
  <2>10. \A k \in ToolAlertKinds : k \notin RiskAlertKinds
    BY DEF ToolAlertKinds, RiskAlertKinds
  <2>11. \A t \in Discovered' : RiskAgrees(t)'
    <3>1. ASSUME NEW row \in v.tools, NEW k \in RiskAlertKinds
          PROVE  Verdicts(wants, KeyOf(k, row)) =
                    Verdicts(RiskWants(v.tools, v.rules), KeyOf(k, row))
      <4>1. Verdicts(wanted, KeyOf(k, row)) = {}
        BY <2>9, <2>10
      <4>2. Verdicts(wants, KeyOf(k, row)) =
               Verdicts(wanted, KeyOf(k, row)) \cup Verdicts(risks, KeyOf(k, row))
        BY <2>13
      <4> QED BY <1>24, <4>1, <4>2
    <3> QED BY <1>1, <1>2, <1>6, <2>2, <2>4, <2>5, <2>7, <3>1, RegisterAgrees
  <2>12. ASSUME NEW t \in Discovered'
         PROVE  ToolAgrees(t)'
    <3>1. t \in Tools /\ t \in Discovered
      BY <1>9 DEF Discovered
    <3>2. ASSUME NEW k \in ToolAlertKinds, NEW row
          PROVE  Verdicts(wants, KeyOf(k, row)) = Verdicts(wanted, KeyOf(k, row))
      <4>1. k \notin RiskAlertKinds
        BY <2>10
      <4>2. Verdicts(risks, KeyOf(k, row)) = {}
        BY <1>24, <2>8, <4>1, VerdictsOfRows
      <4>3. Verdicts(wants, KeyOf(k, row)) =
               Verdicts(wanted, KeyOf(k, row)) \cup Verdicts(risks, KeyOf(k, row))
        BY <2>13
      <4> QED BY <4>2, <4>3
    <3>3. CASE t = target
      <4>1. PICK ruleSet : ruleSet = EnabledRules'
        OBVIOUS
      <4>3. ruleSet = v.rules
        BY <2>2, <2>5, <4>1
      <4>2. ASSUME NEW k \in ToolAlertKinds
            PROVE  Verdicts(wants, KeyOf(k, tool)) = {ToolAlertOpinion(k, tool, ruleSet, FALSE)}
        <5>1. PICK key : key = KeyOf(k, tool)
          OBVIOUS
        <5>2. Verdicts(wanted, key) = {ToolAlertOpinion(k, tool, ruleSet, FALSE)}
          BY <1>21, <4>3, <5>1, VerdictsOfTool
        <5> QED BY <3>2, <5>1, <5>2
      <4>4. PICK lost \in BOOLEAN : lost = FALSE
        OBVIOUS
      <4>5. tool = tools'[t]
        BY <2>3, <3>3
      <4>6. \A k \in ToolAlertKinds :
               Verdicts(wants, KeyOf(k, tool)) = {ToolAlertOpinion(k, tool, ruleSet, lost)}
        BY <4>2, <4>4
      <4> QED BY <1>6, <2>7, <3>1, <4>1, <4>4, <4>5, <4>6, ToolFollows
    <3>4. CASE t # target
      <4>1. tools'[t] = tools[t] /\ tools[t].id # tool.id
        BY <1>4, <1>5, <1>6, <1>7, <3>1, <3>4 DEF CatalogueHolds
      <4>2. \A k \in ToolAlertKinds : Verdicts(wants, KeyOf(k, tools[t])) = {}
        BY <2>9, <3>2, <4>1
      <4>3. ~Repairs(q, t)
        BY <1>4, <3>4 DEF Repairs
      <4>4. ToolAgrees(t)
        BY <1>2, <1>10, <3>1, <4>3, AgreesUnlessRepaired
      <4> QED BY <1>6, <2>5, <2>7, <3>1, <4>1, <4>2, <4>4, ToolUntouched
    <3> QED BY <3>3, <3>4
  <2> QED BY <2>11, <2>12
<1>11. TrustedTools'
  BY <1>1, <1>10 DEF TrustedTools
<1> QED BY <1>1, <1>2, <1>3, <1>8, <1>11, PostureKeptByStep

-----------------------------------------------------------------------------
(***************************************************************************)
(* The transaction of a synchronization.                                   *)
(***************************************************************************)
\* The agent of a row after the transaction is the linked one, or the one it had.
LEMMA SyncedAgent ==
    ASSUME CatalogueHolds, NEW r, Ready(r), RowsLeft(r), NEW t \in Tools,
           NEW row, row = ToolsAfterSync(r, NewTools(r))[t]
    PROVE  \/ row.agent = LinkedAgent(requests[r].seen, requests[r].target)
           \/ row.agent = tools[t].agent /\ (row.state # "absent" => tools[t].state # "absent")
<1> PICK q : q = requests[r]
  OBVIOUS
<1> PICK s : s = q.target
  OBVIOUS
<1> PICK agent : agent = LinkedAgent(q.seen, s)
  OBVIOUS
<1> PICK created : created = NewTools(r)
  OBVIOUS
<1> PICK change : change = {n \in DOMAIN q.body.match \ Unmatched(r) : q.body.match[n].id = t}
  OBVIOUS
<1> PICK m : m = CHOOSE n \in change : TRUE
  OBVIOUS
<1>1. row = IF \E c \in created : c.id = t THEN CHOOSE c \in created : c.id = t
            ELSE IF change # {}
            THEN NetChange(tools[t], q.body.match[m], Updated(q.body.match[m], s, q.body.offer[m]))
            ELSE IF \E g \in q.body.gone : g.id = t THEN [tools[t] EXCEPT !.state = "deleted"]
            ELSE tools[t]
  BY DEF ToolsAfterSync
<1>2. tools[t] \in ToolRows
  BY DEF CatalogueHolds
<1>3. CASE \E c \in created : c.id = t
  <2>1. row \in created
    BY <1>1, <1>3
  <2>2. \A c \in created : c.agent = agent
    BY DEF NewTools, NewTool
  <2> QED BY <2>1, <2>2
<1>4. CASE ~(\E c \in created : c.id = t) /\ change # {}
  <2>1. PICK n \in DOMAIN requests[r].body.match \ Unmatched(r) :
           n = m /\ q.body.match[n].id = t
    BY <1>4
  <2>2. PICK seen : seen = q.body.match[m]
    OBVIOUS
  <2>3. PICK new : new = Updated(seen, s, q.body.offer[m])
    OBVIOUS
  <2>4. /\ requests[r].body.match[n] \in ToolRows
        /\ tools[requests[r].body.match[n].id].state # "absent"
    BY <2>1, KeptType
  <2>8. seen \in ToolRows /\ tools[t].state # "absent"
    BY <2>1, <2>2, <2>4
  <2>5. new.agent = seen.agent
    BY <2>3, <2>8 DEF Updated, ToolRows
  <2>6. row = NetChange(tools[t], seen, new)
    BY <1>1, <1>4, <2>1, <2>2, <2>3
  <2>7. row.agent = tools[t].agent
    BY <1>2, <2>5, <2>6, NetChangeFields DEF ToolRows
  <2> QED BY <2>7, <2>8
<1>5. CASE ~(\E c \in created : c.id = t) /\ change = {}
  <2>1. CASE \E g \in q.body.gone : g.id = t
    <3>1. tools[t].state # "absent"
      BY <2>1 DEF Ready, PlanHolds, RowHolds
    <3>2. [tools[t] EXCEPT !.state = "deleted"].agent = tools[t].agent
      BY <1>2 DEF ToolRows
    <3> QED BY <1>1, <1>5, <2>1, <3>1, <3>2
  <2>2. CASE ~\E g \in q.body.gone : g.id = t
    BY <1>1, <1>5, <2>2
  <2> QED BY <2>1, <2>2
<1> QED BY <1>3, <1>4, <1>5

\* The rows the transaction has written, and has read for the register, are what it leaves.
WrittenRows(r) == SyncedRowsOf(requests[r]) \cup NewTools(r)

LEMMA WrittenAsSynced ==
    ASSUME CatalogueHolds, NEW r, Ready(r), RowsLeft(r), Planned(requests[r]),
           tools' = ToolsAfterSync(r, NewTools(r))
    PROVE  /\ \A o \in WrittenRows(r) : o.id \in Tools /\ tools'[o.id] = o /\ o \in ToolRows
           /\ \A o \in SyncedRowsOf(requests[r]) :
                 /\ o.state = "live" /\ o.server = requests[r].target
                 /\ o.agent = tools[o.id].agent /\ tools[o.id].state = "live"
           /\ \A c \in NewTools(r) :
                 /\ c.state = "live" /\ c.server = requests[r].target
                 /\ c.agent = LinkedAgent(requests[r].seen, requests[r].target)
                 /\ tools[c.id].state = "absent"
           /\ \A t \in Tools : (\A o \in WrittenRows(r) : o.id # t) =>
                 IF \E g \in requests[r].body.gone : g.id = t THEN tools'[t].state = "deleted"
                 ELSE tools'[t] = tools[t]
<1> PICK q : q = requests[r]
  OBVIOUS
<1> PICK s : s = q.target
  OBVIOUS
<1>1. /\ Unmatched(r) = {n \in DOMAIN q.body.match : q.body.match[n] = None}
      /\ SyncedRowsOf(q) = {Updated(q.body.match[n], s, q.body.offer[n]) :
                               n \in DOMAIN q.body.match \ Unmatched(r)}
  <2>1. Unmatched(r) = {n \in DOMAIN q.body.match : q.body.match[n] = None}
    BY DEF Unmatched
  <2>2. {n \in DOMAIN q.body.match : q.body.match[n] # None} = DOMAIN q.body.match \ Unmatched(r)
    BY <2>1
  <2> QED BY <2>1, <2>2 DEF SyncedRowsOf
<1>2. ASSUME NEW n \in DOMAIN q.body.match \ Unmatched(r),
             NEW o, o = Updated(q.body.match[n], s, q.body.offer[n])
      PROVE  /\ o.id = q.body.match[n].id /\ o.id \in Tools /\ tools'[o.id] = o /\ o \in ToolRows
             /\ o.state = "live" /\ o.server = s
             /\ o.agent = tools[o.id].agent /\ tools[o.id].state = "live"
  <2>1. PICK seen : seen = q.body.match[n]
    OBVIOUS
  <2>2. seen \in ToolRows /\ o \in ToolRows /\ o.server = s /\ o.id = seen.id /\ o.state = seen.state
    BY <1>2, <2>1, KeptType
  <2>3. o.agent = seen.agent
    BY <1>2, <2>1, <2>2 DEF Updated, ToolRows
  <2>4. tools'[seen.id] = o
    BY <1>2, <2>1, MatchedRow
  <2>5. seen = tools[seen.id] /\ seen.state = "live"
    BY <1>1, <1>2, <2>1 DEF Planned
  <2>6. seen.id \in Tools
    BY <2>2 DEF ToolRows
  <2> QED BY <2>1, <2>2, <2>3, <2>4, <2>5, <2>6
<1>3. \A c \in NewTools(r) : /\ c.state = "live" /\ c.server = s /\ c \in ToolRows
                             /\ c.agent = LinkedAgent(q.seen, s)
                             /\ tools[c.id].state = "absent" /\ tools'[c.id] = c
  <2>1. \A c \in NewTools(r) : c.agent = LinkedAgent(q.seen, s)
    BY DEF NewTools, NewTool
  <2>2. \A c \in NewTools(r) : tools'[c.id] = c
    BY CreatedRow
  <2> QED BY <2>1, <2>2, NewToolsType
<1>4. \A c \in NewTools(r) : c.id \in Tools
  BY <1>3 DEF ToolRows
<1>5. \A o \in SyncedRowsOf(q) :
         /\ o.id \in Tools /\ tools'[o.id] = o /\ o \in ToolRows
         /\ o.state = "live" /\ o.server = s
         /\ o.agent = tools[o.id].agent /\ tools[o.id].state = "live"
  BY <1>1, <1>2
<1>6. ASSUME NEW t \in Tools, \A o \in WrittenRows(r) : o.id # t
      PROVE  IF \E g \in q.body.gone : g.id = t THEN tools'[t].state = "deleted"
             ELSE tools'[t] = tools[t]
  <2>1. \A c \in NewTools(r) : c.id # t
    BY <1>6 DEF WrittenRows
  <2>2. \A n \in DOMAIN q.body.match \ Unmatched(r) : q.body.match[n].id # t
    BY <1>1, <1>2, <1>6 DEF WrittenRows
  <2> QED BY <2>1, <2>2, OtherRow
<1> QED BY <1>3, <1>4, <1>5, <1>6 DEF WrittenRows

\* What a synchronization that is alone recomputes the register of is what is discovered
\* after it.
LEMMA SyncedAreDiscovered ==
    ASSUME CatalogueHolds, LinksHold, NEW r, Ready(r), CommitSync(r), Planned(requests[r]),
           SyncedView(requests[r]), requests[r].seen = servers[requests[r].target],
           NEW v, v = SyncView(r, NewTools(r)), CatalogueHolds'
    PROVE  /\ v.tools = DiscoveredRows'
           /\ \A t \in Discovered' :
                 \/ tools'[t] \in WrittenRows(r)
                 \/ /\ t \in Discovered /\ tools'[t] = tools[t]
                    /\ \A o \in WrittenRows(r) : o.id # t
<1> PICK q : q = requests[r]
  OBVIOUS
<1> PICK s : s = q.target
  OBVIOUS
<1> PICK agent : agent = LinkedAgent(q.seen, s)
  OBVIOUS
<1>20. PICK created : created = NewTools(r)
  OBVIOUS
<1>21. PICK own : own = SyncedRowsOf(q)
  OBVIOUS
<1>22. PICK gone : gone = q.body.gone
  OBVIOUS
<1>1. /\ RowsLeft(r) /\ tools' = ToolsAfterSync(r, NewTools(r))
      /\ agents' = [agents EXCEPT ![agent] = IF @ = "absent" THEN "live" ELSE @]
      /\ servers' = [servers EXCEPT ![s] =
            NetChange(servers[s], q.seen, [q.seen EXCEPT !.agent = agent, !.status = "connected"])]
  BY DEF CommitSync
<1>2. s \in Servers /\ s # None /\ q.seen \in ServerRows /\ agent \in Agents
  <2>1. s \in Servers /\ q.seen \in ServerRows
    BY DEF Ready, SyncHolds
  <2> QED BY <2>1, LinkedAgentType, GovernanceAssumption
<1>3. /\ agents'[agent] = "live"
      /\ \A a \in Agents : agents[a] # "absent" => agents'[a] = agents[a]
  BY <1>1, <1>2 DEF CatalogueHolds, SyncedView
<1>4. \A x \in Servers : servers'[x].deleted = servers[x].deleted
  <2>1. PICK new : new = [q.seen EXCEPT !.agent = agent, !.status = "connected"]
    OBVIOUS
  <2>2. PICK net : net = NetChange(servers[s], q.seen, new)
    OBVIOUS
  <2>3. servers[s] \in ServerRows /\ new.deleted = q.seen.deleted
    BY <1>2, <2>1 DEF CatalogueHolds, ServerRows
  <2>4. net.deleted = servers[s].deleted
    BY <2>2, <2>3, NetChangeFields DEF ServerRows
  <2>5. servers' = [servers EXCEPT ![s] = net]
    BY <1>1, <2>1, <2>2
  <2> QED BY <1>2, <2>4, <2>5 DEF CatalogueHolds
<1>5. /\ \A o \in own \cup created : o.id \in Tools /\ tools'[o.id] = o /\ o \in ToolRows
      /\ \A o \in own : /\ o.state = "live" /\ o.server = s
                        /\ o.agent = tools[o.id].agent /\ tools[o.id].state = "live"
      /\ \A c \in created : /\ c.state = "live" /\ c.server = s /\ c.agent = agent
                            /\ tools[c.id].state = "absent"
      /\ \A t \in Tools : (\A o \in own \cup created : o.id # t) =>
            IF \E g \in gone : g.id = t THEN tools'[t].state = "deleted"
            ELSE tools'[t] = tools[t]
  BY <1>1, <1>20, <1>21, <1>22, WrittenAsSynced DEF WrittenRows
<1>6. v.tools = {t \in DiscoveredRows : \A o \in own \cup gone : o.id # t.id}
                \cup {o \in own : agents[o.agent] = "live" /\ ~servers[s].deleted}
                \cup (IF servers[s].deleted THEN {} ELSE created)
  <2>1. DOMAIN q.view = DOMAIN NoView
    BY DEF Ready
  <2>2. v.tools = q.view.tools \cup (IF servers[s].deleted THEN {} ELSE created)
    BY <1>20, <2>1 DEF SyncView, NoView
  <2> QED BY <1>21, <1>22, <2>2 DEF SyncedView
<1>7. \A t \in Tools : /\ tools[t].agent \in Agents /\ tools[t].server \in Servers \cup {None}
                       /\ tools[t].state # "absent" =>
                             agents'[tools[t].agent] = agents[tools[t].agent]
  BY <1>3 DEF CatalogueHolds, ToolRows, LinksHold
<1>8. \A o \in own : o.id \in Discovered' <=> agents[o.agent] = "live" /\ ~servers[s].deleted
  BY <1>2, <1>4, <1>5, <1>7 DEF Discovered, IsDiscovered
<1>9. \A c \in created : c.id \in Discovered' <=> ~servers[s].deleted
  BY <1>2, <1>3, <1>4, <1>5 DEF Discovered, IsDiscovered
<1>10. ASSUME NEW t \in Tools, \A o \in own \cup created : o.id # t
       PROVE  /\ (\E g \in gone : g.id = t) => t \notin Discovered'
              /\ ~(\E g \in gone : g.id = t) =>
                    tools'[t] = tools[t] /\ (t \in Discovered' <=> t \in Discovered)
  BY <1>4, <1>5, <1>7, <1>10 DEF Discovered, IsDiscovered
<1>11. \A t \in Discovered : \A c \in created : c.id # t
  BY <1>5 DEF Discovered, IsDiscovered
<1>12. ASSUME NEW t \in Discovered'
       PROVE  /\ tools'[t] \in v.tools
              /\ \/ tools'[t] \in own \cup created
                 \/ /\ t \in Discovered /\ tools'[t] = tools[t]
                    /\ \A o \in own \cup created : o.id # t
  <2>1. t \in Tools
    BY DEF Discovered
  <2>2. CASE \E o \in own : o.id = t
    BY <1>5, <1>6, <1>8, <1>12, <2>2
  <2>3. CASE \E c \in created : c.id = t
    BY <1>5, <1>6, <1>9, <1>12, <2>3
  <2>4. CASE \A o \in own \cup created : o.id # t
    <3>1. /\ ~(\E g \in gone : g.id = t) /\ tools'[t] = tools[t] /\ t \in Discovered
      BY <1>10, <1>12, <2>1, <2>4
    <3>2. tools[t] \in DiscoveredRows /\ tools[t].id = t
      BY <2>1, <3>1 DEF DiscoveredRows, CatalogueHolds
    <3> QED BY <1>6, <2>4, <3>1, <3>2
  <2> QED BY <2>2, <2>3, <2>4
<1>13. ASSUME NEW row \in v.tools
       PROVE  row \in DiscoveredRows'
  <2>1. \A t \in Discovered' : tools'[t] \in DiscoveredRows'
    BY DEF DiscoveredRows
  <2>2. CASE row \in own /\ agents[row.agent] = "live" /\ ~servers[s].deleted
    BY <1>5, <1>8, <2>1, <2>2
  <2>3. CASE row \in created /\ ~servers[s].deleted
    BY <1>5, <1>9, <2>1, <2>3
  <2>4. CASE row \in DiscoveredRows /\ \A o \in own \cup gone : o.id # row.id
    <3>1. PICK t \in Discovered : row = tools[t] /\ t \in Tools /\ row.id = t
      BY <2>4 DEF DiscoveredRows, Discovered, CatalogueHolds
    <3>2. tools'[t] = tools[t] /\ t \in Discovered'
      BY <1>10, <1>11, <2>4, <3>1
    <3> QED BY <2>1, <3>1, <3>2
  <2> QED BY <1>6, <2>2, <2>3, <2>4
<1>14. \A row \in DiscoveredRows' : row \in v.tools
  BY <1>12 DEF DiscoveredRows
<1> QED BY <1>12, <1>13, <1>14, <1>20, <1>21 DEF WrittenRows

\* What the events of a synchronization say is not about the other kinds of alerts.
LEMMA VerdictsOfEvents ==
    ASSUME NEW r, NEW created, NEW k \in ToolAlertKinds \cup RiskAlertKinds, NEW t
    PROVE  Verdicts(EventWants(r, created), KeyOf(k, t)) = {}
<1>1. ASSUME NEW w \in EventWants(r, created)
      PROVE  w.kind \in EventAlertKinds
  <2>1. \E kind \in EventAlertKinds : \E tool : w = Event(kind, tool)
    BY DEF EventWants, EventAlertKinds
  <2> QED BY <2>1 DEF Event, Want
<1>2. k \notin EventAlertKinds
  BY DEF ToolAlertKinds, RiskAlertKinds, EventAlertKinds
<1>3. \A w : AlertKey(w) = KeyOf(k, t) => w.kind = k
  BY DEF AlertKey, KeyOf
<1> QED BY <1>1, <1>2, <1>3 DEF Verdicts, Of

\* Of three parts, what a key gets from one when the others do not concern it.
LEMMA VerdictsOfThree ==
    ASSUME NEW A, NEW B, NEW C, NEW wants, wants = A \cup B \cup C, NEW key,
           Verdicts(A, key) = {}
    PROVE  /\ Verdicts(B, key) = {} => Verdicts(wants, key) = Verdicts(C, key)
           /\ Verdicts(C, key) = {} => Verdicts(wants, key) = Verdicts(B, key)
<1>1. \A v : v \in Verdicts(wants, key) <=>
                v \in Verdicts(A, key) \/ v \in Verdicts(B, key) \/ v \in Verdicts(C, key)
  <2>1. \A w : w \in wants <=> w \in A \/ w \in B \/ w \in C
    OBVIOUS
  <2> QED BY <2>1, VerdictMembers
<1> QED BY <1>1

\* What the transaction of a synchronization reconciles.
LEMMA SyncReconciles ==
    ASSUME GovernanceInv, NEW r \in Requests, CommitSync(r)
    PROVE  \E v, lost, events, own, risks, wants :
              /\ v = SyncView(r, NewTools(r))
              /\ lost = [t \in WrittenRows(r) |-> FALSE]
              /\ events = EventWants(r, NewTools(r))
              /\ own = WantsOf(WrittenRows(r), v.rules, lost)
              /\ risks = RiskWants(v.tools, v.rules)
              /\ wants = events \cup own \cup risks
              /\ wants \subseteq WantRows /\ Reconciles(wants, v.active)
              /\ ViewHolds(v) /\ SetRegister(v)
              /\ v.rules = requests[r].view.rules /\ v.active = requests[r].view.active
              /\ v.records = requests[r].view.records
<1>30. PICK v, rows, lost, events, own, risks, wants :
         /\ v = SyncView(r, NewTools(r)) /\ rows = WrittenRows(r)
         /\ lost = [t \in rows |-> FALSE]
         /\ events = EventWants(r, NewTools(r))
         /\ own = WantsOf(rows, v.rules, lost)
         /\ risks = RiskWants(v.tools, v.rules)
         /\ wants = events \cup own \cup risks
  OBVIOUS
<1> PICK q : q = requests[r]
  OBVIOUS
<1> PICK s : s = q.target
  OBVIOUS
<1>20. PICK created : created = NewTools(r)
  OBVIOUS
<1>21. PICK kept : kept = {Updated(q.body.match[n], s, q.body.offer[n]) :
                              n \in DOMAIN q.body.match \ Unmatched(r)}
  OBVIOUS
<1>1. /\ q.pc = "read" /\ q.turn = "sync" /\ RowsLeft(r) /\ SetRegister(v)
  BY <1>30 DEF CommitSync
<1>2. Reconciles(events \cup (UNION {ToolWants(t, v.rules, FALSE) : t \in kept \cup created})
                 \cup risks, v.active)
  BY <1>20, <1>21, <1>30 DEF CommitSync
<1>3. Ready(r) /\ CatalogueHolds
  BY <1>1, IsReady DEF GovernanceInv
<1>4. /\ s \in Servers /\ ViewHolds(q.view) /\ DOMAIN q.view = DOMAIN NoView
  BY <1>3 DEF Ready, SyncHolds
<1>5. /\ v.rules = q.view.rules /\ v.active = q.view.active /\ v.records = q.view.records
      /\ v.controls = q.view.controls /\ v.tools \subseteq q.view.tools \cup created
  BY <1>4, <1>20, <1>30 DEF SyncView, NoView
<1>6. \A c \in created : c \in ToolRows /\ c.server # None
  <2>1. s # None
    BY <1>4, GovernanceAssumption
  <2> QED BY <1>1, <1>3, <1>20, <2>1, NewToolsType
<1>7. ViewHolds(v)
  BY <1>4, <1>5, <1>6 DEF ViewHolds
<1>8. kept = SyncedRowsOf(q) /\ rows = kept \cup created
  <2>1. DOMAIN q.body.match \ Unmatched(r) = {n \in DOMAIN q.body.match : q.body.match[n] # None}
    BY DEF Unmatched
  <2>2. kept = SyncedRowsOf(q)
    BY <1>21, <2>1 DEF SyncedRowsOf
  <2> QED BY <1>20, <1>30, <2>2 DEF WrittenRows
<1>9. own = UNION {ToolWants(t, v.rules, FALSE) : t \in kept \cup created}
  <2>1. \A t \in rows : lost[t] = FALSE
    BY <1>30
  <2>2. own = UNION {ToolWants(t, v.rules, FALSE) : t \in rows}
    BY <1>30, <2>1 DEF WantsOf
  <2> QED BY <1>8, <2>2
<1>10. events \subseteq WantRows /\ risks \subseteq WantRows
  <2>1. events \subseteq WantRows
    BY <1>1, <1>3, <1>20, <1>30, SyncWantsType
  <2>2. risks \subseteq WantRows
    BY <1>7, <1>30, RiskWantsType DEF ViewHolds
  <2> QED BY <2>1, <2>2
<1>11. own \subseteq WantRows
  <2>1. /\ \A n \in DOMAIN q.body.match \ Unmatched(r) : \A ruleSet :
              ToolWants(Updated(q.body.match[n], s, q.body.offer[n]), ruleSet, FALSE)
                 \subseteq WantRows
        /\ \A c \in created : \A ruleSet : ToolWants(c, ruleSet, FALSE) \subseteq WantRows
    BY <1>1, <1>3, <1>20, SyncWantsType
  <2>2. \A t \in kept \cup created : ToolWants(t, v.rules, FALSE) \subseteq WantRows
    BY <1>21, <2>1
  <2> QED BY <1>9, <2>2
<1>12. wants \subseteq WantRows /\ Reconciles(wants, v.active)
  BY <1>2, <1>9, <1>10, <1>11, <1>30
<1> WITNESS v, lost, events, own, risks, wants
<1> QED BY <1>1, <1>5, <1>7, <1>12, <1>30

LEMMA PostureKeptByCommitSync ==
    ASSUME GovernanceInv, PostureInv, SyncInv, NEW r \in Requests, CommitSync(r)
    PROVE  PostureInv'
<1> PICK q : q = requests[r]
  OBVIOUS
<1> PICK s : s = q.target
  OBVIOUS
<1>20. PICK created : created = NewTools(r)
  OBVIOUS
<1>21. PICK rows : rows = WrittenRows(r)
  OBVIOUS
<1>22. PICK v, lost, events, own, risks, wants :
         /\ v = SyncView(r, created) /\ lost = [t \in rows |-> FALSE]
         /\ events = EventWants(r, created)
         /\ own = WantsOf(rows, v.rules, lost) /\ risks = RiskWants(v.tools, v.rules)
         /\ wants = events \cup own \cup risks
         /\ wants \subseteq WantRows /\ Reconciles(wants, v.active)
         /\ ViewHolds(v) /\ SetRegister(v)
         /\ v.rules = q.view.rules /\ v.active = q.view.active /\ v.records = q.view.records
  BY <1>20, <1>21, SyncReconciles
<1>23. PICK ruleSet : ruleSet = v.rules
  OBVIOUS
<1>24. PICK shown : shown = v.tools
  OBVIOUS
<1>26. /\ own = WantsOf(rows, ruleSet, lost) /\ risks = RiskWants(shown, ruleSet)
       /\ wants = events \cup own \cup risks
  BY <1>22, <1>23, <1>24
<1>29. PICK next : next = [IdleRequest EXCEPT !.pc = "done"]
  OBVIOUS
<1>1. /\ q.pc = "read" /\ q.turn = "sync" /\ RowsLeft(r)
      /\ tools' = ToolsAfterSync(r, created) /\ rules' = rules /\ trusted' = trusted
      /\ requests' = [requests EXCEPT ![r] = next]
  BY <1>20, <1>29 DEF CommitSync, Ends
<1>2. agents' = [agents EXCEPT ![LinkedAgent(q.seen, s)] = IF @ = "absent" THEN "live" ELSE @]
  BY DEF CommitSync
<1>4. Ready(r) /\ CatalogueHolds /\ CatalogueHolds' /\ RegisterHolds /\ LinksHold
  BY <1>1, IsReady, CommitSyncKeeps DEF GovernanceInv, PostureInv
<1>5. InProgress(r) /\ q.op = "sync" /\ next.pc \in Ended /\ ~HalfWay(next)
  BY <1>1, <1>4, <1>29
     DEF InProgress, Ended, Ready, SyncHolds, IdleRequest, HalfWay, RepairPhases
<1>6. LinksHold'
  <2>1. PICK agent : agent = LinkedAgent(q.seen, s)
    OBVIOUS
  <2>2. agent \in Agents
    BY <1>4, <2>1, LinkedAgentType DEF Ready, SyncHolds
  <2>3. /\ agents'[agent] # "absent"
        /\ \A a \in Agents : agents[a] # "absent" => agents'[a] # "absent"
    BY <1>2, <1>4, <2>1, <2>2 DEF CatalogueHolds
  <2>4. ASSUME NEW t \in Tools, tools'[t].state # "absent"
        PROVE  agents'[tools'[t].agent] # "absent"
    <3>1. PICK row : row = ToolsAfterSync(r, NewTools(r))[t]
      OBVIOUS
    <3>2. tools'[t] = row
      BY <1>1, <1>20, <3>1
    <3>3. row.agent = agent \/ (row.agent = tools[t].agent /\
             (row.state # "absent" => tools[t].state # "absent"))
      BY <1>1, <1>4, <2>1, <3>1, SyncedAgent
    <3>4. tools[t].agent \in Agents
      BY <1>4 DEF CatalogueHolds, ToolRows
    <3> QED BY <1>4, <2>3, <2>4, <3>2, <3>3, <3>4 DEF LinksHold
  <2> QED BY <2>4 DEF LinksHold
<1>7. Doubles(alerts)' \subseteq doubled'
  BY <1>22, DoublesAreNoted DEF PostureInv
<1>8. ASSUME trusted
      PROVE  \A t \in Discovered' : ToolAgrees(t)' /\ RiskAgrees(t)'
  <2>1. q.alone /\ \A t \in Discovered : ToolAgrees(t)
    <3>1. \A t : ~Repairs(q, t)
      BY <1>1, <1>5 DEF Repairs, RuleOperations
    <3> QED BY <1>5, <1>8, <3>1, AgreesUnlessRepaired
  <2>2. v.rules = EnabledRules /\ v.active = ActiveAlerts /\ SyncedView(q)
    BY <1>1, <1>22, <1>5, <2>1 DEF PostureInv, KnowsPosture
  <2>3. v.records = records
    <3>1. AloneHolds(r)
      BY DEF GovernanceInv
    <3> QED BY <1>1, <1>22, <1>5, <2>1, <3>1 DEF AloneHolds
  <2>4. q.seen = servers[s] /\ Planned(q)
    BY <1>1, <2>1 DEF SyncInv, KnowsServer
  <2>5. Reconciling(wants)
    BY <1>22, <2>2 DEF Reconciling, GovernanceInv, PostureInv
  <2>6. /\ v.tools = DiscoveredRows'
        /\ \A t \in Discovered' :
              \/ tools'[t] \in rows
              \/ /\ t \in Discovered /\ tools'[t] = tools[t]
                 /\ \A o \in rows : o.id # t
    BY <1>4, <1>20, <1>21, <1>22, <2>2, <2>4, SyncedAreDiscovered
  <2>7. \A o \in rows : o.id \in Tools /\ tools'[o.id] = o
    BY <1>1, <1>4, <1>20, <1>21, <2>4, WrittenAsSynced
  <2>8. DistinctIds(rows)
    BY <2>7 DEF DistinctIds
  <2>9. DistinctIds(shown)
    BY <1>4, <1>24, <2>6 DEF DistinctIds, DiscoveredRows, Discovered, CatalogueHolds
  <2>10. ruleSet = EnabledRules'
    BY <1>1, <1>22, <1>23, <2>2 DEF EnabledRules
  <2>11. /\ \A k \in ToolAlertKinds : k \notin RiskAlertKinds
         /\ \A k \in RiskAlertKinds : k \notin ToolAlertKinds
    BY DEF ToolAlertKinds, RiskAlertKinds
  <2>12. \A k \in ToolAlertKinds \cup RiskAlertKinds : \A t :
            Verdicts(events, KeyOf(k, t)) = {}
    BY <1>22, VerdictsOfEvents
  <2>13. ASSUME NEW k \in RiskAlertKinds, NEW t
         PROVE  Verdicts(wants, KeyOf(k, t)) = Verdicts(risks, KeyOf(k, t))
    <3>1. PICK key : key = KeyOf(k, t)
      OBVIOUS
    <3>2. Verdicts(events, key) = {}
      BY <2>12, <3>1
    <3>3. Verdicts(own, key) = {}
      BY <1>26, <2>8, <2>11, <3>1, VerdictsOfTools
    <3> QED BY <1>26, <3>1, <3>2, <3>3, VerdictsOfThree
  <2>14. ASSUME NEW k \in ToolAlertKinds, NEW t
         PROVE  Verdicts(wants, KeyOf(k, t)) = Verdicts(own, KeyOf(k, t))
    <3>1. PICK key : key = KeyOf(k, t)
      OBVIOUS
    <3>2. Verdicts(events, key) = {}
      BY <2>12, <3>1
    <3>3. Verdicts(risks, key) = {}
      BY <1>26, <2>9, <2>11, <3>1, VerdictsOfRows
    <3> QED BY <1>26, <3>1, <3>2, <3>3, VerdictsOfThree
  <2>15. \A t \in Discovered' : RiskAgrees(t)'
    <3>1. \A row \in v.tools : \A k \in RiskAlertKinds :
             Verdicts(wants, KeyOf(k, row)) = Verdicts(RiskWants(v.tools, v.rules), KeyOf(k, row))
      BY <1>22, <2>13
    <3>2. v.rules = EnabledRules'
      BY <1>23, <2>10
    <3>3. /\ RegisterHolds /\ CatalogueHolds' /\ ViewHolds(v) /\ SetRegister(v)
          /\ v.tools = DiscoveredRows'
      BY <1>4, <1>22, <2>6
    <3> QED BY <2>3, <2>5, <3>1, <3>2, <3>3, RegisterAgrees
  <2>16. ASSUME NEW t \in Discovered'
         PROVE  ToolAgrees(t)'
    <3>1. t \in Tools
      BY <2>16 DEF Discovered
    <3>2. CASE tools'[t] \in rows
      <4>1. PICK row : row = tools'[t]
        OBVIOUS
      <4>2. PICK was \in BOOLEAN : was = FALSE
        OBVIOUS
      <4>3. \A k \in ToolAlertKinds :
               Verdicts(own, KeyOf(k, row)) = {ToolAlertOpinion(k, row, ruleSet, lost[row])}
        BY <1>26, <2>8, <3>2, <4>1, VerdictsOfTools
      <4>4. lost[row] = was
        BY <1>22, <3>2, <4>1, <4>2
      <4>5. \A k \in ToolAlertKinds :
               Verdicts(wants, KeyOf(k, row)) = {ToolAlertOpinion(k, row, ruleSet, was)}
        BY <2>14, <4>3, <4>4
      <4> QED BY <1>4, <2>5, <2>10, <3>1, <4>1, <4>2, <4>5, ToolFollows
    <3>3. CASE t \in Discovered /\ tools'[t] = tools[t] /\ \A o \in rows : o.id # t
      <4>1. PICK row : row = tools[t]
        OBVIOUS
      <4>2. row.id = t
        BY <1>4, <3>1, <4>1 DEF CatalogueHolds
      <4>3. \A k : Verdicts(own, KeyOf(k, row)) = {}
        BY <1>26, <2>8, <3>3, <4>2, VerdictsOfTools
      <4>4. \A k \in ToolAlertKinds : Verdicts(wants, KeyOf(k, tools[t])) = {}
        BY <2>14, <4>1, <4>3
      <4> QED BY <1>1, <1>4, <2>1, <2>5, <3>1, <3>3, <4>4, ToolUntouched
    <3> QED BY <2>6, <3>2, <3>3
  <2> QED BY <2>15, <2>16
<1>9. TrustedTools'
  BY <1>1, <1>8 DEF TrustedTools
<1> QED BY <1>1, <1>5, <1>6, <1>7, <1>9, PostureKeptByStep

LEMMA PostureInvInit == GovernanceInit => PostureInv
<1> SUFFICES ASSUME GovernanceInit
             PROVE  PostureInv
  OBVIOUS
<1>1. PICK c \in InitialCatalogs : agents = c.agents /\ tools = c.tools
  BY DEF GovernanceInit
<1>2. LinksHold
  <2>1. IsCatalog(c)
    BY <1>1, GovernanceAssumption
  <2> QED BY <1>1, <2>1 DEF IsCatalog, LinksHold
<1>3. \A r \in Requests : requests[r].pc = "idle"
  BY DEF GovernanceInit, IdleRequest
<1>4. \A r \in Requests : ~InProgress(r) /\ ~HalfWay(requests[r])
  BY <1>3 DEF InProgress, Ended, HalfWay, RepairPhases
<1>5. Doubles(alerts) \subseteq doubled
  BY DEF GovernanceInit, Doubles
<1>6. ~trusted
  BY DEF GovernanceInit
<1> QED BY <1>2, <1>4, <1>5, <1>6 DEF PostureInv, HalfRepaired, TrustedRequests, TrustedTools

LEMMA PostureInvStutters ==
    ASSUME PostureInv, UNCHANGED governanceVars
    PROVE  PostureInv'
<1>1. UNCHANGED catalogue
  BY DEF governanceVars
<1>2. /\ tools' = tools /\ agents' = agents /\ servers' = servers /\ rules' = rules
      /\ alerts' = alerts /\ doubled' = doubled /\ records' = records
      /\ requests' = requests /\ trusted' = trusted
  BY DEF governanceVars, catalogue, projections
<1>3. /\ Discovered' = Discovered /\ DiscoveredRows' = DiscoveredRows
      /\ EnabledRules' = EnabledRules /\ ActiveAlerts' = ActiveAlerts
  BY <1>1, <1>2, DiscoveredKept DEF ActiveAlerts
<1>4. \A t \in Discovered : /\ ToolAgrees(t) => ToolAgrees(t)'
                            /\ RiskAgrees(t) => RiskAgrees(t)'
  BY <1>2, AgreementKept
<1>5. \A r \in Requests : /\ InProgress(r)' <=> InProgress(r)
                          /\ HalfRepaired(r) => HalfRepaired(r)'
  BY <1>2, <1>3, <1>4 DEF InProgress, HalfRepaired
<1>6. \A r \in Requests : KnowsPosture(requests[r]) => KnowsPosture(requests[r])'
  BY <1>2, <1>3 DEF KnowsPosture, ReviewedRows, SyncedView
<1>7. \A t : AwaitsRepair(t) => AwaitsRepair(t)'
  BY <1>2 DEF AwaitsRepair
<1>8. TrustedTools' /\ TrustedRequests'
  BY <1>2, <1>3, <1>4, <1>5, <1>7 DEF PostureInv, TrustedTools, TrustedRequests
<1>9. LinksHold' /\ Doubles(alerts)' \subseteq doubled'
  BY <1>2 DEF PostureInv, LinksHold, Doubles
<1> QED BY <1>2, <1>5, <1>6, <1>8, <1>9 DEF PostureInv

LEMMA PostureInvKept ==
    ASSUME GovernanceInv, PostureInv, SyncInv, NEW r \in Requests,
           GovernanceNext(r) \/ SyncNext(r)
    PROVE  PostureInv'
<1>1. CASE RuleNext(r)
  <2>1. Beginning(r) \/ CommitRule(r)
    <3>1. /\ {"update rule", "delete rule"} \subseteq RuleOperations
          /\ None \in RuleBodies \cup {None}
          /\ \A body \in RuleBodies : body \in RuleBodies \cup {None}
      BY Zenon DEF RuleOperations
    <3>2. ASSUME NEW i \in RuleIds, NEW body \in RuleBodies \cup {None},
                 NEW op \in {"update rule", "delete rule"}, LoadRule(r, i, op, body)
          PROVE  Beginning(r)
      BY <3>1, <3>2, Zenon DEF Beginning
    <3>3. ASSUME NEW i \in RuleIds, NEW body \in RuleBodies, LoadRuleToCreate(r, i, body)
          PROVE  Beginning(r)
      BY <3>3, Zenon DEF Beginning
    <3>4. ASSUME NEW i \in RuleIds,
                 NEW body \in RuleBodies, LoadRule(r, i, "update rule", body)
          PROVE  Beginning(r)
      BY <3>1, <3>2, <3>4, Zenon
    <3>5. ASSUME NEW i \in RuleIds, LoadRule(r, i, "delete rule", None)
          PROVE  Beginning(r)
      BY <3>1, <3>2, <3>5, Zenon
    <3> QED BY <1>1, <3>3, <3>4, <3>5, Zenon DEF RuleNext
  <2> QED BY <2>1, PostureKeptByBeginnings, PostureKeptByCommitRule
<1>2. CASE CatalogueNext(r)
  BY <1>2, PostureKeptByBeginnings, PostureKeptByCommitTool DEF CatalogueNext, Beginning
<1>3. CASE AlertNext(r)
  BY <1>3, PostureKeptByBeginnings, PostureKeptByCommitAlert DEF AlertNext, Beginning
<1>4. CASE RegisterNext(r)
  BY <1>4, PostureKeptByBeginnings, PostureKeptByBuildItems, PostureKeptByEnds
     DEF RegisterNext, Beginning
<1>5. CASE SyncNext(r)
  BY <1>5, PostureKeptByBeginnings, PostureKeptBySyncSteps, PostureKeptByFailure,
     PostureKeptByReadSync, PostureKeptByCommitSync
     DEF SyncNext
<1>6. CASE ReadRules(r) \/ ReadTools(r)
  BY <1>6, PostureKeptByReadRules, PostureKeptByReadTools
<1>7. CASE ReconcileAllTools(r) \/ ReconcileRisk(r) \/ ReconcileTool(r)
  BY <1>7, PostureKeptByReconcileAllTools, PostureKeptByReconcileRisk,
     PostureKeptByReconcileTool
<1>8. CASE Conflict(r) \/ Crash(r)
  BY <1>8, PostureKeptByEnds
<1> QED BY <1>1, <1>2, <1>3, <1>4, <1>5, <1>6, <1>7, <1>8 DEF GovernanceNext

\* What is promised of a tool and its record, alert by alert.
AsPromised(t, tool, record) ==
    /\ records[t] = record
    /\ Agrees("high_risk_unreviewed", t, ~tool.reviewed /\ tool.risk \in HighRisks)
    /\ Agrees("ungoverned_tool", t, record.governance # "governed")
    /\ Agrees("compliance_non_compliant", t, record.compliance = "non_compliant")
    /\ Agrees("critical_policy_coverage_lost", t,
              tool.risk = "critical" /\ record.coverage = "uncovered")
    /\ Agrees("critical_tool_unreviewed", t, tool.risk = "critical" /\ ~tool.reviewed)
    /\ IsActive("policy_coverage_lost", t) /\ Single("policy_coverage_lost", t)
          => record.coverage = "uncovered"

LEMMA PromisedForEach ==
    ASSUME trusted /\ Idle => \A t \in Discovered :
              AsPromised(t, tools[t], RiskRecord(tools[t], EnabledRules))
    PROVE  PostureAgrees
<1> DEFINE Due(kind, tool, record) ==
              CASE kind = "high_risk_unreviewed" -> ~tool.reviewed /\ tool.risk \in HighRisks
                [] kind = "ungoverned_tool" -> record.governance # "governed"
                [] kind = "compliance_non_compliant" -> record.compliance = "non_compliant"
                [] kind = "critical_policy_coverage_lost" ->
                      tool.risk = "critical" /\ record.coverage = "uncovered"
                [] kind = "critical_tool_unreviewed" -> tool.risk = "critical" /\ ~tool.reviewed
<1>1. SUFFICES ASSUME trusted, Idle, NEW t \in Discovered
               PROVE  LET tool == tools[t]
                          record == RiskRecord(tool, EnabledRules)
                      IN  /\ records[t] = record
                          /\ \A k \in (ToolAlertKinds \cup RiskAlertKinds)
                                       \ {"policy_coverage_lost"} :
                                /\ Due(k, tool, record) => IsActive(k, t)
                                /\ Single(k, t) /\ IsActive(k, t) => Due(k, tool, record)
                          /\ IsActive("policy_coverage_lost", t)
                                /\ Single("policy_coverage_lost", t)
                                => record.coverage = "uncovered"
  BY Zenon DEF PostureAgrees
<1>4. PICK tool, record : tool = tools[t] /\ record = RiskRecord(tool, EnabledRules)
  OBVIOUS
<1>2. AsPromised(t, tool, record)
  BY <1>1, <1>4
<1>3. ASSUME NEW k \in (ToolAlertKinds \cup RiskAlertKinds) \ {"policy_coverage_lost"}
      PROVE  Agrees(k, t, Due(k, tool, record))
  <2>1. k \in {"high_risk_unreviewed", "ungoverned_tool", "compliance_non_compliant",
               "critical_policy_coverage_lost", "critical_tool_unreviewed"}
    BY <1>3 DEF ToolAlertKinds, RiskAlertKinds
  <2> QED BY <1>2, <2>1 DEF AsPromised, Agrees
<1> HIDE DEF Due
<1> QED BY <1>2, <1>3, <1>4 DEF AsPromised, Agrees

LEMMA PostureInvImplies == PostureInv => PostureAgrees
<1> SUFFICES ASSUME PostureInv, trusted, Idle, NEW t \in Discovered,
                    NEW tool, tool = tools[t],
                    NEW record, record = RiskRecord(tool, EnabledRules)
             PROVE  AsPromised(t, tool, record)
  BY PromisedForEach
<1>1. ~AwaitsRepair(t)
  BY DEF AwaitsRepair, Repairs, RepairPhases, Idle, InProgress, Ended
<1>2. ToolAgrees(t) /\ RiskAgrees(t)
  BY <1>1 DEF PostureInv, TrustedTools
<1>3. PICK ruleSet : ruleSet = EnabledRules
  OBVIOUS
<1>4. /\ record.governance = GovernanceStatus(tool, ruleSet)
      /\ record.coverage = PolicyCoverage(tool, ruleSet)
  BY <1>3 DEF RiskRecord
<1>5. /\ record.governance = "governed" <=> tool.reviewed /\ IsCovered(tool, ruleSet)
      /\ record.governance = "unreviewed" <=> ~tool.reviewed
      /\ record.coverage = "uncovered" <=> ~IsCovered(tool, ruleSet)
  BY <1>4 DEF GovernanceStatus, PolicyCoverage, IsCovered
<1> QED BY <1>2, <1>3, <1>5 DEF ToolAgrees, RiskAgrees, Agrees, AsPromised

(***************************************************************************)
(* Theorem: once an operation on a rule has run alone to its end, and for  *)
(* as long as whatever follows runs alone to its end, each discovered tool *)
(* has, whenever nothing is in progress, the record and the alerts that    *)
(* its review and the enabled rules make it have (services/policy_rules.py,*)
(* governance_alerts.py, risk_compliance.py; review_tool, update_agent_tool,*)
(* sync_mcp_server): for any tools, rules and offers, and however long     *)
(* that goes on.                                                           *)
(***************************************************************************)
THEOREM PostureKept == Spec => []PostureAgrees
<1>1. GovernanceInit => PostureInv
  BY PostureInvInit
<1>2. GovernanceInv /\ SyncInv /\ PostureInv /\ [Next]_governanceVars => PostureInv'
  BY PostureInvKept, PostureInvStutters DEF Next
<1>3. PostureInv => PostureAgrees
  BY PostureInvImplies
<1> QED BY <1>1, <1>2, <1>3, GovernanceInvariant, SyncInvariant, PTL DEF Spec

-----------------------------------------------------------------------------
(***************************************************************************)
(* The scores.                                                             *)
(***************************************************************************)
LEMMA FiniteImage ==
    ASSUME NEW S, IsFiniteSet(S), NEW f, DOMAIN f = S
    PROVE  IsFiniteSet({f[x] : x \in S})
<1>1. PICK T : T = {f[x] : x \in S}
  OBVIOUS
<1>2. PICK g : g = [x \in S |-> f[x]]
  OBVIOUS
<1>3. g \in Surjection(S, T)
  BY <1>1, <1>2 DEF Surjection
<1> QED BY <1>1, <1>3, FS_Surjection

LEMMA KindsAreFinite == IsFiniteSet(AlertKinds) /\ IsFiniteSet(RiskLevels)
<1>1. \A a, b, c : IsFiniteSet({a, b, c})
  <2> TAKE a, b, c
  <2>1. IsFiniteSet({a}) /\ IsFiniteSet({a} \cup {b}) /\ IsFiniteSet(({a} \cup {b}) \cup {c})
    BY FS_Singleton, FS_AddElement
  <2>2. {a, b, c} = ({a} \cup {b}) \cup {c}
    OBVIOUS
  <2> QED BY <2>1, <2>2
<1>2. \A a, b, c, d : IsFiniteSet({a, b, c, d})
  <2> TAKE a, b, c, d
  <2>1. IsFiniteSet({a, b, c} \cup {d}) /\ {a, b, c, d} = {a, b, c} \cup {d}
    BY <1>1, FS_AddElement
  <2> QED BY <2>1
<1>3. /\ IsFiniteSet(ToolAlertKinds) /\ IsFiniteSet(RiskAlertKinds)
      /\ IsFiniteSet(EventAlertKinds) /\ IsFiniteSet(RiskLevels)
  BY <1>1, <1>2, Zenon DEF ToolAlertKinds, RiskAlertKinds, EventAlertKinds, RiskLevels
<1> QED BY <1>3, FS_Union DEF AlertKinds

\* The keys are few and the numbers of a key dense; of a key and a number there is one alert
\* for a severity.
LEMMA AlertsAreFinite ==
    ASSUME AlertsHold
    PROVE  IsFiniteSet(alerts)
<1>1. PICK keys : keys = (AlertKinds \X Tools) \X Servers
  OBVIOUS
<1>2. IsFiniteSet(keys)
  BY <1>1, KindsAreFinite, FS_Product, GovernanceAssumption
<1>3. PICK f : f = [k \in keys |-> Numbers(<<k[1][1], k[1][2], k[2]>>)]
  OBVIOUS
<1>4. PICK numbers : numbers = UNION {f[k] : k \in keys}
  OBVIOUS
<1>5. \A a \in alerts : /\ a.kind \in AlertKinds /\ a.tool \in Tools /\ a.server \in Servers
                        /\ a.severity \in RiskLevels
  BY DEF AlertsHold, AlertRows, AlertKinds
<1>6. ASSUME NEW k \in keys
      PROVE  IsFiniteSet(f[k])
  <2>1. PICK key : key = <<k[1][1], k[1][2], k[2]>>
    OBVIOUS
  <2>2. f[k] = Numbers(key)
    BY <1>3, <2>1
  <2>3. CASE \E a \in alerts : AlertKey(a) = key
    <3>1. IsFiniteSet(Numbers(key))
      BY <2>3 DEF AlertsHold
    <3> QED BY <2>2, <3>1
  <2>4. CASE ~\E a \in alerts : AlertKey(a) = key
    <3>1. Numbers(key) = {}
      BY <2>4 DEF Numbers, Of
    <3> QED BY <2>2, <3>1, FS_EmptySet
  <2> QED BY <2>3, <2>4
<1>7. IsFiniteSet(numbers)
  <2>2. DOMAIN f = keys
    BY <1>3
  <2>1. IsFiniteSet({f[k] : k \in keys})
    BY <1>2, <2>2, FiniteImage
  <2> QED BY <1>4, <1>6, <2>1, FS_UNION
<1>8. ASSUME NEW a \in alerts
      PROVE  a.number \in numbers
  <2>1. PICK k : k = <<<<a.kind, a.tool>>, a.server>>
    OBVIOUS
  <2>2. k \in keys /\ <<k[1][1], k[1][2], k[2]>> = AlertKey(a)
    BY <1>1, <1>5, <2>1 DEF AlertKey
  <2>3. a.number \in f[k]
    BY <1>3, <2>2 DEF Numbers, Of
  <2> QED BY <1>4, <2>2, <2>3
<1>9. PICK T : T = keys \X (numbers \X RiskLevels)
  OBVIOUS
<1>10. IsFiniteSet(T)
  BY <1>2, <1>7, <1>9, KindsAreFinite, FS_Product
<1>11. PICK g : g = [a \in alerts |-> <<<<<<a.kind, a.tool>>, a.server>>, <<a.number, a.severity>>>>]
  OBVIOUS
<1>12. g \in [alerts -> T]
  BY <1>1, <1>5, <1>8, <1>9, <1>11
<1>13. ASSUME NEW a \in alerts, NEW b \in alerts, g[a] = g[b]
       PROVE  a = b
  <2>1. /\ a.kind = b.kind /\ a.tool = b.tool /\ a.server = b.server
        /\ a.number = b.number /\ a.severity = b.severity
    BY <1>11, <1>13
  <2>2. SameState(a, b)
    BY <2>1 DEF AlertsHold, SameAlert, AlertKey
  <2>3. a \in AlertRows /\ b \in AlertRows
    BY DEF AlertsHold
  <2> QED BY <2>1, <2>2, <2>3 DEF AlertRows, SameState
<1>14. g \in Injection(alerts, T)
  BY <1>12, <1>13 DEF Injection, IsInjective
<1> QED BY <1>10, <1>14, FS_Injection

\* An alert of a compliance violation is always of high severity.
AreSevere(rows) == \A a \in rows : a.kind = "compliance_non_compliant" => a.severity = "high"

SeverityInv == AreSevere(alerts)

LEMMA WantsAreSevere ==
    /\ \A tool, ruleSet, lost : AreSevere(ToolWants(tool, ruleSet, lost))
    /\ \A rows, ruleSet : AreSevere(RiskWants(rows, ruleSet))
    /\ \A r, created : AreSevere(EventWants(r, created))
<1>1. \A w, k, tool, verdict : w = Want(k, tool, verdict) => AreSevere({w})
  BY DEF AreSevere, Want, AlertSeverity
<1>2. \A rows : (\A w \in rows : AreSevere({w})) => AreSevere(rows)
  BY DEF AreSevere
<1>3. ASSUME NEW tool, NEW ruleSet, NEW lost
      PROVE  AreSevere(ToolWants(tool, ruleSet, lost))
  <2>1. \A w \in ToolWants(tool, ruleSet, lost) : \E k, verdict : w = Want(k, tool, verdict)
    BY DEF ToolWants
  <2> QED BY <1>1, <1>2, <2>1
<1>4. ASSUME NEW rows, NEW ruleSet
      PROVE  AreSevere(RiskWants(rows, ruleSet))
  <2>1. \A w \in RiskWants(rows, ruleSet) : \E k, tool, verdict : w = Want(k, tool, verdict)
    BY DEF RiskWants
  <2> QED BY <1>1, <1>2, <2>1
<1>5. ASSUME NEW r, NEW created
      PROVE  AreSevere(EventWants(r, created))
  <2>1. \A w \in EventWants(r, created) : \E k, tool : w = Want(k, tool, "active")
    BY DEF EventWants, Event
  <2> QED BY <1>1, <1>2, <2>1
<1> QED BY <1>3, <1>4, <1>5

LEMMA SeverityKeptByRows ==
    ASSUME SeverityInv,
           \A b \in alerts' : \/ \E a \in alerts : b.kind = a.kind /\ b.severity = a.severity
                              \/ AreSevere({b})
    PROVE  SeverityInv'
<1> SUFFICES ASSUME NEW b \in alerts', b.kind = "compliance_non_compliant"
             PROVE  b.severity = "high"
  BY DEF SeverityInv, AreSevere
<1>1. CASE \E a \in alerts : b.kind = a.kind /\ b.severity = a.severity
  BY <1>1 DEF SeverityInv, AreSevere
<1>2. CASE AreSevere({b})
  BY <1>2 DEF AreSevere
<1> QED BY <1>1, <1>2

LEMMA ResolvedKeeps ==
    ASSUME AlertsHold, NEW a \in alerts,
           NEW e, e = [a EXCEPT !.status = "resolved", !.closed = TRUE]
    PROVE  e.kind = a.kind /\ e.severity = a.severity
  BY DEF AlertsHold, AlertRows

LEMMA SeverityKeptByReconciling ==
    ASSUME AlertsHold, SeverityInv, NEW wants, AreSevere(wants), NEW active,
           Reconciles(wants, active)
    PROVE  SeverityInv'
<1>1. PICK picked \in Resolvable(wants, active) :
         SetAlerts({IF \E p \in picked : SameAlert(a, p)
                    THEN [a EXCEPT !.status = "resolved", !.closed = TRUE] ELSE a : a \in alerts}
                   \cup Created(wants, active))
  BY Zenon DEF Reconciles
<1>2. ASSUME NEW b \in alerts', b \notin Created(wants, active)
      PROVE  \E a \in alerts : b.kind = a.kind /\ b.severity = a.severity
  <2>1. PICK a \in alerts : b = IF \E p \in picked : SameAlert(a, p)
                                THEN [a EXCEPT !.status = "resolved", !.closed = TRUE] ELSE a
    BY <1>1, <1>2, Zenon DEF SetAlerts
  <2>2. PICK e : e = [a EXCEPT !.status = "resolved", !.closed = TRUE]
    OBVIOUS
  <2>3. e.kind = a.kind /\ e.severity = a.severity
    BY <2>2, ResolvedKeeps, Zenon
  <2>4. b = e \/ b = a
    BY <2>1, <2>2, Zenon
  <2> QED BY <2>3, <2>4
<1>3. ASSUME NEW b \in Created(wants, active)
      PROVE  AreSevere({b})
  <2>1. PICK w \in wants : b = NewAlert(w)
    BY DEF Created
  <2>2. b.kind = w.kind /\ b.severity = w.severity
    BY <2>1 DEF NewAlert
  <2> QED BY <2>2 DEF AreSevere
<1> QED BY <1>2, <1>3, SeverityKeptByRows

LEMMA SeverityKeptByCommitAlert ==
    ASSUME GovernanceInv, SeverityInv, NEW r \in Requests, CommitAlert(r)
    PROVE  SeverityInv'
<1> PICK q : q = requests[r]
  OBVIOUS
<1>1. /\ q.pc = "loaded" /\ q.op \in AlertOperations
      /\ alerts' = {IF SameAlert(a, q.seen) THEN Transitioned(q.op, a, q.seen) ELSE a :
                       a \in alerts}
  BY DEF CommitAlert, SetAlerts
<1>2. ASSUME NEW b \in alerts'
      PROVE  \E a \in alerts : b.kind = a.kind /\ b.severity = a.severity
  <2>1. PICK a \in alerts : b = IF SameAlert(a, q.seen)
                                THEN Transitioned(q.op, a, q.seen) ELSE a
    BY <1>1, <1>2, Zenon
  <2>2. a \in AlertRows
    BY DEF GovernanceInv, AlertsHold
  <2>3. ASSUME NEW e, e = Transitioned(q.op, a, q.seen), SameAlert(a, q.seen)
        PROVE  e.kind = a.kind /\ e.severity = a.severity
    <3>1. q.seen \in AlertRows
      <4>1. q.op \notin {"create rule", "update rule", "delete rule", "update tool"}
        BY <1>1, Zenon DEF AlertOperations
      <4>2. LoadHolds(q)
        BY <1>1 DEF GovernanceInv, RequestHolds
      <4> QED BY <4>1, <4>2, Zenon DEF LoadHolds
    <3>2. CASE q.op = "acknowledge"
      BY <2>2, <2>3, <3>2 DEF Transitioned, AlertRows
    <3>3. CASE q.op = "resolve"
      BY <2>2, <2>3, <3>3 DEF Transitioned, AlertRows
    <3>4. CASE q.op = "reopen"
      BY <2>2, <2>3, <3>1, <3>4 DEF Transitioned, AlertRows, NetChange
    <3> QED BY <1>1, <3>2, <3>3, <3>4 DEF AlertOperations
  <2>4. PICK e : e = Transitioned(q.op, a, q.seen)
    OBVIOUS
  <2> QED BY <2>1, <2>3, <2>4
<1> QED BY <1>2, SeverityKeptByRows

LEMMA SeverityKeptByReconcilers ==
    ASSUME AlertsHold, SeverityInv, NEW r \in Requests,
           ReconcileAllTools(r) \/ ReconcileRisk(r) \/ ReconcileTool(r) \/ CommitSync(r)
    PROVE  SeverityInv'
<1>1. \E wants, active : AreSevere(wants) /\ Reconciles(wants, active)
  <2>1. \A A, B : AreSevere(A) /\ AreSevere(B) => AreSevere(A \cup B)
    BY DEF AreSevere
  <2>2. \A S : (\A s \in S : AreSevere(s)) => AreSevere(UNION S)
    BY DEF AreSevere
  <2>3. CASE ReconcileAllTools(r)
    <3> DEFINE v == requests[r].view
               Lost(t) == t.id \in requests[r].covered /\ ~IsCovered(t, v.rules)
               sets == {ToolWants(t, v.rules, Lost(t)) : t \in v.tools}
    <3>1. Reconciles(UNION sets, v.active)
      BY <2>3, Zenon DEF ReconcileAllTools
    <3>2. \A s \in sets : AreSevere(s)
      BY WantsAreSevere, Zenon
    <3> HIDE DEF sets, v
    <3> QED BY <2>2, <3>1, <3>2, Zenon
  <2>4. CASE ReconcileRisk(r)
    <3>1. Reconciles(RiskWants(requests[r].view.tools, requests[r].view.rules),
                     requests[r].view.active)
      BY <2>4, Zenon DEF ReconcileRisk
    <3> QED BY <3>1, WantsAreSevere, Zenon
  <2>5. CASE ReconcileTool(r)
    <3>1. \E tool, v : Reconciles(ToolWants(tool, v.rules, FALSE) \cup RiskWants(v.tools, v.rules),
                                  v.active)
      BY <2>5, Zenon DEF ReconcileTool
    <3> QED BY <2>1, <3>1, WantsAreSevere, Zenon
  <2>6. CASE CommitSync(r)
    <3>1. \E created, rows, v :
             Reconciles(EventWants(r, created)
                        \cup (UNION {ToolWants(t, v.rules, FALSE) : t \in rows})
                        \cup RiskWants(v.tools, v.rules), v.active)
      BY <2>6, Zenon DEF CommitSync
    <3>2. PICK created, rows, v :
             Reconciles(EventWants(r, created)
                        \cup (UNION {ToolWants(t, v.rules, FALSE) : t \in rows})
                        \cup RiskWants(v.tools, v.rules), v.active)
      BY <3>1, Zenon
    <3>3. AreSevere(UNION {ToolWants(t, v.rules, FALSE) : t \in rows})
      <4> DEFINE sets == {ToolWants(t, v.rules, FALSE) : t \in rows}
      <4>1. \A s \in sets : AreSevere(s)
        BY WantsAreSevere, Zenon
      <4> HIDE DEF sets
      <4>2. AreSevere(UNION sets)
        BY <2>2, <4>1, Zenon
      <4> QED BY <4>2, Zenon DEF sets
    <3>4. AreSevere(EventWants(r, created)) /\ AreSevere(RiskWants(v.tools, v.rules))
      BY WantsAreSevere, Zenon
    <3> QED BY <2>1, <3>2, <3>3, <3>4, Zenon
  <2> QED BY <2>3, <2>4, <2>5, <2>6
<1> QED BY <1>1, SeverityKeptByReconciling

LEMMA SeverityInvKept ==
    ASSUME GovernanceInv, SeverityInv, NEW r \in Requests,
           GovernanceNext(r) \/ SyncNext(r)
    PROVE  SeverityInv'
<1>1. CASE ReconcileAllTools(r) \/ ReconcileRisk(r) \/ ReconcileTool(r) \/ CommitSync(r)
  BY <1>1, SeverityKeptByReconcilers DEF GovernanceInv
<1>2. CASE CommitAlert(r)
  BY <1>2, SeverityKeptByCommitAlert
<1>3. CASE UNCHANGED alerts
  BY <1>3 DEF SeverityInv, AreSevere
<1>4. \/ ReconcileAllTools(r) \/ ReconcileRisk(r) \/ ReconcileTool(r) \/ CommitSync(r)
      \/ CommitAlert(r) \/ UNCHANGED alerts
  <2>1. CASE RuleNext(r)
    BY <2>1, Zenon DEF RuleNext, LoadRuleToCreate, LoadRule, CommitRule, projections
  <2>2. CASE CatalogueNext(r)
    <3>1. \A x, b : ReviewTool(r, x, b) \/ LoadTool(r, x, b) => UNCHANGED alerts
      BY Zenon DEF ReviewTool, LoadTool, projections
    <3>2. \A x : DeleteTool(r, x) \/ DeleteServer(r, x) \/ DeleteAgent(r, x) => UNCHANGED alerts
      BY DEF DeleteTool, DeleteServer, DeleteAgent, projections
    <3>3. \A s, a : RelinkServer(r, s, a) => UNCHANGED alerts
      BY DEF RelinkServer, projections
    <3>4. CommitTool(r) => UNCHANGED alerts
      BY Zenon DEF CommitTool, projections
    <3> QED BY <2>2, <3>1, <3>2, <3>3, <3>4, Zenon DEF CatalogueNext
  <2>3. CASE AlertNext(r)
    BY <2>3 DEF AlertNext, LoadAlert, projections
  <2>4. CASE RegisterNext(r)
    BY <2>4 DEF RegisterNext, ReadRegister, BuildItems, CommitSnapshot, projections
  <2>5. CASE SyncNext(r)
    <3>1. \A s : LoadServer(r, s) => UNCHANGED alerts
      BY DEF LoadServer, projections
    <3>2. \A offer : Discover(r, offer) => UNCHANGED alerts
      BY DEF Discover, projections
    <3>3. DiscoveryFails(r) \/ RecordSyncFailure(r) \/ ReadSync(r) \/ FailSync(r)
             => UNCHANGED alerts
      BY Zenon DEF DiscoveryFails, RecordSyncFailure, ReadSync, FailSync, projections
    <3> QED BY <2>5, <3>1, <3>2, <3>3, Zenon DEF SyncNext
  <2>6. CASE ReadRules(r) \/ ReadTools(r) \/ Conflict(r) \/ Crash(r)
    BY <2>6, Zenon DEF ReadRules, ReadTools, Conflict, Crash, projections
  <2> QED BY <2>1, <2>2, <2>3, <2>4, <2>5, <2>6, Zenon DEF GovernanceNext
<1> QED BY <1>1, <1>2, <1>3, <1>4

LEMMA Quotient ==
    ASSUME NEW n \in Nat, n # 0
    PROVE  (100 * (2 * n - 0) + n) \div (2 * n) = 100
<1> PICK d \in Nat : d = 2 * n
  OBVIOUS
<1>1. 0 <= n /\ n < d /\ 100 * (2 * n - 0) + n = 100 * d + n
  OBVIOUS
<1>2. ASSUME NEW e \in Nat, e > 0, NEW m \in Nat, m < e
      PROVE  (100 * e + m) \div e = 100
  BY <1>2, Z3T(30)
<1> QED BY <1>1, <1>2

LEMMA Deducted ==
    ASSUME NEW total \in Nat
    PROVE  Deduct(total) = 100 <=> total = 0
  BY DEF Deduct

\* A governance health of 100: every tool is reviewed and governed, and no alert counts.
LEMMA Healthy ==
    ASSUME NEW rows, IsFiniteSet(rows), NEW ruleSet, NEW critical \in Nat, NEW high \in Nat,
           HealthScore(rows, ruleSet, critical, high) = 100
    PROVE  /\ critical = 0 /\ high = 0
           /\ \A t \in rows : t.reviewed /\ GovernanceStatus(t, ruleSet) = "governed"
<1> DEFINE unreviewed == {t \in rows : ~t.reviewed}
           grave == {t \in unreviewed : t.risk \in HighRisks}
           ungoverned == {t \in rows : GovernanceStatus(t, ruleSet) # "governed"}
<1>1. IsFiniteSet(unreviewed) /\ IsFiniteSet(grave) /\ IsFiniteSet(ungoverned)
  BY FS_Subset
<1>2. PICK u, g, o : u = Cardinality(unreviewed) /\ g = Cardinality(grave)
                     /\ o = Cardinality(ungoverned)
  OBVIOUS
<1>3. u \in Nat /\ g \in Nat /\ o \in Nat
  BY <1>1, <1>2, FS_CardinalityType
<1>4. Deduct(2 * u + 10 * g + 5 * o + 15 * critical + 8 * high) = 100
  BY <1>2, Zenon DEF HealthScore
<1> HIDE DEF unreviewed, grave, ungoverned
<1>5. 2 * u + 10 * g + 5 * o + 15 * critical + 8 * high = 0
  BY <1>3, <1>4, Deducted
<1>6. u = 0 /\ o = 0 /\ critical = 0 /\ high = 0
  BY <1>3, <1>5
<1>7. unreviewed = {} /\ ungoverned = {}
  BY <1>1, <1>2, <1>6, FS_EmptySet
<1> QED BY <1>6, <1>7 DEF unreviewed, ungoverned

LEMMA Perfect ==
    ASSUME NEW items, IsFiniteSet(DOMAIN items),
           \A i \in DOMAIN items : /\ items[i].governance = "governed"
                                   /\ items[i].coverage # "uncovered"
                                   /\ items[i].compliance = "compliant"
    PROVE  RiskScore(items, 0, 0) = 100 /\ ComplianceScore(items) = 100
<1> DEFINE grave == {i \in DOMAIN items : items[i].risk = "critical"}
<1>1. /\ {i \in grave : items[i].governance = "unreviewed"} = {}
      /\ {i \in grave : items[i].governance # "governed"} = {}
      /\ {i \in DOMAIN items : items[i].coverage = "uncovered"} = {}
      /\ {i \in DOMAIN items : items[i].compliance = "non_compliant"} = {}
      /\ {i \in DOMAIN items : items[i].compliance = "warning"} = {}
  OBVIOUS
<1>2. Cardinality({}) = 0
  BY FS_EmptySet
<1>3. RiskScore(items, 0, 0) = Deduct(15 * 0 + 12 * 0 + 5 * 0 + 8 * 0 + 10 * 0 + 5 * 0)
  BY <1>1, <1>2, Zenon DEF RiskScore
<1>4. RiskScore(items, 0, 0) = 100
  BY <1>3 DEF Deduct
<1>5. PICK n \in Nat : n = Cardinality(DOMAIN items)
  BY FS_CardinalityType
<1>6. ComplianceScore(items) =
         IF n = 0 THEN 100 ELSE (100 * (2 * n - (2 * 0 + 0)) + n) \div (2 * n)
  BY <1>1, <1>2, <1>5, Zenon DEF ComplianceScore
<1>7. n # 0 => (100 * (2 * n - (2 * 0 + 0)) + n) \div (2 * n) = 100
  BY Quotient
<1> QED BY <1>4, <1>6, <1>7

\* Every control is severe: no tool has a warning.
LEMMA NoWarnings ==
    ASSUME NEW violations \in SUBSET DOMAIN ControlSeverity
    PROVE  ComplianceStatusFor(violations) \in {"compliant", "non_compliant"}
<1>1. \A c \in DOMAIN ControlSeverity : ControlSeverity[c] \in HighRisks
  BY DEF ControlSeverity, HighRisks
<1> QED BY <1>1 DEF ComplianceStatusFor

LEMMA ScoresFollow ==
    ASSUME GovernanceInv, PostureInv, SeverityInv
    PROVE  ScoresAgree
<1> DEFINE critical == Scored("critical")
           high == Scored("high")
           items == [t \in Discovered |-> records[t]]
<1> SUFFICES ASSUME trusted, Idle,
                    HealthScore(DiscoveredRows, EnabledRules, critical, high) = 100
             PROVE  RiskScore(items, critical, high) = 100 /\ ComplianceScore(items) = 100
  BY Zenon DEF ScoresAgree
<1>1. IsFiniteSet(alerts)
  BY AlertsAreFinite DEF GovernanceInv
<1>2. \A severity : IsFiniteSet({a \in ActiveAlerts : a.severity = severity})
  BY <1>1, FS_Subset DEF ActiveAlerts
<1>3. critical \in Nat /\ high \in Nat
  <2>1. \A severity : Scored(severity) \in Nat
    <3> TAKE severity
    <3> PICK S : S = {a \in ActiveAlerts : a.severity = severity}
      OBVIOUS
    <3>1. IsFiniteSet(S)
      BY <1>2
    <3>2. Cardinality(S) \in Nat
      BY <3>1, FS_CardinalityType
    <3> QED BY <3>2 DEF Scored
  <2> QED BY <2>1
<1>4. IsFiniteSet(Discovered)
  BY GovernanceAssumption, FS_Subset DEF Discovered
<1>5. IsFiniteSet(DiscoveredRows)
  <2>1. PICK f : f = [t \in Discovered |-> tools[t]]
    OBVIOUS
  <2>2. DiscoveredRows = {f[t] : t \in Discovered} /\ DOMAIN f = Discovered
    BY <2>1 DEF DiscoveredRows
  <2> QED BY <1>4, <2>2, FiniteImage
<1> PICK ruleSet : ruleSet = EnabledRules
  OBVIOUS
<1>6. /\ critical = 0 /\ high = 0
      /\ \A t \in DiscoveredRows : t.reviewed /\ GovernanceStatus(t, ruleSet) = "governed"
  <2>1. \A c, h \in Nat : HealthScore(DiscoveredRows, ruleSet, c, h) = 100 =>
           /\ c = 0 /\ h = 0
           /\ \A t \in DiscoveredRows : t.reviewed /\ GovernanceStatus(t, ruleSet) = "governed"
    BY <1>5, Healthy
  <2> HIDE DEF critical, high
  <2> QED BY <1>3, <2>1
<1>7. {a \in ActiveAlerts : a.severity = "high"} = {}
  BY <1>2, <1>6, FS_EmptySet DEF Scored
<1>8. ASSUME NEW t \in Discovered
      PROVE  /\ records[t].governance = "governed"
             /\ records[t].coverage # "uncovered"
             /\ records[t].compliance = "compliant"
  <2>1. PICK tool, record : tool = tools[t] /\ record = RiskRecord(tool, ruleSet)
    OBVIOUS
  <2>2. tool.reviewed /\ GovernanceStatus(tool, ruleSet) = "governed"
    BY <1>6, <2>1 DEF DiscoveredRows
  <2>3. record.governance = "governed"
    BY <2>1, <2>2 DEF RiskRecord
  <2>4. record.coverage # "uncovered"
    BY <2>1, <2>2 DEF RiskRecord, GovernanceStatus, IsCovered, PolicyCoverage
  <2>5. ~AwaitsRepair(t)
    BY DEF AwaitsRepair, Repairs, RepairPhases, Idle, InProgress, Ended
  <2>6. RiskAgrees(t)
    BY <2>5 DEF PostureInv, TrustedTools
  <2>7. records[t] = record /\ (record.compliance = "non_compliant" =>
                                   IsActive("compliance_non_compliant", t))
    BY <2>1, <2>6 DEF RiskAgrees, Agrees
  <2>8. ~IsActive("compliance_non_compliant", t)
    <3>1. PICK key : key = <<"compliance_non_compliant", t, tools[t].server>>
      OBVIOUS
    <3>2. ASSUME NEW a \in Of(ActiveAlerts, key)
          PROVE  FALSE
      <4>1. a \in ActiveAlerts /\ a.kind = "compliance_non_compliant"
        BY <3>1, <3>2 DEF Of, AlertKey
      <4>2. a.severity = "high"
        BY <4>1 DEF ActiveAlerts, SeverityInv, AreSevere
      <4> QED BY <1>7, <4>1, <4>2
    <3>3. Of(ActiveAlerts, key) = {}
      BY <3>2
    <3> QED BY <3>1, <3>3 DEF IsActive
  <2>9. record.compliance \in {"compliant", "non_compliant"}
    <3>1. PICK violations :
             /\ violations = ViolatedControls(tool, ruleSet, GovernanceStatus(tool, ruleSet))
             /\ record.compliance = ComplianceStatusFor(violations)
      BY <2>1 DEF RiskRecord
    <3>2. violations \in SUBSET DOMAIN ControlSeverity
      BY <3>1 DEF ViolatedControls
    <3> QED BY <3>1, <3>2, NoWarnings
  <2> QED BY <2>3, <2>4, <2>7, <2>8, <2>9
<1>9. RiskScore(items, 0, 0) = 100 /\ ComplianceScore(items) = 100
  <2>1. DOMAIN items = Discovered /\ \A t \in Discovered : items[t] = records[t]
    OBVIOUS
  <2> HIDE DEF items
  <2> QED BY <1>4, <1>8, <2>1, Perfect
<1> HIDE DEF critical, high, items
<1> QED BY <1>6, <1>9

(***************************************************************************)
(* Theorem: whenever the projections can be trusted and nothing is in      *)
(* progress, a governance health of 100 (get_health of                     *)
(* services/governance_alerts.py) comes with an AI risk score of 100       *)
(* (calculate_risk_score of services/risk_compliance.py) and a compliance  *)
(* score of 100 (evaluate_items), for any number of tools, rules and       *)
(* alerts.  The health does not look at the register: a tool that violates *)
(* a control has an active alert of high severity, which it does count.    *)
(***************************************************************************)
THEOREM ScoresKept == Spec => []ScoresAgree
<1>1. GovernanceInit => PostureInv /\ SeverityInv
  BY PostureInvInit DEF GovernanceInit, SeverityInv, AreSevere
<1>2. GovernanceInv /\ SyncInv /\ PostureInv /\ [Next]_governanceVars => PostureInv'
  BY PostureInvKept, PostureInvStutters DEF Next
<1>3. GovernanceInv /\ SeverityInv /\ [Next]_governanceVars => SeverityInv'
  <2>1. CASE UNCHANGED governanceVars
    BY <2>1 DEF governanceVars, projections, SeverityInv, AreSevere
  <2> QED BY <2>1, SeverityInvKept DEF Next
<1>4. GovernanceInv /\ PostureInv /\ SeverityInv => ScoresAgree
  BY ScoresFollow
<1> QED BY <1>1, <1>2, <1>3, <1>4, GovernanceInvariant, SyncInvariant, PTL DEF Spec
=============================================================================
