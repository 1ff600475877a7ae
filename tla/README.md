# A TLA+ model of AgentHQ

AgentHQ (v0.8.0) is a governance server for AI agents: an organization registers its agents and the
MCP servers they use, reviews the tools those servers offer, writes policy rules, and lets agents
call tools only through a gateway that authenticates, decides, records and audits each call. The
code is a FastAPI application over SQLAlchemy (`backend/app`) and a React front end.

This directory holds TLA+ modules translated from that code, the TLC configurations that check them
on small instances, and theorems about them that TLAPS checks. `PROJECT.json` maps each definition
to the lines it models, and lists the runs, the theorems, the findings and the hazards.

## How the program executes

* Every request is served by a thread of its own (synchronous handlers in FastAPI's pool) with a
  database session of its own. The database is PostgreSQL at its default isolation, READ COMMITTED:
  **each statement sees what is committed when it runs**, so two SELECTs of one transaction may see
  different states of the world, and a row loaded once is not refreshed by loading it again.
* Only one place takes a row lock (`lock_active_admin_memberships`). No table has a version column.
  What keeps concurrent requests apart elsewhere is unique indexes, and nothing else.
* The ORM writes back only the attributes whose value it saw change since it loaded the row.
* Sessions do not autoflush; a `commit` expires the loaded attributes.
* An operation is often several transactions: a `create_audit_log` commits its own row after the
  change it tells of, while `create_critical_audit_log` joins the transaction of the change.
* A process may die, a connection may be lost and an audit row may be refused at any point; what
  was not committed is gone. What went to an upstream MCP server is not.

The models therefore have one action per statement whose result is kept and used later, and one per
commit, and let any request run between them.

## Components

| component | state | operations | what makes it correct |
|---|---|---|---|
| policy decision (`services/policy_decisions.py`) | none: reads agents, tools, rules | match the rules, rank them, default by risk, fail closed | the decision is one the rules allow; the failure of the evaluation blocks |
| MCP gateway calls (`services/mcp_gateway.py`, `api/mcp_gateway.py`) | executions, call records, audit rows; the effect on upstream servers | authenticate, limit, list, call by id or by name, replay | only what policy and an approver permit goes upstream, within the scope of the credential; clients are told what is committed; keys give one answer |
| gateway credentials (`services/mcp_gateway.py`) | hash, status, expiry | create, rotate, revoke, authenticate | a replaced secret or a revoked credential stays so |
| approvals (`services/approvals.py`) | status, approver | create, approve, reject, cancel | a decision is final and audited |
| agents, agent tools, policy rules, MCP servers (`services/agents.py`, ...) | the catalogue: status, link, permission, risk, review, rules | create, update, delete, review, relink | names are unique, rules name what exists |
| tool sync (`services/mcp_servers.py`) | tools and schemas, link to an agent, last error | discover, then one transaction of creations, updates, removals | no duplicate tools; edits by people survive |
| tool governance, governance alerts (`services/tool_governance.py`, `services/governance_alerts.py`) | alerts | review, reconcile, acknowledge, resolve, reopen | one active alert per gap, none missing, none stale |
| risk register and compliance (`services/risk_compliance.py`) | records and daily snapshots | recompute, sample | agrees with the catalogue it was computed from |
| executions, incidents (`services/executions.py`, `services/incidents.py`) | status, approval, incident status | create, patch, resolve, dismiss | a blocked action is recorded as blocked; closed stays closed |
| members, users, invites (`services/users.py`, `services/organization_invites.py`) | memberships, roles, invites | update, deactivate, invite, accept, revoke | an organization keeps an administrator; an invite is used once or not at all |
| registration, organizations, automatic entry (`services/users.py`, `services/organizations.py`, `core/security.py`) | users, organizations, memberships | register, bootstrap, enter | one membership per person and origin; no way past the invites; the first account administers |
| rate limits (`core/rate_limit.py`) | windows per key, in the process or in Redis | check | at most the limit per window |
| policy simulation (`services/policy_simulations.py`) | none | compare two sets of rules | predicts what the gateway would decide |
| audit log (`services/audit_logs.py`) | rows | append | tells what happened, no more and no less |
| passwords and tokens, role checks, configuration, seeding, dashboard, front end | sessions | checks, reads | not modelled: see below |

They interact through the database alone: the gateway reads the catalogue, the approvals and the
rules; a policy rule's change recomputes alerts and risk records; a sync edits the tools the gateway
offers. The only calls out are to MCP servers (discovery, `tools/call`) and to Redis.

What is hard: overlapping requests on one row (approvals, credentials, invites, memberships,
incidents), several reads of one transaction at different moments (the gateway), checks made before
a slow upstream call and used after it (idempotency records), transactions that follow the one that
mattered (audit rows, alerts, risk records), check-then-insert without an index (alerts). The list,
line by line, is under `hazards` in `PROJECT.json`, each with the properties that would catch it.

## Modules

```
PolicyDecision <- Catalog <- Approvals, GatewayTokens
Approvals, GatewayTokens <- Gateway <- GatewayProperties <- GatewayHistory (INSTANCE CallLedger)
                                       GatewayProperties <- GatewayScope
Approvals <- Executions <- Incidents <- Workflow
PolicyDecision <- Posture <- Governance <- ServerSync <- GovernanceProperties
Membership <- Invites <- Accounts
RateLimit

ApprovalsProofs, GatewayTokensProofs <- GatewayProofs; ApprovalsProofs <- WorkflowProofs;
MembershipProofs <- AccountsProofs; GovernanceProofs; RateLimitProofs: theorems
MCWorkflow, MCApprovals, MCGatewayTokens, MCGateway, MCGatewayScope, MCGatewayHistory,
MCGovernance, MCMembership, MCAccounts, MCRateLimit: the instances TLC checks
```

(`A <- B`: B extends A.) There are four compositions: the gateway with its credentials, approvals
and catalogue; the workflow of approvals, executions and incidents; the governance of tools with the
sync of servers; and the accounts, with every way into an organization. They share the modules of
what they share in the code. The catalogue appears twice, in two grains: in `Catalog`, where an
operation is its commit, because the gateway sees nothing else of it; and in `Governance`, where the
operations themselves are what is examined, statement by statement.

**PolicyDecision** is the decision itself, as operators. A rule is a record; the sort key of
`select_best_rule` leaves rules of equal scope, priority and severity in the order the database
returns them, and the query has none, so `BestRules` is the set of rules that may come first and
`Decisions` the set of answers `evaluate_policy_decision` may give.

**Catalog** holds what an administrator edits: agents, servers and their links, tools, rules. Each
action is one committed transaction of a management operation. `agents[a]` keeps of an agent's
status what the gateway looks at: *enabled* stands for draft and active, *disabled* for disabled and
archived. A rule that is disabled is out of `rules`. `ToolAgent` is a constant: nothing gives a tool
to another agent. Its server is in the row, because a sync takes over a tool of the same agent that
has the name it is offered: `AdoptTool` is that part of a sync, which may be of a server relinked or
deleted since the sync loaded it. The other parts of a sync are, for the gateway, a `RelinkServer` and
`SoftDeleteTool`s; the tools it creates are unreviewed and not callable. `MaxChanges` bounds the number of administrative
operations in one behaviour. The load-to-commit window inside each of these handlers and their own
audit rows are not kept; `Governance` has the window.

**Approvals** has one record per request made of the approvals API. `CreateApproval` and
`AuditCreation` are the two transactions of `create_approval`; `LoadApproval` is the SELECT with its
check (and the refusal, which commits an audit row); `CommitDecision` is the transaction of
`decide_approval`. `after` records, when a request reads the row, which requests had been answered:
the history that *overlapping* is defined by.

**GatewayTokens** has the credentials (a secret is a number; the row has its hash) and the requests
on them. `LoadRotate`/`LoadRevoke` are the SELECTs, `CommitRotate`/`CommitRevoke` the transactions,
`LookUpToken`/`MarkTokenUsed` the two halves of `authenticate_token`. `NetChange` is the ORM's
UPDATE: a rotation of a row that was active when loaded does not write the status. `retired` is a
history variable. The update of `last_used_at` writes no other attribute, which `MarkTokenUsed` shows
by writing `NetChange` of the row with itself.

**Gateway** composes them. One call goes through the steps of the request, in order:

| step `pc[c]` | action | code |
|---|---|---|
| idle | `Arrive` | the SELECT of the credential and its verdict |
| credential | `Authenticated` | the rest of that transaction, and its commit |
| limiter | `Admitted`, `RateLimited` | `enforce_gateway_rate_limit`, as a choice |
| list | `ListTools` | by name only: `list_gateway_tools`, a transaction of its own |
| scope | `ReadScope` | `require_allowed_server`, `require_server` |
| record | `ReadRecord` | `get_call_record`, and the replay |
| tool | `ReadTool` | `require_gateway_tool`; `seen[c]` is the row from here on |
| approval | `ReadApproval` | `validate_gateway_approval` |
| decide | `Decide`, `DecideFailsClosed` | `evaluate_policy_decision` and the branches on its result |
| invoke | `InvokeUpstream`, `UpstreamUnreachable` | `adapter.call_tool`, up to the message that goes out |
| upstream | `UpstreamAnswers` | its return, error or timeout |
| commit | `CommitCall` | execution, audit rows and call record, or the duplicate key that rolls them back |

`Abort` ends a call at any step with its open transaction rolled back. `ReadScope` and `ListTools`
each join SELECTs that immediately follow each other (agent and server; agent, server, rules and
tools). The audit row of a replay has the action `call_replayed` here; the code writes
`MCP_GATEWAY_CALL_REQUESTED` with `idempotent_replay` in its metadata. Payloads, summaries, latency
and reasons are left out.

**CallLedger** is the promise made to clients that use idempotency keys, apart from how it is kept:
a slot (credential, tool, key) is given a response once, by the call it is the response of, and every
later answer on the slot is that one. `ImplementsLedger` says that the gateway implements it.

**GatewayProperties**, **GatewayHistory** and **GatewayScope** state the properties; the latter two
add two history variables each, and constrain nothing. Those of GatewayScope say what a client was
entitled to while its call was prepared, in terms of the catalogue at each instant and apart from the
checks the code makes: `scoped` holds the calls whose server was in scope at some instant of the
transaction that calls the tool, `offered` what such a call could have asked upstream at that instant or at a
later one. An upstream message has the server the client named, whichever the tool belongs to by then
(`Asked`).

**Membership** is `update_user`, which changes the role of a member or deactivates him. A request
goes through `Authorize` (its caller is an active administrator), `LoadMember` (the row of the
target, as it is kept from then on in `seen`), `LockAdmins` and one `LockRow` for each row that
`SELECT ... FOR UPDATE` visits, `CheckLastAdmin`, and then either `SaveRole` and `AuditUpdate`, two
transactions, or `Deactivate`, a single one. `LockAdmins` fixes the rows to visit; `Counted` is the
re-evaluation of the WHERE clause on the rows once they are locked; locks are kept until the
transaction ends. The query has no ORDER BY, so its rows are locked in any order, two requests may
wait for each other, and `CancelDeadlocked` is what PostgreSQL then does. `NewRole` and `Writes` are
the ORM's UPDATE: only attributes that differ from the loaded ones are written, so `is_active = true`
on a loaded (active) row writes nothing. A caller who is his own target has loaded his row already in
`Authorize`, and keeps the attributes of that SELECT. A request that is answered (`Ends`) keeps
nothing: its session is closed, which rolls back and unlocks.

**Invites** composes the memberships with `organization_invites`: `LoadCreate`/`CommitCreate`,
`LoadRevoke`/`CommitRevoke`, `LoadAccept`/`CommitAccept`, each pair the reads and checks of a handler
and its one transaction, with the time passing `expires_at` (`InviteLapses`) and failures in
between. What holds overlapping requests apart is in `AnotherIsPending` (the partial unique index on
pending invites), `UserExists` and `MembershipExists` (the unique address, the unique membership);
the status of an invite is checked only on the loaded row. An invite that a creation or a revocation
finds expired is marked so by it; an acceptance that finds it expired only refuses. A wrong password
is a refusal without effect and is left out. What brings the organization and its first people about is in Accounts.

**Accounts** adds the other ways in. A registration is `LoadRegister` (the address and the count of
users), `CommitUser`, `CountOrganizations` and `FindOrganization` (where the user goes: the default
organization, which may have to be created, or nowhere), `CommitMembership` and `AuditRegister`:
three transactions, any of which may be the last (`FailNewcomer`). `LoadBootstrap`, `ChooseSlug` and
`CommitBootstrap` are the bootstrap of a named organization; `LoadEnter` and `FindDefault` the
automatic membership that `require_org_member` gives a user without one, outside production.
`Collides` is the transaction that a unique index refuses (address, slug, membership). `members` is
the table of the organization committed first; of a further organization only the founder is kept,
in `others`. `joined` records who came in by what, for the properties. The count of users and the
check of the address are one statement here; the login, which reads and writes an audit row, is
left out.

**Executions** has the requests made of the executions API. `CheckExecution` is the agent, the tool
and the approval a creation names, `DecideExecution` the policy decision (or its failure, which
blocks), `StatusOnCreation` what the two make of the status asked for, `CommitExecution` the one
transaction of the row and its audit rows. An amendment is `LoadExecution`, `CommitAmendment`
and the two later transactions `AuditAmendment` and `AuditState`, the second of which is about the row
as it is then. In what is sent, None is a field left out; `uncite` is a null `approval_id`, which
removes the citation. `FailRecorder` ends a request with what it had committed. The read back
after a commit is merged with the audit row that follows it, and an amendment with an explicit null
status, which the database refuses, is left out. `completed_at` is a Boolean and stays when an
execution is patched back to running.

**Incidents** has the requests made of the incidents API: `CreateIncident`, and `DateIncident` when
it is created closed, which the code does in a second commit; `LoadIncident` with the check of the
transition (`Accepts`) on the loaded row, `CommitIncident` and `AuditIncident`. `noted` and `dated`
are the resolution notes and `resolved_at` as Booleans. Descriptive fields and the audit rows of
incidents are not kept. `disturbed` is history: incidents written from a row that had changed.

**Workflow** composes the two with Approvals and two administrative operations, the deletion of an
agent and the writing of a rule, and states the properties.

**Posture** is the pure part of tool governance, as operators over tools and rules: applicable
policies, governance status and coverage, the built-in compliance controls, the risk record of a
tool, the alerts that are due or to be resolved, the three scores, and what the policy simulator
foretells. A tool satisfies CONTROL_001 and CONTROL_002 as soon as *some* applicable rule requires
approval, also when a rule that ranks higher allows the call, because that is what
`risk_compliance.py` computes. The summary of the simulator and the counts of alerts are left out.

**Governance** is the operations on rules, tools, servers, agents and alerts, each with the
reconciliations its handler makes after its commit, in the code's order. A reconciliation is
`ReadRules` and `ReadTools`, its two kinds of query, and then one transaction: `ReconcileAllTools`
(alerts), `ReconcileRisk` (records, and the alerts on them) or `ReconcileTool` (one tool, with the
PATCH). A transaction that a unique index or a vanished row refuses is a `Conflict`. `LoadAlert` and
`CommitAlert` are acknowledge, resolve and reopen; `ReadRegister`, `BuildItems` and `CommitSnapshot`
the register and the summary, which store what they find missing. `Crash` ends a request between two
of its transactions. Requests that are refused change nothing, and are not steps. Names of deleted
rules and agents are not used again, and deletes and relinks (to an agent, or to none) load and commit
in one step. `ReadTools` joins the queries that follow that of the rules (tools, active alerts,
records) and that of the controls, which the code makes first: it decides nothing but whether the
transaction will create the built-in controls.
`trusted` (the last operation on a rule ran alone to its end, and everything since has), `doubled`
(the alerts that have been active twice) and `mishaps` (what has met what) are history. `number` tells
the alerts of one kind, tool and server apart, in the place of the identifier of the row; the number
of a new one is one more than how many there are (`Numbers`).

**ServerSync** is `sync_mcp_server`: `LoadServer`; `Discover` or `DiscoveryFails`, whose outcome is
the environment's; `ReadSync` (the agent linked to or found for the server, the tools, the rules);
`CommitSync`, the one transaction of created, updated, adopted and removed tools with their alerts
and records, or `FailSync` when it conflicts, followed by `RecordSyncFailure`. A sync whose audit row fails is rolled
back and records no failure; it leaves what a request leaves that stops before `CommitSync`. The row of the server
is the one loaded before the discovery. **GovernanceProperties** composes both and states the
properties.

**RateLimit** is `core/rate_limit.py`. `Begin` takes the keys of a request (`KeysOf`: the three
`enforce_*` functions), `ReadClock` reads the time, `CheckMemory` is the locked section over the
deque, `CheckRedis` the script of Redis, whose answer may be lost after it was counted, `RedisFails` a Redis
that is not reached, `RecordDenial` the audit row of a denial, which is committed before the denial is answered, `Restart`
the loss of the deques with the process, `Tick` the clock. `backend` is chosen once; *off* stands
for `rate_limits_enabled = False`. The deque belongs to one process, Redis to all of them.
`Backends` is what `get_rate_limit_backend` may answer in the deployment. `log[k]`, every consumption
of a key in order, is history; the deque is its suffix after `head[k]`. `Burst` is what a backend can be
trusted to allow: the limit for the deque, and one less than twice the limit for the counter, whose
windows may meet but whose first consumption is made as a window opens.
The seconds of `Retry-After` are left out, as is a loss of data by Redis.

Some modules define, just before an action, a *Variant* of it: a plausible wrong version of the code
(a dropped check, a whole-row UPDATE, a swapped order). No specification uses them. Putting one in
the place of its original makes the property named with it under `mutants` in `PROJECT.json` fail,
which is how we know that the property can fail.

## What the runs check

| run | instance | shows |
|---|---|---|
| `Workflow` | 4 requests among 3 decisions, 3 on executions and 3 on incidents; one approval; the agent deleted or a rule written | types, with closed incidents dated; `LateDecisionRefused`: decisions that do not overlap are final; `DecisionsAreAudited`; `CitedWereApproved`: what an execution cites was approved, for its agent; `PolicyHoldsUntilAmended`: what policy blocks or holds is recorded so until somebody amends it; `ExecutionsAreOnRecord`: rows and log account for each other; `ClosedStaysClosed` |
| `GatewayTokens` | 3 management requests, 2 authentications, 2 credentials | `RetiredStaysRetired`; `RevocationHolds`; `ReactivatedKnowingly` |
| `GatewayCalls` | 1 call by any route, 2 agents, 2 servers, 3 tools, 2 credentials (one created or revoked meanwhile), 2 requests on the approval, 1 change of the catalogue | types; `UpstreamWasAuthorized`; `UpstreamStaysInScope`: what goes upstream was the client's to call, on the very server and under the very name, at an instant of the transaction that calls it, wherever syncs move tools and servers are relinked |
| `GatewayRetries` | 2 calls on one key, by REST and by MCP, 3 sets of rules, 1 change, fairness | `TrailIsAtomic`, `AnswersAreTrue`, `ImplementsLedger`, `LateRetryStaysLocal`; `CallsAreAnswered` |
| `Governance` | 3 requests, 2 at once, of 13 operations; 4 tool rows, 1 server, 2 agents, 2 rule names | types, with alerts whose times agree with their status; `PostureAgrees`: after operations that do not overlap, alerts and records are what the catalogue makes them (an alert that was ever doubled is still active when it is due, and may outlive its cause); `DuplicatesNeedMishap`: no alert is active twice unless reconciliations met, a transition met something, or an alert was reopened; `SimulationForesees`: the simulator foretells what the rules then decide; `ScoresAgree`; `ConflictsNeedOverlap`; `SyncReflectsDiscovery`; `OnlyPeopleClassify` |
| `Membership` | 3 overlapping changes of 2 people, an administrator and an operator, fairness | types; `LocksHold`: locks are exclusive and what was counted under them still holds at the write; `OnlyAStaleReadLosesTheAdmin`; `DeactivationsAreAudited`; `DeactivationIsFinal`: a change written from a row loaded before a deactivation brings nobody back; `ChangesAreAnswered`, in spite of deadlocks |
| `Accounts` | 3 requests over an empty database or an organization of one administrator: registrations, bootstraps, entries, invites and their use, a deactivation | types, with one pending invite per address; `MembershipsHaveOneOrigin`; `LateUseRefused`: an invite that was used or revoked is refused to requests that begin later; `UninvitedStayOut`; `SomebodyIsAdmin` |
| `RateLimit` | 3 requests, 3 kinds of call on 4 keys, a window of 2 in 3 seconds, on each backend; on Redis 4 logins on 2 keys over two windows, or 3 requests, token creations among them, over three; limits 2 and 1 | types; `WindowBound`: at most the limit per window on the deque, and less than twice the limit on the counter, where two windows meet and with lost answers; `AnswersAreEarned`: denials had a reason, and admissions have consumed every key |

and four runs in which the code does what its documentation says it does not:

| run | statement | what happens |
|---|---|---|
| `ApprovalsFinal` | "Only pending approvals can be changed." (`services/approvals.py`) | two overlapping decisions both read *pending*; the later commit turns, say, *approved* into *rejected* |
| `GatewayDuplicate` | repeated calls with a key do not call the upstream tool again (`DEPLOYMENT.md`) | two concurrent calls both find no record and both go upstream; the unique index then refuses the second, whose execution and audit rows are rolled back with it |
| `MembershipAdmin` | "An organization must have at least one active admin." (`api/users.py`) | the lock and the count are taken only if the row *loaded before the lock* is an administrator: a deactivation loads an operator, he is promoted, the other administrator is demoted, and the deactivation goes through |
| `GatewayTorn` | "Block upstream calls when policy denies them." (`README.md`) | the tool's risk is raised and the rule that blocks it is then narrowed to high risks; a call that loaded the low risk and reads the narrowed rule passes, though at every instant policy blocked it |

**What the properties leave open.** `LateRetryStaysLocal` counts a retry as late by the slot it has on
arrival, which a call by id has and a call by name only gets when its tool is looked up: of retries by
name it says nothing. `PostureAgrees`, `ScoresAgree` and `SyncReflectsDiscovery` are about operations
that met nothing, and about what such an operation repairs; how far overlapping ones may leave the
projections off, or that a sync writes the link of the server it had loaded over a PATCH, is modelled and
not promised. The times of an alert agree with its status unless overlapping transitions wrote it.
`OnlyPeopleClassify` affirms that a sync keeps the review of a tool, also when its schema has changed.
`SomebodyIsAdmin` wants one administrator at least; two first registrations may both become one.
`MembershipsHaveOneOrigin` meets the double use of one invite in the run; two invites of one person at
once take four requests and are covered by the theorem alone.

**Bounds.** The hazards are races of two requests, or of one request with one administrator, on one
row; where there is a third request, it is for what happens after such a race (a rotation of a
credential already rotated and revoked, a replacement of an invite whose use overlapped its
revocation). The instances are these, each as large as five minutes allow:

* One administrative change (`MaxChanges`) suffices to separate any two statements of a call;
  `GatewayTorn` needs two. Where clients, approvers and administrators all act, there is a single call
  (`GatewayCalls`; `MaxManaged` = 3 bounds decisions, credential operations and changes together),
  because calls interact with each other only through records and audit rows, which `GatewayRetries`
  has. `MaxSecret` bounds the secrets generated.
* Losing the last administrator takes three changes (load, promote, demote), and so does a lock wait
  of one request behind two others, so `Membership` has three; two people are enough, as the question
  is always of the one who leaves and the one who stays.
* In `Accounts`, `MaxRequests` = 3 lets two registrations race with a bootstrap, and two uses of an
  invite with a third request. Invites are for one role and changes are deactivations (`MCBound`):
  the role of an invite is only copied, and role changes are what `Membership` examines. `Production`
  is FALSE, because in production there is no automatic entry, and so fewer behaviours.
* In `Workflow`, `MaxRequests` = 4 is a decision, a creation that cites it, and two overlapping
  amendments, or an execution, an incident about it and two changes of that. Requests of one API are
  numbered in the order in which they begin, which takes the place of a symmetry.
* In `Governance`, the history of a tool takes one operation to raise an alert and two overlapping
  ones to double or to lose it; two operations at once (`MaxInProgress`) are what a race needs, and a
  third that runs before or after them is what shows its consequences. The four tool rows are one of
  the server, one of its agent that a sync may adopt, and two to create. Discoveries change a schema,
  add a tool, and leave tools out; proposals are of each scope and effect.
* In `RateLimit`, three requests on a limit of 2 go one beyond it, logins of two names meet on the
  address they share, and three seconds hold one window and the start of the next. The counter of Redis
  needs more to come to its bound, 2 * limit consumptions of one key in two of its windows, so that over
  Redis (`MCBound`) a fourth request may log in, as at 0, 1, 2 and 2, and three requests that may create
  tokens, as at 0, 2 and 4, have a second more. The theorems of RateLimitProofs have none of these bounds.

Behaviours end when all requests have been answered, so deadlock is not checked; that no call
and no change of a member gets stuck is what `CallsAreAnswered` and `ChangesAreAnswered` say.

Symmetry is used where clients or requests are interchangeable, never in a run with fairness.

**Fairness.** `FairSpec` assumes weak fairness of the steps of each call that has been received
(`CallStep`): its thread is scheduled, the database answers, and the adapter returns within
`connect_timeout + request_timeout`, which `anyio.fail_after` enforces. Nothing is assumed of
clients (`Arrive`), administrators, approvers or failures (`Abort`). `FairHistorySpec` is the same with
the history variables. `FairMembershipSpec` assumes weak fairness of what an authorized request does
next, or is done to it: `Proceed`, or `CancelDeadlocked`, which PostgreSQL does after
`deadlock_timeout`. A request that waits for a lock is not enabled until it is free; locks are freed
because their holders proceed.

## What is proved

TLAPS proves, for every value of the constants that satisfies the named assumptions, the type
invariant of every composition, its safety invariants and action properties, and the refinement of
`CallLedger`. The assumptions are `CatalogAssumption`, `ApprovalsAssumption`, `GatewayTokensAssumption`,
`GatewayAssumption`, `MembershipAssumption`, `InvitesAssumption`, `AccountsAssumption`,
`ExecutionsAssumption`, `IncidentsAssumption`, `WorkflowAssumption`, `GovernanceAssumption`,
`ServerSyncAssumption`, `ProposalsAssumption` and `RateAssumption`. They say what the sets of bodies,
links, offers and initial rows consist of (what the Pydantic schemas and `validate_scope` let through,
what columns admit and foreign keys lead to), that `None` is no row, and that the tables of tools, of
servers and of rules and what a server offers are finite; TLC evaluates each of them on the run of its
component.

* `ApprovalsProofs`: `ApprovalsTypeCorrect`, `LateDecisionsAreRefused`, `DecisionsAudited`. The
  second needs more than it says: that a request that has succeeded on an approval left it
  decided for ever (a decided approval may change its verdict but never becomes pending again), and
  that a request which recorded an earlier success on its approval in `after` is never in the state
  *loaded*. That is the order invariant. The audit invariant relates each decided status to a
  request that wrote it and each audit row to a request that succeeded.
* `GatewayTokensProofs`: `RetiredSecretsStayRetired`, `AnsweredRevocationHolds`,
  `ReactivationIsKnowing`. The inductive invariant `TokensInv` says that every secret in existence
  (in a row, retired, or held by a rotation in progress) is below `nextSecret`, that a
  secret held by a rotation in progress is in no row and not retired, and that a row loaded as
  *active* by a rotation is never written back with a status; from it a commit can only install a
  secret that is new.

* `MembershipProofs`: `MembershipTypeCorrect`, `LocksAreKept`, `LastAdminLostToStaleRead`,
  `DeactivationStays`, `DeactivationsOnRecord`, for any number of people and overlapping requests.
  The inductive invariant is `MembershipTypeOK /\ LocksHold`. Its core is the lemma
  `WritesMissTheLocks`, that a request which writes leaves every row that another one has locked as it
  is: so the administrators a request has counted stay administrators until it writes, of two of them
  one is not its target (`AnotherAdmin`), and he survives the write. Hence only a request that did not
  count, because it had loaded its target as no administrator, can remove the last one, and
  `MembershipAdmin` shows that it does.

* `RateLimitProofs`: `RateTypeCorrect`, `WindowHolds`, `AnswersHold`, for any limits, any window, any
  number of requests and of keys, over each backend. The inductive invariant `RateInv` joins four
  things. `LogInv`: consumptions are logged in the order they took effect, each no earlier than its
  clock was read. `DequeInv`: what the deque has popped is a window old by the latest clock. `CounterInv`: the consumptions the counter of
  Redis has granted since it was created are the last ones of the log, the first of them made as it was
  created, and all before it but the last `Limit - 1` are older than its creation by a window. `ChecksInv`: a request on its second key has consumed its first,
  and a denied one points at a full window. `WindowBound` is itself part of the induction: that a
  consumption may be appended (`MemoryTables`, `RedisTables`) is where the bound is earned, by the
  entry that is `Limit`, or twice `Limit` less one, places before it.

* `GatewayProofs`: `GatewayTypeCorrect`, `UpstreamAuthorized`, `UpstreamInScope`, `TrailAtomic`,
  `AnswersTrue`, `GatewayImplementsLedger`, `AnswersAgree`, `LateRetriesStayLocal`, for any number of
  calls, approvals, credentials and changes of the catalogue. The inductive invariant `GatewayInv` has
  three parts. `CallHolds` is what a call knows by the step it has come to: from `ReadTool` on, its
  row is of the agent of the credential and on the server named; from `ReadApproval` on, the approval
  it cites was approved *in the log*, which is what survives later decisions; from `Decide` on, the
  decision lets it pass. `UpstreamInScope` is of the specification with the history of GatewayScope: by
  induction over it, a call past `ReadScope` is in `scoped`, and one past `ReadTool` has in `offered` what it
  is going to ask, since the checks of these two steps are made on the catalogue of the moment.
  `UpstreamInv` is what stays true of a call once it went upstream, in terms of
  the row it had loaded: nothing there can change, since the catalogue is not read again. `StoreInv`
  ties executions, audit rows, records and answers to each other: a call has all of them or none, and
  every record is of an execution. The invariants of approvals and of credentials are taken over from
  their own modules: each step of the gateway is a step of theirs or leaves them alone. The refinement
  maps the ledger's entries to the records and its answers to `body`; a step is a `Fix`, a `Repeat`
  or a stutter of the ledger, by `RecordsInv`. `AnswersAgree` is then what clients see.

* `WorkflowProofs`: `WorkflowTypeCorrect`, `CitationsHold`, `PolicyHolds`, `ExecutionsOnRecord`,
  `ClosedIncidentsStay`, `DecisionsStayFinal`. `WorkflowInv` adds, to the invariant of the approvals,
  what a request on executions holds at each step (`RecorderHolds`), and for each row (`RowHolds`) the
  four explanations of its status: the policy allowed it, it is as the policy made it, it cites an
  approval, or somebody amends it; and that its status is announced in the log unless the request
  that wrote it has still to announce it or was cut off. An incident agrees with its date except
  between the two commits of a creation and after a write from a stale row.

* `AccountsProofs`: `AccountsTypeCorrect`, `OneOrigin`, `LateUseIsRefused`, `UninvitedAreOut`,
  `AnAdminExists`, `DeactivatedMembersStay`. No request on invites or accounts takes a lock, so that `AccountsInv` is
  mostly about what makes stale reads harmless: accounts and organizations never disappear, an invite
  exists only where there are both, and whoever holds a place or an account without being
  administrator counted an account before. `OriginsHold` counts acceptances and entries of a person
  together: exactly one where there is a membership, none where there is not.

* `GovernanceProofs`: `GovernanceTypeCorrect`, `NoDuplicateAlerts`, `ConflictsTakeOverlap`,
  `PeopleClassify`, `SimulatorForesees`, `SyncReflects`, `PostureKept`, `ScoresKept`, for any number of
  tools, rules, servers and overlapping requests. `GovernanceInv` joins the tables; what each request holds of what it has read
  (`RequestHolds`); what a request that has been alone knows, namely that nothing has changed since it
  read it (`AloneHolds`), which is why it meets no conflict; and what has not happened as long as no
  two operations have met (`ReconcilersHold`, `DoublesHold`). The numbers of the alerts of a key are
  dense, so that the next one is new. `SyncInv` says of a synchronization that is alone that its plan
  covers every tool of its server: a tool is matched with what is offered under its name, removed, or
  shares its name with another one; `SyncReflects` follows by a bijection of the offered names with
  the tools that are left. `SimulatorForesees` holds in every state, not only when nothing is in
  progress (where the run evaluates it, to save time). It needs that a rule sorts first among any set
  of rules; without induction over data that comes from the strict inclusion of finite sets being
  well founded. It also needs that ranks form a weak order (`RuleOrder`).

  `PostureKept` is about operations that repair the projections in up to three transactions, none of
  which sets everything right. `PostureInv` says what holds in between. `ToolAgrees` and `RiskAgrees`
  split the promise along the two reconciliations of the code, that of a tool and that of the
  register; while `trusted`, each discovered tool has both unless it `AwaitsRepair`, which is to say
  that the operation in progress is on a rule, or on this very tool, and has still to reconcile it.
  Between its two reconciliations an operation on a rule has the first half (`HalfRepaired`), and it is
  only then that the tools may be trusted again. `KnowsPosture` is what makes the repair right: a
  request that is alone has read rules, tools and active alerts that are still those of the tables,
  with the rows its session has written in the place of theirs (`ReviewedRows`, `SyncedView`).
  `TrustedRequests` keeps everything else out: as long as the projections are trusted, whatever is in
  progress is alone and no transition of an alert. A tool that no transaction touches keeps what it has
  (`AgreementKept`); and a synchronization that creates the agent of its server makes no tool discovered
  that it has not read, because every tool is of an agent that exists already (`LinksHold`). An alert of which there were two is
  resolved one at a time, so that of a key in `doubled` only one direction is kept (`Agrees`): it is
  active when it is due.

  `ScoresKept` follows from the same invariant and from the alerts of a violated control being of high
  severity (`SeverityInv`). A health of 100 leaves no tool unreviewed or ungoverned and no alert of
  high or critical severity; every built-in control is severe, so that a tool that violates one would
  have such an alert; so the register has nothing to deduct either. The counts are of finite sets
  because the numbers of the alerts of a key are dense (`AlertsAreFinite`).

Every theorem follows the same lines: the initial states satisfy the invariant, each action (one
step each, with a level below it per conjunct it can disturb) preserves it, and it implies the
property; the last step is temporal. TLC has checked the inductive invariants on the instances of the
runs before they were proved.

Two things about the code came out of proofs that did not go through:

* An alert can become active a second time without any reopening: an acknowledgement loads an open
  alert, a reconciliation resolves it and another creates its successor, and the acknowledgement, which
  writes the status it decided on (`transition_alert`), makes the old one active again beside it.
  `DuplicatesNeedMishap` therefore names a transition that met another operation among the causes.
* Two overlapping updates of one rule each pass `validate_scope` on the row they loaded, and the
  attributes the ORM then writes can combine to a rule of scope *tool* whose agent is not the agent of
  its tool. The gateway never applies such a rule; the risk register, alerts and the simulator, which
  recognize a rule by its tool alone, count it as coverage. `SimulationForesees` excepts it
  (`RulesAreScoped`).

Only model-checked: `CallsAreAnswered` and `ChangesAreAnswered`, because liveness under fairness and
`ENABLED` are outside what the prover does. Induction over data is outside what the prover does too; the
modules declare no recursive operator.

## Not modelled, and why

* Passwords, tokens, the login and role checks: every management operation is taken to be made by
  someone entitled to it, within one organization; only `Membership` reads the role of its caller,
  because that role is what it changes, and only `Accounts` asks who is let in at all. Each query of
  the code carries the organization.
* The dashboard and the compliance reports, listings, redaction, front end, seeding and configuration:
  they read, or format, or write demonstration rows once.
* Metadata of the catalogue (descriptions, owners) that nothing modelled depends on; the creation of
  agents and of tools by hand, which insert a row that the models start with; the creation of a server,
  its transport and its time-outs, which are a choice of the environment in `ServerSync` and `Gateway`.
* Audit rows of management operations whose only effect is the row, and the listings of the gateway,
  which write nothing else.
* What the code does knowingly, and no property contradicts: an approval is not consumed by the call
  it authorizes; the status of a credential is not read again after authentication; an outcome of
  *requires approval* is recorded under the idempotency key too, so that a retry with an approval needs
  another key; resolution notes of a resolved incident may be erased by a later PATCH.

## Plan

Every component with state of its own is modelled, and every safety property of the runs, invariant or
action property, is a theorem. What the runs alone show is that calls and membership changes are
answered; and the four statements of the documentation that the code does not keep have
counterexamples, not theorems. Worth modelling next, should the code change, are the repairs: an
approval locked before it is loaded, a key of idempotency taken before the upstream call, the count of
administrators for every change of a member, and the catalogue and the rules read in one snapshot.
