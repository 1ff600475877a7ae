--------------------------- MODULE GatewayTokens ---------------------------
(***************************************************************************)
(* Gateway credentials: create, rotate, revoke and authenticate of         *)
(* services/mcp_gateway.py.  A credential is known by the hash of its raw  *)
(* secret; secrets are numbered in the order they are generated.           *)
(*                                                                         *)
(* Every operation loads the row in one statement and writes it in a later *)
(* one.  The ORM writes back only the attributes whose value it saw        *)
(* change (NetChange), so what an operation overwrites depends on what it  *)
(* had loaded.  MaxSecret bounds the secrets that are ever generated.      *)
(***************************************************************************)
EXTENDS Catalog

CONSTANTS
    Tokens,
    TokenAgent,      \* mcp_gateway_tokens.agent_id
    TokenServers,    \* mcp_gateway_tokens.allowed_mcp_server_ids
    InitialTokens,   \* the credentials that exist at first
    AdminOps,        \* the management requests on credentials
    Uses,            \* the requests that present a credential
    MaxSecret        \* bound on the secrets generated

VARIABLES
    tokens,      \* tokens[t]: the row [hash, status]; hash 0, no row yet
    expired,     \* the credentials whose expires_at has passed
    ops,         \* ops[o]: where management request o is
    uses,        \* uses[u]: where the authentication of request u is
    nextSecret,  \* the next secret to be generated
    retired      \* history: the secrets that have been replaced

tokenVars == <<tokens, expired, ops, uses, nextSecret, retired>>

TokenRows == [hash : 0..MaxSecret, status : {"active", "revoked"}]
NoRow     == [hash |-> 0, status |-> "active"]

\* secret: the one the operation generated; after: the management requests
\* that had been answered when this one loaded its row.
OpStates ==
    [pc : {"idle", "loaded", "succeeded", "failed"},
     kind : {"create", "rotate", "revoke", None}, token : Tokens \cup {None},
     row : TokenRows, secret : 0..MaxSecret, after : SUBSET AdminOps]

UseStates ==
    [pc : {"idle", "found", "accepted", "refused"}, token : Tokens \cup {None},
     row : TokenRows]

ASSUME GatewayTokensAssumption ==
    /\ TokenAgent \in [Tokens -> Agents]
    /\ TokenServers \in [Tokens -> SUBSET Servers]
    /\ InitialTokens \subseteq Tokens
    /\ MaxSecret \in Nat
    /\ None \notin {"create", "rotate", "revoke"}

TokenEvent(action, by, t) == [action |-> action, by |-> by, about |-> t]

IdleOp  == [pc |-> "idle", kind |-> None, token |-> None, row |-> NoRow,
            secret |-> 0, after |-> {}]
IdleUse == [pc |-> "idle", token |-> None, row |-> NoRow]

\* The credentials of InitialTokens already hold the secrets below
\* nextSecret, each one its own.
TokensInit ==
    /\ expired = {}
    /\ ops = [o \in AdminOps |-> IdleOp]
    /\ uses = [u \in Uses |-> IdleUse]
    /\ retired = {}
    /\ nextSecret \in 1..(MaxSecret + 1)
    /\ tokens \in [Tokens -> TokenRows]
    /\ \A t \in Tokens \ InitialTokens : tokens[t] = NoRow
    /\ \A t \in InitialTokens : tokens[t].hash # 0
    /\ \A s \in 1..(nextSecret - 1) : \E t \in InitialTokens : tokens[t].hash = s
    /\ \A t, u \in InitialTokens : tokens[t].hash = tokens[u].hash => t = u
    /\ \A t \in InitialTokens : tokens[t].hash < nextSecret

(***************************************************************************)
(* What the ORM's flush leaves in a row, when the session loaded the row   *)
(* as "loaded" and its attributes are now "wanted": the attributes that    *)
(* did not change are not part of the UPDATE.                              *)
(***************************************************************************)
NetChange(row, loaded, wanted) ==
    [f \in DOMAIN row |-> IF wanted[f] # loaded[f] THEN wanted[f] ELSE row[f]]

AnsweredOps == {o \in AdminOps : ops[o].pc \in {"succeeded", "failed"}}

AgentGatewayEnabled(a) == agents[a] = "enabled"

\* resolve_credential_scope: the servers are linked to the agent, and it is
\* enabled.
ScopeResolves(t) ==
    /\ TokenServers[t] # {}
    /\ \A s \in TokenServers[t] :
          ~servers[s].deleted /\ servers[s].agent = TokenAgent[t]
    /\ AgentGatewayEnabled(TokenAgent[t])

\* create_token: one transaction that reads the servers and the agent and
\* inserts the row.
CreateToken(o, t) ==
    /\ ops[o].pc = "idle" /\ tokens[t].hash = 0 /\ nextSecret <= MaxSecret
    /\ ScopeResolves(t)
    /\ tokens' = [tokens EXCEPT ![t] = [hash |-> nextSecret, status |-> "active"]]
    /\ nextSecret' = nextSecret + 1
    /\ ops' = [ops EXCEPT ![o] = [pc |-> "succeeded", kind |-> "create", token |-> t,
                                  row |-> NoRow, secret |-> nextSecret,
                                  after |-> AnsweredOps]]
    /\ audit' = audit \cup {TokenEvent("credential_created", o, t)}
    /\ UNCHANGED <<expired, uses, retired>>

LoadOp(o, kind, t, secret) ==
    /\ ops[o].pc = "idle" /\ tokens[t].hash # 0
    /\ ops' = [ops EXCEPT ![o] = [pc |-> "loaded", kind |-> kind, token |-> t,
                                  row |-> tokens[t], secret |-> secret,
                                  after |-> AnsweredOps]]
    /\ UNCHANGED <<tokens, expired, uses, retired, audit>>

\* rotate_token generates the new secret after it has loaded the row.
LoadRotate(o, t) ==
    /\ nextSecret <= MaxSecret
    /\ LoadOp(o, "rotate", t, nextSecret)
    /\ nextSecret' = nextSecret + 1

LoadRevoke(o, t) == LoadOp(o, "revoke", t, 0) /\ UNCHANGED nextSecret

WriteToken(t, row) ==
    /\ tokens' = [tokens EXCEPT ![t] = row]
    /\ retired' = IF row.hash = tokens[t].hash THEN retired
                  ELSE retired \cup {tokens[t].hash}

\* Variant: the UPDATE names the status although it was active when loaded.
CommitRotateWholeRow(o) ==
    LET op == ops[o]
    IN  /\ op.pc = "loaded" /\ op.kind = "rotate"
        /\ WriteToken(op.token, [hash |-> op.secret, status |-> "active"])
        /\ ops' = [ops EXCEPT ![o].pc = "succeeded"]
        /\ audit' = audit \cup {TokenEvent("credential_rotated", o, op.token)}
        /\ UNCHANGED <<expired, uses, nextSecret>>

CommitRotate(o) ==
    LET op == ops[o]
    IN  /\ op.pc = "loaded" /\ op.kind = "rotate"
        /\ WriteToken(op.token,
              NetChange(tokens[op.token], op.row,
                        [hash |-> op.secret, status |-> "active"]))
        /\ ops' = [ops EXCEPT ![o].pc = "succeeded"]
        /\ audit' = audit \cup {TokenEvent("credential_rotated", o, op.token)}
        /\ UNCHANGED <<expired, uses, nextSecret>>

CommitRevoke(o) ==
    LET op == ops[o]
    IN  /\ op.pc = "loaded" /\ op.kind = "revoke"
        /\ WriteToken(op.token,
              NetChange(tokens[op.token], op.row,
                        [op.row EXCEPT !.status = "revoked"]))
        /\ ops' = [ops EXCEPT ![o].pc = "succeeded"]
        /\ audit' = audit \cup {TokenEvent("credential_revoked", o, op.token)}
        /\ UNCHANGED <<expired, uses, nextSecret>>

FailOp(o) ==
    /\ ops[o].pc = "loaded"
    /\ ops' = [ops EXCEPT ![o].pc = "failed"]
    /\ UNCHANGED <<tokens, expired, uses, nextSecret, retired, audit>>

\* The clock reaches the expires_at of a credential.
ExpireToken(t) ==
    /\ tokens[t].hash # 0 /\ t \notin expired
    /\ expired' = expired \cup {t}
    /\ UNCHANGED <<tokens, ops, uses, nextSecret, retired, audit>>

TokenAllowsServer(t, s) == s \in TokenServers[t]

(***************************************************************************)
(* authenticate_token(raw, s): the SELECT by hash and its verdict.  s is   *)
(* the server the path names, or None where the route does not pass one.   *)
(* An unknown secret leaves no trace; a refusal is audited.                *)
(***************************************************************************)
LookUpToken(u, secret, s) ==
    LET found == {t \in Tokens : tokens[t].hash = secret /\ secret # 0}
        Good(t) == /\ tokens[t].status = "active"
                   /\ s # None => TokenAllowsServer(t, s)
                   /\ t \notin expired
        At(pc, t, row) ==
            uses' = [uses EXCEPT ![u] = [pc |-> pc, token |-> t, row |-> row]]
    IN  /\ uses[u].pc = "idle"
        /\ \/ found = {} /\ At("refused", None, NoRow) /\ UNCHANGED audit
           \/ \E t \in found :
                 \/ ~Good(t) /\ At("refused", t, tokens[t])
                    /\ audit' = audit \cup {TokenEvent("credential_denied", u, t)}
                 \/ Good(t) /\ At("found", t, tokens[t]) /\ UNCHANGED audit
        /\ UNCHANGED <<tokens, expired, ops, nextSecret, retired>>

\* Variant: the UPDATE of last_used_at writes the other attributes too.
MarkTokenUsedWholeRow(u) ==
    LET use == uses[u]
    IN  /\ use.pc = "found"
        /\ WriteToken(use.token, use.row)
        /\ uses' = [uses EXCEPT ![u].pc = "accepted"]
        /\ audit' = audit \cup {TokenEvent("credential_used", u, use.token)}
        /\ UNCHANGED <<expired, ops, nextSecret>>

\* The rest of its transaction: the audit row, and last_used_at, which is
\* the only attribute of the row that changed.
MarkTokenUsed(u) ==
    LET use == uses[u]
    IN  /\ use.pc = "found"
        /\ WriteToken(use.token, NetChange(tokens[use.token], use.row, use.row))
        /\ uses' = [uses EXCEPT ![u].pc = "accepted"]
        /\ audit' = audit \cup {TokenEvent("credential_used", u, use.token)}
        /\ UNCHANGED <<expired, ops, nextSecret>>

FailUse(u) ==
    /\ uses[u].pc = "found"
    /\ uses' = [uses EXCEPT ![u].pc = "refused"]
    /\ UNCHANGED <<tokens, expired, ops, nextSecret, retired, audit>>

TokenAdminNext ==
    \/ \E o \in AdminOps : \/ \E t \in Tokens : \/ CreateToken(o, t)
                                                \/ LoadRotate(o, t)
                                                \/ LoadRevoke(o, t)
                           \/ CommitRotate(o) \/ CommitRevoke(o) \/ FailOp(o)
    \/ \E t \in Tokens : ExpireToken(t)

TokensTypeOK ==
    /\ tokens \in [Tokens -> TokenRows]
    /\ expired \subseteq Tokens
    /\ ops \in [AdminOps -> OpStates]
    /\ uses \in [Uses -> UseStates]
    /\ nextSecret \in 1..(MaxSecret + 1)
    /\ retired \subseteq 1..MaxSecret

-----------------------------------------------------------------------------
(***************************************************************************)
(* The component alone.                                                    *)
(***************************************************************************)
TokensAloneNext ==
    \/ TokenAdminNext /\ UNCHANGED catalogVars
    \/ /\ \E u \in Uses :
             \/ \E secret \in 0..MaxSecret, s \in Servers \cup {None} :
                   LookUpToken(u, secret, s)
             \/ MarkTokenUsed(u) \/ FailUse(u)
       /\ UNCHANGED catalogVars
    \/ /\ \E a \in Agents, s \in {"enabled", "disabled"} : UpdateAgent(a, s)
       /\ UNCHANGED <<tokenVars, audit>>

TokensAloneVars == <<catalogVars, tokenVars, audit>>

TokensAloneInit == CatalogInit /\ TokensInit /\ audit = {}

TokensSpec == TokensAloneInit /\ [][TokensAloneNext]_TokensAloneVars

(***************************************************************************)
(* A secret that has been replaced is never the secret of a credential     *)
(* again, whatever rotations, revocations and authentications overlap.     *)
(* (test_gateway_token_returns_raw_once_and_rotation_invalidates_old_token *)
(* checks it for one rotation alone.)                                      *)
(***************************************************************************)
RetiredStaysRetired == \A t \in Tokens : tokens[t].hash \notin retired

(***************************************************************************)
(* A revocation that was answered holds: the credential is revoked unless  *)
(* some rotation of it was not yet answered when the revocation began, or  *)
(* began later.                                                            *)
(***************************************************************************)
RevocationHolds ==
    \A o \in AdminOps :
        /\ ops[o].pc = "succeeded" /\ ops[o].kind = "revoke"
        /\ \A p \in AdminOps : ops[p].kind = "rotate" /\ ops[p].token = ops[o].token
                               => p \in ops[o].after
        => tokens[ops[o].token].status = "revoked"

(***************************************************************************)
(* A revoked credential becomes active again only by a rotation whose      *)
(* administrator was shown the credential as revoked: a rotation that      *)
(* overlaps a revocation does not undo it.                                 *)
(***************************************************************************)
ReactivatedKnowingly ==
    [][\A t \in Tokens :
          tokens[t].status = "revoked" /\ tokens'[t].status = "active" =>
             \E o \in AdminOps : /\ ops[o].token = t /\ ops[o].kind = "rotate"
                                 /\ ops[o].row.status = "revoked"
                                 /\ ops[o].pc = "loaded" /\ ops'[o].pc = "succeeded"
      ]_tokens
=============================================================================
