------------------------ MODULE GatewayTokensProofs ------------------------
(***************************************************************************)
(* Proofs about GatewayTokens, for any number of credentials, of           *)
(* management requests and of requests that authenticate.                  *)
(***************************************************************************)
EXTENDS GatewayTokens, TLAPS

(***************************************************************************)
(* What the ORM writes back, attribute by attribute.                       *)
(***************************************************************************)
LEMMA NetChangeFields ==
    ASSUME NEW row \in TokenRows, NEW loaded \in TokenRows, NEW wanted \in TokenRows
    PROVE  NetChange(row, loaded, wanted) =
              [hash   |-> IF wanted.hash # loaded.hash THEN wanted.hash ELSE row.hash,
               status |-> IF wanted.status # loaded.status THEN wanted.status
                          ELSE row.status]
<1>1. DOMAIN row = {"hash", "status"}
  BY DEF TokenRows
<1> DEFINE net == NetChange(row, loaded, wanted)
<1>2. net = [f \in {"hash", "status"} |->
               IF wanted[f] # loaded[f] THEN wanted[f] ELSE row[f]]
  BY <1>1 DEF NetChange
<1> QED BY <1>2

-----------------------------------------------------------------------------
\* What holds of the secrets: each is the secret of one credential at most,
\* in use or replaced, and all were generated before nextSecret.
SecretsInv ==
    /\ \A t \in Tokens : tokens[t].hash < nextSecret
    /\ \A t \in Tokens : tokens[t].hash = 0 => tokens[t].status = "active"
    /\ \A t, u \in Tokens :
          tokens[t].hash = tokens[u].hash /\ tokens[t].hash # 0 => t = u
    /\ \A s \in retired : s < nextSecret
    /\ RetiredStaysRetired

\* What a management request holds between its SELECT and its commit: a
\* credential that exists and, for a rotation, a secret of its own that no
\* row has had yet.
OpsInv ==
    /\ \A o \in AdminOps : ops[o].pc = "loaded" =>
          /\ ops[o].token \in Tokens /\ ops[o].kind \in {"rotate", "revoke"}
          /\ tokens[ops[o].token].hash # 0 /\ ops[o].row.hash # 0
    /\ \A o \in AdminOps : ops[o].pc = "loaded" /\ ops[o].kind = "rotate" =>
          /\ ops[o].secret \in 1..(nextSecret - 1)
          /\ ops[o].secret \notin retired /\ ops[o].secret # ops[o].row.hash
          /\ \A t \in Tokens : tokens[t].hash # ops[o].secret
    /\ \A o, p \in AdminOps :
          /\ ops[o].pc = "loaded" /\ ops[o].kind = "rotate"
          /\ ops[p].pc = "loaded" /\ ops[p].kind = "rotate"
          /\ ops[o].secret = ops[p].secret
          => o = p
    /\ \A u \in Uses : uses[u].pc = "found" => uses[u].token \in Tokens

TokensInv == TokensTypeOK /\ SecretsInv /\ OpsInv

(***************************************************************************)
(* What the three operations that write a loaded row do to the table.  An  *)
(* authentication writes last_used_at alone, which is no part of the row.  *)
(***************************************************************************)
LEMMA MarkTokenUsedWrites ==
    ASSUME TokensInv, NEW u \in Uses, MarkTokenUsed(u)
    PROVE  UNCHANGED <<tokens, retired, ops, nextSecret, expired>>
<1> DEFINE t == uses[u].token
           w == NetChange(tokens[t], uses[u].row, uses[u].row)
<1>1. t \in Tokens /\ tokens[t] \in TokenRows /\ uses[u].row \in TokenRows
  BY DEF TokensInv, OpsInv, TokensTypeOK, UseStates, MarkTokenUsed
<1>2. w = [hash |-> tokens[t].hash, status |-> tokens[t].status]
  BY <1>1, NetChangeFields
<1>3. w = tokens[t]
  BY <1>1, <1>2 DEF TokenRows
<1>4. tokens' = [tokens EXCEPT ![t] = w]
      /\ retired' = IF w.hash = tokens[t].hash THEN retired
                    ELSE retired \cup {tokens[t].hash}
  BY DEF MarkTokenUsed, WriteToken
<1>5. UNCHANGED <<ops, nextSecret, expired>>
  BY DEF MarkTokenUsed
<1> QED BY <1>1, <1>3, <1>4, <1>5 DEF TokensInv, TokensTypeOK

LEMMA CommitRotateWrites ==
    ASSUME TokensInv, NEW o \in AdminOps, CommitRotate(o)
    PROVE  LET t == ops[o].token
           IN  /\ tokens' = [tokens EXCEPT ![t] =
                    [hash   |-> ops[o].secret,
                     status |-> IF ops[o].row.status = "revoked" THEN "active"
                                ELSE tokens[t].status]]
               /\ retired' = retired \cup {tokens[t].hash}
<1> DEFINE t == ops[o].token
           wanted == [hash |-> ops[o].secret, status |-> "active"]
           w == NetChange(tokens[t], ops[o].row, wanted)
<1>1. /\ t \in Tokens /\ tokens[t] \in TokenRows /\ ops[o].row \in TokenRows
      /\ ops[o].secret # ops[o].row.hash /\ tokens[t].hash # ops[o].secret
      /\ wanted \in TokenRows /\ wanted.hash = ops[o].secret
      /\ wanted.status = "active"
  BY DEF TokensInv, OpsInv, TokensTypeOK, OpStates, CommitRotate, TokenRows
<1> HIDE DEF wanted
<1>2. w = [hash   |-> IF wanted.hash # ops[o].row.hash THEN wanted.hash
                      ELSE tokens[t].hash,
           status |-> IF wanted.status # ops[o].row.status THEN wanted.status
                      ELSE tokens[t].status]
  BY <1>1, NetChangeFields
<1>3. w = [hash   |-> ops[o].secret,
           status |-> IF ops[o].row.status = "revoked" THEN "active"
                      ELSE tokens[t].status]
  BY <1>1, <1>2 DEF TokenRows
<1>4. tokens' = [tokens EXCEPT ![t] = w]
      /\ retired' = IF w.hash = tokens[t].hash THEN retired
                    ELSE retired \cup {tokens[t].hash}
  BY DEF CommitRotate, WriteToken, wanted
<1> HIDE DEF w
<1> QED BY <1>1, <1>3, <1>4

LEMMA CommitRevokeWrites ==
    ASSUME TokensInv, NEW o \in AdminOps, CommitRevoke(o)
    PROVE  LET t == ops[o].token
           IN  /\ tokens' = [tokens EXCEPT ![t] =
                    [hash   |-> tokens[t].hash,
                     status |-> IF ops[o].row.status = "active" THEN "revoked"
                                ELSE tokens[t].status]]
               /\ retired' = retired
<1> DEFINE t == ops[o].token
           wanted == [ops[o].row EXCEPT !.status = "revoked"]
           w == NetChange(tokens[t], ops[o].row, wanted)
<1>1. /\ t \in Tokens /\ tokens[t] \in TokenRows /\ ops[o].row \in TokenRows
      /\ wanted \in TokenRows /\ wanted.hash = ops[o].row.hash
      /\ wanted.status = "revoked"
  BY DEF TokensInv, OpsInv, TokensTypeOK, OpStates, CommitRevoke, TokenRows
<1> HIDE DEF wanted
<1>2. w = [hash   |-> IF wanted.hash # ops[o].row.hash THEN wanted.hash
                      ELSE tokens[t].hash,
           status |-> IF wanted.status # ops[o].row.status THEN wanted.status
                      ELSE tokens[t].status]
  BY <1>1, NetChangeFields
<1>3. w = [hash   |-> tokens[t].hash,
           status |-> IF ops[o].row.status = "active" THEN "revoked"
                      ELSE tokens[t].status]
  BY <1>1, <1>2 DEF TokenRows
<1>4. tokens' = [tokens EXCEPT ![t] = w]
      /\ retired' = IF w.hash = tokens[t].hash THEN retired
                    ELSE retired \cup {tokens[t].hash}
  BY DEF CommitRevoke, WriteToken, wanted
<1> HIDE DEF w
<1> QED BY <1>1, <1>3, <1>4

-----------------------------------------------------------------------------
(***************************************************************************)
(* TokensInv is inductive, one operation at a time.                        *)
(***************************************************************************)
LEMMA CreateTokenKeeps ==
    ASSUME TokensInv, NEW o \in AdminOps, NEW t \in Tokens, CreateToken(o, t)
    PROVE  TokensInv'
<1> USE GatewayTokensAssumption
<1>1. TokensTypeOK'
  BY DEF TokensInv, TokensTypeOK, CreateToken, TokenRows, OpStates, NoRow, AnsweredOps
<1>2. SecretsInv'
  BY DEF TokensInv, TokensTypeOK, SecretsInv, RetiredStaysRetired, CreateToken, TokenRows
<1>3. OpsInv'
  BY DEF TokensInv, TokensTypeOK, SecretsInv, OpsInv, CreateToken, TokenRows
<1> QED BY <1>1, <1>2, <1>3 DEF TokensInv

LEMMA LoadRotateKeeps ==
    ASSUME TokensInv, NEW o \in AdminOps, NEW t \in Tokens, LoadRotate(o, t)
    PROVE  TokensInv'
<1> USE GatewayTokensAssumption DEF LoadRotate, LoadOp
<1>1. TokensTypeOK'
  BY DEF TokensInv, TokensTypeOK, OpStates, AnsweredOps
<1>2. SecretsInv'
  BY DEF TokensInv, TokensTypeOK, SecretsInv, RetiredStaysRetired, TokenRows
<1>3. OpsInv'
  <2>1. nextSecret' = nextSecret + 1 /\ nextSecret \in Nat \ {0}
    BY DEF TokensInv, TokensTypeOK
  <2>2. nextSecret \notin retired /\ \A u \in Tokens : tokens[u].hash # nextSecret
    BY DEF TokensInv, TokensTypeOK, SecretsInv, TokenRows
  <2>3. \A p \in AdminOps : ops[p].pc = "loaded" /\ ops[p].kind = "rotate" =>
           ops[p].secret \in 1..(nextSecret - 1)
    BY DEF TokensInv, OpsInv
  <2>4. \A p \in AdminOps \ {o} : ops'[p] = ops[p]
    BY DEF TokensInv, TokensTypeOK
  <2>5. ops'[o] = [pc |-> "loaded", kind |-> "rotate", token |-> t,
                   row |-> tokens[t], secret |-> nextSecret, after |-> AnsweredOps]
    BY DEF TokensInv, TokensTypeOK
  <2> QED BY <2>1, <2>2, <2>3, <2>4, <2>5 DEF TokensInv, OpsInv, TokensTypeOK
<1> QED BY <1>1, <1>2, <1>3 DEF TokensInv

LEMMA LoadRevokeKeeps ==
    ASSUME TokensInv, NEW o \in AdminOps, NEW t \in Tokens, LoadRevoke(o, t)
    PROVE  TokensInv'
<1> USE GatewayTokensAssumption DEF LoadRevoke, LoadOp
<1>1. TokensTypeOK'
  BY DEF TokensInv, TokensTypeOK, OpStates, AnsweredOps
<1>2. SecretsInv'
  BY DEF TokensInv, TokensTypeOK, SecretsInv, RetiredStaysRetired
<1>3. OpsInv'
  BY DEF TokensInv, TokensTypeOK, OpsInv
<1> QED BY <1>1, <1>2, <1>3 DEF TokensInv

LEMMA CommitRotateKeeps ==
    ASSUME TokensInv, NEW o \in AdminOps, CommitRotate(o)
    PROVE  TokensInv'
<1> DEFINE t == ops[o].token
           row == [hash   |-> ops[o].secret,
                   status |-> IF ops[o].row.status = "revoked" THEN "active"
                              ELSE tokens[t].status]
<1>1. tokens' = [tokens EXCEPT ![t] = row] /\ retired' = retired \cup {tokens[t].hash}
  BY CommitRotateWrites
<1>2. /\ ops' = [ops EXCEPT ![o].pc = "succeeded"]
      /\ UNCHANGED <<expired, uses, nextSecret>>
      /\ ops[o].pc = "loaded" /\ ops[o].kind = "rotate"
  BY DEF CommitRotate
<1>3. /\ t \in Tokens /\ tokens[t].hash \in 1..(nextSecret - 1)
      /\ ops[o].secret \in 1..(nextSecret - 1) /\ row \in TokenRows
  BY <1>2, GatewayTokensAssumption
     DEF TokensInv, TokensTypeOK, OpsInv, SecretsInv, TokenRows, OpStates
<1>4. row.hash = ops[o].secret
  OBVIOUS
<1> HIDE DEF row
<1>5. TokensTypeOK'
  BY <1>1, <1>2, <1>3, GatewayTokensAssumption DEF TokensInv, TokensTypeOK, OpStates
<1>6. SecretsInv'
  BY <1>1, <1>2, <1>3, <1>4
     DEF TokensInv, TokensTypeOK, SecretsInv, OpsInv, RetiredStaysRetired, TokenRows
<1>7. OpsInv'
  BY <1>1, <1>2, <1>3, <1>4
     DEF TokensInv, TokensTypeOK, SecretsInv, OpsInv, OpStates, TokenRows
<1> QED BY <1>5, <1>6, <1>7 DEF TokensInv

LEMMA CommitRevokeKeeps ==
    ASSUME TokensInv, NEW o \in AdminOps, CommitRevoke(o)
    PROVE  TokensInv'
<1> DEFINE t == ops[o].token
           row == [hash   |-> tokens[t].hash,
                   status |-> IF ops[o].row.status = "active" THEN "revoked"
                              ELSE tokens[t].status]
<1>1. tokens' = [tokens EXCEPT ![t] = row] /\ retired' = retired
  BY CommitRevokeWrites
<1>2. /\ ops' = [ops EXCEPT ![o].pc = "succeeded"]
      /\ UNCHANGED <<expired, uses, nextSecret>>
      /\ ops[o].pc = "loaded"
  BY DEF CommitRevoke
<1>3. t \in Tokens /\ row \in TokenRows /\ tokens[t].hash # 0
  BY <1>2 DEF TokensInv, TokensTypeOK, OpsInv, TokenRows
<1>4. row.hash = tokens[t].hash
  OBVIOUS
<1> HIDE DEF row
<1>5. TokensTypeOK'
  BY <1>1, <1>2, <1>3 DEF TokensInv, TokensTypeOK, OpStates
<1>6. SecretsInv'
  BY <1>1, <1>2, <1>3, <1>4
     DEF TokensInv, TokensTypeOK, SecretsInv, RetiredStaysRetired
<1>7. OpsInv'
  BY <1>1, <1>2, <1>3, <1>4 DEF TokensInv, TokensTypeOK, OpsInv, OpStates
<1> QED BY <1>5, <1>6, <1>7 DEF TokensInv

\* What every operation on credentials but the five above leaves alone.
Idle == UNCHANGED <<tokens, retired, nextSecret>>

LEMMA OtherOpsKeep ==
    ASSUME TokensInv,
           \/ \E o \in AdminOps : FailOp(o)
           \/ \E t \in Tokens : ExpireToken(t)
    PROVE  TokensInv' /\ Idle
<1>1. ASSUME NEW o \in AdminOps, FailOp(o)
      PROVE  TokensInv' /\ Idle
  BY <1>1 DEF FailOp, TokensInv, TokensTypeOK, OpStates, SecretsInv, OpsInv,
              RetiredStaysRetired, Idle
<1>2. ASSUME NEW t \in Tokens, ExpireToken(t)
      PROVE  TokensInv' /\ Idle
  BY <1>2 DEF ExpireToken, TokensInv, TokensTypeOK, SecretsInv, OpsInv,
              RetiredStaysRetired, Idle
<1> QED BY <1>1, <1>2

\* One request that presents a credential.
UseStep(u) ==
    \/ \E secret \in 0..MaxSecret, s \in Servers \cup {None} : LookUpToken(u, secret, s)
    \/ MarkTokenUsed(u) \/ FailUse(u)

LEMMA UseStepKeeps ==
    ASSUME TokensInv, NEW u \in Uses, UseStep(u)
    PROVE  TokensInv' /\ Idle /\ UNCHANGED ops
<1>1. ASSUME NEW secret \in 0..MaxSecret, NEW s \in Servers \cup {None},
             LookUpToken(u, secret, s)
      PROVE  TokensInv' /\ Idle /\ UNCHANGED ops
  <2>1. UNCHANGED <<tokens, expired, ops, nextSecret, retired>>
    BY <1>1 DEF LookUpToken
  <2> DEFINE At(p, t, row) ==
                uses' = [uses EXCEPT ![u] = [pc |-> p, token |-> t, row |-> row]]
  <2>2. PICK p \in {"found", "refused"}, t \in Tokens \cup {None}, row \in TokenRows :
           /\ p = "found" => t \in Tokens
           /\ At(p, t, row)
    <3>1. \/ At("refused", None, NoRow)
          \/ \E t \in Tokens : At("refused", t, tokens[t]) \/ At("found", t, tokens[t])
      BY <1>1, Zenon DEF LookUpToken
    <3>2. NoRow \in TokenRows /\ \A t \in Tokens : tokens[t] \in TokenRows
      BY GatewayTokensAssumption DEF TokensInv, TokensTypeOK, TokenRows, NoRow
    <3> HIDE DEF At
    <3> QED BY <3>1, <3>2
  <2>3. uses' \in [Uses -> UseStates]
    BY <2>2 DEF TokensInv, TokensTypeOK, UseStates
  <2> QED BY <2>1, <2>2, <2>3
          DEF TokensInv, TokensTypeOK, SecretsInv, OpsInv, RetiredStaysRetired, Idle
<1>2. CASE MarkTokenUsed(u)
  <2>1. UNCHANGED <<tokens, retired, ops, nextSecret, expired>>
    BY <1>2, MarkTokenUsedWrites
  <2>2. uses' = [uses EXCEPT ![u].pc = "accepted"]
    BY <1>2 DEF MarkTokenUsed
  <2> QED BY <2>1, <2>2
          DEF TokensInv, TokensTypeOK, UseStates, SecretsInv, OpsInv,
              RetiredStaysRetired, Idle
<1>3. CASE FailUse(u)
  BY <1>3 DEF FailUse, TokensInv, TokensTypeOK, UseStates, SecretsInv, OpsInv,
              RetiredStaysRetired, Idle
<1> QED BY <1>1, <1>2, <1>3 DEF UseStep

\* The steps of the component by what they are: of a management request, of
\* the clock, of a request that authenticates, or of the catalogue.
TokenStep ==
    \/ \E o \in AdminOps : \/ \E t \in Tokens : \/ CreateToken(o, t)
                                                \/ LoadRotate(o, t)
                                                \/ LoadRevoke(o, t)
                           \/ CommitRotate(o) \/ CommitRevoke(o)
    \/ (\E o \in AdminOps : FailOp(o)) \/ (\E t \in Tokens : ExpireToken(t))
    \/ \E u \in Uses : UseStep(u)

LEMMA TokenStepCases ==
    ASSUME [TokensAloneNext]_TokensAloneVars
    PROVE  TokenStep \/ UNCHANGED tokenVars
BY DEF TokensAloneNext, TokenAdminNext, TokenStep, UseStep, TokensAloneVars

LEMMA TokenStepKeeps ==
    ASSUME TokensInv, TokenStep \/ UNCHANGED tokenVars
    PROVE  TokensInv'
<1>1. CASE TokenStep
  BY <1>1, CreateTokenKeeps, LoadRotateKeeps, LoadRevokeKeeps, CommitRotateKeeps,
     CommitRevokeKeeps, OtherOpsKeep, UseStepKeeps DEF TokenStep
<1>2. CASE UNCHANGED tokenVars
  BY <1>2 DEF tokenVars, TokensInv, TokensTypeOK, SecretsInv, OpsInv,
              RetiredStaysRetired
<1> QED BY <1>1, <1>2

LEMMA TokensInvariant == TokensSpec => []TokensInv
<1>1. TokensInit => TokensInv
  BY GatewayTokensAssumption
     DEF TokensInit, TokensInv, TokensTypeOK, SecretsInv, OpsInv, RetiredStaysRetired,
         IdleOp, IdleUse, OpStates, UseStates, TokenRows, NoRow
<1>2. TokensInv /\ [TokensAloneNext]_TokensAloneVars => TokensInv'
  BY TokenStepCases, TokenStepKeeps
<1> QED BY <1>1, <1>2, PTL DEF TokensSpec, TokensAloneInit

(***************************************************************************)
(* No replaced secret is ever accepted again as the secret of a            *)
(* credential: rotate_token draws a secret nobody had and writes the hash  *)
(* it drew, and no other operation writes a hash it had loaded.            *)
(***************************************************************************)
THEOREM RetiredSecretsStayRetired == TokensSpec => []RetiredStaysRetired
BY TokensInvariant, PTL DEF TokensInv, SecretsInv

(***************************************************************************)
(* A rotation or a revocation that is answered has happened to a row: what *)
(* each step of the component does to the status of a credential.          *)
(***************************************************************************)
LEMMA StatusCases ==
    ASSUME TokensInv, TokenStep, NEW t \in Tokens
    PROVE  \/ tokens'[t].status = tokens[t].status
           \/ \E o \in AdminOps :
                 /\ CommitRotate(o) /\ ops[o].token = t
                 /\ ops[o].row.status = "revoked" /\ tokens'[t].status = "active"
           \/ \E o \in AdminOps :
                 /\ CommitRevoke(o) /\ ops[o].token = t
                 /\ ops[o].row.status = "active" /\ tokens'[t].status = "revoked"
<1>1. ASSUME NEW o \in AdminOps, NEW u \in Tokens, CreateToken(o, u)
      PROVE  tokens'[t].status = tokens[t].status
  BY <1>1 DEF CreateToken, TokensInv, TokensTypeOK, SecretsInv
<1>2. ASSUME NEW o \in AdminOps, NEW u \in Tokens, LoadRotate(o, u) \/ LoadRevoke(o, u)
      PROVE  tokens' = tokens
  BY <1>2 DEF LoadRotate, LoadRevoke, LoadOp
<1>3. ASSUME NEW o \in AdminOps, CommitRotate(o)
      PROVE  \/ tokens'[t].status = tokens[t].status
             \/ /\ ops[o].token = t /\ ops[o].row.status = "revoked"
                /\ tokens'[t].status = "active"
  <2> DEFINE row == [hash   |-> ops[o].secret,
                     status |-> IF ops[o].row.status = "revoked" THEN "active"
                                ELSE tokens[ops[o].token].status]
  <2>1. tokens' = [tokens EXCEPT ![ops[o].token] = row]
    BY <1>3, CommitRotateWrites
  <2> QED BY <2>1 DEF TokensInv, TokensTypeOK
<1>4. ASSUME NEW o \in AdminOps, CommitRevoke(o)
      PROVE  \/ tokens'[t].status = tokens[t].status
             \/ /\ ops[o].token = t /\ ops[o].row.status = "active"
                /\ tokens'[t].status = "revoked"
  <2> DEFINE row == [hash   |-> tokens[ops[o].token].hash,
                     status |-> IF ops[o].row.status = "active" THEN "revoked"
                                ELSE tokens[ops[o].token].status]
  <2>1. tokens' = [tokens EXCEPT ![ops[o].token] = row]
    BY <1>4, CommitRevokeWrites
  <2> QED BY <2>1 DEF TokensInv, TokensTypeOK
<1>5. ASSUME \/ \E o \in AdminOps : FailOp(o)
             \/ \E u \in Tokens : ExpireToken(u)
             \/ \E u \in Uses : UseStep(u)
      PROVE  tokens' = tokens
  BY <1>5, OtherOpsKeep, UseStepKeeps DEF Idle
<1> QED BY <1>1, <1>2, <1>3, <1>4, <1>5 DEF TokenStep

(***************************************************************************)
(* A revoked credential becomes active again only by a rotation that had   *)
(* loaded it as revoked: rotate_token writes the status only when the      *)
(* value it loaded was not "active" already.                               *)
(***************************************************************************)
THEOREM ReactivationIsKnowing == TokensSpec => ReactivatedKnowingly
<1> DEFINE Knowing == \A t \in Tokens :
       tokens[t].status = "revoked" /\ tokens'[t].status = "active" =>
          \E o \in AdminOps : /\ ops[o].token = t /\ ops[o].kind = "rotate"
                              /\ ops[o].row.status = "revoked"
                              /\ ops[o].pc = "loaded" /\ ops'[o].pc = "succeeded"
<1>1. TokensInv /\ [TokensAloneNext]_TokensAloneVars => [Knowing]_tokens
  <2> SUFFICES ASSUME TokensInv, [TokensAloneNext]_TokensAloneVars, tokens' # tokens
               PROVE  Knowing
    OBVIOUS
  <2>1. TokenStep
    BY TokenStepCases DEF tokenVars
  <2>2. ASSUME NEW t \in Tokens,
               tokens[t].status = "revoked", tokens'[t].status = "active"
        PROVE  \E o \in AdminOps : /\ ops[o].token = t /\ ops[o].kind = "rotate"
                                   /\ ops[o].row.status = "revoked"
                                   /\ ops[o].pc = "loaded" /\ ops'[o].pc = "succeeded"
    <3>1. PICK o \in AdminOps : /\ CommitRotate(o) /\ ops[o].token = t
                                /\ ops[o].row.status = "revoked"
      BY <2>1, <2>2, StatusCases
    <3> QED BY <3>1 DEF CommitRotate, TokensInv, TokensTypeOK
  <2> QED BY <2>2
<1> QED BY <1>1, TokensInvariant, PTL DEF TokensSpec, TokensAloneInit, ReactivatedKnowingly

-----------------------------------------------------------------------------
\* Every rotation of the credential of o was answered before o began.
RotationsBefore(o) ==
    \A p \in AdminOps :
        ops[p].kind = "rotate" /\ ops[p].token = ops[o].token => p \in ops[o].after

\* RevocationHolds, with what it needs of revocations that are still to
\* commit: one that loaded a revoked row will not write the status.
RevocationInv ==
    /\ \A o \in AdminOps : ops[o].after \subseteq AnsweredOps
    /\ \A o \in AdminOps : ops[o].kind = "revoke" =>
          /\ ops[o].token \in Tokens /\ tokens[ops[o].token].hash # 0
          /\ /\ RotationsBefore(o)
             /\ ops[o].pc = "loaded" => ops[o].row.status = "revoked"
             /\ ops[o].pc \in {"loaded", "succeeded"}
             => tokens[ops[o].token].status = "revoked"
    /\ \A o \in AdminOps : ops[o].pc = "idle" => ops[o].kind = None

(***************************************************************************)
(* The steps that leave the requests on credentials where they are, and    *)
(* the rows too, keep it.                                                  *)
(***************************************************************************)
LEMMA RevocationKeptByLoads ==
    ASSUME TokensInv, RevocationInv, NEW o \in AdminOps, NEW t \in Tokens,
           LoadRotate(o, t) \/ LoadRevoke(o, t)
    PROVE  RevocationInv'
<1>1. /\ ops[o].pc = "idle" /\ tokens[t].hash # 0 /\ tokens' = tokens
      /\ \A p \in AdminOps \ {o} : ops'[p] = ops[p]
      /\ ops'[o].pc = "loaded" /\ ops'[o].token = t /\ ops'[o].after = AnsweredOps
      /\ ops'[o].row = tokens[t] /\ ops'[o].kind \in {"rotate", "revoke"}
  BY DEF LoadRotate, LoadRevoke, LoadOp, TokensInv, TokensTypeOK
<1>2. AnsweredOps' = AnsweredOps
  BY <1>1 DEF AnsweredOps
<1>3. \A p \in AdminOps : o \notin ops[p].after
  BY <1>1 DEF RevocationInv, AnsweredOps
<1>4. \A p \in AdminOps \ {o} : RotationsBefore(p)' => RotationsBefore(p)
  BY <1>1, GatewayTokensAssumption DEF RotationsBefore, RevocationInv
<1>5. \A p \in AdminOps : ops'[p].after \subseteq AnsweredOps'
  BY <1>1, <1>2 DEF RevocationInv
<1>6. \A p \in AdminOps : ops'[p].pc = "idle" => ops'[p].kind = None
  BY <1>1 DEF RevocationInv
<1>7. ASSUME NEW p \in AdminOps, ops'[p].kind = "revoke"
      PROVE  /\ ops'[p].token \in Tokens /\ tokens'[ops'[p].token].hash # 0
             /\ /\ RotationsBefore(p)'
                /\ ops'[p].pc = "loaded" => ops'[p].row.status = "revoked"
                /\ ops'[p].pc \in {"loaded", "succeeded"}
                => tokens'[ops'[p].token].status = "revoked"
  <2>1. CASE p = o
    BY <1>1, <2>1
  <2>2. CASE p # o
    BY <1>1, <1>4, <1>7, <2>2 DEF RevocationInv
  <2> QED BY <2>1, <2>2
<1> QED BY <1>5, <1>6, <1>7 DEF RevocationInv

LEMMA RevocationKeptByOthers ==
    ASSUME TokensInv, RevocationInv, tokens' = tokens,
           UNCHANGED ops \/ \E o \in AdminOps : FailOp(o)
    PROVE  RevocationInv'
<1>1. CASE UNCHANGED ops
  BY <1>1 DEF RevocationInv, RotationsBefore, AnsweredOps
<1>2. ASSUME NEW o \in AdminOps, FailOp(o)
      PROVE  RevocationInv'
  <2>1. \A p \in AdminOps : /\ ops'[p].kind = ops[p].kind /\ ops'[p].token = ops[p].token
                            /\ ops'[p].after = ops[p].after /\ ops'[p].row = ops[p].row
                            /\ ops'[p].pc = IF p = o THEN "failed" ELSE ops[p].pc
    BY <1>2 DEF FailOp, TokensInv, TokensTypeOK, OpStates
  <2>2. AnsweredOps \subseteq AnsweredOps'
    BY <2>1 DEF AnsweredOps
  <2>3. \A p \in AdminOps : RotationsBefore(p)' <=> RotationsBefore(p)
    BY <2>1 DEF RotationsBefore
  <2> QED BY <2>1, <2>2, <2>3 DEF RevocationInv
<1> QED BY <1>1, <1>2

LEMMA RevocationKeptByCreate ==
    ASSUME TokensInv, RevocationInv, NEW o \in AdminOps, NEW t \in Tokens,
           CreateToken(o, t)
    PROVE  RevocationInv'
<1>1. /\ \A p \in AdminOps \ {o} : ops'[p] = ops[p]
      /\ ops'[o].pc = "succeeded" /\ ops'[o].kind = "create"
      /\ ops'[o].after = AnsweredOps /\ ops[o].pc = "idle" /\ tokens[t].hash = 0
      /\ \A u \in Tokens \ {t} : tokens'[u] = tokens[u]
  BY DEF CreateToken, TokensInv, TokensTypeOK
<1>2. AnsweredOps \subseteq AnsweredOps'
  BY <1>1 DEF AnsweredOps
<1>3. \A p \in AdminOps \ {o} : RotationsBefore(p)' => RotationsBefore(p)
  BY <1>1, GatewayTokensAssumption DEF RotationsBefore, RevocationInv
<1> QED BY <1>1, <1>2, <1>3 DEF RevocationInv

LEMMA RevocationKeptByCommits ==
    ASSUME TokensInv, RevocationInv, NEW o \in AdminOps,
           CommitRotate(o) \/ CommitRevoke(o)
    PROVE  RevocationInv'
<1> DEFINE t == ops[o].token
<1>1. /\ \A p \in AdminOps : /\ ops'[p].kind = ops[p].kind /\ ops'[p].token = ops[p].token
                             /\ ops'[p].after = ops[p].after /\ ops'[p].row = ops[p].row
                             /\ ops'[p].pc = IF p = o THEN "succeeded" ELSE ops[p].pc
      /\ ops[o].pc = "loaded" /\ t \in Tokens
  BY DEF CommitRotate, CommitRevoke, TokensInv, TokensTypeOK, OpsInv, OpStates
<1>2. AnsweredOps \subseteq AnsweredOps'
  BY <1>1 DEF AnsweredOps
<1>3. \A p \in AdminOps : RotationsBefore(p)' <=> RotationsBefore(p)
  BY <1>1 DEF RotationsBefore
<1>4. TokensInv'
  BY CommitRotateKeeps, CommitRevokeKeeps
<1>5. \A u \in Tokens : tokens[u].hash # 0 => tokens'[u].hash # 0
  <2>1. CASE CommitRotate(o)
    <3> DEFINE row == [hash   |-> ops[o].secret,
                       status |-> IF ops[o].row.status = "revoked" THEN "active"
                                  ELSE tokens[t].status]
    <3>1. tokens' = [tokens EXCEPT ![t] = row]
      BY <2>1, CommitRotateWrites
    <3>2. ops[o].secret # 0
      BY <2>1, <1>1 DEF CommitRotate, TokensInv, OpsInv
    <3> QED BY <3>1, <3>2 DEF TokensInv, TokensTypeOK
  <2>2. CASE CommitRevoke(o)
    <3> DEFINE row == [hash   |-> tokens[t].hash,
                       status |-> IF ops[o].row.status = "active" THEN "revoked"
                                  ELSE tokens[t].status]
    <3>1. tokens' = [tokens EXCEPT ![t] = row]
      BY <2>2, CommitRevokeWrites
    <3> QED BY <3>1 DEF TokensInv, TokensTypeOK
  <2> QED BY <2>1, <2>2
<1>6. ASSUME NEW p \in AdminOps, ops[p].kind = "revoke", RotationsBefore(p),
             ops'[p].pc = "loaded" => ops[p].row.status = "revoked",
             ops'[p].pc \in {"loaded", "succeeded"}
      PROVE  tokens'[ops[p].token].status = "revoked"
  <2>1. ops[p].token \in Tokens
    BY <1>6 DEF RevocationInv
  <2>2. CASE CommitRotate(o)
    <3>1. ops[p].token # t
      BY <1>1, <1>6, <2>2 DEF RotationsBefore, RevocationInv, AnsweredOps, CommitRotate
    <3>2. p # o
      BY <1>6, <2>2 DEF CommitRotate
    <3>3. tokens'[ops[p].token] = tokens[ops[p].token]
      BY <2>1, <2>2, <3>1, CommitRotateWrites DEF TokensInv, TokensTypeOK
    <3> QED BY <1>1, <1>6, <3>2, <3>3 DEF RevocationInv
  <2>3. CASE CommitRevoke(o)
    <3> DEFINE row == [hash   |-> tokens[t].hash,
                       status |-> IF ops[o].row.status = "active" THEN "revoked"
                                  ELSE tokens[t].status]
    <3>1. tokens' = [tokens EXCEPT ![t] = row]
      BY <2>3, CommitRevokeWrites
    <3>2. tokens[ops[p].token].status = "revoked"
             => tokens'[ops[p].token].status = "revoked"
      BY <2>1, <3>1, <1>1 DEF TokensInv, TokensTypeOK
    <3>3. CASE p = o /\ ops[o].row.status = "active"
      BY <3>1, <3>3, <2>1 DEF TokensInv, TokensTypeOK
    <3>4. CASE p # o \/ ops[o].row.status = "revoked"
      BY <1>1, <1>6, <3>2, <3>4 DEF RevocationInv
    <3>5. ops[o].row.status \in {"active", "revoked"}
      BY DEF TokensInv, TokensTypeOK, OpStates, TokenRows
    <3> QED BY <3>3, <3>4, <3>5
  <2> QED BY <2>2, <2>3
<1>7. ASSUME NEW p \in AdminOps, ops'[p].kind = "revoke"
      PROVE  /\ ops'[p].token \in Tokens /\ tokens'[ops'[p].token].hash # 0
             /\ /\ RotationsBefore(p)'
                /\ ops'[p].pc = "loaded" => ops'[p].row.status = "revoked"
                /\ ops'[p].pc \in {"loaded", "succeeded"}
                => tokens'[ops'[p].token].status = "revoked"
  BY <1>1, <1>3, <1>5, <1>6, <1>7 DEF RevocationInv
<1>8. \A p \in AdminOps : /\ ops'[p].after \subseteq AnsweredOps'
                          /\ ops'[p].pc = "idle" => ops'[p].kind = None
  BY <1>1, <1>2 DEF RevocationInv
<1> QED BY <1>7, <1>8 DEF RevocationInv

(***************************************************************************)
(* A revocation that was answered holds against every rotation that was    *)
(* answered before it began, and against every request that authenticates  *)
(* with the credential meanwhile.                                          *)
(***************************************************************************)
THEOREM AnsweredRevocationHolds == TokensSpec => []RevocationHolds
<1>1. TokensInit => RevocationInv
  BY GatewayTokensAssumption DEF TokensInit, RevocationInv, IdleOp
<1>2. TokensInv /\ RevocationInv /\ [TokensAloneNext]_TokensAloneVars => RevocationInv'
  <2> SUFFICES ASSUME TokensInv, RevocationInv, [TokensAloneNext]_TokensAloneVars
               PROVE  RevocationInv'
    OBVIOUS
  <2>1. ASSUME NEW o \in AdminOps, NEW t \in Tokens, CreateToken(o, t)
        PROVE  RevocationInv'
    BY <2>1, RevocationKeptByCreate
  <2>2. ASSUME NEW o \in AdminOps, NEW t \in Tokens, LoadRotate(o, t) \/ LoadRevoke(o, t)
        PROVE  RevocationInv'
    BY <2>2, RevocationKeptByLoads
  <2>3. ASSUME NEW o \in AdminOps, CommitRotate(o) \/ CommitRevoke(o)
        PROVE  RevocationInv'
    BY <2>3, RevocationKeptByCommits
  <2>4. CASE \E o \in AdminOps : FailOp(o)
    BY <2>4, OtherOpsKeep, RevocationKeptByOthers DEF Idle
  <2>5. CASE (\E t \in Tokens : ExpireToken(t)) \/ (\E u \in Uses : UseStep(u))
    <3>1. UNCHANGED <<tokens, ops>>
      BY <2>5, OtherOpsKeep, UseStepKeeps DEF Idle, ExpireToken
    <3> QED BY <3>1, RevocationKeptByOthers
  <2>6. CASE UNCHANGED tokenVars
    BY <2>6, RevocationKeptByOthers DEF tokenVars
  <2> QED BY <2>1, <2>2, <2>3, <2>4, <2>5, <2>6, TokenStepCases DEF TokenStep
<1>3. RevocationInv => RevocationHolds
  BY DEF RevocationInv, RevocationHolds, RotationsBefore
<1> QED BY <1>1, <1>2, <1>3, TokensInvariant, PTL DEF TokensSpec, TokensAloneInit
=============================================================================
