------------------------ MODULE ManagedConnectionsProofs ------------------------
(***************************************************************************)
(* Theorems about ManagedConnections, for every set of handlers, ids and   *)
(* grants: its types, the life of ciphertext, what cleanup may discard,    *)
(* the single use of a callback state, that a blocked connection stays     *)
(* blocked, which tokens of a grant are presented, sent and confirmed as   *)
(* revoked, and that no grant is lost: the module implements GrantCustody. *)
(*                                                                         *)
(* TypeOK alone is not inductive: a step that stores or refreshes a        *)
(* credential is well typed only because the handler's phase says that it  *)
(* holds one, so TypeInv adds what each phase has in hand.                 *)
(***************************************************************************)
EXTENDS ManagedConnections, TLAPS

AttemptPhases ==
  {"submit", "claim", "exchange", "exchangeFailed", "rejected", "received", "retained",
   "commit", "unstored", "unstoredMark", "cleanupRequired", "cancelDecrypt",
   "cancelMark", "cancelRevoke", "cancelUnconfirmed", "cancelFinish"}
ConnPhases ==
  {"accessDecrypt", "accessClaim", "refresh", "refreshCommit", "refreshFailed",
   "grantCheck", "useCheck", "assertCurrent", "dispatch", "disconnectAttempts",
   "disconnectBlock", "disconnectDecrypt", "disconnectClaim", "disconnectRevoke"}
DisconnectPhases ==
  {"disconnectAttempts", "disconnectBlock", "disconnectDecrypt", "disconnectClaim"}
GrantPhases == {"rejected", "received", "retained", "commit", "refresh", "refreshCommit"}

\* What a handler has in hand in each phase.
GoodLocal ==
  {l \in Local :
     /\ l.pc \in AttemptPhases => l.att \in Attempts
     /\ l.pc \in ConnPhases => l.conn \in Conns
     /\ l.pc \in GrantPhases => l.cred.grant \in Grants
     /\ l.pc = "accessClaim" /\ l.row.status = "READY" => l.cred.grant \in Grants
     /\ l.pc \in {"cancelDecrypt", "cancelMark"} => HoldsRetained(l.arow)
     /\ l.pc \in DisconnectPhases => ConnExists(l.row)}

GoodSecret == {s \in Secret : s.kind = "credentials" => s.cred.grant \in Grants}

TypeInv ==
  /\ connector \in ConnectorRow
  /\ entitled \in BOOLEAN
  /\ conns \in [Conns -> ConnRow]
  /\ attempts \in [Attempts -> AttemptRow]
  /\ vault \in [Slots -> GoodSecret]
  /\ age \in [Slots -> Ages]
  /\ grants \in [Grants -> Grant]
  /\ audit \subseteq AuditOp \X Slots
  /\ h \in [Handlers -> GoodLocal]
  /\ fuel \in Nat
  /\ aborts \in Nat

\* The memory of a handler that runs nothing is well formed.
LEMMA IdleIsGood == Idle \in GoodLocal
<1>1. UnusedAttempt \in AttemptRow
  BY DEF UnusedAttempt, AttemptRow, AttemptStatus
<1>2. UnusedConn \in ConnRow
  BY DEF UnusedConn, ConnRow, ConnStatus
<1>3. NoCred \in Cred /\ NoConnector \in ConnectorRow
  BY DEF NoCred, Cred, NoConnector, ConnectorRow
<1>4. Idle \in Local
  BY <1>1, <1>2, <1>3 DEF Idle, Local, Phase
<1> QED
  BY <1>4 DEF Idle, GoodLocal, AttemptPhases, ConnPhases, GrantPhases, DisconnectPhases

\* A handler that answers its request is left well formed.
LEMMA FinishIsGood ==
  ASSUME TypeInv, NEW p \in Handlers, Finish(p)
  PROVE  h' \in [Handlers -> GoodLocal]
  BY IdleIsGood DEF TypeInv, Finish

\* Giving one handler a well-formed memory leaves every handler well formed.
LEMMA LocalIsGood ==
  ASSUME TypeInv, NEW p \in Handlers, NEW l \in GoodLocal, h' = [h EXCEPT ![p] = l]
  PROVE  h' \in [Handlers -> GoodLocal]
  BY DEF TypeInv

\* A handler moves on to a phase whose row, tokens and result it already holds.
LEMMA GotoIsGood ==
  ASSUME TypeInv, NEW p \in Handlers, NEW pc \in Phase, Goto(p, pc),
         pc \in AttemptPhases => h[p].att \in Attempts,
         pc \in ConnPhases => h[p].conn \in Conns,
         pc \in GrantPhases => h[p].cred.grant \in Grants,
         pc \notin {"accessClaim", "cancelDecrypt", "cancelMark"} \cup DisconnectPhases
  PROVE  h' \in [Handlers -> GoodLocal]
<1> DEFINE l == [h[p] EXCEPT !.pc = pc]
<1>1. h' = [h EXCEPT ![p] = l]
  BY DEF Goto, TypeInv
<1>2. h[p] \in GoodLocal
  BY DEF TypeInv
<1>3. l \in GoodLocal
  BY <1>2 DEF GoodLocal, Local
<1> QED
  BY <1>1, <1>3, LocalIsGood

\* Beginning an operation uses up one unit of the bound.
LEMMA FuelSpent ==
  ASSUME TypeInv, NEW p, NEW op, Begin(p, op)
  PROVE  fuel' \in Nat
  BY DEF TypeInv, Begin

\* An audit entry about an existing row is one of the operations the code writes.
LEMMA LogTyped ==
  ASSUME TypeInv, NEW s \in Slots, NEW op \in AuditOp, Log(op, s)
  PROVE  audit' \subseteq AuditOp \X Slots
<1>1. <<op, s>> \in AuditOp \X Slots
  OBVIOUS
<1> QED
  BY <1>1 DEF TypeInv, Log

\* The rows and values that stand for absent ones have the types of their tables.
LEMMA SentinelsTyped ==
  /\ UnusedAttempt \in AttemptRow
  /\ NoSecret \in GoodSecret
  /\ OAuthPayload \in GoodSecret
  /\ UnusedConn \in ConnRow
  /\ DeletedConn \in ConnRow
<1>1. NoCred \in Cred
  BY DEF NoCred, Cred
<1> QED
  BY <1>1 DEF UnusedAttempt, AttemptRow, AttemptStatus, NoSecret, OAuthPayload, GoodSecret,
     Secret, UnusedConn, DeletedConn, ConnRow, ConnStatus

\* clearAuthorizationPayload stores a status of the schema and removes the value.
LEMMA CloseTyped ==
  ASSUME TypeInv, NEW a \in Attempts, NEW status \in AttemptStatus, CloseAttempt(a, status)
  PROVE  attempts' \in [Attempts -> AttemptRow] /\ vault' \in [Slots -> GoodSecret]
<1>1. attempts' \in [Attempts -> AttemptRow]
  BY ZenonT(60) DEF TypeInv, CloseAttempt, AttemptRow
<1> QED
  BY <1>1, SentinelsTyped DEF TypeInv, CloseAttempt

\* What prepareCredentials seals is a value of the encrypted-value table.
LEMMA SealedTyped ==
  ASSUME NEW c \in Cred, c.grant \in Grants
  PROVE  Sealed(c) \in GoodSecret
  BY DEF Sealed, GoodSecret, Secret

\* A revocation, whatever the provider answers, leaves the provider's grants well formed.
LEMMA RevokeTyped ==
  ASSUME TypeInv, NEW c, NEW outcome, RevokeOutcome(c, outcome)
  PROVE  grants' \in [Grants -> Grant]
  BY DEF TypeInv, RevokeOutcome, Grant

\* The row a deletion leaves behind is a row.
LEMMA DeletedTyped ==
  ASSUME NEW r \in AttemptRow
  PROVE  DeletedAttempt(r) \in AttemptRow
  BY DEF DeletedAttempt, UnusedAttempt, AttemptRow, AttemptStatus

\* Marking a connection for reconnect is a well-formed update of its row.
LEMMA RequireReconnectTyped ==
  ASSUME TypeInv, NEW c \in Conns,
         conns' = [conns EXCEPT ![c].status = "RECONNECT_REQUIRED", ![c].version = @ + 1]
  PROVE  conns' \in [Conns -> ConnRow]
<1> DEFINE r == [conns[c] EXCEPT !.status = "RECONNECT_REQUIRED", !.version = @ + 1]
<1>1. conns' = [conns EXCEPT ![c] = r]
  BY DEF TypeInv
<1>2. conns[c] \in ConnRow /\ conns[c].version + 1 \in Nat
  BY DEF TypeInv, ConnRow
<1>3. r \in ConnRow
  BY <1>2 DEF ConnRow, ConnStatus
<1> HIDE DEF r
<1> QED
  BY <1>1, <1>3 DEF TypeInv

\* Every step of setup, callback and cancel keeps the types.
LEMMA AuthorizationTyped ==
  ASSUME TypeInv, NEW p \in Handlers, AuthorizationBegin(p) \/ AuthorizationStep(p)
  PROVE  TypeInv'
<1>hp. h[p] \in GoodLocal /\ h[p] \in Local
  BY DEF TypeInv, GoodLocal
<1>slot. \A a \in Attempts : a \in Slots
  BY DEF Slots
<1>StartRead. CASE StartRead(p)
  <2> DEFINE found == {a \in Attempts : attempts[a].status \in AbandonableStatus /\ Expired(a)}
             rows == [a \in Attempts |-> IF a \in found THEN attempts[a] ELSE UnusedAttempt]
             l == [h[p] EXCEPT !.pc = "startClean", !.todo = found, !.rows = rows]
  <2>1. rows \in [Attempts -> AttemptRow] /\ found \in SUBSET Attempts
    BY SentinelsTyped DEF TypeInv
  <2>2. h' = [h EXCEPT ![p] = l]
    BY <1>StartRead DEF StartRead, TypeInv
  <2> HIDE DEF found, rows
  <2>3. l \in GoodLocal
    <3>1. l \in Local /\ l.pc = "startClean"
      BY <1>hp, <2>1 DEF Local, Phase
    <3> HIDE DEF l
    <3> QED
      BY <3>1 DEF GoodLocal, AttemptPhases, ConnPhases, GrantPhases, DisconnectPhases
  <2> HIDE DEF l
  <2>4. h' \in [Handlers -> GoodLocal]
    BY <2>2, <2>3, LocalIsGood
  <2>5. fuel' \in Nat
    BY <1>StartRead, FuelSpent DEF StartRead
  <2> QED
    BY <1>StartRead, <2>4, <2>5 DEF StartRead, TypeInv
<1>StartClean. CASE StartClean(p)
  <2>1. PICK a \in h[p].todo : StartClean(p)!(a)
    BY <1>StartClean DEF StartClean
  <2>2. a \in Attempts
    BY <1>hp DEF Local
  <2>3. attempts' \in [Attempts -> AttemptRow] /\ vault' \in [Slots -> GoodSecret]
    <3>1. attempts' \in [Attempts -> AttemptRow]
      BY <2>1, <2>2, DeletedTyped DEF TypeInv
    <3> QED
      BY <3>1, <2>1, <2>2, SentinelsTyped DEF TypeInv
  <2>4. h' \in [Handlers -> GoodLocal]
    <3> DEFINE l == [h[p] EXCEPT !.todo = @ \ {a}, !.rows = [@ EXCEPT ![a] = UnusedAttempt]]
    <3>1. l \in GoodLocal
      BY ZenonT(60), <1>hp, <2>2, SentinelsTyped DEF GoodLocal, Local
    <3>2. CASE Finish(p)
      BY <3>2, FinishIsGood
    <3>3. CASE h' = [h EXCEPT ![p].todo = @ \ {a}, ![p].rows = [@ EXCEPT ![a] = UnusedAttempt]]
      <4>1. h' = [h EXCEPT ![p] = l]
        BY <3>3 DEF TypeInv
      <4> HIDE DEF l
      <4> QED
        BY <3>1, <4>1, LocalIsGood
    <3> QED
      BY <2>1, <3>2, <3>3
  <2> QED
    BY <2>1, <2>3, <2>4 DEF TypeInv
<1>StartReady. CASE StartReady(p)
  <2> DEFINE l == [Idle EXCEPT !.pc = "startCommit"]
  <2>1. l \in GoodLocal
    BY IdleIsGood DEF GoodLocal, Local, Phase, AttemptPhases, ConnPhases, GrantPhases,
       DisconnectPhases
  <2>2. h' = [h EXCEPT ![p] = l]
    BY <1>StartReady DEF StartReady
  <2> HIDE DEF l
  <2>3. h' \in [Handlers -> GoodLocal]
    BY <2>1, <2>2, LocalIsGood
  <2> QED
    BY <1>StartReady, <2>3 DEF StartReady, TypeInv
<1>StartCommit. CASE StartCommit(p)
  <2>1. PICK a \in Attempts, c \in Conns \cup {None}, n \in Names :
          /\ c # None => n = conns[c].name
          /\ attempts' = [attempts EXCEPT ![a] =
               [UnusedAttempt EXCEPT !.status = "SETUP", !.conn = c, !.name = n,
                  !.connVersion = IF c = None THEN 0 ELSE conns[c].version,
                  !.connectorVersion = connector.version]]
          /\ age' = [age EXCEPT ![a] = "live"]
    BY <1>StartCommit DEF StartCommit
  <2>2. (IF c = None THEN 0 ELSE conns[c].version) \in Nat /\ connector.version \in Nat
    BY DEF TypeInv, ConnRow, ConnectorRow
  <2>3. attempts' \in [Attempts -> AttemptRow]
    BY <2>1, <2>2 DEF TypeInv, AttemptRow, AttemptStatus, UnusedAttempt
  <2>4. age' \in [Slots -> Ages]
    BY <2>1 DEF TypeInv, Ages
  <2>5. h' \in [Handlers -> GoodLocal]
    BY <1>StartCommit, FinishIsGood DEF StartCommit
  <2> QED
    BY <1>StartCommit, <2>3, <2>4, <2>5 DEF StartCommit, TypeInv
<1>StartRefused. CASE StartRefused(p)
  BY <1>StartRefused, FinishIsGood DEF StartRefused, TypeInv
<1>SubmitRead. CASE SubmitRead(p)
  <2>1. PICK a \in Attempts :
          h' = [h EXCEPT ![p].pc = "submit", ![p].att = a, ![p].arow = attempts[a],
                         ![p].connector = connector]
    BY <1>SubmitRead DEF SubmitRead
  <2> DEFINE l == [h[p] EXCEPT !.pc = "submit", !.att = a, !.arow = attempts[a],
                               !.connector = connector]
  <2>2. h' = [h EXCEPT ![p] = l]
    BY <2>1 DEF TypeInv
  <2>3. attempts[a] \in AttemptRow /\ connector \in ConnectorRow
    BY DEF TypeInv
  <2>4. l \in GoodLocal
    BY ZenonT(60), <1>hp, <2>3 DEF GoodLocal, Local, Phase, AttemptPhases, ConnPhases, GrantPhases,
       DisconnectPhases
  <2> HIDE DEF l
  <2>5. h' \in [Handlers -> GoodLocal]
    BY <2>2, <2>4, LocalIsGood
  <2>6. fuel' \in Nat
    BY <1>SubmitRead, FuelSpent DEF SubmitRead
  <2> QED
    BY <1>SubmitRead, <2>5, <2>6 DEF SubmitRead, TypeInv
<1>SubmitCommit. CASE SubmitCommit(p)
  <2>1. h' \in [Handlers -> GoodLocal]
    BY <1>SubmitCommit, FinishIsGood DEF SubmitCommit
  <2>2. attempts' \in [Attempts -> AttemptRow]
    <3> DEFINE r == [attempts[h[p].att] EXCEPT !.status = "AUTHORIZING", !.state = TRUE,
                                               !.payload = TRUE]
    <3>1. attempts' = attempts \/ attempts' = [attempts EXCEPT ![h[p].att] = r]
      BY <1>SubmitCommit DEF TypeInv, SubmitCommit
    <3>2. h[p].att \in Attempts => r \in AttemptRow
      BY ZenonT(60) DEF TypeInv, AttemptRow, AttemptStatus
    <3> HIDE DEF r
    <3> QED
      BY <3>1, <3>2 DEF TypeInv
  <2>3. vault' \in [Slots -> GoodSecret]
    BY <1>SubmitCommit, SentinelsTyped DEF TypeInv, SubmitCommit
  <2> QED
    BY <1>SubmitCommit, <2>1, <2>2, <2>3 DEF TypeInv, SubmitCommit
<1>CallbackRead. CASE CallbackRead(p)
  <2>1. PICK a \in Attempts :
          h' = [h EXCEPT ![p].pc = "claim", ![p].att = a, ![p].arow = attempts[a]]
    BY <1>CallbackRead DEF CallbackRead
  <2> DEFINE l == [h[p] EXCEPT !.pc = "claim", !.att = a, !.arow = attempts[a]]
  <2>2. h' = [h EXCEPT ![p] = l]
    BY <2>1 DEF TypeInv
  <2>3. attempts[a] \in AttemptRow
    BY DEF TypeInv
  <2>4. l \in GoodLocal
    BY ZenonT(60), <1>hp, <2>3 DEF GoodLocal, Local, Phase, AttemptPhases, ConnPhases, GrantPhases,
       DisconnectPhases
  <2> HIDE DEF l
  <2>5. h' \in [Handlers -> GoodLocal]
    BY <2>2, <2>4, LocalIsGood
  <2>6. fuel' \in Nat
    BY <1>CallbackRead, FuelSpent DEF CallbackRead
  <2> QED
    BY <1>CallbackRead, <2>5, <2>6 DEF CallbackRead, TypeInv
<1>CallbackClaim. CASE CallbackClaim(p)
  <2>1. h[p].att \in Attempts
    BY <1>CallbackClaim, <1>hp DEF CallbackClaim, GoodLocal, AttemptPhases
  <2>2. CASE /\ attempts' = [attempts EXCEPT ![h[p].att].status = "PROCESSING",
                                             ![h[p].att].state = FALSE]
             /\ Goto(p, "exchange")
             /\ UNCHANGED vault
    <3>1. h' \in [Handlers -> GoodLocal]
      BY <2>1, <2>2, GotoIsGood DEF Phase, ConnPhases, GrantPhases, DisconnectPhases
    <3>2. attempts' \in [Attempts -> AttemptRow]
      BY <2>1, <2>2 DEF TypeInv, AttemptRow, AttemptStatus
    <3> QED
      BY <1>CallbackClaim, <2>2, <3>1, <3>2 DEF CallbackClaim, TypeInv
  <2>3. CASE CloseAttempt(h[p].att, "CANCELLED") /\ Finish(p)
    <3>1. h' \in [Handlers -> GoodLocal]
      BY <2>3, FinishIsGood
    <3>2. attempts' \in [Attempts -> AttemptRow] /\ vault' \in [Slots -> GoodSecret]
      BY <2>1, <2>3, CloseTyped DEF AttemptStatus
    <3> QED
      BY <1>CallbackClaim, <3>1, <3>2 DEF CallbackClaim, TypeInv
  <2>4. CASE Finish(p) /\ UNCHANGED <<attempts, vault>>
    BY <1>CallbackClaim, <2>4, FinishIsGood DEF CallbackClaim, TypeInv
  <2> QED
    BY <1>CallbackClaim, <2>2, <2>3, <2>4 DEF CallbackClaim
<1>Exchange. CASE Exchange(p)
  <2>1. h[p].att \in Attempts
    BY <1>Exchange, <1>hp DEF Exchange, GoodLocal, AttemptPhases
  <2>2. CASE Goto(p, "exchangeFailed") /\ UNCHANGED grants
    <3>1. h' \in [Handlers -> GoodLocal]
      BY <2>1, <2>2, GotoIsGood DEF Phase, ConnPhases, GrantPhases, DisconnectPhases
    <3> QED
      BY <1>Exchange, <2>2, <3>1 DEF Exchange, TypeInv
  <2>3. ASSUME NEW g \in Grants, NEW answer \in {"received", "rejected"},
               grants' = [grants EXCEPT ![g].status = "active", ![g].attempt = h[p].att,
                                        ![g].gen = 1],
               h' = [h EXCEPT ![p].pc = answer, ![p].cred = [grant |-> g, gen |-> 1]]
        PROVE  TypeInv'
    <3> DEFINE l == [h[p] EXCEPT !.pc = answer, !.cred = [grant |-> g, gen |-> 1]]
    <3>1. h' = [h EXCEPT ![p] = l]
      BY <2>3 DEF TypeInv
    <3>2. [grant |-> g, gen |-> 1] \in Cred
      BY DEF Cred
    <3>3. l \in GoodLocal
      BY ZenonT(60), <1>hp, <2>1, <3>2 DEF GoodLocal, Local, Phase, AttemptPhases, ConnPhases, GrantPhases,
         DisconnectPhases
    <3> HIDE DEF l
    <3>4. h' \in [Handlers -> GoodLocal]
      BY <3>1, <3>3, LocalIsGood
    <3>5. 1 \in Nat
      OBVIOUS
    <3>6. grants' \in [Grants -> Grant]
      <4> DEFINE r == [grants[g] EXCEPT !.status = "active", !.attempt = h[p].att, !.gen = 1]
      <4>1. grants' = [grants EXCEPT ![g] = r]
        BY <2>3 DEF TypeInv
      <4>2. r \in Grant
        BY <2>1, <3>5 DEF TypeInv, Grant
      <4> HIDE DEF r
      <4> QED
        BY <4>1, <4>2 DEF TypeInv
    <3> QED
      BY <1>Exchange, <3>4, <3>6 DEF Exchange, TypeInv
  <2> QED
    BY <1>Exchange, <2>2, <2>3 DEF Exchange
<1>ExchangeFailed. CASE ExchangeFailed(p)
  <2>1. h[p].att \in Attempts
    BY <1>ExchangeFailed, <1>hp DEF ExchangeFailed, GoodLocal, AttemptPhases
  <2>2. h' \in [Handlers -> GoodLocal]
    BY <1>ExchangeFailed, FinishIsGood DEF ExchangeFailed
  <2>3. CASE CloseAttempt(h[p].att, "FAILED") /\ Log("authorization.failed", h[p].att)
    <3>1. attempts' \in [Attempts -> AttemptRow] /\ vault' \in [Slots -> GoodSecret]
      BY <2>1, <2>3, CloseTyped DEF AttemptStatus
    <3>2. audit' \subseteq AuditOp \X Slots
      <4>1. h[p].att \in Slots /\ "authorization.failed" \in AuditOp
        BY <2>1, <1>slot DEF AuditOp
      <4> QED
        BY <2>3, <4>1, LogTyped
    <3> QED
      BY <1>ExchangeFailed, <2>2, <3>1, <3>2 DEF ExchangeFailed, TypeInv
  <2>4. CASE UNCHANGED <<attempts, vault, audit>>
    BY <1>ExchangeFailed, <2>2, <2>4 DEF ExchangeFailed, TypeInv
  <2> QED
    BY <1>ExchangeFailed, <2>3, <2>4 DEF ExchangeFailed
<1>SealFails. CASE SealFails(p)
  <2>1. h[p].att \in Attempts
    BY <1>SealFails, <1>hp DEF SealFails, GoodLocal, AttemptPhases
  <2>2. h' \in [Handlers -> GoodLocal]
    BY <1>SealFails, <2>1, GotoIsGood DEF SealFails, Phase, ConnPhases, GrantPhases,
       DisconnectPhases
  <2> QED
    BY <1>SealFails, <2>2 DEF SealFails, TypeInv
<1>Retain. CASE Retain(p)
  <2>1. h[p].att \in Attempts /\ h[p].att \in Slots
    BY <1>Retain, <1>hp, <1>slot DEF Retain, GoodLocal, AttemptPhases
  <2>2. h[p].cred \in Cred /\ h[p].cred.grant \in Grants
    BY <1>Retain, <1>hp DEF Retain, GoodLocal, Local, GrantPhases
  <2>3. CASE /\ attempts' = [attempts EXCEPT ![h[p].att].status = "NEEDS_REVOCATION"]
             /\ vault' = [vault EXCEPT ![h[p].att] = Sealed(h[p].cred)]
             /\ IF h[p].pc = "received"
                THEN Goto(p, "retained") /\ UNCHANGED audit
                ELSE Finish(p) /\ Log("authorization.failed", h[p].att)
    <3>1. attempts' \in [Attempts -> AttemptRow]
      BY <2>1, <2>3 DEF TypeInv, AttemptRow, AttemptStatus
    <3>2. vault' \in [Slots -> GoodSecret]
      BY <2>1, <2>2, <2>3, SealedTyped DEF TypeInv
    <3>3. CASE Goto(p, "retained") /\ UNCHANGED audit
      <4>1. h' \in [Handlers -> GoodLocal]
        BY <2>1, <2>2, <3>3, GotoIsGood DEF Phase, ConnPhases, DisconnectPhases
      <4> QED
        BY <1>Retain, <3>1, <3>2, <3>3, <4>1 DEF Retain, TypeInv
    <3>4. CASE Finish(p) /\ Log("authorization.failed", h[p].att)
      <4>1. h' \in [Handlers -> GoodLocal]
        BY <3>4, FinishIsGood
      <4>2. audit' \subseteq AuditOp \X Slots
        BY <2>1, <3>4, LogTyped DEF AuditOp
      <4> QED
        BY <1>Retain, <3>1, <3>2, <4>1, <4>2 DEF Retain, TypeInv
    <3> QED
      BY <2>3, <3>3, <3>4
  <2>4. CASE Goto(p, "unstored") /\ UNCHANGED <<attempts, vault, audit>>
    <3>1. h' \in [Handlers -> GoodLocal]
      BY <2>1, <2>4, GotoIsGood DEF Phase, ConnPhases, GrantPhases, DisconnectPhases
    <3> QED
      BY <1>Retain, <2>4, <3>1 DEF Retain, TypeInv
  <2> QED
    BY <1>Retain, <2>3, <2>4 DEF Retain
<1>RevokeUnstored. CASE RevokeUnstored(p)
  <2>1. PICK outcome \in {"revoked", "unsupported", "failed"} :
          /\ RevokeOutcome(h[p].cred, outcome)
          /\ h' = [h EXCEPT ![p].pc = "unstoredMark", ![p].ok = (outcome = "revoked")]
    BY <1>RevokeUnstored DEF RevokeUnstored
  <2> DEFINE ok == outcome = "revoked"
             l == [h[p] EXCEPT !.pc = "unstoredMark", !.ok = ok]
  <2>2. h' = [h EXCEPT ![p] = l]
    BY <2>1 DEF TypeInv
  <2>3. h[p].pc = "unstored"
    BY <1>RevokeUnstored DEF RevokeUnstored
  <2>4. ok \in BOOLEAN
    OBVIOUS
  <2> HIDE DEF ok
  <2>5. l \in GoodLocal
    BY ZenonT(60), <1>hp, <2>3, <2>4 DEF GoodLocal, Local, Phase, AttemptPhases, ConnPhases, GrantPhases,
       DisconnectPhases
  <2> HIDE DEF l
  <2>6. h' \in [Handlers -> GoodLocal]
    BY <2>2, <2>5, LocalIsGood
  <2>7. grants' \in [Grants -> Grant]
    BY <2>1, RevokeTyped
  <2> QED
    BY <1>RevokeUnstored, <2>6, <2>7 DEF RevokeUnstored, TypeInv
<1>MarkUnstored. CASE MarkUnstored(p)
  <2>1. h[p].att \in Attempts /\ h[p].att \in Slots
    BY <1>MarkUnstored, <1>hp, <1>slot DEF MarkUnstored, GoodLocal, AttemptPhases
  <2>2. h' \in [Handlers -> GoodLocal]
    BY <1>MarkUnstored, FinishIsGood DEF MarkUnstored
  <2>3. audit' \subseteq AuditOp \X Slots
    BY <1>MarkUnstored, <2>1, LogTyped DEF MarkUnstored, AuditOp
  <2>4. CASE CloseAttempt(h[p].att, "FAILED")
    <3>1. attempts' \in [Attempts -> AttemptRow] /\ vault' \in [Slots -> GoodSecret]
      BY <2>1, <2>4, CloseTyped DEF AttemptStatus
    <3> QED
      BY <1>MarkUnstored, <2>2, <2>3, <3>1 DEF MarkUnstored, TypeInv
  <2>5. CASE UNCHANGED <<attempts, vault>>
    BY <1>MarkUnstored, <2>2, <2>3, <2>5 DEF MarkUnstored, TypeInv
  <2> QED
    BY <1>MarkUnstored, <2>4, <2>5 DEF MarkUnstored
<1>ReadCompletion. CASE ReadCompletion(p)
  <2>1. h[p].att \in Attempts /\ h[p].pc = "retained" /\ h[p].cred.grant \in Grants
    BY <1>ReadCompletion, <1>hp DEF ReadCompletion, GoodLocal, AttemptPhases, GrantPhases
  <2>2. CASE h' = [h EXCEPT ![p].pc = "commit", ![p].arow = attempts[h[p].att],
                            ![p].connector = connector]
    <3> DEFINE l == [h[p] EXCEPT !.pc = "commit", !.arow = attempts[h[p].att],
                                 !.connector = connector]
    <3>1. h' = [h EXCEPT ![p] = l]
      BY <2>2 DEF TypeInv
    <3>2. attempts[h[p].att] \in AttemptRow /\ connector \in ConnectorRow
      BY <2>1 DEF TypeInv
    <3>3. l \in GoodLocal
      BY ZenonT(60), <1>hp, <2>1, <3>2 DEF GoodLocal, Local, Phase, AttemptPhases, ConnPhases, GrantPhases,
         DisconnectPhases
    <3> HIDE DEF l
    <3> QED
      BY <3>1, <3>3, LocalIsGood, <1>ReadCompletion DEF ReadCompletion, TypeInv
  <2>3. CASE Goto(p, "cleanupRequired")
    <3>1. h' \in [Handlers -> GoodLocal]
      BY <2>1, <2>3, GotoIsGood DEF Phase, ConnPhases, GrantPhases, DisconnectPhases
    <3> QED
      BY <3>1, <1>ReadCompletion DEF ReadCompletion, TypeInv
  <2>4. CASE Finish(p)
    BY <2>4, FinishIsGood, <1>ReadCompletion DEF ReadCompletion, TypeInv
  <2> QED
    BY <1>ReadCompletion, <2>2, <2>3, <2>4 DEF ReadCompletion
<1>CleanupRequired. CASE CleanupRequired(p)
  <2>1. h[p].att \in Slots
    BY <1>CleanupRequired, <1>hp, <1>slot DEF CleanupRequired, GoodLocal, AttemptPhases
  <2>2. audit' \subseteq AuditOp \X Slots
    BY <1>CleanupRequired, <2>1, LogTyped DEF CleanupRequired, AuditOp
  <2>3. h' \in [Handlers -> GoodLocal]
    BY <1>CleanupRequired, FinishIsGood DEF CleanupRequired
  <2> QED
    BY <1>CleanupRequired, <2>2, <2>3 DEF CleanupRequired, TypeInv
<1>CancelRead. CASE CancelRead(p)
  <2>1. PICK a \in Attempts :
          h' = [h EXCEPT ![p].att = a, ![p].arow = attempts[a], ![p].connector = connector,
                  ![p].pc = IF HoldsRetained(attempts[a]) THEN "cancelDecrypt"
                                                         ELSE "cancelFinish"]
    BY <1>CancelRead DEF CancelRead
  <2> DEFINE pc == IF HoldsRetained(attempts[a]) THEN "cancelDecrypt" ELSE "cancelFinish"
             l == [h[p] EXCEPT !.att = a, !.arow = attempts[a], !.connector = connector,
                               !.pc = pc]
  <2>2. h' = [h EXCEPT ![p] = l]
    BY <2>1 DEF TypeInv
  <2>3. attempts[a] \in AttemptRow /\ connector \in ConnectorRow
    BY DEF TypeInv
  <2>pc. pc \in {"cancelDecrypt", "cancelFinish"} /\ (pc = "cancelDecrypt" => HoldsRetained(attempts[a]))
    OBVIOUS
  <2> HIDE DEF pc
  <2>4. l \in GoodLocal
    <3>1. l \in Local
      BY <1>hp, <2>3, <2>pc DEF Local, Phase
    <3>2. l.pc = pc /\ l.att = a /\ l.arow = attempts[a]
      BY <1>hp DEF Local
    <3> HIDE DEF l
    <3> QED
      BY <2>pc, <3>1, <3>2 DEF GoodLocal, AttemptPhases, ConnPhases, GrantPhases, DisconnectPhases
  <2> HIDE DEF l
  <2>5. h' \in [Handlers -> GoodLocal]
    BY <2>2, <2>4, LocalIsGood
  <2>6. fuel' \in Nat
    BY <1>CancelRead, FuelSpent DEF CancelRead
  <2> QED
    BY <1>CancelRead, <2>5, <2>6 DEF CancelRead, TypeInv
<1>CompleteCommit. CASE CompleteCommit(p)
  <2> DEFINE a == h[p].att
  <2>1. a \in Attempts /\ h[p].pc = "commit"
    BY <1>CompleteCommit, <1>hp DEF CompleteCommit, GoodLocal, AttemptPhases
  <2>2. h[p].cred \in Cred /\ h[p].cred.grant \in Grants
    BY <2>1, <1>hp DEF GoodLocal, Local, GrantPhases
  <2>same. UNCHANGED <<connector, entitled, age, fuel, aborts>>
    BY <1>CompleteCommit DEF CompleteCommit
  <2>3. ASSUME NEW c \in Conns, NEW version \in Nat, NEW op \in AuditOp,
               PutCredentials(p, a, c, version), Log(op, c)
        PROVE  TypeInv'
    <3> HIDE DEF a
    <3>1. [status |-> "READY", version |-> version + 1, refreshBy |-> None,
           name |-> attempts[a].name] \in ConnRow
      <4>1. version + 1 \in Nat /\ attempts[a].name \in Names \cup {None}
        BY <2>1 DEF TypeInv, AttemptRow
      <4> QED
        BY <4>1 DEF ConnRow, ConnStatus
    <3>2. conns' \in [Conns -> ConnRow]
      BY <2>3, <3>1 DEF TypeInv, PutCredentials
    <3>3. attempts' \in [Attempts -> AttemptRow]
      <4> DEFINE r == [attempts[a] EXCEPT !.status = "COMPLETED", !.conn = c, !.payload = FALSE]
      <4>1. attempts' = [attempts EXCEPT ![a] = r]
        BY <2>3 DEF TypeInv, PutCredentials
      <4>2. r \in AttemptRow
        BY <2>1 DEF TypeInv, AttemptRow, AttemptStatus
      <4> HIDE DEF r
      <4> QED
        BY <4>1, <4>2 DEF TypeInv
    <3>4. vault' \in [Slots -> GoodSecret]
      BY <2>3, <2>2, SealedTyped, SentinelsTyped DEF TypeInv, PutCredentials
    <3>5. grants' \in [Grants -> Grant]
      <4>1. \A g \in Grants : /\ [grants[g] EXCEPT !.home = c] \in Grant
                              /\ [grants[g] EXCEPT !.replaced = @ \/ grants[g].home = c] \in Grant
        BY DEF TypeInv, Grant
      <4> QED
        BY <2>3, <4>1 DEF PutCredentials
    <3>6. audit' \subseteq AuditOp \X Slots
      BY <2>3, LogTyped DEF Slots
    <3>7. h' \in [Handlers -> GoodLocal]
      BY <2>3, FinishIsGood DEF PutCredentials
    <3> QED
      BY <2>same, <3>2, <3>3, <3>4, <3>5, <3>6, <3>7 DEF TypeInv
  <2>4. CASE /\ attempts[a].conn # None
             /\ PutCredentials(p, a, attempts[a].conn, conns[attempts[a].conn].version)
             /\ Log("connection.reconnected", attempts[a].conn)
    <3>1. attempts[a].conn \in Conns /\ conns[attempts[a].conn].version \in Nat
      BY <2>1, <2>4 DEF TypeInv, AttemptRow, ConnRow
    <3> QED
      BY <2>3, <2>4, <3>1 DEF AuditOp
  <2>5. ASSUME NEW c \in Conns, PutCredentials(p, a, c, 1), Log("connection.connected", c)
        PROVE  TypeInv'
    BY <2>3, <2>5 DEF AuditOp
  <2>6. CASE Goto(p, "cleanupRequired") /\ UNCHANGED <<conns, attempts, vault, grants, audit>>
    <3>1. h' \in [Handlers -> GoodLocal]
      BY <2>1, <2>6, GotoIsGood DEF Phase, ConnPhases, GrantPhases, DisconnectPhases
    <3> QED
      BY <2>same, <2>6, <3>1 DEF TypeInv
  <2>7. CASE Finish(p) /\ UNCHANGED <<conns, attempts, vault, grants, audit>>
    BY <2>same, <2>7, FinishIsGood DEF TypeInv
  <2> QED
    BY <1>CompleteCommit, <2>4, <2>5, <2>6, <2>7 DEF CompleteCommit
<1>CancelDecrypt. CASE CancelDecrypt(p)
  <2>1. h[p].pc = "cancelDecrypt" /\ h[p].att \in Attempts /\ h[p].att \in Slots
    BY <1>CancelDecrypt, <1>hp, <1>slot DEF CancelDecrypt, GoodLocal, AttemptPhases
  <2>2. CASE h' = [h EXCEPT ![p].pc = "cancelMark", ![p].cred = vault[h[p].att].cred]
    <3> DEFINE l == [h[p] EXCEPT !.pc = "cancelMark", !.cred = vault[h[p].att].cred]
    <3>1. h' = [h EXCEPT ![p] = l]
      BY <2>2 DEF TypeInv
    <3>2. vault[h[p].att].cred \in Cred
      BY <2>1 DEF TypeInv, GoodSecret, Secret
    <3>3. l \in GoodLocal
      BY ZenonT(60), <1>hp, <2>1, <3>2 DEF GoodLocal, Local, Phase, AttemptPhases, ConnPhases, GrantPhases,
         DisconnectPhases
    <3> HIDE DEF l
    <3>4. h' \in [Handlers -> GoodLocal]
      BY <3>1, <3>3, LocalIsGood
    <3> QED
      BY <3>4, <1>CancelDecrypt DEF CancelDecrypt, TypeInv
  <2>3. CASE Finish(p)
    BY <2>3, FinishIsGood, <1>CancelDecrypt DEF CancelDecrypt, TypeInv
  <2> QED
    BY <1>CancelDecrypt, <2>2, <2>3 DEF CancelDecrypt
<1>CancelMark. CASE CancelMark(p)
  <2>1. h[p].pc = "cancelMark" /\ h[p].att \in Attempts
    BY <1>CancelMark, <1>hp DEF CancelMark, GoodLocal, AttemptPhases
  <2> DEFINE pc == IF h[p].cred = NoCred THEN "cancelFinish" ELSE "cancelRevoke"
  <2>2. CASE /\ attempts' = [attempts EXCEPT ![h[p].att].status = "REVOCATION_PENDING",
                                             ![h[p].att].state = FALSE]
             /\ h' = [h EXCEPT ![p].pc = pc, ![p].arow.status = "REVOCATION_PENDING"]
    <3> DEFINE r == [h[p].arow EXCEPT !.status = "REVOCATION_PENDING"]
               l == [h[p] EXCEPT !.pc = pc, !.arow = r]
    <3>1. h' = [h EXCEPT ![p] = l]
      BY <2>2, <1>hp DEF TypeInv, Local
    <3>2. r \in AttemptRow
      BY <1>hp DEF Local, AttemptRow, AttemptStatus
    <3>3. pc \in {"cancelFinish", "cancelRevoke"}
      OBVIOUS
    <3> HIDE DEF pc, r
    <3>4. l \in GoodLocal
      BY ZenonT(60), <1>hp, <2>1, <3>2, <3>3 DEF GoodLocal, Local, Phase, AttemptPhases, ConnPhases, GrantPhases,
         DisconnectPhases
    <3> HIDE DEF l
    <3>5. h' \in [Handlers -> GoodLocal]
      BY <3>1, <3>4, LocalIsGood
    <3>6. attempts' \in [Attempts -> AttemptRow]
      BY <2>1, <2>2 DEF TypeInv, AttemptRow, AttemptStatus
    <3> QED
      BY <3>5, <3>6, <1>CancelMark DEF CancelMark, TypeInv
  <2>3. CASE Finish(p) /\ UNCHANGED attempts
    BY <2>3, FinishIsGood, <1>CancelMark DEF CancelMark, TypeInv
  <2> QED
    BY <1>CancelMark, <2>2, <2>3 DEF CancelMark
<1>CancelRevoke. CASE CancelRevoke(p)
  <2>1. PICK outcome \in {"revoked", "unsupported", "failed"} :
          /\ RevokeOutcome(h[p].cred, outcome)
          /\ h' = [h EXCEPT ![p].pc = IF outcome = "failed" THEN "cancelUnconfirmed"
                                                           ELSE "cancelFinish",
                            ![p].ok = (outcome = "unsupported")]
    BY <1>CancelRevoke DEF CancelRevoke
  <2> DEFINE ok == outcome = "unsupported"
             pc == IF outcome = "failed" THEN "cancelUnconfirmed" ELSE "cancelFinish"
             l == [h[p] EXCEPT !.pc = pc, !.ok = ok]
  <2>2. h' = [h EXCEPT ![p] = l]
    BY <2>1 DEF TypeInv
  <2>3. h[p].pc = "cancelRevoke"
    BY <1>CancelRevoke DEF CancelRevoke
  <2>4. ok \in BOOLEAN /\ pc \in {"cancelUnconfirmed", "cancelFinish"}
    OBVIOUS
  <2> HIDE DEF ok, pc
  <2>5. l \in GoodLocal
    BY ZenonT(60), <1>hp, <2>3, <2>4 DEF GoodLocal, Local, Phase, AttemptPhases, ConnPhases, GrantPhases,
       DisconnectPhases
  <2> HIDE DEF l
  <2>6. h' \in [Handlers -> GoodLocal]
    BY <2>2, <2>5, LocalIsGood
  <2>7. grants' \in [Grants -> Grant]
    BY <2>1, RevokeTyped
  <2> QED
    BY <1>CancelRevoke, <2>6, <2>7 DEF CancelRevoke, TypeInv
<1>CancelUnconfirmed. CASE CancelUnconfirmed(p)
  <2>1. h[p].att \in Slots
    BY <1>CancelUnconfirmed, <1>hp, <1>slot DEF CancelUnconfirmed, GoodLocal, AttemptPhases
  <2>2. audit' \subseteq AuditOp \X Slots
    BY <1>CancelUnconfirmed, <2>1, LogTyped DEF CancelUnconfirmed, AuditOp
  <2>3. h' \in [Handlers -> GoodLocal]
    BY <1>CancelUnconfirmed, FinishIsGood DEF CancelUnconfirmed
  <2> QED
    BY <1>CancelUnconfirmed, <2>2, <2>3 DEF CancelUnconfirmed, TypeInv
<1>CancelFinish. CASE CancelFinish(p)
  <2>1. h[p].att \in Attempts /\ h[p].att \in Slots
    BY <1>CancelFinish, <1>hp, <1>slot DEF CancelFinish, GoodLocal, AttemptPhases
  <2>2. h' \in [Handlers -> GoodLocal]
    BY <1>CancelFinish, FinishIsGood DEF CancelFinish
  <2> DEFINE op == IF h[p].ok THEN "authorization.cancelled_revocation_unsupported"
                   ELSE "authorization.cancelled"
  <2>3. CASE CloseAttempt(h[p].att, "CANCELLED") /\ Log(op, h[p].att)
    <3>1. attempts' \in [Attempts -> AttemptRow] /\ vault' \in [Slots -> GoodSecret]
      BY <2>1, <2>3, CloseTyped DEF AttemptStatus
    <3>2. op \in AuditOp
      BY DEF AuditOp
    <3> HIDE DEF op
    <3>3. audit' \subseteq AuditOp \X Slots
      BY <2>1, <2>3, <3>2, LogTyped
    <3> QED
      BY <1>CancelFinish, <2>2, <3>1, <3>3 DEF CancelFinish, TypeInv
  <2>4. CASE UNCHANGED <<attempts, vault, audit>>
    BY <1>CancelFinish, <2>2, <2>4 DEF CancelFinish, TypeInv
  <2> QED
    BY <1>CancelFinish, <2>3, <2>4 DEF CancelFinish
<1> QED
  BY <1>StartRead, <1>StartClean, <1>StartReady, <1>StartCommit, <1>StartRefused,
     <1>SubmitRead, <1>SubmitCommit, <1>CallbackRead, <1>CallbackClaim, <1>Exchange,
     <1>ExchangeFailed, <1>SealFails, <1>Retain, <1>RevokeUnstored, <1>MarkUnstored,
     <1>ReadCompletion, <1>CompleteCommit, <1>CleanupRequired, <1>CancelRead,
     <1>CancelDecrypt, <1>CancelMark, <1>CancelRevoke, <1>CancelUnconfirmed,
     <1>CancelFinish DEF AuthorizationBegin, AuthorizationStep

--------------------------------------------------------------------------------
\* Every step of use and refresh keeps the types.
LEMMA UseTyped ==
  ASSUME TypeInv, NEW p \in Handlers, AccessRead(p) \/ UseStep(p)
  PROVE  TypeInv'
<1>hp. h[p] \in GoodLocal /\ h[p] \in Local
  BY DEF TypeInv, GoodLocal
<1>conn. h[p].pc \in ConnPhases => h[p].conn \in Conns /\ h[p].conn \in Slots
  BY <1>hp DEF GoodLocal, Slots
<1>next. \A n \in Nat : n + 1 \in Nat
  OBVIOUS
<1>AccessRead. CASE AccessRead(p)
  <2>1. PICK c \in Conns :
          h' = [h EXCEPT ![p].conn = c, ![p].row = conns[c], ![p].connector = connector,
                  ![p].pc = IF conns[c].status = "READY" THEN "accessDecrypt"
                                                         ELSE "accessClaim"]
    BY <1>AccessRead DEF AccessRead
  <2> DEFINE pc == IF conns[c].status = "READY" THEN "accessDecrypt" ELSE "accessClaim"
             l == [h[p] EXCEPT !.conn = c, !.row = conns[c], !.connector = connector, !.pc = pc]
  <2>2. h' = [h EXCEPT ![p] = l]
    BY <2>1 DEF TypeInv
  <2>3. conns[c] \in ConnRow /\ connector \in ConnectorRow
    BY DEF TypeInv
  <2>4. pc \in {"accessDecrypt", "accessClaim"} /\ (pc = "accessClaim" => conns[c].status # "READY")
    OBVIOUS
  <2> HIDE DEF pc
  <2>5. l \in GoodLocal
    <3>1. l \in Local
      BY <1>hp, <2>3, <2>4 DEF Local, Phase
    <3>2. l.pc = pc /\ l.conn = c /\ l.row = conns[c]
      BY <1>hp DEF Local
    <3> HIDE DEF l
    <3> QED
      BY <2>4, <3>1, <3>2 DEF GoodLocal, AttemptPhases, ConnPhases, GrantPhases, DisconnectPhases
  <2> HIDE DEF l
  <2>6. h' \in [Handlers -> GoodLocal]
    BY <2>2, <2>5, LocalIsGood
  <2>7. fuel' \in Nat
    BY <1>AccessRead, FuelSpent DEF AccessRead
  <2> QED
    BY <1>AccessRead, <2>6, <2>7 DEF AccessRead, TypeInv
<1>AccessDecrypt. CASE AccessDecrypt(p)
  <2>1. h[p].pc = "accessDecrypt" /\ h[p].conn \in Conns /\ h[p].conn \in Slots
    BY <1>AccessDecrypt, <1>conn DEF AccessDecrypt, ConnPhases
  <2>2. ASSUME NEW refresh \in BOOLEAN, vault[h[p].conn].kind = "credentials",
               h' = [h EXCEPT ![p].pc = "accessClaim", ![p].cred = vault[h[p].conn].cred,
                              ![p].ok = refresh]
        PROVE  TypeInv'
    <3> DEFINE cred == vault[h[p].conn].cred
               l == [h[p] EXCEPT !.pc = "accessClaim", !.cred = cred, !.ok = refresh]
    <3>1. h' = [h EXCEPT ![p] = l]
      BY <2>2 DEF TypeInv
    <3>2. cred \in Cred /\ cred.grant \in Grants
      BY <2>1, <2>2 DEF TypeInv, GoodSecret, Secret
    <3> HIDE DEF cred
    <3>3. l \in GoodLocal
      BY ZenonT(60), <1>hp, <2>1, <3>2 DEF GoodLocal, Local, Phase, AttemptPhases, ConnPhases, GrantPhases,
         DisconnectPhases
    <3> HIDE DEF l
    <3>4. h' \in [Handlers -> GoodLocal]
      BY <3>1, <3>3, LocalIsGood
    <3> QED
      BY <3>4, <1>AccessDecrypt DEF AccessDecrypt, TypeInv
  <2>3. CASE Finish(p)
    BY <2>3, FinishIsGood, <1>AccessDecrypt DEF AccessDecrypt, TypeInv
  <2> QED
    BY <1>AccessDecrypt, <2>2, <2>3 DEF AccessDecrypt
<1>AccessClaim. CASE AccessClaim(p)
  <2> DEFINE c == h[p].conn
             claimed == [conns[c] EXCEPT !.status = "REFRESHING", !.refreshBy = p,
                                         !.version = @ + 1]
  <2>1. h[p].pc = "accessClaim" /\ c \in Conns /\ c \in Slots
    BY <1>AccessClaim, <1>conn DEF AccessClaim, ConnPhases
  <2>same. UNCHANGED <<connector, entitled, attempts, vault, grants, audit, fuel, aborts>>
    BY <1>AccessClaim DEF AccessClaim
  <2>2. CASE Goto(p, "grantCheck") /\ UNCHANGED <<conns, age>>
    <3>1. h' \in [Handlers -> GoodLocal]
      BY <2>1, <2>2, GotoIsGood DEF Phase, AttemptPhases, GrantPhases, DisconnectPhases
    <3> QED
      BY <2>same, <2>2, <3>1 DEF TypeInv
  <2>3. CASE /\ Unchanged(p) /\ conns[c].status = "READY"
             /\ conns' = [conns EXCEPT ![c] = claimed]
             /\ age' = [age EXCEPT ![c] = "live"]
             /\ h' = [h EXCEPT ![p].pc = "refresh", ![p].row = claimed]
    <3>1. claimed \in ConnRow
      <4>1. conns[c] \in ConnRow /\ conns[c].version + 1 \in Nat
        BY <2>1 DEF TypeInv, ConnRow
      <4> QED
        BY <4>1 DEF ConnRow, ConnStatus
    <3> DEFINE l == [h[p] EXCEPT !.pc = "refresh", !.row = claimed]
    <3>2. h' = [h EXCEPT ![p] = l]
      BY <2>3 DEF TypeInv
    <3>3. h[p].cred.grant \in Grants
      BY <2>1, <2>3, <1>hp DEF GoodLocal, Unchanged
    <3> HIDE DEF claimed
    <3>4. l \in GoodLocal
      BY ZenonT(60), <1>hp, <2>1, <3>1, <3>3 DEF GoodLocal, Local, Phase, AttemptPhases, ConnPhases, GrantPhases,
         DisconnectPhases
    <3> HIDE DEF l
    <3>5. h' \in [Handlers -> GoodLocal]
      BY <3>2, <3>4, LocalIsGood
    <3>6. conns' \in [Conns -> ConnRow]
      BY <2>3, <3>1 DEF TypeInv
    <3>7. age' \in [Slots -> Ages]
      BY <2>3 DEF TypeInv, Ages
    <3> QED
      BY <2>same, <3>5, <3>6, <3>7 DEF TypeInv
  <2>4. CASE /\ conns' = [conns EXCEPT ![c].status = "RECONNECT_REQUIRED", ![c].version = @ + 1]
             /\ Finish(p)
             /\ UNCHANGED age
    <3>1. conns' \in [Conns -> ConnRow]
      BY <2>1, <2>4, RequireReconnectTyped
    <3> QED
      BY <2>same, <2>4, <3>1, FinishIsGood DEF TypeInv
  <2>5. CASE Finish(p) /\ UNCHANGED <<conns, age>>
    BY <2>same, <2>5, FinishIsGood DEF TypeInv
  <2> QED
    BY <1>AccessClaim, <2>2, <2>3, <2>4, <2>5 DEF AccessClaim
<1>Refresh. CASE Refresh(p)
  <2> DEFINE g == h[p].cred.grant
             next == grants[g].gen + 1
             rotated == [grants EXCEPT ![g].gen = next, ![g].spent = FALSE]
  <2>1. h[p].pc = "refresh" /\ h[p].conn \in Conns /\ g \in Grants
    BY <1>Refresh, <1>hp, <1>conn DEF Refresh, ConnPhases, GoodLocal, GrantPhases
  <2>2. next \in Nat
    BY <2>1, <1>next DEF TypeInv, Grant
  <2>same. UNCHANGED <<connector, entitled, conns, attempts, vault, age, audit, fuel, aborts>>
    BY <1>Refresh DEF Refresh
  <2>3. rotated \in [Grants -> Grant]
    <3> HIDE DEF next
    <3> DEFINE r == [grants[g] EXCEPT !.gen = next, !.spent = FALSE]
    <3>1. r \in Grant
      <4>1. grants[g] \in Grant
        BY <2>1 DEF TypeInv
      <4> QED
        BY <2>2, <4>1 DEF Grant
    <3>2. rotated = [grants EXCEPT ![g] = r]
      BY DEF TypeInv
    <3> HIDE DEF r, rotated
    <3> QED
      BY <3>1, <3>2 DEF TypeInv
  <2>failed. ASSUME NEW ok \in BOOLEAN, grants' \in [Grants -> Grant],
                    h' = [h EXCEPT ![p].pc = "refreshFailed", ![p].ok = ok]
             PROVE  TypeInv'
    <3> DEFINE l == [h[p] EXCEPT !.pc = "refreshFailed", !.ok = ok]
    <3>1. h' = [h EXCEPT ![p] = l]
      BY <2>failed DEF TypeInv
    <3>2. l \in GoodLocal
      BY ZenonT(60), <1>hp, <2>1 DEF GoodLocal, Local, Phase, AttemptPhases, ConnPhases, GrantPhases,
         DisconnectPhases
    <3> HIDE DEF l
    <3>3. h' \in [Handlers -> GoodLocal]
      BY <3>1, <3>2, LocalIsGood
    <3> QED
      BY <2>failed, <2>same, <3>3 DEF TypeInv
  <2>4. ASSUME NEW usable \in BOOLEAN, grants' = rotated,
               h' = [h EXCEPT ![p].pc = "refreshCommit", ![p].ok = usable, ![p].cred.gen = next]
        PROVE  TypeInv'
    <3> DEFINE cred == [h[p].cred EXCEPT !.gen = next]
               l == [h[p] EXCEPT !.pc = "refreshCommit", !.ok = usable, !.cred = cred]
    <3>1. h' = [h EXCEPT ![p] = l]
      BY <2>4, <1>hp DEF TypeInv, Local
    <3> HIDE DEF next
    <3>2. cred \in Cred /\ cred.grant \in Grants
      BY <1>hp, <2>1, <2>2 DEF Local, Cred
    <3> HIDE DEF cred
    <3>3. l \in GoodLocal
      BY ZenonT(60), <1>hp, <2>1, <3>2 DEF GoodLocal, Local, Phase, AttemptPhases, ConnPhases, GrantPhases,
         DisconnectPhases
    <3> HIDE DEF l
    <3>4. h' \in [Handlers -> GoodLocal]
      BY <3>1, <3>3, LocalIsGood
    <3> HIDE DEF rotated
    <3> QED
      BY <2>4, <2>3, <2>same, <3>4 DEF TypeInv
  <2>5. CASE grants' = rotated /\ h' = [h EXCEPT ![p].pc = "refreshFailed", ![p].ok = FALSE]
    <3> HIDE DEF rotated
    <3> QED
      BY <2>5, <2>3, <2>failed
  <2>6. CASE /\ grants' = [grants EXCEPT ![g].spent = TRUE]
             /\ h' = [h EXCEPT ![p].pc = "refreshFailed", ![p].ok = FALSE]
    <3>1. grants' \in [Grants -> Grant]
      BY ZenonT(60), <2>6 DEF TypeInv, Grant
    <3> QED
      BY <2>6, <3>1, <2>failed
  <2>7. ASSUME NEW retryable \in BOOLEAN, UNCHANGED grants,
               h' = [h EXCEPT ![p].pc = "refreshFailed", ![p].ok = retryable]
        PROVE  TypeInv'
    BY <2>7, <2>failed DEF TypeInv
  <2> QED
    BY <1>Refresh, <2>4, <2>5, <2>6, <2>7 DEF Refresh
<1>RefreshCommit. CASE RefreshCommit(p)
  <2> DEFINE c == h[p].conn
             r == conns[c]
             pending == r.status = "REVOCATION_PENDING" /\ r.refreshBy = p
             usable == /\ h[p].ok
                       /\ connector.enabled
                       /\ connector.version = h[p].connector.version
             next == [r EXCEPT !.refreshBy = None, !.version = @ + 1,
                        !.status = StatusAfterRefresh(pending, usable)]
  <2>1. h[p].pc = "refreshCommit" /\ c \in Conns /\ c \in Slots
    BY <1>RefreshCommit, <1>conn DEF RefreshCommit, ConnPhases
  <2>2. h[p].cred \in Cred /\ h[p].cred.grant \in Grants
    BY <2>1, <1>hp DEF GoodLocal, Local, GrantPhases
  <2>same. UNCHANGED <<connector, entitled, attempts, age, grants, fuel, aborts>>
    BY <1>RefreshCommit DEF RefreshCommit
  <2>3. next \in ConnRow
    <3>1. StatusAfterRefresh(pending, usable) \in ConnStatus
      BY DEF StatusAfterRefresh, ConnStatus
    <3>2. conns[c] \in ConnRow /\ conns[c].version + 1 \in Nat
      BY <2>1 DEF TypeInv, ConnRow
    <3> HIDE DEF pending, usable
    <3> QED
      BY <3>1, <3>2 DEF ConnRow
  <2>4. CASE /\ conns' = [conns EXCEPT ![c] = next]
             /\ vault' = [vault EXCEPT ![c] = Sealed(h[p].cred)]
             /\ Log("connection.refreshed", c)
             /\ IF next.status = "READY"
                THEN h' = [h EXCEPT ![p].pc = "grantCheck", ![p].row = next,
                                    ![p].connector = connector, ![p].ok = FALSE]
                ELSE Finish(p)
    <3> HIDE DEF next
    <3>1. conns' \in [Conns -> ConnRow]
      BY <2>3, <2>4 DEF TypeInv
    <3>2. vault' \in [Slots -> GoodSecret]
      BY <2>2, <2>4, SealedTyped DEF TypeInv
    <3>3. audit' \subseteq AuditOp \X Slots
      BY <2>1, <2>4, LogTyped DEF AuditOp
    <3>4. h' \in [Handlers -> GoodLocal]
      <4> DEFINE l == [h[p] EXCEPT !.pc = "grantCheck", !.row = next, !.connector = connector,
                                   !.ok = FALSE]
      <4>1. connector \in ConnectorRow
        BY DEF TypeInv
      <4>2. l \in GoodLocal
        BY ZenonT(60), <1>hp, <2>1, <2>3, <4>1 DEF GoodLocal, Local, Phase, AttemptPhases, ConnPhases,
           GrantPhases, DisconnectPhases
      <4>3. CASE h' = [h EXCEPT ![p].pc = "grantCheck", ![p].row = next,
                                ![p].connector = connector, ![p].ok = FALSE]
        <5>1. h' = [h EXCEPT ![p] = l]
          BY <4>3 DEF TypeInv
        <5> HIDE DEF l
        <5> QED
          BY <4>2, <5>1, LocalIsGood
      <4> QED
        BY <2>4, <4>3, FinishIsGood
    <3> QED
      BY <2>same, <3>1, <3>2, <3>3, <3>4 DEF TypeInv
  <2>5. CASE /\ h' = [h EXCEPT ![p].pc = "refreshFailed", ![p].ok = FALSE]
             /\ UNCHANGED <<conns, vault, audit>>
    <3> DEFINE l == [h[p] EXCEPT !.pc = "refreshFailed", !.ok = FALSE]
    <3>1. h' = [h EXCEPT ![p] = l]
      BY <2>5 DEF TypeInv
    <3>2. l \in GoodLocal
      BY ZenonT(60), <1>hp, <2>1 DEF GoodLocal, Local, Phase, AttemptPhases, ConnPhases, GrantPhases,
         DisconnectPhases
    <3> HIDE DEF l
    <3>3. h' \in [Handlers -> GoodLocal]
      BY <3>1, <3>2, LocalIsGood
    <3> QED
      BY <2>same, <2>5, <3>3 DEF TypeInv
  <2> QED
    BY <1>RefreshCommit, <2>4, <2>5 DEF RefreshCommit
<1>RefreshFailed. CASE RefreshFailed(p)
  <2> DEFINE c == h[p].conn
             next == [conns[c] EXCEPT !.status = StatusAfterFailure(h[p].ok),
                                      !.refreshBy = None, !.version = @ + 1]
  <2>1. h[p].pc = "refreshFailed" /\ c \in Conns /\ c \in Slots
    BY <1>RefreshFailed, <1>conn DEF RefreshFailed, ConnPhases
  <2>2. next \in ConnRow
    <3>1. conns[c] \in ConnRow /\ conns[c].version + 1 \in Nat
      BY <2>1 DEF TypeInv, ConnRow
    <3>2. StatusAfterFailure(h[p].ok) \in ConnStatus
      BY DEF StatusAfterFailure, ConnStatus
    <3> QED
      BY <3>1, <3>2 DEF ConnRow
  <2>3. conns' = [conns EXCEPT ![c] = next] \/ conns' = conns
    BY <1>RefreshFailed DEF RefreshFailed
  <2> HIDE DEF next
  <2>4. conns' \in [Conns -> ConnRow]
    BY <2>2, <2>3 DEF TypeInv
  <2>5. audit' \subseteq AuditOp \X Slots
    BY <1>RefreshFailed, <2>1, LogTyped DEF RefreshFailed, AuditOp
  <2>6. h' \in [Handlers -> GoodLocal]
    BY <1>RefreshFailed, FinishIsGood DEF RefreshFailed
  <2> QED
    BY <1>RefreshFailed, <2>4, <2>5, <2>6 DEF RefreshFailed, TypeInv
<1>GrantCheck. CASE GrantCheck(p)
  <2> DEFINE c == h[p].conn
  <2>1. h[p].pc = "grantCheck" /\ c \in Conns
    BY <1>GrantCheck, <1>conn DEF GrantCheck, ConnPhases
  <2>same. UNCHANGED <<connector, entitled, attempts, vault, age, grants, audit, fuel, aborts>>
    BY <1>GrantCheck DEF GrantCheck
  <2>2. CASE Goto(p, "useCheck") /\ UNCHANGED conns
    <3>1. h' \in [Handlers -> GoodLocal]
      BY <2>1, <2>2, GotoIsGood DEF Phase, AttemptPhases, GrantPhases, DisconnectPhases
    <3> QED
      BY <2>same, <2>2, <3>1 DEF TypeInv
  <2>3. CASE Finish(p) /\ UNCHANGED conns
    BY <2>same, <2>3, FinishIsGood DEF TypeInv
  <2>4. CASE /\ conns' = [conns EXCEPT ![c].status = "RECONNECT_REQUIRED", ![c].version = @ + 1]
             /\ Finish(p)
    BY <2>1, <2>same, <2>4, RequireReconnectTyped, FinishIsGood DEF TypeInv
  <2> QED
    BY <1>GrantCheck, <2>2, <2>3, <2>4 DEF GrantCheck
<1>UseCheck. CASE UseCheck(p)
  <2>1. h[p].pc \in {"useCheck", "assertCurrent"} /\ h[p].conn \in Conns
    BY <1>UseCheck, <1>conn DEF UseCheck, ConnPhases
  <2> DEFINE pc == IF h[p].pc = "useCheck" THEN "assertCurrent" ELSE "dispatch"
  <2>2. CASE Goto(p, pc)
    <3>1. pc \in {"assertCurrent", "dispatch"}
      OBVIOUS
    <3> HIDE DEF pc
    <3>2. h' \in [Handlers -> GoodLocal]
      BY <2>1, <2>2, <3>1, GotoIsGood DEF Phase, AttemptPhases, GrantPhases, DisconnectPhases
    <3> QED
      BY <1>UseCheck, <3>2 DEF UseCheck, TypeInv
  <2>3. CASE Finish(p)
    BY <1>UseCheck, <2>3, FinishIsGood DEF UseCheck, TypeInv
  <2> QED
    BY <1>UseCheck, <2>2, <2>3 DEF UseCheck
<1>Dispatch. CASE Dispatch(p)
  BY <1>Dispatch, FinishIsGood DEF Dispatch, TypeInv
<1> QED
  BY <1>AccessRead, <1>AccessDecrypt, <1>AccessClaim, <1>Refresh, <1>RefreshCommit,
     <1>RefreshFailed, <1>GrantCheck, <1>UseCheck, <1>Dispatch DEF UseStep

--------------------------------------------------------------------------------
\* The attempts of a connection, as a disconnect reads them, are attempts.
LEMMA RowsTyped ==
  ASSUME TypeInv, NEW c
  PROVE  Rows(c) \in [Attempts -> AttemptRow]
  BY SentinelsTyped DEF TypeInv, Rows

\* Blocking a connection for a disconnect is a well-formed update of its row.
LEMMA BlockedTyped ==
  ASSUME NEW r \in ConnRow
  PROVE  Blocked(r) \in ConnRow
<1>1. r.version + 1 \in Nat
  BY DEF ConnRow
<1> QED
  BY <1>1 DEF Blocked, ConnRow, ConnStatus

\* Every step of a disconnect keeps the types.
LEMMA DisconnectTyped ==
  ASSUME TypeInv, NEW p \in Handlers, DisconnectRead(p) \/ DisconnectStep(p)
  PROVE  TypeInv'
<1>hp. h[p] \in GoodLocal /\ h[p] \in Local
  BY DEF TypeInv, GoodLocal
<1>conn. h[p].pc \in ConnPhases => h[p].conn \in Conns /\ h[p].conn \in Slots
  BY <1>hp DEF GoodLocal, Slots
<1>DisconnectRead. CASE DisconnectRead(p)
  <2>1. PICK c \in Conns :
          /\ ConnExists(conns[c])
          /\ h' = [h EXCEPT ![p].pc = "disconnectAttempts", ![p].conn = c, ![p].row = conns[c],
                            ![p].connector = connector]
    BY <1>DisconnectRead DEF DisconnectRead
  <2> DEFINE l == [h[p] EXCEPT !.pc = "disconnectAttempts", !.conn = c, !.row = conns[c],
                               !.connector = connector]
  <2>2. h' = [h EXCEPT ![p] = l]
    BY <2>1 DEF TypeInv
  <2>3. conns[c] \in ConnRow /\ connector \in ConnectorRow
    BY DEF TypeInv
  <2>4. l \in GoodLocal
    BY ZenonT(60), <1>hp, <2>1, <2>3 DEF GoodLocal, Local, Phase, AttemptPhases, ConnPhases, GrantPhases,
       DisconnectPhases
  <2> HIDE DEF l
  <2>5. h' \in [Handlers -> GoodLocal]
    BY <2>2, <2>4, LocalIsGood
  <2>6. fuel' \in Nat
    BY <1>DisconnectRead, FuelSpent DEF DisconnectRead
  <2> QED
    BY <1>DisconnectRead, <2>5, <2>6 DEF DisconnectRead, TypeInv
<1>DisconnectAttempts. CASE DisconnectAttempts(p)
  <2>1. h[p].pc = "disconnectAttempts" /\ h[p].conn \in Conns
    BY <1>DisconnectAttempts, <1>conn DEF DisconnectAttempts, ConnPhases
  <2> DEFINE rows == Rows(h[p].conn)
             pc == IF InProgress(h[p].conn, h[p].row) THEN "disconnectBlock"
                                                     ELSE "disconnectDecrypt"
             l == [h[p] EXCEPT !.rows = rows, !.pc = pc]
  <2>2. h' = [h EXCEPT ![p] = l]
    BY <1>DisconnectAttempts DEF DisconnectAttempts, TypeInv
  <2>3. rows \in [Attempts -> AttemptRow]
    BY RowsTyped
  <2>4. pc \in {"disconnectBlock", "disconnectDecrypt"}
    OBVIOUS
  <2> HIDE DEF rows, pc
  <2>5. l \in GoodLocal
    BY ZenonT(60), <1>hp, <2>1, <2>3, <2>4 DEF GoodLocal, Local, Phase, AttemptPhases, ConnPhases, GrantPhases,
       DisconnectPhases
  <2> HIDE DEF l
  <2>6. h' \in [Handlers -> GoodLocal]
    BY <2>2, <2>5, LocalIsGood
  <2> QED
    BY <1>DisconnectAttempts, <2>6 DEF DisconnectAttempts, TypeInv
<1>DisconnectBlock. CASE DisconnectBlock(p)
  <2>1. h[p].conn \in Conns /\ h[p].conn \in Slots
    BY <1>DisconnectBlock, <1>conn DEF DisconnectBlock, ConnPhases
  <2>2. h' \in [Handlers -> GoodLocal]
    BY <1>DisconnectBlock, FinishIsGood DEF DisconnectBlock
  <2>3. CASE /\ conns' = [conns EXCEPT ![h[p].conn] = Blocked(@)]
             /\ Log("disconnect.blocked", h[p].conn)
    <3>1. conns' \in [Conns -> ConnRow]
      BY <2>1, <2>3, BlockedTyped DEF TypeInv
    <3>2. audit' \subseteq AuditOp \X Slots
      BY <2>1, <2>3, LogTyped DEF AuditOp
    <3> QED
      BY <1>DisconnectBlock, <2>2, <3>1, <3>2 DEF DisconnectBlock, TypeInv
  <2>4. CASE UNCHANGED <<conns, audit>>
    BY <1>DisconnectBlock, <2>2, <2>4 DEF DisconnectBlock, TypeInv
  <2> QED
    BY <1>DisconnectBlock, <2>3, <2>4 DEF DisconnectBlock
<1>DisconnectDecrypt. CASE DisconnectDecrypt(p)
  <2> DEFINE c == h[p].conn
             values == {c} \cup {a \in Attempts : h[p].rows[a].payload}
  <2>1. h[p].pc = "disconnectDecrypt" /\ c \in Conns
    BY <1>DisconnectDecrypt, <1>conn DEF DisconnectDecrypt, ConnPhases
  <2>2. values \subseteq Slots
    BY <2>1 DEF Slots
  <2>3. ASSUME NEW read \in SUBSET values, NEW ok \in BOOLEAN,
               h' = [h EXCEPT ![p].pc = "disconnectClaim",
                              ![p].creds = {vault[s].cred : s \in read}, ![p].ok = ok]
        PROVE  h' \in [Handlers -> GoodLocal]
    <3> DEFINE creds == {vault[s].cred : s \in read}
               l == [h[p] EXCEPT !.pc = "disconnectClaim", !.creds = creds, !.ok = ok]
    <3>1. h' = [h EXCEPT ![p] = l]
      BY <2>3 DEF TypeInv
    <3> HIDE DEF values
    <3>2. creds \subseteq Cred
      BY <2>2 DEF TypeInv, GoodSecret, Secret
    <3> HIDE DEF creds
    <3>3. l \in GoodLocal
      BY ZenonT(60), <1>hp, <2>1, <3>2 DEF GoodLocal, Local, Phase, AttemptPhases, ConnPhases, GrantPhases,
         DisconnectPhases
    <3> HIDE DEF l
    <3> QED
      BY <3>1, <3>3, LocalIsGood
  <2>4. ASSUME NEW unread \in SUBSET values,
               LET read == {s \in values \ unread : vault[s].kind = "credentials"}
               IN h' = [h EXCEPT ![p].pc = "disconnectClaim",
                         ![p].creds = {vault[s].cred : s \in read},
                         ![p].ok = /\ unread = {}
                                   /\ h[p].row.refreshBy = None
                                   /\ \A a \in Attempts :
                                        h[p].rows[a].status \in
                                          {"NEEDS_REVOCATION", "REVOCATION_PENDING"}
                                        => a \in read]
        PROVE  h' \in [Handlers -> GoodLocal]
    <3> DEFINE read == {s \in values \ unread : vault[s].kind = "credentials"}
               ok == /\ unread = {}
                     /\ h[p].row.refreshBy = None
                     /\ \A a \in Attempts :
                          h[p].rows[a].status \in {"NEEDS_REVOCATION", "REVOCATION_PENDING"}
                          => a \in read
    <3>1. h' = [h EXCEPT ![p].pc = "disconnectClaim",
                         ![p].creds = {vault[s].cred : s \in read}, ![p].ok = ok]
      BY <2>4
    <3>2. read \in SUBSET values /\ ok \in BOOLEAN
      OBVIOUS
    <3> HIDE DEF read, ok
    <3> QED
      BY <3>1, <3>2, <2>3
  <2>5. h' \in [Handlers -> GoodLocal]
    BY <1>DisconnectDecrypt, <2>4, FinishIsGood DEF DisconnectDecrypt
  <2> QED
    BY <1>DisconnectDecrypt, <2>5 DEF DisconnectDecrypt, TypeInv
<1>DisconnectClaim. CASE DisconnectClaim(p)
  <2> DEFINE c == h[p].conn
             stopped == [a \in Attempts |->
               IF a \in AttemptsOf(c)
               THEN [attempts[a] EXCEPT !.status = Stopped(@), !.state = FALSE]
               ELSE attempts[a]]
             rows == [a \in Attempts |-> IF a \in AttemptsOf(c) THEN stopped[a] ELSE UnusedAttempt]
             row == Blocked(h[p].row)
             l == [h[p] EXCEPT !.pc = "disconnectRevoke", !.row = row, !.rows = rows]
  <2>1. h[p].pc = "disconnectClaim" /\ c \in Conns /\ c \in Slots
    BY <1>DisconnectClaim, <1>conn DEF DisconnectClaim, ConnPhases
  <2>2. stopped \in [Attempts -> AttemptRow]
    <3>1. ASSUME NEW a \in Attempts
          PROVE  [attempts[a] EXCEPT !.status = Stopped(@), !.state = FALSE] \in AttemptRow
      <4>1. attempts[a] \in AttemptRow
        BY DEF TypeInv
      <4>2. Stopped(attempts[a].status) \in AttemptStatus
        BY <4>1 DEF Stopped, AttemptRow, AttemptStatus
      <4> QED
        BY <4>1, <4>2 DEF AttemptRow
    <3> QED
      BY <3>1 DEF TypeInv
  <2>same. UNCHANGED <<connector, entitled, vault, age, grants, fuel, aborts>>
    BY <1>DisconnectClaim DEF DisconnectClaim
  <2>3. CASE /\ conns' = [conns EXCEPT ![c] = Blocked(@)]
             /\ attempts' = stopped
             /\ Log("disconnect.blocked", c)
             /\ h' = [h EXCEPT ![p].pc = "disconnectRevoke", ![p].row = Blocked(@),
                               ![p].rows = rows]
    <3>1. h' = [h EXCEPT ![p] = l]
      BY <2>3, <1>hp DEF TypeInv, Local
    <3> HIDE DEF stopped
    <3>2. rows \in [Attempts -> AttemptRow]
      BY <2>2, SentinelsTyped
    <3>3. row \in ConnRow
      BY <1>hp, BlockedTyped DEF Local
    <3> HIDE DEF rows, row
    <3>4. l \in GoodLocal
      BY ZenonT(60), <1>hp, <2>1, <3>2, <3>3 DEF GoodLocal, Local, Phase, AttemptPhases, ConnPhases, GrantPhases,
         DisconnectPhases
    <3> HIDE DEF l
    <3>5. h' \in [Handlers -> GoodLocal]
      BY <3>1, <3>4, LocalIsGood
    <3>6. conns' \in [Conns -> ConnRow]
      BY <2>1, <2>3, BlockedTyped DEF TypeInv
    <3>7. audit' \subseteq AuditOp \X Slots
      BY <2>1, <2>3, LogTyped DEF AuditOp
    <3> QED
      BY <2>same, <2>2, <2>3, <3>5, <3>6, <3>7 DEF TypeInv
  <2>4. CASE Finish(p) /\ UNCHANGED <<conns, attempts, audit>>
    <3> HIDE DEF stopped, rows, row, l
    <3> QED
      BY <2>same, <2>4, FinishIsGood DEF TypeInv
  <2> QED
    BY <1>DisconnectClaim, <2>3, <2>4 DEF DisconnectClaim
<1>DisconnectRevoke. CASE DisconnectRevoke(p)
  <2>1. PICK c \in h[p].creds, outcome \in {"revoked", "unsupported", "failed"} :
          /\ RevokeOutcome(c, outcome)
          /\ h' = [h EXCEPT ![p].creds = LeftAfter(p, c, outcome),
                            ![p].ok = @ /\ Confirms(outcome)]
    BY <1>DisconnectRevoke DEF DisconnectRevoke
  <2> DEFINE ok == h[p].ok /\ Confirms(outcome)
             creds == h[p].creds \ {c}
             l == [h[p] EXCEPT !.creds = creds, !.ok = ok]
  <2>2. h' = [h EXCEPT ![p] = l]
    BY <2>1, <1>hp DEF TypeInv, Local, LeftAfter
  <2>3. ok \in BOOLEAN /\ creds \in SUBSET Cred
    BY <1>hp DEF Local, Confirms
  <2>4. h[p].pc = "disconnectRevoke"
    BY <1>DisconnectRevoke DEF DisconnectRevoke
  <2> HIDE DEF ok, creds
  <2>5. l \in GoodLocal
    BY ZenonT(60), <1>hp, <2>3, <2>4 DEF GoodLocal, Local, Phase, AttemptPhases, ConnPhases, GrantPhases,
       DisconnectPhases
  <2> HIDE DEF l
  <2>6. h' \in [Handlers -> GoodLocal]
    BY <2>2, <2>5, LocalIsGood
  <2>7. grants' \in [Grants -> Grant]
    BY <2>1, RevokeTyped
  <2> QED
    BY <1>DisconnectRevoke, <2>6, <2>7 DEF DisconnectRevoke, TypeInv
<1>DisconnectDelete. CASE DisconnectDelete(p)
  <2> DEFINE c == h[p].conn
             mine == {a \in Attempts : AttemptExists(h[p].rows[a])}
  <2>1. h[p].pc = "disconnectRevoke" /\ c \in Conns /\ c \in Slots
    BY <1>DisconnectDelete, <1>conn DEF DisconnectDelete, ConnPhases
  <2>2. h' \in [Handlers -> GoodLocal]
    BY <1>DisconnectDelete, FinishIsGood DEF DisconnectDelete
  <2>3. CASE /\ conns' = [conns EXCEPT ![c] = DeletedConn]
             /\ attempts' = [a \in Attempts |-> IF a \in mine THEN DeletedAttempt(attempts[a])
                                                             ELSE attempts[a]]
             /\ vault' = [s \in Slots |-> IF s \in mine \cup {c} THEN NoSecret ELSE vault[s]]
             /\ audit' = audit \cup {Disconnected(c, h[p].ok)}
    <3> HIDE DEF mine
    <3>1. conns' \in [Conns -> ConnRow]
      BY <2>3, SentinelsTyped DEF TypeInv
    <3>2. attempts' \in [Attempts -> AttemptRow]
      BY <2>3, DeletedTyped DEF TypeInv
    <3>3. vault' \in [Slots -> GoodSecret]
      BY <2>3, SentinelsTyped DEF TypeInv
    <3>4. audit' \subseteq AuditOp \X Slots
      <4>1. Disconnected(c, h[p].ok) \in AuditOp \X Slots
        BY <2>1 DEF Disconnected, AuditOp
      <4> QED
        BY <2>3, <4>1 DEF TypeInv
    <3> QED
      BY <1>DisconnectDelete, <2>2, <3>1, <3>2, <3>3, <3>4 DEF DisconnectDelete, TypeInv
  <2>4. CASE UNCHANGED <<conns, attempts, vault, audit>>
    BY <1>DisconnectDelete, <2>2, <2>4 DEF DisconnectDelete, TypeInv
  <2> QED
    BY <1>DisconnectDelete, <2>3, <2>4 DEF DisconnectDelete
<1> QED
  BY <1>DisconnectRead, <1>DisconnectAttempts, <1>DisconnectBlock, <1>DisconnectDecrypt,
     <1>DisconnectClaim, <1>DisconnectRevoke, <1>DisconnectDelete DEF DisconnectStep

\* deleteConnectionState keeps the types, whatever set of rows it removes.
LEMMA DeleteStateTyped ==
  ASSUME TypeInv, NEW cs \in SUBSET Conns, NEW as \in SUBSET Attempts, DeleteState(cs, as),
         connector' \in ConnectorRow, fuel' \in Nat,
         UNCHANGED <<entitled, age, grants, h, aborts>>
  PROVE  TypeInv'
<1>1. conns' \in [Conns -> ConnRow]
  BY SentinelsTyped DEF TypeInv, DeleteState
<1>2. attempts' \in [Attempts -> AttemptRow]
  BY DeletedTyped DEF TypeInv, DeleteState
<1>3. vault' \in [Slots -> GoodSecret]
  BY SentinelsTyped DEF TypeInv, DeleteState
<1>4. audit' \subseteq AuditOp \X Slots
  <2>1. \A c \in cs : <<"connection.deleted", c>> \in AuditOp \X Slots
    BY DEF AuditOp, Slots
  <2>2. \A a \in as : <<"authorization.deleted", a>> \in AuditOp \X Slots
    BY DEF AuditOp, Slots
  <2>3. DeletionEntries(cs, as) \subseteq AuditOp \X Slots
    BY <2>1, <2>2 DEF DeletionEntries
  <2> QED
    BY <2>3 DEF TypeInv, DeleteState
<1> QED
  BY <1>1, <1>2, <1>3, <1>4 DEF TypeInv

\* Every operation of an administrator keeps the types.
LEMMA AdministrationTyped ==
  ASSUME TypeInv, Administration
  PROVE  TypeInv'
<1>1. CASE AdminDelete
  <2>1. PICK c \in Conns : DeleteState({c}, AttemptsOf(c))
    BY <1>1 DEF AdminDelete
  <2>2. AttemptsOf(c) \in SUBSET Attempts /\ {c} \in SUBSET Conns
    BY DEF AttemptsOf
  <2>3. fuel' \in Nat /\ connector' \in ConnectorRow /\ UNCHANGED <<entitled, age, grants, h, aborts>>
    BY <1>1 DEF AdminDelete, TypeInv
  <2> QED
    BY <2>1, <2>2, <2>3, DeleteStateTyped
<1>2. CASE DeleteConnector
  <2> DEFINE cs == {c \in Conns : ConnExists(conns[c])}
             as == {a \in Attempts : AttemptExists(attempts[a])}
  <2>1. DeleteState(cs, as)
    BY <1>2 DEF DeleteConnector
  <2>2. cs \in SUBSET Conns /\ as \in SUBSET Attempts
    OBVIOUS
  <2>3. fuel' \in Nat /\ UNCHANGED <<entitled, age, grants, h, aborts>>
    BY <1>2 DEF DeleteConnector, TypeInv
  <2>4. connector' \in ConnectorRow
    BY <1>2 DEF DeleteConnector, TypeInv, ConnectorRow
  <2> HIDE DEF cs, as
  <2> QED
    BY <2>1, <2>2, <2>3, <2>4, DeleteStateTyped
<1>3. CASE SaveConnector
  <2>1. connector.version + 1 \in Nat
    BY DEF TypeInv, ConnectorRow
  <2>2. connector' \in ConnectorRow
    BY <1>3, <2>1 DEF SaveConnector, TypeInv, ConnectorRow
  <2>3. fuel' \in Nat
    BY <1>3 DEF SaveConnector, TypeInv
  <2> QED
    BY <1>3, <2>2, <2>3 DEF SaveConnector, TypeInv
<1> QED
  BY <1>1, <1>2, <1>3 DEF Administration

\* Every step of the system keeps the typed invariant.
LEMMA TypeInvStep ==
  ASSUME TypeInv, [Next]_vars
  PROVE  TypeInv'
<1>1. CASE UNCHANGED vars
  BY <1>1 DEF vars, TypeInv
<1>2. ASSUME NEW p \in Handlers, HandlerBegin(p) \/ HandlerStep(p)
      PROVE  TypeInv'
  BY <1>2, AuthorizationTyped, UseTyped, DisconnectTyped DEF HandlerBegin, HandlerStep
<1>3. ASSUME NEW p \in Handlers, Abort(p)
      PROVE  TypeInv'
  <2>1. aborts' \in Nat
    BY <1>3 DEF Abort, TypeInv
  <2>2. h' \in [Handlers -> GoodLocal]
    BY <1>3, FinishIsGood DEF Abort
  <2> QED
    BY <1>3, <2>1, <2>2 DEF Abort, TypeInv
<1>4. CASE Administration
  BY <1>4, AdministrationTyped
<1>5. CASE Tick
  <2>1. age' \in [Slots -> Ages]
    BY <1>5 DEF Tick, TypeInv, Ages
  <2> QED
    BY <1>5, <2>1 DEF Tick, TypeInv
<1>6. CASE Entitle
  <2>1. fuel' \in Nat /\ entitled' \in BOOLEAN
    BY <1>6 DEF Entitle, TypeInv
  <2> QED
    BY <1>6, <2>1 DEF Entitle, TypeInv
<1> QED
  BY <1>1, <1>2, <1>3, <1>4, <1>5, <1>6 DEF Next

\* The typed invariant holds of the empty database.
LEMMA TypeInvInit ==
  ASSUME Init
  PROVE  TypeInv
<1>1. [present |-> TRUE, enabled |-> TRUE, version |-> 1] \in ConnectorRow
  BY DEF ConnectorRow
<1>2. NoGrant \in Grant
  BY DEF NoGrant, Grant
<1> QED
  BY <1>1, <1>2, SentinelsTyped, IdleIsGood, BoundsAreNumbers DEF Init, TypeInv, Ages

\* The invariant of the proof includes the type invariant the runs check.
LEMMA TypeInvIsTypeOK ==
  ASSUME TypeInv
  PROVE  TypeOK
  BY DEF TypeInv, TypeOK, GoodLocal, GoodSecret

\* Every table, every handler's memory and the provider's state keep their types:
\* only statuses of the schema are stored, whatever the instance.
THEOREM TypeCorrect == Spec => []TypeOK
<1>1. Init => TypeInv
  BY TypeInvInit
<1>2. TypeInv /\ [Next]_vars => TypeInv'
  BY TypeInvStep
<1>3. TypeInv => TypeOK
  BY TypeInvIsTypeOK
<1> QED
  BY <1>1, <1>2, <1>3, PTL DEF Spec
--------------------------------------------------------------------------------
\* Which statuses go with a payload.  CANCELLED is left out on purpose: a
\* disconnect that was interrupted leaves a cancelled attempt with its payload.
PayloadByStatus ==
  \A a \in Attempts :
    /\ attempts[a].status \in {"UNUSED", "DELETED", "SETUP", "COMPLETED", "FAILED"}
         => ~attempts[a].payload
    /\ attempts[a].status \in {"AUTHORIZING", "PROCESSING", "NEEDS_REVOCATION",
                               "REVOCATION_PENDING"}
         => attempts[a].payload

\* What a cleanup remembers about an attempt is old, but never too young.
SnapshotsLag ==
  \A p \in Handlers : h[p].pc = "startClean" =>
    \A a \in h[p].todo :
      LET seen == h[p].rows[a]
      IN /\ seen.status \in AbandonableStatus
         /\ seen.status = "AUTHORIZING" => seen.payload
         /\ seen.status = "CANCELLED" =>
              /\ attempts[a].status \in {"CANCELLED", "DELETED"}
              /\ attempts[a].payload => seen.payload

CiphertextInv == NoOrphanCiphertext /\ PayloadByStatus /\ SnapshotsLag

\* The statuses before the callback state is consumed.
EarlyStatus == {"UNUSED", "SETUP", "AUTHORIZING"}
Issued(g) == grants[g].status # "unissued"

ExchangeInv ==
  /\ OneExchangePerAttempt
  /\ \A g \in Grants : Issued(g) =>
       /\ grants[g].attempt \in Attempts
       /\ attempts[grants[g].attempt].status \notin EarlyStatus
  /\ \A p \in Handlers : h[p].pc = "exchange" =>
       /\ attempts[h[p].att].status \notin EarlyStatus
       /\ \A g \in Grants : Issued(g) => grants[g].attempt # h[p].att
       /\ \A q \in Handlers \ {p} : h[q].pc = "exchange" => h[q].att # h[p].att
--------------------------------------------------------------------------------
\* What a step may do to an attempt and to the value it references.
Kept(a) == attempts'[a].status = attempts[a].status /\ attempts'[a].payload = attempts[a].payload
           /\ vault'[a] = vault[a]
Closed(a) == /\ attempts'[a].status = "CANCELLED"
                \/ /\ attempts'[a].status \in {"FAILED", "COMPLETED"}
                   /\ attempts[a].status \in {"PROCESSING", "NEEDS_REVOCATION"}
             /\ ~attempts'[a].payload
             /\ vault'[a] = NoSecret
Created(a) == /\ attempts[a].status = "UNUSED" /\ attempts'[a].status = "SETUP"
              /\ ~attempts'[a].payload
              /\ vault'[a] = vault[a]
Sent(a) == /\ attempts[a].status = "SETUP" /\ attempts'[a].status = "AUTHORIZING"
           /\ attempts'[a].payload
           /\ vault'[a] = OAuthPayload
Advanced(a) == /\ <<attempts[a].status, attempts'[a].status>> \in
                    {<<"AUTHORIZING", "PROCESSING">>, <<"SETUP", "CANCELLED">>,
                     <<"AUTHORIZING", "CANCELLED">>,
                     <<"NEEDS_REVOCATION", "REVOCATION_PENDING">>}
               /\ attempts'[a].payload = attempts[a].payload
               /\ vault'[a] = vault[a]
Retained(a) == /\ attempts[a].status = "PROCESSING" /\ attempts'[a].status = "NEEDS_REVOCATION"
               /\ attempts'[a].payload
               /\ vault'[a].kind = "credentials"
Discarded(a) == /\ attempts'[a].status = "DELETED" /\ ~attempts'[a].payload
                /\ \/ vault'[a] = NoSecret
                   \/ /\ vault'[a] = vault[a]
                      /\ \E p \in Handlers : /\ h[p].pc = "startClean" /\ a \in h[p].todo
                                             /\ attempts[a].status = h[p].rows[a].status
                                             /\ ~h[p].rows[a].payload
AttemptMove(a) == \/ Kept(a) \/ Closed(a) \/ Created(a) \/ Sent(a) \/ Advanced(a)
                  \/ Retained(a) \/ Discarded(a)

\* A step that leaves attempts and values alone moves no attempt.
LEMMA AttemptsKept ==
  ASSUME UNCHANGED <<attempts, vault>>
  PROVE  \A a \in Attempts : AttemptMove(a)
  BY DEF AttemptMove, Kept

\* Writing the value of a connection moves no attempt.
LEMMA ValuesOfOthers ==
  ASSUME TypeInv, UNCHANGED attempts, NEW c \in Conns, NEW v, vault' = [vault EXCEPT ![c] = v]
  PROVE  \A a \in Attempts : AttemptMove(a)
  BY IdsDistinct DEF AttemptMove, Kept, TypeInv, Slots

\* clearAuthorizationPayload is one of the moves of an attempt.
LEMMA CloseMoves ==
  ASSUME TypeInv, NEW a \in Attempts,
         NEW status, status = "CANCELLED" \/ /\ status = "FAILED"
                                             /\ attempts[a].status \in {"PROCESSING", "NEEDS_REVOCATION"},
         CloseAttempt(a, status)
  PROVE  \A b \in Attempts : AttemptMove(b)
<1>1. attempts[a] \in AttemptRow
  BY DEF TypeInv
<1>2. Closed(a)
  BY <1>1 DEF TypeInv, CloseAttempt, Closed, AttemptRow, Slots
<1>3. \A b \in Attempts \ {a} : Kept(b)
  BY DEF TypeInv, CloseAttempt, Kept, Slots
<1> QED
  BY <1>2, <1>3 DEF AttemptMove

\* Every step of setup, callback and cancel moves each attempt in one of the ways listed.
LEMMA AuthorizationMoves ==
  ASSUME TypeInv, NEW p \in Handlers, AuthorizationBegin(p) \/ AuthorizationStep(p)
  PROVE  \A a \in Attempts : AttemptMove(a)
<1>hp. h[p] \in GoodLocal /\ h[p] \in Local
  BY DEF TypeInv, GoodLocal
<1>rows. \A a \in Attempts : attempts[a] \in AttemptRow /\ a \in Slots
  BY DEF TypeInv, Slots
<1>1. CASE StartRead(p) \/ StartReady(p) \/ StartRefused(p) \/ SubmitRead(p)
           \/ CallbackRead(p) \/ Exchange(p) \/ SealFails(p) \/ RevokeUnstored(p)
           \/ ReadCompletion(p) \/ CleanupRequired(p) \/ CancelRead(p) \/ CancelDecrypt(p)
           \/ CancelRevoke(p) \/ CancelUnconfirmed(p)
  BY <1>1, AttemptsKept DEF StartRead, StartReady, StartRefused, SubmitRead, CallbackRead,
     Exchange, SealFails, RevokeUnstored, ReadCompletion, CleanupRequired, CancelRead,
     CancelDecrypt, CancelRevoke, CancelUnconfirmed
<1>StartClean. CASE StartClean(p)
  <2>1. PICK a \in h[p].todo : StartClean(p)!(a)
    BY <1>StartClean DEF StartClean
  <2>2. a \in Attempts
    BY <1>hp DEF Local
  <2> DEFINE seen == h[p].rows[a]
  <2>3. CASE UNCHANGED <<attempts, vault>>
    BY <2>3, AttemptsKept
  <2>4. CASE /\ attempts[a].status = seen.status
             /\ attempts' = [attempts EXCEPT ![a] = DeletedAttempt(@)]
             /\ vault' = IF seen.payload THEN [vault EXCEPT ![a] = NoSecret] ELSE vault
    <3>1. \A b \in Attempts \ {a} : Kept(b)
      BY <1>rows, <2>2, <2>4 DEF TypeInv, Kept
    <3>2. attempts'[a].status = "DELETED" /\ ~attempts'[a].payload
      BY <2>2, <2>4 DEF TypeInv, DeletedAttempt, UnusedAttempt
    <3>3. vault'[a] = IF seen.payload THEN NoSecret ELSE vault[a]
      BY <1>rows, <2>2, <2>4 DEF TypeInv
    <3>4. Discarded(a)
      BY <2>1, <2>4, <3>2, <3>3 DEF Discarded
    <3> QED
      BY <3>1, <3>4 DEF AttemptMove
  <2> QED
    BY <2>1, <2>3, <2>4
<1>StartCommit. CASE StartCommit(p)
  <2>1. PICK a \in Attempts, c \in Conns \cup {None}, n \in Names :
          /\ attempts[a].status = "UNUSED"
          /\ attempts' = [attempts EXCEPT ![a] =
               [UnusedAttempt EXCEPT !.status = "SETUP", !.conn = c, !.name = n,
                  !.connVersion = IF c = None THEN 0 ELSE conns[c].version,
                  !.connectorVersion = connector.version]]
    BY <1>StartCommit DEF StartCommit
  <2>2. vault' = vault
    BY <1>StartCommit DEF StartCommit
  <2>3. Created(a)
    BY <2>1, <2>2 DEF TypeInv, Created, UnusedAttempt
  <2>4. \A b \in Attempts \ {a} : Kept(b)
    BY <2>1, <2>2 DEF TypeInv, Kept
  <2> QED
    BY <2>3, <2>4 DEF AttemptMove
<1>SubmitCommit. CASE SubmitCommit(p)
  <2> DEFINE a == h[p].att
  <2>1. a \in Attempts
    BY <1>SubmitCommit, <1>hp DEF SubmitCommit, GoodLocal, AttemptPhases
  <2>2. CASE UNCHANGED <<attempts, vault>>
    BY <2>2, AttemptsKept
  <2>3. CASE /\ Submittable(a)
             /\ attempts' = [attempts EXCEPT ![a].status = "AUTHORIZING", ![a].state = TRUE,
                                             ![a].payload = TRUE]
             /\ vault' = [vault EXCEPT ![a] = OAuthPayload]
    <3> HIDE DEF a
    <3>1. Sent(a)
      BY <1>rows, <2>1, <2>3 DEF TypeInv, Sent, Submittable, AttemptRow
    <3>2. \A b \in Attempts \ {a} : Kept(b)
      BY <1>rows, <2>1, <2>3 DEF TypeInv, Kept
    <3> QED
      BY <3>1, <3>2 DEF AttemptMove
  <2> QED
    BY <1>SubmitCommit, <2>2, <2>3 DEF SubmitCommit
<1>CallbackClaim. CASE CallbackClaim(p)
  <2> DEFINE a == h[p].att
  <2>1. a \in Attempts
    BY <1>CallbackClaim, <1>hp DEF CallbackClaim, GoodLocal, AttemptPhases
  <2>2. CASE /\ Claimable(a)
             /\ attempts' = [attempts EXCEPT ![a].status = "PROCESSING", ![a].state = FALSE]
             /\ vault' = vault
    <3> HIDE DEF a
    <3>1. Advanced(a)
      BY <1>rows, <2>1, <2>2 DEF TypeInv, Advanced, Claimable, AttemptRow
    <3>2. \A b \in Attempts \ {a} : Kept(b)
      BY <2>1, <2>2 DEF TypeInv, Kept
    <3> QED
      BY <3>1, <3>2 DEF AttemptMove
  <2>3. CASE CloseAttempt(a, "CANCELLED")
    BY <2>1, <2>3, CloseMoves
  <2>4. CASE UNCHANGED <<attempts, vault>>
    BY <2>4, AttemptsKept
  <2> QED
    BY <1>CallbackClaim, <2>2, <2>3, <2>4 DEF CallbackClaim
<1>ExchangeFailed. CASE ExchangeFailed(p)
  <2> DEFINE a == h[p].att
  <2>1. a \in Attempts
    BY <1>ExchangeFailed, <1>hp DEF ExchangeFailed, GoodLocal, AttemptPhases
  <2>2. CASE attempts[a].status = "PROCESSING" /\ CloseAttempt(a, "FAILED")
    BY <2>1, <2>2, CloseMoves
  <2>3. CASE UNCHANGED <<attempts, vault>>
    BY <2>3, AttemptsKept
  <2> QED
    BY <1>ExchangeFailed, <2>2, <2>3 DEF ExchangeFailed, StillProcessing
<1>Retain. CASE Retain(p)
  <2> DEFINE a == h[p].att
  <2>1. a \in Attempts
    BY <1>Retain, <1>hp DEF Retain, GoodLocal, AttemptPhases
  <2>2. CASE /\ StillProcessing(a)
             /\ attempts' = [attempts EXCEPT ![a].status = "NEEDS_REVOCATION"]
             /\ vault' = [vault EXCEPT ![a] = Sealed(h[p].cred)]
    <3> HIDE DEF a
    <3>1. Sealed(h[p].cred).kind = "credentials"
      BY DEF Sealed
    <3>2. Retained(a)
      BY <1>rows, <2>1, <2>2, <3>1 DEF TypeInv, Retained, StillProcessing, AttemptRow
    <3>3. \A b \in Attempts \ {a} : Kept(b)
      BY <1>rows, <2>1, <2>2 DEF TypeInv, Kept
    <3> QED
      BY <3>2, <3>3 DEF AttemptMove
  <2>3. CASE UNCHANGED <<attempts, vault>>
    BY <2>3, AttemptsKept
  <2> QED
    BY <1>Retain, <2>2, <2>3 DEF Retain
<1>MarkUnstored. CASE MarkUnstored(p)
  <2> DEFINE a == h[p].att
  <2>1. a \in Attempts
    BY <1>MarkUnstored, <1>hp DEF MarkUnstored, GoodLocal, AttemptPhases
  <2>2. CASE /\ attempts[a].status \in {"PROCESSING", "NEEDS_REVOCATION"}
             /\ CloseAttempt(a, "FAILED")
    BY <2>1, <2>2, CloseMoves
  <2>3. CASE UNCHANGED <<attempts, vault>>
    BY <2>3, AttemptsKept
  <2> QED
    BY <1>MarkUnstored, <2>2, <2>3 DEF MarkUnstored
<1>CompleteCommit. CASE CompleteCommit(p)
  <2> DEFINE a == h[p].att
  <2>1. a \in Attempts
    BY <1>CompleteCommit, <1>hp DEF CompleteCommit, GoodLocal, AttemptPhases
  <2>2. ASSUME NEW c \in Conns, NEW version, Completable(a), PutCredentials(p, a, c, version)
        PROVE  \A b \in Attempts : AttemptMove(b)
    <3> HIDE DEF a
    <3>1. a # c /\ c \in Slots
      BY <2>1, IdsDistinct DEF Slots
    <3>2. vault'[a] = NoSecret
      BY <1>rows, <2>1, <2>2, <3>1 DEF TypeInv, PutCredentials
    <3>3. Closed(a)
      BY <1>rows, <2>1, <2>2, <3>2 DEF TypeInv, PutCredentials, Closed, Completable, AttemptRow
    <3>4. \A b \in Attempts \ {a} : vault'[b] = vault[b]
      BY <1>rows, <2>2, <3>1, IdsDistinct DEF TypeInv, PutCredentials
    <3>5. \A b \in Attempts \ {a} : Kept(b)
      BY <2>2, <3>4 DEF TypeInv, PutCredentials, Kept
    <3> QED
      BY <3>3, <3>5 DEF AttemptMove
  <2>3. CASE UNCHANGED <<attempts, vault>>
    BY <2>3, AttemptsKept
  <2>4. CASE /\ Completable(a)
             /\ attempts[a].conn # None
             /\ PutCredentials(p, a, attempts[a].conn, conns[attempts[a].conn].version)
    <3>1. attempts[a].conn \in Conns
      BY <1>rows, <2>1, <2>4 DEF AttemptRow
    <3> QED
      BY <2>2, <2>4, <3>1
  <2>5. ASSUME Completable(a), NEW c \in Conns, PutCredentials(p, a, c, 1)
        PROVE  \A b \in Attempts : AttemptMove(b)
    BY <2>2, <2>5
  <2> QED
    BY <1>CompleteCommit, <2>3, <2>4, <2>5 DEF CompleteCommit
<1>CancelMark. CASE CancelMark(p)
  <2> DEFINE a == h[p].att
  <2>1. a \in Attempts
    BY <1>CancelMark, <1>hp DEF CancelMark, GoodLocal, AttemptPhases
  <2>2. CASE /\ attempts[a] = h[p].arow
             /\ attempts' = [attempts EXCEPT ![a].status = "REVOCATION_PENDING",
                                             ![a].state = FALSE]
             /\ vault' = vault
    <3>1. attempts[a].status \in {"NEEDS_REVOCATION", "REVOCATION_PENDING"}
      BY <1>CancelMark, <1>hp, <2>2 DEF CancelMark, GoodLocal, HoldsRetained
    <3> HIDE DEF a
    <3>2. /\ attempts'[a].status = "REVOCATION_PENDING"
          /\ attempts'[a].payload = attempts[a].payload
      BY <1>rows, <2>1, <2>2 DEF TypeInv, AttemptRow
    <3>3. Kept(a) \/ Advanced(a)
      BY <2>2, <3>1, <3>2 DEF Kept, Advanced
    <3>4. \A b \in Attempts \ {a} : Kept(b)
      BY <2>1, <2>2 DEF TypeInv, Kept
    <3> QED
      BY <3>3, <3>4 DEF AttemptMove
  <2>3. CASE UNCHANGED <<attempts, vault>>
    BY <2>3, AttemptsKept
  <2> QED
    BY <1>CancelMark, <2>2, <2>3 DEF CancelMark
<1>CancelFinish. CASE CancelFinish(p)
  <2> DEFINE a == h[p].att
  <2>1. a \in Attempts
    BY <1>CancelFinish, <1>hp DEF CancelFinish, GoodLocal, AttemptPhases
  <2>2. CASE CloseAttempt(a, "CANCELLED")
    BY <2>1, <2>2, CloseMoves
  <2>3. CASE UNCHANGED <<attempts, vault>>
    BY <2>3, AttemptsKept
  <2> QED
    BY <1>CancelFinish, <2>2, <2>3 DEF CancelFinish
<1> QED
  BY <1>1, <1>StartClean, <1>StartCommit, <1>SubmitCommit, <1>CallbackClaim, <1>ExchangeFailed,
     <1>Retain, <1>MarkUnstored, <1>CompleteCommit, <1>CancelMark, <1>CancelFinish
     DEF AuthorizationBegin, AuthorizationStep

\* Use and refresh of a connection move no attempt.
LEMMA UseMoves ==
  ASSUME TypeInv, NEW p \in Handlers, AccessRead(p) \/ UseStep(p)
  PROVE  \A a \in Attempts : AttemptMove(a)
<1>1. CASE AccessRead(p) \/ AccessDecrypt(p) \/ AccessClaim(p) \/ Refresh(p)
           \/ RefreshFailed(p) \/ GrantCheck(p) \/ UseCheck(p) \/ Dispatch(p)
  BY <1>1, AttemptsKept DEF AccessRead, AccessDecrypt, AccessClaim, Refresh, RefreshFailed,
     GrantCheck, UseCheck, Dispatch
<1>2. CASE RefreshCommit(p)
  <2>1. h[p].conn \in Conns
    BY <1>2 DEF RefreshCommit, TypeInv, GoodLocal, ConnPhases
  <2>2. CASE vault' = [vault EXCEPT ![h[p].conn] = Sealed(h[p].cred)]
    BY <1>2, <2>1, <2>2, ValuesOfOthers DEF RefreshCommit
  <2>3. CASE UNCHANGED vault
    BY <1>2, <2>3, AttemptsKept DEF RefreshCommit
  <2> QED
    BY <1>2, <2>2, <2>3 DEF RefreshCommit
<1> QED
  BY <1>1, <1>2 DEF UseStep

\* deleteConnectionState moves the attempts it removes together with their values.
LEMMA DeletionMoves ==
  ASSUME TypeInv, NEW cs \in SUBSET Conns, NEW as \in SUBSET Attempts,
         attempts' = [a \in Attempts |-> IF a \in as THEN DeletedAttempt(attempts[a])
                                                    ELSE attempts[a]],
         vault' = [s \in Slots |-> IF s \in cs \cup as THEN NoSecret ELSE vault[s]]
  PROVE  \A a \in Attempts : AttemptMove(a)
<1>1. ASSUME NEW a \in as PROVE Discarded(a)
  BY DEF TypeInv, Discarded, DeletedAttempt, UnusedAttempt, Slots
<1>2. ASSUME NEW a \in Attempts \ as PROVE Kept(a)
  BY IdsDistinct DEF TypeInv, Kept, Slots
<1> QED
  BY <1>1, <1>2 DEF AttemptMove

\* Every step of a disconnect moves each attempt in one of the ways listed.
LEMMA DisconnectMoves ==
  ASSUME TypeInv, NEW p \in Handlers, DisconnectRead(p) \/ DisconnectStep(p)
  PROVE  \A a \in Attempts : AttemptMove(a)
<1>1. CASE DisconnectRead(p) \/ DisconnectAttempts(p) \/ DisconnectBlock(p)
           \/ DisconnectDecrypt(p) \/ DisconnectRevoke(p)
  BY <1>1, AttemptsKept DEF DisconnectRead, DisconnectAttempts, DisconnectBlock,
     DisconnectDecrypt, DisconnectRevoke
<1>2. CASE DisconnectClaim(p)
  <2> DEFINE c == h[p].conn
             stopped == [a \in Attempts |->
               IF a \in AttemptsOf(c)
               THEN [attempts[a] EXCEPT !.status = Stopped(@), !.state = FALSE]
               ELSE attempts[a]]
  <2>1. CASE attempts' = stopped
    <3>1. vault' = vault
      BY <1>2 DEF DisconnectClaim
    <3>2. ASSUME NEW a \in Attempts PROVE AttemptMove(a)
      <4>1. attempts[a] \in AttemptRow
        BY DEF TypeInv
      <4>2. CASE attempts'[a] = attempts[a]
        BY <3>1, <4>2 DEF AttemptMove, Kept
      <4>3. CASE attempts'[a] = [attempts[a] EXCEPT !.status = Stopped(@), !.state = FALSE]
        <5>1. /\ attempts'[a].status = Stopped(attempts[a].status)
              /\ attempts'[a].payload = attempts[a].payload
          BY <4>1, <4>3 DEF AttemptRow
        <5>2. Kept(a) \/ Advanced(a)
          BY <3>1, <5>1 DEF Kept, Advanced, Stopped
        <5> QED
          BY <5>2 DEF AttemptMove
      <4> QED
        BY <2>1, <4>2, <4>3
    <3> QED
      BY <3>2
  <2>2. CASE UNCHANGED attempts
    BY <1>2, <2>2, AttemptsKept DEF DisconnectClaim
  <2> QED
    BY <1>2, <2>1, <2>2 DEF DisconnectClaim
<1>3. CASE DisconnectDelete(p)
  <2> DEFINE c == h[p].conn
             mine == {a \in Attempts : AttemptExists(h[p].rows[a])}
  <2>1. c \in Conns
    BY <1>3 DEF DisconnectDelete, TypeInv, GoodLocal, ConnPhases
  <2>2. CASE /\ attempts' = [a \in Attempts |-> IF a \in mine THEN DeletedAttempt(attempts[a])
                                                             ELSE attempts[a]]
             /\ vault' = [s \in Slots |-> IF s \in mine \cup {c} THEN NoSecret ELSE vault[s]]
    <3>1. mine \in SUBSET Attempts /\ {c} \in SUBSET Conns
      BY <2>1
    <3>2. vault' = [s \in Slots |-> IF s \in {c} \cup mine THEN NoSecret ELSE vault[s]]
      BY <2>2
    <3> HIDE DEF mine, c
    <3> QED
      BY <2>2, <3>1, <3>2, DeletionMoves
  <2>3. CASE UNCHANGED <<attempts, vault>>
    BY <2>3, AttemptsKept
  <2> QED
    BY <1>3, <2>2, <2>3 DEF DisconnectDelete
<1> QED
  BY <1>1, <1>2, <1>3 DEF DisconnectStep

\* Every step of the system moves each attempt in one of the ways listed.
LEMMA AttemptMoves ==
  ASSUME TypeInv, [Next]_vars
  PROVE  \A a \in Attempts : AttemptMove(a)
<1>1. CASE UNCHANGED vars
  BY <1>1, AttemptsKept DEF vars
<1>2. ASSUME NEW p \in Handlers, HandlerBegin(p) \/ HandlerStep(p)
      PROVE  \A a \in Attempts : AttemptMove(a)
  BY <1>2, AuthorizationMoves, UseMoves, DisconnectMoves DEF HandlerBegin, HandlerStep
<1>3. CASE (\E p \in Handlers : Abort(p)) \/ SaveConnector \/ Tick \/ Entitle
  BY <1>3, AttemptsKept DEF Abort, SaveConnector, Tick, Entitle
<1>4. CASE AdminDelete
  <2>1. PICK c \in Conns : DeleteState({c}, AttemptsOf(c))
    BY <1>4 DEF AdminDelete
  <2>2. {c} \in SUBSET Conns /\ AttemptsOf(c) \in SUBSET Attempts
    BY DEF AttemptsOf
  <2> QED
    BY <2>1, <2>2, DeletionMoves DEF DeleteState, ValuesOf
<1>5. CASE DeleteConnector
  <2> DEFINE cs == {c \in Conns : ConnExists(conns[c])}
             as == {a \in Attempts : AttemptExists(attempts[a])}
  <2>1. DeleteState(cs, as)
    BY <1>5 DEF DeleteConnector
  <2>2. cs \in SUBSET Conns /\ as \in SUBSET Attempts
    OBVIOUS
  <2> HIDE DEF cs, as
  <2> QED
    BY <2>1, <2>2, DeletionMoves DEF DeleteState, ValuesOf
<1> QED
  BY <1>1, <1>2, <1>3, <1>4, <1>5 DEF Next, Administration
--------------------------------------------------------------------------------
\* What a step may do to a connection and to the value it references.
StaysBlocked(c) == conns[c].status = "REVOCATION_PENDING" =>
                     conns'[c].status \in {"REVOCATION_PENDING", "DELETED"}
ConnKept(c) == /\ ConnExists(conns'[c]) <=> ConnExists(conns[c])
               /\ vault'[c] = vault[c]
ConnStored(c) == ConnExists(conns'[c]) /\ vault'[c].kind = "credentials"
ConnDeleted(c) == ~ConnExists(conns'[c]) /\ vault'[c] = NoSecret
ConnMove(c) == StaysBlocked(c) /\ (ConnKept(c) \/ ConnStored(c) \/ ConnDeleted(c))

\* A step that leaves connections and their values alone moves none.
LEMMA ConnsKept ==
  ASSUME UNCHANGED conns, \A c \in Conns : vault'[c] = vault[c]
  PROVE  \A c \in Conns : ConnMove(c)
  BY DEF ConnMove, ConnKept, StaysBlocked

\* Rewriting the row of an existing connection without unblocking it is a move.
LEMMA ConnRowMoves ==
  ASSUME TypeInv, UNCHANGED vault, NEW c \in Conns, NEW r \in ConnRow,
         conns' = [conns EXCEPT ![c] = r],
         ConnExists(conns[c]), ConnExists(r),
         conns[c].status = "REVOCATION_PENDING" => r.status = "REVOCATION_PENDING"
  PROVE  \A d \in Conns : ConnMove(d)
<1>1. conns'[c] = r /\ \A d \in Conns \ {c} : conns'[d] = conns[d]
  BY DEF TypeInv
<1> QED
  BY <1>1 DEF ConnMove, ConnKept, StaysBlocked

\* Writing the value of an attempt leaves those of connections alone.
LEMMA ValuesOfAttempts ==
  ASSUME TypeInv, NEW a \in Attempts, NEW v, vault' = [vault EXCEPT ![a] = v]
  PROVE  \A c \in Conns : vault'[c] = vault[c]
  BY IdsDistinct DEF TypeInv, Slots

\* Every step of setup, callback and cancel moves each connection in one of the ways listed.
LEMMA AuthorizationConnMoves ==
  ASSUME TypeInv, NEW p \in Handlers, AuthorizationBegin(p) \/ AuthorizationStep(p)
  PROVE  \A c \in Conns : ConnMove(c)
<1>hp. h[p] \in GoodLocal /\ h[p] \in Local
  BY DEF TypeInv, GoodLocal
<1>att. h[p].pc \in AttemptPhases => h[p].att \in Attempts
  BY <1>hp DEF GoodLocal
<1>1. CASE StartRead(p) \/ StartReady(p) \/ StartCommit(p) \/ StartRefused(p) \/ SubmitRead(p)
           \/ CallbackRead(p) \/ Exchange(p) \/ SealFails(p) \/ RevokeUnstored(p)
           \/ ReadCompletion(p) \/ CleanupRequired(p) \/ CancelRead(p) \/ CancelDecrypt(p)
           \/ CancelMark(p) \/ CancelRevoke(p) \/ CancelUnconfirmed(p)
  <2>1. UNCHANGED <<conns, vault>>
    BY <1>1 DEF StartRead, StartReady, StartCommit, StartRefused, SubmitRead, CallbackRead,
       Exchange, SealFails, RevokeUnstored, ReadCompletion, CleanupRequired, CancelRead,
       CancelDecrypt, CancelMark, CancelRevoke, CancelUnconfirmed
  <2> QED
    BY <2>1, ConnsKept
<1>2. CASE StartClean(p)
  <2>1. PICK a \in h[p].todo : StartClean(p)!(a)
    BY <1>2 DEF StartClean
  <2>2. a \in Attempts
    BY <1>hp DEF Local
  <2>3. vault' = vault \/ vault' = [vault EXCEPT ![a] = NoSecret]
    BY <2>1
  <2>4. UNCHANGED conns
    BY <2>1
  <2> QED
    BY <2>2, <2>3, <2>4, ValuesOfAttempts, ConnsKept
<1>3. CASE SubmitCommit(p) \/ CallbackClaim(p) \/ ExchangeFailed(p) \/ Retain(p)
           \/ MarkUnstored(p) \/ CancelFinish(p)
  <2>1. h[p].att \in Attempts
    BY <1>3, <1>att DEF SubmitCommit, CallbackClaim, ExchangeFailed, Retain, MarkUnstored,
       CancelFinish, AttemptPhases
  <2>2. vault' = vault \/ \E v : vault' = [vault EXCEPT ![h[p].att] = v]
    BY <1>3 DEF SubmitCommit, CallbackClaim, ExchangeFailed, Retain, MarkUnstored,
       CancelFinish, CloseAttempt
  <2>3. UNCHANGED conns
    BY <1>3 DEF SubmitCommit, CallbackClaim, ExchangeFailed, Retain, MarkUnstored, CancelFinish
  <2> QED
    BY <2>1, <2>2, <2>3, ValuesOfAttempts, ConnsKept
<1>4. CASE CompleteCommit(p)
  <2> DEFINE a == h[p].att
  <2>1. a \in Attempts
    BY <1>4, <1>att DEF CompleteCommit, AttemptPhases
  <2>2. ASSUME NEW c \in Conns, NEW version, PutCredentials(p, a, c, version),
               conns[c].status # "REVOCATION_PENDING"
        PROVE  \A d \in Conns : ConnMove(d)
    <3> HIDE DEF a
    <3>1. a # c /\ a \in Slots /\ c \in Slots
      BY <2>1, IdsDistinct DEF Slots
    <3>2. ConnExists(conns'[c])
      BY <2>2 DEF TypeInv, PutCredentials, ConnExists
    <3>3. vault'[c] = Sealed(h[p].cred)
      BY <2>2, <3>1 DEF TypeInv, PutCredentials
    <3>4. ConnStored(c)
      BY <3>2, <3>3 DEF ConnStored, Sealed
    <3>5. \A d \in Conns \ {c} : vault'[d] = vault[d]
      BY <2>1, <2>2, <3>1, IdsDistinct DEF TypeInv, PutCredentials, Slots
    <3>6. \A d \in Conns \ {c} : ConnMove(d)
      BY <2>2, <3>5 DEF TypeInv, PutCredentials, ConnMove, ConnKept, StaysBlocked
    <3> QED
      BY <2>2, <3>4, <3>6 DEF ConnMove, StaysBlocked
  <2>3. CASE UNCHANGED <<conns, vault>>
    BY <2>3, ConnsKept
  <2>4. CASE /\ Completable(a)
             /\ attempts[a].conn # None
             /\ PutCredentials(p, a, attempts[a].conn, conns[attempts[a].conn].version)
    <3>1. attempts[a].conn \in Conns
      BY <2>1, <2>4 DEF TypeInv, AttemptRow
    <3>2. conns[attempts[a].conn].status # "REVOCATION_PENDING"
      BY <2>4 DEF Completable, Reconnectable
    <3> QED
      BY <2>2, <2>4, <3>1, <3>2
  <2>5. ASSUME NEW c \in Conns, conns[c].status = "UNUSED", PutCredentials(p, a, c, 1)
        PROVE  \A d \in Conns : ConnMove(d)
    BY <2>2, <2>5
  <2> QED
    BY <1>4, <2>3, <2>4, <2>5 DEF CompleteCommit
<1> QED
  BY <1>1, <1>2, <1>3, <1>4 DEF AuthorizationBegin, AuthorizationStep

\* Every step of use and refresh moves each connection in one of the ways listed.
LEMMA UseConnMoves ==
  ASSUME TypeInv, NEW p \in Handlers, AccessRead(p) \/ UseStep(p)
  PROVE  \A c \in Conns : ConnMove(c)
<1>conn. h[p].pc \in ConnPhases => h[p].conn \in Conns
  BY DEF TypeInv, GoodLocal
<1>1. CASE AccessRead(p) \/ AccessDecrypt(p) \/ Refresh(p) \/ UseCheck(p) \/ Dispatch(p)
  <2>1. UNCHANGED <<conns, vault>>
    BY <1>1 DEF AccessRead, AccessDecrypt, Refresh, UseCheck, Dispatch
  <2> QED
    BY <2>1, ConnsKept
<1> DEFINE c == h[p].conn
<1>2. CASE AccessClaim(p)
  <2>1. c \in Conns
    BY <1>2, <1>conn DEF AccessClaim, ConnPhases
  <2>2. CASE UNCHANGED conns
    BY <1>2, <2>2, ConnsKept DEF AccessClaim
  <2> DEFINE claimed == [conns[c] EXCEPT !.status = "REFRESHING", !.refreshBy = p,
                                         !.version = @ + 1]
             stale == [conns[c] EXCEPT !.status = "RECONNECT_REQUIRED", !.version = @ + 1]
  <2>row. conns[c] \in ConnRow /\ conns[c].version + 1 \in Nat
    BY <2>1 DEF TypeInv, ConnRow
  <2>3. CASE Usable(c) /\ conns' = [conns EXCEPT ![c] = claimed]
    <3>1. claimed \in ConnRow /\ claimed.status = "REFRESHING"
      BY <2>row DEF ConnRow, ConnStatus
    <3> HIDE DEF claimed
    <3> QED
      BY <1>2, <2>1, <2>3, <3>1, ConnRowMoves DEF AccessClaim, Usable, ConnExists
  <2>4. CASE Usable(c) /\ conns' = [conns EXCEPT ![c].status = "RECONNECT_REQUIRED",
                                                 ![c].version = @ + 1]
    <3>1. stale \in ConnRow /\ stale.status = "RECONNECT_REQUIRED"
      BY <2>row DEF ConnRow, ConnStatus
    <3>2. conns' = [conns EXCEPT ![c] = stale]
      BY <2>4 DEF TypeInv
    <3> HIDE DEF stale
    <3> QED
      BY <1>2, <2>1, <2>4, <3>1, <3>2, ConnRowMoves DEF AccessClaim, Usable, ConnExists
  <2> QED
    BY <1>2, <2>2, <2>3, <2>4 DEF AccessClaim
<1>3. CASE RefreshCommit(p)
  <2>1. c \in Conns /\ c \in Slots
    BY <1>3, <1>conn DEF RefreshCommit, ConnPhases, Slots
  <2> DEFINE r == conns[c]
             pending == r.status = "REVOCATION_PENDING" /\ r.refreshBy = p
             usable == /\ h[p].ok
                       /\ connector.enabled
                       /\ connector.version = h[p].connector.version
             next == [r EXCEPT !.refreshBy = None, !.version = @ + 1,
                        !.status = StatusAfterRefresh(pending, usable)]
  <2>2. CASE /\ pending \/ r.status = "REFRESHING"
             /\ conns' = [conns EXCEPT ![c] = next]
             /\ vault' = [vault EXCEPT ![c] = Sealed(h[p].cred)]
    <3>1. next.status = StatusAfterRefresh(pending, usable)
      BY <2>1 DEF TypeInv, ConnRow
    <3>2. ConnExists(next)
      BY <3>1 DEF StatusAfterRefresh, ConnExists
    <3>3. r.status = "REVOCATION_PENDING" => next.status = "REVOCATION_PENDING"
      BY <2>2, <3>1 DEF StatusAfterRefresh
    <3> HIDE DEF next
    <3>4. conns'[c] = next /\ vault'[c] = Sealed(h[p].cred)
      BY <2>1, <2>2 DEF TypeInv
    <3>5. \A d \in Conns \ {c} : conns'[d] = conns[d] /\ vault'[d] = vault[d]
      BY <2>1, <2>2 DEF TypeInv, Slots
    <3>6. ConnStored(c) /\ StaysBlocked(c)
      BY <3>2, <3>3, <3>4 DEF ConnStored, StaysBlocked, Sealed
    <3> QED
      BY <3>5, <3>6 DEF ConnMove, ConnKept, StaysBlocked
  <2>3. CASE UNCHANGED <<conns, vault>>
    BY <2>3, ConnsKept
  <2> QED
    BY <1>3, <2>2, <2>3 DEF RefreshCommit
<1>4. CASE RefreshFailed(p)
  <2>1. c \in Conns
    BY <1>4, <1>conn DEF RefreshFailed, ConnPhases
  <2> DEFINE next == [conns[c] EXCEPT !.status = StatusAfterFailure(h[p].ok),
                                      !.refreshBy = None, !.version = @ + 1]
  <2>2. CASE conns[c].status = "REFRESHING" /\ conns' = [conns EXCEPT ![c] = next]
    <3>1. conns[c] \in ConnRow /\ conns[c].version + 1 \in Nat
      BY <2>1 DEF TypeInv, ConnRow
    <3>2. StatusAfterFailure(h[p].ok) \in {"READY", "RECONNECT_REQUIRED"}
      BY DEF StatusAfterFailure
    <3>3. next \in ConnRow /\ next.status = StatusAfterFailure(h[p].ok)
      BY <3>1, <3>2 DEF ConnRow, ConnStatus
    <3> HIDE DEF next
    <3> QED
      BY <1>4, <2>1, <2>2, <3>2, <3>3, ConnRowMoves DEF RefreshFailed, ConnExists
  <2>3. CASE UNCHANGED conns
    BY <1>4, <2>3, ConnsKept DEF RefreshFailed
  <2> QED
    BY <1>4, <2>2, <2>3 DEF RefreshFailed
<1>5. CASE GrantCheck(p)
  <2>1. c \in Conns
    BY <1>5, <1>conn DEF GrantCheck, ConnPhases
  <2> DEFINE next == [conns[c] EXCEPT !.status = "RECONNECT_REQUIRED", !.version = @ + 1]
  <2>2. CASE /\ conns[c].status = "READY"
             /\ conns' = [conns EXCEPT ![c].status = "RECONNECT_REQUIRED", ![c].version = @ + 1]
    <3>1. conns[c] \in ConnRow /\ conns[c].version + 1 \in Nat
      BY <2>1 DEF TypeInv, ConnRow
    <3>2. next \in ConnRow /\ next.status = "RECONNECT_REQUIRED"
      BY <3>1 DEF ConnRow, ConnStatus
    <3>3. conns' = [conns EXCEPT ![c] = next]
      BY <2>2 DEF TypeInv
    <3> HIDE DEF next
    <3> QED
      BY <1>5, <2>1, <2>2, <3>2, <3>3, ConnRowMoves DEF GrantCheck, ConnExists
  <2>3. CASE UNCHANGED conns
    BY <1>5, <2>3, ConnsKept DEF GrantCheck
  <2> QED
    BY <1>5, <2>2, <2>3 DEF GrantCheck
<1> QED
  BY <1>1, <1>2, <1>3, <1>4, <1>5 DEF UseStep

\* Every step of a disconnect moves each connection in one of the ways listed.
LEMMA DisconnectConnMoves ==
  ASSUME TypeInv, NEW p \in Handlers, DisconnectRead(p) \/ DisconnectStep(p)
  PROVE  \A c \in Conns : ConnMove(c)
<1>hp. h[p] \in GoodLocal
  BY DEF TypeInv
<1>conn. h[p].pc \in ConnPhases => h[p].conn \in Conns
  BY <1>hp DEF GoodLocal
<1> DEFINE c == h[p].conn
<1>block. ASSUME c \in Conns, h[p].pc \in DisconnectPhases, Same(p), UNCHANGED vault,
                 conns' = [conns EXCEPT ![c] = Blocked(@)]
          PROVE  \A d \in Conns : ConnMove(d)
  <2>1. conns[c] \in ConnRow /\ ConnExists(conns[c])
    BY <1>block, <1>hp DEF TypeInv, GoodLocal, Same
  <2>2. Blocked(conns[c]) \in ConnRow
    BY <2>1, BlockedTyped
  <2>3. Blocked(conns[c]).status = "REVOCATION_PENDING"
    BY <2>1 DEF Blocked, ConnRow
  <2>4. ConnExists(Blocked(conns[c]))
    BY <2>3 DEF ConnExists
  <2>5. conns' = [conns EXCEPT ![c] = Blocked(conns[c])]
    BY <1>block
  <2> HIDE DEF c
  <2> QED
    BY <1>block, <2>1, <2>2, <2>3, <2>4, <2>5, ConnRowMoves
<1>1. CASE DisconnectRead(p) \/ DisconnectAttempts(p) \/ DisconnectDecrypt(p)
           \/ DisconnectRevoke(p)
  <2>1. UNCHANGED <<conns, vault>>
    BY <1>1 DEF DisconnectRead, DisconnectAttempts, DisconnectDecrypt, DisconnectRevoke
  <2> QED
    BY <2>1, ConnsKept
<1>2. CASE DisconnectBlock(p)
  <2>1. c \in Conns /\ h[p].pc \in DisconnectPhases
    BY <1>2, <1>conn DEF DisconnectBlock, ConnPhases, DisconnectPhases
  <2>2. CASE UNCHANGED conns
    BY <1>2, <2>2, ConnsKept DEF DisconnectBlock
  <2> QED
    BY <1>2, <1>block, <2>1, <2>2 DEF DisconnectBlock
<1>3. CASE DisconnectClaim(p)
  <2>1. c \in Conns /\ h[p].pc \in DisconnectPhases
    BY <1>3, <1>conn DEF DisconnectClaim, ConnPhases, DisconnectPhases
  <2>2. CASE UNCHANGED conns
    BY <1>3, <2>2, ConnsKept DEF DisconnectClaim
  <2> QED
    BY <1>3, <1>block, <2>1, <2>2 DEF DisconnectClaim
<1>4. CASE DisconnectDelete(p)
  <2>1. c \in Conns
    BY <1>4, <1>conn DEF DisconnectDelete, ConnPhases
  <2>2. CASE UNCHANGED <<conns, vault>>
    BY <2>2, ConnsKept
  <2> DEFINE mine == {a \in Attempts : AttemptExists(h[p].rows[a])}
  <2>3. CASE /\ conns' = [conns EXCEPT ![c] = DeletedConn]
             /\ vault' = [s \in Slots |-> IF s \in mine \cup {c} THEN NoSecret ELSE vault[s]]
    <3>1. c \in Slots /\ \A d \in Conns : d \in Slots /\ d \notin mine
      BY <2>1, IdsDistinct DEF Slots
    <3> HIDE DEF mine, c
    <3>2. conns'[c] = DeletedConn /\ vault'[c] = NoSecret
      BY <2>1, <2>3, <3>1 DEF TypeInv
    <3>3. \A d \in Conns \ {c} : conns'[d] = conns[d] /\ vault'[d] = vault[d]
      BY <2>3, <3>1 DEF TypeInv
    <3>4. DeletedConn.status = "DELETED"
      BY DEF DeletedConn, UnusedConn
    <3>5. ConnDeleted(c) /\ StaysBlocked(c)
      BY <3>2, <3>4 DEF ConnDeleted, StaysBlocked, ConnExists
    <3> QED
      BY <3>3, <3>5 DEF ConnMove, ConnKept, StaysBlocked
  <2> QED
    BY <1>4, <2>2, <2>3 DEF DisconnectDelete
<1> QED
  BY <1>1, <1>2, <1>3, <1>4 DEF DisconnectStep

\* deleteConnectionState removes a connection together with its credentials.
LEMMA DeletionConnMoves ==
  ASSUME TypeInv, NEW cs \in SUBSET Conns, NEW as \in SUBSET Attempts, DeleteState(cs, as)
  PROVE  \A c \in Conns : ConnMove(c)
<1>1. DeletedConn.status = "DELETED"
  BY DEF DeletedConn, UnusedConn
<1>2. ASSUME NEW c \in cs
      PROVE  ConnDeleted(c) /\ StaysBlocked(c)
  <2>1. conns'[c] = DeletedConn /\ vault'[c] = NoSecret
    BY DEF DeleteState, ValuesOf, Slots
  <2> QED
    BY <1>1, <2>1 DEF ConnDeleted, StaysBlocked, ConnExists
<1>3. ASSUME NEW c \in Conns \ cs
      PROVE  ConnKept(c) /\ StaysBlocked(c)
  <2>1. conns'[c] = conns[c] /\ vault'[c] = vault[c]
    BY IdsDistinct DEF DeleteState, ValuesOf, Slots
  <2> QED
    BY <2>1 DEF ConnKept, StaysBlocked
<1> QED
  BY <1>2, <1>3 DEF ConnMove

\* Every step of the system moves each connection in one of the ways listed.
LEMMA ConnMoves ==
  ASSUME TypeInv, [Next]_vars
  PROVE  \A c \in Conns : ConnMove(c)
<1>1. CASE UNCHANGED vars
  BY <1>1, ConnsKept DEF vars
<1>2. ASSUME NEW p \in Handlers, HandlerBegin(p) \/ HandlerStep(p)
      PROVE  \A c \in Conns : ConnMove(c)
  BY <1>2, AuthorizationConnMoves, UseConnMoves, DisconnectConnMoves DEF HandlerBegin, HandlerStep
<1>3. CASE (\E p \in Handlers : Abort(p)) \/ SaveConnector \/ Tick \/ Entitle
  BY <1>3, ConnsKept DEF Abort, SaveConnector, Tick, Entitle
<1>4. CASE AdminDelete
  <2>1. PICK c \in Conns : DeleteState({c}, AttemptsOf(c))
    BY <1>4 DEF AdminDelete
  <2>2. {c} \in SUBSET Conns /\ AttemptsOf(c) \in SUBSET Attempts
    BY DEF AttemptsOf
  <2> QED
    BY <2>1, <2>2, DeletionConnMoves
<1>5. CASE DeleteConnector
  <2> DEFINE cs == {c \in Conns : ConnExists(conns[c])}
             as == {a \in Attempts : AttemptExists(attempts[a])}
  <2>1. DeleteState(cs, as)
    BY <1>5 DEF DeleteConnector
  <2>2. cs \in SUBSET Conns /\ as \in SUBSET Attempts
    OBVIOUS
  <2> HIDE DEF cs, as
  <2> QED
    BY <2>1, <2>2, DeletionConnMoves
<1> QED
  BY <1>1, <1>2, <1>3, <1>4, <1>5 DEF Next, Administration
--------------------------------------------------------------------------------
\* What a step may do to the handlers: only the one that runs changes, and two
\* phases are entered by one action each.
HandlerMove(p) ==
  /\ \A q \in Handlers \ {p} : h'[q] = h[q]
  /\ h'[p].pc = "startClean" => StartRead(p) \/ StartClean(p)
  /\ h'[p].pc = "exchange" => CallbackClaim(p)

\* A step of a handler changes its memory only in the ways HandlerMove lists.
LEMMA HandlerMoves ==
  ASSUME TypeInv, NEW p \in Handlers, HandlerBegin(p) \/ HandlerStep(p) \/ Abort(p)
  PROVE  HandlerMove(p)
<1>h. h \in [Handlers -> GoodLocal] /\ h[p] \in Local
  BY DEF TypeInv, GoodLocal
<1>finish. Finish(p) => HandlerMove(p)
  BY <1>h DEF Finish, Idle, HandlerMove
<1>goto. \A pc : Goto(p, pc) /\ pc \notin {"startClean", "exchange"} => HandlerMove(p)
  BY <1>h DEF Goto, HandlerMove, Local
<1>keep. \A l : h' = [h EXCEPT ![p] = l] /\ l.pc \notin {"startClean", "exchange"} => HandlerMove(p)
  BY <1>h DEF HandlerMove
<1>1. CASE StartRead(p)
  <2>1. \A q \in Handlers \ {p} : h'[q] = h[q]
    BY <1>1, <1>h DEF StartRead
  <2>2. h'[p].pc = "startClean"
    BY <1>1, <1>h DEF StartRead, Local
  <2> QED
    BY <1>1, <2>1, <2>2 DEF HandlerMove
<1>2. CASE StartClean(p)
  <2>1. PICK a \in h[p].todo : StartClean(p)!(a)
    BY <1>2 DEF StartClean
  <2>2. CASE h' = [h EXCEPT ![p].todo = @ \ {a}, ![p].rows = [@ EXCEPT ![a] = UnusedAttempt]]
    <3>1. \A q \in Handlers \ {p} : h'[q] = h[q]
      BY <1>h, <2>2
    <3>2. h'[p].pc = h[p].pc
      BY <1>h, <2>2 DEF Local
    <3> QED
      BY <1>2, <2>1, <3>1, <3>2 DEF HandlerMove
  <2> QED
    BY <2>1, <2>2, <1>finish
<1>3. CASE StartReady(p)
  BY <1>3, <1>h DEF StartReady, Idle, HandlerMove
<1>4. CASE StartCommit(p) \/ StartRefused(p) \/ SubmitCommit(p) \/ ExchangeFailed(p)
           \/ MarkUnstored(p) \/ CleanupRequired(p) \/ CancelUnconfirmed(p) \/ CancelFinish(p)
           \/ RefreshFailed(p) \/ Dispatch(p) \/ DisconnectBlock(p) \/ DisconnectDelete(p)
           \/ Abort(p)
  BY <1>4, <1>finish DEF StartCommit, StartRefused, SubmitCommit, ExchangeFailed, MarkUnstored,
     CleanupRequired, CancelUnconfirmed, CancelFinish, RefreshFailed, Dispatch, DisconnectBlock,
     DisconnectDelete, Abort
<1>5. CASE SubmitRead(p) \/ CallbackRead(p) \/ CancelRead(p) \/ AccessRead(p)
           \/ DisconnectRead(p)
  <2>1. \A q \in Handlers \ {p} : h'[q] = h[q]
    BY <1>5, <1>h DEF SubmitRead, CallbackRead, CancelRead, AccessRead, DisconnectRead
  <2>2. h'[p].pc \notin {"startClean", "exchange"}
    <3>1. CASE SubmitRead(p)
      BY <3>1, <1>h DEF SubmitRead, Local
    <3>2. CASE CallbackRead(p)
      BY <3>2, <1>h DEF CallbackRead, Local
    <3>3. CASE CancelRead(p)
      BY <3>3, <1>h DEF CancelRead, Local
    <3>4. CASE AccessRead(p)
      BY <3>4, <1>h DEF AccessRead, Local
    <3>5. CASE DisconnectRead(p)
      BY <3>5, <1>h DEF DisconnectRead, Local
    <3> QED
      BY <1>5, <3>1, <3>2, <3>3, <3>4, <3>5
  <2> QED
    BY <2>1, <2>2 DEF HandlerMove
<1>6. CASE CallbackClaim(p)
  <2>1. \A q \in Handlers \ {p} : h'[q] = h[q]
    BY <1>6, <1>h DEF CallbackClaim, Goto, Finish
  <2>2. h'[p].pc # "startClean"
    BY <1>6, <1>h DEF CallbackClaim, Goto, Finish, Local, Idle
  <2> QED
    BY <1>6, <2>1, <2>2 DEF HandlerMove
<1>7. CASE SealFails(p)
  BY <1>7, <1>goto DEF SealFails
<1>8. CASE Retain(p)
  BY <1>8, <1>goto, <1>finish DEF Retain
<1>9. CASE GrantCheck(p) \/ UseCheck(p)
  BY <1>9, <1>goto, <1>finish DEF GrantCheck, UseCheck
<1>10. CASE CompleteCommit(p)
  BY <1>10, <1>goto, <1>finish DEF CompleteCommit, PutCredentials
<1>11. CASE Exchange(p) \/ RevokeUnstored(p) \/ CancelRevoke(p) \/ Refresh(p) \/ DisconnectRevoke(p)
  <2>1. \A q \in Handlers \ {p} : h'[q] = h[q]
    BY <1>11, <1>h DEF Exchange, RevokeUnstored, CancelRevoke, Refresh, DisconnectRevoke, Goto
  <2>2. h'[p].pc \notin {"startClean", "exchange"}
    <3>1. CASE Exchange(p)
      BY ZenonT(60), <3>1, <1>h DEF Exchange, Goto, Local
    <3>2. CASE RevokeUnstored(p)
      BY <3>2, <1>h DEF RevokeUnstored, Local
    <3>3. CASE CancelRevoke(p)
      BY <3>3, <1>h DEF CancelRevoke, Local
    <3>4. CASE Refresh(p)
      <4>1. \/ \E usable, gen : h' = [h EXCEPT ![p].pc = "refreshCommit", ![p].ok = usable,
                                               ![p].cred.gen = gen]
            \/ \E ok : h' = [h EXCEPT ![p].pc = "refreshFailed", ![p].ok = ok]
        BY <3>4 DEF Refresh
      <4>2. ASSUME NEW usable, NEW gen,
                   h' = [h EXCEPT ![p].pc = "refreshCommit", ![p].ok = usable, ![p].cred.gen = gen]
            PROVE  h'[p].pc = "refreshCommit"
        BY <4>2, <1>h DEF Local
      <4>3. ASSUME NEW ok, h' = [h EXCEPT ![p].pc = "refreshFailed", ![p].ok = ok]
            PROVE  h'[p].pc = "refreshFailed"
        BY <4>3, <1>h DEF Local
      <4> QED
        BY <4>1, <4>2, <4>3
    <3>5. CASE DisconnectRevoke(p)
      BY <3>5, <1>h DEF DisconnectRevoke, Local
    <3> QED
      BY <1>11, <3>1, <3>2, <3>3, <3>4, <3>5
  <2> QED
    BY <2>1, <2>2 DEF HandlerMove
<1>12. CASE ReadCompletion(p) \/ CancelDecrypt(p) \/ CancelMark(p) \/ AccessDecrypt(p)
            \/ AccessClaim(p) \/ RefreshCommit(p) \/ DisconnectAttempts(p)
            \/ DisconnectDecrypt(p) \/ DisconnectClaim(p)
  <2>1. \A q \in Handlers \ {p} : h'[q] = h[q]
    BY <1>12, <1>h DEF ReadCompletion, CancelDecrypt, CancelMark, AccessDecrypt, AccessClaim,
       RefreshCommit, DisconnectAttempts, DisconnectDecrypt, DisconnectClaim, Goto, Finish
  <2>2. h'[p].pc \notin {"startClean", "exchange"}
    <3>0. Finish(p) => h'[p].pc = "idle"
      BY <1>h DEF Finish, Idle
    <3>1. CASE ReadCompletion(p)
      BY <3>1, <3>0, <1>h DEF ReadCompletion, Goto, Local
    <3>2. CASE CancelDecrypt(p)
      BY <3>2, <3>0, <1>h DEF CancelDecrypt, Local
    <3>3. CASE CancelMark(p)
      BY <3>3, <3>0, <1>h DEF CancelMark, Local
    <3>4. CASE AccessDecrypt(p)
      BY <3>4, <3>0, <1>h DEF AccessDecrypt, Local
    <3>5. CASE AccessClaim(p)
      BY <3>5, <3>0, <1>h DEF AccessClaim, Goto, Local
    <3>6. CASE RefreshCommit(p)
      <4>1. \/ \E row : h' = [h EXCEPT ![p].pc = "grantCheck", ![p].row = row,
                                       ![p].connector = connector, ![p].ok = FALSE]
            \/ h' = [h EXCEPT ![p].pc = "refreshFailed", ![p].ok = FALSE]
            \/ Finish(p)
        BY <3>6 DEF RefreshCommit
      <4>2. ASSUME NEW row, h' = [h EXCEPT ![p].pc = "grantCheck", ![p].row = row,
                                          ![p].connector = connector, ![p].ok = FALSE]
            PROVE  h'[p].pc = "grantCheck"
        BY <4>2, <1>h DEF Local
      <4>3. ASSUME h' = [h EXCEPT ![p].pc = "refreshFailed", ![p].ok = FALSE]
            PROVE  h'[p].pc = "refreshFailed"
        BY <4>3, <1>h DEF Local
      <4> QED
        BY <4>1, <4>2, <4>3, <3>0
    <3>7. CASE DisconnectAttempts(p)
      BY <3>7, <1>h DEF DisconnectAttempts, Local
    <3>8. CASE DisconnectDecrypt(p)
      <4>1. \/ \E creds, ok : h' = [h EXCEPT ![p].pc = "disconnectClaim", ![p].creds = creds,
                                             ![p].ok = ok]
            \/ Finish(p)
        BY <3>8 DEF DisconnectDecrypt
      <4>2. ASSUME NEW creds, NEW ok, h' = [h EXCEPT ![p].pc = "disconnectClaim",
                                                     ![p].creds = creds, ![p].ok = ok]
            PROVE  h'[p].pc = "disconnectClaim"
        BY <4>2, <1>h DEF Local
      <4> QED
        BY <4>1, <4>2, <3>0
    <3>9. CASE DisconnectClaim(p)
      BY ZenonT(60), <3>9, <3>0, <1>h DEF DisconnectClaim, Local
    <3> QED
      BY <1>12, <3>1, <3>2, <3>3, <3>4, <3>5, <3>6, <3>7, <3>8, <3>9
  <2> QED
    BY <2>1, <2>2 DEF HandlerMove
<1> QED
  BY <1>1, <1>2, <1>3, <1>4, <1>5, <1>6, <1>7, <1>8, <1>9, <1>10, <1>11, <1>12
     DEF HandlerBegin, HandlerStep, AuthorizationBegin, AuthorizationStep, UseStep, DisconnectStep

\* Any step: the records of all handlers but the one that runs stay.
LEMMA HandlersMove ==
  ASSUME TypeInv, [Next]_vars
  PROVE  h' = h \/ \E p \in Handlers : HandlerMove(p)
<1>1. CASE UNCHANGED vars
  BY <1>1 DEF vars
<1>2. ASSUME NEW p \in Handlers, HandlerBegin(p) \/ HandlerStep(p) \/ Abort(p)
      PROVE  HandlerMove(p)
  BY <1>2, HandlerMoves
<1>3. CASE Administration \/ Tick \/ Entitle
  BY <1>3 DEF Administration, AdminDelete, DeleteConnector, SaveConnector, Tick, Entitle
<1> QED
  BY <1>1, <1>2, <1>3 DEF Next

--------------------------------------------------------------------------------
\* SnapshotsLag for one remembered row.
Lags(seen, r) == /\ seen.status \in AbandonableStatus
                 /\ seen.status = "AUTHORIZING" => seen.payload
                 /\ seen.status = "CANCELLED" => /\ r.status \in {"CANCELLED", "DELETED"}
                                                 /\ r.payload => seen.payload

\* A snapshot that lags behind an attempt goes on doing so when the attempt moves.
LEMMA LagKept ==
  ASSUME PayloadByStatus, NEW a \in Attempts, AttemptMove(a), NEW seen, Lags(seen, attempts[a])
  PROVE  Lags(seen, attempts'[a])
  BY DEF AttemptMove, Kept, Closed, Created, Sent, Advanced, Retained, Discarded, Lags,
     PayloadByStatus

\* Every step keeps ciphertext, references and snapshots in agreement.
LEMMA CiphertextStep ==
  ASSUME TypeInv, CiphertextInv, [Next]_vars
  PROVE  CiphertextInv'
<1>1. \A a \in Attempts : AttemptMove(a)
  BY AttemptMoves
<1>2. \A c \in Conns : ConnMove(c)
  BY ConnMoves
<1>inv. NoOrphanCiphertext /\ PayloadByStatus /\ SnapshotsLag
  BY DEF CiphertextInv
<1>3. \A c \in Conns : CredentialsIn(c)' <=> ConnExists(conns'[c])
  BY <1>2, <1>inv DEF ConnMove, ConnKept, ConnStored, ConnDeleted, NoOrphanCiphertext,
     CredentialsIn, NoSecret
<1>4. ASSUME NEW a \in Attempts
      PROVE  vault'[a] # NoSecret <=> attempts'[a].payload
  <2>1. attempts[a] \in AttemptRow /\ attempts'[a] \in AttemptRow
    BY TypeInvStep DEF TypeInv
  <2>2. vault[a] # NoSecret <=> attempts[a].payload
    BY <1>inv DEF NoOrphanCiphertext
  <2>3. CASE Kept(a) \/ Closed(a) \/ Retained(a) \/ Sent(a)
    BY <2>2, <2>3 DEF Kept, Closed, Retained, Sent, OAuthPayload, NoSecret
  <2>4. CASE Created(a) \/ Advanced(a)
    BY <1>inv, <2>2, <2>4 DEF Created, Advanced, PayloadByStatus
  <2>5. CASE Discarded(a)
    <3>1. CASE vault'[a] = NoSecret
      BY <2>5, <3>1 DEF Discarded
    <3>2. ASSUME NEW p \in Handlers, h[p].pc = "startClean", a \in h[p].todo,
                 attempts[a].status = h[p].rows[a].status, ~h[p].rows[a].payload,
                 vault'[a] = vault[a]
          PROVE  vault'[a] = NoSecret
      <4>1. Lags(h[p].rows[a], attempts[a])
        BY <1>inv, <3>2 DEF SnapshotsLag, Lags
      <4>2. ~attempts[a].payload
        BY <1>inv, <3>2, <4>1 DEF Lags, AbandonableStatus, PayloadByStatus
      <4> QED
        BY <2>2, <3>2, <4>2
    <3> QED
      BY <2>5, <3>1, <3>2 DEF Discarded
  <2> QED
    BY <1>1, <2>3, <2>4, <2>5 DEF AttemptMove
<1>5. PayloadByStatus'
  BY <1>1, <1>inv DEF AttemptMove, Kept, Closed, Created, Sent, Advanced, Retained, Discarded,
     PayloadByStatus
<1>6. SnapshotsLag'
  <2> SUFFICES ASSUME NEW p \in Handlers, h'[p].pc = "startClean", NEW a \in h'[p].todo
               PROVE  Lags(h'[p].rows[a], attempts'[a])
    BY DEF SnapshotsLag, Lags
  <2>1. ASSUME h[p].pc = "startClean", a \in h[p].todo, h'[p].rows[a] = h[p].rows[a]
        PROVE  Lags(h'[p].rows[a], attempts'[a])
    <3>1. a \in Attempts
      BY <2>1 DEF TypeInv, GoodLocal, Local
    <3>2. Lags(h[p].rows[a], attempts[a])
      BY <1>inv, <2>1 DEF SnapshotsLag, Lags
    <3> QED
      BY <1>1, <1>inv, <2>1, <3>1, <3>2, LagKept
  <2>2. CASE h'[p] = h[p]
    BY <2>1, <2>2
  <2>3. CASE StartRead(p)
    <3> DEFINE found == {b \in Attempts : attempts[b].status \in AbandonableStatus /\ Expired(b)}
               rows == [b \in Attempts |-> IF b \in found THEN attempts[b] ELSE UnusedAttempt]
    <3>1. h'[p].todo = found /\ h'[p].rows = rows /\ attempts' = attempts
      BY <2>3 DEF StartRead, TypeInv, GoodLocal, Local
    <3>2. a \in found
      BY <3>1
    <3>3. h'[p].rows[a] = attempts[a] /\ attempts[a].status \in AbandonableStatus /\ a \in Attempts
      BY <3>1, <3>2
    <3> QED
      BY <1>inv, <3>1, <3>3 DEF Lags, PayloadByStatus
  <2>4. CASE StartClean(p)
    <3>1. PICK b \in h[p].todo : StartClean(p)!(b)
      BY <2>4 DEF StartClean
    <3>2. ~Finish(p)
      BY DEF Finish, Idle, TypeInv
    <3>3. h' = [h EXCEPT ![p].todo = @ \ {b}, ![p].rows = [@ EXCEPT ![b] = UnusedAttempt]]
      BY <3>1, <3>2
    <3>4. h'[p].todo = h[p].todo \ {b} /\ h'[p].rows = [h[p].rows EXCEPT ![b] = UnusedAttempt]
      BY <3>3 DEF TypeInv, GoodLocal, Local
    <3>5. h[p].rows \in [Attempts -> AttemptRow] /\ h[p].todo \subseteq Attempts
      BY DEF TypeInv, GoodLocal, Local
    <3> QED
      BY <2>1, <3>1, <3>4, <3>5
  <2>5. h'[p] = h[p] \/ StartRead(p) \/ StartClean(p)
    BY HandlersMove DEF HandlerMove
  <2> QED
    BY <2>2, <2>3, <2>4, <2>5
<1> QED
  BY <1>3, <1>4, <1>5, <1>6 DEF CiphertextInv, NoOrphanCiphertext

\* An empty database has no ciphertext and no snapshots.
LEMMA CiphertextInit ==
  ASSUME Init
  PROVE  CiphertextInv
  BY IdsDistinct DEF Init, CiphertextInv, NoOrphanCiphertext, PayloadByStatus, SnapshotsLag,
     CredentialsIn, ConnExists, UnusedConn, UnusedAttempt, NoSecret, Idle, Slots

\* Ciphertext lives exactly as long as the row that references it, whatever order
\* cleanup, cancellation, completion, disconnect, deletion and crashes run in.
THEOREM CiphertextLife == Spec => []NoOrphanCiphertext
<1>1. Init => TypeInv /\ CiphertextInv
  BY TypeInvInit, CiphertextInit
<1>2. TypeInv /\ CiphertextInv /\ [Next]_vars => (TypeInv /\ CiphertextInv)'
  BY TypeInvStep, CiphertextStep
<1>3. CiphertextInv => NoOrphanCiphertext
  BY DEF CiphertextInv
<1> QED
  BY <1>1, <1>2, <1>3, PTL DEF Spec

--------------------------------------------------------------------------------
\* No status that cleanup may discard goes with tokens of a grant.
LEMMA AbandonableStep ==
  ASSUME TypeInv, CiphertextInv, AbandonableHoldsNoTokens, [Next]_vars
  PROVE  AbandonableHoldsNoTokens'
<1> SUFFICES ASSUME NEW a \in Attempts, attempts'[a].status \in AbandonableStatus
             PROVE  ~CredentialsIn(a)'
  BY DEF AbandonableHoldsNoTokens
<1>1. attempts[a].status \in AbandonableStatus => vault[a].kind # "credentials"
  BY DEF AbandonableHoldsNoTokens, CredentialsIn
<1>2. NoSecret.kind # "credentials" /\ OAuthPayload.kind # "credentials"
  BY DEF NoSecret, OAuthPayload
<1>3. attempts[a].status = "UNUSED" => vault[a].kind # "credentials"
  BY <1>2 DEF CiphertextInv, NoOrphanCiphertext, PayloadByStatus
<1>4. AttemptMove(a)
  BY AttemptMoves
<1> QED
  BY <1>1, <1>2, <1>3, <1>4 DEF AttemptMove, Kept, Closed, Created, Sent, Advanced, Retained,
     Discarded, AbandonableStatus, CredentialsIn

\* The status by which a cleanup discards an attempt never goes with tokens: what
\* a callback received is never discarded silently.
THEOREM CleanupDiscardsNoTokens == Spec => []AbandonableHoldsNoTokens
<1>1. Init => TypeInv /\ CiphertextInv /\ AbandonableHoldsNoTokens
  <2>1. Init => AbandonableHoldsNoTokens
    BY DEF Init, AbandonableHoldsNoTokens, AbandonableStatus, UnusedAttempt
  <2> QED
    BY <2>1, TypeInvInit, CiphertextInit
<1>2. TypeInv /\ CiphertextInv /\ AbandonableHoldsNoTokens /\ [Next]_vars
        => (TypeInv /\ CiphertextInv /\ AbandonableHoldsNoTokens)'
  BY TypeInvStep, CiphertextStep, AbandonableStep
<1> QED
  BY <1>1, <1>2, PTL DEF Spec
--------------------------------------------------------------------------------
\* What a step may do to the provider's record of who a grant was issued to:
\* nothing, or one handler exchanges the code of its attempt.
IssuedKept(g) == (Issued(g)' <=> Issued(g)) /\ grants'[g].attempt = grants[g].attempt
IssuedBy(p, g) ==
  /\ h[p].pc = "exchange" /\ h'[p].pc # "exchange"
  /\ \A q \in Handlers \ {p} : h'[q] = h[q]
  /\ grants'[g].attempt = h[p].att
  /\ \A d \in Grants \ {g} : IssuedKept(d)
GrantsMove == \/ \A g \in Grants : IssuedKept(g)
              \/ \E p \in Handlers, g \in Grants : IssuedBy(p, g)

\* A step that leaves the provider alone moves no grant.
LEMMA GrantsKept ==
  ASSUME UNCHANGED grants
  PROVE  GrantsMove
  BY DEF GrantsMove, IssuedKept, Issued

\* A revocation issues no grant and changes no grant's attempt.
LEMMA RevokeKeeps ==
  ASSUME TypeInv, NEW c, NEW outcome, RevokeOutcome(c, outcome)
  PROVE  GrantsMove
  BY DEF TypeInv, RevokeOutcome, GrantsMove, IssuedKept, Issued, Grant

\* A handler's step issues at most one grant, by exchanging the code of its attempt.
LEMMA HandlerGrants ==
  ASSUME TypeInv, NEW p \in Handlers, HandlerBegin(p) \/ HandlerStep(p) \/ Abort(p)
  PROVE  GrantsMove
<1>hp. h[p] \in GoodLocal /\ h[p] \in Local /\ h \in [Handlers -> GoodLocal]
  BY DEF TypeInv, GoodLocal
<1>1. CASE \/ StartRead(p) \/ SubmitRead(p) \/ CallbackRead(p) \/ CancelRead(p)
           \/ StartClean(p) \/ StartReady(p) \/ StartCommit(p) \/ StartRefused(p)
           \/ SubmitCommit(p) \/ CallbackClaim(p) \/ ExchangeFailed(p) \/ SealFails(p)
           \/ Retain(p) \/ MarkUnstored(p) \/ ReadCompletion(p) \/ CleanupRequired(p)
           \/ CancelDecrypt(p) \/ CancelMark(p) \/ CancelUnconfirmed(p) \/ CancelFinish(p)
  BY <1>1, GrantsKept DEF StartRead, SubmitRead, CallbackRead, CancelRead, StartClean,
     StartReady, StartCommit, StartRefused, SubmitCommit, CallbackClaim, ExchangeFailed,
     SealFails, Retain, MarkUnstored, ReadCompletion, CleanupRequired, CancelDecrypt,
     CancelMark, CancelUnconfirmed, CancelFinish
<1>2. CASE \/ AccessRead(p) \/ AccessDecrypt(p) \/ AccessClaim(p) \/ RefreshCommit(p)
           \/ RefreshFailed(p) \/ GrantCheck(p) \/ UseCheck(p) \/ Dispatch(p)
           \/ DisconnectRead(p) \/ DisconnectAttempts(p) \/ DisconnectBlock(p)
           \/ DisconnectDecrypt(p) \/ DisconnectClaim(p) \/ DisconnectDelete(p) \/ Abort(p)
  BY <1>2, GrantsKept DEF AccessRead, AccessDecrypt, AccessClaim, RefreshCommit,
     RefreshFailed, GrantCheck, UseCheck, Dispatch, DisconnectRead, DisconnectAttempts,
     DisconnectBlock, DisconnectDecrypt, DisconnectClaim, DisconnectDelete, Abort
<1>3. CASE RevokeUnstored(p) \/ CancelRevoke(p) \/ DisconnectRevoke(p)
  BY <1>3, RevokeKeeps DEF RevokeUnstored, CancelRevoke, DisconnectRevoke
<1>4. CASE Exchange(p)
  <2>1. CASE UNCHANGED grants
    BY <2>1, GrantsKept
  <2>2. ASSUME NEW g \in Grants, NEW answer \in {"received", "rejected"},
               grants' = [grants EXCEPT ![g].status = "active", ![g].attempt = h[p].att,
                                        ![g].gen = 1],
               h' = [h EXCEPT ![p].pc = answer, ![p].cred = [grant |-> g, gen |-> 1]]
        PROVE  GrantsMove
    <3>1. h[p].pc = "exchange"
      BY <1>4 DEF Exchange
    <3>2. h'[p].pc = answer
      BY <1>hp, <2>2 DEF Local
    <3>3. \A q \in Handlers \ {p} : h'[q] = h[q]
      BY <1>hp, <2>2
    <3>4. grants'[g].attempt = h[p].att
      BY <2>2 DEF TypeInv, Grant
    <3>5. \A d \in Grants \ {g} : grants'[d] = grants[d]
      BY <2>2 DEF TypeInv
    <3>6. IssuedBy(p, g)
      BY <3>1, <3>2, <3>3, <3>4, <3>5 DEF IssuedBy, IssuedKept, Issued
    <3> QED
      BY <3>6 DEF GrantsMove
  <2> QED
    BY <1>4, <2>1, <2>2 DEF Exchange
<1>5. CASE CompleteCommit(p)
  <2>1. CASE UNCHANGED grants
    BY <2>1, GrantsKept
  <2>2. ASSUME NEW a, NEW c, NEW version, PutCredentials(p, a, c, version)
        PROVE  GrantsMove
    BY <2>2 DEF PutCredentials, TypeInv, Grant, GrantsMove, IssuedKept, Issued
  <2> QED
    BY <1>5, <2>1, <2>2 DEF CompleteCommit
<1>6. CASE Refresh(p)
  <2> DEFINE g == h[p].cred.grant
             next == grants[g].gen + 1
  <2>1. g \in Grants
    BY <1>6, <1>hp DEF Refresh, GoodLocal, GrantPhases
  <2>2. CASE UNCHANGED grants
    BY <2>2, GrantsKept
  <2>3. CASE grants' = [grants EXCEPT ![g].gen = next, ![g].spent = FALSE]
    <3> HIDE DEF next, g
    <3> QED
      BY <2>1, <2>3 DEF TypeInv, Grant, GrantsMove, IssuedKept, Issued
  <2>4. CASE grants' = [grants EXCEPT ![g].spent = TRUE]
    <3> HIDE DEF g
    <3> QED
      BY <2>1, <2>4 DEF TypeInv, Grant, GrantsMove, IssuedKept, Issued
  <2> QED
    BY <1>6, <2>2, <2>3, <2>4 DEF Refresh
<1> QED
  BY <1>1, <1>2, <1>3, <1>4, <1>5, <1>6 DEF HandlerBegin, HandlerStep, AuthorizationBegin,
     AuthorizationStep, UseStep, DisconnectStep

\* Every step of the system issues at most one grant, by an exchange.
LEMMA GrantsMoves ==
  ASSUME TypeInv, [Next]_vars
  PROVE  GrantsMove
<1>1. CASE UNCHANGED vars
  BY <1>1, GrantsKept DEF vars
<1>2. CASE Administration \/ Tick \/ Entitle
  BY <1>2, GrantsKept DEF Administration, AdminDelete, DeleteConnector, SaveConnector, Tick,
     Entitle
<1> QED
  BY <1>1, <1>2, HandlerGrants DEF Next

\* A code exchange is entered with a state that was still unused, from a claim
\* that uses it up.
LEMMA ClaimMoves ==
  ASSUME TypeInv, NEW p \in Handlers, CallbackClaim(p), h'[p].pc = "exchange"
  PROVE  /\ h'[p].att = h[p].att
         /\ h[p].att \in Attempts
         /\ attempts[h[p].att].status = "AUTHORIZING"
         /\ attempts'[h[p].att].status = "PROCESSING"
         /\ UNCHANGED grants
<1>hp. h[p] \in GoodLocal /\ h[p] \in Local
  BY DEF TypeInv, GoodLocal
<1>1. h[p].att \in Attempts
  BY <1>hp DEF CallbackClaim, GoodLocal, AttemptPhases
<1>2. ~Finish(p)
  BY DEF Finish, Idle, TypeInv
<1>3. /\ Claimable(h[p].att)
      /\ attempts' = [attempts EXCEPT ![h[p].att].status = "PROCESSING", ![h[p].att].state = FALSE]
      /\ Goto(p, "exchange")
      /\ UNCHANGED grants
  BY <1>2 DEF CallbackClaim
<1>4. h'[p].att = h[p].att
  BY <1>3, <1>hp DEF Goto, TypeInv, Local
<1>5. attempts'[h[p].att].status = "PROCESSING"
  BY <1>1, <1>3 DEF TypeInv, AttemptRow
<1> QED
  BY <1>1, <1>3, <1>4, <1>5 DEF Claimable

\* Every step keeps an exchange exclusive: one handler at most runs it, for an attempt without a grant.
LEMMA ExchangeStep ==
  ASSUME TypeInv, ExchangeInv, [Next]_vars
  PROVE  ExchangeInv'
<1>att. \A p \in Handlers : h[p].pc = "exchange" => h[p].att \in Attempts
  BY DEF TypeInv, GoodLocal, AttemptPhases
<1>late. \A a \in Attempts : attempts[a].status \notin EarlyStatus
                               => attempts'[a].status \notin EarlyStatus
  <2>1. \A a \in Attempts : AttemptMove(a)
    BY AttemptMoves
  <2> QED
    BY <2>1 DEF EarlyStatus, AttemptMove, Kept, Closed, Created, Sent, Advanced, Retained,
       Discarded
<1>1. CASE \A g \in Grants : IssuedKept(g)
  <2>1. OneExchangePerAttempt'
    BY <1>1 DEF ExchangeInv, OneExchangePerAttempt, IssuedKept, Issued
  <2>2. \A g \in Grants : Issued(g)' =>
          /\ grants'[g].attempt \in Attempts
          /\ attempts'[grants'[g].attempt].status \notin EarlyStatus
    BY <1>1, <1>late DEF ExchangeInv, IssuedKept
  <2>3. ASSUME NEW p \in Handlers, h'[p].pc = "exchange"
        PROVE  /\ attempts'[h'[p].att].status \notin EarlyStatus
               /\ \A g \in Grants : Issued(g)' => grants'[g].attempt # h'[p].att
               /\ \A q \in Handlers \ {p} : h'[q].pc = "exchange" => h'[q].att # h'[p].att
    <3>1. CASE h' = h
      BY <1>1, <1>att, <1>late, <2>3, <3>1 DEF ExchangeInv, IssuedKept
    <3>2. CASE HandlerMove(p)
      <4>1. CallbackClaim(p)
        BY <2>3, <3>2 DEF HandlerMove
      <4>2. /\ h'[p].att = h[p].att /\ attempts[h[p].att].status = "AUTHORIZING"
            /\ attempts'[h[p].att].status = "PROCESSING"
        BY <2>3, <4>1, ClaimMoves
      <4> QED
        BY <1>1, <3>2, <4>2 DEF HandlerMove, ExchangeInv, IssuedKept, EarlyStatus
    <3>3. ASSUME NEW r \in Handlers \ {p}, HandlerMove(r)
          PROVE  /\ attempts'[h'[p].att].status \notin EarlyStatus
                 /\ \A g \in Grants : Issued(g)' => grants'[g].attempt # h'[p].att
                 /\ \A q \in Handlers \ {p} : h'[q].pc = "exchange" => h'[q].att # h'[p].att
      <4>1. h'[p] = h[p] /\ h[p].pc = "exchange"
        BY <2>3, <3>3 DEF HandlerMove
      <4>2. attempts'[h[p].att].status \notin EarlyStatus
        BY <1>att, <1>late, <4>1 DEF ExchangeInv
      <4>3. \A g \in Grants : Issued(g)' => grants'[g].attempt # h[p].att
        BY <1>1, <4>1 DEF ExchangeInv, IssuedKept
      <4>4. ASSUME NEW q \in Handlers \ {p}, h'[q].pc = "exchange"
            PROVE  h'[q].att # h[p].att
        <5>1. CASE q = r
          <6>1. CallbackClaim(r)
            BY <3>3, <4>4, <5>1 DEF HandlerMove
          <6>2. h'[r].att = h[r].att /\ attempts[h[r].att].status = "AUTHORIZING"
            BY <4>4, <5>1, <6>1, ClaimMoves
          <6> QED
            BY <4>1, <5>1, <6>2 DEF ExchangeInv, EarlyStatus
        <5>2. CASE q # r
          BY <3>3, <4>1, <4>4, <5>2 DEF HandlerMove, ExchangeInv
        <5> QED
          BY <5>1, <5>2
      <4> QED
        BY <4>1, <4>2, <4>3, <4>4
    <3> QED
      BY <3>1, <3>2, <3>3, HandlersMove
  <2> QED
    BY <2>1, <2>2, <2>3 DEF ExchangeInv, Issued
<1>2. ASSUME NEW p \in Handlers, NEW g \in Grants, IssuedBy(p, g)
      PROVE  ExchangeInv'
  <2>1. /\ h[p].pc = "exchange" /\ h'[p].pc # "exchange"
        /\ \A q \in Handlers \ {p} : h'[q] = h[q]
        /\ grants'[g].attempt = h[p].att
        /\ \A d \in Grants \ {g} : IssuedKept(d)
    BY <1>2 DEF IssuedBy
  <2>2. /\ attempts[h[p].att].status \notin EarlyStatus
        /\ h[p].att \in Attempts
        /\ \A d \in Grants : Issued(d) => grants[d].attempt # h[p].att
    BY <1>att, <2>1 DEF ExchangeInv
  <2>3. OneExchangePerAttempt'
    BY <2>1, <2>2 DEF ExchangeInv, OneExchangePerAttempt, IssuedKept, Issued
  <2>4. \A d \in Grants : Issued(d)' =>
          /\ grants'[d].attempt \in Attempts
          /\ attempts'[grants'[d].attempt].status \notin EarlyStatus
    BY <1>late, <2>1, <2>2 DEF ExchangeInv, IssuedKept
  <2>5. ASSUME NEW r \in Handlers, h'[r].pc = "exchange"
        PROVE  /\ attempts'[h'[r].att].status \notin EarlyStatus
               /\ \A d \in Grants : Issued(d)' => grants'[d].attempt # h'[r].att
               /\ \A q \in Handlers \ {r} : h'[q].pc = "exchange" => h'[q].att # h'[r].att
    <3>1. r # p /\ h'[r] = h[r] /\ h[r].pc = "exchange"
      BY <2>1, <2>5
    <3>2. h[r].att # h[p].att
      BY <2>1, <3>1 DEF ExchangeInv
    <3>3. attempts'[h[r].att].status \notin EarlyStatus
      BY <1>att, <1>late, <3>1 DEF ExchangeInv
    <3>4. \A d \in Grants : Issued(d)' => grants'[d].attempt # h[r].att
      BY <2>1, <3>1, <3>2 DEF ExchangeInv, IssuedKept
    <3>5. \A q \in Handlers \ {r} : h'[q].pc = "exchange" => h'[q].att # h[r].att
      BY <2>1, <3>1 DEF ExchangeInv
    <3> QED
      BY <3>1, <3>3, <3>4, <3>5
  <2> QED
    BY <2>3, <2>4, <2>5 DEF ExchangeInv, Issued
<1> QED
  BY <1>1, <1>2, GrantsMoves DEF GrantsMove

\* One attempt exchanges at most one authorization code, however its callback is
\* replayed, raced or interrupted.
THEOREM SingleExchange == Spec => []OneExchangePerAttempt
<1>1. Init => TypeInv /\ ExchangeInv
  <2>1. Init => ExchangeInv
    BY DEF Init, ExchangeInv, OneExchangePerAttempt, Issued, NoGrant, Idle
  <2> QED
    BY <2>1, TypeInvInit
<1>2. TypeInv /\ ExchangeInv /\ [Next]_vars => (TypeInv /\ ExchangeInv)'
  BY TypeInvStep, ExchangeStep
<1>3. ExchangeInv => OneExchangePerAttempt
  BY DEF ExchangeInv
<1> QED
  BY <1>1, <1>2, <1>3, PTL DEF Spec
--------------------------------------------------------------------------------
\* Once a disconnect has blocked a connection, no step of any handler, late or
\* not, makes it usable again.
THEOREM BlockedIsFinal == Spec => BlockedStaysBlocked
<1>1. Init => TypeInv
  BY TypeInvInit
<1>2. TypeInv /\ [Next]_vars => TypeInv'
  BY TypeInvStep
<1>3. TypeInv /\ [Next]_vars => [\A c \in Conns : conns[c].status = "REVOCATION_PENDING" =>
                                   conns'[c].status \in {"REVOCATION_PENDING", "DELETED"}]_vars
  BY ConnMoves DEF ConnMove, StaysBlocked
<1> QED
  BY <1>1, <1>2, <1>3, PTL DEF Spec, BlockedStaysBlocked
--------------------------------------------------------------------------------
(* What becomes of a grant *)

\* The phases in which a handler remembers a connection's row, holds the tokens
\* of a callback, or has claimed a refresh.
CallbackPhases == {"received", "rejected", "retained", "commit", "unstored", "unstoredMark"}
RefreshPhases == {"refresh", "refreshCommit", "refreshFailed"}
CheckPhases == {"grantCheck", "useCheck", "assertCurrent"}
RowPhases == {"accessDecrypt", "accessClaim"} \cup CheckPhases \cup RefreshPhases
DiscPhases == {"disconnectAttempts", "disconnectBlock", "disconnectDecrypt", "disconnectClaim",
               "disconnectRevoke"}
CancelPhases == {"cancelDecrypt", "cancelMark", "cancelRevoke", "cancelFinish"}

Ran(p) == HandlerBegin(p) \/ HandlerStep(p) \/ Abort(p)
--------------------------------------------------------------------------------
\* A handler that ends, or goes on to another phase, keeps the rest of its memory
\* or drops all of it.
LEMMA GotoFields ==
  ASSUME TypeInv, NEW p \in Handlers, NEW pc, Goto(p, pc)
  PROVE  /\ h'[p].pc = pc /\ h'[p].att = h[p].att /\ h'[p].conn = h[p].conn
         /\ h'[p].arow = h[p].arow /\ h'[p].row = h[p].row
         /\ h'[p].connector = h[p].connector /\ h'[p].rows = h[p].rows
         /\ h'[p].creds = h[p].creds /\ h'[p].cred = h[p].cred /\ h'[p].ok = h[p].ok
  BY DEF Goto, TypeInv, GoodLocal, Local

\* A handler that has answered runs nothing.
LEMMA FinishFields ==
  ASSUME TypeInv, NEW p \in Handlers, Finish(p)
  PROVE  h'[p] = Idle /\ h'[p].pc = "idle"
  BY DEF Finish, TypeInv, Idle

\* The phases to which the steps of a handler lead.
LEMMA AuthorizationPhases ==
  ASSUME TypeInv, NEW p \in Handlers
  PROVE  /\ StartRead(p) => h'[p].pc = "startClean"
         /\ StartClean(p) => h'[p].pc \in {"startClean", "idle"}
         /\ StartReady(p) => h'[p].pc = "startCommit"
         /\ StartCommit(p) \/ StartRefused(p) \/ SubmitCommit(p) \/ ExchangeFailed(p)
              \/ MarkUnstored(p) \/ CleanupRequired(p) \/ CancelUnconfirmed(p)
              \/ CancelFinish(p) => h'[p].pc = "idle"
         /\ SubmitRead(p) => h'[p].pc = "submit"
         /\ CallbackRead(p) => h'[p].pc = "claim"
         /\ CallbackClaim(p) => h'[p].pc \in {"exchange", "idle"}
         /\ Exchange(p) => h'[p].pc \in {"exchangeFailed", "received", "rejected"}
         /\ SealFails(p) => h'[p].pc = "unstored"
         /\ Retain(p) => h'[p].pc \in {"retained", "unstored", "idle"}
         /\ RevokeUnstored(p) => h'[p].pc = "unstoredMark"
         /\ ReadCompletion(p) => h'[p].pc \in {"commit", "cleanupRequired", "idle"}
         /\ CompleteCommit(p) => h'[p].pc \in {"cleanupRequired", "idle"}
         /\ CancelRead(p) => h'[p].pc \in {"cancelDecrypt", "cancelFinish"}
         /\ CancelDecrypt(p) => h'[p].pc \in {"cancelMark", "idle"}
         /\ CancelMark(p) => h'[p].pc \in {"cancelRevoke", "cancelFinish", "idle"}
         /\ CancelRevoke(p) => h'[p].pc \in {"cancelUnconfirmed", "cancelFinish"}
<1>h. h \in [Handlers -> GoodLocal] /\ h[p] \in Local
  BY DEF TypeInv, GoodLocal
<1>f. Finish(p) => h'[p].pc = "idle"
  BY FinishFields
<1>g. \A pc : Goto(p, pc) => h'[p].pc = pc
  BY GotoFields
<1>1. StartRead(p) => h'[p].pc = "startClean"
  BY <1>h DEF StartRead, Local
<1>2. StartClean(p) => h'[p].pc \in {"startClean", "idle"}
  <2> SUFFICES ASSUME StartClean(p)
               PROVE  h'[p].pc \in {"startClean", "idle"}
    OBVIOUS
  <2>1. PICK a \in h[p].todo : StartClean(p)!(a)
    BY DEF StartClean
  <2>2. CASE h' = [h EXCEPT ![p].todo = @ \ {a}, ![p].rows = [@ EXCEPT ![a] = UnusedAttempt]]
    BY <1>h, <2>1, <2>2 DEF Local
  <2> QED
    BY <2>1, <2>2, <1>f
<1>3. StartReady(p) => h'[p].pc = "startCommit"
  BY <1>h DEF StartReady, Idle
<1>4. StartCommit(p) \/ StartRefused(p) \/ SubmitCommit(p) \/ ExchangeFailed(p)
        \/ MarkUnstored(p) \/ CleanupRequired(p) \/ CancelUnconfirmed(p)
        \/ CancelFinish(p) => h'[p].pc = "idle"
  BY <1>f DEF StartCommit, StartRefused, SubmitCommit, ExchangeFailed, MarkUnstored,
     CleanupRequired, CancelUnconfirmed, CancelFinish
<1>5. SubmitRead(p) => h'[p].pc = "submit"
  BY <1>h DEF SubmitRead, Local
<1>6. CallbackRead(p) => h'[p].pc = "claim"
  BY <1>h DEF CallbackRead, Local
<1>7. CallbackClaim(p) => h'[p].pc \in {"exchange", "idle"}
  BY <1>f, <1>g DEF CallbackClaim
<1>8. Exchange(p) => h'[p].pc \in {"exchangeFailed", "received", "rejected"}
  BY ZenonT(60), <1>g, <1>h DEF Exchange, Local
<1>9. SealFails(p) => h'[p].pc = "unstored"
  BY <1>g DEF SealFails
<1>10. Retain(p) => h'[p].pc \in {"retained", "unstored", "idle"}
  BY <1>f, <1>g DEF Retain
<1>11. RevokeUnstored(p) => h'[p].pc = "unstoredMark"
  BY <1>h DEF RevokeUnstored, Local
<1>12. ReadCompletion(p) => h'[p].pc \in {"commit", "cleanupRequired", "idle"}
  BY <1>f, <1>g, <1>h DEF ReadCompletion, Local
<1>13. CompleteCommit(p) => h'[p].pc \in {"cleanupRequired", "idle"}
  BY <1>f, <1>g DEF CompleteCommit, PutCredentials
<1>14. CancelRead(p) => h'[p].pc \in {"cancelDecrypt", "cancelFinish"}
  BY <1>h DEF CancelRead, Local
<1>15. CancelDecrypt(p) => h'[p].pc \in {"cancelMark", "idle"}
  BY <1>f, <1>h DEF CancelDecrypt, Local
<1>16. CancelMark(p) => h'[p].pc \in {"cancelRevoke", "cancelFinish", "idle"}
  BY <1>f, <1>h DEF CancelMark, Local
<1>17. CancelRevoke(p) => h'[p].pc \in {"cancelUnconfirmed", "cancelFinish"}
  BY <1>h DEF CancelRevoke, Local
<1> QED
  BY <1>1, <1>2, <1>3, <1>4, <1>5, <1>6, <1>7, <1>8, <1>9, <1>10, <1>11, <1>12, <1>13, <1>14,
     <1>15, <1>16, <1>17

\* The phases to which use and disconnect lead.
LEMMA ConnectionPhases ==
  ASSUME TypeInv, NEW p \in Handlers
  PROVE  /\ AccessRead(p) => h'[p].pc \in {"accessDecrypt", "accessClaim"}
         /\ AccessDecrypt(p) => h'[p].pc \in {"accessClaim", "idle"}
         /\ AccessClaim(p) => h'[p].pc \in {"grantCheck", "refresh", "idle"}
         /\ Refresh(p) => h'[p].pc \in {"refreshCommit", "refreshFailed"}
         /\ RefreshCommit(p) => h'[p].pc \in {"grantCheck", "refreshFailed", "idle"}
         /\ RefreshFailed(p) \/ Dispatch(p) \/ DisconnectBlock(p) \/ DisconnectDelete(p)
              \/ Abort(p) => h'[p].pc = "idle"
         /\ GrantCheck(p) => h'[p].pc \in {"useCheck", "idle"}
         /\ UseCheck(p) => h'[p].pc \in {"assertCurrent", "dispatch", "idle"}
         /\ DisconnectRead(p) => h'[p].pc = "disconnectAttempts"
         /\ DisconnectAttempts(p) => h'[p].pc \in {"disconnectBlock", "disconnectDecrypt"}
         /\ DisconnectDecrypt(p) => h'[p].pc \in {"disconnectClaim", "idle"}
         /\ DisconnectClaim(p) => h'[p].pc \in {"disconnectRevoke", "idle"}
         /\ DisconnectRevoke(p) => h'[p].pc = "disconnectRevoke"
<1>h. h \in [Handlers -> GoodLocal] /\ h[p] \in Local
  BY DEF TypeInv, GoodLocal
<1>f. Finish(p) => h'[p].pc = "idle"
  BY FinishFields
<1>g. \A pc : Goto(p, pc) => h'[p].pc = pc
  BY GotoFields
<1>1. AccessRead(p) => h'[p].pc \in {"accessDecrypt", "accessClaim"}
  BY <1>h DEF AccessRead, Local
<1>2. AccessDecrypt(p) => h'[p].pc \in {"accessClaim", "idle"}
  BY <1>f, <1>h DEF AccessDecrypt, Local
<1>3. AccessClaim(p) => h'[p].pc \in {"grantCheck", "refresh", "idle"}
  BY <1>f, <1>g, <1>h DEF AccessClaim, Local
<1>4. Refresh(p) => h'[p].pc \in {"refreshCommit", "refreshFailed"}
  <2> SUFFICES ASSUME Refresh(p) PROVE h'[p].pc \in {"refreshCommit", "refreshFailed"}
    OBVIOUS
  <2>1. \/ \E usable, gen : h' = [h EXCEPT ![p].pc = "refreshCommit", ![p].ok = usable,
                                           ![p].cred.gen = gen]
        \/ \E ok : h' = [h EXCEPT ![p].pc = "refreshFailed", ![p].ok = ok]
    BY DEF Refresh
  <2>2. ASSUME NEW usable, NEW gen,
               h' = [h EXCEPT ![p].pc = "refreshCommit", ![p].ok = usable, ![p].cred.gen = gen]
        PROVE  h'[p].pc = "refreshCommit"
    BY <2>2, <1>h DEF Local
  <2>3. ASSUME NEW ok, h' = [h EXCEPT ![p].pc = "refreshFailed", ![p].ok = ok]
        PROVE  h'[p].pc = "refreshFailed"
    BY <2>3, <1>h DEF Local
  <2> QED
    BY <2>1, <2>2, <2>3
<1>5. RefreshCommit(p) => h'[p].pc \in {"grantCheck", "refreshFailed", "idle"}
  <2> SUFFICES ASSUME RefreshCommit(p)
               PROVE  h'[p].pc \in {"grantCheck", "refreshFailed", "idle"}
    OBVIOUS
  <2>1. \/ \E row : h' = [h EXCEPT ![p].pc = "grantCheck", ![p].row = row,
                                   ![p].connector = connector, ![p].ok = FALSE]
        \/ h' = [h EXCEPT ![p].pc = "refreshFailed", ![p].ok = FALSE]
        \/ Finish(p)
    BY DEF RefreshCommit
  <2>2. ASSUME NEW row, h' = [h EXCEPT ![p].pc = "grantCheck", ![p].row = row,
                                      ![p].connector = connector, ![p].ok = FALSE]
        PROVE  h'[p].pc = "grantCheck"
    BY <2>2, <1>h DEF Local
  <2>3. ASSUME h' = [h EXCEPT ![p].pc = "refreshFailed", ![p].ok = FALSE]
        PROVE  h'[p].pc = "refreshFailed"
    BY <2>3, <1>h DEF Local
  <2> QED
    BY <2>1, <2>2, <2>3, <1>f
<1>6. RefreshFailed(p) \/ Dispatch(p) \/ DisconnectBlock(p) \/ DisconnectDelete(p)
        \/ Abort(p) => h'[p].pc = "idle"
  BY <1>f DEF RefreshFailed, Dispatch, DisconnectBlock, DisconnectDelete, Abort
<1>7. GrantCheck(p) => h'[p].pc \in {"useCheck", "idle"}
  BY <1>f, <1>g DEF GrantCheck
<1>8. UseCheck(p) => h'[p].pc \in {"assertCurrent", "dispatch", "idle"}
  BY <1>f, <1>g DEF UseCheck
<1>9. DisconnectRead(p) => h'[p].pc = "disconnectAttempts"
  BY <1>h DEF DisconnectRead, Local
<1>10. DisconnectAttempts(p) => h'[p].pc \in {"disconnectBlock", "disconnectDecrypt"}
  BY <1>h DEF DisconnectAttempts, Local
<1>11. DisconnectDecrypt(p) => h'[p].pc \in {"disconnectClaim", "idle"}
  <2> SUFFICES ASSUME DisconnectDecrypt(p) PROVE h'[p].pc \in {"disconnectClaim", "idle"}
    OBVIOUS
  <2>1. \/ \E creds, ok : h' = [h EXCEPT ![p].pc = "disconnectClaim", ![p].creds = creds,
                                         ![p].ok = ok]
        \/ Finish(p)
    BY DEF DisconnectDecrypt
  <2>2. ASSUME NEW creds, NEW ok, h' = [h EXCEPT ![p].pc = "disconnectClaim",
                                                 ![p].creds = creds, ![p].ok = ok]
        PROVE  h'[p].pc = "disconnectClaim"
    BY <2>2, <1>h DEF Local
  <2> QED
    BY <2>1, <2>2, <1>f
<1>12. DisconnectClaim(p) => h'[p].pc \in {"disconnectRevoke", "idle"}
  <2> SUFFICES ASSUME DisconnectClaim(p) PROVE h'[p].pc \in {"disconnectRevoke", "idle"}
    OBVIOUS
  <2>1. \/ \E row, rows : h' = [h EXCEPT ![p].pc = "disconnectRevoke", ![p].row = row,
                                          ![p].rows = rows]
        \/ Finish(p)
    BY DEF DisconnectClaim
  <2>2. ASSUME NEW row, NEW rows, h' = [h EXCEPT ![p].pc = "disconnectRevoke",
                                                 ![p].row = row, ![p].rows = rows]
        PROVE  h'[p].pc = "disconnectRevoke"
    BY <2>2, <1>h DEF Local
  <2> QED
    BY <2>1, <2>2, <1>f
<1>13. DisconnectRevoke(p) => h'[p].pc = "disconnectRevoke"
  BY <1>h DEF DisconnectRevoke, Local
<1> QED
  BY <1>1, <1>2, <1>3, <1>4, <1>5, <1>6, <1>7, <1>8, <1>9, <1>10, <1>11, <1>12, <1>13

\* Which steps lead a handler into the phases that the invariants below speak of.
EntersRow(p) == AccessRead(p) \/ AccessDecrypt(p) \/ AccessClaim(p) \/ Refresh(p)
                \/ RefreshCommit(p) \/ GrantCheck(p) \/ UseCheck(p)
EntersOwner(p) == CallbackClaim(p) \/ Exchange(p) \/ SealFails(p) \/ Retain(p)
                  \/ RevokeUnstored(p) \/ ReadCompletion(p)
EntersDisconnect(p) == DisconnectRead(p) \/ DisconnectAttempts(p) \/ DisconnectDecrypt(p)
                       \/ DisconnectClaim(p) \/ DisconnectRevoke(p)
EntersCancel(p) == CancelRead(p) \/ CancelDecrypt(p) \/ CancelMark(p) \/ CancelRevoke(p)

\* A handler whose memory changes has run, and entered its phase by one of these.
LEMMA Entered ==
  ASSUME TypeInv, [Next]_vars, NEW p \in Handlers, h'[p] # h[p]
  PROVE  /\ Ran(p)
         /\ \A q \in Handlers \ {p} : h'[q] = h[q]
         /\ h'[p].pc \in RowPhases => EntersRow(p)
         /\ h'[p].pc \in CallbackPhases \cup {"exchange", "exchangeFailed"} => EntersOwner(p)
         /\ h'[p].pc \in DiscPhases => EntersDisconnect(p)
         /\ h'[p].pc \in CancelPhases => EntersCancel(p)
         /\ h'[p].pc = "dispatch" => UseCheck(p)
<1>1. ~UNCHANGED vars /\ ~(Administration \/ Tick \/ Entitle)
  BY DEF vars, Administration, AdminDelete, DeleteConnector, SaveConnector, Tick, Entitle
<1>2. PICK q \in Handlers : Ran(q)
  BY <1>1 DEF Next, Ran
<1>3. \A r \in Handlers \ {q} : h'[r] = h[r]
  BY <1>2, HandlerMoves DEF HandlerMove, Ran
<1>4. q = p
  BY <1>3
<1>5. CASE AuthorizationBegin(p) \/ AuthorizationStep(p)
  <2>1. h'[p].pc \notin RowPhases \cup DiscPhases \cup {"dispatch"}
    BY <1>5, AuthorizationPhases DEF AuthorizationBegin, AuthorizationStep, RowPhases,
       CheckPhases, RefreshPhases, DiscPhases
  <2>2. h'[p].pc \in CallbackPhases \cup {"exchange", "exchangeFailed"} => EntersOwner(p)
    BY <1>5, AuthorizationPhases DEF AuthorizationBegin, AuthorizationStep, CallbackPhases,
       EntersOwner
  <2>3. h'[p].pc \in CancelPhases => EntersCancel(p)
    BY <1>5, AuthorizationPhases DEF AuthorizationBegin, AuthorizationStep, CancelPhases,
       EntersCancel
  <2> QED
    BY <1>2, <1>3, <1>4, <2>1, <2>2, <2>3
<1>6. CASE AccessRead(p) \/ UseStep(p) \/ DisconnectRead(p) \/ DisconnectStep(p) \/ Abort(p)
  <2>1. h'[p].pc \notin CallbackPhases \cup {"exchange", "exchangeFailed"} \cup CancelPhases
    BY <1>6, ConnectionPhases DEF UseStep, DisconnectStep, CallbackPhases, CancelPhases
  <2>2. h'[p].pc \in RowPhases => EntersRow(p)
    BY <1>6, ConnectionPhases DEF UseStep, DisconnectStep, EntersRow, RowPhases, CheckPhases,
       RefreshPhases
  <2>3. h'[p].pc \in DiscPhases => EntersDisconnect(p)
    BY <1>6, ConnectionPhases DEF UseStep, DisconnectStep, EntersDisconnect, DiscPhases
  <2>4. h'[p].pc = "dispatch" => UseCheck(p)
    BY <1>6, ConnectionPhases DEF UseStep, DisconnectStep
  <2> QED
    BY <1>2, <1>3, <1>4, <2>1, <2>2, <2>3, <2>4
<1> QED
  BY <1>2, <1>4, <1>5, <1>6 DEF Ran, HandlerBegin, HandlerStep
--------------------------------------------------------------------------------
\* What a step may do to a connection's row together with its value: nothing, a
\* completed authorization, a refresh claim with its two ends, a status from which
\* only a reconnect or a deletion leads on, or a deletion.
RowSame(c) == conns'[c] = conns[c] /\ vault'[c] = vault[c]
Newer(c) == conns'[c].version = conns[c].version + 1
PutInto(p, c) ==
  /\ h[p].pc = "commit" /\ h'[p].pc = "idle"
  /\ conns[c].status = "UNUSED" \/ (Reconnectable(conns[c]) /\ Newer(c))
  /\ conns'[c].status = "READY" /\ conns'[c].refreshBy = None
  /\ vault'[c] = Sealed(h[p].cred)
  /\ grants'[h[p].cred.grant].home = c
ClaimedBy(p, c) ==
  /\ h[p].pc = "accessClaim" /\ h'[p].pc = "refresh" /\ h[p].conn = c
  /\ conns[c].status = "READY" /\ conns[c] = h[p].row
  /\ conns'[c].status = "REFRESHING" /\ conns'[c].refreshBy = p /\ Newer(c)
  /\ vault'[c] = vault[c]
RotatedBy(p, c) ==
  /\ h[p].pc = "refreshCommit" /\ h'[p].pc # "refreshCommit" /\ h[p].conn = c
  /\ \/ /\ conns[c].status = "REVOCATION_PENDING" /\ conns[c].refreshBy = p
        /\ conns'[c].status = "REVOCATION_PENDING"
     \/ /\ conns[c].status = "REFRESHING" /\ conns[c].version = h[p].row.version
        /\ conns'[c].status \in {"READY", "RECONNECT_REQUIRED"}
  /\ conns'[c].refreshBy = None /\ Newer(c)
  /\ vault'[c] = Sealed(h[p].cred)
ReleasedBy(p, c) ==
  /\ h[p].pc = "refreshFailed" /\ h'[p].pc = "idle" /\ h[p].conn = c
  /\ conns[c].status = "REFRESHING" /\ conns[c].version = h[p].row.version
  /\ conns'[c].status = StatusAfterFailure(h[p].ok)
  /\ conns'[c].refreshBy = None /\ Newer(c)
  /\ vault'[c] = vault[c]
RowStopped(c) ==
  /\ ConnExists(conns[c])
  /\ conns'[c].status \in {"RECONNECT_REQUIRED", "REVOCATION_PENDING"}
  /\ conns'[c].refreshBy = conns[c].refreshBy /\ Newer(c)
  /\ vault'[c] = vault[c]
RowDeleted(c) == conns'[c] = DeletedConn /\ vault'[c] = NoSecret
RowMove(c) ==
  \/ RowSame(c) \/ RowStopped(c) \/ RowDeleted(c)
  \/ \E p \in Handlers : PutInto(p, c) \/ ClaimedBy(p, c) \/ RotatedBy(p, c) \/ ReleasedBy(p, c)

\* A step that leaves connections and their values alone moves no row.
LEMMA RowsSame ==
  ASSUME UNCHANGED conns, \A c \in Conns : vault'[c] = vault[c]
  PROVE  \A c \in Conns : RowMove(c)
  BY DEF RowMove, RowSame

\* Stopping one connection is a move, and the others stay.
LEMMA StopMoves ==
  ASSUME TypeInv, UNCHANGED vault, NEW c \in Conns, ConnExists(conns[c]), NEW r \in ConnRow,
         r.status \in {"RECONNECT_REQUIRED", "REVOCATION_PENDING"},
         r.refreshBy = conns[c].refreshBy, r.version = conns[c].version + 1,
         conns' = [conns EXCEPT ![c] = r]
  PROVE  \A d \in Conns : RowMove(d)
<1>1. conns'[c] = r
  BY DEF TypeInv
<1>2. RowStopped(c)
  BY <1>1 DEF RowStopped, Newer
<1>3. \A d \in Conns \ {c} : RowSame(d)
  BY DEF TypeInv, RowSame
<1> QED
  BY <1>2, <1>3 DEF RowMove

\* Every step of setup, callback and cancel moves each row in one of these ways.
LEMMA AuthorizationRows ==
  ASSUME TypeInv, NEW p \in Handlers, AuthorizationBegin(p) \/ AuthorizationStep(p)
  PROVE  \A c \in Conns : RowMove(c)
<1>hp. h[p] \in GoodLocal /\ h[p] \in Local
  BY DEF TypeInv, GoodLocal
<1>att. h[p].pc \in AttemptPhases => h[p].att \in Attempts
  BY <1>hp DEF GoodLocal
<1>1. CASE StartRead(p) \/ StartReady(p) \/ StartCommit(p) \/ StartRefused(p) \/ SubmitRead(p)
           \/ CallbackRead(p) \/ Exchange(p) \/ SealFails(p) \/ RevokeUnstored(p)
           \/ ReadCompletion(p) \/ CleanupRequired(p) \/ CancelRead(p) \/ CancelDecrypt(p)
           \/ CancelMark(p) \/ CancelRevoke(p) \/ CancelUnconfirmed(p)
  <2>1. UNCHANGED <<conns, vault>>
    BY <1>1 DEF StartRead, StartReady, StartCommit, StartRefused, SubmitRead, CallbackRead,
       Exchange, SealFails, RevokeUnstored, ReadCompletion, CleanupRequired, CancelRead,
       CancelDecrypt, CancelMark, CancelRevoke, CancelUnconfirmed
  <2> QED
    BY <2>1, RowsSame
<1>2. CASE StartClean(p)
  <2>1. PICK a \in h[p].todo : StartClean(p)!(a)
    BY <1>2 DEF StartClean
  <2>2. a \in Attempts
    BY <1>hp DEF Local
  <2>3. vault' = vault \/ vault' = [vault EXCEPT ![a] = NoSecret]
    BY <2>1
  <2>4. UNCHANGED conns
    BY <2>1
  <2> QED
    BY <2>2, <2>3, <2>4, ValuesOfAttempts, RowsSame
<1>3. CASE SubmitCommit(p) \/ CallbackClaim(p) \/ ExchangeFailed(p) \/ Retain(p)
           \/ MarkUnstored(p) \/ CancelFinish(p)
  <2>1. h[p].att \in Attempts
    BY <1>3, <1>att DEF SubmitCommit, CallbackClaim, ExchangeFailed, Retain, MarkUnstored,
       CancelFinish, AttemptPhases
  <2>2. vault' = vault \/ \E v : vault' = [vault EXCEPT ![h[p].att] = v]
    BY <1>3 DEF SubmitCommit, CallbackClaim, ExchangeFailed, Retain, MarkUnstored,
       CancelFinish, CloseAttempt
  <2>3. UNCHANGED conns
    BY <1>3 DEF SubmitCommit, CallbackClaim, ExchangeFailed, Retain, MarkUnstored, CancelFinish
  <2> QED
    BY <2>1, <2>2, <2>3, ValuesOfAttempts, RowsSame
<1>4. CASE CompleteCommit(p)
  <2> DEFINE a == h[p].att
  <2>1. a \in Attempts /\ h[p].pc = "commit"
    BY <1>4, <1>att DEF CompleteCommit, AttemptPhases
  <2>2. ASSUME NEW c \in Conns, NEW version, PutCredentials(p, a, c, version),
               conns[c].status = "UNUSED" \/ (Reconnectable(conns[c]) /\ version = conns[c].version)
        PROVE  \A d \in Conns : RowMove(d)
    <3> HIDE DEF a
    <3>1. a # c /\ a \in Slots /\ c \in Slots
      BY <2>1, IdsDistinct DEF Slots
    <3>2. /\ conns'[c].status = "READY" /\ conns'[c].refreshBy = None
          /\ conns'[c].version = version + 1
      BY <2>2 DEF TypeInv, PutCredentials
    <3>3. vault'[c] = Sealed(h[p].cred)
      BY <2>2, <3>1 DEF TypeInv, PutCredentials
    <3>4. h'[p].pc = "idle"
      BY <2>2, FinishFields DEF PutCredentials
    <3>home. grants'[h[p].cred.grant].home = c
      <4>1. h[p].cred.grant \in Grants
        BY <2>1, <1>hp DEF GoodLocal, GrantPhases
      <4> QED
        BY <2>2, <4>1 DEF PutCredentials, TypeInv, Grant
    <3>5. PutInto(p, c)
      BY <2>1, <2>2, <3>2, <3>3, <3>4, <3>home DEF PutInto, Newer
    <3>6. \A d \in Conns \ {c} : vault'[d] = vault[d]
      BY <2>1, <2>2, <3>1, IdsDistinct DEF TypeInv, PutCredentials, Slots
    <3>7. \A d \in Conns \ {c} : RowSame(d)
      BY <2>2, <3>6 DEF TypeInv, PutCredentials, RowSame
    <3> QED
      BY <3>5, <3>7 DEF RowMove
  <2>3. CASE UNCHANGED <<conns, vault>>
    BY <2>3, RowsSame
  <2>4. CASE /\ Completable(a)
             /\ attempts[a].conn # None
             /\ PutCredentials(p, a, attempts[a].conn, conns[attempts[a].conn].version)
    <3>1. attempts[a].conn \in Conns
      BY <2>1, <2>4 DEF TypeInv, AttemptRow
    <3>2. Reconnectable(conns[attempts[a].conn])
      BY <2>4 DEF Completable
    <3> QED
      BY <2>2, <2>4, <3>1, <3>2
  <2>5. ASSUME NEW c \in Conns, conns[c].status = "UNUSED", PutCredentials(p, a, c, 1)
        PROVE  \A d \in Conns : RowMove(d)
    BY <2>2, <2>5
  <2> QED
    BY <1>4, <2>3, <2>4, <2>5 DEF CompleteCommit
<1> QED
  BY <1>1, <1>2, <1>3, <1>4 DEF AuthorizationBegin, AuthorizationStep

\* Every step of use and refresh moves each row in one of these ways.
LEMMA UseRows ==
  ASSUME TypeInv, NEW p \in Handlers, AccessRead(p) \/ UseStep(p)
  PROVE  \A c \in Conns : RowMove(c)
<1>hp. h[p] \in GoodLocal /\ h[p] \in Local
  BY DEF TypeInv, GoodLocal
<1>conn. h[p].pc \in ConnPhases => h[p].conn \in Conns
  BY <1>hp DEF GoodLocal
<1>1. CASE AccessRead(p) \/ AccessDecrypt(p) \/ Refresh(p) \/ UseCheck(p) \/ Dispatch(p)
  <2>1. UNCHANGED <<conns, vault>>
    BY <1>1 DEF AccessRead, AccessDecrypt, Refresh, UseCheck, Dispatch
  <2> QED
    BY <2>1, RowsSame
<1> DEFINE c == h[p].conn
<1>2. CASE AccessClaim(p)
  <2>1. c \in Conns /\ h[p].pc = "accessClaim" /\ vault' = vault
    BY <1>2, <1>conn DEF AccessClaim, ConnPhases
  <2>2. CASE UNCHANGED conns
    BY <2>1, <2>2, RowsSame
  <2>row. conns[c] \in ConnRow /\ conns[c].version + 1 \in Nat
    BY <2>1 DEF TypeInv, ConnRow
  <2> DEFINE claimed == [conns[c] EXCEPT !.status = "REFRESHING", !.refreshBy = p,
                                         !.version = @ + 1]
  <2>3. CASE /\ conns[c].status = "READY" /\ Unchanged(p)
             /\ conns' = [conns EXCEPT ![c] = claimed]
             /\ h' = [h EXCEPT ![p].pc = "refresh", ![p].row = claimed]
    <3>1. /\ claimed.status = "REFRESHING" /\ claimed.refreshBy = p
          /\ claimed.version = conns[c].version + 1
      BY <2>row DEF ConnRow
    <3> HIDE DEF claimed
    <3>2. conns'[c] = claimed
      BY <2>1, <2>3 DEF TypeInv
    <3>3. h'[p].pc = "refresh"
      BY <2>3, <1>hp DEF TypeInv, Local
    <3>4. ClaimedBy(p, c)
      BY <2>1, <2>3, <3>1, <3>2, <3>3 DEF ClaimedBy, Newer, Unchanged
    <3>5. \A d \in Conns \ {c} : RowSame(d)
      BY <2>1, <2>3 DEF TypeInv, RowSame
    <3> QED
      BY <3>4, <3>5 DEF RowMove
  <2>4. CASE Usable(c) /\ conns' = [conns EXCEPT ![c].status = "RECONNECT_REQUIRED",
                                                 ![c].version = @ + 1]
    <3>1. ConnExists(conns[c])
      BY <2>4 DEF Usable, ConnExists
    <3> DEFINE r == [conns[c] EXCEPT !.status = "RECONNECT_REQUIRED", !.version = @ + 1]
    <3>2. conns' = [conns EXCEPT ![c] = r]
      BY <2>4 DEF TypeInv
    <3>3. /\ r.status = "RECONNECT_REQUIRED" /\ r.refreshBy = conns[c].refreshBy
          /\ r.version = conns[c].version + 1 /\ r \in ConnRow
      BY <2>row DEF ConnRow, ConnStatus
    <3> HIDE DEF c, r
    <3> QED
      BY <2>1, <3>1, <3>2, <3>3, StopMoves
  <2> QED
    BY <1>2, <2>2, <2>3, <2>4 DEF AccessClaim
<1>3. CASE RefreshCommit(p)
  <2>1. c \in Conns /\ c \in Slots /\ h[p].pc = "refreshCommit"
    BY <1>3, <1>conn DEF RefreshCommit, ConnPhases, Slots
  <2> DEFINE r == conns[c]
             pending == r.status = "REVOCATION_PENDING" /\ r.refreshBy = p
             claimed == r.status = "REFRESHING" /\ r.version = h[p].row.version
             usable == /\ h[p].ok
                       /\ connector.enabled
                       /\ connector.version = h[p].connector.version
             next == [r EXCEPT !.refreshBy = None, !.version = @ + 1,
                        !.status = StatusAfterRefresh(pending, usable)]
  <2>2. CASE /\ pending \/ claimed
             /\ conns' = [conns EXCEPT ![c] = next]
             /\ vault' = [vault EXCEPT ![c] = Sealed(h[p].cred)]
    <3>1. r \in ConnRow
      BY <2>1 DEF TypeInv
    <3>2. /\ next.status = StatusAfterRefresh(pending, usable)
          /\ next.refreshBy = None /\ next.version = r.version + 1
      BY <3>1 DEF ConnRow
    <3>3. \/ pending /\ next.status = "REVOCATION_PENDING"
          \/ claimed /\ next.status \in {"READY", "RECONNECT_REQUIRED"}
      BY <2>2, <3>2 DEF StatusAfterRefresh
    <3> HIDE DEF next
    <3>4. conns'[c] = next /\ vault'[c] = Sealed(h[p].cred)
      BY <2>1, <2>2 DEF TypeInv
    <3>5. \A d \in Conns \ {c} : RowSame(d)
      BY <2>1, <2>2 DEF TypeInv, Slots, RowSame
    <3>phase. h'[p].pc # "refreshCommit"
      BY <1>3, ConnectionPhases
    <3>6. RotatedBy(p, c)
      BY <3>phase, <2>1, <3>2, <3>3, <3>4 DEF RotatedBy, Newer
    <3> QED
      BY <3>5, <3>6 DEF RowMove
  <2>3. CASE UNCHANGED <<conns, vault>>
    BY <2>3, RowsSame
  <2> QED
    BY <1>3, <2>2, <2>3 DEF RefreshCommit
<1>4. CASE RefreshFailed(p)
  <2>1. c \in Conns /\ h[p].pc = "refreshFailed" /\ vault' = vault
    BY <1>4, <1>conn DEF RefreshFailed, ConnPhases
  <2> DEFINE next == [conns[c] EXCEPT !.status = StatusAfterFailure(h[p].ok),
                                      !.refreshBy = None, !.version = @ + 1]
  <2>2. CASE /\ conns[c].status = "REFRESHING" /\ conns[c].version = h[p].row.version
             /\ conns' = [conns EXCEPT ![c] = next]
    <3>1. conns[c] \in ConnRow
      BY <2>1 DEF TypeInv
    <3>2. /\ next.status = StatusAfterFailure(h[p].ok) /\ next.refreshBy = None
          /\ next.version = conns[c].version + 1
      BY <3>1 DEF ConnRow
    <3> HIDE DEF next
    <3>3. conns'[c] = next
      BY <2>1, <2>2 DEF TypeInv
    <3>phase. h'[p].pc = "idle"
      BY <1>4, ConnectionPhases
    <3>4. ReleasedBy(p, c)
      BY <3>phase, <2>1, <2>2, <3>2, <3>3 DEF ReleasedBy, Newer
    <3>5. \A d \in Conns \ {c} : RowSame(d)
      BY <2>1, <2>2 DEF TypeInv, RowSame
    <3> QED
      BY <3>4, <3>5 DEF RowMove
  <2>3. CASE UNCHANGED conns
    BY <2>1, <2>3, RowsSame
  <2> QED
    BY <1>4, <2>2, <2>3 DEF RefreshFailed
<1>5. CASE GrantCheck(p)
  <2>1. c \in Conns /\ vault' = vault
    BY <1>5, <1>conn DEF GrantCheck, ConnPhases
  <2>2. CASE /\ conns[c].status = "READY"
             /\ conns' = [conns EXCEPT ![c].status = "RECONNECT_REQUIRED", ![c].version = @ + 1]
    <3>1. ConnExists(conns[c])
      BY <2>2 DEF ConnExists
    <3> DEFINE r == [conns[c] EXCEPT !.status = "RECONNECT_REQUIRED", !.version = @ + 1]
    <3>2. conns' = [conns EXCEPT ![c] = r]
      BY <2>2 DEF TypeInv
    <3>3. conns[c] \in ConnRow /\ conns[c].version + 1 \in Nat
      BY <2>1 DEF TypeInv, ConnRow
    <3>4. /\ r.status = "RECONNECT_REQUIRED" /\ r.refreshBy = conns[c].refreshBy
          /\ r.version = conns[c].version + 1 /\ r \in ConnRow
      BY <3>3 DEF ConnStatus, ConnRow
    <3> HIDE DEF c, r
    <3> QED
      BY <2>1, <3>1, <3>2, <3>4, StopMoves
  <2>3. CASE UNCHANGED conns
    BY <2>1, <2>3, RowsSame
  <2> QED
    BY <1>5, <2>2, <2>3 DEF GrantCheck
<1> QED
  BY <1>1, <1>2, <1>3, <1>4, <1>5 DEF UseStep

\* Deleting connections with their values is a move of each.
LEMMA DeletionRows ==
  ASSUME TypeInv, NEW cs \in SUBSET Conns, NEW as \in SUBSET Attempts,
         conns' = [c \in Conns |-> IF c \in cs THEN DeletedConn ELSE conns[c]],
         vault' = [s \in Slots |-> IF s \in cs \cup as THEN NoSecret ELSE vault[s]]
  PROVE  \A c \in Conns : RowMove(c)
<1>1. ASSUME NEW c \in Conns
      PROVE  RowMove(c)
  <2>1. c \in Slots /\ c \notin as
    BY IdsDistinct DEF Slots
  <2>2. CASE c \in cs
    BY <2>1, <2>2 DEF RowMove, RowDeleted
  <2>3. CASE c \notin cs
    BY <2>1, <2>3 DEF RowMove, RowSame
  <2> QED
    BY <2>2, <2>3
<1> QED
  BY <1>1

\* Every step of a disconnect moves each row in one of these ways.
LEMMA DisconnectRows ==
  ASSUME TypeInv, NEW p \in Handlers, DisconnectRead(p) \/ DisconnectStep(p)
  PROVE  \A c \in Conns : RowMove(c)
<1>hp. h[p] \in GoodLocal
  BY DEF TypeInv
<1> DEFINE c == h[p].conn
<1>1. CASE DisconnectRead(p) \/ DisconnectAttempts(p) \/ DisconnectDecrypt(p)
           \/ DisconnectRevoke(p)
  <2>1. UNCHANGED <<conns, vault>>
    BY <1>1 DEF DisconnectRead, DisconnectAttempts, DisconnectDecrypt, DisconnectRevoke
  <2> QED
    BY <2>1, RowsSame
<1>2. CASE DisconnectBlock(p) \/ DisconnectClaim(p)
  <2>1. c \in Conns /\ ConnExists(h[p].row) /\ vault' = vault
    BY <1>2, <1>hp DEF DisconnectBlock, DisconnectClaim, GoodLocal, ConnPhases, DisconnectPhases
  <2>2. CASE UNCHANGED conns
    BY <2>1, <2>2, RowsSame
  <2>3. CASE Same(p) /\ conns' = [conns EXCEPT ![c] = Blocked(@)]
    <3>1. ConnExists(conns[c])
      BY <2>1, <2>3 DEF Same
    <3> DEFINE r == Blocked(conns[c])
    <3>2. conns' = [conns EXCEPT ![c] = r]
      BY <2>3
    <3>3. conns[c] \in ConnRow /\ conns[c].version + 1 \in Nat
      BY <2>1 DEF TypeInv, ConnRow
    <3>4. /\ r.status = "REVOCATION_PENDING" /\ r.refreshBy = conns[c].refreshBy
          /\ r.version = conns[c].version + 1 /\ r \in ConnRow
      BY <3>3 DEF ConnStatus, ConnRow, Blocked
    <3> HIDE DEF c, r
    <3> QED
      BY <2>1, <3>1, <3>2, <3>4, StopMoves
  <2> QED
    BY <1>2, <2>2, <2>3 DEF DisconnectBlock, DisconnectClaim
<1>3. CASE DisconnectDelete(p)
  <2>1. c \in Conns
    BY <1>3, <1>hp DEF DisconnectDelete, GoodLocal, ConnPhases
  <2>2. CASE UNCHANGED <<conns, vault>>
    BY <2>2, RowsSame
  <2> DEFINE mine == {a \in Attempts : AttemptExists(h[p].rows[a])}
  <2>3. CASE /\ conns' = [conns EXCEPT ![c] = DeletedConn]
             /\ vault' = [s \in Slots |-> IF s \in mine \cup {c} THEN NoSecret ELSE vault[s]]
    <3>1. {c} \in SUBSET Conns /\ mine \in SUBSET Attempts
      BY <2>1
    <3>2. conns' = [d \in Conns |-> IF d \in {c} THEN DeletedConn ELSE conns[d]]
      BY <2>1, <2>3 DEF TypeInv
    <3>3. vault' = [s \in Slots |-> IF s \in {c} \cup mine THEN NoSecret ELSE vault[s]]
      BY <2>3
    <3> HIDE DEF mine, c
    <3> QED
      BY <3>1, <3>2, <3>3, DeletionRows
  <2> QED
    BY <1>3, <2>2, <2>3 DEF DisconnectDelete
<1> QED
  BY <1>1, <1>2, <1>3 DEF DisconnectStep

\* Every step of the system moves each connection's row in one of the ways listed.
LEMMA RowMoves ==
  ASSUME TypeInv, [Next]_vars
  PROVE  \A c \in Conns : RowMove(c)
<1>1. CASE UNCHANGED vars
  BY <1>1, RowsSame DEF vars
<1>2. ASSUME NEW p \in Handlers, HandlerBegin(p) \/ HandlerStep(p)
      PROVE  \A c \in Conns : RowMove(c)
  BY <1>2, AuthorizationRows, UseRows, DisconnectRows DEF HandlerBegin, HandlerStep
<1>3. CASE (\E p \in Handlers : Abort(p)) \/ SaveConnector \/ Tick \/ Entitle
  BY <1>3, RowsSame DEF Abort, SaveConnector, Tick, Entitle
<1>4. CASE AdminDelete
  <2>1. PICK c \in Conns : DeleteState({c}, AttemptsOf(c))
    BY <1>4 DEF AdminDelete
  <2>2. {c} \in SUBSET Conns /\ AttemptsOf(c) \in SUBSET Attempts
    BY DEF AttemptsOf
  <2> QED
    BY <2>1, <2>2, DeletionRows DEF DeleteState, ValuesOf
<1>5. CASE DeleteConnector
  <2> DEFINE cs == {c \in Conns : ConnExists(conns[c])}
             as == {a \in Attempts : AttemptExists(attempts[a])}
  <2>1. DeleteState(cs, as)
    BY <1>5 DEF DeleteConnector
  <2>2. cs \in SUBSET Conns /\ as \in SUBSET Attempts
    OBVIOUS
  <2> HIDE DEF cs, as
  <2> QED
    BY <2>1, <2>2, DeletionRows DEF DeleteState, ValuesOf
<1> QED
  BY <1>1, <1>2, <1>3, <1>4, <1>5 DEF Next, Administration
--------------------------------------------------------------------------------
\* What a step may do to a grant at the provider and to its history: nothing but
\* a revocation, its issue, a refresh, or the commit that gives it a home.
GrantSame(g) ==
  /\ grants'[g].attempt = grants[g].attempt /\ grants'[g].gen = grants[g].gen
  /\ grants'[g].spent = grants[g].spent /\ grants'[g].home = grants[g].home
  /\ grants[g].status = "unissued" <=> grants'[g].status = "unissued"
  /\ grants[g].status = "revoked" => grants'[g].status = "revoked"
  /\ grants[g].replaced => grants'[g].replaced
GrantIssued(p, g) ==
  /\ h[p].pc = "exchange" /\ h'[p].pc \in {"received", "rejected"}
  /\ h'[p].att = h[p].att /\ h'[p].cred = [grant |-> g, gen |-> 1]
  /\ grants[g].status = "unissued" /\ grants'[g].status = "active"
  /\ grants'[g].attempt = h[p].att
  /\ grants'[g].spent = grants[g].spent /\ grants'[g].home = grants[g].home
GrantTouched(p, g) ==
  /\ h[p].pc = "refresh" /\ h[p].cred.grant = g /\ Refresh(p)
  /\ grants'[g].status = grants[g].status /\ grants'[g].attempt = grants[g].attempt
  /\ grants'[g].home = grants[g].home /\ grants'[g].replaced = grants[g].replaced
GrantPut(p, g) ==
  /\ h[p].pc = "commit" /\ h'[p].pc = "idle" /\ h[p].cred.grant = g
  /\ grants'[g].home \in Conns
  /\ grants'[g].status = grants[g].status /\ grants'[g].attempt = grants[g].attempt
  /\ grants'[g].gen = grants[g].gen /\ grants'[g].spent = grants[g].spent
  /\ grants'[g].replaced = grants[g].replaced
GrantMove(g) ==
  \/ GrantSame(g)
  \/ \E p \in Handlers : GrantIssued(p, g) \/ GrantTouched(p, g) \/ GrantPut(p, g)

\* A step that leaves the provider alone moves no grant.
LEMMA GrantsSame ==
  ASSUME UNCHANGED grants
  PROVE  \A g \in Grants : GrantMove(g)
  BY DEF GrantMove, GrantSame

\* A revocation is a move of each grant.
LEMMA RevokeSame ==
  ASSUME TypeInv, NEW c, NEW outcome, RevokeOutcome(c, outcome)
  PROVE  \A g \in Grants : GrantSame(g)
  BY DEF TypeInv, RevokeOutcome, GrantSame, Grant

\* Every step of a handler moves each grant in one of these ways.
LEMMA HandlerGrantMoves ==
  ASSUME TypeInv, NEW p \in Handlers, HandlerBegin(p) \/ HandlerStep(p) \/ Abort(p)
  PROVE  \A g \in Grants : GrantMove(g)
<1>hp. h[p] \in GoodLocal /\ h[p] \in Local /\ h \in [Handlers -> GoodLocal]
  BY DEF TypeInv, GoodLocal
<1>gs. \A g \in Grants : grants[g] \in Grant /\ grants \in [Grants -> Grant]
  BY DEF TypeInv
<1>1. CASE \/ StartRead(p) \/ SubmitRead(p) \/ CallbackRead(p) \/ CancelRead(p)
           \/ StartClean(p) \/ StartReady(p) \/ StartCommit(p) \/ StartRefused(p)
           \/ SubmitCommit(p) \/ CallbackClaim(p) \/ ExchangeFailed(p) \/ SealFails(p)
           \/ Retain(p) \/ MarkUnstored(p) \/ ReadCompletion(p) \/ CleanupRequired(p)
           \/ CancelDecrypt(p) \/ CancelMark(p) \/ CancelUnconfirmed(p) \/ CancelFinish(p)
  BY <1>1, GrantsSame DEF StartRead, SubmitRead, CallbackRead, CancelRead, StartClean,
     StartReady, StartCommit, StartRefused, SubmitCommit, CallbackClaim, ExchangeFailed,
     SealFails, Retain, MarkUnstored, ReadCompletion, CleanupRequired, CancelDecrypt,
     CancelMark, CancelUnconfirmed, CancelFinish
<1>2. CASE \/ AccessRead(p) \/ AccessDecrypt(p) \/ AccessClaim(p) \/ RefreshCommit(p)
           \/ RefreshFailed(p) \/ GrantCheck(p) \/ UseCheck(p) \/ Dispatch(p)
           \/ DisconnectRead(p) \/ DisconnectAttempts(p) \/ DisconnectBlock(p)
           \/ DisconnectDecrypt(p) \/ DisconnectClaim(p) \/ DisconnectDelete(p) \/ Abort(p)
  BY <1>2, GrantsSame DEF AccessRead, AccessDecrypt, AccessClaim, RefreshCommit,
     RefreshFailed, GrantCheck, UseCheck, Dispatch, DisconnectRead, DisconnectAttempts,
     DisconnectBlock, DisconnectDecrypt, DisconnectClaim, DisconnectDelete, Abort
<1>3. CASE RevokeUnstored(p) \/ CancelRevoke(p) \/ DisconnectRevoke(p)
  BY <1>3, RevokeSame DEF RevokeUnstored, CancelRevoke, DisconnectRevoke, GrantMove
<1>4. CASE Exchange(p)
  <2>1. CASE UNCHANGED grants
    BY <2>1, GrantsSame
  <2>2. ASSUME NEW g \in Grants, NEW answer \in {"received", "rejected"},
               grants[g].status = "unissued",
               grants' = [grants EXCEPT ![g].status = "active", ![g].attempt = h[p].att,
                                        ![g].gen = 1],
               h' = [h EXCEPT ![p].pc = answer, ![p].cred = [grant |-> g, gen |-> 1]]
        PROVE  \A d \in Grants : GrantMove(d)
    <3>1. h[p].pc = "exchange"
      BY <1>4 DEF Exchange
    <3>2. /\ h'[p].pc = answer /\ h'[p].att = h[p].att
          /\ h'[p].cred = [grant |-> g, gen |-> 1]
      BY <1>hp, <2>2 DEF Local
    <3>3. /\ grants'[g].status = "active" /\ grants'[g].attempt = h[p].att
          /\ grants'[g].spent = grants[g].spent /\ grants'[g].home = grants[g].home
      BY <1>gs, <2>2 DEF Grant
    <3>4. \A d \in Grants \ {g} : GrantSame(d)
      BY <1>gs, <2>2 DEF GrantSame
    <3>5. GrantIssued(p, g)
      BY <2>2, <3>1, <3>2, <3>3 DEF GrantIssued
    <3> QED
      BY <3>4, <3>5 DEF GrantMove
  <2> QED
    BY <1>4, <2>1, <2>2 DEF Exchange
<1>5. CASE CompleteCommit(p)
  <2>1. CASE UNCHANGED grants
    BY <2>1, GrantsSame
  <2>2. ASSUME NEW a, NEW c \in Conns, NEW version, PutCredentials(p, a, c, version)
        PROVE  \A d \in Grants : GrantMove(d)
    <3> DEFINE g == h[p].cred.grant
    <3>1. h[p].pc = "commit" /\ g \in Grants
      BY <1>5, <1>hp DEF CompleteCommit, GoodLocal, GrantPhases
    <3>2. h'[p].pc = "idle"
      BY <2>2, FinishFields DEF PutCredentials
    <3>3. grants'[g] = [grants[g] EXCEPT !.home = c]
      BY <2>2, <3>1 DEF PutCredentials
    <3>4. \A d \in Grants \ {g} : grants'[d] = [grants[d] EXCEPT !.replaced = @ \/ grants[d].home = c]
      BY <2>2, <3>1 DEF PutCredentials
    <3> HIDE DEF g
    <3>5. /\ grants'[g].home = c
          /\ grants'[g].status = grants[g].status /\ grants'[g].attempt = grants[g].attempt
          /\ grants'[g].gen = grants[g].gen /\ grants'[g].spent = grants[g].spent
          /\ grants'[g].replaced = grants[g].replaced
      BY <1>gs, <3>1, <3>3 DEF Grant
    <3>6. GrantPut(p, g)
      BY <3>1, <3>2, <3>5 DEF GrantPut, g
    <3>7. ASSUME NEW d \in Grants \ {g}
          PROVE  GrantSame(d)
      <4>1. /\ grants[d] \in Grant
            /\ grants'[d] = [grants[d] EXCEPT !.replaced = @ \/ grants[d].home = c]
        BY <1>gs, <3>4
      <4>2. /\ grants'[d].attempt = grants[d].attempt /\ grants'[d].gen = grants[d].gen
            /\ grants'[d].spent = grants[d].spent /\ grants'[d].home = grants[d].home
            /\ grants'[d].status = grants[d].status
        BY <4>1 DEF Grant
      <4>3. grants[d].replaced => grants'[d].replaced
        BY <4>1 DEF Grant
      <4> QED
        BY <4>2, <4>3 DEF GrantSame
    <3> QED
      BY <3>6, <3>7 DEF GrantMove
  <2>3. CASE /\ h[p].att \in Attempts /\ attempts[h[p].att].conn # None
             /\ PutCredentials(p, h[p].att, attempts[h[p].att].conn,
                               conns[attempts[h[p].att].conn].version)
    <3>1. attempts[h[p].att].conn \in Conns
      BY <2>3 DEF TypeInv, AttemptRow
    <3> QED
      BY <2>2, <2>3, <3>1
  <2>4. h[p].att \in Attempts
    BY <1>5, <1>hp DEF CompleteCommit, GoodLocal, AttemptPhases
  <2> QED
    BY <1>5, <2>1, <2>2, <2>3, <2>4 DEF CompleteCommit
<1>6. CASE Refresh(p)
  <2> DEFINE g == h[p].cred.grant
             next == grants[g].gen + 1
  <2>1. h[p].pc = "refresh" /\ g \in Grants
    BY <1>6, <1>hp DEF Refresh, GoodLocal, GrantPhases
  <2>2. CASE UNCHANGED grants
    BY <2>2, GrantsSame
  <2>3. ASSUME \/ grants' = [grants EXCEPT ![g].gen = next, ![g].spent = FALSE]
               \/ grants' = [grants EXCEPT ![g].spent = TRUE]
        PROVE  \A d \in Grants : GrantMove(d)
    <3> HIDE DEF next, g
    <3>1. \A d \in Grants \ {g} : GrantSame(d)
      BY <1>gs, <2>1, <2>3 DEF GrantSame
    <3>2. /\ grants'[g].status = grants[g].status /\ grants'[g].attempt = grants[g].attempt
          /\ grants'[g].home = grants[g].home /\ grants'[g].replaced = grants[g].replaced
      BY <1>gs, <2>1, <2>3 DEF Grant
    <3>3. GrantTouched(p, g)
      BY <1>6, <2>1, <3>2 DEF GrantTouched, g
    <3> QED
      BY <3>1, <3>3 DEF GrantMove
  <2> QED
    BY <1>6, <2>2, <2>3 DEF Refresh
<1> QED
  BY <1>1, <1>2, <1>3, <1>4, <1>5, <1>6 DEF HandlerBegin, HandlerStep, AuthorizationBegin,
     AuthorizationStep, UseStep, DisconnectStep

\* Every step of the system moves each grant in one of the ways listed.
LEMMA GrantMoves ==
  ASSUME TypeInv, [Next]_vars
  PROVE  \A g \in Grants : GrantMove(g)
<1>1. CASE UNCHANGED vars
  BY <1>1, GrantsSame DEF vars
<1>2. CASE Administration \/ Tick \/ Entitle
  BY <1>2, GrantsSame DEF Administration, AdminDelete, DeleteConnector, SaveConnector, Tick,
     Entitle
<1> QED
  BY <1>1, <1>2, HandlerGrantMoves DEF Next

\* What a step may do to the connector: its revision grows as long as it exists,
\* and one that was deleted does not come back.
ConnectorMove ==
  \/ connector' = connector
  \/ ~connector'.present
  \/ connector.present /\ connector'.version > connector.version

\* Every step of the system moves the connector in one of these ways.
LEMMA ConnectorMoves ==
  ASSUME TypeInv, [Next]_vars
  PROVE  ConnectorMove
<1>1. CASE UNCHANGED connector
  BY <1>1 DEF ConnectorMove
<1>2. CASE DeleteConnector
  BY <1>2 DEF DeleteConnector, TypeInv, ConnectorRow, ConnectorMove
<1>3. CASE SaveConnector
  <2>1. PICK enabled \in BOOLEAN :
          connector' = [connector EXCEPT !.enabled = enabled, !.version = @ + 1]
    BY <1>3 DEF SaveConnector
  <2>2. connector.present /\ connector \in ConnectorRow
    BY <1>3 DEF SaveConnector, TypeInv
  <2>3. connector'.version = connector.version + 1 /\ connector.version \in Nat
    BY <2>1, <2>2 DEF ConnectorRow
  <2> QED
    BY <2>2, <2>3 DEF ConnectorMove
<1>4. UNCHANGED connector \/ DeleteConnector \/ SaveConnector
  <2>1. ASSUME NEW p \in Handlers, HandlerBegin(p) \/ HandlerStep(p) \/ Abort(p)
        PROVE  UNCHANGED connector
    <3>1. CASE AuthorizationBegin(p) \/ AuthorizationStep(p)
      BY <3>1 DEF AuthorizationBegin, AuthorizationStep, StartRead, SubmitRead, CallbackRead,
         CancelRead, StartClean, StartReady, StartCommit, StartRefused, SubmitCommit,
         CallbackClaim, Exchange, ExchangeFailed, SealFails, Retain, RevokeUnstored,
         MarkUnstored, ReadCompletion, CompleteCommit, CleanupRequired, CancelDecrypt,
         CancelMark, CancelRevoke, CancelUnconfirmed, CancelFinish
    <3>2. CASE AccessRead(p) \/ UseStep(p) \/ DisconnectRead(p) \/ DisconnectStep(p) \/ Abort(p)
      BY <3>2 DEF UseStep, DisconnectStep, AccessRead, AccessDecrypt, AccessClaim, Refresh,
         RefreshCommit, RefreshFailed, GrantCheck, UseCheck, Dispatch, DisconnectRead,
         DisconnectAttempts, DisconnectBlock, DisconnectDecrypt, DisconnectClaim,
         DisconnectRevoke, DisconnectDelete, Abort
    <3> QED
      BY <2>1, <3>1, <3>2 DEF HandlerBegin, HandlerStep
  <2>2. AdminDelete \/ Tick \/ Entitle => UNCHANGED connector
    BY DEF AdminDelete, Tick, Entitle
  <2> QED
    BY <2>1, <2>2 DEF Next, Administration, vars
<1> QED
  BY <1>1, <1>2, <1>3, <1>4
--------------------------------------------------------------------------------
\* A row that a handler remembers is still the row, or the connection has moved
\* on for good: versions only grow and ids are not reused.
PinnedBy(row, r) == \/ row.status = "DELETED"
                    \/ ConnExists(row) /\ row.version > r.version
                    \/ row = r
Readied(l) == l.pc = "accessClaim" /\ l.row.status = "READY"
\* While the row has not moved, the tokens in hand are those stored.
Fixes(l) == \/ Readied(l) \/ l.pc \in CheckPhases \/ l.pc = "refresh"
            \/ (l.pc = "refreshFailed" /\ l.ok)
Remembers(p) ==
  LET l == h[p] IN
  l.pc \in RowPhases =>
    /\ ConnExists(l.row) /\ PinnedBy(conns[l.conn], l.row)
    /\ (Fixes(l) /\ conns[l.conn] = l.row) => vault[l.conn] = Sealed(l.cred)
    /\ \/ ~connector.present \/ connector = l.connector
       \/ connector.version > l.connector.version

\* Tokens read from a connection belong to a grant whose home it is; tokens that a
\* callback received have no home yet, were never presented, and are one handler's.
Uses(l) == Readied(l) \/ l.pc \in CheckPhases \cup RefreshPhases
Owns(p) ==
  LET l == h[p] g == h[p].cred.grant IN
  Uses(l) => g \in Grants /\ Issued(g) /\ grants[g].home = l.conn
Receives(p) ==
  LET l == h[p] g == h[p].cred.grant IN
  l.pc \in CallbackPhases =>
    /\ g \in Grants /\ Issued(g)
    /\ grants[g].attempt = l.att /\ grants[g].home = None /\ ~grants[g].spent
ReceiversDiffer ==
  \A p, q \in Handlers :
    p # q /\ h[p].pc \in CallbackPhases /\ h[q].pc \in CallbackPhases
      => h[p].cred.grant # h[q].cred.grant

\* A refresh claim: either the row still shows it, or the row has left for good the
\* statuses in which these tokens could be claimed, or other tokens were stored.
Spent(k) == grants[k.grant].spent /\ grants[k.grant].gen = k.gen
Refreshes(p) ==
  LET l == h[p] c == h[p].conn IN
  l.pc \in RefreshPhases =>
    /\ l.row.status = "REFRESHING" /\ l.row.refreshBy = p
    /\ \/ conns[c] = l.row
       \/ conns[c].status \in {"RECONNECT_REQUIRED", "REVOCATION_PENDING", "DELETED"}
       \/ vault[c].cred.grant # l.cred.grant
    /\ conns[c].refreshBy = p => vault[c].cred.grant = l.cred.grant
    /\ (l.pc # "refreshFailed" \/ l.ok) => ~Spent(l.cred)
RefreshersDiffer ==
  \A p, q \in Handlers :
    p # q /\ h[p].pc \in RefreshPhases /\ h[q].pc \in RefreshPhases
      => h[p].cred.grant # h[q].cred.grant

UnissuedIsFresh == \A g \in Grants : ~Issued(g) => ~grants[g].spent /\ grants[g].home = None
StoredAtHome ==
  \A c \in Conns : CredentialsIn(c) =>
    Issued(vault[c].cred.grant) /\ grants[vault[c].cred.grant].home = c
ReadyIsUnspent == \A c \in Conns : conns[c].status = "READY" => ~Spent(vault[c].cred)

TokenInv ==
  /\ UnissuedIsFresh /\ StoredAtHome /\ ReadyIsUnspent
  /\ ReceiversDiffer /\ RefreshersDiffer
  /\ \A p \in Handlers : Remembers(p) /\ Owns(p) /\ Receives(p) /\ Refreshes(p)
--------------------------------------------------------------------------------
\* A row remembered stays pinned, and if it is still the row its value is untouched.
LEMMA PinKept ==
  ASSUME TypeInv, NEW c \in Conns, RowMove(c), NEW r \in ConnRow, ConnExists(r), PinnedBy(conns[c], r)
  PROVE  /\ PinnedBy(conns'[c], r)
         /\ conns'[c] = r => conns[c] = r /\ vault'[c] = vault[c]
<1>1. conns[c] \in ConnRow /\ conns[c].version \in Nat /\ r.version \in Nat
  BY DEF TypeInv, ConnRow
<1>2. CASE RowSame(c)
  BY <1>2 DEF RowSame, PinnedBy
<1>3. CASE RowDeleted(c)
  BY <1>3 DEF RowDeleted, PinnedBy, DeletedConn, UnusedConn, ConnExists
<1>4. CASE Newer(c) /\ ConnExists(conns[c]) /\ ConnExists(conns'[c])
  <2>1. conns'[c].version > r.version
    BY <1>1, <1>4 DEF Newer, PinnedBy, ConnExists
  <2> QED
    BY <1>1, <1>4, <2>1 DEF PinnedBy
<1>5. conns[c].status # "UNUSED"
  BY DEF PinnedBy, ConnExists
<1> QED
  BY <1>2, <1>3, <1>4, <1>5 DEF RowMove, RowStopped, PutInto, ClaimedBy, RotatedBy, ReleasedBy,
     Reconnectable, ConnExists, StatusAfterFailure

\* A grant that has a home keeps it, and one that was issued stays issued to its
\* attempt.
LEMMA HomesKept ==
  ASSUME TypeInv, TokenInv, [Next]_vars, NEW g \in Grants, Issued(g)
  PROVE  /\ Issued(g)' /\ grants'[g].attempt = grants[g].attempt
         /\ grants[g].home # None => grants'[g].home = grants[g].home
<1>1. GrantMove(g)
  BY GrantMoves
<1>2. \A p \in Handlers : GrantPut(p, g) => grants[g].home = None
  BY DEF TokenInv, Receives, GrantPut, CallbackPhases
<1> QED
  BY <1>1, <1>2 DEF GrantMove, GrantSame, GrantIssued, GrantTouched, GrantPut, Issued

\* Only a refresh changes the generation of a grant or makes it spent.
LEMMA SpentKept ==
  ASSUME TypeInv, [Next]_vars, NEW g \in Grants, Issued(g),
         \A p \in Handlers : ~GrantTouched(p, g)
  PROVE  grants'[g].spent = grants[g].spent /\ grants'[g].gen = grants[g].gen
<1>1. GrantMove(g)
  BY GrantMoves
<1> QED
  BY <1>1 DEF GrantMove, GrantSame, GrantIssued, GrantPut, Issued

\* A handler that does not run goes on remembering what it remembers.
LEMMA OthersRemember ==
  ASSUME TypeInv, TokenInv, [Next]_vars, NEW p \in Handlers, h'[p] = h[p]
  PROVE  Remembers(p)' /\ Owns(p)'
<1> DEFINE l == h[p]
<1>l. l \in GoodLocal /\ l \in Local /\ l.row \in ConnRow
  BY DEF TypeInv, GoodLocal, Local
<1>inv. Remembers(p) /\ Owns(p)
  BY DEF TokenInv
<1>1. ASSUME l.pc \in RowPhases
      PROVE  Remembers(p)'
  <2>1. l.conn \in Conns
    BY <1>l, <1>1 DEF GoodLocal, ConnPhases, RowPhases, CheckPhases, RefreshPhases
  <2>2. ConnExists(l.row) /\ PinnedBy(conns[l.conn], l.row)
    BY <1>1, <1>inv DEF Remembers
  <2>3. RowMove(l.conn)
    BY <2>1, RowMoves
  <2>4. /\ PinnedBy(conns'[l.conn], l.row)
        /\ conns'[l.conn] = l.row => conns[l.conn] = l.row /\ vault'[l.conn] = vault[l.conn]
    BY <1>l, <2>1, <2>2, <2>3, PinKept
  <2>5. (Fixes(l) /\ conns'[l.conn] = l.row) => vault'[l.conn] = Sealed(l.cred)
    BY <1>1, <1>inv, <2>4 DEF Remembers
  <2>6. \/ ~connector'.present \/ connector' = l.connector
        \/ connector'.version > l.connector.version
    <3>1. connector \in ConnectorRow /\ connector' \in ConnectorRow /\ l.connector \in ConnectorRow
      BY <1>l, TypeInvStep DEF TypeInv, Local
    <3>2. \/ ~connector.present \/ connector = l.connector
          \/ connector.version > l.connector.version
      BY <1>1, <1>inv DEF Remembers
    <3> QED
      BY <3>1, <3>2, ConnectorMoves DEF ConnectorMove, ConnectorRow
  <2> QED
    BY <2>2, <2>4, <2>5, <2>6 DEF Remembers
<1>2. ASSUME Uses(l)
      PROVE  Owns(p)'
  <2>1. l.conn \in Conns
    BY <1>l, <1>2 DEF GoodLocal, ConnPhases, Uses, Readied, CheckPhases, RefreshPhases
  <2>2. /\ l.cred.grant \in Grants /\ Issued(l.cred.grant)
        /\ grants[l.cred.grant].home = l.conn
    BY <1>2, <1>inv DEF Owns
  <2>3. Issued(l.cred.grant)' /\ grants'[l.cred.grant].home = l.conn
    <3>1. ASSUME NEW g \in Grants, g = l.cred.grant
          PROVE  (grants'[g].status # "unissued") /\ grants'[g].home = l.conn
      <4>1. Issued(g) /\ grants[g].home # None
        BY <2>1, <2>2, <3>1, NoneIsNothing
      <4> QED
        BY <2>2, <3>1, <4>1, HomesKept DEF Issued
    <3> QED
      BY <2>2, <3>1 DEF Issued
  <2> QED
    BY <2>2, <2>3 DEF Owns
<1> QED
  BY <1>1, <1>2 DEF Remembers, Owns

\* Tokens that a callback holds stay without a home and unspent while its handler
\* does not run.
LEMMA OthersReceive ==
  ASSUME TypeInv, TokenInv, [Next]_vars, NEW p \in Handlers, h'[p] = h[p],
         h[p].pc \in CallbackPhases
  PROVE  Receives(p)'
<1> DEFINE g == h[p].cred.grant
<1>1. /\ g \in Grants /\ Issued(g)
      /\ grants[g].attempt = h[p].att /\ grants[g].home = None /\ ~grants[g].spent
  BY DEF TokenInv, Receives
<1>2. ASSUME NEW q \in Handlers, GrantPut(q, g)
      PROVE  FALSE
  <2>1. h[q].pc = "commit" /\ h'[q].pc = "idle" /\ h[q].cred.grant = g
    BY <1>2 DEF GrantPut
  <2>2. q # p
    BY <2>1 DEF CallbackPhases
  <2> QED
    BY <2>1, <2>2 DEF TokenInv, ReceiversDiffer, CallbackPhases
<1>3. ASSUME NEW q \in Handlers, GrantTouched(q, g)
      PROVE  FALSE
  <2>1. h[q].pc = "refresh" /\ h[q].cred.grant = g
    BY <1>3 DEF GrantTouched
  <2>2. grants[g].home = h[q].conn
    BY <2>1 DEF TokenInv, Owns, Uses, RefreshPhases
  <2>3. h[q].conn \in Conns
    BY <2>1 DEF TypeInv, GoodLocal, ConnPhases
  <2> QED
    BY <1>1, <2>2, <2>3, NoneIsNothing
<1>4. GrantSame(g)
  <2>1. GrantMove(g)
    BY <1>1, GrantMoves
  <2> QED
    BY <1>1, <1>2, <1>3, <2>1 DEF GrantMove, GrantIssued, Issued
<1> QED
  BY <1>1, <1>4 DEF Receives, GrantSame, Issued

\* What a callback just did leaves it with tokens of its own.
LEMMA OwnReceives ==
  ASSUME TypeInv, TokenInv, [Next]_vars, NEW p \in Handlers, h'[p] # h[p],
         h'[p].pc \in CallbackPhases
  PROVE  /\ Receives(p)'
         /\ \/ GrantIssued(p, h'[p].cred.grant) /\ h'[p].cred.grant \in Grants
            \/ h[p].pc \in CallbackPhases /\ h'[p].cred.grant = h[p].cred.grant
<1>l. h \in [Handlers -> GoodLocal] /\ h[p] \in GoodLocal /\ h[p] \in Local
  BY DEF TypeInv, GoodLocal
<1>gs. grants \in [Grants -> Grant]
  BY DEF TypeInv
<1>1. EntersOwner(p)
  BY Entered
<1>2. CASE Exchange(p)
  <2>1. PICK g \in Grants, answer \in {"received", "rejected"} :
          /\ grants[g].status = "unissued"
          /\ grants' = [grants EXCEPT ![g].status = "active", ![g].attempt = h[p].att,
                                      ![g].gen = 1]
          /\ h' = [h EXCEPT ![p].pc = answer, ![p].cred = [grant |-> g, gen |-> 1]]
    <3>1. ~Goto(p, "exchangeFailed")
      BY GotoFields DEF CallbackPhases
    <3> QED
      BY <1>2, <3>1 DEF Exchange
  <2>2. /\ h'[p].pc = answer /\ h'[p].att = h[p].att
        /\ h'[p].cred = [grant |-> g, gen |-> 1]
    BY <1>l, <2>1 DEF Local
  <2>3. /\ grants'[g].status = "active" /\ grants'[g].attempt = h[p].att
        /\ grants'[g].spent = grants[g].spent /\ grants'[g].home = grants[g].home
    BY <1>gs, <2>1 DEF Grant
  <2>4. ~grants[g].spent /\ grants[g].home = None
    BY <2>1 DEF TokenInv, UnissuedIsFresh, Issued
  <2>5. h'[p].cred.grant = g
    BY <2>2
  <2>6. h[p].pc = "exchange"
    BY <1>2 DEF Exchange
  <2>7. GrantIssued(p, g)
    BY <2>1, <2>2, <2>3, <2>6 DEF GrantIssued
  <2>8. Receives(p)'
    BY <2>2, <2>3, <2>4, <2>5 DEF Receives, Issued
  <2> QED
    BY <2>5, <2>7, <2>8
<1>3. CASE SealFails(p) \/ Retain(p) \/ RevokeUnstored(p) \/ ReadCompletion(p)
  <2>1. h[p].pc \in CallbackPhases
    BY <1>3 DEF SealFails, Retain, RevokeUnstored, ReadCompletion, CallbackPhases
  <2>2. h'[p].cred = h[p].cred /\ h'[p].att = h[p].att
    <3>1. CASE SealFails(p)
      BY <3>1, GotoFields DEF SealFails
    <3>2. CASE Retain(p)
      <4>1. ~Finish(p)
        BY FinishFields DEF CallbackPhases
      <4> QED
        BY <3>2, <4>1, GotoFields DEF Retain
    <3>3. CASE RevokeUnstored(p)
      BY <3>3, <1>l DEF RevokeUnstored, Local
    <3>4. CASE ReadCompletion(p)
      <4>1. ~Finish(p)
        BY FinishFields DEF CallbackPhases
      <4>2. CASE Goto(p, "cleanupRequired")
        BY <4>2, GotoFields
      <4>3. CASE h' = [h EXCEPT ![p].pc = "commit", ![p].arow = attempts[h[p].att],
                             ![p].connector = connector]
        BY <4>3, <1>l DEF Local
      <4> QED
        BY <3>4, <4>1, <4>2, <4>3 DEF ReadCompletion
    <3> QED
      BY <1>3, <3>1, <3>2, <3>3, <3>4
  <2> DEFINE g == h[p].cred.grant
  <2>3. /\ g \in Grants /\ Issued(g)
        /\ grants[g].attempt = h[p].att /\ grants[g].home = None /\ ~grants[g].spent
    BY <2>1 DEF TokenInv, Receives
  <2>4. GrantSame(g)
    <3>1. CASE UNCHANGED grants
      BY <3>1 DEF GrantSame
    <3>2. CASE RevokeUnstored(p)
      BY <3>2, <2>3, RevokeSame DEF RevokeUnstored
    <3> QED
      BY <1>3, <3>1, <3>2 DEF SealFails, Retain, ReadCompletion
  <2>5. Receives(p)'
    BY <2>2, <2>3, <2>4 DEF Receives, GrantSame, Issued
  <2> QED
    BY <2>1, <2>2, <2>5
<1>4. ~CallbackClaim(p)
  BY AuthorizationPhases DEF CallbackPhases
<1> QED
  BY <1>1, <1>2, <1>3, <1>4 DEF EntersOwner

\* No two callbacks hold tokens of one grant.
LEMMA ReceiversStep ==
  ASSUME TypeInv, TokenInv, [Next]_vars
  PROVE  ReceiversDiffer'
<1> SUFFICES ASSUME NEW p \in Handlers, NEW q \in Handlers, p # q,
                    h'[p].pc \in CallbackPhases, h'[q].pc \in CallbackPhases
             PROVE  h'[p].cred.grant # h'[q].cred.grant
  BY DEF ReceiversDiffer
<1>1. ASSUME NEW a \in Handlers, NEW b \in Handlers, a # b, h'[a] = h[a], h'[b] # h[b],
             h'[a].pc \in CallbackPhases, h'[b].pc \in CallbackPhases
      PROVE  h'[a].cred.grant # h'[b].cred.grant
  <2>1. CASE GrantIssued(b, h'[b].cred.grant)
    BY <1>1, <2>1 DEF GrantIssued, TokenInv, Receives, Issued
  <2>2. CASE h[b].pc \in CallbackPhases /\ h'[b].cred.grant = h[b].cred.grant
    BY <1>1, <2>2 DEF TokenInv, ReceiversDiffer
  <2> QED
    BY <1>1, <2>1, <2>2, OwnReceives
<1>2. CASE h'[p] = h[p] /\ h'[q] = h[q]
  BY <1>2 DEF TokenInv, ReceiversDiffer
<1>3. h'[p] = h[p] \/ h'[q] = h[q]
  BY Entered
<1> QED
  BY <1>1, <1>2, <1>3
--------------------------------------------------------------------------------
\* Two handlers that refresh never do so for one connection and one grant: a
\* handler whose claim the row has left stays out.
LEMMA ClaimIsExclusive ==
  ASSUME TypeInv, TokenInv, NEW p \in Handlers, h[p].pc \in RefreshPhases,
         conns[h[p].conn] # h[p].row,
         conns[h[p].conn].status \in {"READY", "REFRESHING"}
  PROVE  vault[h[p].conn].cred.grant # h[p].cred.grant
  BY DEF TokenInv, Refreshes

\* The row of a claim that still has the claim's version is the row claimed.
LEMMA ClaimStands ==
  ASSUME TypeInv, TokenInv, NEW p \in Handlers, h[p].pc \in RefreshPhases,
         conns[h[p].conn].status = "REFRESHING",
         conns[h[p].conn].version = h[p].row.version
  PROVE  conns[h[p].conn] = h[p].row /\ conns[h[p].conn].refreshBy = p
<1>1. PinnedBy(conns[h[p].conn], h[p].row) /\ h[p].row.refreshBy = p
  BY DEF TokenInv, Remembers, Refreshes, RowPhases
<1>2. h[p].row.version \in Nat
  BY DEF TypeInv, GoodLocal, Local, ConnRow
<1> QED
  BY <1>1, <1>2 DEF PinnedBy

\* Only its own handler touches the grant of a refresh.
LEMMA RefreshUntouched ==
  ASSUME TypeInv, TokenInv, NEW p \in Handlers, h[p].pc \in RefreshPhases,
         NEW q \in Handlers, GrantTouched(q, h[p].cred.grant)
  PROVE  q = p
  BY DEF GrantTouched, TokenInv, RefreshersDiffer, RefreshPhases

\* The claim of a handler that does not run is not taken over by another.
LEMMA OthersRefresh ==
  ASSUME TypeInv, TokenInv, [Next]_vars, NEW p \in Handlers, h'[p] = h[p],
         h[p].pc \in RefreshPhases
  PROVE  Refreshes(p)'
<1> DEFINE l == h[p]
           c == h[p].conn
           g == h[p].cred.grant
<1>1. c \in Conns /\ l.row \in ConnRow
  BY DEF TypeInv, GoodLocal, Local, ConnPhases, RefreshPhases
<1>2. /\ l.row.status = "REFRESHING" /\ l.row.refreshBy = p
      /\ \/ conns[c] = l.row
         \/ conns[c].status \in {"RECONNECT_REQUIRED", "REVOCATION_PENDING", "DELETED"}
         \/ vault[c].cred.grant # g
      /\ conns[c].refreshBy = p => vault[c].cred.grant = g
      /\ (l.pc # "refreshFailed" \/ l.ok) => ~Spent(l.cred)
  BY DEF TokenInv, Refreshes
<1>3. g \in Grants /\ Issued(g) /\ grants[g].home = c
  BY DEF TokenInv, Owns, Uses
<1>4. /\ \/ conns'[c] = l.row
         \/ conns'[c].status \in {"RECONNECT_REQUIRED", "REVOCATION_PENDING", "DELETED"}
         \/ vault'[c].cred.grant # g
      /\ conns'[c].refreshBy = p => vault'[c].cred.grant = g
  <2>1. CASE RowSame(c)
    BY <1>2, <2>1 DEF RowSame
  <2>2. CASE RowStopped(c)
    BY <1>2, <2>2 DEF RowStopped
  <2>3. CASE RowDeleted(c)
    BY <2>3, NoneIsNothing DEF RowDeleted, DeletedConn, UnusedConn
  <2>4. ASSUME NEW q \in Handlers, PutInto(q, c)
        PROVE  <1>4!:
    <3>1. grants[h[q].cred.grant].home = None
      BY <2>4 DEF PutInto, TokenInv, Receives, CallbackPhases
    <3>2. h[q].cred.grant # g
      BY <1>1, <1>3, <3>1, NoneIsNothing
    <3>3. vault'[c].cred.grant = h[q].cred.grant /\ conns'[c].refreshBy = None
      BY <2>4 DEF PutInto, Sealed
    <3> QED
      BY <3>2, <3>3, NoneIsNothing
  <2>5. ASSUME NEW q \in Handlers, ClaimedBy(q, c)
        PROVE  <1>4!:
    <3>1. q # p
      BY <2>5 DEF ClaimedBy, RefreshPhases
    <3>2. vault'[c] = vault[c] /\ conns'[c].refreshBy = q
      BY <2>5 DEF ClaimedBy
    <3>3. vault[c].cred.grant # g
      BY <1>2, <2>5 DEF ClaimedBy
    <3> QED
      BY <3>1, <3>2, <3>3
  <2>6. ASSUME NEW q \in Handlers, RotatedBy(q, c)
        PROVE  <1>4!:
    <3>1. q # p
      BY <2>6 DEF RotatedBy
    <3>2. h[q].cred.grant # g
      BY <2>6, <3>1 DEF RotatedBy, TokenInv, RefreshersDiffer, RefreshPhases
    <3>3. vault'[c].cred.grant = h[q].cred.grant /\ conns'[c].refreshBy = None
      BY <2>6 DEF RotatedBy, Sealed
    <3> QED
      BY <3>2, <3>3, NoneIsNothing
  <2>7. ASSUME NEW q \in Handlers, ReleasedBy(q, c)
        PROVE  <1>4!:
    <3>1. q # p
      BY <2>7 DEF ReleasedBy, RefreshPhases
    <3>2. conns[c] = h[q].row /\ conns[c].refreshBy = q
      BY <2>7, ClaimStands DEF ReleasedBy, RefreshPhases
    <3>3. vault[c].cred.grant # g
      BY <1>2, <2>7, <3>1, <3>2 DEF ReleasedBy
    <3>4. vault'[c] = vault[c] /\ conns'[c].refreshBy = None
      BY <2>7 DEF ReleasedBy
    <3> QED
      BY <3>3, <3>4, NoneIsNothing
  <2>8. RowMove(c)
    BY <1>1, RowMoves
  <2> QED
    BY <2>1, <2>2, <2>3, <2>4, <2>5, <2>6, <2>7, <2>8 DEF RowMove
<1>5. grants'[g].spent = grants[g].spent /\ grants'[g].gen = grants[g].gen
  <2>1. ASSUME NEW q \in Handlers, GrantTouched(q, g)
        PROVE  FALSE
    <3>1. q = p
      BY <2>1, RefreshUntouched
    <3>2. h[p].pc = "refresh" /\ Refresh(p)
      BY <2>1, <3>1 DEF GrantTouched
    <3> QED
      BY <3>2, ConnectionPhases
  <2> QED
    BY <1>3, <2>1, SpentKept
<1> QED
  BY <1>2, <1>4, <1>5 DEF Refreshes, Spent
--------------------------------------------------------------------------------
\* A step that only moves the handler on leaves what it remembers as good as it was.
LEMMA MovedOn ==
  ASSUME TypeInv, TokenInv, NEW p \in Handlers,
         UNCHANGED <<conns, vault, connector, grants>>,
         h[p].pc \in RowPhases,
         h'[p].row = h[p].row, h'[p].conn = h[p].conn, h'[p].connector = h[p].connector,
         h'[p].cred = h[p].cred,
         Fixes(h'[p]) => Fixes(h[p]), Uses(h'[p]) => Uses(h[p])
  PROVE  Remembers(p)' /\ Owns(p)'
<1>1. Remembers(p) /\ Owns(p)
  BY DEF TokenInv
<1>2. Remembers(p)'
  <2>1. ConnExists(h'[p].row) /\ PinnedBy(conns'[h'[p].conn], h'[p].row)
    BY <1>1 DEF Remembers
  <2>2. (Fixes(h'[p]) /\ conns'[h'[p].conn] = h'[p].row)
          => vault'[h'[p].conn] = Sealed(h'[p].cred)
    BY <1>1 DEF Remembers
  <2>3. \/ ~connector'.present \/ connector' = h'[p].connector
        \/ connector'.version > h'[p].connector.version
    BY <1>1 DEF Remembers
  <2> QED
    BY <2>1, <2>2, <2>3 DEF Remembers
<1>3. Owns(p)'
  <2>1. Uses(h'[p]) => /\ h'[p].cred.grant \in Grants
                       /\ (grants'[h'[p].cred.grant].status # "unissued")
                       /\ grants'[h'[p].cred.grant].home = h'[p].conn
    BY <1>1 DEF Owns, Issued
  <2> QED
    BY <2>1 DEF Owns, Issued
<1> QED
  BY <1>2, <1>3

\* Reading a row and its value.
LEMMA ReadsRow ==
  ASSUME TypeInv, CiphertextInv, TokenInv, NEW p \in Handlers,
         AccessRead(p) \/ AccessDecrypt(p), h'[p].pc \in RowPhases
  PROVE  Remembers(p)' /\ Owns(p)' /\ Refreshes(p)'
<1>h. h \in [Handlers -> GoodLocal] /\ h[p] \in Local
  BY DEF TypeInv, GoodLocal
<1>1. CASE AccessRead(p)
  <2>1. PICK c \in Conns :
          /\ Usable(c)
          /\ h' = [h EXCEPT ![p].conn = c, ![p].row = conns[c], ![p].connector = connector,
                     ![p].pc = IF conns[c].status = "READY" THEN "accessDecrypt"
                                                            ELSE "accessClaim"]
    BY <1>1 DEF AccessRead
  <2>2. /\ h'[p].conn = c /\ h'[p].row = conns[c] /\ h'[p].connector = connector
        /\ h'[p].pc = IF conns[c].status = "READY" THEN "accessDecrypt" ELSE "accessClaim"
    BY <1>h, <2>1 DEF Local
  <2>3. ~Fixes(h'[p]) /\ ~Uses(h'[p]) /\ h'[p].pc \notin RefreshPhases
    BY <2>2 DEF Fixes, Uses, Readied, CheckPhases, RefreshPhases
  <2>4. ConnExists(h'[p].row) /\ conns'[c] = conns[c] /\ connector' = connector
    BY <1>1, <2>1, <2>2 DEF Usable, ConnExists, AccessRead
  <2>5. Remembers(p)'
    BY <2>2, <2>3, <2>4 DEF Remembers, PinnedBy
  <2> QED
    BY <2>3, <2>5 DEF Owns, Refreshes
<1>2. CASE AccessDecrypt(p)
  <2> DEFINE c == h[p].conn
  <2>1. c \in Conns /\ h[p].pc = "accessDecrypt"
    BY <1>2 DEF AccessDecrypt, TypeInv, GoodLocal, ConnPhases
  <2>2. PICK refresh \in BOOLEAN :
          /\ vault[c].kind = "credentials"
          /\ h' = [h EXCEPT ![p].pc = "accessClaim", ![p].cred = vault[c].cred, ![p].ok = refresh]
    <3>1. ~Finish(p)
      BY FinishFields DEF RowPhases, CheckPhases, RefreshPhases
    <3> QED
      BY <1>2, <3>1 DEF AccessDecrypt
  <2>3. /\ h'[p].pc = "accessClaim" /\ h'[p].cred = vault[c].cred /\ h'[p].conn = c
        /\ h'[p].row = h[p].row /\ h'[p].connector = h[p].connector
    BY <1>h, <2>2 DEF Local
  <2>4. UNCHANGED <<conns, vault, connector, grants>>
    BY <1>2 DEF AccessDecrypt
  <2>5. vault[c] = Sealed(vault[c].cred) /\ vault[c].cred.grant \in Grants
    <3>1. vault[c] \in GoodSecret
      BY <2>1 DEF TypeInv, Slots
    <3> QED
      BY <2>2, <3>1 DEF GoodSecret, Secret, Sealed
  <2>6. /\ ConnExists(h[p].row) /\ PinnedBy(conns[c], h[p].row)
        /\ \/ ~connector.present \/ connector = h[p].connector
           \/ connector.version > h[p].connector.version
    BY <2>1 DEF TokenInv, Remembers, RowPhases
  <2>7. Remembers(p)'
    BY <2>3, <2>4, <2>5, <2>6 DEF Remembers
  <2>8. grants[vault[c].cred.grant].status # "unissued" /\ grants[vault[c].cred.grant].home = c
    BY <2>1, <2>2 DEF TokenInv, StoredAtHome, CredentialsIn, Issued
  <2>9. Owns(p)'
    BY <2>3, <2>4, <2>5, <2>8 DEF Owns, Issued
  <2> QED
    BY <2>3, <2>7, <2>9 DEF Refreshes, RefreshPhases
<1> QED
  BY <1>1, <1>2

\* Claiming a refresh, or going on with the tokens as they are.
LEMMA ClaimsRow ==
  ASSUME TypeInv, TokenInv, NEW p \in Handlers, AccessClaim(p), h'[p].pc \in RowPhases
  PROVE  Remembers(p)' /\ Owns(p)' /\ Refreshes(p)'
<1>h. h \in [Handlers -> GoodLocal] /\ h[p] \in Local
  BY DEF TypeInv, GoodLocal
<1> DEFINE c == h[p].conn
           claimed == [conns[c] EXCEPT !.status = "REFRESHING", !.refreshBy = p,
                                       !.version = @ + 1]
<1>1. c \in Conns /\ h[p].pc = "accessClaim"
  BY DEF AccessClaim, TypeInv, GoodLocal, ConnPhases
<1>2. ~Finish(p)
  BY FinishFields DEF RowPhases, CheckPhases, RefreshPhases
<1>3. conns[c] = h[p].row /\ connector = h[p].connector /\ conns[c].status = "READY"
  BY <1>2 DEF AccessClaim, Unchanged
<1>4. Fixes(h[p]) /\ Uses(h[p]) /\ h[p].pc \in RowPhases
  BY <1>1, <1>3 DEF Fixes, Uses, Readied, RowPhases
<1>5. CASE Goto(p, "grantCheck") /\ UNCHANGED <<conns, age>>
  <2>1. UNCHANGED <<conns, vault, connector, grants>>
    BY <1>5 DEF AccessClaim
  <2>2. /\ h'[p].pc = "grantCheck" /\ h'[p].conn = h[p].conn /\ h'[p].row = h[p].row
        /\ h'[p].connector = h[p].connector /\ h'[p].cred = h[p].cred
    BY <1>5, GotoFields
  <2>3. Remembers(p)' /\ Owns(p)'
    BY <1>4, <2>1, <2>2, MovedOn
  <2> QED
    BY <2>2, <2>3 DEF Refreshes, RefreshPhases
<1>6. CASE /\ conns' = [conns EXCEPT ![c] = claimed]
           /\ h' = [h EXCEPT ![p].pc = "refresh", ![p].row = claimed]
  <2>row. conns[c] \in ConnRow
    BY <1>1 DEF TypeInv
  <2>1. claimed.status = "REFRESHING" /\ claimed.refreshBy = p
    BY <2>row DEF ConnRow
  <2> HIDE DEF claimed
  <2>2. /\ h'[p].pc = "refresh" /\ h'[p].row = claimed /\ h'[p].conn = c
        /\ h'[p].connector = h[p].connector /\ h'[p].cred = h[p].cred
    BY <1>h, <1>6 DEF Local
  <2>3. conns'[c] = claimed /\ vault' = vault /\ connector' = connector /\ grants' = grants
    BY <1>1, <1>6 DEF TypeInv, AccessClaim
  <2>4. vault[c] = Sealed(h[p].cred)
    BY <1>3, <1>4 DEF TokenInv, Remembers
  <2>5. Remembers(p)'
    BY <1>3, <2>1, <2>2, <2>3, <2>4 DEF Remembers, PinnedBy, ConnExists
  <2>6. /\ h[p].cred.grant \in Grants /\ (grants[h[p].cred.grant].status # "unissued")
        /\ grants[h[p].cred.grant].home = c
    BY <1>4 DEF TokenInv, Owns, Issued
  <2>7. Owns(p)'
    BY <2>2, <2>3, <2>6 DEF Owns, Issued
  <2>8. ~(grants[h[p].cred.grant].spent /\ grants[h[p].cred.grant].gen = h[p].cred.gen)
    BY <1>1, <1>3, <2>4 DEF TokenInv, ReadyIsUnspent, Spent, Sealed
  <2>9. vault'[c].cred.grant = h[p].cred.grant
    BY <2>3, <2>4 DEF Sealed
  <2>10. Refreshes(p)'
    BY <2>1, <2>2, <2>3, <2>8, <2>9 DEF Refreshes, Spent
  <2> QED
    BY <2>5, <2>7, <2>10
<1> QED
  BY <1>2, <1>5, <1>6 DEF AccessClaim

\* What the provider answered to a refresh, and the failure of the commit.
LEMMA RefreshesRow ==
  ASSUME TypeInv, TokenInv, NEW p \in Handlers, Refresh(p)
  PROVE  Remembers(p)' /\ Owns(p)' /\ Refreshes(p)'
<1>h. h \in [Handlers -> GoodLocal] /\ h[p] \in Local /\ h[p].cred \in Cred
  BY DEF TypeInv, GoodLocal, Local
<1> DEFINE g == h[p].cred.grant
           c == h[p].conn
           next == grants[g].gen + 1
<1>1. h[p].pc = "refresh" /\ UNCHANGED <<conns, vault, connector>>
  BY DEF Refresh
<1>2. Uses(h[p]) /\ Fixes(h[p]) /\ h[p].pc \in RowPhases /\ h[p].pc \in RefreshPhases
  BY <1>1 DEF Uses, Fixes, RowPhases, RefreshPhases
<1>3. /\ g \in Grants /\ (grants[g].status # "unissued") /\ grants[g].home = c
  BY <1>2 DEF TokenInv, Owns, Issued
<1>4. /\ ConnExists(h[p].row) /\ PinnedBy(conns[c], h[p].row)
      /\ conns[c] = h[p].row => vault[c] = Sealed(h[p].cred)
      /\ \/ ~connector.present \/ connector = h[p].connector
         \/ connector.version > h[p].connector.version
  BY <1>2 DEF TokenInv, Remembers
<1>5. /\ h[p].row.status = "REFRESHING" /\ h[p].row.refreshBy = p
      /\ \/ conns[c] = h[p].row
         \/ conns[c].status \in {"RECONNECT_REQUIRED", "REVOCATION_PENDING", "DELETED"}
         \/ vault[c].cred.grant # g
      /\ conns[c].refreshBy = p => vault[c].cred.grant = g
      /\ ~(grants[g].spent /\ grants[g].gen = h[p].cred.gen)
  BY <1>1, <1>2 DEF TokenInv, Refreshes, Spent
<1>6. \/ /\ grants' = [grants EXCEPT ![g].gen = next, ![g].spent = FALSE]
         /\ \E usable \in BOOLEAN :
              h' = [h EXCEPT ![p].pc = "refreshCommit", ![p].ok = usable, ![p].cred.gen = next]
      \/ /\ \/ grants' = [grants EXCEPT ![g].gen = next, ![g].spent = FALSE]
            \/ grants' = [grants EXCEPT ![g].spent = TRUE]
         /\ h' = [h EXCEPT ![p].pc = "refreshFailed", ![p].ok = FALSE]
      \/ /\ \E retryable \in BOOLEAN :
              h' = [h EXCEPT ![p].pc = "refreshFailed", ![p].ok = retryable]
         /\ UNCHANGED grants
  BY DEF Refresh
<1>7. grants'[g].home = c /\ (grants'[g].status # "unissued")
  <2>1. \/ grants' = [grants EXCEPT ![g].gen = next, ![g].spent = FALSE]
        \/ grants' = [grants EXCEPT ![g].spent = TRUE]
        \/ grants' = grants
    BY <1>6
  <2> HIDE DEF g, next
  <2>2. grants'[g].home = grants[g].home /\ grants'[g].status = grants[g].status
    BY <1>3, <2>1 DEF TypeInv, Grant
  <2> QED
    BY <1>3, <2>2
<1>8. /\ h'[p].conn = c /\ h'[p].row = h[p].row /\ h'[p].connector = h[p].connector
      /\ h'[p].cred.grant = g
      /\ h'[p].pc = "refreshCommit" \/ (h'[p].pc = "refreshFailed" /\ h'[p].cred = h[p].cred)
  <2>1. ASSUME NEW usable, NEW gen,
               h' = [h EXCEPT ![p].pc = "refreshCommit", ![p].ok = usable, ![p].cred.gen = gen]
        PROVE  <1>8!:
    BY <2>1, <1>h DEF Local, Cred
  <2>2. ASSUME NEW ok, h' = [h EXCEPT ![p].pc = "refreshFailed", ![p].ok = ok]
        PROVE  <1>8!:
    BY <2>2, <1>h DEF Local
  <2> QED
    BY <1>6, <2>1, <2>2
<1>9. Remembers(p)'
  <2>1. Fixes(h'[p]) => h'[p].cred = h[p].cred
    BY <1>8 DEF Fixes, Readied, CheckPhases
  <2> QED
    BY <1>1, <1>4, <1>8, <2>1 DEF Remembers
<1>10. Owns(p)'
  BY <1>3, <1>7, <1>8 DEF Owns, Issued
<1>11. (h'[p].pc # "refreshFailed" \/ h'[p].ok)
         => ~(grants'[g].spent /\ grants'[g].gen = h'[p].cred.gen)
  <2>1. CASE grants' = [grants EXCEPT ![g].gen = next, ![g].spent = FALSE]
    <3>1. grants'[g].spent = FALSE
      <4> HIDE DEF g, next
      <4> QED
        BY <1>3, <2>1 DEF TypeInv, Grant
    <3> QED
      BY <3>1
  <2>2. CASE h' = [h EXCEPT ![p].pc = "refreshFailed", ![p].ok = FALSE]
    <3>1. h'[p].pc = "refreshFailed" /\ h'[p].ok = FALSE
      BY <1>h, <2>2 DEF Local
    <3> QED
      BY <3>1
  <2>3. CASE /\ \E retryable \in BOOLEAN :
                  h' = [h EXCEPT ![p].pc = "refreshFailed", ![p].ok = retryable]
             /\ UNCHANGED grants
    <3>1. h'[p].cred = h[p].cred
      <4>1. PICK ok \in BOOLEAN : h' = [h EXCEPT ![p].pc = "refreshFailed", ![p].ok = ok]
        BY <2>3
      <4> QED
        BY <1>h, <4>1 DEF Local
    <3> QED
      BY <1>5, <2>3, <3>1
  <2> QED
    BY <1>6, <2>1, <2>2, <2>3
<1>12. Refreshes(p)'
  BY <1>1, <1>5, <1>8, <1>11 DEF Refreshes, Spent
<1> QED
  BY <1>9, <1>10, <1>12

\* Storing what the provider answered, or failing to.
LEMMA CommitsRow ==
  ASSUME TypeInv, TokenInv, NEW p \in Handlers, RefreshCommit(p), h'[p].pc \in RowPhases
  PROVE  Remembers(p)' /\ Owns(p)' /\ Refreshes(p)'
<1>h. h \in [Handlers -> GoodLocal] /\ h[p] \in Local
  BY DEF TypeInv, GoodLocal
<1> DEFINE c == h[p].conn
           r == conns[c]
           pending == r.status = "REVOCATION_PENDING" /\ r.refreshBy = p
           usable == /\ h[p].ok
                     /\ connector.enabled
                     /\ connector.version = h[p].connector.version
           next == [r EXCEPT !.refreshBy = None, !.version = @ + 1,
                      !.status = StatusAfterRefresh(pending, usable)]
<1>1. c \in Conns /\ c \in Slots /\ h[p].pc = "refreshCommit"
  BY DEF RefreshCommit, TypeInv, GoodLocal, ConnPhases, Slots
<1>2. ~Finish(p)
  BY FinishFields DEF RowPhases, CheckPhases, RefreshPhases
<1>3. /\ h[p].cred.grant \in Grants /\ (grants[h[p].cred.grant].status # "unissued")
      /\ grants[h[p].cred.grant].home = c
  BY <1>1 DEF TokenInv, Owns, Uses, RefreshPhases, Issued
<1>4. grants' = grants /\ connector' = connector
  BY DEF RefreshCommit
<1>5. CASE /\ next.status = "READY"
           /\ conns' = [conns EXCEPT ![c] = next]
           /\ vault' = [vault EXCEPT ![c] = Sealed(h[p].cred)]
           /\ h' = [h EXCEPT ![p].pc = "grantCheck", ![p].row = next,
                             ![p].connector = connector, ![p].ok = FALSE]
  <2> HIDE DEF next
  <2>1. /\ h'[p].pc = "grantCheck" /\ h'[p].row = next /\ h'[p].conn = c
        /\ h'[p].connector = connector /\ h'[p].cred = h[p].cred
    BY <1>h, <1>5 DEF Local
  <2>2. conns'[c] = next /\ vault'[c] = Sealed(h[p].cred)
    BY <1>1, <1>5 DEF TypeInv
  <2>3. ConnExists(next)
    BY <1>5 DEF ConnExists
  <2>4. Remembers(p)'
    BY <1>4, <2>1, <2>2, <2>3 DEF Remembers, PinnedBy
  <2>5. Owns(p)'
    BY <1>3, <1>4, <2>1 DEF Owns, Issued
  <2> QED
    BY <2>1, <2>4, <2>5 DEF Refreshes, RefreshPhases
<1>6. CASE /\ h' = [h EXCEPT ![p].pc = "refreshFailed", ![p].ok = FALSE]
           /\ UNCHANGED <<conns, vault, audit>>
  <2>1. /\ h'[p].pc = "refreshFailed" /\ h'[p].row = h[p].row /\ h'[p].conn = c
        /\ h'[p].connector = h[p].connector /\ h'[p].cred = h[p].cred /\ h'[p].ok = FALSE
    BY <1>h, <1>6 DEF Local
  <2>2. ~Fixes(h'[p]) /\ Uses(h[p]) /\ h[p].pc \in RowPhases
    BY <1>1, <2>1 DEF Fixes, Readied, CheckPhases, Uses, RefreshPhases, RowPhases
  <2>3. Remembers(p)' /\ Owns(p)'
    BY <1>4, <1>6, <2>1, <2>2, MovedOn
  <2>4. /\ h[p].row.status = "REFRESHING" /\ h[p].row.refreshBy = p
        /\ \/ conns[c] = h[p].row
           \/ conns[c].status \in {"RECONNECT_REQUIRED", "REVOCATION_PENDING", "DELETED"}
           \/ vault[c].cred.grant # h[p].cred.grant
        /\ conns[c].refreshBy = p => vault[c].cred.grant = h[p].cred.grant
    BY <1>1 DEF TokenInv, Refreshes, RefreshPhases
  <2>5. Refreshes(p)'
    BY <1>6, <2>1, <2>4 DEF Refreshes
  <2> QED
    BY <2>3, <2>5
<1> QED
  BY <1>2, <1>5, <1>6 DEF RefreshCommit

\* What a handler of a connection remembers after a step of its own.
LEMMA OwnRow ==
  ASSUME TypeInv, CiphertextInv, TokenInv, [Next]_vars, NEW p \in Handlers, h'[p] # h[p],
         h'[p].pc \in RowPhases
  PROVE  Remembers(p)' /\ Owns(p)' /\ Refreshes(p)'
<1>1. EntersRow(p)
  BY Entered
<1>2. CASE AccessRead(p) \/ AccessDecrypt(p)
  BY <1>2, ReadsRow
<1>3. CASE AccessClaim(p)
  BY <1>3, ClaimsRow
<1>4. CASE Refresh(p)
  BY <1>4, RefreshesRow
<1>5. CASE RefreshCommit(p)
  BY <1>5, CommitsRow
<1>6. CASE GrantCheck(p) \/ UseCheck(p)
  <2>1. ~Finish(p) /\ h'[p].pc # "dispatch"
    BY FinishFields DEF RowPhases, CheckPhases, RefreshPhases
  <2>2. \/ Goto(p, "useCheck") /\ h[p].pc = "grantCheck"
        \/ Goto(p, "assertCurrent") /\ h[p].pc = "useCheck"
    BY <1>6, <2>1, GotoFields DEF GrantCheck, UseCheck
  <2>3. UNCHANGED <<conns, vault, connector, grants>>
    BY <1>6, <2>1 DEF GrantCheck, UseCheck
  <2>4. /\ h'[p].pc \in {"useCheck", "assertCurrent"}
        /\ h'[p].conn = h[p].conn /\ h'[p].row = h[p].row
        /\ h'[p].connector = h[p].connector /\ h'[p].cred = h[p].cred
    BY <2>2, GotoFields
  <2>5. Fixes(h[p]) /\ Uses(h[p]) /\ h[p].pc \in RowPhases
    BY <2>2 DEF Fixes, Uses, CheckPhases, RowPhases
  <2>6. Remembers(p)' /\ Owns(p)'
    BY <2>3, <2>4, <2>5, MovedOn
  <2> QED
    BY <2>4, <2>6 DEF Refreshes, RefreshPhases
<1> QED
  BY <1>1, <1>2, <1>3, <1>4, <1>5, <1>6 DEF EntersRow

\* A handler that refreshes claimed the row just now, or was refreshing before.
LEMMA StartsRefresh ==
  ASSUME TypeInv, [Next]_vars, NEW p \in Handlers, h'[p] # h[p],
         h'[p].pc \in RefreshPhases
  PROVE  \/ h[p].pc \in RefreshPhases /\ h'[p].cred.grant = h[p].cred.grant
         \/ /\ h[p].pc = "accessClaim" /\ h'[p].cred = h[p].cred
            /\ h[p].conn \in Conns /\ conns[h[p].conn] = h[p].row
            /\ conns[h[p].conn].status = "READY"
<1>h. h \in [Handlers -> GoodLocal] /\ h[p] \in Local /\ h[p].cred \in Cred
  BY DEF TypeInv, GoodLocal, Local
<1>1. AccessClaim(p) \/ Refresh(p) \/ RefreshCommit(p)
  <2>1. EntersRow(p)
    BY Entered DEF RowPhases
  <2> QED
    BY <2>1, ConnectionPhases DEF EntersRow, RefreshPhases
<1>2. CASE AccessClaim(p)
  <2>1. ~Finish(p)
    BY FinishFields DEF RefreshPhases
  <2>2. ~Goto(p, "grantCheck")
    BY GotoFields DEF RefreshPhases
  <2>3. \E row : h' = [h EXCEPT ![p].pc = "refresh", ![p].row = row]
    BY <1>2, <2>1, <2>2 DEF AccessClaim
  <2>4. h'[p].cred = h[p].cred
    BY <1>h, <2>3 DEF Local
  <2>5. conns[h[p].conn] = h[p].row /\ conns[h[p].conn].status = "READY"
    BY <1>2, <2>1 DEF AccessClaim, Unchanged
  <2>6. h[p].pc = "accessClaim" /\ h[p].conn \in Conns
    BY <1>2 DEF AccessClaim, TypeInv, GoodLocal, ConnPhases
  <2> QED
    BY <2>4, <2>5, <2>6
<1>3. CASE Refresh(p)
  <2> DEFINE next == grants[h[p].cred.grant].gen + 1
  <2>1. \/ \E usable \in BOOLEAN :
             h' = [h EXCEPT ![p].pc = "refreshCommit", ![p].ok = usable, ![p].cred.gen = next]
        \/ \E ok \in BOOLEAN : h' = [h EXCEPT ![p].pc = "refreshFailed", ![p].ok = ok]
    BY <1>3 DEF Refresh
  <2>2. ASSUME NEW usable, NEW gen,
               h' = [h EXCEPT ![p].pc = "refreshCommit", ![p].ok = usable, ![p].cred.gen = gen]
        PROVE  h'[p].cred.grant = h[p].cred.grant
    BY <2>2, <1>h DEF Local, Cred
  <2>3. ASSUME NEW ok, h' = [h EXCEPT ![p].pc = "refreshFailed", ![p].ok = ok]
        PROVE  h'[p].cred.grant = h[p].cred.grant
    BY <2>3, <1>h DEF Local
  <2>4. h[p].pc \in RefreshPhases
    BY <1>3 DEF Refresh, RefreshPhases
  <2> QED
    BY <2>1, <2>2, <2>3, <2>4
<1>4. CASE RefreshCommit(p)
  <2>1. ~Finish(p)
    BY FinishFields DEF RefreshPhases
  <2>2. \/ \E row : h' = [h EXCEPT ![p].pc = "grantCheck", ![p].row = row,
                                   ![p].connector = connector, ![p].ok = FALSE]
        \/ h' = [h EXCEPT ![p].pc = "refreshFailed", ![p].ok = FALSE]
    <3>1. \/ \E row : h' = [h EXCEPT ![p].pc = "grantCheck", ![p].row = row,
                                     ![p].connector = connector, ![p].ok = FALSE]
          \/ h' = [h EXCEPT ![p].pc = "refreshFailed", ![p].ok = FALSE]
          \/ Finish(p)
      BY <1>4 DEF RefreshCommit
    <3> QED
      BY <2>1, <3>1
  <2>3. h'[p].cred = h[p].cred
    <3>1. ASSUME NEW row, h' = [h EXCEPT ![p].pc = "grantCheck", ![p].row = row,
                                        ![p].connector = connector, ![p].ok = FALSE]
          PROVE  h'[p].cred = h[p].cred
      BY <3>1, <1>h DEF Local
    <3>2. ASSUME h' = [h EXCEPT ![p].pc = "refreshFailed", ![p].ok = FALSE]
          PROVE  h'[p].cred = h[p].cred
      BY <3>2, <1>h DEF Local
    <3> QED
      BY <2>2, <3>1, <3>2
  <2>4. h[p].pc \in RefreshPhases
    BY <1>4 DEF RefreshCommit, RefreshPhases
  <2> QED
    BY <2>3, <2>4
<1> QED
  BY <1>1, <1>2, <1>3, <1>4

\* No two handlers refresh one grant.
LEMMA RefreshersStep ==
  ASSUME TypeInv, TokenInv, [Next]_vars
  PROVE  RefreshersDiffer'
<1> SUFFICES ASSUME NEW p \in Handlers, NEW q \in Handlers, p # q,
                    h'[p].pc \in RefreshPhases, h'[q].pc \in RefreshPhases
             PROVE  h'[p].cred.grant # h'[q].cred.grant
  BY DEF RefreshersDiffer
<1>1. ASSUME NEW a \in Handlers, NEW b \in Handlers, a # b, h'[a] = h[a], h'[b] # h[b],
             h'[a].pc \in RefreshPhases, h'[b].pc \in RefreshPhases
      PROVE  h'[a].cred.grant # h'[b].cred.grant
  <2>1. CASE h[b].pc \in RefreshPhases /\ h'[b].cred.grant = h[b].cred.grant
    BY <1>1, <2>1 DEF TokenInv, RefreshersDiffer
  <2>2. CASE /\ h[b].pc = "accessClaim" /\ h'[b].cred = h[b].cred
             /\ h[b].conn \in Conns /\ conns[h[b].conn] = h[b].row
             /\ conns[h[b].conn].status = "READY"
    <3>1. Uses(h[b]) /\ Fixes(h[b]) /\ h[b].pc \in RowPhases
      BY <2>2 DEF Uses, Fixes, Readied, RowPhases
    <3>2. vault[h[b].conn].cred.grant = h[b].cred.grant
      <4>1. vault[h[b].conn] = Sealed(h[b].cred)
        BY <2>2, <3>1 DEF TokenInv, Remembers
      <4> QED
        BY <4>1 DEF Sealed
    <3>3. grants[h[b].cred.grant].home = h[b].conn
      BY <3>1 DEF TokenInv, Owns
    <3>4. /\ grants[h[a].cred.grant].home = h[a].conn
          /\ h[a].row.status = "REFRESHING" /\ h[a].pc \in RefreshPhases
      BY <1>1 DEF TokenInv, Owns, Uses, Refreshes
    <3>5. SUFFICES ASSUME h[a].cred.grant = h[b].cred.grant
                   PROVE  FALSE
      BY <1>1, <2>2
    <3>6. h[a].conn = h[b].conn
      BY <3>3, <3>4, <3>5
    <3>7. conns[h[a].conn].status = "READY" /\ conns[h[a].conn] # h[a].row
      BY <2>2, <3>4, <3>6
    <3>8. vault[h[a].conn].cred.grant # h[a].cred.grant
      BY <3>4, <3>7, ClaimIsExclusive
    <3> QED
      BY <3>2, <3>5, <3>6, <3>8
  <2> QED
    BY <1>1, <2>1, <2>2, StartsRefresh
<1>2. CASE h'[p] = h[p] /\ h'[q] = h[q]
  BY <1>2 DEF TokenInv, RefreshersDiffer
<1>3. h'[p] = h[p] \/ h'[q] = h[q]
  BY Entered
<1> QED
  BY <1>1, <1>2, <1>3
--------------------------------------------------------------------------------
\* A grant of which no tokens were handed out has no history.
LEMMA UnissuedStep ==
  ASSUME TypeInv, TokenInv, [Next]_vars
  PROVE  UnissuedIsFresh'
<1> SUFFICES ASSUME NEW g \in Grants, grants'[g].status = "unissued"
             PROVE  ~grants'[g].spent /\ grants'[g].home = None
  BY DEF UnissuedIsFresh, Issued
<1>1. GrantMove(g)
  BY GrantMoves
<1>2. ASSUME NEW p \in Handlers, GrantIssued(p, g) \/ GrantTouched(p, g) \/ GrantPut(p, g)
      PROVE  FALSE
  <2>1. CASE GrantTouched(p, g)
    BY <2>1 DEF GrantTouched, TokenInv, Owns, Uses, RefreshPhases, Issued
  <2>2. CASE GrantPut(p, g)
    BY <2>2 DEF GrantPut, TokenInv, Receives, CallbackPhases, Issued
  <2> QED
    BY <1>2, <2>1, <2>2 DEF GrantIssued
<1> QED
  BY <1>1, <1>2 DEF GrantMove, GrantSame, TokenInv, UnissuedIsFresh, Issued

\* What a connection stores has that connection for its home.
LEMMA StoredStep ==
  ASSUME TypeInv, TokenInv, [Next]_vars
  PROVE  StoredAtHome'
<1> SUFFICES ASSUME NEW c \in Conns, CredentialsIn(c)'
             PROVE  /\ grants'[vault'[c].cred.grant].status # "unissued"
                    /\ grants'[vault'[c].cred.grant].home = c
  BY DEF StoredAtHome, Issued
<1>1. RowMove(c)
  BY RowMoves
<1>none. c # None /\ c \in Slots
  BY NoneIsNothing DEF Slots
<1>2. CASE vault'[c] = vault[c]
  <2> DEFINE g == vault[c].cred.grant
  <2>1. CredentialsIn(c)
    BY <1>2 DEF CredentialsIn
  <2>2. g \in Grants
    BY <1>none, <2>1 DEF TypeInv, GoodSecret, CredentialsIn
  <2>3. Issued(g) /\ grants[g].home = c
    BY <2>1 DEF TokenInv, StoredAtHome
  <2>4. (grants'[g].status # "unissued") /\ grants'[g].home = c
    <3> HIDE DEF g
    <3> QED
      BY <1>none, <2>2, <2>3, HomesKept DEF Issued
  <2> QED
    BY <1>2, <2>4
<1>3. CASE RowDeleted(c)
  BY <1>3 DEF RowDeleted, CredentialsIn, NoSecret
<1>4. ASSUME NEW p \in Handlers, PutInto(p, c) \/ RotatedBy(p, c)
      PROVE  /\ grants'[vault'[c].cred.grant].status # "unissued"
             /\ grants'[vault'[c].cred.grant].home = c
  <2> DEFINE g == h[p].cred.grant
  <2>1. g \in Grants /\ Issued(g)
    BY <1>4 DEF PutInto, RotatedBy, TokenInv, Receives, Owns, Uses, CallbackPhases, RefreshPhases
  <2>2. vault'[c].cred.grant = g
    BY <1>4 DEF PutInto, RotatedBy, Sealed
  <2>3. (grants'[g].status # "unissued")
        /\ (grants[g].home # None => grants'[g].home = grants[g].home)
    <3> HIDE DEF g
    <3> QED
      BY <2>1, HomesKept DEF Issued
  <2>4. grants'[g].home = c
    <3>1. CASE PutInto(p, c)
      BY <3>1 DEF PutInto
    <3>2. CASE RotatedBy(p, c)
      <4>1. grants[g].home = c
        BY <3>2 DEF RotatedBy, TokenInv, Owns, Uses, RefreshPhases
      <4> QED
        BY <1>none, <2>3, <4>1
    <3> QED
      BY <1>4, <3>1, <3>2
  <2> QED
    BY <2>2, <2>3, <2>4
<1> QED
  BY <1>1, <1>2, <1>3, <1>4 DEF RowMove, RowSame, RowStopped, ClaimedBy, ReleasedBy

\* The tokens of a READY connection have not been presented: a refresh of the same
\* grant by a handler whose claim is over would need another value in the row.
LEMMA ReadyStep ==
  ASSUME TypeInv, CiphertextInv, TokenInv, [Next]_vars
  PROVE  ReadyIsUnspent'
<1> SUFFICES ASSUME NEW c \in Conns, conns'[c].status = "READY"
             PROVE  ~(/\ grants'[vault'[c].cred.grant].spent
                      /\ grants'[vault'[c].cred.grant].gen = vault'[c].cred.gen)
  BY DEF ReadyIsUnspent, Spent
<1>1. RowMove(c)
  BY RowMoves
<1>none. c # None /\ c \in Slots
  BY NoneIsNothing DEF Slots
<1>2. CASE RowSame(c)
  <2> DEFINE g == vault[c].cred.grant
  <2>1. conns[c].status = "READY" /\ vault'[c] = vault[c]
    BY <1>2 DEF RowSame
  <2>2. CredentialsIn(c)
    BY <2>1 DEF CiphertextInv, NoOrphanCiphertext, ConnExists
  <2>3. g \in Grants /\ Issued(g) /\ grants[g].home = c
    BY <1>none, <2>2 DEF TypeInv, GoodSecret, CredentialsIn, TokenInv, StoredAtHome
  <2>4. ~Spent(vault[c].cred)
    BY <2>1 DEF TokenInv, ReadyIsUnspent
  <2>5. ASSUME NEW p \in Handlers, GrantTouched(p, g)
        PROVE  FALSE
    <3>1. h[p].pc \in RefreshPhases /\ h[p].cred.grant = g
      BY <2>5 DEF GrantTouched, RefreshPhases
    <3>2. h[p].conn = c
      BY <2>3, <3>1 DEF TokenInv, Owns, Uses
    <3>3. conns[c] # h[p].row
      BY <2>1, <3>1 DEF TokenInv, Refreshes
    <3> QED
      BY <2>1, <3>1, <3>2, <3>3, ClaimIsExclusive
  <2>6. grants'[g].spent = grants[g].spent /\ grants'[g].gen = grants[g].gen
    <3> HIDE DEF g
    <3> QED
      BY <2>3, <2>5, SpentKept
  <2> QED
    BY <2>1, <2>4, <2>6 DEF Spent
<1>3. ASSUME NEW p \in Handlers, PutInto(p, c)
      PROVE  ~(/\ grants'[vault'[c].cred.grant].spent
               /\ grants'[vault'[c].cred.grant].gen = vault'[c].cred.gen)
  <2> DEFINE g == h[p].cred.grant
  <2>1. vault'[c].cred = h[p].cred
    BY <1>3 DEF PutInto, Sealed
  <2>2. g \in Grants /\ Issued(g) /\ ~grants[g].spent /\ grants[g].home = None
    BY <1>3 DEF PutInto, TokenInv, Receives, CallbackPhases
  <2>3. ASSUME NEW q \in Handlers, GrantTouched(q, g)
        PROVE  FALSE
    <3>1. h[q].pc = "refresh" /\ h[q].cred.grant = g
      BY <2>3 DEF GrantTouched
    <3>2. grants[g].home = h[q].conn /\ h[q].conn \in Conns
      BY <3>1 DEF TokenInv, Owns, Uses, RefreshPhases, TypeInv, GoodLocal, ConnPhases
    <3> QED
      BY <2>2, <3>2, NoneIsNothing
  <2>4. grants'[g].spent = grants[g].spent
    <3> HIDE DEF g
    <3> QED
      BY <2>2, <2>3, SpentKept
  <2> QED
    BY <2>1, <2>2, <2>4
<1>4. ASSUME NEW p \in Handlers, RotatedBy(p, c) \/ ReleasedBy(p, c)
      PROVE  ~(/\ grants'[vault'[c].cred.grant].spent
               /\ grants'[vault'[c].cred.grant].gen = vault'[c].cred.gen)
  <2> DEFINE g == h[p].cred.grant
  <2>1. h[p].pc \in RefreshPhases /\ h[p].conn = c /\ h[p].pc # "refresh"
    BY <1>4 DEF RotatedBy, ReleasedBy, RefreshPhases
  <2>2. g \in Grants /\ Issued(g)
    BY <2>1 DEF TokenInv, Owns, Uses
  <2>3. vault'[c].cred = h[p].cred /\ (h[p].pc # "refreshFailed" \/ h[p].ok)
    <3>1. CASE RotatedBy(p, c)
      BY <3>1 DEF RotatedBy, Sealed
    <3>2. CASE ReleasedBy(p, c)
      <4>1. h[p].ok /\ h[p].pc = "refreshFailed"
        BY <3>2 DEF ReleasedBy, StatusAfterFailure
      <4>2. conns[c] = h[p].row
        BY <2>1, <3>2, ClaimStands DEF ReleasedBy
      <4>3. vault[c] = Sealed(h[p].cred)
        BY <2>1, <4>1, <4>2 DEF TokenInv, Remembers, Fixes, RowPhases
      <4>4. vault'[c] = Sealed(h[p].cred)
        BY <3>2, <4>3 DEF ReleasedBy
      <4> QED
        BY <4>1, <4>4 DEF Sealed
    <3> QED
      BY <1>4, <3>1, <3>2
  <2>4. ~Spent(h[p].cred)
    BY <2>1, <2>3 DEF TokenInv, Refreshes
  <2>5. ASSUME NEW q \in Handlers, GrantTouched(q, g)
        PROVE  FALSE
    <3>1. q = p
      BY <2>1, <2>5, RefreshUntouched
    <3> QED
      BY <2>1, <2>5, <3>1 DEF GrantTouched
  <2>6. grants'[g].spent = grants[g].spent /\ grants'[g].gen = grants[g].gen
    <3> HIDE DEF g
    <3> QED
      BY <2>2, <2>5, SpentKept
  <2> QED
    BY <2>3, <2>4, <2>6 DEF Spent
<1>5. ~RowStopped(c) /\ ~RowDeleted(c) /\ \A p \in Handlers : ~ClaimedBy(p, c)
  BY DEF RowStopped, RowDeleted, DeletedConn, UnusedConn, ClaimedBy
<1> QED
  BY <1>1, <1>2, <1>3, <1>4, <1>5 DEF RowMove

\* Every step keeps what is known of tokens.
LEMMA TokenStep ==
  ASSUME TypeInv, CiphertextInv, TokenInv, [Next]_vars
  PROVE  TokenInv'
<1>1. ASSUME NEW p \in Handlers
      PROVE  (Remembers(p) /\ Owns(p) /\ Receives(p) /\ Refreshes(p))'
  <2>1. CASE h'[p] = h[p]
    <3>1. h[p].pc \in CallbackPhases => Receives(p)'
      BY <2>1, OthersReceive
    <3>2. h[p].pc \in RefreshPhases => Refreshes(p)'
      BY <2>1, OthersRefresh
    <3>3. Receives(p)' /\ Refreshes(p)'
      BY <2>1, <3>1, <3>2 DEF Receives, Refreshes
    <3> QED
      BY <2>1, <3>3, OthersRemember
  <2>2. CASE h'[p] # h[p]
    <3>1. CASE h'[p].pc \in RowPhases
      <4>1. Receives(p)'
        BY <3>1 DEF Receives, CallbackPhases, RowPhases, CheckPhases, RefreshPhases
      <4> QED
        BY <2>2, <3>1, <4>1, OwnRow
    <3>2. CASE h'[p].pc \notin RowPhases
      <4>1. Remembers(p)' /\ Owns(p)' /\ Refreshes(p)'
        BY <3>2 DEF Remembers, Owns, Refreshes, Uses, Readied, RowPhases
      <4>2. h'[p].pc \in CallbackPhases => Receives(p)'
        BY <2>2, OwnReceives
      <4>3. Receives(p)'
        BY <4>2 DEF Receives
      <4> QED
        BY <4>1, <4>3
    <3> QED
      BY <3>1, <3>2
  <2> QED
    BY <2>1, <2>2
<1>2. UnissuedIsFresh' /\ StoredAtHome' /\ ReadyIsUnspent'
  BY UnissuedStep, StoredStep, ReadyStep
<1>3. ReceiversDiffer' /\ RefreshersDiffer'
  BY ReceiversStep, RefreshersStep
<1> QED
  BY <1>1, <1>2, <1>3 DEF TokenInv

\* Nothing is known at first, and nothing needs to be.
LEMMA TokenInit ==
  ASSUME Init
  PROVE  TokenInv
<1>1. \A p \in Handlers : h[p].pc = "idle"
  BY DEF Init, Idle
<1>2. \A p \in Handlers : Remembers(p) /\ Owns(p) /\ Receives(p) /\ Refreshes(p)
  BY <1>1 DEF Remembers, Owns, Receives, Refreshes, Uses, Readied, CallbackPhases, RowPhases,
     RefreshPhases, CheckPhases
<1>3. ReceiversDiffer /\ RefreshersDiffer
  BY <1>1 DEF ReceiversDiffer, RefreshersDiffer, CallbackPhases, RefreshPhases
<1>4. UnissuedIsFresh /\ ReadyIsUnspent
  BY DEF Init, UnissuedIsFresh, ReadyIsUnspent, NoGrant, UnusedConn
<1>5. StoredAtHome
  BY DEF Init, StoredAtHome, CredentialsIn, Slots, NoSecret
<1> QED
  BY <1>2, <1>3, <1>4, <1>5 DEF TokenInv

\* The inductive invariant behind the theorems on tokens.
CustodyInv == TypeInv /\ CiphertextInv /\ TokenInv

\* Every behaviour keeps it.
LEMMA CustodyInvariant == Spec => []CustodyInv
<1>1. Init => CustodyInv
  BY TypeInvInit, CiphertextInit, TokenInit DEF CustodyInv
<1>2. CustodyInv /\ [Next]_vars => CustodyInv'
  BY TypeInvStep, CiphertextStep, TokenStep DEF CustodyInv
<1> QED
  BY <1>1, <1>2, PTL DEF Spec

\* No blind retry (refreshCredentials, connection-access.ts): whatever claims are
\* interrupted, fenced or overtaken, tokens about to be presented for a refresh were
\* not presented before with an unknown outcome, and one handler only presents them.
THEOREM NoTokenPresentedTwice == Spec => []NoBlindRetry
<1>1. CustodyInv => NoBlindRetry
  <2> SUFFICES ASSUME CustodyInv, NEW p \in Handlers, h[p].pc = "refresh"
               PROVE  /\ ~(/\ grants[h[p].cred.grant].spent
                           /\ grants[h[p].cred.grant].gen = h[p].cred.gen)
                      /\ \A q \in Handlers \ {p} : h[q].pc = "refresh" => h[q].cred # h[p].cred
    BY DEF NoBlindRetry
  <2>1. Refreshes(p) /\ RefreshersDiffer
    BY DEF CustodyInv, TokenInv
  <2> QED
    BY <2>1 DEF Refreshes, RefreshersDiffer, RefreshPhases, Spent
<1> QED
  BY <1>1, CustodyInvariant, PTL

\* assertCurrent of authorizeConnectionUse: when it lets a request leave, the
\* credential read several transactions earlier is the one stored now, the
\* connection is READY, and the connector is the revision read then.
THEOREM DispatchIsCurrent == Spec => DispatchesCurrentCredential
<1>1. ASSUME CustodyInv, [Next]_vars, NEW p \in Handlers,
             h[p].pc = "assertCurrent", h'[p].pc = "dispatch"
      PROVE  /\ conns[h[p].conn].status = "READY"
             /\ vault[h[p].conn] = Sealed(h[p].cred)
             /\ connector = h[p].connector
             /\ entitled
  <2>1. UseCheck(p)
    BY <1>1, Entered DEF CustodyInv
  <2>2. Current(p)
    <3>1. ~Finish(p)
      BY <1>1, FinishFields DEF CustodyInv
    <3> QED
      BY <2>1, <3>1 DEF UseCheck
  <2>3. Remembers(p) /\ h[p].pc \in RowPhases /\ Fixes(h[p])
    BY <1>1 DEF CustodyInv, TokenInv, RowPhases, CheckPhases, Fixes
  <2>4. /\ connector \in ConnectorRow /\ h[p].row \in ConnRow /\ h[p].connector \in ConnectorRow
    BY <1>1 DEF CustodyInv, TypeInv, GoodLocal, Local
  <2>5. conns[h[p].conn] = h[p].row
    <3>1. PinnedBy(conns[h[p].conn], h[p].row)
      BY <2>3 DEF Remembers
    <3>2. conns[h[p].conn].status = "READY" /\ conns[h[p].conn].version = h[p].row.version
      BY <2>2 DEF Current
    <3>3. h[p].row.version \in Nat
      BY <2>4 DEF ConnRow
    <3> QED
      BY <3>1, <3>2, <3>3 DEF PinnedBy
  <2>6. vault[h[p].conn] = Sealed(h[p].cred)
    BY <2>3, <2>5 DEF Remembers
  <2>7. connector = h[p].connector
    <3>1. /\ connector.present /\ connector.version = h[p].connector.version
          /\ h[p].connector.version \in Nat
      BY <2>2, <2>4 DEF Current, ConnectorOpen, ConnectorRow
    <3> QED
      BY <2>3, <3>1 DEF Remembers
  <2> QED
    BY <2>2, <2>6, <2>7 DEF Current, ConnectorOpen
<1>2. CustodyInv /\ [Next]_vars =>
        [\A p \in Handlers : h[p].pc = "assertCurrent" /\ h'[p].pc = "dispatch" =>
           LET c == h[p].conn
           IN /\ conns[c].status = "READY"
              /\ vault[c] = Sealed(h[p].cred)
              /\ connector = h[p].connector
              /\ entitled]_vars
  BY <1>1
<1> QED
  BY <1>2, CustodyInvariant, PTL DEF Spec, DispatchesCurrentCredential
--------------------------------------------------------------------------------
\* The statuses of an attempt that keeps tokens, and where an attempt can be that
\* was once read with one of them.
RetainedStatus == {"NEEDS_REVOCATION", "REVOCATION_PENDING"}
Contents == \A a \in Attempts : CredentialsIn(a) <=> attempts[a].status \in RetainedStatus
Ahead(now, then) ==
  /\ then = "NEEDS_REVOCATION" =>
       now \in RetainedStatus \cup {"COMPLETED", "CANCELLED", "FAILED", "DELETED"}
  /\ then = "REVOCATION_PENDING" => now \in {"REVOCATION_PENDING", "CANCELLED", "DELETED"}

\* What a disconnect remembers: the row and the attempts may move away under it; as
\* long as they have not, each credential they hold is one it still has to revoke or
\* one that is revoked, unless it already knows that it cannot confirm.
Covered(l, s) == vault[s].cred \in l.creds \/ grants[vault[s].cred.grant].status = "revoked"
Read(l) == l.pc \in {"disconnectClaim", "disconnectRevoke"} /\ l.ok
Follows(p) ==
  LET l == h[p] IN
  l.pc \in DiscPhases =>
    /\ ConnExists(l.row) /\ PinnedBy(conns[l.conn], l.row)
    /\ l.pc \notin {"disconnectAttempts", "disconnectBlock"} =>
         \A a \in Attempts :
           AttemptExists(l.rows[a]) => Ahead(attempts[a].status, l.rows[a].status)
    /\ Read(l) /\ conns[l.conn] = l.row => Covered(l, l.conn)
    /\ Read(l) =>
         \A a \in Attempts :
           AttemptExists(l.rows[a]) /\ attempts[a].status = l.rows[a].status
             /\ CredentialsIn(a) => Covered(l, a)

\* Tokens stay in an attempt as long as its status says that it keeps them.
LEMMA ContentsStep ==
  ASSUME TypeInv, CiphertextInv, Contents, [Next]_vars
  PROVE  Contents'
<1> SUFFICES ASSUME NEW a \in Attempts
             PROVE  (vault'[a].kind = "credentials") <=> attempts'[a].status \in RetainedStatus
  BY DEF Contents, CredentialsIn
<1>1. AttemptMove(a)
  BY AttemptMoves
<1>2. (vault[a].kind = "credentials") <=> attempts[a].status \in RetainedStatus
  BY DEF Contents, CredentialsIn
<1>3. CASE Discarded(a)
  <2>1. CASE vault'[a] = NoSecret
    BY <1>3, <2>1 DEF Discarded, NoSecret, RetainedStatus
  <2>2. CASE /\ vault'[a] = vault[a]
             /\ \E p \in Handlers : /\ h[p].pc = "startClean" /\ a \in h[p].todo
                                    /\ attempts[a].status = h[p].rows[a].status
    <3>1. attempts[a].status \in AbandonableStatus
      BY <2>2 DEF CiphertextInv, SnapshotsLag
    <3> QED
      BY <1>2, <1>3, <2>2, <3>1 DEF Discarded, AbandonableStatus, RetainedStatus
  <2> QED
    BY <1>3, <2>1, <2>2 DEF Discarded
<1> QED
  BY <1>1, <1>2, <1>3 DEF AttemptMove, Kept, Closed, Created, Sent, Advanced, Retained, NoSecret,
     OAuthPayload, RetainedStatus

\* An attempt that was read keeping tokens goes on only to where Ahead says; while
\* its status is the one read, its value is the one read.
LEMMA AheadKept ==
  ASSUME TypeInv, NEW a \in Attempts, AttemptMove(a), NEW then, Ahead(attempts[a].status, then)
  PROVE  /\ Ahead(attempts'[a].status, then)
         /\ attempts'[a].status = then /\ then \in RetainedStatus =>
              attempts[a].status = then /\ vault'[a] = vault[a]
  BY DEF AttemptMove, Kept, Closed, Created, Sent, Advanced, Retained, Discarded, Ahead,
     RetainedStatus

\* A grant once revoked stays revoked.
LEMMA RevokedStays ==
  ASSUME TypeInv, [Next]_vars, NEW g \in Grants, grants[g].status = "revoked"
  PROVE  grants'[g].status = "revoked"
<1>1. GrantMove(g)
  BY GrantMoves
<1> QED
  BY <1>1 DEF GrantMove, GrantSame, GrantIssued, GrantTouched, GrantPut

\* A disconnect that does not run goes on knowing what it knows.
LEMMA OthersFollow ==
  ASSUME TypeInv, CiphertextInv, Contents, [Next]_vars, NEW p \in Handlers, h'[p] = h[p],
         Follows(p)
  PROVE  Follows(p)'
<1> SUFFICES ASSUME h[p].pc \in DiscPhases
             PROVE  Follows(p)'
  BY DEF Follows
<1> DEFINE l == h[p]
<1>1. l.conn \in Conns /\ l.row \in ConnRow /\ l.conn \in Slots
  BY DEF TypeInv, GoodLocal, Local, ConnPhases, DiscPhases, Slots
<1>2. ConnExists(l.row) /\ PinnedBy(conns[l.conn], l.row)
  BY DEF Follows
<1>3. RowMove(l.conn)
  BY <1>1, RowMoves
<1>4. /\ PinnedBy(conns'[l.conn], l.row)
      /\ conns'[l.conn] = l.row => conns[l.conn] = l.row /\ vault'[l.conn] = vault[l.conn]
  BY <1>1, <1>2, <1>3, PinKept
<1>5. ASSUME NEW s \in Slots, CredentialsIn(s), Covered(l, s), vault'[s] = vault[s]
      PROVE  vault'[s].cred \in l.creds \/ grants'[vault'[s].cred.grant].status = "revoked"
  <2>1. vault[s].cred.grant \in Grants
    BY <1>5 DEF TypeInv, GoodSecret, CredentialsIn
  <2>2. ASSUME NEW g \in Grants, g = vault[s].cred.grant, grants[g].status = "revoked"
        PROVE  grants'[g].status = "revoked"
    BY <2>2, RevokedStays
  <2> QED
    BY <1>5, <2>1, <2>2 DEF Covered
<1>6. ASSUME Read(l), conns'[l.conn] = l.row
      PROVE  vault'[l.conn].cred \in l.creds
             \/ grants'[vault'[l.conn].cred.grant].status = "revoked"
  <2>1. CredentialsIn(l.conn)
    BY <1>1, <1>2, <1>4, <1>6 DEF CiphertextInv, NoOrphanCiphertext
  <2>2. Covered(l, l.conn)
    BY <1>4, <1>6 DEF Follows
  <2> QED
    BY <1>1, <1>4, <1>5, <1>6, <2>1, <2>2
<1>7. ASSUME l.pc \notin {"disconnectAttempts", "disconnectBlock"}, NEW a \in Attempts,
             AttemptExists(l.rows[a])
      PROVE  /\ Ahead(attempts'[a].status, l.rows[a].status)
             /\ Read(l) /\ attempts'[a].status = l.rows[a].status /\ CredentialsIn(a)' =>
                  \/ vault'[a].cred \in l.creds
                  \/ grants'[vault'[a].cred.grant].status = "revoked"
  <2>1. Ahead(attempts[a].status, l.rows[a].status)
    BY <1>7 DEF Follows
  <2>2. AttemptMove(a)
    BY AttemptMoves
  <2>3. /\ Ahead(attempts'[a].status, l.rows[a].status)
        /\ attempts'[a].status = l.rows[a].status /\ l.rows[a].status \in RetainedStatus =>
             attempts[a].status = l.rows[a].status /\ vault'[a] = vault[a]
    BY <2>1, <2>2, AheadKept
  <2>4. ASSUME Read(l), attempts'[a].status = l.rows[a].status, CredentialsIn(a)'
        PROVE  vault'[a].cred \in l.creds \/ grants'[vault'[a].cred.grant].status = "revoked"
    <3>1. l.rows[a].status \in RetainedStatus
      BY <2>4, ContentsStep DEF Contents
    <3>2. attempts[a].status = l.rows[a].status /\ vault'[a] = vault[a]
      BY <2>3, <2>4, <3>1
    <3>3. CredentialsIn(a)
      BY <3>1, <3>2 DEF Contents
    <3>4. Covered(l, a)
      BY <1>7, <2>4, <3>2, <3>3 DEF Follows
    <3>5. a \in Slots
      BY DEF Slots
    <3> QED
      BY <1>5, <3>2, <3>3, <3>4, <3>5
  <2> QED
    BY <2>3, <2>4
<1>8. Read(l) => l.pc \notin {"disconnectAttempts", "disconnectBlock"}
  BY DEF Read
<1>9. /\ ConnExists(h'[p].row) /\ PinnedBy(conns'[h'[p].conn], h'[p].row)
      /\ h'[p].pc \notin {"disconnectAttempts", "disconnectBlock"} =>
           \A a \in Attempts :
             AttemptExists(h'[p].rows[a]) => Ahead(attempts'[a].status, h'[p].rows[a].status)
  BY <1>2, <1>4, <1>7
<1>10. Read(h'[p]) /\ conns'[h'[p].conn] = h'[p].row => Covered(h[p], h[p].conn)'
  BY <1>6 DEF Covered
<1>11. Read(h'[p]) =>
         \A a \in Attempts :
           AttemptExists(h'[p].rows[a]) /\ attempts'[a].status = h'[p].rows[a].status
             /\ CredentialsIn(a)' => Covered(h[p], a)'
  BY <1>7, <1>8 DEF Covered
<1> QED
  BY <1>9, <1>10, <1>11 DEF Follows

\* A disconnect that reads the connection, then its attempts, then their values.
LEMMA ReadsAll ==
  ASSUME TypeInv, CiphertextInv, Contents, NEW p \in Handlers, Follows(p),
         DisconnectRead(p) \/ DisconnectAttempts(p) \/ DisconnectDecrypt(p)
  PROVE  Follows(p)'
<1>h. h \in [Handlers -> GoodLocal] /\ h[p] \in Local
  BY DEF TypeInv, GoodLocal
<1>same. UNCHANGED <<conns, attempts, vault, grants>>
  BY DEF DisconnectRead, DisconnectAttempts, DisconnectDecrypt
<1>1. CASE DisconnectRead(p)
  <2>1. PICK c \in Conns :
          /\ ConnExists(conns[c])
          /\ h' = [h EXCEPT ![p].pc = "disconnectAttempts", ![p].conn = c, ![p].row = conns[c],
                            ![p].connector = connector]
    BY <1>1 DEF DisconnectRead
  <2>2. h'[p].pc = "disconnectAttempts" /\ h'[p].conn = c /\ h'[p].row = conns[c]
    BY <1>h, <2>1 DEF Local
  <2> QED
    BY <1>same, <2>1, <2>2 DEF Follows, PinnedBy, Read
<1>2. CASE DisconnectAttempts(p)
  <2> DEFINE c == h[p].conn
  <2>0. h[p].pc \in DiscPhases
    BY <1>2 DEF DisconnectAttempts, DiscPhases
  <2>1. /\ h'[p].pc \in {"disconnectBlock", "disconnectDecrypt"} /\ h'[p].conn = c
        /\ h'[p].row = h[p].row /\ h'[p].rows = Rows(c)
    BY <1>2, <1>h DEF DisconnectAttempts, Local
  <2>2. \A a \in Attempts : AttemptExists(Rows(c)[a]) => Rows(c)[a] = attempts[a]
    BY DEF Rows, AttemptExists, UnusedAttempt
  <2>3. \A a \in Attempts : Ahead(attempts[a].status, attempts[a].status)
    BY DEF Ahead, RetainedStatus
  <2>4. ConnExists(h[p].row) /\ PinnedBy(conns[c], h[p].row)
    BY <2>0 DEF Follows
  <2>5. \A a \in Attempts :
          AttemptExists(h'[p].rows[a]) => Ahead(attempts'[a].status, h'[p].rows[a].status)
    BY <1>same, <2>1, <2>2, <2>3
  <2>6. ~Read(h'[p])
    BY <2>1 DEF Read
  <2> QED
    BY <1>same, <2>1, <2>4, <2>5, <2>6 DEF Follows
<1>3. CASE DisconnectDecrypt(p)
  <2> DEFINE c == h[p].conn
             values == {c} \cup {a \in Attempts : h[p].rows[a].payload}
  <2>0. h[p].pc \in DiscPhases /\ c \in Conns /\ h[p].pc = "disconnectDecrypt"
    BY <1>3 DEF DisconnectDecrypt, DiscPhases, TypeInv, GoodLocal, ConnPhases
  <2>1. CASE Finish(p)
    BY <2>1, FinishFields DEF Follows, DiscPhases
  <2>2. ASSUME NEW unread \in SUBSET values, NEW read,
               read = {s \in values \ unread : vault[s].kind = "credentials"},
               h' = [h EXCEPT ![p].pc = "disconnectClaim",
                       ![p].creds = {vault[s].cred : s \in read},
                       ![p].ok = /\ unread = {}
                                 /\ h[p].row.refreshBy = None
                                 /\ \A a \in Attempts :
                                      h[p].rows[a].status \in
                                        {"NEEDS_REVOCATION", "REVOCATION_PENDING"}
                                      => a \in read]
        PROVE  Follows(p)'
    <3> DEFINE ok == /\ unread = {}
                     /\ h[p].row.refreshBy = None
                     /\ \A a \in Attempts :
                          h[p].rows[a].status \in {"NEEDS_REVOCATION", "REVOCATION_PENDING"}
                          => a \in read
               creds == {vault[s].cred : s \in read}
    <3>1. /\ h'[p].pc = "disconnectClaim" /\ h'[p].conn = c /\ h'[p].row = h[p].row
          /\ h'[p].rows = h[p].rows /\ h'[p].creds = creds
      <4> HIDE DEF ok, creds
      <4>1. h' = [h EXCEPT ![p].pc = "disconnectClaim", ![p].creds = creds, ![p].ok = ok]
        BY <2>2 DEF ok, creds
      <4> QED
        BY <1>h, <4>1 DEF Local
    <3>2. h'[p].ok = ok
      <4> HIDE DEF ok, creds
      <4>1. h' = [h EXCEPT ![p].pc = "disconnectClaim", ![p].creds = creds, ![p].ok = ok]
        BY <2>2 DEF ok, creds
      <4> QED
        BY <1>h, <4>1, Zenon DEF Local
    <3>3. /\ ConnExists(h[p].row) /\ PinnedBy(conns[c], h[p].row)
          /\ \A a \in Attempts :
               AttemptExists(h[p].rows[a]) => Ahead(attempts[a].status, h[p].rows[a].status)
      BY <2>0 DEF Follows
    <3>4. ASSUME h'[p].ok, conns[c] = h[p].row
          PROVE  vault[c].cred \in creds
      <4>1. CredentialsIn(c)
        BY <2>0, <3>3, <3>4 DEF CiphertextInv, NoOrphanCiphertext
      <4>2. c \in read
        BY <2>2, <3>2, <3>4, <4>1 DEF CredentialsIn
      <4> QED
        BY <4>2
    <3>5. ASSUME h'[p].ok, NEW a \in Attempts, attempts[a].status = h[p].rows[a].status,
                 CredentialsIn(a)
          PROVE  vault[a].cred \in creds
      <4>1. attempts[a].status \in RetainedStatus
        BY <3>5 DEF Contents
      <4>2. a \in read
        BY <3>2, <3>5, <4>1 DEF RetainedStatus
      <4> QED
        BY <4>2
    <3> HIDE DEF ok, creds
    <3>6. Read(h'[p]) =>
            \A a \in Attempts :
              AttemptExists(h'[p].rows[a]) /\ attempts'[a].status = h'[p].rows[a].status
                /\ CredentialsIn(a)' => vault'[a].cred \in h'[p].creds
      BY <1>same, <3>1, <3>5 DEF Read, CredentialsIn
    <3>7. Read(h'[p]) /\ conns'[h'[p].conn] = h'[p].row => vault'[h'[p].conn].cred \in h'[p].creds
      BY <1>same, <3>1, <3>4 DEF Read
    <3> QED
      BY <1>same, <3>1, <3>3, <3>6, <3>7 DEF Follows, Covered
  <2> QED
    BY <1>3, <2>1, <2>2 DEF DisconnectDecrypt
<1> QED
  BY <1>1, <1>2, <1>3

\* The claim takes the attempts along: what it read is what it stops.
LEMMA ClaimsAll ==
  ASSUME TypeInv, CiphertextInv, Contents, NEW p \in Handlers, Follows(p), DisconnectClaim(p)
  PROVE  Follows(p)'
<1>h. h \in [Handlers -> GoodLocal] /\ h[p] \in Local
  BY DEF TypeInv, GoodLocal
<1> DEFINE c == h[p].conn
           stopped == [a \in Attempts |->
             IF a \in AttemptsOf(c)
             THEN [attempts[a] EXCEPT !.status = Stopped(@), !.state = FALSE]
             ELSE attempts[a]]
           rows == [a \in Attempts |-> IF a \in AttemptsOf(c) THEN stopped[a] ELSE UnusedAttempt]
           row == Blocked(h[p].row)
<1>0. c \in Conns /\ h[p].pc = "disconnectClaim" /\ h[p].pc \in DiscPhases
  BY DEF DisconnectClaim, DiscPhases, TypeInv, GoodLocal, ConnPhases
<1>1. CASE Finish(p)
  BY <1>1, FinishFields DEF Follows, DiscPhases
<1>2. CASE /\ Same(p)
           /\ conns' = [conns EXCEPT ![c] = Blocked(@)]
           /\ attempts' = stopped
           /\ h' = [h EXCEPT ![p].pc = "disconnectRevoke", ![p].row = Blocked(@),
                             ![p].rows = rows]
  <2>1. /\ h'[p].pc = "disconnectRevoke" /\ h'[p].conn = c /\ h'[p].rows = rows
        /\ h'[p].creds = h[p].creds /\ h'[p].row = row
    <3> HIDE DEF rows
    <3>1. h' = [h EXCEPT ![p].pc = "disconnectRevoke", ![p].row = row, ![p].rows = rows]
      BY <1>2, <1>h DEF Local
    <3> HIDE DEF row
    <3> QED
      BY <1>h, <3>1 DEF Local
  <2>ok. h'[p].ok = h[p].ok
    <3> HIDE DEF rows
    <3> QED
      BY <1>h, <1>2, Zenon DEF Local
  <2>2. conns[c] = h[p].row /\ Rows(c) = h[p].rows
    BY <1>2 DEF Same
  <2>3. conns'[c] = row /\ ConnExists(row)
    <3>1. conns'[c] = row
      BY <1>0, <1>2, <2>2 DEF TypeInv
    <3>2. conns[c] \in ConnRow
      BY <1>0 DEF TypeInv
    <3>3. row.status = "REVOCATION_PENDING"
      BY <2>2, <3>2 DEF Blocked, ConnRow
    <3> QED
      BY <3>1, <3>3 DEF ConnExists
  <2>4. UNCHANGED <<vault, grants>>
    BY DEF DisconnectClaim
  <2>5. ASSUME NEW a \in Attempts, AttemptExists(rows[a])
        PROVE  /\ a \in AttemptsOf(c)
               /\ attempts'[a] = rows[a] /\ h[p].rows[a] = attempts[a]
    <3>1. a \in AttemptsOf(c)
      BY <2>5 DEF AttemptExists, UnusedAttempt
    <3>2. attempts'[a] = rows[a]
      BY <1>2, <3>1
    <3>3. h[p].rows[a] = attempts[a]
      BY <2>2, <3>1 DEF Rows
    <3> QED
      BY <3>1, <3>2, <3>3
  <2>6. \A a \in Attempts : AttemptExists(rows[a]) => Ahead(attempts'[a].status, rows[a].status)
    BY <2>5 DEF Ahead, RetainedStatus
  <2>7. Read(h'[p]) => Read(h[p])
    BY <1>0, <2>ok DEF Read
  <2>8. Read(h'[p]) => vault'[c].cred \in h'[p].creds
                       \/ grants'[vault'[c].cred.grant].status = "revoked"
    BY <1>0, <2>1, <2>2, <2>4, <2>7 DEF Follows, Covered
  <2>9. ASSUME Read(h'[p]), NEW a \in Attempts, AttemptExists(rows[a]), CredentialsIn(a)'
        PROVE  \/ vault'[a].cred \in h'[p].creds
               \/ grants'[vault'[a].cred.grant].status = "revoked"
    <3>1. /\ AttemptExists(attempts[a]) /\ h[p].rows[a] = attempts[a]
      BY <2>5, <2>9 DEF AttemptsOf
    <3>2. CredentialsIn(a)
      BY <2>4, <2>9 DEF CredentialsIn
    <3>3. Covered(h[p], a)
      BY <1>0, <2>7, <2>9, <3>1, <3>2 DEF Follows
    <3> QED
      BY <2>1, <2>4, <3>3 DEF Covered
  <2> HIDE DEF rows, row
  <2> QED
    BY <2>1, <2>3, <2>6, <2>8, <2>9 DEF Follows, Covered, PinnedBy
<1> QED
  BY <1>1, <1>2 DEF DisconnectClaim

\* One revocation: what is struck from the list is revoked, or nothing will be
\* confirmed.
LEMMA RevokesOne ==
  ASSUME TypeInv, CiphertextInv, Contents, [Next]_vars, NEW p \in Handlers, Follows(p),
         DisconnectRevoke(p)
  PROVE  Follows(p)'
<1>h. h \in [Handlers -> GoodLocal] /\ h[p] \in Local
  BY DEF TypeInv, GoodLocal
<1> DEFINE c == h[p].conn
<1>0. c \in Conns /\ h[p].pc = "disconnectRevoke" /\ h[p].pc \in DiscPhases /\ c \in Slots
  BY DEF DisconnectRevoke, DiscPhases, TypeInv, GoodLocal, ConnPhases, Slots
<1>1. PICK k \in h[p].creds, outcome \in {"revoked", "unsupported", "failed"} :
        /\ RevokeOutcome(k, outcome)
        /\ h' = [h EXCEPT ![p].creds = LeftAfter(p, k, outcome), ![p].ok = @ /\ Confirms(outcome)]
  BY DEF DisconnectRevoke
<1>2. /\ h'[p].pc = "disconnectRevoke" /\ h'[p].conn = c /\ h'[p].row = h[p].row
      /\ h'[p].rows = h[p].rows /\ h'[p].creds = h[p].creds \ {k}
  <2>1. LeftAfter(p, k, outcome) = h[p].creds \ {k}
    BY DEF LeftAfter
  <2> QED
    BY <1>h, <1>0, <1>1, <2>1 DEF Local
<1>3. h'[p].ok = (h[p].ok /\ Confirms(outcome))
  BY <1>h, <1>1, Zenon DEF Local
<1>4. UNCHANGED <<conns, attempts, vault>>
  BY DEF DisconnectRevoke
<1>5. Read(h'[p]) => Read(h[p]) /\ outcome = "revoked"
  BY <1>0, <1>3 DEF Read, Confirms
<1>6. ASSUME outcome = "revoked"
      PROVE  k.grant \in Grants => grants'[k.grant].status = "revoked"
  BY <1>1, <1>6 DEF RevokeOutcome, TypeInv, Grant
<1>7. ASSUME Read(h'[p]), NEW s \in Slots, CredentialsIn(s), Covered(h[p], s)
      PROVE  vault[s].cred \in h'[p].creds \/ grants'[vault[s].cred.grant].status = "revoked"
  <2>1. vault[s].cred.grant \in Grants
    BY <1>7 DEF TypeInv, GoodSecret, CredentialsIn
  <2>2. CASE grants[vault[s].cred.grant].status = "revoked"
    <3>1. ASSUME NEW g \in Grants, g = vault[s].cred.grant
          PROVE  grants'[g].status = "revoked"
      BY <2>2, <3>1, RevokedStays
    <3> QED
      BY <2>1, <3>1
  <2>3. CASE vault[s].cred = k
    BY <1>5, <1>6, <1>7, <2>1, <2>3
  <2> QED
    BY <1>2, <1>7, <2>2, <2>3 DEF Covered
<1>8. /\ ConnExists(h[p].row) /\ PinnedBy(conns[c], h[p].row)
      /\ \A a \in Attempts :
           AttemptExists(h[p].rows[a]) => Ahead(attempts[a].status, h[p].rows[a].status)
  BY <1>0 DEF Follows
<1>9. Read(h'[p]) /\ conns[c] = h[p].row =>
        vault[c].cred \in h'[p].creds \/ grants'[vault[c].cred.grant].status = "revoked"
  <2> SUFFICES ASSUME Read(h'[p]), conns[c] = h[p].row
               PROVE  \/ vault[c].cred \in h'[p].creds
                      \/ grants'[vault[c].cred.grant].status = "revoked"
    OBVIOUS
  <2>1. Covered(h[p], c)
    BY <1>0, <1>5 DEF Follows
  <2>2. CASE CredentialsIn(c)
    BY <1>0, <1>7, <2>1, <2>2
  <2>3. CASE ~CredentialsIn(c)
    BY <1>0, <1>8, <2>3 DEF CiphertextInv, NoOrphanCiphertext
  <2> QED
    BY <2>2, <2>3
<1>10. Read(h'[p]) =>
         \A a \in Attempts :
           AttemptExists(h[p].rows[a]) /\ attempts[a].status = h[p].rows[a].status
             /\ CredentialsIn(a) =>
               vault[a].cred \in h'[p].creds \/ grants'[vault[a].cred.grant].status = "revoked"
  BY <1>0, <1>5, <1>7 DEF Follows, Slots
<1> QED
  BY <1>2, <1>4, <1>8, <1>9, <1>10 DEF Follows, Covered, CredentialsIn

\* Every step keeps what disconnects know.
LEMMA FollowsStep ==
  ASSUME TypeInv, CiphertextInv, Contents, [Next]_vars, NEW p \in Handlers, Follows(p)
  PROVE  Follows(p)'
<1>1. CASE h'[p] = h[p]
  BY <1>1, OthersFollow
<1>2. CASE h'[p] # h[p] /\ h'[p].pc \in DiscPhases
  <2>1. EntersDisconnect(p)
    BY <1>2, Entered
  <2> QED
    BY <2>1, ReadsAll, ClaimsAll, RevokesOne DEF EntersDisconnect
<1>3. CASE h'[p].pc \notin DiscPhases
  BY <1>3 DEF Follows
<1> QED
  BY <1>1, <1>2, <1>3

\* The inductive invariant behind the theorem on disconnects.
FollowInv == CustodyInv /\ Contents /\ \A p \in Handlers : Follows(p)

\* Every behaviour keeps it.
LEMMA FollowInvariant == Spec => []FollowInv
<1>1. Init => FollowInv
  <2> SUFFICES ASSUME Init
               PROVE  FollowInv
    OBVIOUS
  <2>1. CustodyInv
    BY TypeInvInit, CiphertextInit, TokenInit DEF CustodyInv
  <2>2. Contents
    BY DEF Init, Contents, CredentialsIn, Slots, NoSecret, UnusedAttempt, RetainedStatus
  <2>3. \A p \in Handlers : Follows(p)
    BY DEF Init, Follows, Idle, DiscPhases
  <2> QED
    BY <2>1, <2>2, <2>3 DEF FollowInv
<1>2. FollowInv /\ [Next]_vars => FollowInv'
  BY TypeInvStep, CiphertextStep, TokenStep, ContentsStep, FollowsStep DEF FollowInv, CustodyInv
<1> QED
  BY <1>1, <1>2, PTL DEF Spec

\* Only the last transaction of a disconnect writes that it was confirmed.
LEMMA WritesConfirmed ==
  ASSUME TypeInv, [Next]_vars, NEW c \in Conns,
         <<"disconnect.deleted_revocation_confirmed", c>> \in audit' \ audit
  PROVE  \E p \in Handlers : DisconnectDelete(p) /\ audit' = audit \cup {Disconnected(h[p].conn, h[p].ok)}
<1> DEFINE e == <<"disconnect.deleted_revocation_confirmed", c>>
<1>log. ASSUME NEW op, NEW s, Log(op, s)
        PROVE  op = "disconnect.deleted_revocation_confirmed"
  BY <1>log DEF Log
<1>1. ~UNCHANGED audit
  OBVIOUS
<1>2. ~UNCHANGED vars /\ ~Tick /\ ~Entitle /\ ~SaveConnector
  BY <1>1 DEF vars, Tick, Entitle, SaveConnector
<1>3. ~AdminDelete /\ ~DeleteConnector
  <2>1. \A cs, as : e \notin DeletionEntries(cs, as)
    BY DEF DeletionEntries
  <2>2. \A cs, as : ~DeleteState(cs, as)
    BY <2>1 DEF DeleteState
  <2> QED
    BY <2>2 DEF AdminDelete, DeleteConnector
<1>4. PICK p \in Handlers : HandlerBegin(p) \/ HandlerStep(p) \/ Abort(p)
  BY <1>2, <1>3 DEF Next, Administration
<1>5. \/ ExchangeFailed(p) \/ Retain(p) \/ MarkUnstored(p) \/ CompleteCommit(p)
      \/ CleanupRequired(p) \/ CancelUnconfirmed(p) \/ CancelFinish(p)
      \/ RefreshCommit(p) \/ RefreshFailed(p) \/ DisconnectBlock(p) \/ DisconnectClaim(p)
      \/ DisconnectDelete(p)
  <2>1. CASE AuthorizationBegin(p) \/ AuthorizationStep(p)
    BY <1>1, <2>1 DEF AuthorizationBegin, AuthorizationStep, StartRead, SubmitRead, CallbackRead,
       CancelRead, StartClean, StartReady, StartCommit, StartRefused, SubmitCommit,
       CallbackClaim, Exchange, SealFails, RevokeUnstored, ReadCompletion, CancelDecrypt,
       CancelMark, CancelRevoke
  <2>2. CASE AccessRead(p) \/ UseStep(p) \/ DisconnectRead(p) \/ DisconnectStep(p) \/ Abort(p)
    BY <1>1, <2>2 DEF UseStep, DisconnectStep, AccessRead, AccessDecrypt, AccessClaim, Refresh,
       GrantCheck, UseCheck, Dispatch, DisconnectRead, DisconnectAttempts, DisconnectDecrypt,
       DisconnectRevoke, Abort
  <2> QED
    BY <1>4, <2>1, <2>2 DEF HandlerBegin, HandlerStep
<1>6. ~ExchangeFailed(p) /\ ~Retain(p) /\ ~CleanupRequired(p) /\ ~CancelUnconfirmed(p)
  BY <1>1, <1>log DEF ExchangeFailed, Retain, CleanupRequired, CancelUnconfirmed
<1>7. ~MarkUnstored(p) /\ ~CancelFinish(p) /\ ~RefreshFailed(p)
  <2>1. ~MarkUnstored(p)
    BY <1>log DEF MarkUnstored
  <2>2. ~CancelFinish(p)
    BY <1>1, <1>log DEF CancelFinish
  <2>3. ~RefreshFailed(p)
    BY <1>log DEF RefreshFailed
  <2> QED
    BY <2>1, <2>2, <2>3
<1>8. ~CompleteCommit(p) /\ ~RefreshCommit(p)
  BY <1>1, <1>log DEF CompleteCommit, RefreshCommit
<1>9. ~DisconnectBlock(p) /\ ~DisconnectClaim(p)
  BY <1>1, <1>log DEF DisconnectBlock, DisconnectClaim
<1> QED
  BY <1>1, <1>5, <1>6, <1>7, <1>8, <1>9 DEF DisconnectDelete

\* disconnectAndDelete (connection-disconnect.ts) writes revocation_confirmed only if
\* every credential that the deletion removes was revoked: between its reads, its
\* claim, the provider's answers and the deletion, no refresh, callback or retained
\* token slips in without the deletion being refused.
THEOREM ConfirmedIsRevoked == Spec => ConfirmedMeansRevoked
<1>1. ASSUME FollowInv, [Next]_vars, NEW c \in Conns,
             <<"disconnect.deleted_revocation_confirmed", c>> \in audit' \ audit,
             NEW s \in {c} \cup AttemptsOf(c), CredentialsIn(s)
      PROVE  grants[vault[s].cred.grant].status = "revoked"
  <2>1. PICK p \in Handlers :
          DisconnectDelete(p) /\ audit' = audit \cup {Disconnected(h[p].conn, h[p].ok)}
    BY <1>1, WritesConfirmed DEF FollowInv, CustodyInv
  <2>2. h[p].conn = c /\ h[p].ok
    BY <1>1, <2>1 DEF Disconnected
  <2> DEFINE mine == {a \in Attempts : AttemptExists(h[p].rows[a])}
  <2>3. /\ h[p].pc = "disconnectRevoke" /\ h[p].creds = {}
        /\ conns[c].status = "REVOCATION_PENDING" /\ conns[c].version = h[p].row.version
        /\ AttemptsOf(c) = mine
        /\ \A a \in mine : attempts[a].status = h[p].rows[a].status
    BY <1>1, <2>1, <2>2 DEF DisconnectDelete
  <2>4. Follows(p) /\ h[p].pc \in DiscPhases /\ Read(h[p])
    BY <1>1, <2>2, <2>3 DEF FollowInv, DiscPhases, Read
  <2>5. Covered(h[p], s)
    <3>1. CASE s = c
      <4>1. h[p].row.version \in Nat
        BY <1>1 DEF FollowInv, CustodyInv, TypeInv, GoodLocal, Local, ConnRow
      <4>2. conns[c] = h[p].row
        BY <2>2, <2>3, <2>4, <4>1 DEF Follows, PinnedBy
      <4> QED
        BY <2>2, <2>4, <3>1, <4>2 DEF Follows
    <3>2. CASE s \in AttemptsOf(c)
      BY <1>1, <2>3, <2>4, <3>2 DEF Follows
    <3> QED
      BY <1>1, <3>1, <3>2
  <2> QED
    BY <2>3, <2>5 DEF Covered
<1>2. FollowInv /\ [Next]_vars =>
        [\A c \in Conns :
           <<"disconnect.deleted_revocation_confirmed", c>> \in audit' \ audit =>
             \A s \in {c} \cup AttemptsOf(c) :
               CredentialsIn(s) => grants[vault[s].cred.grant].status = "revoked"]_vars
  BY <1>1
<1> QED
  BY <1>2, FollowInvariant, PTL DEF Spec, ConfirmedMeansRevoked
--------------------------------------------------------------------------------

\* What a step may do to an attempt without taking tokens from it or ending its code
\* exchange: nothing, a step before the callback, a mark, or its cleanup.
Untouched(a) == /\ attempts'[a].status = attempts[a].status
                /\ attempts'[a].conn = attempts[a].conn /\ vault'[a] = vault[a]
Begun(a) == attempts[a].status \in EarlyStatus /\ vault'[a] \in {vault[a], NoSecret, OAuthPayload}
Marked(a) == /\ attempts[a].status = "NEEDS_REVOCATION"
             /\ attempts'[a].status = "REVOCATION_PENDING"
             /\ attempts'[a].conn = attempts[a].conn /\ vault'[a] = vault[a]
Cleaned(a) == /\ attempts[a].status \in AbandonableStatus /\ attempts'[a].status = "DELETED"
              /\ attempts'[a].conn = attempts[a].conn /\ vault'[a] \in {vault[a], NoSecret}
QuietMove(a) == Untouched(a) \/ Begun(a) \/ Marked(a) \/ Cleaned(a)
GrantQuiet(g) ==
  /\ grants'[g].status = grants[g].status /\ grants'[g].attempt = grants[g].attempt
  /\ grants'[g].home = grants[g].home /\ grants'[g].replaced = grants[g].replaced
Quiet == /\ \A g \in Grants : GrantQuiet(g)
         /\ \A c \in Conns : vault'[c] = vault[c]
         /\ \A a \in Attempts : QuietMove(a)
         /\ audit \subseteq audit'

\* A step that changes neither attempts nor values nor grants is quiet.
LEMMA QuietSame ==
  ASSUME UNCHANGED <<attempts, vault, grants>>, audit \subseteq audit'
  PROVE  Quiet
  BY DEF Quiet, GrantQuiet, QuietMove, Untouched

\* So is one that moves one attempt in one of these ways.
LEMMA QuietOne ==
  ASSUME TypeInv, UNCHANGED grants, audit \subseteq audit', NEW a \in Attempts, QuietMove(a),
         \A b \in Attempts \ {a} : attempts'[b] = attempts[b],
         \A s \in Slots \ {a} : vault'[s] = vault[s]
  PROVE  Quiet
<1>1. \A c \in Conns : c # a /\ c \in Slots
  BY IdsDistinct DEF Slots
<1>2. \A b \in Attempts : b \in Slots
  BY DEF Slots
<1> QED
  BY <1>1, <1>2 DEF Quiet, GrantQuiet, QuietMove, Untouched

\* The steps of setup and callback that neither receive, store nor give up tokens.
LEMMA QuietAuthorization ==
  ASSUME TypeInv, NEW p \in Handlers,
         \/ AuthorizationBegin(p) \/ StartClean(p) \/ StartReady(p) \/ StartCommit(p)
         \/ StartRefused(p) \/ SubmitCommit(p) \/ CallbackClaim(p) \/ SealFails(p)
         \/ ReadCompletion(p) \/ CleanupRequired(p) \/ CancelDecrypt(p) \/ CancelMark(p)
         \/ CancelUnconfirmed(p),
         SnapshotsLag
  PROVE  Quiet
<1>hp. h[p] \in GoodLocal /\ h[p] \in Local
  BY DEF TypeInv, GoodLocal
<1>rows. \A a \in Attempts : attempts[a] \in AttemptRow /\ a \in Slots
  BY DEF TypeInv, Slots
<1>1. CASE \/ AuthorizationBegin(p) \/ StartReady(p) \/ StartRefused(p) \/ SealFails(p)
           \/ ReadCompletion(p) \/ CleanupRequired(p) \/ CancelDecrypt(p)
           \/ CancelUnconfirmed(p)
  BY <1>1, QuietSame DEF AuthorizationBegin, StartRead, SubmitRead, CallbackRead, CancelRead,
     StartReady, StartRefused, SealFails, ReadCompletion, CleanupRequired, CancelDecrypt,
     CancelUnconfirmed, Log
<1>2. CASE StartClean(p)
  <2>1. UNCHANGED <<grants, audit>> /\ h[p].pc = "startClean"
    BY <1>2 DEF StartClean
  <2>2. CASE UNCHANGED <<attempts, vault>>
    BY <2>1, <2>2, QuietSame
  <2>3. ASSUME NEW a \in h[p].todo, attempts[a].status = h[p].rows[a].status,
               attempts' = [attempts EXCEPT ![a] = DeletedAttempt(@)],
               vault' = IF h[p].rows[a].payload THEN [vault EXCEPT ![a] = NoSecret] ELSE vault
        PROVE  Quiet
    <3>1. a \in Attempts /\ a \in Slots
      BY <1>hp, <1>rows, <2>3 DEF Local
    <3>2. attempts[a].status \in AbandonableStatus
      BY <2>1, <2>3 DEF SnapshotsLag
    <3>3. attempts'[a] = DeletedAttempt(attempts[a])
      BY <2>3, <3>1 DEF TypeInv
    <3>4. attempts'[a].status = "DELETED" /\ attempts'[a].conn = attempts[a].conn
      BY <3>3 DEF DeletedAttempt, UnusedAttempt
    <3>5. /\ \A b \in Attempts \ {a} : attempts'[b] = attempts[b]
          /\ \A s \in Slots \ {a} : vault'[s] = vault[s]
          /\ vault'[a] \in {vault[a], NoSecret}
      BY <2>3, <3>1 DEF TypeInv
    <3>6. QuietMove(a)
      BY <3>2, <3>4, <3>5 DEF QuietMove, Cleaned
    <3> QED
      BY <2>1, <3>1, <3>5, <3>6, QuietOne
  <2> QED
    BY <1>2, <2>2, <2>3 DEF StartClean
<1>3. CASE StartCommit(p)
  <2>1. UNCHANGED <<grants, audit, vault>>
    BY <1>3 DEF StartCommit
  <2>2. PICK a \in Attempts : attempts[a].status = "UNUSED" /\ \E r : attempts' = [attempts EXCEPT ![a] = r]
    BY <1>3 DEF StartCommit
  <2>3. QuietMove(a)
    BY <2>1, <2>2 DEF QuietMove, Begun, EarlyStatus
  <2> QED
    BY <2>1, <2>2, <2>3, QuietOne DEF TypeInv
<1>4. CASE SubmitCommit(p)
  <2> DEFINE a == h[p].att
  <2>1. UNCHANGED <<grants, audit>> /\ a \in Attempts /\ a \in Slots
    BY <1>4, <1>hp, <1>rows DEF SubmitCommit, GoodLocal, AttemptPhases
  <2>2. CASE UNCHANGED <<attempts, vault>>
    BY <2>1, <2>2, QuietSame
  <2>3. CASE /\ Submittable(a)
             /\ attempts' = [attempts EXCEPT ![a].status = "AUTHORIZING",
                               ![a].state = TRUE, ![a].payload = TRUE]
             /\ vault' = [vault EXCEPT ![a] = OAuthPayload]
    <3> HIDE DEF a
    <3>1. attempts[a].status = "SETUP" /\ vault'[a] = OAuthPayload
      BY <2>1, <2>3 DEF Submittable, TypeInv
    <3>2. QuietMove(a)
      BY <3>1 DEF QuietMove, Begun, EarlyStatus
    <3> QED
      BY <2>1, <2>3, <3>2, QuietOne DEF TypeInv
  <2> QED
    BY <1>4, <2>2, <2>3 DEF SubmitCommit
<1>5. CASE CallbackClaim(p)
  <2> DEFINE a == h[p].att
  <2>1. UNCHANGED <<grants, audit>> /\ a \in Attempts /\ a \in Slots
    BY <1>5, <1>hp, <1>rows DEF CallbackClaim, GoodLocal, AttemptPhases
  <2>2. CASE UNCHANGED <<attempts, vault>>
    BY <2>1, <2>2, QuietSame
  <2>3. CASE /\ Claimable(a)
             /\ \/ CloseAttempt(a, "CANCELLED")
                \/ /\ attempts' = [attempts EXCEPT ![a].status = "PROCESSING", ![a].state = FALSE]
                   /\ UNCHANGED vault
    <3> HIDE DEF a
    <3>1. attempts[a].status = "AUTHORIZING" /\ vault'[a] \in {vault[a], NoSecret}
      BY <2>1, <2>3 DEF Claimable, CloseAttempt, TypeInv
    <3>2. QuietMove(a)
      BY <3>1 DEF QuietMove, Begun, EarlyStatus
    <3> QED
      BY <2>1, <2>3, <3>2, QuietOne DEF TypeInv, CloseAttempt
  <2> QED
    BY <1>5, <2>2, <2>3 DEF CallbackClaim
<1>6. CASE CancelMark(p)
  <2> DEFINE a == h[p].att
  <2>1. UNCHANGED <<grants, audit, vault>> /\ a \in Attempts /\ HoldsRetained(h[p].arow)
    BY <1>6, <1>hp DEF CancelMark, GoodLocal, AttemptPhases
  <2>2. CASE UNCHANGED attempts
    BY <2>1, <2>2, QuietSame
  <2>3. CASE /\ attempts[a] = h[p].arow
             /\ attempts' = [attempts EXCEPT ![a].status = "REVOCATION_PENDING", ![a].state = FALSE]
    <3>1. attempts[a].status \in {"NEEDS_REVOCATION", "REVOCATION_PENDING"}
      BY <2>1, <2>3 DEF HoldsRetained
    <3> HIDE DEF a
    <3>2. attempts'[a].status = "REVOCATION_PENDING" /\ attempts'[a].conn = attempts[a].conn
      BY <1>rows, <2>1, <2>3 DEF TypeInv, AttemptRow
    <3>3. QuietMove(a)
      BY <2>1, <3>1, <3>2 DEF QuietMove, Marked, Untouched
    <3> QED
      BY <2>1, <2>3, <3>3, QuietOne DEF TypeInv
  <2> QED
    BY <1>6, <2>2, <2>3 DEF CancelMark
<1> QED
  BY <1>1, <1>2, <1>3, <1>4, <1>5, <1>6

\* The steps of use and disconnect that neither refresh nor revoke nor delete, and
\* the end of a handler.
LEMMA QuietConnection ==
  ASSUME TypeInv, NEW p \in Handlers,
         \/ AccessRead(p) \/ AccessDecrypt(p) \/ AccessClaim(p) \/ Refresh(p) \/ RefreshFailed(p)
         \/ GrantCheck(p) \/ UseCheck(p) \/ Dispatch(p)
         \/ DisconnectRead(p) \/ DisconnectAttempts(p) \/ DisconnectBlock(p)
         \/ DisconnectDecrypt(p) \/ DisconnectClaim(p) \/ Abort(p)
  PROVE  Quiet
<1>hp. h[p] \in GoodLocal /\ h[p] \in Local
  BY DEF TypeInv, GoodLocal
<1>1. CASE \/ AccessRead(p) \/ AccessDecrypt(p) \/ AccessClaim(p) \/ RefreshFailed(p)
           \/ GrantCheck(p) \/ UseCheck(p) \/ Dispatch(p)
           \/ DisconnectRead(p) \/ DisconnectAttempts(p) \/ DisconnectBlock(p)
           \/ DisconnectDecrypt(p) \/ Abort(p)
  <2>1. UNCHANGED <<attempts, vault, grants>>
    BY <1>1 DEF AccessRead, AccessDecrypt, AccessClaim, RefreshFailed, GrantCheck, UseCheck,
       Dispatch, DisconnectRead, DisconnectAttempts, DisconnectBlock, DisconnectDecrypt, Abort
  <2>2. audit \subseteq audit'
    BY <1>1 DEF AccessRead, AccessDecrypt, AccessClaim, RefreshFailed, GrantCheck, UseCheck,
       Dispatch, DisconnectRead, DisconnectAttempts, DisconnectBlock, DisconnectDecrypt, Abort,
       Log
  <2> QED
    BY <2>1, <2>2, QuietSame
<1>2. CASE Refresh(p)
  <2> DEFINE g == h[p].cred.grant
             next == grants[g].gen + 1
  <2>1. UNCHANGED <<attempts, vault, audit>> /\ g \in Grants
    BY <1>2, <1>hp DEF Refresh, GoodLocal, GrantPhases
  <2>2. \/ UNCHANGED grants
        \/ grants' = [grants EXCEPT ![g].gen = next, ![g].spent = FALSE]
        \/ grants' = [grants EXCEPT ![g].spent = TRUE]
    BY <1>2 DEF Refresh
  <2>3. \A d \in Grants : GrantQuiet(d)
    <3> HIDE DEF g, next
    <3>0. grants \in [Grants -> Grant] /\ \A d \in Grants : grants[d] \in Grant
      BY DEF TypeInv
    <3>1. \A d \in Grants \ {g} : grants'[d] = grants[d]
      BY <2>2, <3>0
    <3>2. /\ grants'[g].status = grants[g].status /\ grants'[g].attempt = grants[g].attempt
          /\ grants'[g].home = grants[g].home /\ grants'[g].replaced = grants[g].replaced
      BY <2>1, <2>2, <3>0 DEF Grant
    <3> QED
      BY <3>1, <3>2 DEF GrantQuiet
  <2> QED
    BY <2>1, <2>3 DEF Quiet, QuietMove, Untouched
<1>3. CASE DisconnectClaim(p)
  <2> DEFINE c == h[p].conn
  <2>1. UNCHANGED <<vault, grants>> /\ audit \subseteq audit'
    BY <1>3 DEF DisconnectClaim, Log
  <2>2. CASE UNCHANGED attempts
    BY <2>1, <2>2, QuietSame
  <2>3. CASE attempts' = [a \in Attempts |->
               IF a \in AttemptsOf(c) THEN [attempts[a] EXCEPT !.status = Stopped(@), !.state = FALSE]
               ELSE attempts[a]]
    <3>1. ASSUME NEW a \in Attempts
          PROVE  QuietMove(a)
      <4> HIDE DEF c
      <4>1. attempts[a] \in AttemptRow
        BY DEF TypeInv
      <4>2. CASE a \in AttemptsOf(c)
        <5>1. attempts'[a] = [attempts[a] EXCEPT !.status = Stopped(@), !.state = FALSE]
          BY <2>3, <4>2
        <5>2. /\ attempts'[a].status = Stopped(attempts[a].status)
              /\ attempts'[a].conn = attempts[a].conn
          BY <4>1, <5>1 DEF AttemptRow
        <5>3. CASE attempts[a].status \in {"SETUP", "AUTHORIZING"}
          BY <2>1, <5>3 DEF QuietMove, Begun, EarlyStatus
        <5>4. CASE attempts[a].status = "NEEDS_REVOCATION"
          <6>1. Stopped(attempts[a].status) = "REVOCATION_PENDING"
            BY <5>4 DEF Stopped
          <6> QED
            BY <2>1, <5>2, <5>4, <6>1 DEF QuietMove, Marked
        <5>5. CASE attempts[a].status \notin {"SETUP", "AUTHORIZING", "NEEDS_REVOCATION"}
          <6>1. Stopped(attempts[a].status) = attempts[a].status
            BY <5>5 DEF Stopped
          <6> QED
            BY <2>1, <5>2, <6>1 DEF QuietMove, Untouched
        <5> QED
          BY <5>3, <5>4, <5>5
      <4>3. CASE a \notin AttemptsOf(c)
        BY <2>1, <2>3, <4>3 DEF QuietMove, Untouched
      <4> QED
        BY <4>2, <4>3
    <3> QED
      BY <2>1, <3>1 DEF Quiet, GrantQuiet
  <2> QED
    BY <1>3, <2>2, <2>3 DEF DisconnectClaim
<1> QED
  BY <1>1, <1>2, <1>3

\* What the other steps do: they receive, keep, revoke or give up tokens.
Giving(p) == \/ Exchange(p) \/ Retain(p) \/ RevokeUnstored(p) \/ CancelRevoke(p)
             \/ DisconnectRevoke(p) \/ ExchangeFailed(p) \/ MarkUnstored(p) \/ CancelFinish(p)
             \/ CompleteCommit(p) \/ RefreshCommit(p) \/ DisconnectDelete(p)

\* A step is quiet, or one of those, or a deletion by an administrator.
LEMMA QuietSteps ==
  ASSUME TypeInv, SnapshotsLag, [Next]_vars
  PROVE  Quiet \/ (\E p \in Handlers : Giving(p)) \/ AdminDelete \/ DeleteConnector
<1>1. CASE UNCHANGED vars
  BY <1>1, QuietSame DEF vars
<1>2. CASE SaveConnector \/ Tick \/ Entitle
  BY <1>2, QuietSame DEF SaveConnector, Tick, Entitle
<1>3. ASSUME NEW p \in Handlers, AuthorizationBegin(p) \/ AuthorizationStep(p)
      PROVE  Quiet \/ Giving(p)
  BY <1>3, QuietAuthorization DEF AuthorizationStep, Giving
<1>4. ASSUME NEW p \in Handlers,
             AccessRead(p) \/ UseStep(p) \/ DisconnectRead(p) \/ DisconnectStep(p) \/ Abort(p)
      PROVE  Quiet \/ Giving(p)
  BY <1>4, QuietConnection DEF UseStep, DisconnectStep, Giving
<1> QED
  BY <1>1, <1>2, <1>3, <1>4 DEF Next, Administration, HandlerBegin, HandlerStep

\* Only one attempt and its value change.
OnlyAttempt(a) == /\ \A b \in Attempts \ {a} : attempts'[b] = attempts[b]
                  /\ \A s \in Slots \ {a} : vault'[s] = vault[s]
ClosedAs(a, status) == /\ attempts'[a].status = status /\ attempts'[a].conn = attempts[a].conn
                       /\ vault'[a] = NoSecret /\ OnlyAttempt(a)

\* clearAuthorizationPayload.
LEMMA ClosesOne ==
  ASSUME TypeInv, NEW a \in Attempts, NEW status, CloseAttempt(a, status)
  PROVE  ClosedAs(a, status)
<1>1. attempts[a] \in AttemptRow /\ a \in Slots
  BY DEF TypeInv, Slots
<1> QED
  BY <1>1 DEF TypeInv, CloseAttempt, ClosedAs, OnlyAttempt, AttemptRow

\* A code exchange that succeeds issues one grant, into the hands of its handler.
IssuedTo(p, g) ==
  /\ grants[g].status = "unissued" /\ grants'[g].status = "active"
  /\ grants'[g].attempt = h[p].att /\ grants'[g].home = grants[g].home
  /\ \A d \in Grants \ {g} : grants'[d] = grants[d]
  /\ h'[p].pc \in {"received", "rejected"} /\ h'[p].cred.grant = g

\* An exchange either brings one unissued grant or nothing.
LEMMA ExchangeIssues ==
  ASSUME TypeInv, NEW p \in Handlers, Exchange(p)
  PROVE  /\ UNCHANGED <<attempts, vault, audit>>
         /\ h[p].pc = "exchange" /\ h[p].att \in Attempts
         /\ \A q \in Handlers \ {p} : h'[q] = h[q]
         /\ \/ UNCHANGED grants /\ h'[p].pc = "exchangeFailed"
            \/ \E g \in Grants : IssuedTo(p, g)
<1>h. h \in [Handlers -> GoodLocal] /\ h[p] \in Local /\ h[p] \in GoodLocal
  BY DEF TypeInv, GoodLocal
<1>1. /\ UNCHANGED <<attempts, vault, audit>> /\ h[p].pc = "exchange" /\ h[p].att \in Attempts
  BY <1>h DEF Exchange, GoodLocal, AttemptPhases
<1>2. CASE Goto(p, "exchangeFailed") /\ UNCHANGED grants
  <2>1. \A q \in Handlers \ {p} : h'[q] = h[q]
    BY <1>h, <1>2 DEF Goto
  <2> QED
    BY <1>1, <1>2, <2>1, GotoFields
<1>3. ASSUME NEW g \in Grants, NEW answer \in {"received", "rejected"}, grants[g].status = "unissued",
             grants' = [grants EXCEPT ![g].status = "active", ![g].attempt = h[p].att, ![g].gen = 1],
             h' = [h EXCEPT ![p].pc = answer, ![p].cred = [grant |-> g, gen |-> 1]]
      PROVE  (\A q \in Handlers \ {p} : h'[q] = h[q]) /\ IssuedTo(p, g)
  <2>1. /\ h'[p].pc = answer /\ h'[p].cred = [grant |-> g, gen |-> 1]
        /\ \A q \in Handlers \ {p} : h'[q] = h[q]
    BY <1>h, <1>3 DEF Local
  <2>2. grants[g] \in Grant
    BY DEF TypeInv
  <2>3. /\ grants'[g].status = "active" /\ grants'[g].attempt = h[p].att
        /\ grants'[g].home = grants[g].home
        /\ \A e \in Grants \ {g} : grants'[e] = grants[e]
    BY <1>3, <2>2 DEF TypeInv, Grant
  <2>4. grants[g].status = "unissued"
    BY <1>3
  <2>5. h'[p].pc \in {"received", "rejected"} /\ h'[p].cred.grant = g
    BY <2>1
  <2> QED
    BY <2>1, <2>3, <2>4, <2>5 DEF IssuedTo
<1> QED
  BY <1>1, <1>2, <1>3 DEF Exchange

\* Retaining puts the tokens in hand into the attempt, or finds it taken.
LEMMA RetainKeeps ==
  ASSUME TypeInv, NEW p \in Handlers, Retain(p)
  PROVE  /\ UNCHANGED grants /\ audit \subseteq audit'
         /\ h[p].pc \in {"received", "rejected"} /\ h[p].att \in Attempts
         /\ \A q \in Handlers \ {p} : h'[q] = h[q]
         /\ \/ UNCHANGED <<attempts, vault>> /\ h'[p].pc = "unstored" /\ h'[p].cred = h[p].cred
            \/ /\ attempts[h[p].att].status = "PROCESSING"
               /\ attempts'[h[p].att].status = "NEEDS_REVOCATION"
               /\ attempts'[h[p].att].conn = attempts[h[p].att].conn
               /\ vault'[h[p].att] = Sealed(h[p].cred) /\ OnlyAttempt(h[p].att)
               /\ \/ h'[p].pc = "retained" /\ h'[p].cred = h[p].cred
                  \/ h'[p].pc = "idle"
<1>h. h \in [Handlers -> GoodLocal] /\ h[p] \in Local /\ h[p] \in GoodLocal
  BY DEF TypeInv, GoodLocal
<1> DEFINE a == h[p].att
<1>1. UNCHANGED grants /\ audit \subseteq audit' /\ h[p].pc \in {"received", "rejected"}
  BY DEF Retain, Log
<1>2. a \in Attempts /\ attempts[a] \in AttemptRow /\ a \in Slots
  BY <1>h, <1>1 DEF GoodLocal, AttemptPhases, TypeInv, Slots
<1>3. \A q \in Handlers \ {p} : h'[q] = h[q]
  <2>1. \E pc : Goto(p, pc) \/ Finish(p)
    BY DEF Retain
  <2> QED
    BY <1>h, <2>1 DEF Goto, Finish
<1>4. CASE StillProcessing(a)
  <2>1. /\ attempts' = [attempts EXCEPT ![a].status = "NEEDS_REVOCATION"]
        /\ vault' = [vault EXCEPT ![a] = Sealed(h[p].cred)]
        /\ Goto(p, "retained") \/ Finish(p)
    BY <1>4 DEF Retain
  <2>2. \/ h'[p].pc = "retained" /\ h'[p].cred = h[p].cred
        \/ h'[p].pc = "idle"
    BY <2>1, GotoFields, FinishFields
  <2> DEFINE k == Sealed(h[p].cred)
  <2> HIDE DEF a, k
  <2>3. /\ attempts[a].status = "PROCESSING"
        /\ attempts'[a].status = "NEEDS_REVOCATION" /\ attempts'[a].conn = attempts[a].conn
        /\ vault'[a] = k /\ OnlyAttempt(a)
    <3>1. vault' = [vault EXCEPT ![a] = k]
      BY <2>1 DEF k
    <3> QED
      BY <1>2, <1>4, <2>1, <3>1 DEF TypeInv, StillProcessing, AttemptRow, OnlyAttempt
  <2> QED
    BY <1>1, <1>2, <1>3, <2>2, <2>3 DEF a, k
<1>5. CASE ~StillProcessing(a)
  <2>1. Goto(p, "unstored") /\ UNCHANGED <<attempts, vault>>
    BY <1>5 DEF Retain
  <2> QED
    BY <1>1, <1>2, <1>3, <2>1, GotoFields
<1> QED
  BY <1>4, <1>5

\* A revocation at the provider concerns one grant.
Revokes(g) == /\ UNCHANGED <<conns, attempts, vault, audit>>
              /\ \A d \in Grants \ {g} : grants'[d] = grants[d]
              /\ \A d \in Grants : /\ grants'[d].attempt = grants[d].attempt
                                   /\ grants'[d].home = grants[d].home
                                   /\ grants'[d].replaced = grants[d].replaced
                                   /\ \/ grants'[d].status = grants[d].status
                                      \/ /\ grants[d].status = "active"
                                         /\ grants'[d].status = "revoked"

\* One call to the provider revokes at most one grant.
LEMMA RevokesGrant ==
  ASSUME TypeInv, NEW c, NEW outcome, RevokeOutcome(c, outcome),
         UNCHANGED <<conns, attempts, vault, audit>>
  PROVE  \E g \in Grants \cup {None} : Revokes(g)
<1>g. grants \in [Grants -> Grant] /\ \A d \in Grants : grants[d] \in Grant
  BY DEF TypeInv
<1>1. CASE UNCHANGED grants
  BY <1>1 DEF Revokes
<1>2. ASSUME NEW g, g = c.grant, grants[g].status = "active",
             grants' = [grants EXCEPT ![g].status = "revoked"]
      PROVE  \E d \in Grants \cup {None} : Revokes(d)
  <2>1. CASE g \notin Grants
    <3>1. \A d \in Grants : grants'[d] = grants[d]
      BY <1>g, <1>2, <2>1
    <3> QED
      BY <3>1 DEF Revokes
  <2>2. CASE g \in Grants
    <3>1. \A d \in Grants \ {g} : grants'[d] = grants[d]
      BY <1>g, <1>2
    <3>2. grants'[g] = [grants[g] EXCEPT !.status = "revoked"]
      BY <1>g, <1>2, <2>2
    <3>3. /\ grants'[g].attempt = grants[g].attempt /\ grants'[g].home = grants[g].home
          /\ grants'[g].replaced = grants[g].replaced /\ grants'[g].status = "revoked"
      BY <1>g, <2>2, <3>2 DEF Grant
    <3> QED
      BY <1>2, <2>2, <3>1, <3>3 DEF Revokes
  <2> QED
    BY <2>1, <2>2
<1> QED
  BY <1>1, <1>2 DEF RevokeOutcome

\* A completed authorization moves the tokens from the attempt to the connection,
\* and whatever the connection held before is replaced.
Puts(p, c) ==
  /\ h[p].pc = "commit" /\ h'[p].pc = "idle" /\ c \in Conns
  /\ attempts[h[p].att].status = "NEEDS_REVOCATION"
  /\ attempts'[h[p].att].status = "COMPLETED"
  /\ \A b \in Attempts \ {h[p].att} : attempts'[b] = attempts[b]
  /\ vault'[h[p].att] = NoSecret /\ vault'[c] = Sealed(h[p].cred)
  /\ \A s \in Slots \ {h[p].att, c} : vault'[s] = vault[s]
  /\ grants'[h[p].cred.grant].home = c
  /\ \A d \in Grants : /\ grants'[d].status = grants[d].status
                       /\ grants'[d].attempt = grants[d].attempt
                       /\ grants[d].replaced => grants'[d].replaced
  /\ \A d \in Grants \ {h[p].cred.grant} :
       /\ grants'[d].home = grants[d].home
       /\ grants[d].home = c => grants'[d].replaced

\* A commit puts the tokens into one connection, or changes nothing stored.
LEMMA CommitPuts ==
  ASSUME TypeInv, NEW p \in Handlers, CompleteCommit(p)
  PROVE  /\ audit \subseteq audit'
         /\ \A q \in Handlers \ {p} : h'[q] = h[q]
         /\ h'[p].pc \in {"idle", "cleanupRequired"} /\ h[p].pc = "commit"
         /\ UNCHANGED <<attempts, vault, grants>> \/ \E c \in Conns : Puts(p, c)
<1>h. h \in [Handlers -> GoodLocal] /\ h[p] \in Local /\ h[p] \in GoodLocal
  BY DEF TypeInv, GoodLocal
<1>g. grants \in [Grants -> Grant] /\ \A d \in Grants : grants[d] \in Grant
  BY DEF TypeInv
<1>1. audit \subseteq audit' /\ h[p].pc = "commit"
  BY DEF CompleteCommit, Log
<1>2. \A q \in Handlers \ {p} : h'[q] = h[q]
  BY <1>h DEF CompleteCommit, Goto, Finish, PutCredentials
<1>3. h'[p].pc \in {"idle", "cleanupRequired"}
  BY AuthorizationPhases
<1> DEFINE a == h[p].att
<1>4. a \in Attempts /\ attempts[a] \in AttemptRow
  BY <1>h, <1>1 DEF GoodLocal, AttemptPhases, TypeInv
<1>5. ASSUME NEW c \in Conns, NEW version, Completable(a), PutCredentials(p, a, c, version)
      PROVE  Puts(p, c)
  <2> DEFINE g == h[p].cred.grant
  <2>1. g \in Grants /\ a # c /\ a \in Slots /\ c \in Slots
    BY <1>h, <1>1, <1>4, IdsDistinct DEF GoodLocal, GrantPhases, Slots
  <2>2. h'[p].pc = "idle"
    BY <1>5, FinishFields DEF PutCredentials
  <2>3. grants'[g] = [grants[g] EXCEPT !.home = c]
    BY <1>5, <2>1 DEF PutCredentials
  <2>4. \A d \in Grants \ {g} : grants'[d] = [grants[d] EXCEPT !.replaced = @ \/ grants[d].home = c]
    BY <1>5, <2>1 DEF PutCredentials
  <2>5. /\ attempts' = [attempts EXCEPT ![a].status = "COMPLETED", ![a].conn = c, ![a].payload = FALSE]
        /\ vault' = [vault EXCEPT ![a] = NoSecret, ![c] = Sealed(h[p].cred)]
    BY <1>5 DEF PutCredentials
  <2> DEFINE k == Sealed(h[p].cred)
  <2>6. vault' = [vault EXCEPT ![a] = NoSecret, ![c] = k]
    BY <2>5
  <2> HIDE DEF g, a, k
  <2>7. /\ attempts[a].status = "NEEDS_REVOCATION" /\ attempts'[a].status = "COMPLETED"
        /\ \A b \in Attempts \ {a} : attempts'[b] = attempts[b]
    BY <1>4, <1>5, <2>5 DEF TypeInv, Completable, AttemptRow
  <2>8. /\ vault'[a] = NoSecret /\ vault'[c] = k
        /\ \A s \in Slots \ {a, c} : vault'[s] = vault[s]
    BY <2>1, <2>6 DEF TypeInv
  <2>9. /\ grants'[g].home = c /\ grants'[g].status = grants[g].status
        /\ grants'[g].attempt = grants[g].attempt /\ grants'[g].replaced = grants[g].replaced
    BY <1>g, <2>1, <2>3 DEF Grant
  <2>10. ASSUME NEW d \in Grants \ {g}
         PROVE  /\ grants'[d].status = grants[d].status /\ grants'[d].attempt = grants[d].attempt
                /\ grants'[d].home = grants[d].home
                /\ grants[d].replaced => grants'[d].replaced
                /\ grants[d].home = c => grants'[d].replaced
    <3>1. grants'[d] = [grants[d] EXCEPT !.replaced = @ \/ grants[d].home = c] /\ grants[d] \in Grant
      BY <1>g, <2>4
    <3>2. /\ grants'[d].status = grants[d].status /\ grants'[d].attempt = grants[d].attempt
          /\ grants'[d].home = grants[d].home
      BY <3>1 DEF Grant
    <3>3. grants'[d].replaced = (grants[d].replaced \/ grants[d].home = c)
      BY <3>1, Zenon DEF Grant
    <3> QED
      BY <3>2, <3>3
  <2> QED
    BY <1>1, <2>2, <2>7, <2>8, <2>9, <2>10 DEF Puts, a, g, k
<1>6. a # None /\ attempts[a].conn # None => attempts[a].conn \in Conns
  BY <1>4 DEF AttemptRow
<1>7. UNCHANGED <<attempts, vault, grants>> \/ \E c \in Conns : Puts(p, c)
  <2>1. \/ UNCHANGED <<attempts, vault, grants>>
        \/ /\ Completable(a) /\ attempts[a].conn # None
           /\ PutCredentials(p, a, attempts[a].conn, conns[attempts[a].conn].version)
        \/ Completable(a) /\ \E c \in Conns : PutCredentials(p, a, c, 1)
    BY DEF CompleteCommit
  <2>2. a # None
    BY <1>4, NoneIsNothing
  <2> HIDE DEF a
  <2> QED
    BY <1>5, <1>6, <2>1, <2>2
<1> QED
  BY <1>1, <1>2, <1>3, <1>7

\* Storing rotated tokens does not change which grants are stored: the row still
\* holds the grant that the refresh was claimed for.
LEMMA RotationKeepsGrant ==
  ASSUME TypeInv, CiphertextInv, TokenInv, NEW p \in Handlers, RefreshCommit(p)
  PROVE  /\ UNCHANGED <<attempts, grants>> /\ audit \subseteq audit'
         /\ h[p].pc = "refreshCommit" /\ h[p].conn \in Conns
         /\ \A q \in Handlers \ {p} : h'[q] = h[q]
         /\ \/ h'[p].pc \in {"grantCheck", "idle"}
            \/ h'[p].pc = "refreshFailed" /\ h'[p].cred = h[p].cred
         /\ \A s \in Slots : \/ vault'[s] = vault[s]
                             \/ /\ s \notin Attempts
                                /\ CredentialsIn(s) /\ CredentialsIn(s)'
                                /\ vault'[s].cred.grant = vault[s].cred.grant
<1>h. h \in [Handlers -> GoodLocal] /\ h[p] \in Local /\ h[p] \in GoodLocal
  BY DEF TypeInv, GoodLocal
<1> DEFINE c == h[p].conn
           k == Sealed(h[p].cred)
<1>1. UNCHANGED <<attempts, grants>> /\ audit \subseteq audit' /\ h[p].pc = "refreshCommit"
  BY DEF RefreshCommit, Log
<1>2. c \in Conns /\ c \in Slots /\ c \notin Attempts
  BY <1>h, <1>1, IdsDistinct DEF GoodLocal, ConnPhases, Slots
<1> DEFINE r == conns[c]
           pending == r.status = "REVOCATION_PENDING" /\ r.refreshBy = p
           claimed == r.status = "REFRESHING" /\ r.version = h[p].row.version
           usable == /\ h[p].ok
                     /\ connector.enabled
                     /\ connector.version = h[p].connector.version
           next == [r EXCEPT !.refreshBy = None, !.version = @ + 1,
                      !.status = StatusAfterRefresh(pending, usable)]
<1>3. /\ \/ UNCHANGED vault
         \/ (pending \/ claimed) /\ vault' = [vault EXCEPT ![c] = Sealed(h[p].cred)]
      /\ \/ h' = [h EXCEPT ![p].pc = "refreshFailed", ![p].ok = FALSE]
         \/ h' = [h EXCEPT ![p].pc = "grantCheck", ![p].row = next,
                           ![p].connector = connector, ![p].ok = FALSE]
         \/ Finish(p)
  BY DEF RefreshCommit
<1>4. /\ \A q \in Handlers \ {p} : h'[q] = h[q]
      /\ \/ h'[p].pc \in {"grantCheck", "idle"}
         \/ h'[p].pc = "refreshFailed" /\ h'[p].cred = h[p].cred
  <2> HIDE DEF next
  <2>1. CASE h' = [h EXCEPT ![p].pc = "refreshFailed", ![p].ok = FALSE]
    BY <1>h, <2>1 DEF Local
  <2>2. CASE h' = [h EXCEPT ![p].pc = "grantCheck", ![p].row = next,
                            ![p].connector = connector, ![p].ok = FALSE]
    BY <1>h, <2>2 DEF Local
  <2>3. CASE Finish(p)
    BY <1>h, <2>3 DEF Finish, Idle
  <2> QED
    BY <1>3, <2>1, <2>2, <2>3
<1>5. ASSUME pending \/ claimed, vault' = [vault EXCEPT ![c] = Sealed(h[p].cred)]
      PROVE  \A s \in Slots : \/ vault'[s] = vault[s]
                              \/ /\ s \notin Attempts
                                 /\ CredentialsIn(s) /\ CredentialsIn(s)'
                                 /\ vault'[s].cred.grant = vault[s].cred.grant
  <2>1. conns[c].refreshBy = p /\ ConnExists(conns[c])
    BY <1>1, <1>5, ClaimStands DEF RefreshPhases, ConnExists
  <2>2. vault[c].cred.grant = h[p].cred.grant
    BY <1>1, <2>1 DEF TokenInv, Refreshes, RefreshPhases
  <2>3. CredentialsIn(c)
    BY <1>2, <2>1 DEF CiphertextInv, NoOrphanCiphertext
  <2>4. vault'[c] = k /\ \A s \in Slots \ {c} : vault'[s] = vault[s]
    <3>1. vault' = [vault EXCEPT ![c] = k]
      BY <1>5
    <3> HIDE DEF k, c
    <3> QED
      BY <1>2, <3>1 DEF TypeInv
  <2>5. vault'[c].kind = "credentials" /\ vault'[c].cred.grant = vault[c].cred.grant
    BY <2>2, <2>4 DEF Sealed
  <2> QED
    BY <1>2, <2>3, <2>4, <2>5 DEF CredentialsIn
<1>6. \A s \in Slots : \/ vault'[s] = vault[s]
                        \/ /\ s \notin Attempts
                           /\ CredentialsIn(s) /\ CredentialsIn(s)'
                           /\ vault'[s].cred.grant = vault[s].cred.grant
  <2> HIDE DEF next, pending, claimed
  <2> QED
    BY <1>3, <1>5
<1> HIDE DEF next, pending, claimed
<1> QED
  BY <1>1, <1>2, <1>4, <1>6

\* What a deletion does, by the owner or an administrator, with its audit entries.
DeletionOps == {"disconnect.deleted_revocation_unconfirmed",
                "disconnect.deleted_revocation_confirmed"}
Deletes(cs, as) ==
  /\ UNCHANGED grants /\ audit \subseteq audit' /\ cs \subseteq Conns /\ as \subseteq Attempts
  /\ \A a \in as : attempts'[a].status = "DELETED" /\ attempts'[a].conn = attempts[a].conn
  /\ \A a \in Attempts \ as : attempts'[a] = attempts[a]
  /\ \A s \in cs \cup as : vault'[s] = NoSecret
  /\ \A s \in Slots \ (cs \cup as) : vault'[s] = vault[s]
  /\ \A a \in as : \/ <<"authorization.deleted", a>> \in audit'
                   \/ \E op \in DeletionOps : <<op, attempts[a].conn>> \in audit'
  /\ \A c \in cs : \/ <<"connection.deleted", c>> \in audit'
                   \/ <<"disconnect.deleted_revocation_unconfirmed", c>> \in audit'
                   \/ CredentialsIn(c) => grants[vault[c].cred.grant].status = "revoked"

\* The administrator's deletions.
LEMMA StateDeletes ==
  ASSUME TypeInv, UNCHANGED grants, NEW cs \in SUBSET Conns, NEW as \in SUBSET Attempts,
         DeleteState(cs, as)
  PROVE  Deletes(cs, as)
<1>1. /\ attempts' = [a \in Attempts |-> IF a \in as THEN DeletedAttempt(attempts[a])
                                                     ELSE attempts[a]]
      /\ vault' = [s \in Slots |-> IF s \in cs \cup as THEN NoSecret ELSE vault[s]]
      /\ audit' = audit \cup DeletionEntries(cs, as)
  BY DEF DeleteState, ValuesOf
<1>2. \A a \in as : attempts'[a].status = "DELETED" /\ attempts'[a].conn = attempts[a].conn
  BY <1>1 DEF DeletedAttempt, UnusedAttempt
<1>3. \A a \in Attempts \ as : attempts'[a] = attempts[a]
  BY <1>1
<1>4. cs \cup as \subseteq Slots
  BY DEF Slots
<1>5. /\ \A s \in cs \cup as : vault'[s] = NoSecret
      /\ \A s \in Slots \ (cs \cup as) : vault'[s] = vault[s]
  BY <1>1, <1>4
<1>6. \A a \in as : <<"authorization.deleted", a>> \in audit'
  BY <1>1 DEF DeletionEntries
<1>7. \A c \in cs : <<"connection.deleted", c>> \in audit'
  BY <1>1 DEF DeletionEntries
<1> QED
  BY <1>1, <1>2, <1>3, <1>5, <1>6, <1>7 DEF Deletes

\* An administrator's deletions are on the record.
LEMMA AdminDeletes ==
  ASSUME TypeInv, AdminDelete \/ DeleteConnector
  PROVE  UNCHANGED h /\ \E cs \in SUBSET Conns, as \in SUBSET Attempts : Deletes(cs, as)
<1>1. CASE AdminDelete
  <2>1. PICK c \in Conns : DeleteState({c}, AttemptsOf(c))
    BY <1>1 DEF AdminDelete
  <2>2. {c} \in SUBSET Conns /\ AttemptsOf(c) \in SUBSET Attempts
    BY DEF AttemptsOf
  <2>3. UNCHANGED <<h, grants>>
    BY <1>1 DEF AdminDelete
  <2> QED
    BY <2>1, <2>2, <2>3, StateDeletes
<1>2. CASE DeleteConnector
  <2> DEFINE cs == {c \in Conns : ConnExists(conns[c])}
             as == {a \in Attempts : AttemptExists(attempts[a])}
  <2>1. DeleteState(cs, as)
    BY <1>2 DEF DeleteConnector
  <2>2. cs \in SUBSET Conns /\ as \in SUBSET Attempts
    OBVIOUS
  <2>3. UNCHANGED <<h, grants>>
    BY <1>2 DEF DeleteConnector
  <2> HIDE DEF cs, as
  <2> QED
    BY <2>1, <2>2, <2>3, StateDeletes
<1> QED
  BY <1>1, <1>2

\* A disconnect that believes its revocations confirmed deletes no credential of a
\* grant that is still active.
LEMMA DeletionCovered ==
  ASSUME FollowInv, NEW p \in Handlers, DisconnectDelete(p), h[p].ok,
         UNCHANGED vault \/ /\ conns[h[p].conn].status = "REVOCATION_PENDING"
                            /\ conns[h[p].conn].version = h[p].row.version,
         ~UNCHANGED vault, CredentialsIn(h[p].conn)
  PROVE  grants[vault[h[p].conn].cred.grant].status = "revoked"
<1> DEFINE c == h[p].conn
<1>1. h[p].pc = "disconnectRevoke" /\ h[p].creds = {}
  BY DEF DisconnectDelete
<1>2. Follows(p) /\ h[p].pc \in DiscPhases /\ Read(h[p])
  BY <1>1 DEF FollowInv, DiscPhases, Read
<1>3. h[p].row.version \in Nat
  BY DEF FollowInv, CustodyInv, TypeInv, GoodLocal, Local, ConnRow
<1>4. conns[c] = h[p].row
  BY <1>2, <1>3 DEF Follows, PinnedBy
<1>5. Covered(h[p], c)
  BY <1>2, <1>4 DEF Follows
<1> QED
  BY <1>1, <1>5 DEF Covered

\* The owner's deletion.
LEMMA DisconnectDeletes ==
  ASSUME FollowInv, NEW p \in Handlers, DisconnectDelete(p)
  PROVE  /\ h[p].pc = "disconnectRevoke" /\ h'[p].pc = "idle"
         /\ \A q \in Handlers \ {p} : h'[q] = h[q]
         /\ \/ UNCHANGED <<attempts, vault, grants, audit>>
            \/ \E cs \in SUBSET Conns, as \in SUBSET Attempts : Deletes(cs, as)
<1>t. TypeInv /\ h \in [Handlers -> GoodLocal] /\ h[p] \in GoodLocal
  BY DEF FollowInv, CustodyInv, TypeInv
<1>1. h[p].pc = "disconnectRevoke" /\ Finish(p) /\ UNCHANGED grants
  BY DEF DisconnectDelete
<1>2. h'[p].pc = "idle" /\ \A q \in Handlers \ {p} : h'[q] = h[q]
  BY <1>t, <1>1 DEF Finish, Idle
<1> DEFINE c == h[p].conn
           mine == {a \in Attempts : AttemptExists(h[p].rows[a])}
<1>3. c \in Conns
  BY <1>t, <1>1 DEF GoodLocal, ConnPhases
<1>4. CASE /\ conns[c].status = "REVOCATION_PENDING"
           /\ conns[c].version = h[p].row.version
           /\ AttemptsOf(c) = mine
           /\ attempts' = [a \in Attempts |-> IF a \in mine THEN DeletedAttempt(attempts[a])
                                                            ELSE attempts[a]]
           /\ vault' = [s \in Slots |-> IF s \in mine \cup {c} THEN NoSecret ELSE vault[s]]
           /\ audit' = audit \cup {Disconnected(c, h[p].ok)}
  <2> DEFINE as == AttemptsOf(c)
  <2>1. as = mine /\ as \subseteq Attempts /\ \A a \in as : attempts[a].conn = c
    BY <1>4 DEF AttemptsOf
  <2>2. {c} \cup as \subseteq Slots
    BY <1>3, <2>1 DEF Slots
  <2>3. PICK op \in DeletionOps :
          /\ <<op, c>> \in audit'
          /\ op = "disconnect.deleted_revocation_unconfirmed" \/ h[p].ok
    BY <1>4 DEF Disconnected, DeletionOps
  <2>4. \/ <<"disconnect.deleted_revocation_unconfirmed", c>> \in audit'
        \/ CredentialsIn(c) => grants[vault[c].cred.grant].status = "revoked"
    <3>1. ASSUME CredentialsIn(c), h[p].ok
          PROVE  grants[vault[c].cred.grant].status = "revoked"
      <4>1. vault'[c] = NoSecret
        BY <1>3, <1>4 DEF Slots
      <4>2. ~UNCHANGED vault
        BY <3>1, <4>1 DEF CredentialsIn, NoSecret
      <4> QED
        BY <1>4, <3>1, <4>2, DeletionCovered
    <3> QED
      BY <2>3, <3>1
  <2> DEFINE V == mine \cup {c}
  <2>5. V = {c} \cup as
    BY <2>1
  <2>6. /\ vault' = [s \in Slots |-> IF s \in V THEN NoSecret ELSE vault[s]]
        /\ attempts' = [a \in Attempts |-> IF a \in as THEN DeletedAttempt(attempts[a])
                                                       ELSE attempts[a]]
    BY <1>4, <2>1
  <2>7. \A s \in {c} \cup as : vault'[s] = NoSecret
    <3> HIDE DEF V, as, mine, c
    <3> QED
      BY <2>2, <2>5, <2>6
  <2>8. \A s \in Slots \ ({c} \cup as) : vault'[s] = vault[s]
    <3> HIDE DEF V, as, mine, c
    <3> QED
      BY <2>5, <2>6
  <2>9. \A a \in as : attempts'[a].status = "DELETED" /\ attempts'[a].conn = attempts[a].conn
    <3> HIDE DEF as, c, mine, V
    <3> QED
      BY <2>1, <2>6 DEF DeletedAttempt, UnusedAttempt
  <2>10. \A a \in Attempts \ as : attempts'[a] = attempts[a]
    <3> HIDE DEF as, c, mine, V
    <3> QED
      BY <2>6
  <2>11. audit \subseteq audit'
    BY <1>4
  <2>12. \A a \in as : \E o \in DeletionOps : <<o, attempts[a].conn>> \in audit'
    BY <2>1, <2>3
  <2>13. Deletes({c}, as)
    <3> HIDE DEF as, c, mine, V
    <3> QED
      BY <1>1, <1>3, <2>1, <2>4, <2>7, <2>8, <2>9, <2>10, <2>11, <2>12 DEF Deletes
  <2> QED
    BY <1>1, <1>2, <1>3, <2>1, <2>13
<1>5. CASE UNCHANGED <<attempts, vault, audit>>
  BY <1>1, <1>2, <1>5
<1> QED
  BY <1>4, <1>5 DEF DisconnectDelete

\* The ways in which a step is not quiet.
Issues(p, g) == /\ UNCHANGED <<attempts, vault, audit>>
                /\ h[p].pc = "exchange" /\ h[p].att \in Attempts /\ IssuedTo(p, g)
Retains(p) ==
  /\ UNCHANGED grants /\ audit \subseteq audit'
  /\ h[p].pc \in {"received", "rejected"} /\ h[p].att \in Attempts
  /\ attempts[h[p].att].status = "PROCESSING"
  /\ attempts'[h[p].att].status = "NEEDS_REVOCATION"
  /\ attempts'[h[p].att].conn = attempts[h[p].att].conn
  /\ vault'[h[p].att] = Sealed(h[p].cred) /\ OnlyAttempt(h[p].att)
  /\ h'[p].pc \in {"retained", "idle"}
Closes(p) ==
  /\ UNCHANGED grants /\ audit \subseteq audit' /\ h[p].att \in Attempts
  /\ h'[p].pc = "idle"
  /\ \/ /\ h[p].pc = "exchangeFailed" /\ attempts[h[p].att].status = "PROCESSING"
        /\ ClosedAs(h[p].att, "FAILED")
     \/ /\ h[p].pc = "unstoredMark" /\ ClosedAs(h[p].att, "FAILED")
        /\ attempts[h[p].att].status \in {"PROCESSING", "NEEDS_REVOCATION"}
        /\ h[p].ok \/ /\ attempts[h[p].att].status = "PROCESSING"
                      /\ <<"authorization.revocation_unconfirmed", h[p].att>> \in audit'
     \/ /\ h[p].pc = "cancelFinish" /\ ClosedAs(h[p].att, "CANCELLED")
        /\ attempts[h[p].att].status = h[p].arow.status
        /\ h[p].ok =>
             <<"authorization.cancelled_revocation_unsupported", h[p].att>> \in audit'
Rotates(p) ==
  /\ UNCHANGED <<attempts, grants>> /\ audit \subseteq audit'
  /\ h[p].pc = "refreshCommit" /\ h'[p].pc \in {"grantCheck", "idle", "refreshFailed"}
  /\ h'[p].pc = "refreshFailed" => h'[p].cred = h[p].cred
  /\ \A s \in Slots : \/ vault'[s] = vault[s]
                      \/ /\ s \notin Attempts
                         /\ CredentialsIn(s) /\ CredentialsIn(s)'
                         /\ vault'[s].cred.grant = vault[s].cred.grant

\* A handler that closes an attempt.
LEMMA ClosingSteps ==
  ASSUME TypeInv, NEW p \in Handlers, ExchangeFailed(p) \/ MarkUnstored(p) \/ CancelFinish(p)
  PROVE  Quiet \/ Closes(p)
<1>h. h[p] \in GoodLocal /\ h[p] \in Local
  BY DEF TypeInv, GoodLocal
<1> DEFINE a == h[p].att
<1>1. /\ UNCHANGED grants /\ audit \subseteq audit' /\ Finish(p)
      /\ h[p].pc \in {"exchangeFailed", "unstoredMark", "cancelFinish"}
  BY DEF ExchangeFailed, MarkUnstored, CancelFinish, Log
<1>2. a \in Attempts /\ h'[p].pc = "idle"
  BY <1>1, <1>h, FinishFields DEF GoodLocal, AttemptPhases
<1>3. CASE UNCHANGED <<attempts, vault>>
  BY <1>1, <1>3, QuietSame
<1>4. CASE ExchangeFailed(p) /\ ~UNCHANGED <<attempts, vault>>
  <2>1. h[p].pc = "exchangeFailed" /\ StillProcessing(a) /\ CloseAttempt(a, "FAILED")
    BY <1>4 DEF ExchangeFailed
  <2>2. ClosedAs(a, "FAILED")
    BY <1>2, <2>1, ClosesOne
  <2> QED
    BY <1>1, <1>2, <2>1, <2>2 DEF Closes, StillProcessing
<1>5. CASE MarkUnstored(p) /\ ~UNCHANGED <<attempts, vault>>
  <2>1. /\ h[p].pc = "unstoredMark" /\ CloseAttempt(a, "FAILED")
        /\ attempts[a].status \in {"PROCESSING"} \cup IF h[p].ok THEN {"NEEDS_REVOCATION"} ELSE {}
        /\ Log(IF h[p].ok THEN "authorization.credentials_revoked"
                          ELSE "authorization.revocation_unconfirmed", a)
    BY <1>5 DEF MarkUnstored
  <2>2. ClosedAs(a, "FAILED")
    BY <1>2, <2>1, ClosesOne
  <2>3. CASE h[p].ok
    BY <1>1, <1>2, <2>1, <2>2, <2>3 DEF Closes
  <2>4. CASE ~h[p].ok
    <3>1. /\ attempts[a].status = "PROCESSING"
          /\ <<"authorization.revocation_unconfirmed", a>> \in audit'
      BY <2>1, <2>4 DEF Log
    <3> QED
      BY <1>1, <1>2, <2>1, <2>2, <3>1 DEF Closes
  <2> QED
    BY <2>3, <2>4
<1>6. CASE CancelFinish(p) /\ ~UNCHANGED <<attempts, vault>>
  <2>1. /\ h[p].pc = "cancelFinish" /\ CloseAttempt(a, "CANCELLED")
        /\ attempts[a].status = h[p].arow.status
        /\ Log(IF h[p].ok THEN "authorization.cancelled_revocation_unsupported"
                          ELSE "authorization.cancelled", a)
    BY <1>6 DEF CancelFinish
  <2>2. ClosedAs(a, "CANCELLED")
    BY <1>2, <2>1, ClosesOne
  <2>3. h[p].ok => <<"authorization.cancelled_revocation_unsupported", a>> \in audit'
    BY <2>1 DEF Log
  <2> QED
    BY <1>1, <1>2, <2>1, <2>2, <2>3 DEF Closes
<1> QED
  BY <1>3, <1>4, <1>5, <1>6

\* A handler that asks the provider to revoke.
LEMMA RevokingSteps ==
  ASSUME TypeInv, NEW p \in Handlers, RevokeUnstored(p) \/ CancelRevoke(p) \/ DisconnectRevoke(p)
  PROVE  \E g \in Grants \cup {None} : Revokes(g)
<1>1. UNCHANGED <<conns, attempts, vault, audit>>
  BY DEF RevokeUnstored, CancelRevoke, DisconnectRevoke
<1>2. \E c, outcome : RevokeOutcome(c, outcome)
  BY DEF RevokeUnstored, CancelRevoke, DisconnectRevoke
<1> QED
  BY <1>1, <1>2, RevokesGrant

\* The same grants are in the hands of handlers.
HoldsSame == \A g \in Grants : Held(g)' <=> Held(g)

\* A handler that asks the provider to revoke goes on answering for what it holds.
LEMMA RevokingHolds ==
  ASSUME TypeInv, NEW p \in Handlers, RevokeUnstored(p) \/ CancelRevoke(p) \/ DisconnectRevoke(p)
  PROVE  HoldsSame
<1>h. h[p] \in Local /\ h \in [Handlers -> GoodLocal]
  BY DEF TypeInv, GoodLocal
<1>1. \A q \in Handlers \ {p} : h'[q] = h[q]
  BY <1>h DEF RevokeUnstored, CancelRevoke, DisconnectRevoke
<1>2. CASE RevokeUnstored(p)
  <2>1. /\ h[p].pc \in Custodial /\ h'[p].pc \in Custodial
        /\ h'[p].cred = h[p].cred
    BY <1>h, <1>2 DEF RevokeUnstored, Custodial, Local
  <2> QED
    BY <1>1, <2>1 DEF HoldsSame, Held
<1>3. CASE CancelRevoke(p) \/ DisconnectRevoke(p)
  <2>1. h[p].pc \notin Custodial
    BY <1>3 DEF CancelRevoke, DisconnectRevoke, Custodial
  <2>2. h'[p].pc \notin Custodial
    BY <1>3, AuthorizationPhases, ConnectionPhases DEF Custodial
  <2> QED
    BY <1>1, <2>1, <2>2 DEF HoldsSame, Held
<1> QED
  BY <1>2, <1>3

\* A deletion ends no handler that holds tokens.
LEMMA DeletionHolds ==
  ASSUME FollowInv, AdminDelete \/ DeleteConnector \/ \E p \in Handlers : DisconnectDelete(p)
  PROVE  HoldsSame
<1>1. CASE AdminDelete \/ DeleteConnector
  BY <1>1, AdminDeletes DEF FollowInv, CustodyInv, HoldsSame, Held
<1>2. ASSUME NEW p \in Handlers, DisconnectDelete(p)
      PROVE  HoldsSame
  <2>1. /\ \A q \in Handlers \ {p} : h'[q] = h[q]
        /\ h[p].pc \notin Custodial /\ h'[p].pc \notin Custodial
    BY <1>2, DisconnectDeletes DEF Custodial
  <2> QED
    BY <2>1 DEF HoldsSame, Held
<1> QED
  BY <1>1, <1>2
\* Every step is of one of these kinds.
LEMMA Kinds ==
  ASSUME FollowInv, [Next]_vars
  PROVE  \/ Quiet
         \/ \E p \in Handlers : \/ \E g \in Grants : Issues(p, g)
                                \/ Retains(p) \/ Closes(p) \/ Rotates(p)
                                \/ \E c \in Conns : audit \subseteq audit' /\ Puts(p, c)
         \/ \E g \in Grants \cup {None} : HoldsSame /\ Revokes(g)
         \/ \E cs \in SUBSET Conns, as \in SUBSET Attempts : HoldsSame /\ Deletes(cs, as)
<1>t. TypeInv /\ CiphertextInv /\ TokenInv /\ SnapshotsLag
  BY DEF FollowInv, CustodyInv, CiphertextInv
<1>1. ASSUME NEW p \in Handlers, Exchange(p)
      PROVE  Quiet \/ \E g \in Grants : Issues(p, g)
  BY <1>1, <1>t, ExchangeIssues, QuietSame DEF Issues
<1>2. ASSUME NEW p \in Handlers, Retain(p)
      PROVE  Quiet \/ Retains(p)
  <2>1. CASE UNCHANGED <<attempts, vault>>
    BY <1>2, <1>t, <2>1, RetainKeeps, QuietSame
  <2>2. CASE ~UNCHANGED <<attempts, vault>>
    BY <1>2, <1>t, <2>2, RetainKeeps DEF Retains
  <2> QED
    BY <2>1, <2>2
<1>3. ASSUME NEW p \in Handlers, CompleteCommit(p)
      PROVE  Quiet \/ \E c \in Conns : audit \subseteq audit' /\ Puts(p, c)
  BY <1>3, <1>t, CommitPuts, QuietSame
<1>4. ASSUME NEW p \in Handlers, RefreshCommit(p)
      PROVE  Rotates(p)
  BY <1>4, <1>t, RotationKeepsGrant DEF Rotates
<1>5. ASSUME NEW p \in Handlers, DisconnectDelete(p)
      PROVE  Quiet \/ \E cs \in SUBSET Conns, as \in SUBSET Attempts : HoldsSame /\ Deletes(cs, as)
  BY <1>5, DisconnectDeletes, DeletionHolds, QuietSame
<1>6. AdminDelete \/ DeleteConnector
        => \E cs \in SUBSET Conns, as \in SUBSET Attempts : HoldsSame /\ Deletes(cs, as)
  BY <1>t, AdminDeletes, DeletionHolds
<1>7. ASSUME NEW p \in Handlers, Giving(p)
      PROVE  \/ Quiet \/ (\E g \in Grants : Issues(p, g))
             \/ Retains(p) \/ Closes(p) \/ Rotates(p)
             \/ (\E c \in Conns : audit \subseteq audit' /\ Puts(p, c))
             \/ (\E g \in Grants \cup {None} : HoldsSame /\ Revokes(g))
             \/ \E cs \in SUBSET Conns, as \in SUBSET Attempts : HoldsSame /\ Deletes(cs, as)
  BY <1>t, <1>1, <1>2, <1>3, <1>4, <1>5, <1>7, ClosingSteps, RevokingSteps,
     RevokingHolds DEF Giving
<1> QED
  BY <1>t, <1>6, <1>7, QuietSteps

\* Tokens kept in an attempt are those of its own grant, which has no home yet; a
\* grant with a home came from an attempt that is over.
Places ==
  \A a \in Attempts : CredentialsIn(a) =>
    LET g == vault[a].cred.grant
    IN g \in Grants /\ Issued(g) /\ grants[g].attempt = a /\ grants[g].home = None
Over == {"COMPLETED", "CANCELLED", "FAILED", "DELETED"}
Homed ==
  \A g \in Grants : Issued(g) /\ grants[g].home # None
                      => attempts[grants[g].attempt].status \in Over

\* A code is exchanged for an attempt that shows it, or whose deletion was recorded;
\* no grant came of that attempt and no other handler exchanges its code.
Given(a) == /\ attempts[a].status = "DELETED"
            /\ \/ Logged({"authorization.deleted"}, a)
               \/ Logged(DeletionOps, attempts[a].conn)
ExchangePhases == {"exchange", "exchangeFailed"}
Exchanges(p) ==
  LET l == h[p] IN
  l.pc \in ExchangePhases =>
    /\ attempts[l.att].status = "PROCESSING" \/ Given(l.att)
    /\ \A g \in Grants : Issued(g) => grants[g].attempt # l.att
    /\ \A q \in Handlers \ {p} : h[q].pc \in ExchangePhases => h[q].att # l.att

\* A handler that could not store its tokens knows whether they are revoked.
Unstores(p) ==
  h[p].pc = "unstoredMark" /\ h[p].ok => grants[h[p].cred.grant].status = "revoked"

\* A cancellation closes an attempt as it read it, never one that processes a code;
\* the tokens it closes the attempt over are revoked, unless it says they cannot be.
Cancels(p) ==
  LET l == h[p] a == h[p].att IN
  /\ l.pc \in {"cancelDecrypt", "cancelMark", "cancelRevoke"} => l.arow.status \in RetainedStatus
  /\ l.pc \in CancelPhases =>
       /\ AttemptExists(l.arow) /\ l.arow.status # "PROCESSING"
       /\ Ahead(attempts[a].status, l.arow.status)
  /\ l.pc \in {"cancelMark", "cancelRevoke"} /\ CredentialsIn(a) => vault[a] = Sealed(l.cred)
  /\ l.pc = "cancelFinish" /\ attempts[a].status = l.arow.status /\ CredentialsIn(a) =>
       l.ok \/ grants[vault[a].cred.grant].status = "revoked"

Callbacks == \A p \in Handlers : Exchanges(p) /\ Unstores(p) /\ Cancels(p)

\* Tokens kept in an attempt stay those of its grant.
LEMMA PlacesStep ==
  ASSUME FollowInv, Places, [Next]_vars
  PROVE  Places'
<1>t. TypeInv /\ CiphertextInv /\ TokenInv
  BY DEF FollowInv, CustodyInv
<1> SUFFICES ASSUME NEW a \in Attempts, CredentialsIn(a)', NEW g, g = vault'[a].cred.grant
             PROVE  /\ g \in Grants /\ grants'[g].status # "unissued"
                    /\ grants'[g].attempt = a /\ grants'[g].home = None
  BY DEF Places, Issued
<1>s. a \in Slots /\ vault'[a].kind = "credentials"
  BY DEF Slots, CredentialsIn
<1>no. vault'[a] # NoSecret /\ vault'[a] # OAuthPayload
  BY <1>s DEF NoSecret, OAuthPayload
<1>1. ASSUME vault'[a] = vault[a],
             \A d \in Grants : Issued(d) =>
               /\ grants'[d].status # "unissued" /\ grants'[d].attempt = grants[d].attempt
               /\ grants'[d].home = grants[d].home \/ grants[d].attempt # a
      PROVE  /\ g \in Grants /\ grants'[g].status # "unissued"
             /\ grants'[g].attempt = a /\ grants'[g].home = None
  BY <1>1, <1>s DEF Places, CredentialsIn
<1>2. CASE Quiet
  <2>1. QuietMove(a) /\ \A d \in Grants : GrantQuiet(d)
    BY <1>2 DEF Quiet
  <2> QED
    BY <1>1, <1>no, <2>1 DEF QuietMove, Untouched, Begun, Marked, Cleaned, GrantQuiet, Issued
<1>3. ASSUME NEW p \in Handlers, NEW d \in Grants, Issues(p, d)
      PROVE  vault'[a] = vault[a] /\ \A e \in Grants : Issued(e) => grants'[e] = grants[e]
  BY <1>3 DEF Issues, IssuedTo, Issued
<1>4. ASSUME NEW p \in Handlers, Retains(p)
      PROVE  /\ g \in Grants /\ grants'[g].status # "unissued"
             /\ grants'[g].attempt = a /\ grants'[g].home = None
  <2>1. CASE a = h[p].att
    <3>1. vault'[a] = Sealed(h[p].cred) /\ UNCHANGED grants /\ h[p].pc \in CallbackPhases
      BY <1>4, <2>1 DEF Retains, CallbackPhases
    <3>2. g = h[p].cred.grant
      BY <3>1 DEF Sealed
    <3>3. Receives(p)
      BY <1>t DEF TokenInv
    <3> QED
      BY <2>1, <3>1, <3>2, <3>3 DEF Receives, Issued
  <2>2. CASE a # h[p].att
    BY <1>1, <1>4, <1>s, <2>2 DEF Retains, OnlyAttempt, Issued
  <2> QED
    BY <2>1, <2>2
<1>5. ASSUME NEW p \in Handlers, Closes(p)
      PROVE  vault'[a] = vault[a] /\ UNCHANGED grants
  BY <1>5, <1>s, <1>no DEF Closes, ClosedAs, OnlyAttempt
<1>6. ASSUME NEW p \in Handlers, Rotates(p)
      PROVE  vault'[a] = vault[a] /\ UNCHANGED grants
  BY <1>6, <1>s DEF Rotates
<1>7. ASSUME NEW p \in Handlers, NEW c \in Conns, Puts(p, c)
      PROVE  /\ vault'[a] = vault[a]
             /\ \A d \in Grants : Issued(d) =>
                  /\ grants'[d].status # "unissued" /\ grants'[d].attempt = grants[d].attempt
                  /\ grants'[d].home = grants[d].home \/ grants[d].attempt # a
  <2>1. a # h[p].att /\ a # c
    BY <1>7, <1>no, IdsDistinct DEF Puts
  <2>2. Receives(p) /\ h[p].pc \in CallbackPhases
    BY <1>7, <1>t DEF TokenInv, Puts, CallbackPhases
  <2>3. grants[h[p].cred.grant].attempt # a
    BY <2>1, <2>2 DEF Receives
  <2> QED
    BY <1>7, <1>s, <2>1, <2>3 DEF Puts, Issued
<1>8. ASSUME NEW d \in Grants \cup {None}, Revokes(d)
      PROVE  /\ vault'[a] = vault[a]
             /\ \A e \in Grants : Issued(e) =>
                  /\ grants'[e].status # "unissued" /\ grants'[e].attempt = grants[e].attempt
                  /\ grants'[e].home = grants[e].home
  BY <1>8 DEF Revokes, Issued
<1>9. ASSUME NEW cs \in SUBSET Conns, NEW as \in SUBSET Attempts, Deletes(cs, as)
      PROVE  vault'[a] = vault[a] /\ UNCHANGED grants
  BY <1>9, <1>s, <1>no DEF Deletes
<1>10. CASE vault'[a] = vault[a] /\ \A d \in Grants : Issued(d) => grants'[d] = grants[d]
  BY <1>1, <1>10 DEF Issued
<1> QED
  BY <1>1, <1>2, <1>3, <1>4, <1>5, <1>6, <1>7, <1>8, <1>9, <1>10, Kinds

\* An attempt that is over stays over.
LEMMA OverStays ==
  ASSUME TypeInv, [Next]_vars, NEW a \in Attempts, attempts[a].status \in Over
  PROVE  attempts'[a].status \in Over
<1>1. AttemptMove(a)
  BY AttemptMoves
<1> QED
  BY <1>1 DEF AttemptMove, Kept, Closed, Created, Sent, Advanced, Retained, Discarded, Over

\* A grant gets its home by the commit that ends its attempt.
LEMMA HomedStep ==
  ASSUME FollowInv, ExchangeInv, Homed, [Next]_vars
  PROVE  Homed'
<1>t. TypeInv /\ CiphertextInv /\ TokenInv
  BY DEF FollowInv, CustodyInv
<1> SUFFICES ASSUME NEW g \in Grants, grants'[g].status # "unissued", grants'[g].home # None
             PROVE  attempts'[grants'[g].attempt].status \in Over
  BY DEF Homed, Issued
<1>1. ASSUME Issued(g), grants'[g].attempt = grants[g].attempt, grants'[g].home = grants[g].home
      PROVE  attempts'[grants'[g].attempt].status \in Over
  <2> DEFINE a == grants[g].attempt
  <2>1. a \in Attempts /\ attempts[a].status \in Over
    BY <1>1 DEF ExchangeInv, Homed
  <2>2. attempts'[a].status \in Over
    <3> HIDE DEF a
    <3> QED
      BY <1>t, <2>1, OverStays
  <2> QED
    BY <1>1, <2>2
<1>2. CASE Quiet
  BY <1>1, <1>2 DEF Quiet, GrantQuiet, Issued
<1>3. ASSUME NEW p \in Handlers, NEW d \in Grants, Issues(p, d)
      PROVE  Issued(g) /\ grants'[g] = grants[g]
  <2>1. d # g
    BY <1>3, <1>t DEF Issues, IssuedTo, TokenInv, UnissuedIsFresh, Issued
  <2> QED
    BY <1>3, <2>1 DEF Issues, IssuedTo, Issued
<1>4. ASSUME NEW p \in Handlers, NEW c \in Conns, Puts(p, c)
      PROVE  attempts'[grants'[g].attempt].status \in Over
  <2>1. CASE g = h[p].cred.grant
    <3>1. grants[g].attempt = h[p].att
      BY <1>4, <1>t, <2>1 DEF TokenInv, Receives, Puts, CallbackPhases
    <3> QED
      BY <1>4, <3>1 DEF Puts, Over
  <2>2. CASE g # h[p].cred.grant
    BY <1>1, <1>4, <2>2 DEF Puts, Issued
  <2> QED
    BY <2>1, <2>2
<1>5. ASSUME NEW d \in Grants \cup {None}, Revokes(d)
      PROVE  /\ Issued(g) /\ grants'[g].attempt = grants[g].attempt
             /\ grants'[g].home = grants[g].home
  BY <1>5 DEF Revokes, Issued
<1>6. CASE UNCHANGED grants
  BY <1>1, <1>6 DEF Issued
<1> QED
  BY <1>1, <1>2, <1>3, <1>4, <1>5, <1>6, Kinds DEF Retains, Closes, Rotates, Deletes

\* Entries of the audit log stay.
LEMMA AuditGrows ==
  ASSUME FollowInv, [Next]_vars
  PROVE  audit \subseteq audit'
  BY Kinds DEF Quiet, Issues, Retains, Closes, Rotates, Revokes, Deletes

\* An attempt that shows a code exchange goes on showing it, unless its own
\* handler fails or its deletion is recorded.
LEMMA ExchangeShown ==
  ASSUME FollowInv, Callbacks, [Next]_vars, NEW p \in Handlers, h[p].pc \in ExchangePhases,
         h'[p] = h[p]
  PROVE  \/ attempts'[h[p].att].status = "PROCESSING"
         \/ /\ attempts'[h[p].att].status = "DELETED"
            /\ \/ <<"authorization.deleted", h[p].att>> \in audit'
               \/ \E op \in DeletionOps : <<op, attempts'[h[p].att].conn>> \in audit'
<1>t. TypeInv /\ CiphertextInv /\ TokenInv
  BY DEF FollowInv, CustodyInv
<1> DEFINE a == h[p].att
<1>a. a \in Attempts /\ a \in Slots
  BY <1>t DEF TypeInv, GoodLocal, AttemptPhases, ExchangePhases, Slots
<1>audit. audit \subseteq audit'
  BY AuditGrows
<1>inv. Exchanges(p) /\ \A q \in Handlers : Cancels(q)
  BY DEF Callbacks
<1>0. attempts[a].status = "PROCESSING" \/ Given(a)
  BY <1>inv DEF Exchanges
<1> HIDE DEF a
<1>1. CASE attempts'[a].status = attempts[a].status /\ attempts'[a].conn = attempts[a].conn
  BY <1>0, <1>1, <1>audit DEF Given, Logged, a
<1>2. CASE Quiet
  <2>1. QuietMove(a)
    BY <1>2, <1>a DEF Quiet
  <2>2. attempts[a].status \in {"PROCESSING", "DELETED"}
    BY <1>0 DEF Given
  <2>3. Untouched(a)
    BY <2>1, <2>2 DEF QuietMove, Begun, Marked, Cleaned, EarlyStatus, AbandonableStatus
  <2> QED
    BY <1>1, <2>3 DEF Untouched
<1>3. ASSUME NEW q \in Handlers, Retains(q)
      PROVE  attempts'[a] = attempts[a]
  <2>1. Receives(q) /\ h[q].pc \in CallbackPhases
    BY <1>3, <1>t DEF TokenInv, Retains, CallbackPhases
  <2>2. h[q].att # a
    BY <1>inv, <2>1 DEF Receives, Exchanges, a
  <2> QED
    BY <1>3, <1>a, <2>2 DEF Retains, OnlyAttempt
<1>4. ASSUME NEW q \in Handlers, Closes(q)
      PROVE  attempts'[a] = attempts[a]
  <2>1. q # p
    BY <1>4 DEF Closes, ExchangePhases
  <2>2. h[q].att # a
    <3>1. CASE h[q].pc = "exchangeFailed"
      BY <1>inv, <2>1, <3>1 DEF Exchanges, ExchangePhases, a
    <3>2. CASE h[q].pc = "unstoredMark"
      <4>1. Receives(q)
        BY <1>t DEF TokenInv
      <4> QED
        BY <1>inv, <3>2, <4>1 DEF Receives, Exchanges, CallbackPhases, a
    <3>3. CASE h[q].pc = "cancelFinish" /\ attempts[h[q].att].status = h[q].arow.status
      <4>1. h[q].arow.status \notin {"PROCESSING", "DELETED"}
        BY <1>inv, <3>3 DEF Cancels, CancelPhases, AttemptExists
      <4> QED
        BY <1>0, <3>3, <4>1 DEF Given
    <3> QED
      BY <1>4, <3>1, <3>2, <3>3 DEF Closes
  <2> QED
    BY <1>4, <1>a, <2>2 DEF Closes, ClosedAs, OnlyAttempt
<1>5. ASSUME NEW q \in Handlers, NEW c \in Conns, Puts(q, c)
      PROVE  attempts'[a] = attempts[a]
  <2>1. h[q].att # a
    BY <1>0, <1>5 DEF Puts, Given
  <2> QED
    BY <1>5, <1>a, <2>1 DEF Puts
<1>6. ASSUME NEW cs \in SUBSET Conns, NEW as \in SUBSET Attempts, Deletes(cs, as)
      PROVE  \/ attempts'[a] = attempts[a]
             \/ /\ attempts'[a].status = "DELETED"
                /\ \/ <<"authorization.deleted", a>> \in audit'
                   \/ \E op \in DeletionOps : <<op, attempts'[a].conn>> \in audit'
  BY <1>6, <1>a DEF Deletes
<1>7. CASE UNCHANGED attempts
  BY <1>1, <1>7
<1>8. CASE attempts'[a] = attempts[a]
  BY <1>1, <1>8
<1> QED
  BY <1>2, <1>3, <1>4, <1>5, <1>6, <1>7, <1>8, Kinds DEF Issues, Rotates, Revokes, a

\* The phases of a code exchange are entered by the claim and by the exchange itself.
LEMMA ExchangeEntered ==
  ASSUME TypeInv, [Next]_vars, NEW p \in Handlers, h'[p] # h[p], h'[p].pc \in ExchangePhases
  PROVE  /\ h'[p].att = h[p].att /\ h[p].att \in Attempts /\ UNCHANGED grants
         /\ \/ /\ attempts[h[p].att].status = "AUTHORIZING"
               /\ attempts'[h[p].att].status = "PROCESSING"
            \/ h[p].pc = "exchange" /\ UNCHANGED <<attempts, audit>>
<1>1. CallbackClaim(p) \/ Exchange(p)
  BY Entered, AuthorizationPhases DEF ExchangePhases, EntersOwner
<1>2. CASE CallbackClaim(p)
  <2>1. h'[p].pc = "exchange"
    BY <1>2, AuthorizationPhases DEF ExchangePhases
  <2> QED
    BY <1>2, <2>1, ClaimMoves
<1>3. CASE Exchange(p)
  <2>1. Goto(p, "exchangeFailed") /\ UNCHANGED grants
    <3>1. CASE \E g \in Grants : IssuedTo(p, g)
      BY <3>1 DEF IssuedTo, ExchangePhases
    <3>2. CASE ~Goto(p, "exchangeFailed")
      <4>1. PICK g \in Grants, answer \in {"received", "rejected"} :
              h' = [h EXCEPT ![p].pc = answer, ![p].cred = [grant |-> g, gen |-> 1]]
        BY <1>3, <3>2 DEF Exchange
      <4>2. h'[p].pc = answer
        BY <4>1 DEF TypeInv, GoodLocal, Local
      <4> QED
        BY <4>2 DEF ExchangePhases
    <3> QED
      BY <1>3, <3>1, <3>2, ExchangeIssues
  <2>2. h'[p].att = h[p].att
    BY <2>1, GotoFields
  <2> QED
    BY <1>3, <2>1, <2>2, ExchangeIssues
<1> QED
  BY <1>1, <1>2, <1>3

\* A code exchange keeps its attempt to itself.
LEMMA ExchangesStep ==
  ASSUME FollowInv, ExchangeInv, Callbacks, [Next]_vars, NEW p \in Handlers
  PROVE  Exchanges(p)'
<1>t. TypeInv /\ CiphertextInv /\ TokenInv
  BY DEF FollowInv, CustodyInv
<1> SUFFICES ASSUME h'[p].pc \in ExchangePhases
             PROVE  /\ attempts'[h'[p].att].status = "PROCESSING" \/ Given(h[p].att)'
                    /\ h'[p].att = h[p].att
                    /\ \A g \in Grants : grants'[g].status # "unissued" => grants'[g].attempt # h[p].att
                    /\ \A q \in Handlers \ {p} : h'[q].pc \in ExchangePhases => h'[q].att # h[p].att
  BY DEF Exchanges, Issued
<1>audit. audit \subseteq audit'
  BY AuditGrows
<1>inv. \A q \in Handlers : Exchanges(q)
  BY DEF Callbacks
<1>att. \A q \in Handlers : h[q].pc \in ExchangePhases =>
          attempts[h[q].att].status \in {"PROCESSING", "DELETED"}
  BY <1>inv DEF Exchanges, Given
<1>1. CASE h'[p] = h[p]
  <2>1. attempts'[h[p].att].status = "PROCESSING" \/ Given(h[p].att)'
    BY <1>1, ExchangeShown DEF Given, Logged
  <2>2. \A g \in Grants : grants'[g].status # "unissued" => grants'[g].attempt # h[p].att
    <3>1. CASE \A g \in Grants : IssuedKept(g)
      BY <1>1, <1>inv, <3>1 DEF IssuedKept, Issued, Exchanges
    <3>2. ASSUME NEW q \in Handlers, NEW g \in Grants, IssuedBy(q, g)
          PROVE  \A d \in Grants : grants'[d].status # "unissued" => grants'[d].attempt # h[p].att
      <4>1. q # p /\ h[q].att # h[p].att
        BY <1>1, <1>inv, <3>2 DEF IssuedBy, Exchanges, ExchangePhases
      <4> QED
        BY <1>1, <1>inv, <3>2, <4>1 DEF IssuedBy, IssuedKept, Issued, Exchanges
    <3> QED
      BY <1>t, <3>1, <3>2, GrantsMoves DEF GrantsMove
  <2>3. ASSUME NEW q \in Handlers \ {p}, h'[q].pc \in ExchangePhases
        PROVE  h'[q].att # h[p].att
    <3>1. CASE h'[q] = h[q]
      BY <1>1, <1>inv, <2>3, <3>1 DEF Exchanges
    <3>2. CASE h'[q] # h[q]
      BY <1>1, <1>t, <1>inv, <1>att, <2>3, <3>2, ExchangeEntered DEF Exchanges, ExchangePhases
    <3> QED
      BY <3>1, <3>2
  <2> QED
    BY <1>1, <2>1, <2>2, <2>3
<1>2. CASE h'[p] # h[p]
  <2> DEFINE a == h[p].att
  <2>1. /\ h'[p].att = a /\ a \in Attempts /\ UNCHANGED grants
        /\ \A q \in Handlers \ {p} : h'[q] = h[q]
        /\ \/ attempts[a].status = "AUTHORIZING" /\ attempts'[a].status = "PROCESSING"
           \/ h[p].pc = "exchange" /\ UNCHANGED <<attempts, audit>>
    BY <1>2, <1>t, ExchangeEntered, Entered
  <2> HIDE DEF a
  <2>2. CASE attempts[a].status = "AUTHORIZING" /\ attempts'[a].status = "PROCESSING"
    <3>1. \A g \in Grants : Issued(g) => grants[g].attempt # a
      BY <2>2 DEF ExchangeInv, EarlyStatus
    <3>2. \A q \in Handlers \ {p} : h[q].pc \in ExchangePhases => h[q].att # a
      BY <1>att, <2>2
    <3> QED
      BY <2>1, <2>2, <3>1, <3>2 DEF Issued, a
  <2>3. CASE h[p].pc = "exchange" /\ UNCHANGED <<attempts, audit>>
    <3>1. Exchanges(p) /\ h[p].pc \in ExchangePhases
      BY <1>inv, <2>3 DEF ExchangePhases
    <3>2. attempts'[a].status = "PROCESSING" \/ Given(a)'
      BY <2>1, <2>3, <3>1 DEF Exchanges, Given, Logged, a
    <3>3. \A g \in Grants : grants'[g].status # "unissued" => grants'[g].attempt # a
      BY <2>1, <3>1 DEF Exchanges, Issued, a
    <3> QED
      BY <2>1, <3>1, <3>2, <3>3 DEF Exchanges, a
  <2> QED
    BY <2>1, <2>2, <2>3
<1> QED
  BY <1>1, <1>2

\* The outcome of a revocation is remembered.
LEMMA UnstoresStep ==
  ASSUME FollowInv, Callbacks, [Next]_vars, NEW p \in Handlers
  PROVE  Unstores(p)'
<1>t. TypeInv /\ CiphertextInv /\ TokenInv
  BY DEF FollowInv, CustodyInv
<1>h. h \in [Handlers -> GoodLocal] /\ h[p] \in Local
  BY <1>t DEF TypeInv, GoodLocal
<1> SUFFICES ASSUME h'[p].pc = "unstoredMark", h'[p].ok
             PROVE  grants'[h'[p].cred.grant].status = "revoked"
  BY DEF Unstores
<1>1. CASE h'[p] = h[p]
  <2>1. h[p].cred.grant \in Grants /\ grants[h[p].cred.grant].status = "revoked"
    BY <1>1, <1>t DEF Callbacks, Unstores, TokenInv, Receives, CallbackPhases
  <2>2. ASSUME NEW g \in Grants, g = h[p].cred.grant
        PROVE  grants'[g].status = "revoked"
    BY <1>t, <2>1, <2>2, RevokedStays
  <2> QED
    BY <1>1, <2>1, <2>2
<1>2. CASE h'[p] # h[p]
  <2>1. RevokeUnstored(p)
    BY <1>2, <1>t, Entered, AuthorizationPhases DEF EntersOwner, CallbackPhases
  <2>2. PICK outcome \in {"revoked", "unsupported", "failed"} :
          /\ RevokeOutcome(h[p].cred, outcome)
          /\ h' = [h EXCEPT ![p].pc = "unstoredMark", ![p].ok = (outcome = "revoked")]
    BY <2>1 DEF RevokeUnstored
  <2>3. h'[p].cred = h[p].cred
    BY <1>h, <2>2 DEF Local
  <2>4. h'[p].ok = (outcome = "revoked")
    BY <1>h, <2>2, Zenon DEF Local
  <2>5. outcome = "revoked"
    BY <2>4
  <2>6. h[p].cred.grant \in Grants
    BY <1>t, <2>1 DEF TokenInv, Receives, CallbackPhases, RevokeUnstored
  <2>7. grants'[h[p].cred.grant].status = "revoked"
    BY <1>t, <2>2, <2>5, <2>6 DEF RevokeOutcome, TypeInv, Grant
  <2> QED
    BY <2>3, <2>7
<1> QED
  BY <1>1, <1>2

\* A cancellation that does not run goes on knowing what it knows.
LEMMA OthersCancel ==
  ASSUME FollowInv, [Next]_vars, NEW p \in Handlers, Cancels(p), h'[p] = h[p]
  PROVE  Cancels(p)'
<1>t. TypeInv /\ CiphertextInv /\ Contents /\ Contents'
  BY ContentsStep DEF FollowInv, CustodyInv
<1> SUFFICES ASSUME h[p].pc \in CancelPhases
             PROVE  Cancels(p)'
  <2>1. h[p].pc \notin CancelPhases => Cancels(p)'
    BY DEF Cancels, CancelPhases
  <2> QED
    BY <2>1
<1> DEFINE a == h[p].att
           then == h[p].arow.status
<1>a. a \in Attempts /\ a \in Slots
  BY <1>t DEF TypeInv, GoodLocal, AttemptPhases, CancelPhases, Slots
<1>1. AttemptMove(a)
  BY <1>a, <1>t, AttemptMoves
<1>2. /\ Ahead(attempts[a].status, then)
      /\ AttemptExists(h[p].arow) /\ then # "PROCESSING"
  BY DEF Cancels
<1>3. /\ Ahead(attempts'[a].status, then)
      /\ attempts'[a].status = then /\ then \in RetainedStatus =>
           attempts[a].status = then /\ vault'[a] = vault[a]
  <2> HIDE DEF a, then
  <2> QED
    BY <1>a, <1>t, <1>1, <1>2, AheadKept
<1>4. ASSUME h[p].pc \in {"cancelMark", "cancelRevoke"}, vault'[a].kind = "credentials"
      PROVE  vault'[a] = Sealed(h[p].cred)
  <2>1. then \in RetainedStatus
    BY <1>4 DEF Cancels
  <2>2. attempts[a].status # "PROCESSING"
    BY <1>2, <2>1 DEF Ahead, RetainedStatus
  <2>3. vault'[a] = vault[a]
    BY <1>1, <1>4, <2>2 DEF AttemptMove, Kept, Closed, Created, Sent, Advanced, Retained, Discarded,
       NoSecret, OAuthPayload
  <2> QED
    BY <1>4, <2>3 DEF Cancels, CredentialsIn
<1>5. ASSUME h[p].pc = "cancelFinish", attempts'[a].status = then, vault'[a].kind = "credentials"
      PROVE  h[p].ok \/ grants'[vault'[a].cred.grant].status = "revoked"
  <2>1. then \in RetainedStatus
    <3>1. (vault'[a].kind = "credentials") <=> attempts'[a].status \in RetainedStatus
      <4> HIDE DEF a, then
      <4> QED
        BY <1>a, <1>t DEF Contents, CredentialsIn
    <3> QED
      BY <1>5, <3>1
  <2>2. attempts[a].status = then /\ vault'[a] = vault[a]
    BY <1>3, <1>5, <2>1
  <2>3. h[p].ok \/ grants[vault[a].cred.grant].status = "revoked"
    BY <1>5, <2>2 DEF Cancels, CredentialsIn
  <2>4. vault[a].cred.grant \in Grants
    BY <1>a, <1>t, <1>5, <2>2 DEF TypeInv, GoodSecret
  <2>5. ASSUME NEW g \in Grants, grants[g].status = "revoked"
        PROVE  grants'[g].status = "revoked"
    BY <1>t, <2>5, RevokedStays
  <2> QED
    BY <2>2, <2>3, <2>4, <2>5
<1> QED
  BY <1>2, <1>3, <1>4, <1>5 DEF Cancels, CredentialsIn

\* What a cancellation learns by its own steps.
LEMMA OwnCancels ==
  ASSUME FollowInv, [Next]_vars, NEW p \in Handlers, Cancels(p), EntersCancel(p),
         h'[p].pc \in CancelPhases
  PROVE  Cancels(p)'
<1>t. TypeInv /\ CiphertextInv /\ Contents
  BY DEF FollowInv, CustodyInv
<1>h. h \in [Handlers -> GoodLocal] /\ h[p] \in Local /\ h[p] \in GoodLocal
  BY <1>t DEF TypeInv, GoodLocal
<1>1. CASE CancelRead(p)
  <2>1. PICK a \in Attempts :
          /\ AttemptExists(attempts[a])
          /\ attempts[a].status \notin {"COMPLETED", "PROCESSING"}
          /\ h' = [h EXCEPT ![p].att = a, ![p].arow = attempts[a], ![p].connector = connector,
                     ![p].pc = IF HoldsRetained(attempts[a]) THEN "cancelDecrypt"
                                                            ELSE "cancelFinish"]
    BY <1>1 DEF CancelRead
  <2>2. /\ h'[p].att = a /\ h'[p].arow = attempts[a]
        /\ h'[p].pc = IF HoldsRetained(attempts[a]) THEN "cancelDecrypt" ELSE "cancelFinish"
    BY <1>h, <2>1 DEF Local
  <2>3. UNCHANGED <<attempts, vault>>
    BY <1>1 DEF CancelRead
  <2>4. Ahead(attempts[a].status, attempts[a].status)
    BY DEF Ahead, RetainedStatus
  <2>5. CASE HoldsRetained(attempts[a])
    BY <2>1, <2>2, <2>3, <2>4, <2>5 DEF Cancels, HoldsRetained, RetainedStatus, CancelPhases
  <2>6. CASE ~HoldsRetained(attempts[a])
    <3>1. attempts[a].status \notin RetainedStatus
      BY <1>t, <2>6 DEF HoldsRetained, RetainedStatus, CiphertextInv, PayloadByStatus
    <3>2. vault[a].kind # "credentials"
      BY <1>t, <3>1 DEF Contents, CredentialsIn
    <3> QED
      BY <2>1, <2>2, <2>3, <2>4, <2>6, <3>2 DEF Cancels, CredentialsIn, CancelPhases
  <2> QED
    BY <2>5, <2>6
<1>2. ASSUME CancelDecrypt(p) \/ CancelMark(p) \/ CancelRevoke(p)
      PROVE  h[p].att \in Attempts /\ h[p].att \in Slots /\ h[p].pc \in CancelPhases
  BY <1>h, <1>2 DEF CancelDecrypt, CancelMark, CancelRevoke, GoodLocal, AttemptPhases, CancelPhases,
     Slots
<1>3. CASE CancelDecrypt(p)
  <2>1. h' = [h EXCEPT ![p].pc = "cancelMark", ![p].cred = vault[h[p].att].cred]
    BY <1>3, <1>t, FinishFields DEF CancelDecrypt, CancelPhases
  <2>2. /\ h'[p].pc = "cancelMark" /\ h'[p].att = h[p].att /\ h'[p].arow = h[p].arow
        /\ h'[p].cred = vault[h[p].att].cred
    BY <1>h, <2>1 DEF Local
  <2>3. UNCHANGED <<attempts, vault, grants>> /\ h[p].pc = "cancelDecrypt"
    BY <1>3 DEF CancelDecrypt
  <2>4. vault[h[p].att] \in Secret
    BY <1>2, <1>3, <1>t DEF TypeInv, GoodSecret
  <2>5. vault[h[p].att].kind = "credentials" => vault[h[p].att] = Sealed(vault[h[p].att].cred)
    BY <2>4 DEF Secret, Sealed
  <2> QED
    BY <1>2, <1>3, <2>2, <2>3, <2>5 DEF Cancels, CredentialsIn
<1>4. CASE CancelMark(p)
  <2> DEFINE a == h[p].att
  <2>1. ~Finish(p)
    BY <1>t, FinishFields DEF CancelPhases
  <2>2. /\ attempts' = [attempts EXCEPT ![a].status = "REVOCATION_PENDING", ![a].state = FALSE]
        /\ h' = [h EXCEPT ![p].pc = IF h[p].cred = NoCred THEN "cancelFinish" ELSE "cancelRevoke",
                          ![p].arow.status = "REVOCATION_PENDING"]
    BY <1>4, <2>1 DEF CancelMark
  <2>3. /\ h'[p].att = a /\ h'[p].cred = h[p].cred
        /\ h'[p].pc = IF h[p].cred = NoCred THEN "cancelFinish" ELSE "cancelRevoke"
        /\ h'[p].arow = [h[p].arow EXCEPT !.status = "REVOCATION_PENDING"]
    BY <1>h, <2>2 DEF Local
  <2>4. h'[p].arow.status = "REVOCATION_PENDING"
    BY <1>h, <2>3 DEF Local, AttemptRow
  <2>5. attempts'[a].status = "REVOCATION_PENDING"
    BY <1>2, <1>4, <1>t, <2>2 DEF TypeInv, AttemptRow
  <2>6. UNCHANGED <<vault, grants>> /\ h[p].pc = "cancelMark"
    BY <1>4 DEF CancelMark
  <2>7. vault[a].kind = "credentials" => vault[a] = Sealed(h[p].cred)
    BY <2>6 DEF Cancels, CredentialsIn
  <2>8. h[p].cred = NoCred => vault[a].kind # "credentials"
    <3>1. vault[a] \in GoodSecret
      BY <1>2, <1>4, <1>t DEF TypeInv
    <3> QED
      BY <2>7, <3>1, NoneIsNothing DEF GoodSecret, Sealed, NoCred
  <2> HIDE DEF a
  <2>9. AttemptExists(h'[p].arow) /\ Ahead(attempts'[a].status, h'[p].arow.status)
    BY <2>4, <2>5 DEF AttemptExists, Ahead
  <2> QED
    BY <2>3, <2>4, <2>6, <2>7, <2>8, <2>9 DEF Cancels, CredentialsIn, RetainedStatus
<1>5. CASE CancelRevoke(p)
  <2> DEFINE a == h[p].att
  <2>1. PICK outcome \in {"revoked", "unsupported", "failed"} :
          /\ RevokeOutcome(h[p].cred, outcome)
          /\ h' = [h EXCEPT ![p].pc = IF outcome = "failed" THEN "cancelUnconfirmed"
                                                            ELSE "cancelFinish",
                            ![p].ok = (outcome = "unsupported")]
    BY <1>5 DEF CancelRevoke
  <2>2. /\ h'[p].pc = IF outcome = "failed" THEN "cancelUnconfirmed" ELSE "cancelFinish"
        /\ h'[p].att = a /\ h'[p].arow = h[p].arow
    BY <1>h, <2>1 DEF Local
  <2>3. h'[p].ok = (outcome = "unsupported")
    BY <1>h, <2>1, Zenon DEF Local
  <2>4. UNCHANGED <<attempts, vault>> /\ h[p].pc = "cancelRevoke"
    BY <1>5 DEF CancelRevoke
  <2>5. outcome # "failed" /\ h'[p].pc = "cancelFinish"
    BY <2>2 DEF CancelPhases
  <2>6. vault[a].kind = "credentials" =>
          h'[p].ok \/ grants'[vault[a].cred.grant].status = "revoked"
    <3> SUFFICES ASSUME vault[a].kind = "credentials", outcome = "revoked"
                 PROVE  grants'[vault[a].cred.grant].status = "revoked"
      BY <2>3, <2>5
    <3>1. vault[a] = Sealed(h[p].cred) /\ vault[a] \in GoodSecret
      BY <1>2, <1>5, <1>t, <2>4 DEF Cancels, CredentialsIn, TypeInv
    <3>2. vault[a].cred = h[p].cred /\ h[p].cred.grant \in Grants
      BY <3>1 DEF Sealed, GoodSecret
    <3>3. grants'[h[p].cred.grant].status = "revoked"
      BY <1>t, <2>1, <3>2 DEF RevokeOutcome, TypeInv, Grant
    <3> QED
      BY <3>2, <3>3
  <2>7. /\ AttemptExists(h[p].arow) /\ h[p].arow.status # "PROCESSING"
        /\ Ahead(attempts[a].status, h[p].arow.status)
    BY <1>2, <1>5 DEF Cancels
  <2> QED
    BY <2>2, <2>4, <2>5, <2>6, <2>7 DEF Cancels, CredentialsIn
<1> QED
  BY <1>1, <1>3, <1>4, <1>5 DEF EntersCancel

\* Every step keeps what callbacks and cancellations know.
LEMMA CallbacksStep ==
  ASSUME FollowInv, ExchangeInv, Callbacks, [Next]_vars
  PROVE  Callbacks'
<1> SUFFICES ASSUME NEW p \in Handlers
             PROVE  Exchanges(p)' /\ Unstores(p)' /\ Cancels(p)'
  BY DEF Callbacks
<1>t. TypeInv
  BY DEF FollowInv, CustodyInv
<1>1. Cancels(p)'
  <2>0. Cancels(p)
    BY DEF Callbacks
  <2>1. CASE h'[p] = h[p]
    BY <2>0, <2>1, OthersCancel
  <2>2. CASE h'[p] # h[p] /\ h'[p].pc \in CancelPhases
    BY <1>t, <2>0, <2>2, Entered, OwnCancels
  <2>3. CASE h'[p].pc \notin CancelPhases
    BY <2>3 DEF Cancels, CancelPhases
  <2> QED
    BY <2>1, <2>2, <2>3
<1> QED
  BY <1>1, ExchangesStep, UnstoresStep

\* No active grant is ever without a trace.
Accounted == \A g \in Grants : grants[g].status = "active" => Stored(g) \/ Recorded(g)

\* A quiet step, and the rotation of tokens, change no grant that is stored.
LEMMA QuietStores ==
  ASSUME TypeInv, Contents, Contents', Quiet, NEW s \in Slots, CredentialsIn(s) \/ CredentialsIn(s)'
  PROVE  vault'[s] = vault[s]
<1>1. CASE s \in Conns
  BY <1>1 DEF Quiet
<1>2. CASE s \in Attempts
  <2>1. QuietMove(s)
    BY <1>2 DEF Quiet
  <2>2. CASE CredentialsIn(s)
    <3>1. attempts[s].status \in RetainedStatus
      BY <1>2, <2>2 DEF Contents
    <3> QED
      BY <2>1, <3>1 DEF QuietMove, Untouched, Begun, Marked, Cleaned, RetainedStatus, EarlyStatus,
         AbandonableStatus
  <2>3. CASE vault'[s].kind = "credentials"
    BY <2>1, <2>3 DEF QuietMove, Untouched, Begun, Marked, Cleaned, NoSecret, OAuthPayload
  <2> QED
    BY <2>2, <2>3 DEF CredentialsIn
<1> QED
  BY <1>1, <1>2 DEF Slots

\* Values that change only in their tokens' generation store the same grants.
LEMMA StoresSame ==
  ASSUME NEW g,
         \A s \in Slots : CredentialsIn(s) \/ CredentialsIn(s)' =>
           \/ vault'[s] = vault[s]
           \/ /\ CredentialsIn(s) /\ CredentialsIn(s)'
              /\ vault'[s].cred.grant = vault[s].cred.grant
  PROVE  (\E s \in Slots : CredentialsIn(s)' /\ vault'[s].cred.grant = g) <=> Stored(g)
  BY DEF Stored, CredentialsIn

\* What keeps the record of a grant.
LEMMA RecordStays ==
  ASSUME FollowInv, [Next]_vars, NEW g \in Grants, Recorded(g),
         grants'[g].attempt = grants[g].attempt, grants'[g].home = grants[g].home,
         grants[g].replaced => grants'[g].replaced,
         attempts'[grants[g].attempt].conn = attempts[grants[g].attempt].conn,
         attempts[grants[g].attempt].status = "PROCESSING"
           => attempts'[grants[g].attempt].status = "PROCESSING"
  PROVE  Recorded(g)'
<1>1. audit \subseteq audit'
  BY AuditGrows
<1> QED
  BY <1>1 DEF Recorded, RecordedOr, Logged

\* The inductive invariant behind the refinement.
AccountInv == FollowInv /\ ExchangeInv /\ Places /\ Homed /\ Callbacks /\ Accounted

\* A handler that received a grant in an attempt: no other grant came of it.
LEMMA SameGrant ==
  ASSUME AccountInv, NEW p \in Handlers, h[p].pc \in CallbackPhases, NEW g \in Grants, Issued(g),
         grants[g].attempt = h[p].att
  PROVE  g = h[p].cred.grant
<1>1. Receives(p)
  BY DEF AccountInv, FollowInv, CustodyInv, TokenInv
<1> QED
  BY <1>1 DEF AccountInv, ExchangeInv, OneExchangePerAttempt, Receives, Issued

\* A grant just issued shows in the attempt whose code was exchanged.
LEMMA IssuedAccounted ==
  ASSUME AccountInv, [Next]_vars, NEW p \in Handlers, NEW d \in Grants, Issues(p, d),
         NEW g \in Grants, grants'[g].status = "active"
  PROVE  Stored(g)' \/ Recorded(g)'
<1>1. CASE g # d
  <2>1. grants'[g] = grants[g] /\ UNCHANGED <<attempts, vault, audit>>
    BY <1>1 DEF Issues, IssuedTo
  <2> QED
    BY <2>1 DEF AccountInv, Accounted, Stored, CredentialsIn, Recorded, RecordedOr, Logged
<1>2. CASE g = d
  <2>1. /\ UNCHANGED <<attempts, audit>> /\ h[p].pc \in ExchangePhases
        /\ grants'[g].attempt = h[p].att /\ grants'[g].home = grants[g].home /\ ~Issued(g)
    BY <1>2 DEF Issues, IssuedTo, ExchangePhases, Issued
  <2>2. grants[g].home = None
    BY <2>1 DEF AccountInv, FollowInv, CustodyInv, TokenInv, UnissuedIsFresh
  <2>3. attempts[h[p].att].status = "PROCESSING" \/ Given(h[p].att)
    BY <2>1 DEF AccountInv, Callbacks, Exchanges
  <2> QED
    BY <2>1, <2>2, <2>3 DEF Given, Recorded, RecordedOr, Logged, DeletionOps
<1> QED
  BY <1>1, <1>2

\* Retaining stores the grant of the attempt that showed the exchange.
LEMMA RetainedAccounted ==
  ASSUME AccountInv, [Next]_vars, NEW p \in Handlers, Retains(p),
         NEW g \in Grants, grants'[g].status = "active"
  PROVE  Stored(g)' \/ Recorded(g)'
<1> DEFINE b == h[p].att
<1>1. /\ b \in Attempts /\ b \in Slots /\ h[p].pc \in CallbackPhases
      /\ attempts[b].status = "PROCESSING" /\ attempts'[b].conn = attempts[b].conn
      /\ vault'[b] = Sealed(h[p].cred) /\ UNCHANGED grants
      /\ \A a \in Attempts \ {b} : attempts'[a] = attempts[a]
      /\ \A s \in Slots \ {b} : vault'[s] = vault[s]
  BY DEF Retains, OnlyAttempt, CallbackPhases, Slots
<1> HIDE DEF b
<1>2. CASE Stored(g)
  <2>1. PICK s \in Slots : CredentialsIn(s) /\ vault[s].cred.grant = g
    BY <1>2 DEF Stored
  <2>2. s # b
    BY <1>1, <2>1 DEF AccountInv, FollowInv, Contents, RetainedStatus
  <2> QED
    BY <1>1, <2>1, <2>2 DEF Stored, CredentialsIn
<1>3. CASE Recorded(g) /\ grants[g].attempt # b
  <2>1. grants[g].attempt \in Attempts
    BY <1>1 DEF AccountInv, ExchangeInv, Issued
  <2> QED
    BY <1>1, <1>3, <2>1, RecordStays DEF AccountInv
<1>4. CASE grants[g].attempt = b
  <2>1. g = h[p].cred.grant
    BY <1>1, <1>4, SameGrant DEF Issued, b
  <2> QED
    BY <1>1, <2>1 DEF Stored, CredentialsIn, Sealed
<1> QED
  BY <1>1, <1>2, <1>3, <1>4 DEF AccountInv, Accounted

\* An attempt is closed over tokens only if they are revoked, or on the record.
LEMMA ClosedAccounted ==
  ASSUME AccountInv, [Next]_vars, NEW p \in Handlers, Closes(p),
         NEW g \in Grants, grants'[g].status = "active"
  PROVE  Stored(g)' \/ Recorded(g)'
<1> DEFINE b == h[p].att
<1>1. /\ b \in Attempts /\ b \in Slots /\ UNCHANGED grants /\ audit \subseteq audit'
      /\ attempts'[b].conn = attempts[b].conn
      /\ \A a \in Attempts \ {b} : attempts'[a] = attempts[a]
      /\ \A s \in Slots \ {b} : vault'[s] = vault[s]
  BY DEF Closes, ClosedAs, OnlyAttempt, Slots
<1>g. grants[g].status = "active" /\ Issued(g) /\ grants[g].attempt \in Attempts
  BY <1>1 DEF Issued, AccountInv, ExchangeInv
<1>inv. Exchanges(p) /\ Unstores(p) /\ Cancels(p)
  BY DEF AccountInv, Callbacks
<1>2. ASSUME h[p].pc = "unstoredMark", grants[g].attempt = b
      PROVE  /\ ~h[p].ok /\ attempts[b].status = "PROCESSING"
             /\ <<"authorization.revocation_unconfirmed", b>> \in audit'
  <2>1. g = h[p].cred.grant
    BY <1>2, <1>g, SameGrant DEF CallbackPhases
  <2>2. ~h[p].ok
    BY <1>2, <1>g, <1>inv, <2>1 DEF Unstores
  <2> QED
    BY <1>2, <2>2 DEF Closes
<1> HIDE DEF b
<1>3. CASE Stored(g)
  <2>1. PICK s \in Slots : CredentialsIn(s) /\ vault[s].cred.grant = g
    BY <1>3 DEF Stored
  <2>2. CASE s # b
    BY <1>1, <2>1, <2>2 DEF Stored, CredentialsIn
  <2>3. CASE s = b
    <3>1. grants[g].attempt = b /\ attempts[b].status \in RetainedStatus
      BY <1>1, <2>1, <2>3 DEF AccountInv, Places, FollowInv, Contents
    <3>2. h[p].pc = "cancelFinish" /\ attempts[b].status = h[p].arow.status
      BY <1>2, <3>1 DEF Closes, RetainedStatus, b
    <3>3. h[p].ok
      BY <1>g, <1>inv, <2>1, <2>3, <3>2 DEF Cancels, b
    <3>4. <<"authorization.cancelled_revocation_unsupported", b>> \in audit'
      BY <3>2, <3>3 DEF Closes, b
    <3> QED
      BY <1>1, <3>1, <3>4 DEF Recorded, RecordedOr, Logged
  <2> QED
    BY <2>2, <2>3
<1>4. CASE Recorded(g) /\ grants[g].attempt # b
  BY <1>1, <1>4, <1>g, RecordStays DEF AccountInv
<1>5. CASE Recorded(g) /\ grants[g].attempt = b /\ attempts[b].status # "PROCESSING"
  BY <1>1, <1>5, <1>g, RecordStays DEF AccountInv
<1>6. CASE grants[g].attempt = b /\ attempts[b].status = "PROCESSING"
  <2>1. h[p].pc # "exchangeFailed"
    BY <1>6, <1>g, <1>inv DEF Exchanges, ExchangePhases, b
  <2>2. ~(h[p].pc = "cancelFinish" /\ attempts[b].status = h[p].arow.status)
    BY <1>6, <1>inv DEF Cancels, CancelPhases
  <2>3. <<"authorization.revocation_unconfirmed", b>> \in audit'
    BY <1>2, <1>6, <2>1, <2>2 DEF Closes, b
  <2> QED
    BY <1>1, <1>6, <2>3 DEF Recorded, RecordedOr, Logged
<1> QED
  BY <1>g, <1>3, <1>4, <1>5, <1>6 DEF AccountInv, Accounted

\* A commit stores the grant of its attempt; what the connection held is replaced.
LEMMA PutAccounted ==
  ASSUME AccountInv, [Next]_vars, NEW p \in Handlers, NEW c \in Conns, Puts(p, c),
         NEW g \in Grants, grants'[g].status = "active"
  PROVE  Stored(g)' \/ Recorded(g)'
<1> DEFINE b == h[p].att
           k == h[p].cred.grant
<1>1. /\ grants[g].status = "active" /\ grants'[g].attempt = grants[g].attempt
      /\ grants[g].replaced => grants'[g].replaced
      /\ vault'[c] = Sealed(h[p].cred) /\ c \in Slots
      /\ \A a \in Attempts \ {b} : attempts'[a] = attempts[a]
      /\ \A s \in Slots \ {b, c} : vault'[s] = vault[s]
  BY DEF Puts, Slots
<1>2. Receives(p) /\ h[p].pc \in CallbackPhases
  BY DEF Puts, CallbackPhases, AccountInv, FollowInv, CustodyInv, TokenInv
<1>3. CASE g = k
  BY <1>1, <1>3 DEF Stored, CredentialsIn, Sealed
<1>4. CASE g # k
  <2>1. Issued(g) /\ grants[g].attempt \in Attempts /\ grants[g].attempt # b
    BY <1>1, <1>2, <1>4, SameGrant DEF Issued, AccountInv, ExchangeInv
  <2>2. grants'[g].home = grants[g].home /\ (grants[g].home = c => grants'[g].replaced)
    BY <1>4 DEF Puts
  <2>3. CASE Stored(g)
    <3>1. PICK s \in Slots : CredentialsIn(s) /\ vault[s].cred.grant = g
      BY <2>3 DEF Stored
    <3>2. b \in Attempts
      BY DEF Puts, AccountInv, FollowInv, CustodyInv, TypeInv, GoodLocal, AttemptPhases
    <3>5. s # b
      BY <2>1, <3>1, <3>2 DEF AccountInv, Places
    <3>3. CASE s = c
      <4>1. grants[g].home = c
        BY <3>1, <3>3 DEF AccountInv, FollowInv, CustodyInv, TokenInv, StoredAtHome
      <4> QED
        BY <2>2, <4>1 DEF Recorded, RecordedOr
    <3>4. CASE s # c
      BY <1>1, <3>1, <3>5, <3>4 DEF Stored, CredentialsIn
    <3> QED
      BY <3>3, <3>4
  <2>4. CASE Recorded(g)
    <3>1. attempts'[grants[g].attempt] = attempts[grants[g].attempt]
      BY <1>1, <2>1
    <3> QED
      BY <1>1, <2>2, <2>4, <3>1, RecordStays DEF AccountInv
  <2> QED
    BY <1>1, <2>3, <2>4 DEF AccountInv, Accounted
<1> QED
  BY <1>3, <1>4

\* Every deletion of a row with tokens is recorded, except when they are revoked.
LEMMA DeletedAccounted ==
  ASSUME AccountInv, [Next]_vars, NEW cs \in SUBSET Conns, NEW as \in SUBSET Attempts,
         Deletes(cs, as), NEW g \in Grants, grants'[g].status = "active"
  PROVE  Stored(g)' \/ Recorded(g)'
<1>1. UNCHANGED grants /\ grants[g].status = "active" /\ audit \subseteq audit'
  BY DEF Deletes
<1> DEFINE b == grants[g].attempt
<1>2. Issued(g) /\ b \in Attempts
  BY <1>1 DEF Issued, AccountInv, ExchangeInv
<1>3. ASSUME b \in as, grants[g].home = None
      PROVE  Recorded(g)'
  <2>1. \/ <<"authorization.deleted", b>> \in audit'
        \/ \E op \in DeletionOps : <<op, attempts'[b].conn>> \in audit'
    BY <1>3 DEF Deletes
  <2> QED
    BY <1>1, <1>3, <2>1 DEF Recorded, RecordedOr, Logged, DeletionOps
<1>4. CASE Stored(g)
  <2>1. PICK s \in Slots : CredentialsIn(s) /\ vault[s].cred.grant = g
    BY <1>4 DEF Stored
  <2>2. CASE s \in cs
    <3>1. grants[g].home = s
      BY <2>1, <2>2 DEF AccountInv, FollowInv, CustodyInv, TokenInv, StoredAtHome
    <3>2. \/ <<"connection.deleted", s>> \in audit'
          \/ <<"disconnect.deleted_revocation_unconfirmed", s>> \in audit'
      BY <1>1, <2>1, <2>2 DEF Deletes
    <3> QED
      BY <1>1, <3>1, <3>2 DEF Recorded, RecordedOr, Logged
  <2>3. CASE s \in as
    <3>1. b = s /\ grants[g].home = None
      BY <2>1, <2>3 DEF AccountInv, Places
    <3> QED
      BY <1>3, <2>3, <3>1
  <2>4. CASE s \notin cs \cup as
    <3>1. vault'[s] = vault[s]
      BY <2>4 DEF Deletes
    <3> QED
      BY <2>1, <3>1 DEF Stored, CredentialsIn
  <2> QED
    BY <2>2, <2>3, <2>4
<1>5. CASE Recorded(g)
  <2>1. CASE b \in as /\ attempts[b].status = "PROCESSING"
    <3>1. grants[g].home = None
      BY <1>2, <2>1 DEF AccountInv, Homed, Over
    <3> QED
      BY <1>3, <2>1, <3>1
  <2>2. CASE b \in as /\ attempts[b].status # "PROCESSING"
    <3>1. attempts'[b].conn = attempts[b].conn
      BY <2>2 DEF Deletes
    <3> QED
      BY <1>1, <1>5, <2>2, <3>1, RecordStays DEF AccountInv
  <2>3. CASE b \notin as
    <3>1. attempts'[b] = attempts[b]
      BY <1>2, <2>3 DEF Deletes
    <3> QED
      BY <1>1, <1>5, <3>1, RecordStays DEF AccountInv
  <2> QED
    BY <2>1, <2>2, <2>3
<1> QED
  BY <1>1, <1>4, <1>5 DEF AccountInv, Accounted

\* Steps that change neither which grants are stored nor how attempts show them.
LEMMA QuietAccounted ==
  ASSUME AccountInv, [Next]_vars, Contents',
         \/ Quiet \/ (\E p \in Handlers : Rotates(p)) \/ (\E d \in Grants \cup {None} : Revokes(d)),
         NEW g \in Grants, grants'[g].status = "active"
  PROVE  Stored(g)' \/ Recorded(g)'
<1>1. /\ grants[g].status = "active" /\ grants'[g].attempt = grants[g].attempt
      /\ grants'[g].home = grants[g].home
      /\ grants[g].replaced => grants'[g].replaced
  BY DEF Quiet, GrantQuiet, Rotates, Revokes
<1>2. grants[g].attempt \in Attempts /\ attempts[grants[g].attempt].status \notin EarlyStatus
  BY <1>1 DEF AccountInv, ExchangeInv, Issued
<1>3. ASSUME Stored(g)
      PROVE  Stored(g)'
  <2>1. ASSUME Quiet
        PROVE  (\E s \in Slots : CredentialsIn(s)' /\ vault'[s].cred.grant = g)
    BY <1>3, <2>1, QuietStores, StoresSame DEF AccountInv, FollowInv, CustodyInv
  <2>2. ASSUME NEW p \in Handlers, Rotates(p)
        PROVE  (\E s \in Slots : CredentialsIn(s)' /\ vault'[s].cred.grant = g)
    BY <1>3, <2>2, StoresSame DEF Rotates
  <2>3. ASSUME UNCHANGED vault
        PROVE  Stored(g)'
    BY <1>3, <2>3 DEF Stored, CredentialsIn
  <2> QED
    BY <2>1, <2>2, <2>3 DEF Stored, Revokes
<1>4. ASSUME Recorded(g)
      PROVE  Recorded(g)'
  <2>1. QuietMove(grants[g].attempt) \/ UNCHANGED attempts
    BY <1>2 DEF Quiet, Rotates, Revokes
  <2>2. /\ attempts'[grants[g].attempt].conn = attempts[grants[g].attempt].conn
        /\ attempts[grants[g].attempt].status = "PROCESSING"
             => attempts'[grants[g].attempt].status = "PROCESSING"
    BY <1>2, <2>1 DEF QuietMove, Untouched, Begun, Marked, Cleaned, AbandonableStatus
  <2> QED
    BY <1>1, <1>4, <2>2, RecordStays DEF AccountInv
<1> QED
  BY <1>1, <1>3, <1>4 DEF AccountInv, Accounted

\* Every behaviour keeps the invariant.
LEMMA AccountStep ==
  ASSUME AccountInv, [Next]_vars
  PROVE  AccountInv'
<1>t. TypeInv /\ CiphertextInv /\ TokenInv /\ Contents /\ \A p \in Handlers : Follows(p)
  BY DEF AccountInv, FollowInv, CustodyInv
<1>1. FollowInv' /\ Contents'
  BY <1>t, TypeInvStep, CiphertextStep, TokenStep, ContentsStep, FollowsStep DEF FollowInv, CustodyInv
<1>2. ExchangeInv' /\ Places' /\ Homed' /\ Callbacks'
  BY <1>t, ExchangeStep, PlacesStep, HomedStep, CallbacksStep DEF AccountInv
<1>3. ASSUME NEW g \in Grants, grants'[g].status = "active"
      PROVE  Stored(g)' \/ Recorded(g)'
  <2>1. FollowInv
    BY DEF AccountInv
  <2> QED
    BY <1>1, <1>3, <2>1, Kinds, IssuedAccounted, RetainedAccounted, ClosedAccounted, PutAccounted,
       DeletedAccounted, QuietAccounted
<1> QED
  BY <1>1, <1>2, <1>3 DEF AccountInv, Accounted

\* It holds in the beginning.
LEMMA AccountInit == Init => AccountInv
<1> SUFFICES ASSUME Init
             PROVE  AccountInv
  OBVIOUS
<1>1. TypeInv /\ CiphertextInv /\ TokenInv
  BY TypeInvInit, CiphertextInit, TokenInit
<1>2. Contents /\ Places
  BY DEF Init, Contents, Places, CredentialsIn, Slots, NoSecret, UnusedAttempt, RetainedStatus
<1>3. \A p \in Handlers : Follows(p) /\ Exchanges(p) /\ Unstores(p) /\ Cancels(p)
  BY DEF Init, Follows, Exchanges, Unstores, Cancels, Idle, DiscPhases, ExchangePhases, CancelPhases
<1>4. ExchangeInv /\ Homed /\ Accounted
  BY DEF Init, ExchangeInv, OneExchangePerAttempt, Homed, Accounted, Issued, NoGrant, Idle
<1> QED
  BY <1>1, <1>2, <1>3, <1>4 DEF AccountInv, FollowInv, CustodyInv, Callbacks

\* Where a grant is, and the moves the promise allows.
Place(g) == IF grants[g].status = "unissued" THEN "unissued"
            ELSE IF grants[g].status = "revoked" THEN "settled"
            ELSE IF Stored(g) THEN "stored"
            ELSE IF Held(g) THEN "held" ELSE "settled"
Settling == {<<"stored", "held">>, <<"stored", "settled">>}
Moving == Settling \cup {<<"unissued", "held">>, <<"held", "stored">>, <<"held", "settled">>}

\* A grant that is accounted for is nowhere lost, before a step and after it.
LEMMA CustodyOf ==
  ASSUME TypeInv, Accounted
  PROVE  custody = [g \in Grants |-> Place(g)]
<1>1. \A g \in Grants : /\ grants[g].status = "active" => Stored(g) \/ Recorded(g)
                        /\ grants[g].status \in {"unissued", "active", "revoked"}
  BY DEF Accounted, TypeInv, Grant
<1> QED
  BY <1>1 DEF custody, Place

\* The same after the step.
LEMMA CustodyThen ==
  ASSUME TypeInv', Accounted'
  PROVE  custody' = [g \in Grants |-> Place(g)']
<1>1. \A g \in Grants : /\ grants'[g].status = "active" => Stored(g)' \/ Recorded(g)'
                        /\ grants'[g].status \in {"unissued", "active", "revoked"}
  BY DEF Accounted, TypeInv, Grant
<1> QED
  BY <1>1 DEF custody, Place

\* A step that moves one grant as the promise allows is a step of the promise.
LEMMA OneGrant ==
  ASSUME TypeInv, Accounted, TypeInv', Accounted', NEW g \in Grants,
         \A d \in Grants \ {g} : Place(d)' = Place(d),
         Place(g)' = Place(g) \/ <<Place(g), Place(g)'>> \in Moving
  PROVE  Custody!Next \/ UNCHANGED custody
<1> DEFINE before == Place(g)
           after == Place(g)'
<1>1. /\ custody = [d \in Grants |-> Place(d)] /\ custody' = [d \in Grants |-> Place(d)']
      /\ custody[g] = before
  BY CustodyOf, CustodyThen
<1>2. CASE after = before
  BY <1>1, <1>2
<1>3. custody' = [d \in Grants |-> IF d \in {g} THEN after ELSE custody[d]]
  BY <1>1
<1> HIDE DEF before, after
<1>4. CASE before = "unissued" /\ after = "held"
  BY <1>1, <1>3, <1>4 DEF Custody!Next, Custody!Receive, Custody!Move
<1>5. CASE before = "held" /\ after = "stored"
  BY <1>1, <1>3, <1>5 DEF Custody!Next, Custody!Store, Custody!Move
<1>6. CASE before \in {"held", "stored"} /\ after = "settled"
  BY <1>1, <1>3, <1>6 DEF Custody!Next, Custody!Settle, Custody!Move
<1>7. CASE before = "stored" /\ after = "held"
  <2>1. Custody!Remove({g})
    <3>1. custody' = [d \in Grants |-> IF d \in {g} THEN "held"
                                       ELSE IF d \in {g} THEN "settled" ELSE custody[d]]
      BY <1>3, <1>7
    <3>2. {g} \in SUBSET {g}
      OBVIOUS
    <3> QED
      BY <1>1, <1>7, <3>1, <3>2 DEF Custody!Remove
  <2> QED
    BY <2>1 DEF Custody!Next
<1> QED
  BY <1>2, <1>4, <1>5, <1>6, <1>7 DEF Moving, Settling, before, after

\* So is one that takes any number of stored grants out of the database.
LEMMA ManyGrants ==
  ASSUME TypeInv, Accounted, TypeInv', Accounted',
         \A d \in Grants : Place(d)' = Place(d) \/ <<Place(d), Place(d)'>> \in Settling
  PROVE  Custody!Next \/ UNCHANGED custody
<1> DEFINE S == {d \in Grants : Place(d)' # Place(d)}
           T == {d \in S : Place(d)' = "held"}
<1>1. custody = [d \in Grants |-> Place(d)] /\ custody' = [d \in Grants |-> Place(d)']
  BY CustodyOf, CustodyThen
<1>2. \A d \in S : Place(d) = "stored" /\ Place(d)' \in {"held", "settled"}
  BY DEF Settling
<1>3. \A d \in S : custody[d] = "stored"
  BY <1>1, <1>2
<1>4. \A d \in Grants : Place(d)' = IF d \in T THEN "held"
                                    ELSE IF d \in S THEN "settled" ELSE Place(d)
  BY <1>2
<1>5. T \in SUBSET S /\ S \in SUBSET Grants
  OBVIOUS
<1> HIDE DEF S, T
<1>6. custody' = [d \in Grants |-> IF d \in T THEN "held"
                                   ELSE IF d \in S THEN "settled" ELSE custody[d]]
  BY <1>1, <1>4
<1> QED
  BY <1>3, <1>5, <1>6 DEF Custody!Next, Custody!Remove

\* What moves one grant as the promise allows.
LEMMA PlaceMoves ==
  ASSUME NEW g \in Grants, TypeInv,
         \/ grants'[g].status = grants[g].status
         \/ grants[g].status = "active" /\ grants'[g].status = "revoked",
         Stored(g)' => Stored(g) \/ Held(g), Held(g)' => Held(g) \/ Stored(g)
  PROVE  Place(g)' = Place(g) \/ <<Place(g), Place(g)'>> \in Moving
<1>1. grants[g].status \in {"unissued", "active", "revoked"}
  BY DEF TypeInv, Grant
<1> QED
  BY <1>1 DEF Place, Moving, Settling

\* What leaves one where it is.
LEMMA PlaceStays ==
  ASSUME NEW g, grants'[g].status = grants[g].status,
         Stored(g)' <=> Stored(g), Held(g)' <=> Held(g)
  PROVE  Place(g)' = Place(g)
  BY DEF Place

\* A handler that goes on with a grant had it already, or takes it from a row that
\* it claims; only a code exchange hands it a new one.
LEMMA HolderGoesOn ==
  ASSUME FollowInv, [Next]_vars, NEW p \in Handlers, h'[p].pc \in Custodial,
         \A g \in Grants : grants'[g].status = grants[g].status
                           \/ grants[g].status # "unissued"
  PROVE  /\ h'[p].cred.grant = h[p].cred.grant
         /\ h[p].pc \in Custodial \/ Stored(h[p].cred.grant)
<1>t. TypeInv /\ TokenInv
  BY DEF FollowInv, CustodyInv
<1>h. h[p] \in GoodLocal /\ h[p] \in Local /\ h \in [Handlers -> GoodLocal]
  BY <1>t DEF TypeInv, GoodLocal
<1>1. CASE h'[p] = h[p]
  BY <1>1
<1>2. CASE h'[p] # h[p] /\ h'[p].pc \in CallbackPhases
  <2>1. EntersOwner(p)
    BY <1>t, <1>2, Entered
  <2>2. ~CallbackClaim(p)
    BY <1>t, <1>2, AuthorizationPhases DEF CallbackPhases
  <2>3. ASSUME Exchange(p)
        PROVE  FALSE
    BY <1>t, <1>2, <2>3, ExchangeIssues DEF IssuedTo, CallbackPhases
  <2>4. CASE SealFails(p)
    BY <1>h, <1>t, <2>4, GotoFields DEF SealFails, Custodial
  <2>5. CASE Retain(p)
    <3>1. h[p].pc \in Custodial
      BY <2>5 DEF Retain, Custodial
    <3>2. Goto(p, "retained") \/ Goto(p, "unstored") \/ Finish(p)
      BY <2>5 DEF Retain
    <3> QED
      BY <1>t, <1>2, <3>1, <3>2, GotoFields, FinishFields DEF CallbackPhases
  <2>6. CASE RevokeUnstored(p)
    BY <1>h, <2>6 DEF RevokeUnstored, Custodial, Local
  <2>7. CASE ReadCompletion(p)
    <3>1. h[p].pc \in Custodial
      BY <2>7 DEF ReadCompletion, Custodial
    <3>2. h'[p].cred = h[p].cred \/ Finish(p)
      BY <1>h, <1>t, <2>7, GotoFields DEF ReadCompletion, Local
    <3> QED
      BY <1>t, <1>2, <3>1, <3>2, FinishFields DEF CallbackPhases
  <2> QED
    BY <2>1, <2>2, <2>3, <2>4, <2>5, <2>6, <2>7 DEF EntersOwner
<1>3. CASE h'[p] # h[p] /\ h'[p].pc \in RefreshPhases
  <2>1. EntersRow(p)
    BY <1>t, <1>3, Entered DEF RowPhases
  <2>2. ~(AccessRead(p) \/ AccessDecrypt(p) \/ GrantCheck(p) \/ UseCheck(p))
    BY <1>t, <1>3, ConnectionPhases DEF RefreshPhases
  <2>3. CASE AccessClaim(p)
    <3>1. h'[p].pc = "refresh"
      BY <1>t, <1>3, <2>3, ConnectionPhases DEF RefreshPhases
    <3>2. ~Finish(p) /\ ~Goto(p, "grantCheck")
      BY <1>t, <3>1, FinishFields, GotoFields
    <3>3. /\ h[p].pc = "accessClaim" /\ conns[h[p].conn] = h[p].row
          /\ conns[h[p].conn].status = "READY"
      BY <2>3, <3>2 DEF AccessClaim, Unchanged
    <3>4. h'[p].cred = h[p].cred
      BY <1>h, <2>3, <3>2 DEF AccessClaim, Local
    <3>5. vault[h[p].conn] = Sealed(h[p].cred) /\ h[p].conn \in Conns
      BY <1>h, <1>t, <3>3 DEF TokenInv, Remembers, Fixes, Readied, RowPhases, GoodLocal, ConnPhases
    <3>6. Stored(h[p].cred.grant)
      BY <3>5 DEF Stored, CredentialsIn, Sealed, Slots
    <3> QED
      BY <3>4, <3>6
  <2>4. CASE Refresh(p)
    <3>1. h[p].pc = "refresh"
      BY <2>4 DEF Refresh
    <3>2. \/ \E ok \in BOOLEAN :
                h' = [h EXCEPT ![p].pc = "refreshCommit", ![p].ok = ok,
                               ![p].cred.gen = grants[h[p].cred.grant].gen + 1]
          \/ \E ok \in BOOLEAN : h' = [h EXCEPT ![p].pc = "refreshFailed", ![p].ok = ok]
      BY <2>4 DEF Refresh
    <3>3. h'[p].cred.grant = h[p].cred.grant
      <4>1. ASSUME NEW ok, NEW next,
                   h' = [h EXCEPT ![p].pc = "refreshCommit", ![p].ok = ok, ![p].cred.gen = next]
            PROVE  h'[p].cred.grant = h[p].cred.grant
        <5>1. h'[p].cred = [h[p].cred EXCEPT !.gen = next]
          BY <1>h, <4>1 DEF Local
        <5>2. h[p].cred \in Cred
          BY <1>h DEF Local
        <5> QED
          BY <5>1, <5>2 DEF Cred
      <4>2. ASSUME NEW ok, h' = [h EXCEPT ![p].pc = "refreshFailed", ![p].ok = ok]
            PROVE  h'[p].cred.grant = h[p].cred.grant
        BY <1>h, <4>2 DEF Local
      <4> QED
        BY <3>2, <4>1, <4>2
    <3> QED
      BY <3>1, <3>3 DEF Custodial
  <2>5. CASE RefreshCommit(p)
    BY <1>t, <1>3, <2>5, RotationKeepsGrant DEF FollowInv, CustodyInv, RefreshPhases, Custodial
  <2> QED
    BY <2>1, <2>2, <2>3, <2>4, <2>5 DEF EntersRow
<1> QED
  BY <1>1, <1>2, <1>3 DEF Custodial, CallbackPhases, RefreshPhases

\* So a step of a handler that issues nothing takes up only a grant that was held
\* or stored, and lays down only the one it held.
LEMMA HoldsMove ==
  ASSUME FollowInv, [Next]_vars, NEW p \in Handlers, \A q \in Handlers \ {p} : h'[q] = h[q],
         \A g \in Grants : grants'[g].status = grants[g].status
                           \/ grants[g].status # "unissued"
  PROVE  /\ \A g \in Grants : g # h[p].cred.grant => (Held(g)' <=> Held(g))
         /\ \A g \in Grants : Held(g)' => Held(g) \/ Stored(g)
         /\ h[p].pc \notin Custodial /\ h'[p].pc \notin Custodial => HoldsSame
<1>1. h'[p].pc \in Custodial => /\ h'[p].cred.grant = h[p].cred.grant
                                /\ h[p].pc \in Custodial \/ Stored(h[p].cred.grant)
  BY HolderGoesOn
<1>2. \A g \in Grants : g # h[p].cred.grant => (Held(g)' <=> Held(g))
  BY <1>1 DEF Held
<1>3. \A g \in Grants : Held(g)' => Held(g) \/ Stored(g)
  BY <1>1 DEF Held
<1>4. h[p].pc \notin Custodial /\ h'[p].pc \notin Custodial => HoldsSame
  BY DEF Held, HoldsSame
<1> QED
  BY <1>2, <1>3, <1>4

\* A step that neither issues nor revokes and changes nothing that is stored is one
\* of the promise, or changes nothing it speaks of.
LEMMA SimulateQuiet ==
  ASSUME AccountInv, AccountInv', [Next]_vars,
         \A g \in Grants : grants'[g].status = grants[g].status,
         \A g \in Grants : Stored(g)' <=> Stored(g)
  PROVE  Custody!Next \/ UNCHANGED custody
<1>t. TypeInv /\ FollowInv /\ Accounted /\ TypeInv' /\ Accounted'
  BY DEF AccountInv, FollowInv, CustodyInv
<1>1. CASE h' = h
  <2>1. \A g \in Grants : Place(g)' = Place(g)
    BY <1>1, PlaceStays DEF Held
  <2> QED
    BY <1>t, <2>1, ManyGrants
<1>2. CASE h' # h
  <2>1. PICK p \in Handlers : \A q \in Handlers \ {p} : h'[q] = h[q]
    BY <1>2, <1>t, HandlersMove DEF HandlerMove
  <2>k. PICK k : k = h[p].cred.grant
    OBVIOUS
  <2>2. /\ \A g \in Grants : g # k => (Held(g)' <=> Held(g))
        /\ \A g \in Grants : Held(g)' => Held(g) \/ Stored(g)
    BY <1>t, <2>1, <2>k, HoldsMove
  <2>3. \A g \in Grants \ {k} : Place(g)' = Place(g)
    BY <2>2, PlaceStays
  <2>4. ASSUME k \in Grants
        PROVE  Place(k)' = Place(k) \/ <<Place(k), Place(k)'>> \in Moving
    BY <1>t, <2>2, <2>4, PlaceMoves
  <2>5. CASE k \in Grants
    BY <1>t, <2>3, <2>4, <2>5, OneGrant
  <2>6. CASE k \notin Grants
    BY <1>t, <2>3, <2>6, ManyGrants
  <2> QED
    BY <2>5, <2>6
<1> QED
  BY <1>1, <1>2

\* A code exchange brings a grant into the hands of a handler.
LEMMA SimulateIssue ==
  ASSUME AccountInv, AccountInv', [Next]_vars, NEW p \in Handlers, NEW g \in Grants, Issues(p, g)
  PROVE  Custody!Next \/ UNCHANGED custody
<1>t. TypeInv /\ TokenInv /\ Places /\ Accounted /\ TypeInv' /\ Accounted'
  BY DEF AccountInv, FollowInv, CustodyInv
<1>1. /\ grants[g].status = "unissued" /\ grants'[g].status = "active" /\ UNCHANGED vault
      /\ \A d \in Grants \ {g} : grants'[d] = grants[d]
      /\ h[p].pc = "exchange" /\ h'[p].pc \in Custodial /\ h'[p].cred.grant = g
  BY DEF Issues, IssuedTo, Custodial
<1>2. \A q \in Handlers \ {p} : h'[q] = h[q]
  BY <1>t, <1>1, Entered DEF Custodial
<1>3. ~Stored(g)
  BY <1>t, <1>1 DEF Stored, Slots, Places, TokenInv, StoredAtHome, Issued
<1>4. \A d \in Grants : Stored(d)' <=> Stored(d)
  BY <1>1 DEF Stored, CredentialsIn
<1>5. Held(g)' /\ \A d \in Grants \ {g} : Held(d)' <=> Held(d)
  BY <1>1, <1>2 DEF Held, Custodial
<1>6. \A d \in Grants \ {g} : Place(d)' = Place(d)
  BY <1>1, <1>4, <1>5, PlaceStays
<1>7. <<Place(g), Place(g)'>> = <<"unissued", "held">>
  BY <1>1, <1>3, <1>4, <1>5 DEF Place
<1> QED
  BY <1>t, <1>6, <1>7, OneGrant DEF Moving

\* Received tokens go from the hands of the handler into its attempt.
LEMMA SimulateRetain ==
  ASSUME AccountInv, AccountInv', [Next]_vars, NEW p \in Handlers, Retains(p)
  PROVE  Custody!Next \/ UNCHANGED custody
<1>b. PICK b, k : b = h[p].att /\ k = h[p].cred.grant
  OBVIOUS
<1>t. TypeInv /\ FollowInv /\ Contents /\ Accounted /\ TypeInv' /\ Accounted' /\ Receives(p)
  BY DEF AccountInv, FollowInv, CustodyInv, TokenInv
<1>1. /\ UNCHANGED grants /\ h[p].pc \in {"received", "rejected"} /\ b \in Attempts /\ b \in Slots
      /\ attempts[b].status = "PROCESSING" /\ vault'[b] = Sealed(h[p].cred)
      /\ \A s \in Slots \ {b} : vault'[s] = vault[s]
      /\ h'[p] # h[p]
  BY <1>b DEF Retains, OnlyAttempt, Slots
<1>2. k \in Grants
  BY <1>b, <1>t, <1>1 DEF Receives, CallbackPhases
<1>3. ~CredentialsIn(b)
  BY <1>t, <1>1 DEF Contents, RetainedStatus
<1>4. \A q \in Handlers \ {p} : h'[q] = h[q]
  BY <1>t, <1>1, Entered
<1>5. /\ \A d \in Grants \ {k} : Held(d)' <=> Held(d)
      /\ Held(k)' => Held(k) \/ Stored(k)
  BY <1>b, <1>t, <1>1, <1>2, <1>4, HoldsMove
<1>6. Held(k)
  BY <1>b, <1>1 DEF Held, Custodial
<1>7. \A d \in Grants \ {k} : Stored(d)' <=> Stored(d)
  BY <1>b, <1>1, <1>3 DEF Stored, CredentialsIn, Sealed
<1>8. \A d \in Grants \ {k} : Place(d)' = Place(d)
  BY <1>1, <1>5, <1>7, PlaceStays
<1>9. Place(k)' = Place(k) \/ <<Place(k), Place(k)'>> \in Moving
  BY <1>t, <1>1, <1>2, <1>5, <1>6, PlaceMoves
<1> QED
  BY <1>t, <1>2, <1>8, <1>9, OneGrant

\* An attempt is closed: the grant whose tokens it kept is settled, or is still in
\* the hands of the handler that refreshes it.
LEMMA SimulateClose ==
  ASSUME AccountInv, AccountInv', [Next]_vars, NEW p \in Handlers, Closes(p)
  PROVE  Custody!Next \/ UNCHANGED custody
<1>b. PICK b, k : b = h[p].att /\ k = h[p].cred.grant
  OBVIOUS
<1>t. /\ TypeInv /\ FollowInv /\ Contents /\ Places /\ Accounted /\ TypeInv' /\ Accounted'
      /\ Receives(p)
  BY DEF AccountInv, FollowInv, CustodyInv, TokenInv
<1>1. /\ UNCHANGED grants /\ b \in Attempts /\ b \in Slots /\ vault'[b] = NoSecret
      /\ \A s \in Slots \ {b} : vault'[s] = vault[s]
      /\ h[p].pc \in {"exchangeFailed", "unstoredMark", "cancelFinish"} /\ h'[p].pc = "idle"
      /\ h[p].pc = "exchangeFailed" => attempts[b].status = "PROCESSING"
  BY <1>b DEF Closes, ClosedAs, OnlyAttempt, Slots
<1>2. \A q \in Handlers \ {p} : h'[q] = h[q]
  BY <1>t, <1>1, Entered
<1>3. /\ \A d \in Grants \ {k} : Held(d)' <=> Held(d)
      /\ \A d \in Grants : Held(d)' => Held(d) \/ Stored(d)
      /\ h[p].pc # "unstoredMark" => HoldsSame
  BY <1>b, <1>t, <1>1, <1>2, HoldsMove DEF Custodial
<1>4. \A d \in Grants : Stored(d)' => Stored(d)
  BY <1>1 DEF Stored, CredentialsIn, NoSecret
<1>5. \A d : CredentialsIn(b) /\ vault[b].cred.grant # d => (Stored(d)' <=> Stored(d))
  BY <1>1 DEF Stored, CredentialsIn, NoSecret
<1>6. CASE ~CredentialsIn(b)
  <2>1. \A d \in Grants : Stored(d)' <=> Stored(d)
    BY <1>1, <1>6 DEF Stored, CredentialsIn, NoSecret
  <2> QED
    BY <1>1, <2>1, SimulateQuiet
<1>7. CASE CredentialsIn(b)
  <2>g. PICK g : g = vault[b].cred.grant
    OBVIOUS
  <2>1. g \in Grants /\ Issued(g) /\ grants[g].attempt = b
    BY <1>t, <1>1, <1>7, <2>g DEF Places
  <2>2. h[p].pc = "unstoredMark" => g = k
    BY <1>b, <2>1, SameGrant DEF CallbackPhases
  <2>3. \A d \in Grants \ {g} : Held(d)' <=> Held(d)
    BY <1>3, <2>2 DEF HoldsSame
  <2>4. \A d \in Grants \ {g} : Stored(d)' <=> Stored(d)
    BY <1>5, <1>7, <2>g
  <2>5. \A d \in Grants \ {g} : Place(d)' = Place(d)
    BY <1>1, <2>3, <2>4, PlaceStays
  <2>6. Place(g)' = Place(g) \/ <<Place(g), Place(g)'>> \in Moving
    BY <1>t, <1>1, <1>3, <1>4, <2>1, PlaceMoves
  <2> QED
    BY <1>t, <2>1, <2>5, <2>6, OneGrant
<1> QED
  BY <1>6, <1>7

\* Tokens go from the attempt into the connection: their grant stays stored, and the
\* one whose tokens they replace is settled.
LEMMA SimulatePut ==
  ASSUME AccountInv, AccountInv', [Next]_vars, NEW p \in Handlers, NEW c \in Conns, Puts(p, c)
  PROVE  Custody!Next \/ UNCHANGED custody
<1>b. PICK b, k : b = h[p].att /\ k = h[p].cred.grant
  OBVIOUS
<1>t. /\ TypeInv /\ FollowInv /\ Contents /\ Places /\ Accounted /\ TypeInv' /\ Accounted'
      /\ Receives(p) /\ StoredAtHome
  BY DEF AccountInv, FollowInv, CustodyInv, TokenInv
<1>1. /\ h[p].pc = "commit" /\ h'[p].pc = "idle" /\ attempts[b].status = "NEEDS_REVOCATION"
      /\ vault'[b] = NoSecret /\ vault'[c] = Sealed(h[p].cred) /\ c \in Slots
      /\ \A s \in Slots \ {b, c} : vault'[s] = vault[s]
      /\ \A d \in Grants : grants'[d].status = grants[d].status
  BY <1>b DEF Puts, Slots
<1>2. b \in Attempts /\ b \in Slots
  BY <1>b, <1>t, <1>1 DEF TypeInv, GoodLocal, AttemptPhases, Slots
<1>3. k \in Grants /\ grants[k].home = None
  BY <1>b, <1>t, <1>1 DEF Receives, CallbackPhases
<1>4. \A q \in Handlers \ {p} : h'[q] = h[q]
  BY <1>t, <1>1, Entered
<1>5. /\ \A d \in Grants \ {k} : Held(d)' <=> Held(d)
      /\ \A d \in Grants : Held(d)' => Held(d) \/ Stored(d)
  BY <1>b, <1>t, <1>1, <1>4, HoldsMove
<1>6. CredentialsIn(b) /\ vault[b].cred.grant = k
  <2>1. CredentialsIn(b)
    BY <1>t, <1>1, <1>2 DEF Contents, RetainedStatus
  <2>2. PICK g : g = vault[b].cred.grant
    OBVIOUS
  <2>3. g \in Grants /\ Issued(g) /\ grants[g].attempt = b
    BY <1>t, <1>2, <2>1, <2>2 DEF Places
  <2> QED
    BY <1>b, <1>1, <2>1, <2>2, <2>3, SameGrant DEF CallbackPhases
<1>7. Stored(k) /\ Stored(k)'
  BY <1>b, <1>1, <1>2, <1>6 DEF Stored, CredentialsIn, Sealed
<1>8. Place(k)' = Place(k)
  BY <1>1, <1>3, <1>7 DEF Place
<1>9. \A d \in Grants \ {k} : Stored(d)' => Stored(d)
  BY <1>b, <1>1 DEF Stored, CredentialsIn, Sealed, NoSecret
<1>10. \A d \in Grants \ {k} : Stored(d) /\ ~(CredentialsIn(c) /\ vault[c].cred.grant = d)
                                 => Stored(d)'
  BY <1>1, <1>6 DEF Stored, CredentialsIn
<1>11. CASE ~CredentialsIn(c)
  <2>1. \A d \in Grants : Stored(d)' <=> Stored(d)
    BY <1>7, <1>9, <1>10, <1>11
  <2> QED
    BY <1>1, <2>1, SimulateQuiet
<1>12. CASE CredentialsIn(c)
  <2>g. PICK g : g = vault[c].cred.grant
    OBVIOUS
  <2>1. g \in Grants
    BY <1>t, <1>1, <1>12, <2>g DEF TypeInv, GoodSecret, CredentialsIn
  <2>2. g # k
    BY <1>t, <1>3, <1>12, <2>g, NoneIsNothing DEF StoredAtHome
  <2>3. \A d \in Grants \ {g, k} : Place(d)' = Place(d)
    BY <1>1, <1>5, <1>9, <1>10, <2>g, PlaceStays
  <2>4. Place(g)' = Place(g) \/ <<Place(g), Place(g)'>> \in Moving
    BY <1>t, <1>1, <1>5, <1>9, <2>1, <2>2, PlaceMoves
  <2> QED
    BY <1>t, <1>8, <2>1, <2>3, <2>4, OneGrant
<1> QED
  BY <1>11, <1>12

\* The provider revokes a grant: it is settled, wherever it is.
LEMMA SimulateRevoke ==
  ASSUME AccountInv, AccountInv', [Next]_vars, NEW g \in Grants \cup {None}, HoldsSame, Revokes(g)
  PROVE  Custody!Next \/ UNCHANGED custody
<1>t. TypeInv /\ Accounted /\ TypeInv' /\ Accounted'
  BY DEF AccountInv, FollowInv, CustodyInv
<1>1. /\ \A d \in Grants \ {g} : grants'[d].status = grants[d].status
      /\ \A d \in Grants : \/ grants'[d].status = grants[d].status
                           \/ grants[d].status = "active" /\ grants'[d].status = "revoked"
      /\ \A d \in Grants : (Stored(d)' <=> Stored(d)) /\ (Held(d)' <=> Held(d))
  BY DEF Revokes, HoldsSame, Stored, CredentialsIn
<1>2. \A d \in Grants \ {g} : Place(d)' = Place(d)
  BY <1>1, PlaceStays
<1>3. CASE g \in Grants
  <2>1. Place(g)' = Place(g) \/ <<Place(g), Place(g)'>> \in Moving
    BY <1>t, <1>1, <1>3, PlaceMoves
  <2> QED
    BY <1>t, <1>2, <1>3, <2>1, OneGrant
<1>4. CASE g \notin Grants
  BY <1>t, <1>2, <1>4, ManyGrants
<1> QED
  BY <1>3, <1>4

\* Rows go, and every grant they stored with them.
LEMMA SimulateDelete ==
  ASSUME AccountInv, AccountInv', [Next]_vars, HoldsSame,
         NEW cs \in SUBSET Conns, NEW as \in SUBSET Attempts, Deletes(cs, as)
  PROVE  Custody!Next \/ UNCHANGED custody
<1>t. TypeInv /\ Accounted /\ TypeInv' /\ Accounted'
  BY DEF AccountInv, FollowInv, CustodyInv
<1>1. UNCHANGED grants /\ \A s \in Slots : vault'[s] = NoSecret \/ vault'[s] = vault[s]
  BY DEF Deletes
<1>2. \A d \in Grants : (Stored(d)' => Stored(d)) /\ (Held(d)' <=> Held(d))
  BY <1>1 DEF HoldsSame, Stored, CredentialsIn, NoSecret
<1>3. \A d \in Grants : Place(d)' = Place(d) \/ <<Place(d), Place(d)'>> \in Settling
  BY <1>1, <1>2 DEF Place, Settling
<1> QED
  BY <1>t, <1>3, ManyGrants

\* Every step is a step of the promise, or changes nothing it speaks of.
LEMMA SimulateStep ==
  ASSUME AccountInv, AccountInv', [Next]_vars
  PROVE  Custody!Next \/ UNCHANGED custody
<1>t. TypeInv /\ FollowInv /\ Contents /\ Contents'
  BY DEF AccountInv, FollowInv, CustodyInv
<1>1. CASE Quiet
  <2>1. \A g : (\E s \in Slots : CredentialsIn(s)' /\ vault'[s].cred.grant = g) <=> Stored(g)
    BY <1>1, <1>t, QuietStores, StoresSame
  <2>2. \A g \in Grants : Stored(g)' <=> Stored(g)
    BY <2>1 DEF Stored
  <2>3. \A g \in Grants : grants'[g].status = grants[g].status
    BY <1>1 DEF Quiet, GrantQuiet
  <2> QED
    BY <2>2, <2>3, SimulateQuiet
<1>2. ASSUME NEW p \in Handlers, Rotates(p)
      PROVE  Custody!Next \/ UNCHANGED custody
  <2>1. \A g : (\E s \in Slots : CredentialsIn(s)' /\ vault'[s].cred.grant = g) <=> Stored(g)
    BY <1>2, StoresSame DEF Rotates
  <2>2. \A g \in Grants : Stored(g)' <=> Stored(g)
    BY <2>1 DEF Stored
  <2>3. \A g \in Grants : grants'[g].status = grants[g].status
    BY <1>2 DEF Rotates
  <2> QED
    BY <2>2, <2>3, SimulateQuiet
<1> QED
  BY <1>t, <1>1, <1>2, Kinds, SimulateIssue, SimulateRetain, SimulateClose, SimulatePut,
     SimulateRevoke, SimulateDelete

\* No grant is lost (ManagedConnections implements GrantCustody): whatever handlers
\* interleave, die or lose their answers, each grant a code exchange brought is held
\* by a handler or stored as ciphertext until it is revoked or given up on the record,
\* and a grant that was given up never comes back.
THEOREM GrantsNeverLost == Spec => GrantsAccountedFor
<1>1. Init => AccountInv
  BY AccountInit
<1>2. AccountInv /\ [Next]_vars => AccountInv'
  BY AccountStep
<1>3. Init => Custody!Init
  <2> SUFFICES ASSUME Init
               PROVE  Custody!Init
    OBVIOUS
  <2>1. custody = [g \in Grants |-> Place(g)]
    BY AccountInit, CustodyOf DEF AccountInv, FollowInv, CustodyInv
  <2>2. \A g \in Grants : Place(g) = "unissued"
    BY DEF Init, Place, NoGrant
  <2> QED
    BY <2>1, <2>2 DEF Custody!Init
<1>4. AccountInv /\ AccountInv' /\ [Next]_vars => [Custody!Next]_custody
  BY SimulateStep
<1> QED
  BY <1>1, <1>2, <1>3, <1>4, PTL DEF Spec, GrantsAccountedFor, Custody!Spec
================================================================================
