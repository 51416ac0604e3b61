------------------------------ MODULE KeysProofs ------------------------------
(***************************************************************************)
(* What TLAPS proves of the keys that clients and providers bring: the     *)
(* idempotency ledger, for every number of clients, keys, bodies and       *)
(* requests, and the provider credentials with the AI configurations that  *)
(* point at them.                                                          *)
(***************************************************************************)
EXTENDS Idempotency, Credentials, TLAPS, FiniteSetTheorems

-----------------------------------------------------------------------------
(***************************************************************************)
(* The idempotency ledger.                                                 *)
(***************************************************************************)
\* Every answer under a key is what the ledger has stored for it, and every row
\* that was found or stored is one for what its body asks for.
Serves(rows, r, body) == rows[r].state # "unused" /\ rows[r].aim = Aim[body]

LedgerInv ==
  /\ IdempotencyTypeOK
  /\ \A key \in IdemKeys : ledger[key] # NoEntry => Serves(made, ledger[key].resource, ledger[key].body)
  /\ \A c \in Clients : idemReq[c] # idle /\ idemReq[c].found # 0 =>
                          Serves(made, idemReq[c].found, idemReq[c].body)
  /\ \A a \in answers :
       /\ Serves(made, a.resource, a.body)
       /\ a.key \in IdemKeys => /\ ledger[a.key] # NoEntry
                                /\ ledger[a.key].body = a.body
                                /\ ledger[a.key].resource = a.resource

LEMMA LedgerInit == IdempotencyInit => LedgerInv
<1> SUFFICES ASSUME IdempotencyInit PROVE LedgerInv
  OBVIOUS
<1>1. IdempotencyTypeOK
  BY IdempotencyAssumption DEF IdempotencyInit, IdempotencyTypeOK, Entries, ResourceRows
<1> QED BY <1>1 DEF IdempotencyInit, LedgerInv, NoEntry

\* A stored entry has its fields.
LEMMA StoredEntry ==
  ASSUME LedgerInv, NEW key \in IdemKeys, ledger[key] # NoEntry
  PROVE  ledger[key] \in [body : Bodies, resource : Resources, old : BOOLEAN]
BY DEF LedgerInv, IdempotencyTypeOK, Entries

\* An answer more, about a row that serves its body.
LEMMA LedgerAnswered ==
  ASSUME LedgerInv, NEW c \in Clients, NEW key \in IdemKeys, NEW body \in Bodies,
         Replay(c, key, body)
  PROVE  LedgerInv'
<1> DEFINE new == [key |-> key, body |-> body, resource |-> ledger[key].resource]
<1>1. /\ answers' = answers \cup {new}
      /\ UNCHANGED <<ledger, made, idemReq>>
      /\ ledger[key] # NoEntry /\ ledger[key].body = body
      /\ idemServed' \in 0..MaxIdemRequests
  BY IdempotencyAssumption DEF Replay, Matches, Answer, LedgerInv, IdempotencyTypeOK
<1>2. ledger[key].resource \in Resources
  BY <1>1, StoredEntry
<1>3. IdempotencyTypeOK'
  BY <1>1, <1>2 DEF LedgerInv, IdempotencyTypeOK
<1> QED BY <1>1, <1>3 DEF LedgerInv, Serves

\* A request that begins has found a row for its body, or none.
LEMMA LedgerBegun ==
  ASSUME LedgerInv, NEW c \in Clients, NEW key \in IdemKeys \cup {NoKey}, NEW body \in Bodies,
         BeginCreate(c, key, body)
  PROVE  LedgerInv'
<1>1. PICK r \in IF Duplicates(body) = {} THEN {0} ELSE Duplicates(body) :
        idemReq' = [idemReq EXCEPT ![c] = [op |-> "create", key |-> key, body |-> body,
                                           found |-> r]]
  BY DEF BeginCreate
<1>2. r = 0 \/ (r \in Resources /\ Serves(made, r, body))
  BY DEF Duplicates, Serves
<1>3. UNCHANGED <<ledger, made, answers>> /\ idemServed' \in 0..MaxIdemRequests
  BY IdempotencyAssumption DEF BeginCreate, LedgerInv, IdempotencyTypeOK
<1>4. IdempotencyTypeOK'
  BY <1>1, <1>2, <1>3 DEF LedgerInv, IdempotencyTypeOK, Creations
<1>5. ASSUME NEW d \in Clients, idemReq'[d] # idle, idemReq'[d].found # 0
      PROVE  Serves(made', idemReq'[d].found, idemReq'[d].body)
  <2>1. CASE d = c
    BY <1>1, <1>2, <1>3, <1>5, <2>1 DEF LedgerInv, IdempotencyTypeOK, Serves
  <2>2. CASE d # c
    BY <1>1, <1>3, <1>5, <2>2 DEF LedgerInv, IdempotencyTypeOK, Serves
  <2> QED BY <2>1, <2>2
<1> QED BY <1>3, <1>4, <1>5 DEF LedgerInv, Serves

\* A key is remembered with a row that serves the body.
LEMMA Remembered ==
  ASSUME LedgerInv, NEW c \in Clients, NEW r \in Resources, idemReq[c] # idle,
         Remember(idemReq[c], r), idemReq' = [idemReq EXCEPT ![c] = idle], UNCHANGED idemServed,
         made' \in [Resources -> ResourceRows],
         \A s \in Resources, body \in Bodies : Serves(made, s, body) => Serves(made', s, body),
         Serves(made', r, idemReq[c].body)
  PROVE  LedgerInv'
<1>1. PICK q : q = idemReq[c]
  OBVIOUS
<1>2. q \in Creations
  BY <1>1 DEF LedgerInv, IdempotencyTypeOK
<1> DEFINE entry == [body |-> q.body, resource |-> r, old |-> FALSE]
           new == [key |-> q.key, body |-> q.body, resource |-> r]
<1>3. /\ q.key \in IdemKeys => ledger[q.key] = NoEntry
      /\ ledger' = [key \in IdemKeys |-> IF key = q.key THEN entry ELSE ledger[key]]
      /\ answers' = answers \cup {new}
  BY <1>1 DEF Remember, KeyUnused, Answer
<1>4. q.body \in Bodies /\ q.key \in IdemKeys \cup {NoKey} /\ entry # NoEntry
  BY <1>2 DEF Creations, NoEntry, Resources
<1>5. IdempotencyTypeOK'
  <2>1. entry \in Entries
    BY <1>4 DEF Entries
  <2>2. ledger' \in [IdemKeys -> Entries]
    BY <1>3, <2>1 DEF LedgerInv, IdempotencyTypeOK
  <2>3. answers' \subseteq [key : IdemKeys \cup {NoKey}, body : Bodies, resource : Resources]
    BY <1>3, <1>4 DEF LedgerInv, IdempotencyTypeOK
  <2> QED BY <2>2, <2>3 DEF LedgerInv, IdempotencyTypeOK
<1>6. ASSUME NEW key \in IdemKeys, ledger'[key] # NoEntry
      PROVE  Serves(made', ledger'[key].resource, ledger'[key].body)
  <2>1. CASE key = q.key
    BY <1>1, <1>3, <2>1
  <2>2. CASE key # q.key
    <3>1. ledger'[key] = ledger[key] /\ ledger[key] # NoEntry
      BY <1>3, <1>6, <2>2
    <3>2. ledger[key].resource \in Resources /\ ledger[key].body \in Bodies
      BY <3>1, StoredEntry
    <3> QED BY <3>1, <3>2 DEF LedgerInv
  <2> QED BY <2>1, <2>2
<1>7. ASSUME NEW d \in Clients, idemReq'[d] # idle, idemReq'[d].found # 0
      PROVE  Serves(made', idemReq'[d].found, idemReq'[d].body)
  <2>1. d # c /\ idemReq'[d] = idemReq[d]
    BY <1>7 DEF LedgerInv, IdempotencyTypeOK
  <2>2. idemReq[d] \in Creations
    BY <1>7, <2>1 DEF LedgerInv, IdempotencyTypeOK
  <2>3. idemReq[d].found \in Resources /\ idemReq[d].body \in Bodies
    BY <1>7, <2>1, <2>2 DEF Creations
  <2> QED BY <1>7, <2>1, <2>3 DEF LedgerInv
<1>8. ASSUME NEW a \in answers'
      PROVE  /\ Serves(made', a.resource, a.body)
             /\ a.key \in IdemKeys => /\ ledger'[a.key] # NoEntry
                                      /\ ledger'[a.key].body = a.body
                                      /\ ledger'[a.key].resource = a.resource
  <2>1. CASE a \in answers
    <3>1. a.resource \in Resources /\ a.body \in Bodies
      BY <2>1 DEF LedgerInv, IdempotencyTypeOK
    <3>2. a.key \in IdemKeys => a.key # q.key
      BY <1>3, <2>1 DEF LedgerInv
    <3> QED BY <1>3, <2>1, <3>1, <3>2 DEF LedgerInv
  <2>2. CASE a = new
    BY <1>1, <1>3, <1>4, <2>2
  <2> QED BY <1>3, <2>1, <2>2
<1> QED BY <1>5, <1>6, <1>7, <1>8 DEF LedgerInv

LEMMA LedgerCreated ==
  ASSUME LedgerInv, NEW c \in Clients, CommitCreated(c)
  PROVE  LedgerInv'
<1>1. PICK r \in Resources :
        /\ made[r].state = "unused"
        /\ made' = [made EXCEPT ![r] = [state |-> "live", aim |-> Aim[idemReq[c].body]]]
        /\ Remember(idemReq[c], r)
  BY DEF CommitCreated
<1>2. /\ idemReq[c] # idle /\ idemReq' = [idemReq EXCEPT ![c] = idle]
      /\ UNCHANGED idemServed
  BY DEF CommitCreated
<1>3. idemReq[c].body \in Bodies
  BY <1>2 DEF LedgerInv, IdempotencyTypeOK, Creations
<1>4. Aim[idemReq[c].body] \in Aims
  BY <1>3, IdempotencyAssumption
<1>5. made' \in [Resources -> ResourceRows]
  BY <1>1, <1>4 DEF LedgerInv, IdempotencyTypeOK, ResourceRows
<1>6. ASSUME NEW s \in Resources, NEW body \in Bodies, Serves(made, s, body)
      PROVE  Serves(made', s, body)
  BY <1>1, <1>6 DEF Serves, LedgerInv, IdempotencyTypeOK
<1>7. Serves(made', r, idemReq[c].body)
  <2>1. made'[r] = [state |-> "live", aim |-> Aim[idemReq[c].body]]
    BY <1>1 DEF LedgerInv, IdempotencyTypeOK
  <2>2. made'[r].state # "unused" /\ made'[r].aim = Aim[idemReq[c].body]
    BY <2>1
  <2> QED BY <2>2 DEF Serves
<1> QED BY <1>1, <1>2, <1>5, <1>6, <1>7, Remembered

LEMMA LedgerFound ==
  ASSUME LedgerInv, NEW c \in Clients, CommitFound(c)
  PROVE  LedgerInv'
<1>1. PICK r : r = idemReq[c].found
  OBVIOUS
<1>2. /\ idemReq[c] # idle /\ r # 0 /\ Remember(idemReq[c], r)
      /\ idemReq' = [idemReq EXCEPT ![c] = idle] /\ UNCHANGED <<made, idemServed>>
  BY <1>1 DEF CommitFound
<1>3. r \in Resources
  BY <1>1, <1>2 DEF LedgerInv, IdempotencyTypeOK, Creations
<1>4. Serves(made, r, idemReq[c].body)
  BY <1>1, <1>2 DEF LedgerInv
<1>5. made' \in [Resources -> ResourceRows]
  BY <1>2 DEF LedgerInv, IdempotencyTypeOK
<1> QED BY <1>2, <1>3, <1>4, <1>5, Remembered DEF Serves

LEMMA LedgerNext == LedgerInv /\ [IdempotencyNext]_idemVars => LedgerInv'
<1> SUFFICES ASSUME LedgerInv, [IdempotencyNext]_idemVars PROVE LedgerInv'
  OBVIOUS
<1>1. ASSUME NEW c \in Clients, NEW key \in IdemKeys, NEW body \in Bodies, Replay(c, key, body)
      PROVE  LedgerInv'
  BY <1>1, LedgerAnswered
<1>2. ASSUME NEW c \in Clients, NEW key \in IdemKeys \cup {NoKey}, NEW body \in Bodies,
             BeginCreate(c, key, body)
      PROVE  LedgerInv'
  BY <1>2, LedgerBegun
<1>3. ASSUME NEW c \in Clients, CommitCreated(c) \/ CommitFound(c) PROVE LedgerInv'
  BY <1>3, LedgerCreated, LedgerFound
<1>4. ASSUME NEW c \in Clients, IdemRollback(c) PROVE LedgerInv'
  BY <1>4 DEF IdemRollback, LedgerInv, IdempotencyTypeOK, Serves
<1>5. ASSUME NEW r \in Resources, DeleteResource(r) PROVE LedgerInv'
  <2>1. /\ made' = [made EXCEPT ![r].state = "deleted"]
        /\ UNCHANGED <<ledger, idemReq, idemServed, answers>>
    BY <1>5 DEF DeleteResource
  <2>2. made' \in [Resources -> ResourceRows]
    BY <2>1 DEF LedgerInv, IdempotencyTypeOK, ResourceRows
  <2>3. \A s, body : s \in Resources /\ Serves(made, s, body) => Serves(made', s, body)
    BY <2>1 DEF LedgerInv, IdempotencyTypeOK, ResourceRows, Serves
  <2>4. IdempotencyTypeOK'
    BY <2>1, <2>2 DEF LedgerInv, IdempotencyTypeOK
  <2>5. \A key \in IdemKeys : ledger[key] # NoEntry => ledger[key].resource \in Resources
    BY StoredEntry
  <2>6. \A d \in Clients : idemReq[d] # idle /\ idemReq[d].found # 0 =>
                             idemReq[d].found \in Resources
    BY DEF LedgerInv, IdempotencyTypeOK, Creations
  <2>7. \A a \in answers : a.resource \in Resources
    BY DEF LedgerInv, IdempotencyTypeOK
  <2> QED BY <2>1, <2>3, <2>4, <2>5, <2>6, <2>7 DEF LedgerInv
<1>6. CASE RetentionPasses
  <2>1. /\ ledger' = [key \in IdemKeys |-> IF ledger[key] = NoEntry THEN NoEntry
                                           ELSE [ledger[key] EXCEPT !.old = TRUE]]
        /\ UNCHANGED <<made, idemReq, idemServed, answers>>
    BY <1>6 DEF RetentionPasses
  <2>2. ASSUME NEW key \in IdemKeys
        PROVE  /\ ledger'[key] \in Entries
               /\ ledger'[key] = NoEntry <=> ledger[key] = NoEntry
               /\ ledger'[key].body = ledger[key].body
               /\ ledger'[key].resource = ledger[key].resource
    <3>1. CASE ledger[key] = NoEntry
      BY <2>1, <3>1 DEF Entries
    <3>2. CASE ledger[key] # NoEntry
      BY <2>1, <3>2, StoredEntry DEF Entries, NoEntry
    <3> QED BY <3>1, <3>2
  <2>3. IdempotencyTypeOK'
    BY <2>1, <2>2 DEF LedgerInv, IdempotencyTypeOK
  <2> QED BY <2>1, <2>2, <2>3 DEF LedgerInv, Serves
<1>7. CASE PurgeKeys
  <2>1. /\ ledger' = [key \in IdemKeys |-> IF ledger[key].old THEN NoEntry ELSE ledger[key]]
        /\ answers' = {a \in answers : a.key \in IdemKeys => ~ledger[a.key].old}
        /\ UNCHANGED <<made, idemReq, idemServed>>
    BY <1>7 DEF PurgeKeys
  <2>2. IdempotencyTypeOK'
    BY <2>1 DEF LedgerInv, IdempotencyTypeOK, Entries
  <2> QED BY <2>1, <2>2 DEF LedgerInv, Serves
<1>8. CASE UNCHANGED idemVars
  BY <1>8 DEF idemVars, LedgerInv, IdempotencyTypeOK, Serves
<1> QED BY <1>1, <1>2, <1>3, <1>4, <1>5, <1>6, <1>7, <1>8 DEF IdempotencyNext

\* However many requests carry a key at the same time, until its retention ends
\* it is answered for one body with one resource, and every answer is a resource
\* for what was asked, whether the endpoint finds one or not (idempotency.py).
THEOREM KeysHaveOneEffect == IdempotencySpec => []OneEffectPerKey
<1>1. LedgerInv => OneEffectPerKey
  <2> SUFFICES ASSUME LedgerInv, NEW a \in answers, NEW b \in answers,
                      a.key = b.key, a.key \in IdemKeys
               PROVE  a = b
    BY DEF LedgerInv, OneEffectPerKey, Serves
  <2>1. a.body = b.body /\ a.resource = b.resource
    BY DEF LedgerInv
  <2>2. a = [key |-> a.key, body |-> a.body, resource |-> a.resource]
    BY DEF LedgerInv, IdempotencyTypeOK
  <2>3. b = [key |-> b.key, body |-> b.body, resource |-> b.resource]
    BY DEF LedgerInv, IdempotencyTypeOK
  <2> QED BY <2>1, <2>2, <2>3
<1> QED BY <1>1, LedgerInit, LedgerNext, PTL DEF IdempotencySpec

-----------------------------------------------------------------------------
(***************************************************************************)
(* Provider credentials and AI configurations.                             *)
(***************************************************************************)
AnyRequest == CredRequests \cup ConfigRequests \cup {idle}

CredTypes ==
  /\ creds \in [CredRows -> CredentialRows]
  /\ configs \in [ConfigRows -> AiConfigs]
  /\ credReq \in [Clients -> AnyRequest]
  /\ credServed \in 0..MaxCredRequests

Probing(q) == q.op = "write" /\ (q.secret # 0 \/ q.probe)

\* The row of a write is there, and unless the writes of two requests
\* overlapped it still has the secret that was loaded, and has not become
\* VERIFIED since but by hand.
WriteLoaded(q) ==
  q.op = "write" =>
    /\ creds[q.row].state # "unused"
    /\ Probing(q) /\ q.row \notin credRaced =>
         /\ creds[q.row].secret = q.loaded.secret
         /\ q.row \notin byHand /\ creds[q.row].status = "VERIFIED" =>
              q.loaded.status = "VERIFIED"

\* The configuration of an upsert is the one of its purpose.
UpsertLoaded(q) ==
  q.op = "upsert" =>
    IF q.config = 0 THEN q.repoint /\ q.flip
    ELSE configs[q.config].state # "unused" /\ configs[q.config].purpose = q.purpose

OneDefault ==
  \A k, l \in ConfigRows :
    /\ LiveConfig(k) /\ configs[k].isDefault
    /\ LiveConfig(l) /\ configs[l].isDefault
    /\ configs[k].purpose = configs[l].purpose
    => k = l

ReferencesKept ==
  \A k \in ConfigRows :
    LiveConfig(k) /\ configs[k].cred # NoCred => LiveCred(configs[k].cred)

SecretsInv ==
  /\ CredTypes
  /\ \A c \in Clients : WriteLoaded(credReq[c]) /\ UpsertLoaded(credReq[c])
  /\ VerifiedIsProven
  /\ OneDefault
  /\ ReferencesKept

LEMMA RequestShapes ==
  ASSUME NEW q \in AnyRequest
  PROVE  /\ q.op = "create" => q.secret \in Secrets /\ q.probe \in BOOLEAN /\ q.label \in Labels
         /\ q.op = "write" =>
              /\ q.row \in CredRows /\ q.label \in Labels \cup {"keep"}
              /\ q.loaded \in CredentialRows /\ q.secret \in Secrets \cup {0}
              /\ q.status \in CredentialStatuses \cup {"keep"} /\ q.probe \in BOOLEAN
         /\ q.op = "delete" => q.row \in CredRows
         /\ q.op = "upsert" =>
              /\ q.purpose \in Purposes /\ q.vendor \in Vendors
              /\ q.config \in ConfigRows \cup {0} /\ q.cred \in CredRows \cup {NoCred}
              /\ q.repoint \in BOOLEAN /\ q.isDefault \in BOOLEAN /\ q.flip \in BOOLEAN
              /\ q.cleared \in SUBSET ConfigRows
         /\ q.op = "deleteConfig" => q.config \in ConfigRows
<1>1. CASE q \in [op : {"create"}, label : Labels, secret : Secrets, probe : BOOLEAN]
  BY <1>1
<1>2. CASE q \in [op : {"write"}, row : CredRows, label : Labels \cup {"keep"},
                  loaded : CredentialRows, secret : Secrets \cup {0},
                  status : CredentialStatuses \cup {"keep"}, probe : BOOLEAN]
  BY <1>2
<1>3. CASE q \in [op : {"delete"}, row : CredRows]
  BY <1>3
<1>4. CASE q \in [op : {"upsert"}, purpose : Purposes, vendor : Vendors,
                  config : ConfigRows \cup {0}, cred : CredRows \cup {NoCred},
                  repoint : BOOLEAN, isDefault : BOOLEAN, flip : BOOLEAN,
                  cleared : SUBSET ConfigRows]
  BY <1>4
<1>5. CASE q \in [op : {"deleteConfig"}, config : ConfigRows]
  BY <1>5
<1>6. CASE q = idle
  BY <1>6 DEF idle
<1> QED BY <1>1, <1>2, <1>3, <1>4, <1>5, <1>6 DEF AnyRequest, CredRequests, ConfigRequests

LEMMA SecretsInvInit == CredentialsInit => SecretsInv
<1> SUFFICES ASSUME CredentialsInit PROVE SecretsInv
  OBVIOUS
<1>1. CredTypes
  <2>1. 0 \in 0..MaxCredRequests
    BY CredentialsAssumption
  <2> QED BY <2>1 DEF CredentialsInit, CredTypes, CredentialRows, AiConfigs, AnyRequest,
                      CredentialStatuses, NoCred
<1>2. /\ \A c \in Clients : credReq[c].op = "idle"
      /\ \A r \in CredRows : ~LiveCred(r)
      /\ \A k \in ConfigRows : ~LiveConfig(k)
  BY DEF CredentialsInit, idle, LiveCred, LiveConfig
<1> QED BY <1>1, <1>2 DEF SecretsInv, WriteLoaded, UpsertLoaded, VerifiedIsProven, OneDefault,
                          ReferencesKept

\* A request that begins has loaded the row that it is about to write.
LEMMA SecretsBegun ==
  ASSUME SecretsInv, NEW c \in Clients, CredRoute(c)
  PROVE  SecretsInv'
<1>0. CredTypes
  BY DEF SecretsInv
<1>1. ASSUME NEW q \in AnyRequest, CredBegin(c, q), WriteLoaded(q), UpsertLoaded(q)
      PROVE  SecretsInv'
  <2>1. /\ credReq' = [credReq EXCEPT ![c] = q]
        /\ UNCHANGED <<creds, configs, proven, byHand, credRaced>>
        /\ credServed' \in 0..MaxCredRequests
    BY <1>0, <1>1, CredentialsAssumption DEF CredBegin, CredTypes
  <2>2. \A d \in Clients : credReq'[d] = IF d = c THEN q ELSE credReq[d]
    BY <1>0, <2>1 DEF CredTypes
  <2>3. CredTypes'
    BY <1>0, <2>1 DEF CredTypes
  <2>4. /\ VerifiedIsProven' /\ OneDefault' /\ ReferencesKept'
    BY <2>1 DEF SecretsInv, VerifiedIsProven, OneDefault, ReferencesKept, LiveCred, LiveConfig
  <2>5. ASSUME NEW d \in Clients
        PROVE  WriteLoaded(credReq[d])' /\ UpsertLoaded(credReq[d])'
    <3>1. WriteLoaded(credReq[d]) /\ UpsertLoaded(credReq[d])
      BY DEF SecretsInv
    <3> QED BY <1>1, <2>1, <2>2, <3>1 DEF WriteLoaded, UpsertLoaded, Probing
  <2> QED BY <2>3, <2>4, <2>5 DEF SecretsInv
<1>2. credServed < MaxCredRequests => credServed + 1 \in Secrets
  BY <1>0, CredentialsAssumption DEF CredTypes, Secrets
<1>3. ASSUME NEW label \in Labels, NEW probe \in BOOLEAN, CreateCredential(c, label, probe)
      PROVE  SecretsInv'
  <2> DEFINE q == [op |-> "create", label |-> label, secret |-> credServed + 1, probe |-> probe]
  <2>1. CredBegin(c, q)
    BY <1>3 DEF CreateCredential
  <2>2. q \in AnyRequest
    BY <1>2, <2>1 DEF CredBegin, AnyRequest, CredRequests
  <2>3. WriteLoaded(q) /\ UpsertLoaded(q)
    BY DEF WriteLoaded, UpsertLoaded
  <2> QED BY <1>1, <2>1, <2>2, <2>3
<1>4. ASSUME NEW r \in CredRows, NEW label \in Labels \cup {"keep"}, LiveCred(r),
             NEW secret \in Secrets \cup {0}, NEW status \in CredentialStatuses \cup {"keep"},
             NEW probe \in BOOLEAN,
             CredBegin(c, [op |-> "write", row |-> r, loaded |-> creds[r], label |-> label,
                           secret |-> secret, status |-> status, probe |-> probe])
      PROVE  SecretsInv'
  <2> DEFINE q == [op |-> "write", row |-> r, loaded |-> creds[r], label |-> label,
                   secret |-> secret, status |-> status, probe |-> probe]
  <2>1. q \in AnyRequest
    BY <1>0, <1>4 DEF CredTypes, AnyRequest, CredRequests
  <2>2. WriteLoaded(q) /\ UpsertLoaded(q)
    BY <1>4 DEF WriteLoaded, UpsertLoaded, LiveCred
  <2> QED BY <1>1, <1>4, <2>1, <2>2
<1>5. ASSUME NEW r \in CredRows, NEW label \in Labels \cup {"keep"}, NEW rotate \in BOOLEAN,
             NEW status \in CredentialStatuses \cup {"keep"}, NEW probe \in BOOLEAN,
             UpdateCredential(c, r, label, rotate, status, probe)
      PROVE  SecretsInv'
  <2> DEFINE secret == IF rotate THEN credServed + 1 ELSE 0
             renamed == IF label = creds[r].label THEN "keep" ELSE label
  <2>1. /\ LiveCred(r)
        /\ CredBegin(c, [op |-> "write", row |-> r, loaded |-> creds[r], label |-> renamed,
                         secret |-> secret, status |-> status, probe |-> probe])
    BY <1>5 DEF UpdateCredential
  <2>2. secret \in Secrets \cup {0} /\ renamed \in Labels \cup {"keep"}
    BY <1>2, <1>5 DEF UpdateCredential, CredBegin
  <2> HIDE DEF secret, renamed
  <2> QED BY <1>4, <2>1, <2>2
<1>6. ASSUME NEW r \in CredRows, VerifyCredential(c, r)
      PROVE  SecretsInv'
  BY <1>4, <1>6 DEF VerifyCredential
<1>7. ASSUME NEW r \in CredRows, DeleteCredential(c, r)
      PROVE  SecretsInv'
  <2> DEFINE q == [op |-> "delete", row |-> r]
  <2>1. CredBegin(c, q)
    BY <1>7 DEF DeleteCredential
  <2>2. q \in AnyRequest
    BY DEF AnyRequest, CredRequests
  <2>3. WriteLoaded(q) /\ UpsertLoaded(q)
    BY DEF WriteLoaded, UpsertLoaded
  <2> QED BY <1>1, <2>1, <2>2, <2>3
<1>8. ASSUME NEW purpose \in Purposes, NEW vendor \in Vendors, NEW r \in CredRows \cup {NoCred},
             NEW isDefault \in BOOLEAN, UpsertConfig(c, purpose, vendor, r, isDefault)
      PROVE  SecretsInv'
  <2> DEFINE found == ConfigFor(purpose, vendor)
             k == IF found = {} THEN 0 ELSE CHOOSE x \in found : TRUE
             repoint == k = 0 \/ configs[k].cred # r
             flip == k = 0 \/ isDefault \/ configs[k].isDefault
             cleared == IF isDefault THEN Defaults(purpose) \ {k} ELSE {}
             q == [op |-> "upsert", purpose |-> purpose, vendor |-> vendor, config |-> k,
                   cred |-> r, repoint |-> repoint, isDefault |-> isDefault, flip |-> flip,
                   cleared |-> cleared]
  <2>1. CredBegin(c, q)
    BY <1>8 DEF UpsertConfig
  <2>2. \/ k = 0
        \/ k \in ConfigRows /\ LiveConfig(k) /\ configs[k].purpose = purpose
    BY DEF ConfigFor
  <2>3. cleared \in SUBSET ConfigRows
    BY DEF Defaults
  <2>4. k # 0 => configs[k].isDefault \in BOOLEAN
    BY <1>0, <2>2 DEF CredTypes, AiConfigs
  <2>5. k = 0 => repoint /\ flip
    OBVIOUS
  <2>6. repoint \in BOOLEAN /\ flip \in BOOLEAN
    BY <2>4
  <2> HIDE DEF found, k, repoint, flip, cleared
  <2>7. q \in AnyRequest
    BY <2>2, <2>3, <2>6 DEF AnyRequest, ConfigRequests
  <2>8. WriteLoaded(q) /\ UpsertLoaded(q)
    BY <2>2, <2>5 DEF WriteLoaded, UpsertLoaded, LiveConfig
  <2> QED BY <1>1, <2>1, <2>7, <2>8
<1>9. ASSUME NEW k \in ConfigRows, DeleteConfig(c, k)
      PROVE  SecretsInv'
  <2> DEFINE q == [op |-> "deleteConfig", config |-> k]
  <2>1. CredBegin(c, q)
    BY <1>9 DEF DeleteConfig
  <2>2. q \in AnyRequest
    BY DEF AnyRequest, ConfigRequests
  <2>3. WriteLoaded(q) /\ UpsertLoaded(q)
    BY DEF WriteLoaded, UpsertLoaded
  <2> QED BY <1>1, <2>1, <2>2, <2>3
<1> QED BY <1>3, <1>5, <1>6, <1>7, <1>8, <1>9 DEF CredRoute

\* A step that ends c's request and leaves the credentials alone.
LEMMA CredentialsUntouched ==
  ASSUME SecretsInv, NEW c \in Clients, credReq' = [credReq EXCEPT ![c] = idle],
         UNCHANGED <<creds, credServed, proven, byHand, credRaced>>,
         configs' \in [ConfigRows -> AiConfigs],
         \A k \in ConfigRows : configs[k].state # "unused" =>
           configs'[k].state # "unused" /\ configs'[k].purpose = configs[k].purpose,
         OneDefault', ReferencesKept'
  PROVE  SecretsInv'
<1>1. \A d \in Clients : credReq'[d] = IF d = c THEN idle ELSE credReq[d]
  BY DEF SecretsInv, CredTypes
<1>2. CredTypes'
  BY DEF SecretsInv, CredTypes, AnyRequest
<1>3. VerifiedIsProven'
  BY DEF SecretsInv, VerifiedIsProven, LiveCred
<1>4. ASSUME NEW d \in Clients
      PROVE  WriteLoaded(credReq[d])' /\ UpsertLoaded(credReq[d])'
  <2>1. CASE d = c
    BY <1>1, <2>1 DEF WriteLoaded, UpsertLoaded, idle
  <2>2. CASE d # c
    <3>1. WriteLoaded(credReq[d]) /\ UpsertLoaded(credReq[d]) /\ credReq[d] \in AnyRequest
      BY DEF SecretsInv, CredTypes
    <3>2. credReq[d].op = "upsert" => credReq[d].config \in ConfigRows \cup {0}
      BY <3>1, RequestShapes
    <3> QED BY <1>1, <2>2, <3>1, <3>2 DEF WriteLoaded, UpsertLoaded, Probing
  <2> QED BY <2>1, <2>2
<1> QED BY <1>2, <1>3, <1>4 DEF SecretsInv

LEMMA SecretsUpserted ==
  ASSUME SecretsInv, NEW c \in Clients, CommitUpsert(c)
  PROVE  SecretsInv'
<1> DEFINE q == credReq[c]
<1>1. /\ q.purpose \in Purposes /\ q.vendor \in Vendors
      /\ q.config \in ConfigRows \cup {0} /\ q.cred \in CredRows \cup {NoCred}
      /\ q.repoint \in BOOLEAN /\ q.isDefault \in BOOLEAN /\ q.flip \in BOOLEAN
      /\ q.cleared \in SUBSET ConfigRows
  BY RequestShapes DEF CommitUpsert, SecretsInv, CredTypes
<1>2. /\ q.repoint /\ q.cred # NoCred => LiveCred(q.cred)
      /\ \A k \in q.cleared \cup ({q.config} \ {0}) : LiveConfig(k)
      /\ q.isDefault => Defaults(q.purpose) \subseteq q.cleared \cup {q.config}
      /\ credReq' = [credReq EXCEPT ![c] = idle]
      /\ UNCHANGED <<creds, credServed, proven, byHand, credRaced>>
  BY DEF CommitUpsert, CredEnd
<1>3. PICK k \in ConfigRows :
        /\ IF q.config # 0 THEN k = q.config
           ELSE /\ ConfigFor(q.purpose, q.vendor) = {}
                /\ configs[k].state = "unused"
                /\ \A x \in ConfigRows : x < k => configs[x].state # "unused"
        /\ configs' = [x \in ConfigRows |->
                         IF x = k THEN UpsertedConfig(q, k)
                         ELSE IF x \in q.cleared THEN [configs[x] EXCEPT !.isDefault = FALSE]
                         ELSE configs[x]]
  BY DEF CommitUpsert
<1>4. IF q.config = 0 THEN q.repoint /\ q.flip
      ELSE configs[q.config].state # "unused" /\ configs[q.config].purpose = q.purpose
  BY DEF SecretsInv, UpsertLoaded, CommitUpsert
<1> HIDE DEF q
<1>5. /\ \A x \in ConfigRows : configs[x] \in AiConfigs
      /\ OneDefault /\ ReferencesKept
  BY DEF SecretsInv, CredTypes
<1>6. DEFINE u == UpsertedConfig(q, k)
<1>7. /\ u \in AiConfigs /\ u.state = "live" /\ u.purpose = q.purpose
      /\ u.cred = IF q.repoint THEN q.cred ELSE configs[k].cred
      /\ u.isDefault = IF q.flip THEN q.isDefault ELSE configs[k].isDefault
  BY <1>1, <1>5 DEF UpsertedConfig, AiConfigs
<1>8. \A x \in ConfigRows \ {k} :
        /\ configs'[x] \in AiConfigs
        /\ configs'[x].state = configs[x].state /\ configs'[x].purpose = configs[x].purpose
        /\ configs'[x].cred = configs[x].cred
        /\ configs'[x].isDefault = (configs[x].isDefault /\ x \notin q.cleared)
  BY <1>3, <1>5 DEF AiConfigs
<1>9. configs'[k] = u
  BY <1>3
<1> HIDE DEF u
<1>10. configs' \in [ConfigRows -> AiConfigs]
  <2>1. configs' = [x \in ConfigRows |-> configs'[x]]
    BY <1>3
  <2>2. \A x \in ConfigRows : configs'[x] \in AiConfigs
    BY <1>7, <1>8, <1>9
  <2> QED BY <2>1, <2>2
<1>11. \A x \in ConfigRows : configs[x].state # "unused" =>
         configs'[x].state # "unused" /\ configs'[x].purpose = configs[x].purpose
  BY <1>3, <1>4, <1>7, <1>8, <1>9
<1>12. ReferencesKept'
  <2> SUFFICES ASSUME NEW x \in ConfigRows, configs'[x].state = "live", configs'[x].cred # NoCred
               PROVE  creds[configs'[x].cred].state = "live"
    BY <1>2 DEF ReferencesKept, LiveConfig, LiveCred
  <2>1. CASE x # k
    BY <1>5, <1>8, <2>1 DEF ReferencesKept, LiveConfig, LiveCred
  <2>2. CASE x = k /\ q.repoint
    BY <1>2, <1>7, <1>9, <2>2 DEF LiveCred
  <2>3. CASE x = k /\ ~q.repoint
    <3>1. LiveConfig(k)
      BY <1>1, <1>2, <1>3, <1>4, <2>3
    <3> QED BY <1>5, <1>7, <1>9, <2>3, <3>1 DEF ReferencesKept, LiveCred
  <2> QED BY <2>1, <2>2, <2>3
<1>13. OneDefault'
  <2>1. \* the only other default of the purpose is cleared
        ASSUME NEW x \in ConfigRows \ {k}, u.isDefault, configs'[x].state = "live",
               configs'[x].isDefault, configs'[x].purpose = u.purpose
        PROVE  FALSE
    <3>1. /\ configs[x].state = "live" /\ configs[x].purpose = q.purpose
          /\ configs[x].isDefault /\ x \notin q.cleared
      BY <1>7, <1>8, <2>1
    <3>2. CASE q.flip
      <4>1. q.isDefault
        BY <1>7, <2>1, <3>2
      <4>2. x \in Defaults(q.purpose)
        BY <3>1 DEF Defaults, LiveConfig
      <4>3. x = q.config
        BY <1>2, <3>1, <4>1, <4>2
      <4> QED BY <1>3, <4>3 DEF ConfigRows
    <3>3. CASE ~q.flip
      <4>1. /\ LiveConfig(k) /\ configs[k].purpose = q.purpose /\ configs[k].isDefault
        BY <1>1, <1>2, <1>3, <1>4, <1>7, <2>1, <3>3
      <4> QED BY <1>5, <3>1, <4>1 DEF OneDefault, LiveConfig
    <3> QED BY <3>2, <3>3
  <2> SUFFICES ASSUME NEW x \in ConfigRows, NEW y \in ConfigRows,
                      configs'[x].state = "live", configs'[x].isDefault,
                      configs'[y].state = "live", configs'[y].isDefault,
                      configs'[x].purpose = configs'[y].purpose
               PROVE  x = y
    BY DEF OneDefault, LiveConfig
  <2>2. CASE x = k
    BY <1>9, <2>1, <2>2
  <2>3. CASE y = k
    BY <1>9, <2>1, <2>3
  <2>4. CASE x # k /\ y # k
    BY <1>5, <1>8, <2>4 DEF OneDefault, LiveConfig
  <2> QED BY <2>2, <2>3, <2>4
<1> QED BY <1>2, <1>10, <1>11, <1>12, <1>13, CredentialsUntouched

LEMMA ConfigDeleted ==
  ASSUME SecretsInv, NEW c \in Clients, CommitDeleteConfig(c)
  PROVE  SecretsInv'
<1> DEFINE k == credReq[c].config
<1>1. /\ configs' = [configs EXCEPT ![k].state = "deleted"]
      /\ credReq' = [credReq EXCEPT ![c] = idle]
      /\ UNCHANGED <<creds, credServed, proven, byHand, credRaced>>
  BY DEF CommitDeleteConfig, CredEnd
<1> HIDE DEF k
<1>2. configs' \in [ConfigRows -> AiConfigs]
  BY <1>1, ZenonT(60) DEF SecretsInv, CredTypes, AiConfigs
<1>3. \A x \in ConfigRows :
        /\ configs'[x].purpose = configs[x].purpose
        /\ configs'[x].cred = configs[x].cred
        /\ configs'[x].isDefault = configs[x].isDefault
        /\ configs'[x].state = "live" => configs[x].state = "live"
        /\ configs[x].state # "unused" => configs'[x].state # "unused"
  BY <1>1 DEF SecretsInv, CredTypes, AiConfigs
<1>4. OneDefault' /\ ReferencesKept'
  BY <1>1, <1>3 DEF SecretsInv, OneDefault, ReferencesKept, LiveConfig, LiveCred
<1> QED BY <1>1, <1>2, <1>3, <1>4, CredentialsUntouched

LEMMA SecretsRolledBack ==
  ASSUME SecretsInv, NEW c \in Clients, CredRollback(c)
  PROVE  SecretsInv'
<1>1. /\ credReq' = [credReq EXCEPT ![c] = idle]
      /\ UNCHANGED <<creds, configs, credServed, proven, byHand, credRaced>>
  BY DEF CredRollback, CredEnd
<1>2. configs' \in [ConfigRows -> AiConfigs]
  BY <1>1 DEF SecretsInv, CredTypes
<1>3. OneDefault' /\ ReferencesKept'
  BY <1>1 DEF SecretsInv, OneDefault, ReferencesKept, LiveConfig, LiveCred
<1> QED BY <1>1, <1>2, <1>3, CredentialsUntouched

\* A step that ends c's request and changes credential r alone, and not the
\* rows of configurations.
LEMMA OneCredentialChanged ==
  ASSUME SecretsInv, NEW c \in Clients, NEW r \in CredRows,
         credReq' = [credReq EXCEPT ![c] = idle], UNCHANGED <<configs, credServed>>,
         creds' \in [CredRows -> CredentialRows],
         \A x \in CredRows \ {r} : creds'[x] = creds[x],
         proven \subseteq proven', byHand \subseteq byHand', credRaced \subseteq credRaced',
         creds[r].state # "unused" => creds'[r].state # "unused",
         \* what the requests on r rely on
         \A d \in Clients \ {c} :
           Probing(credReq[d]) /\ credReq[d].row = r /\ r \notin credRaced' =>
             /\ creds'[r].secret = creds[r].secret
             /\ r \notin byHand' /\ creds'[r].status = "VERIFIED" =>
                  creds[r].status = "VERIFIED",
         creds'[r].state = "live" /\ creds'[r].status = "VERIFIED"
           /\ r \notin byHand' \cup credRaced' => creds'[r].secret \in proven',
         creds[r].state = "live" =>
           creds'[r].state = "live" \/ \A k \in ConfigRows : LiveConfig(k) => configs[k].cred # r
  PROVE  SecretsInv'
<1>1. \A d \in Clients : credReq'[d] = IF d = c THEN idle ELSE credReq[d]
  BY DEF SecretsInv, CredTypes
<1>2. CredTypes'
  BY DEF SecretsInv, CredTypes, AnyRequest
<1>3. VerifiedIsProven'
  <2> SUFFICES ASSUME NEW x \in CredRows, creds'[x].state = "live",
                      creds'[x].status = "VERIFIED", x \notin byHand' \cup credRaced'
               PROVE  creds'[x].secret \in proven'
    BY DEF VerifiedIsProven, LiveCred
  <2>1. CASE x = r
    BY <2>1
  <2>2. CASE x # r
    BY <2>2 DEF SecretsInv, VerifiedIsProven, LiveCred
  <2> QED BY <2>1, <2>2
<1>4. OneDefault'
  BY DEF SecretsInv, OneDefault, LiveConfig
<1>5. ReferencesKept'
  <2> SUFFICES ASSUME NEW k \in ConfigRows, LiveConfig(k), configs[k].cred # NoCred
               PROVE  creds'[configs[k].cred].state = "live"
    BY DEF ReferencesKept, LiveConfig, LiveCred
  <2>1. configs[k].cred \in CredRows /\ creds[configs[k].cred].state = "live"
    BY DEF SecretsInv, CredTypes, AiConfigs, ReferencesKept, LiveCred
  <2> QED BY <2>1
<1>6. ASSUME NEW d \in Clients
      PROVE  WriteLoaded(credReq[d])' /\ UpsertLoaded(credReq[d])'
  <2>1. CASE d = c
    BY <1>1, <2>1 DEF WriteLoaded, UpsertLoaded, idle
  <2>2. CASE d # c
    <3>1. WriteLoaded(credReq[d]) /\ UpsertLoaded(credReq[d]) /\ credReq[d] \in AnyRequest
      BY DEF SecretsInv, CredTypes
    <3>2. credReq[d].op = "write" => credReq[d].row \in CredRows
      BY <3>1, RequestShapes
    <3>3. credReq'[d] = credReq[d]
      BY <1>1, <2>2
    <3>4. UpsertLoaded(credReq[d])'
      BY <3>1, <3>3 DEF UpsertLoaded
    <3> DEFINE q == credReq[d]
    <3>5. ASSUME q.op = "write" PROVE creds'[q.row].state # "unused"
      BY <3>1, <3>2, <3>5 DEF WriteLoaded
    <3>6. ASSUME Probing(q), q.row \notin credRaced'
          PROVE  /\ creds'[q.row].secret = q.loaded.secret
                 /\ q.row \notin byHand' /\ creds'[q.row].status = "VERIFIED" =>
                      q.loaded.status = "VERIFIED"
      <4>1. /\ creds[q.row].secret = q.loaded.secret
            /\ q.row \notin byHand /\ creds[q.row].status = "VERIFIED" =>
                 q.loaded.status = "VERIFIED"
            /\ q.row \in CredRows
        BY <3>1, <3>2, <3>6 DEF WriteLoaded, Probing
      <4>2. CASE q.row = r
        BY <2>2, <3>6, <4>1, <4>2
      <4>3. CASE q.row # r
        BY <3>6, <4>1, <4>3
      <4> QED BY <4>2, <4>3
    <3>7. WriteLoaded(credReq[d])'
      BY <3>3, <3>5, <3>6 DEF WriteLoaded, Probing
    <3> QED BY <3>4, <3>7
  <2> QED BY <2>1, <2>2
<1> QED BY <1>2, <1>3, <1>4, <1>5, <1>6 DEF SecretsInv

LEMMA SecretCreated ==
  ASSUME SecretsInv, NEW c \in Clients, NEW accepted \in BOOLEAN,
         CommitCreateCredential(c, accepted)
  PROVE  SecretsInv'
<1> DEFINE q == credReq[c]
           new == [state |-> "live", label |-> q.label, secret |-> q.secret,
                   status |-> IF q.probe THEN Marked(accepted) ELSE "CONFIGURED"]
<1>1. q.secret \in Secrets /\ q.probe \in BOOLEAN /\ q.label \in Labels
  BY RequestShapes DEF CommitCreateCredential, SecretsInv, CredTypes
<1>2. PICK r \in CredRows : creds[r].state = "unused" /\ creds' = [creds EXCEPT ![r] = new]
  BY DEF CommitCreateCredential
<1>3. /\ ~q.probe => ~accepted
      /\ proven' = IF accepted THEN proven \cup {q.secret} ELSE proven
      /\ credReq' = [credReq EXCEPT ![c] = idle]
      /\ UNCHANGED <<credServed, configs, byHand, credRaced>>
  BY DEF CommitCreateCredential, CredEnd
<1>4. /\ new \in CredentialRows /\ new.state = "live" /\ new.secret = q.secret
      /\ new.status = "VERIFIED" => accepted
  BY <1>1 DEF CredentialRows, CredentialStatuses, Marked
<1> HIDE DEF q, new
<1>5. /\ creds' \in [CredRows -> CredentialRows] /\ creds'[r] = new
      /\ \A x \in CredRows \ {r} : creds'[x] = creds[x]
  BY <1>2, <1>4 DEF SecretsInv, CredTypes
<1>6. \A d \in Clients : Probing(credReq[d]) => credReq[d].row # r
  BY <1>2 DEF SecretsInv, WriteLoaded, Probing
<1> QED BY <1>2, <1>3, <1>4, <1>5, <1>6, OneCredentialChanged, ZenonT(60)

LEMMA SecretDeleted ==
  ASSUME SecretsInv, NEW c \in Clients, CommitDeleteCredential(c)
  PROVE  SecretsInv'
<1> DEFINE r == credReq[c].row
<1>1. r \in CredRows
  BY RequestShapes DEF CommitDeleteCredential, SecretsInv, CredTypes
<1>2. /\ Users_of(r) = {}
      /\ creds' = [creds EXCEPT ![r].state = "deleted"]
      /\ credReq' = [credReq EXCEPT ![c] = idle]
      /\ UNCHANGED <<credServed, configs, proven, byHand, credRaced>>
  BY DEF CommitDeleteCredential, CredEnd, Unreferenced
<1> HIDE DEF r
<1>3. /\ creds' \in [CredRows -> CredentialRows]
      /\ creds'[r].state = "deleted" /\ creds'[r].secret = creds[r].secret
      /\ creds'[r].status = creds[r].status
      /\ \A x \in CredRows \ {r} : creds'[x] = creds[x]
  BY <1>1, <1>2 DEF SecretsInv, CredTypes, CredentialRows
<1>4. \A k \in ConfigRows : LiveConfig(k) => configs[k].cred # r
  BY <1>2 DEF Users_of
<1> QED BY <1>1, <1>2, <1>3, <1>4, OneCredentialChanged

\* The columns of a row after CommitWrite.
LEMMA RowWritten ==
  ASSUME NEW old \in CredentialRows, NEW label \in Labels \cup {"keep"},
         NEW secret \in Secrets \cup {0}, NEW status \in CredentialStatuses \cup {"keep"}
  PROVE  /\ WrittenRow(old, label, secret, status) \in CredentialRows
         /\ WrittenRow(old, label, secret, status).state = old.state
         /\ WrittenRow(old, label, secret, status).secret =
              IF secret = 0 THEN old.secret ELSE secret
         /\ WrittenRow(old, label, secret, status).status =
              IF status = "keep" THEN old.status ELSE status
BY DEF CredentialRows, WrittenRow

\* A rotation and a verification that do not overlap leave a proven secret or
\* say that it is not.
LEMMA SecretWritten ==
  ASSUME SecretsInv, NEW c \in Clients, NEW accepted \in BOOLEAN, CommitWrite(c, accepted)
  PROVE  SecretsInv'
<1> DEFINE q == credReq[c]
           r == q.row
           tried == IF q.secret # 0 THEN q.secret ELSE q.loaded.secret
           status == WrittenStatus(q, accepted)
<1>1. /\ q.op = "write" /\ r \in CredRows /\ q.label \in Labels \cup {"keep"}
      /\ q.loaded \in CredentialRows /\ q.secret \in Secrets \cup {0}
      /\ q.status \in CredentialStatuses \cup {"keep"} /\ q.probe \in BOOLEAN
  BY RequestShapes DEF CommitWrite, SecretsInv, CredTypes
<1>2. /\ ~q.probe => ~accepted
      /\ creds' = [creds EXCEPT ![r] = WrittenRow(creds[r], q.label, q.secret, status)]
      /\ LiveCred(r)
      /\ proven' = IF accepted THEN proven \cup {tried} ELSE proven
      /\ byHand' = IF q.status = "VERIFIED" THEN byHand \cup {r} ELSE byHand
      /\ credRaced' = IF (q.secret # 0 \/ q.probe) /\ Sensitive(c, r) # {}
                      THEN credRaced \cup {r} ELSE credRaced
      /\ credReq' = [credReq EXCEPT ![c] = idle]
      /\ UNCHANGED <<credServed, configs>>
  BY DEF CommitWrite, CredEnd
<1>3. /\ Probing(q) /\ r \notin credRaced =>
           /\ creds[r].secret = q.loaded.secret
           /\ r \notin byHand /\ creds[r].status = "VERIFIED" => q.loaded.status = "VERIFIED"
      /\ creds[r].status = "VERIFIED" /\ r \notin byHand \cup credRaced =>
           creds[r].secret \in proven
  BY <1>1, <1>2 DEF SecretsInv, WriteLoaded, VerifiedIsProven
<1>4. /\ status \in CredentialStatuses \cup {"keep"}
      \* what a written VERIFIED, and an unwritten status, mean
      /\ status = "VERIFIED" => accepted \/ q.status = "VERIFIED"
      /\ status = "keep" /\ Probing(q) /\ q.loaded.status = "VERIFIED" =>
           accepted \/ q.status = "VERIFIED"
  BY <1>1, <1>2 DEF WrittenStatus, AssignedStatus, Marked, Probing, CredentialRows,
                    CredentialStatuses
<1>5. /\ creds' \in [CredRows -> CredentialRows]
      /\ \A x \in CredRows \ {r} : creds'[x] = creds[x]
      /\ creds'[r].state = "live"
      /\ creds'[r].secret = IF q.secret = 0 THEN creds[r].secret ELSE q.secret
      /\ creds'[r].status = IF status = "keep" THEN creds[r].status ELSE status
  <2> HIDE DEF status
  <2>1. creds[r] \in CredentialRows /\ creds \in [CredRows -> CredentialRows]
    BY <1>1 DEF SecretsInv, CredTypes
  <2> HIDE DEF q, r, tried
  <2>2. creds[r].state = "live"
    BY <1>2 DEF LiveCred
  <2> DEFINE row == WrittenRow(creds[r], q.label, q.secret, status)
  <2>3. creds' = [creds EXCEPT ![r] = WrittenRow(creds[r], q.label, q.secret, status)]
    BY <1>2
  <2>4. creds' = [creds EXCEPT ![r] = row]
    BY <2>3
  <2>5. /\ row \in CredentialRows /\ row.state = "live"
        /\ row.secret = IF q.secret = 0 THEN creds[r].secret ELSE q.secret
        /\ row.status = IF status = "keep" THEN creds[r].status ELSE status
    <3>1. /\ q.label \in Labels \cup {"keep"} /\ q.secret \in Secrets \cup {0}
          /\ status \in CredentialStatuses \cup {"keep"}
      BY <1>1, <1>4
    <3>2. PICK old \in CredentialRows, l \in Labels \cup {"keep"}, n \in Secrets \cup {0},
               st \in CredentialStatuses \cup {"keep"} :
            old = creds[r] /\ l = q.label /\ n = q.secret /\ st = status
      BY <2>1, <3>1
    <3>3. /\ WrittenRow(old, l, n, st) \in CredentialRows
          /\ WrittenRow(old, l, n, st).state = old.state
          /\ WrittenRow(old, l, n, st).secret = IF n = 0 THEN old.secret ELSE n
          /\ WrittenRow(old, l, n, st).status = IF st = "keep" THEN old.status ELSE st
      BY RowWritten
    <3>4. row = WrittenRow(old, l, n, st)
      BY <3>2
    <3> HIDE DEF row
    <3> QED BY <2>2, <3>2, <3>3, <3>4
  <2> HIDE DEF row
  <2>6. /\ creds' \in [CredRows -> CredentialRows] /\ creds'[r] = row
        /\ \A x \in CredRows \ {r} : creds'[x] = creds[x]
    BY <1>1, <2>1, <2>4, <2>5
  <2> QED BY <2>5, <2>6
<1>6. accepted => q.probe
  BY <1>2
<1>7. Probing(q) <=> (q.secret # 0 \/ q.probe)
  BY <1>1 DEF Probing
<1> HIDE DEF status, tried
<1>8. ASSUME creds'[r].status = "VERIFIED", r \notin byHand' \cup credRaced'
      PROVE  creds'[r].secret \in proven'
  <2>1. /\ r \notin byHand \cup credRaced /\ q.status # "VERIFIED"
    BY <1>2, <1>8
  <2>2. CASE accepted
    <3>1. creds[r].secret = q.loaded.secret
      BY <1>3, <1>6, <1>7, <2>1, <2>2
    <3> QED BY <1>2, <1>5, <2>2, <3>1 DEF tried
  <2>3. CASE ~accepted
    <3>1. status = "keep" /\ creds[r].status = "VERIFIED"
      BY <1>4, <1>5, <1>8, <2>1, <2>3
    <3>2. ~Probing(q)
      BY <1>3, <1>4, <2>1, <2>3, <3>1
    <3> QED BY <1>2, <1>3, <1>5, <1>7, <2>1, <2>3, <3>1, <3>2
  <2> QED BY <2>2, <2>3
<1>9. ASSUME NEW d \in Clients \ {c}, Probing(credReq[d]), credReq[d].row = r,
             r \notin credRaced'
      PROVE  /\ creds'[r].secret = creds[r].secret
             /\ r \notin byHand' /\ creds'[r].status = "VERIFIED" => creds[r].status = "VERIFIED"
  <2>1. d \in Sensitive(c, r)
    BY <1>9 DEF Sensitive, Probing
  <2>2. q.secret = 0 /\ ~q.probe
    BY <1>2, <1>9, <2>1
  <2>3. creds'[r].secret = creds[r].secret
    BY <1>5, <2>2
  <2>4. ASSUME r \notin byHand', creds'[r].status = "VERIFIED" PROVE creds[r].status = "VERIFIED"
    <3>1. q.status # "VERIFIED" /\ ~accepted
      BY <1>2, <1>6, <2>2, <2>4
    <3>2. status = "keep"
      BY <1>4, <1>5, <2>4, <3>1
    <3> QED BY <1>5, <2>4, <3>2
  <2> QED BY <2>3, <2>4
<1>10. proven \subseteq proven' /\ byHand \subseteq byHand' /\ credRaced \subseteq credRaced'
  BY <1>2
<1>11. /\ credReq' = [credReq EXCEPT ![c] = idle] /\ UNCHANGED <<configs, credServed>>
       /\ r \in CredRows
  BY <1>1, <1>2
<1>12. \A d \in Clients \ {c} :
         Probing(credReq[d]) /\ credReq[d].row = r /\ r \notin credRaced' =>
           /\ creds'[r].secret = creds[r].secret
           /\ r \notin byHand' /\ creds'[r].status = "VERIFIED" => creds[r].status = "VERIFIED"
  BY <1>9
<1>13. creds'[r].status = "VERIFIED" /\ r \notin byHand' \cup credRaced' =>
         creds'[r].secret \in proven'
  BY <1>8
<1> HIDE DEF q, r
<1> QED BY <1>5, <1>10, <1>11, <1>12, <1>13, OneCredentialChanged

LEMMA SecretsInvStep == SecretsInv /\ [CredentialsNext]_credVars => SecretsInv'
<1> SUFFICES ASSUME SecretsInv, [CredentialsNext]_credVars PROVE SecretsInv'
  OBVIOUS
<1>1. ASSUME NEW c \in Clients, CredRoute(c) PROVE SecretsInv'
  BY <1>1, SecretsBegun
<1>2. ASSUME NEW c \in Clients, CredCommit(c) PROVE SecretsInv'
  <2>1. ASSUME NEW accepted \in BOOLEAN, CommitCreateCredential(c, accepted) PROVE SecretsInv'
    BY <2>1, SecretCreated
  <2>2. ASSUME NEW accepted \in BOOLEAN, CommitWrite(c, accepted) PROVE SecretsInv'
    BY <2>2, SecretWritten
  <2>3. CASE CommitDeleteCredential(c)
    BY <2>3, SecretDeleted
  <2>4. CASE CommitUpsert(c)
    BY <2>4, SecretsUpserted
  <2>5. CASE CommitDeleteConfig(c)
    BY <2>5, ConfigDeleted
  <2>6. CASE CredRollback(c)
    BY <2>6, SecretsRolledBack
  <2> QED BY <1>2, <2>1, <2>2, <2>3, <2>4, <2>5, <2>6 DEF CredCommit
<1>3. CASE UNCHANGED credVars
  BY <1>3 DEF credVars, SecretsInv, CredTypes, WriteLoaded, UpsertLoaded, VerifiedIsProven,
              OneDefault, ReferencesKept, Probing, LiveCred, LiveConfig
<1> QED BY <1>1, <1>2, <1>3 DEF CredentialsNext

\* A credential says VERIFIED of a secret that its provider has accepted,
\* unless somebody wrote the status or a rotation and a verification
\* overlapped: VerifiedIsProven (credentials/service.py).
THEOREM VerifiedSecretsAreProven == CredentialsSpec => []VerifiedIsProven
<1>1. SecretsInv => VerifiedIsProven
  BY DEF SecretsInv
<1> QED BY <1>1, SecretsInvInit, SecretsInvStep, PTL DEF CredentialsSpec


\* Taken one at a time, requests leave one exception: a status that somebody
\* has written (credentials/service.py).
THEOREM SerialVerifiedIsProven ==
  ASSUME \A c, d \in Clients : c = d
  PROVE  CredentialsSpec =>
           [](\A r \in CredRows \ byHand :
                LiveCred(r) /\ creds[r].status = "VERIFIED" => creds[r].secret \in proven)
<1> DEFINE Serial == credRaced = {}
<1>1. CredentialsInit => Serial
  BY DEF CredentialsInit
<1>2. Serial /\ [CredentialsNext]_credVars => Serial'
  <2> SUFFICES ASSUME Serial, [CredentialsNext]_credVars
               PROVE  credRaced' = {}
    OBVIOUS
  <2>1. ASSUME NEW c \in Clients, NEW accepted \in BOOLEAN, CommitWrite(c, accepted)
        PROVE  credRaced' = {}
    <3>1. Sensitive(c, credReq[c].row) = {}
      BY DEF Sensitive
    <3> QED BY <2>1, <3>1 DEF CommitWrite
  <2>2. ASSUME NEW c \in Clients, CredRoute(c)
        PROVE  credRaced' = {}
    BY <2>2 DEF CredRoute, CreateCredential, UpdateCredential, VerifyCredential,
                DeleteCredential, UpsertConfig, DeleteConfig, CredBegin
  <2>3. ASSUME NEW c \in Clients, CredCommit(c)
        PROVE  credRaced' = {}
    BY <2>1, <2>3 DEF CredCommit, CommitCreateCredential, CommitDeleteCredential, CommitUpsert,
                      CommitDeleteConfig, CredRollback
  <2>4. CASE UNCHANGED credVars
    BY <2>4 DEF credVars
  <2> QED BY <2>2, <2>3, <2>4 DEF CredentialsNext
<1>3. VerifiedIsProven /\ Serial =>
        \A r \in CredRows \ byHand :
          LiveCred(r) /\ creds[r].status = "VERIFIED" => creds[r].secret \in proven
  BY DEF VerifiedIsProven
<1> QED BY <1>1, <1>2, <1>3, VerifiedSecretsAreProven, PTL DEF CredentialsSpec

\* No purpose has two default configurations, and no configuration has lost
\* its credential: ConfigsSound (api/v1/ai.py, credentials/service.py).
THEOREM ConfigsAreSound == CredentialsSpec => []ConfigsSound
<1>1. SecretsInv => ConfigsSound
  <2> SUFFICES ASSUME SecretsInv, NEW purpose \in Purposes
               PROVE  Cardinality(Defaults(purpose)) <= 1
    BY DEF ConfigsSound, SecretsInv, ReferencesKept
  <2>1. \A k, l \in Defaults(purpose) : k = l
    BY DEF SecretsInv, OneDefault, Defaults
  <2>2. CASE Defaults(purpose) = {}
    BY <2>2, FS_EmptySet
  <2>3. CASE Defaults(purpose) # {}
    <3>1. PICK k : Defaults(purpose) = {k}
      BY <2>1, <2>3
    <3>2. Cardinality({k}) = 1
      BY FS_Singleton
    <3> QED BY <3>1, <3>2
  <2> QED BY <2>2, <2>3
<1> QED BY <1>1, SecretsInvInit, SecretsInvStep, PTL DEF CredentialsSpec

-----------------------------------------------------------------------------
(***************************************************************************)
(* The types of the histories: a stored secret is one that a request has   *)
(* brought, and only a stored one is tried.                                *)
(***************************************************************************)
StoredSecrets ==
  /\ proven \subseteq Secrets /\ byHand \subseteq CredRows /\ credRaced \subseteq CredRows
  /\ \A r \in CredRows : creds[r].state # "unused" => creds[r].secret \in Secrets
  /\ \A c \in Clients : credReq[c].op = "write" => credReq[c].loaded.secret \in Secrets
  /\ \A c \in Clients : credReq[c].op = "delete" => creds[credReq[c].row].secret \in Secrets

\* A request that begins has loaded a row with a secret.
LEMMA StoredIsLoaded ==
  ASSUME SecretsInv, StoredSecrets, NEW c \in Clients, CredRoute(c)
  PROVE  StoredSecrets'
<1>1. ASSUME NEW q, CredBegin(c, q), q.op = "write" => q.loaded.secret \in Secrets,
             q.op = "delete" => creds[q.row].secret \in Secrets
      PROVE  StoredSecrets'
  BY <1>1 DEF CredBegin, StoredSecrets, SecretsInv, CredTypes
<1>2. ASSUME NEW r \in CredRows, LiveCred(r) PROVE creds[r].secret \in Secrets
  BY <1>2 DEF StoredSecrets, LiveCred
<1>3. ASSUME NEW label \in Labels, NEW probe \in BOOLEAN, CreateCredential(c, label, probe)
      PROVE  StoredSecrets'
  BY <1>1, <1>3 DEF CreateCredential
<1>4. ASSUME NEW r \in CredRows, NEW label \in Labels \cup {"keep"}, NEW rotate \in BOOLEAN,
             NEW status \in CredentialStatuses \cup {"keep"}, NEW probe \in BOOLEAN,
             UpdateCredential(c, r, label, rotate, status, probe)
      PROVE  StoredSecrets'
  BY <1>1, <1>2, <1>4 DEF UpdateCredential
<1>5. ASSUME NEW r \in CredRows, VerifyCredential(c, r) PROVE StoredSecrets'
  BY <1>1, <1>2, <1>5 DEF VerifyCredential
<1>6. ASSUME NEW r \in CredRows, DeleteCredential(c, r) PROVE StoredSecrets'
  BY <1>1, <1>2, <1>6 DEF DeleteCredential
<1>7. ASSUME NEW purpose \in Purposes, NEW vendor \in Vendors, NEW r \in CredRows \cup {NoCred},
             NEW isDefault \in BOOLEAN, UpsertConfig(c, purpose, vendor, r, isDefault)
      PROVE  StoredSecrets'
  <2>1. PICK q : CredBegin(c, q) /\ q.op = "upsert"
    BY <1>7 DEF UpsertConfig
  <2>. QED BY <1>1, <2>1
<1>8. ASSUME NEW k \in ConfigRows, DeleteConfig(c, k) PROVE StoredSecrets'
  BY <1>1, <1>8 DEF DeleteConfig
<1>. QED BY <1>3, <1>4, <1>5, <1>6, <1>7, <1>8 DEF CredRoute

LEMMA StoredIsWritten ==
  ASSUME SecretsInv, StoredSecrets, NEW c \in Clients, CredCommit(c)
  PROVE  StoredSecrets'
<1>. DEFINE q == credReq[c]
<1>1. q \in AnyRequest /\ creds \in [CredRows -> CredentialRows]
      /\ credReq \in [Clients -> AnyRequest]
  BY DEF SecretsInv, CredTypes
<1>2. ASSUME credReq' = [credReq EXCEPT ![c] = idle],
             proven' \subseteq Secrets, byHand' \subseteq CredRows, credRaced' \subseteq CredRows,
             \A r \in CredRows : \/ creds'[r] = creds[r]
                                \/ creds'[r].secret \in Secrets
      PROVE  StoredSecrets'
  <2>1. ASSUME NEW d \in Clients, credReq'[d].op = "delete"
        PROVE  creds'[credReq'[d].row].secret \in Secrets
    <3>1. d # c /\ credReq'[d] = credReq[d] /\ credReq[d].row \in CredRows
      BY <1>1, <1>2, <2>1, RequestShapes DEF idle
    <3>. QED BY <1>2, <2>1, <3>1 DEF StoredSecrets
  <2>2. \A d \in Clients : credReq'[d].op = "write" => credReq'[d].loaded.secret \in Secrets
    BY <1>1, <1>2 DEF StoredSecrets, idle
  <2>. QED BY <1>2, <2>1, <2>2 DEF StoredSecrets
<1>3. ASSUME NEW accepted \in BOOLEAN, CommitCreateCredential(c, accepted) PROVE StoredSecrets'
  <2>1. q.secret \in Secrets
    BY <1>1, <1>3, RequestShapes DEF CommitCreateCredential
  <2>. DEFINE new == [state |-> "live", label |-> q.label, secret |-> q.secret,
                      status |-> IF q.probe THEN Marked(accepted) ELSE "CONFIGURED"]
  <2>2. PICK r \in CredRows : creds' = [creds EXCEPT ![r] = new]
    BY <1>3 DEF CommitCreateCredential
  <2>3. \A x \in CredRows : creds'[x] = creds[x] \/ creds'[x].secret \in Secrets
    BY <1>1, <2>1, <2>2
  <2>. QED BY <1>2, <1>3, <2>1, <2>3 DEF CommitCreateCredential, CredEnd, StoredSecrets
<1>4. ASSUME NEW accepted \in BOOLEAN, CommitWrite(c, accepted) PROVE StoredSecrets'
  <2>1. /\ q.op = "write" /\ q.row \in CredRows /\ q.secret \in Secrets \cup {0}
        /\ q.loaded.secret \in Secrets
    BY <1>1, <1>4, RequestShapes DEF CommitWrite, StoredSecrets
  <2>2. (IF q.secret # 0 THEN q.secret ELSE q.loaded.secret) \in Secrets
    BY <2>1
  <2>3. PICK status : creds' = [creds EXCEPT ![q.row] = WrittenRow(@, q.label, q.secret, status)]
    BY <1>4 DEF CommitWrite
  <2>4. LiveCred(q.row)
    BY <1>4 DEF CommitWrite
  <2>5. creds'[q.row].secret \in Secrets
    BY <1>1, <2>1, <2>3, <2>4 DEF WrittenRow, CredentialRows, StoredSecrets, LiveCred
  <2>6. \A x \in CredRows : creds'[x] = creds[x] \/ creds'[x].secret \in Secrets
    BY <1>1, <2>1, <2>3, <2>5
  <2>7. proven' \subseteq Secrets
    BY <1>4, <2>2 DEF CommitWrite, StoredSecrets
  <2>8. byHand' \subseteq CredRows /\ credRaced' \subseteq CredRows
    BY <1>4, <2>1 DEF CommitWrite, StoredSecrets
  <2>. QED BY <1>2, <1>4, <2>6, <2>7, <2>8 DEF CommitWrite, CredEnd
<1>5. CASE CommitDeleteCredential(c)
  <2>1. q.row \in CredRows
    BY <1>1, <1>5, RequestShapes DEF CommitDeleteCredential
  <2>2. creds[q.row].secret \in Secrets
    BY <1>5 DEF CommitDeleteCredential, StoredSecrets
  <2>3. creds' = [creds EXCEPT ![q.row].state = "deleted"]
    BY <1>5 DEF CommitDeleteCredential
  <2>4. \A x \in CredRows : creds'[x] = creds[x] \/ creds'[x].secret \in Secrets
    BY <1>1, <2>1, <2>2, <2>3 DEF CredentialRows
  <2>. QED BY <1>2, <1>5, <2>4 DEF CommitDeleteCredential, CredEnd, StoredSecrets
<1>6. CASE CommitUpsert(c) \/ CommitDeleteConfig(c) \/ CredRollback(c)
  <2>1. UNCHANGED <<creds, proven, byHand, credRaced>> /\ CredEnd(c)
    BY <1>6 DEF CommitUpsert, CommitDeleteConfig, CredRollback
  <2>. QED BY <1>2, <2>1 DEF CredEnd, StoredSecrets
<1>. QED BY <1>3, <1>4, <1>5, <1>6 DEF CredCommit

\* Every variable of the credentials keeps to its type, for every number of
\* requests and of rows (credentials/models.py).
THEOREM CredentialsTyped == CredentialsSpec => []CredentialsTypeOK
<1>1. CredentialsInit => StoredSecrets
  BY DEF CredentialsInit, StoredSecrets, idle
<1>2. SecretsInv /\ StoredSecrets /\ [CredentialsNext]_credVars => StoredSecrets'
  <2>. SUFFICES ASSUME SecretsInv, StoredSecrets, [CredentialsNext]_credVars
                PROVE  StoredSecrets'
    OBVIOUS
  <2>1. CASE UNCHANGED credVars
    BY <2>1 DEF credVars, StoredSecrets
  <2>. QED BY <2>1, StoredIsLoaded, StoredIsWritten DEF CredentialsNext
<1>3. SecretsInv /\ StoredSecrets => CredentialsTypeOK
  BY DEF SecretsInv, CredTypes, AnyRequest, StoredSecrets, CredentialsTypeOK
<1>. QED BY <1>1, <1>2, <1>3, SecretsInvInit, SecretsInvStep, PTL DEF CredentialsSpec
=============================================================================
