----------------------------- MODULE Credentials -----------------------------
(***************************************************************************)
(* The provider secrets of one workspace and the AI configurations that    *)
(* point at them (credentials/, api/v1/ai.py).                             *)
(*                                                                         *)
(* A request loads its row and writes it later.  A rotation flushes the    *)
(* new secret before it probes, so that the row is locked from then on; a  *)
(* verification reads the secret, waits for the provider and locks nothing *)
(* until it writes.                                                        *)
(***************************************************************************)
EXTENDS Requests, Naturals, FiniteSets

CONSTANTS Labels,          \* a provider with a label
          Purposes, Vendors,
          MaxCredentials, MaxConfigs, \* bounds: rows
          MaxCredRequests  \* bound: requests begun

CredentialStatuses == {"CONFIGURED", "VERIFIED", "INVALID", "DISABLED"}
CredRows == 1..MaxCredentials
ConfigRows == 1..MaxConfigs
Secrets == 1..MaxCredRequests  \* a request that stores a secret brings a new one
NoCred == 0

ASSUME CredentialsAssumption ==
  MaxCredentials \in Nat /\ MaxConfigs \in Nat /\ MaxCredRequests \in Nat

VARIABLES
  creds,      \* credentials
  configs,    \* tenant_ai_configs
  credReq,    \* what each client's request is about to write
  credServed, \* requests begun
  proven,     \* history: secrets that their provider has accepted
  byHand,     \* history: rows whose status somebody has set to VERIFIED
  credRaced   \* history: rows verified or rotated while another request was
              \* about to do either

credVars == <<creds, configs, credReq, credServed, proven, byHand, credRaced>>

CredentialRows ==
  [state : {"unused", "live", "deleted"}, label : Labels \cup {"none"},
   secret : Secrets \cup {0}, status : CredentialStatuses]
AiConfigs ==
  [state : {"unused", "live", "deleted"}, purpose : Purposes \cup {"none"},
   vendor : Vendors \cup {"none"}, cred : CredRows \cup {NoCred}, isDefault : BOOLEAN]

CredRequests ==
       [op : {"create"}, label : Labels, secret : Secrets, probe : BOOLEAN]
  \cup [op : {"write"}, row : CredRows, label : Labels \cup {"keep"},
        loaded : CredentialRows, secret : Secrets \cup {0},
        status : CredentialStatuses \cup {"keep"}, probe : BOOLEAN]
  \cup [op : {"delete"}, row : CredRows]
ConfigRequests ==
       [op : {"upsert"}, purpose : Purposes, vendor : Vendors, config : ConfigRows \cup {0},
        cred : CredRows \cup {NoCred}, repoint : BOOLEAN,
        isDefault : BOOLEAN, flip : BOOLEAN, cleared : SUBSET ConfigRows]
  \cup [op : {"deleteConfig"}, config : ConfigRows]

CredentialsTypeOK ==
  /\ creds \in [CredRows -> CredentialRows]
  /\ configs \in [ConfigRows -> AiConfigs]
  /\ credReq \in [Clients -> CredRequests \cup ConfigRequests \cup {idle}]
  /\ credServed \in 0..MaxCredRequests
  /\ proven \subseteq Secrets
  /\ byHand \subseteq CredRows
  /\ credRaced \subseteq CredRows

LiveCred(r) == creds[r].state = "live"
LiveConfig(k) == configs[k].state = "live"
Labelled(label) == {r \in CredRows : LiveCred(r) /\ creds[r].label = label}

\* uses_credential, and the RESTRICT of the foreign key
Users_of(r) == {k \in ConfigRows : LiveConfig(k) /\ configs[k].cred = r}

\* clear_default_for_purpose reads these.
Defaults(purpose) ==
  {k \in ConfigRows : LiveConfig(k) /\ configs[k].purpose = purpose /\ configs[k].isDefault}

\* get_for_purpose_and_provider
ConfigFor(purpose, vendor) ==
  {k \in ConfigRows : LiveConfig(k) /\ configs[k].purpose = purpose
                                    /\ configs[k].vendor = vendor}

-----------------------------------------------------------------------------
(***************************************************************************)
(* The routes, up to their first write.                                    *)
(***************************************************************************)

CredBegin(c, request) ==
  /\ credReq[c] = idle
  /\ credServed < MaxCredRequests
  /\ credServed' = credServed + 1
  /\ credReq' = [credReq EXCEPT ![c] = request]
  /\ UNCHANGED <<creds, configs, proven, byHand, credRaced>>

\* CREDENTIAL_EXISTS
CreateCredential(c, label, probe) ==
  /\ Labelled(label) = {}
  /\ CredBegin(c, [op |-> "create", label |-> label, secret |-> credServed + 1,
                   probe |-> probe])

\* PATCH: rename, rotate, set a status, and then verify if asked to.
UpdateCredential(c, r, label, rotate, status, probe) ==
  /\ LiveCred(r)
  /\ label # creds[r].label => label = "keep" \/ Labelled(label) = {}
  /\ CredBegin(c, [op |-> "write", row |-> r, loaded |-> creds[r],
                   label |-> IF label = creds[r].label THEN "keep" ELSE label,
                   secret |-> IF rotate THEN credServed + 1 ELSE 0,
                   status |-> status, probe |-> probe])

\* POST /verify: CREDENTIAL_DISABLED otherwise
VerifyCredential(c, r) ==
  /\ LiveCred(r) /\ creds[r].status # "DISABLED"
  /\ CredBegin(c, [op |-> "write", row |-> r, loaded |-> creds[r], label |-> "keep",
                   secret |-> 0, status |-> "keep", probe |-> TRUE])

\* CREDENTIAL_IN_USE
DeleteCredential(c, r) ==
  /\ LiveCred(r)
  /\ Users_of(r) = {}
  /\ CredBegin(c, [op |-> "delete", row |-> r])

\* PUT /ai/configs.  Only a column that differs from the loaded row is written.
UpsertConfig(c, purpose, vendor, r, isDefault) ==
  /\ r # NoCred => LiveCred(r)
  /\ LET found == ConfigFor(purpose, vendor)
         k == IF found = {} THEN 0 ELSE CHOOSE x \in found : TRUE
     IN CredBegin(c, [op |-> "upsert", purpose |-> purpose, vendor |-> vendor, config |-> k,
                      cred |-> r, repoint |-> k = 0 \/ configs[k].cred # r,
                      isDefault |-> isDefault,
                      flip |-> k = 0 \/ isDefault \/ configs[k].isDefault,
                      cleared |-> IF isDefault THEN Defaults(purpose) \ {k} ELSE {}])

DeleteConfig(c, k) ==
  /\ LiveConfig(k)
  /\ CredBegin(c, [op |-> "deleteConfig", config |-> k])

-----------------------------------------------------------------------------
(***************************************************************************)
(* The commits.                                                            *)
(***************************************************************************)

CredEnd(c) == credReq' = [credReq EXCEPT ![c] = idle] /\ UNCHANGED credServed

\* What mark_verification makes of the answer.  A refusal, a timeout and an
\* outage are all failures.
Marked(accepted) == IF accepted THEN "VERIFIED" ELSE "INVALID"

CommitCreateCredential(c, accepted) ==
  LET q == credReq[c] IN
  /\ q.op = "create"
  /\ ~q.probe => ~accepted
  /\ Labelled(q.label) = {}
  /\ \E r \in CredRows :
       /\ creds[r].state = "unused" /\ \A x \in CredRows : x < r => creds[x].state # "unused"
       /\ creds' = [creds EXCEPT
                      ![r] = [state |-> "live", label |-> q.label, secret |-> q.secret,
                              status |-> IF q.probe THEN Marked(accepted) ELSE "CONFIGURED"]]
  /\ proven' = IF accepted THEN proven \cup {q.secret} ELSE proven
  /\ CredEnd(c)
  /\ UNCHANGED <<configs, byHand, credRaced>>

\* Mutant: a rotation leaves the status alone.
AssignedStatus_Kept(q) == IF q.status # "keep" THEN q.status ELSE q.loaded.status

\* The status the request has given the loaded row before it probes: _reseal
\* resets it, then the payload may set it.
AssignedStatus(q) ==
  IF q.status # "keep" THEN q.status
  ELSE IF q.secret # 0 THEN "CONFIGURED" ELSE q.loaded.status

\* The status that is written, or "keep": an assignment that changes nothing
\* writes nothing.
WrittenStatus(q, accepted) ==
  LET before == AssignedStatus(q)
      after == IF q.probe THEN Marked(accepted) ELSE before
  IN IF before = q.loaded.status /\ after = before THEN "keep" ELSE after

\* The row as it is when the changed columns are written.
WrittenRow(row, label, secret, status) ==
  [row EXCEPT !.label = IF label = "keep" THEN @ ELSE label,
              !.secret = IF secret = 0 THEN @ ELSE secret,
              !.status = IF status = "keep" THEN @ ELSE status]

\* Requests on row r that store or probe a secret, other than c's.
Sensitive(c, r) ==
  {d \in Clients \ {c} : credReq[d].op = "write" /\ credReq[d].row = r
                         /\ (credReq[d].secret # 0 \/ credReq[d].probe)}

\* The probe tries the secret just stored, or the one that was loaded.
CommitWrite(c, accepted) ==
  LET q == credReq[c]
      tried == IF q.secret # 0 THEN q.secret ELSE q.loaded.secret
      status == WrittenStatus(q, accepted)
  IN
  /\ q.op = "write"
  /\ ~q.probe => ~accepted
  /\ q.probe => AssignedStatus(q) # "DISABLED"
  /\ LiveCred(q.row)
  /\ q.label # "keep" => Labelled(q.label) = {}
  /\ creds' = [creds EXCEPT ![q.row] = WrittenRow(@, q.label, q.secret, status)]
  /\ proven' = IF accepted THEN proven \cup {tried} ELSE proven
  /\ byHand' = IF q.status = "VERIFIED" THEN byHand \cup {q.row} ELSE byHand
  /\ credRaced' = IF (q.secret # 0 \/ q.probe) /\ Sensitive(c, q.row) # {}
                  THEN credRaced \cup {q.row} ELSE credRaced
  /\ CredEnd(c)
  /\ UNCHANGED configs

\* Mutant: CASCADE or nothing instead of RESTRICT.
Unreferenced_Always(r) == TRUE

\* tenant_ai_configs.credential_id: ON DELETE RESTRICT
Unreferenced(r) == Users_of(r) = {}

CommitDeleteCredential(c) ==
  LET q == credReq[c] IN
  /\ q.op = "delete"
  /\ Unreferenced(q.row)
  /\ creds' = [creds EXCEPT ![q.row].state = "deleted"]
  /\ CredEnd(c)
  /\ UNCHANGED <<configs, proven, byHand, credRaced>>

UpsertedConfig(q, k) ==
  [state |-> "live", purpose |-> q.purpose, vendor |-> q.vendor,
   cred |-> IF q.repoint THEN q.cred ELSE configs[k].cred,
   isDefault |-> IF q.flip THEN q.isDefault ELSE configs[k].isDefault]

\* The rows that were loaded are still there, the new reference is good, and
\* neither unique index is violated.
CommitUpsert(c) ==
  LET q == credReq[c] IN
  /\ q.op = "upsert"
  /\ q.repoint /\ q.cred # NoCred => LiveCred(q.cred)
  /\ \A k \in q.cleared \cup ({q.config} \ {0}) : LiveConfig(k)
  /\ q.isDefault => Defaults(q.purpose) \subseteq q.cleared \cup {q.config}
  /\ \E k \in ConfigRows :
       /\ IF q.config # 0 THEN k = q.config
          ELSE /\ ConfigFor(q.purpose, q.vendor) = {}
               /\ configs[k].state = "unused"
               /\ \A x \in ConfigRows : x < k => configs[x].state # "unused"
       /\ configs' = [x \in ConfigRows |->
                        IF x = k THEN UpsertedConfig(q, k)
                        ELSE IF x \in q.cleared THEN [configs[x] EXCEPT !.isDefault = FALSE]
                        ELSE configs[x]]
  /\ CredEnd(c)
  /\ UNCHANGED <<creds, proven, byHand, credRaced>>

CommitDeleteConfig(c) ==
  LET q == credReq[c] IN
  /\ q.op = "deleteConfig"
  /\ configs' = [configs EXCEPT ![q.config].state = "deleted"]
  /\ CredEnd(c)
  /\ UNCHANGED <<creds, proven, byHand, credRaced>>

\* A key is violated, a row is gone, or the connection is lost.
CredRollback(c) ==
  /\ credReq[c] # idle
  /\ CredEnd(c)
  /\ UNCHANGED <<creds, configs, proven, byHand, credRaced>>

-----------------------------------------------------------------------------
CredentialsInit ==
  /\ creds = [r \in CredRows |-> [state |-> "unused", label |-> "none", secret |-> 0,
                                  status |-> "CONFIGURED"]]
  /\ configs = [k \in ConfigRows |-> [state |-> "unused", purpose |-> "none",
                                      vendor |-> "none", cred |-> NoCred,
                                      isDefault |-> FALSE]]
  /\ credReq = [c \in Clients |-> idle]
  /\ credServed = 0
  /\ proven = {} /\ byHand = {} /\ credRaced = {}

CredRoute(c) ==
  \/ \E label \in Labels, probe \in BOOLEAN : CreateCredential(c, label, probe)
  \/ \E r \in CredRows, label \in Labels \cup {"keep"}, rotate \in BOOLEAN,
        status \in CredentialStatuses \cup {"keep"}, probe \in BOOLEAN :
       UpdateCredential(c, r, label, rotate, status, probe)
  \/ \E r \in CredRows : VerifyCredential(c, r)
  \/ \E r \in CredRows : DeleteCredential(c, r)
  \/ \E purpose \in Purposes, vendor \in Vendors, r \in CredRows \cup {NoCred},
        isDefault \in BOOLEAN : UpsertConfig(c, purpose, vendor, r, isDefault)
  \/ \E k \in ConfigRows : DeleteConfig(c, k)

CredCommit(c) ==
  \/ \E accepted \in BOOLEAN : CommitCreateCredential(c, accepted)
  \/ \E accepted \in BOOLEAN : CommitWrite(c, accepted)
  \/ CommitDeleteCredential(c)
  \/ CommitUpsert(c)
  \/ CommitDeleteConfig(c)
  \/ CredRollback(c)

CredentialsNext == \E c \in Clients : CredRoute(c) \/ CredCommit(c)

CredentialsSpec == CredentialsInit /\ [][CredentialsNext]_credVars

-----------------------------------------------------------------------------
\* "a rotated key is unproven until used or verified": a credential says
\* VERIFIED only if its provider has accepted the very secret that is stored,
\* unless somebody set the status, or a rotation and a verification overlapped.
VerifiedIsProven ==
  \A r \in CredRows :
    LiveCred(r) /\ creds[r].status = "VERIFIED" /\ r \notin byHand \cup credRaced =>
      creds[r].secret \in proven

\* "exactly one default per purpose is enforced", and "deleting a credential
\* that a configuration still points at must fail loudly": no purpose has two
\* defaults, and no configuration has lost its credential.
ConfigsSound ==
  /\ \A purpose \in Purposes : Cardinality(Defaults(purpose)) <= 1
  /\ \A k \in ConfigRows :
       LiveConfig(k) /\ configs[k].cred # NoCred => LiveCred(configs[k].cred)
=============================================================================
