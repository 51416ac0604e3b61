----------------------------- MODULE Idempotency -----------------------------
(***************************************************************************)
(* The Idempotency-Key ledger of one endpoint (api/dependencies/           *)
(* idempotency.py), around the creation of a resource: the key is looked   *)
(* up, the resource is created or found, and the key is remembered, in one *)
(* transaction.  POST /opportunities answers a second body for the same    *)
(* campaign, publisher and URL with the row that is there (Finds);         *)
(* credentials and submissions refuse it or create another.                *)
(***************************************************************************)
EXTENDS Requests, Naturals, FiniteSets

CONSTANTS IdemKeys, Bodies,
          Aims, Aim,       \* what a body asks for: campaign, publisher and URL
          Finds,           \* does the service answer with the row that is there?
          MaxResources,    \* bound: rows of resources
          MaxIdemRequests  \* bound: requests begun

Resources == 1..MaxResources
NoKey == "no key"

ASSUME IdempotencyAssumption ==
  /\ MaxResources \in Nat /\ MaxIdemRequests \in Nat
  /\ NoKey \notin IdemKeys
  /\ Aim \in [Bodies -> Aims] /\ Finds \in BOOLEAN

VARIABLES
  ledger,     \* idempotency_keys: what each key was answered with, for which body
  made,       \* the resources: what they are for, and whether they are still there
  idemReq,    \* what each client's request is about to commit
  idemServed, \* requests begun
  answers     \* history: answers given since the retention of their key ended

idemVars == <<ledger, made, idemReq, idemServed, answers>>

\* An entry is old once it is past the retention.
NoEntry == [body |-> "none", resource |-> 0, old |-> FALSE]
Entries == [body : Bodies, resource : Resources, old : BOOLEAN] \cup {NoEntry}
ResourceRows == [state : {"unused", "live", "deleted"}, aim : Aims \cup {"none"}]
Creations ==
  [op : {"create"}, key : IdemKeys \cup {NoKey}, body : Bodies, found : Resources \cup {0}]

IdempotencyTypeOK ==
  /\ ledger \in [IdemKeys -> Entries]
  /\ made \in [Resources -> ResourceRows]
  /\ idemReq \in [Clients -> Creations \cup {idle}]
  /\ idemServed \in 0..MaxIdemRequests
  /\ answers \subseteq [key : IdemKeys \cup {NoKey}, body : Bodies, resource : Resources]

-----------------------------------------------------------------------------
\* IDEMPOTENCY_CONFLICT otherwise
Matches(key, body) == ledger[key].body = body

Answer(key, body, r) ==
  answers' = answers \cup {[key |-> key, body |-> body, resource |-> r]}

\* existing finds the key: the answer is the resource it was answered with
\* before, or 404 when that is gone.
Replay(c, key, body) ==
  /\ idemReq[c] = idle
  /\ idemServed < MaxIdemRequests
  /\ ledger[key] # NoEntry
  /\ Matches(key, body)
  /\ made[ledger[key].resource].state = "live"
  /\ Answer(key, body, ledger[key].resource)
  /\ idemServed' = idemServed + 1
  /\ UNCHANGED <<ledger, made, idemReq>>

\* find_duplicate: the rows that are there for what the body asks for
Duplicates(body) ==
  IF Finds THEN {r \in Resources : made[r].state = "live" /\ made[r].aim = Aim[body]} ELSE {}

\* existing finds nothing, or no key was sent; the service looks for the row.
BeginCreate(c, key, body) ==
  /\ idemReq[c] = idle
  /\ idemServed < MaxIdemRequests
  /\ key \in IdemKeys => ledger[key] = NoEntry
  /\ idemServed' = idemServed + 1
  /\ \E r \in IF Duplicates(body) = {} THEN {0} ELSE Duplicates(body) :
       idemReq' = [idemReq EXCEPT ![c] = [op |-> "create", key |-> key, body |-> body,
                                          found |-> r]]
  /\ UNCHANGED <<ledger, made, answers>>

\* Mutant: without the unique constraint, the later row wins.
KeyUnused_Unchecked(key) == TRUE

\* uq_idempotency_keys_tenant_id_key_endpoint
KeyUnused(key) == ledger[key] = NoEntry

\* The client is answered with r, and remember stores that under its key.
Remember(q, r) ==
  /\ q.key \in IdemKeys => KeyUnused(q.key)
  /\ ledger' = [key \in IdemKeys |->
                  IF key = q.key THEN [body |-> q.body, resource |-> r, old |-> FALSE]
                                 ELSE ledger[key]]
  /\ Answer(q.key, q.body, r)

\* Nothing was found: a row is inserted, which the unique constraint of an
\* opportunity admits once.
CommitCreated(c) ==
  /\ idemReq[c] # idle
  /\ idemReq[c].found = 0
  /\ Duplicates(idemReq[c].body) = {}
  /\ \E r \in Resources :
       /\ made[r].state = "unused" /\ \A x \in Resources : x < r => made[x].state # "unused"
       /\ made' = [made EXCEPT ![r] = [state |-> "live", aim |-> Aim[idemReq[c].body]]]
       /\ Remember(idemReq[c], r)
  /\ idemReq' = [idemReq EXCEPT ![c] = idle]
  /\ UNCHANGED idemServed

\* The answer is the row that was found, though it may be gone by now: the
\* ledger has no foreign key to it.
CommitFound(c) ==
  /\ idemReq[c] # idle
  /\ idemReq[c].found # 0
  /\ Remember(idemReq[c], idemReq[c].found)
  /\ idemReq' = [idemReq EXCEPT ![c] = idle]
  /\ UNCHANGED <<made, idemServed>>

\* The service refuses, a constraint is violated, or the connection is lost.
IdemRollback(c) ==
  /\ idemReq[c] # idle
  /\ idemReq' = [idemReq EXCEPT ![c] = idle]
  /\ UNCHANGED <<ledger, made, idemServed, answers>>

\* The resource is deleted by its own route; the ledger is not told.
DeleteResource(r) ==
  /\ made[r].state = "live"
  /\ made' = [made EXCEPT ![r].state = "deleted"]
  /\ UNCHANGED <<ledger, idemReq, idemServed, answers>>

\* The retention of the keys stored so far ends.
RetentionPasses ==
  /\ ledger' = [key \in IdemKeys |->
                  IF ledger[key] = NoEntry THEN NoEntry ELSE [ledger[key] EXCEPT !.old = TRUE]]
  /\ UNCHANGED <<made, idemReq, idemServed, answers>>

\* purge_older_than: those keys, and no others, are forgotten and may be used
\* anew.
PurgeKeys ==
  /\ ledger' = [key \in IdemKeys |-> IF ledger[key].old THEN NoEntry ELSE ledger[key]]
  /\ answers' = {a \in answers : a.key \in IdemKeys => ~ledger[a.key].old}
  /\ UNCHANGED <<made, idemReq, idemServed>>

-----------------------------------------------------------------------------
IdempotencyInit ==
  /\ ledger = [key \in IdemKeys |-> NoEntry]
  /\ made = [r \in Resources |-> [state |-> "unused", aim |-> "none"]]
  /\ idemReq = [c \in Clients |-> idle]
  /\ idemServed = 0
  /\ answers = {}

IdempotencyNext ==
  \/ \E c \in Clients, key \in IdemKeys, body \in Bodies : Replay(c, key, body)
  \/ \E c \in Clients, key \in IdemKeys \cup {NoKey}, body \in Bodies :
       BeginCreate(c, key, body)
  \/ \E c \in Clients : CommitCreated(c) \/ CommitFound(c) \/ IdemRollback(c)
  \/ \E r \in Resources : DeleteResource(r)
  \/ RetentionPasses
  \/ PurgeKeys

IdempotencySpec == IdempotencyInit /\ [][IdempotencyNext]_idemVars

-----------------------------------------------------------------------------
\* "Replaying the same Idempotency-Key returns the stored response instead of
\* creating a second" resource, and never "an unrelated earlier response":
\* however many requests carry a key at the same time, until its retention ends
\* all its answers are for one body and name one resource, and every answer is
\* a resource for the campaign, publisher and URL that were asked for, made for
\* that body or found (idempotency.py, opportunities/service.py).
OneEffectPerKey ==
  /\ \A a, b \in answers : a.key = b.key /\ a.key \in IdemKeys => a = b
  /\ \A a \in answers : made[a.resource].aim = Aim[a.body]
=============================================================================
