---------------------------- MODULE TenantSessions ----------------------------
(***************************************************************************)
(* Database sessions, the pool of connections they share, and the context  *)
(* by which PostgreSQL confines each to one workspace (db/session.py,      *)
(* db/context.py, the row-level policies of migration 0017).               *)
(*                                                                         *)
(* A session takes a connection with its first statement and returns it at *)
(* the end of its transaction, so that the next transaction of a request   *)
(* may well run on another one.  The context is SET LOCAL: it is gone with *)
(* the transaction, and the session sets it again.                         *)
(***************************************************************************)
EXTENDS Requests, FiniteSets

CONSTANTS TenantIds, UserIds,
          Connections,  \* pool_size and max_overflow
          None

ASSUME TenantSessionsAssumption ==
  None \notin Connections \cup TenantIds \cup UserIds

VARIABLES
  settings, \* app.current_tenant_id and app.current_user_id of each connection
  sess      \* the session of each client

sessVars == <<settings, sess>>

Context == [tenant : TenantIds \cup {None}, user : UserIds \cup {None}]
Unset == [tenant |-> None, user |-> None]

\* TenantAwareSession.  "reapply" is a commit or a rollback that has ended the
\* transaction and has yet to set the context; "broken" is a session whose
\* connection was lost.
Sessions ==
  [phase : {"closed", "open", "reapply", "broken"}, conn : Connections \cup {None},
   context : Context]
ClosedSession == [phase |-> "closed", conn |-> None, context |-> Unset]

TenantSessionsTypeOK ==
  /\ settings \in [Connections -> Context]
  /\ sess \in [Clients -> Sessions]

-----------------------------------------------------------------------------
Free(k) == \A c \in Clients : sess[c].conn # k

\* The connections on which a statement of c may run: the one of its
\* transaction, or else any of the pool.
Available(c) ==
  IF sess[c].conn # None THEN {sess[c].conn} ELSE {k \in Connections : Free(k)}

\* get_unscoped_session, session_scope
OpenSession(c) ==
  /\ sess[c] = ClosedSession
  /\ sess' = [sess EXCEPT ![c].phase = "open"]
  /\ UNCHANGED settings

\* apply_tenant_context: a statement like any other
Apply(c, context, k) ==
  /\ k \in Available(c)
  /\ settings' = [settings EXCEPT ![k] = context]
  /\ sess' = [sess EXCEPT ![c] = [phase |-> "open", conn |-> k, context |-> context]]

\* A repository runs a statement.
RunStatement(c, k) ==
  /\ sess[c].phase = "open"
  /\ k \in Available(c)
  /\ sess' = [sess EXCEPT ![c].conn = k]
  /\ UNCHANGED settings

\* get_tenant_context, create_tenant, login, session_scope of a job
SetTenantContext(c, t, u, k) ==
  /\ sess[c].phase = "open"
  /\ Apply(c, [tenant |-> t, user |-> u], k)

\* get_principal, login, refresh: the workspace stays what it was.
SetUserContext(c, u, k) ==
  /\ sess[c].phase = "open"
  /\ Apply(c, [sess[c].context EXCEPT !.user = u], k)

\* Mutant: set_config without is_local.
AfterTransaction_Kept(k) == settings[k]

\* is_local => true
AfterTransaction(k) == Unset

Returned(c) ==
  [k \in Connections |-> IF k = sess[c].conn THEN AfterTransaction(k) ELSE settings[k]]

\* commit and rollback, up to the end of the transaction
EndTransaction(c) ==
  /\ sess[c].phase \in {"open", "reapply", "broken"}
  /\ settings' = Returned(c)
  /\ sess' = [sess EXCEPT ![c].conn = None,
                          ![c].phase = IF sess[c].context = Unset THEN "open" ELSE "reapply"]

\* commit and rollback, their last statement
Reapply(c, k) ==
  /\ sess[c].phase = "reapply"
  /\ Apply(c, sess[c].context, k)

\* close, after the commit or after the failure of a rollback
CloseSession(c) ==
  /\ sess[c].phase # "closed"
  /\ settings' = Returned(c)
  /\ sess' = [sess EXCEPT ![c] = ClosedSession]

\* The server drops connection k; the pool replaces it.
LoseConnection(k) ==
  /\ settings' = [settings EXCEPT ![k] = Unset]
  /\ sess' = [c \in Clients |->
                IF sess[c].conn = k THEN [sess[c] EXCEPT !.phase = "broken", !.conn = None]
                ELSE sess[c]]

-----------------------------------------------------------------------------
TenantSessionsInit ==
  /\ settings = [k \in Connections |-> Unset]
  /\ sess = [c \in Clients |-> ClosedSession]

SessionStep(c) ==
  \/ OpenSession(c)
  \/ \E k \in Connections :
       \/ RunStatement(c, k)
       \/ \E t \in TenantIds, u \in UserIds \cup {None} : SetTenantContext(c, t, u, k)
       \/ \E u \in UserIds : SetUserContext(c, u, k)
       \/ Reapply(c, k)
  \/ EndTransaction(c)
  \/ CloseSession(c)

TenantSessionsNext ==
  \/ \E c \in Clients : SessionStep(c)
  \/ \E k \in Connections : LoseConnection(k)

TenantSessionsSpec == TenantSessionsInit /\ [][TenantSessionsNext]_sessVars

-----------------------------------------------------------------------------
\* The rows of tenant-owned tables.
TenantOwned ==
  [table : {"tenant_memberships", "other"}, tenant : TenantIds, user : UserIds]

\* tenant_isolation, and the self-read policy of tenant_memberships
Readable(context) ==
  {r \in TenantOwned :
     \/ r.tenant = context.tenant
     \/ r.table = "tenant_memberships" /\ r.user = context.user}
Writable(context) == {r \in TenantOwned : r.tenant = context.tenant}

\* "a tenant-scoped session can never silently continue unscoped": whatever
\* commits, rollbacks and lost connections come in between, a session that may
\* run a statement reaches the rows of the workspace and the user it was bound
\* to and no others, whichever connection it was given.
OnlyOwnRows ==
  \A c \in Clients : \A k \in Available(c) :
    sess[c].phase = "open" =>
      /\ Readable(settings[k]) = Readable(sess[c].context)
      /\ Writable(settings[k]) = Writable(sess[c].context)
=============================================================================
