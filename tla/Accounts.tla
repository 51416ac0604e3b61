------------------------------- MODULE Accounts -------------------------------
(***************************************************************************)
(* The accounts and their passwords (auth/service.py, core/security/).     *)
(*                                                                         *)
(* A login verifies the password it is given against the hash it loads,    *)
(* and writes a new hash of that password when the cost parameters have    *)
(* changed since; a change of the password verifies the old one and writes *)
(* the new one.  Argon2 takes long, and nothing is locked meanwhile.       *)
(***************************************************************************)
EXTENDS Requests, Naturals, FiniteSets

CONSTANTS Emails,
          Passwords,     \* what people type, the unacceptable included
          Weak,          \* what the password policy refuses
          Costs,         \* of the hash, as the settings may say
          MaxAuthRequests \* bound: requests begun

NoPassword == "no password"

ASSUME AccountsAssumption ==
  Weak \subseteq Passwords /\ NoPassword \notin Passwords /\ MaxAuthRequests \in Nat

VARIABLES
  accounts,   \* users, one for each address
  cost,       \* the cost parameters in the settings
  authReq,    \* what each client's request is about to write
  authServed, \* requests begun
  chosen,     \* history: the password that was last chosen for each address
  rehashed    \* history: addresses with a rehash under way as a password changed

authVars == <<accounts, cost, authReq, authServed, chosen, rehashed>>

NoAccount == [password |-> NoPassword, cost |-> CHOOSE x \in Costs : TRUE, active |-> FALSE]
AccountRows ==
  [password : Passwords \cup {NoPassword}, cost : Costs, active : BOOLEAN]
Registered(e) == accounts[e].password # NoPassword

AuthRequests ==
       [op : {"register", "change"}, email : Emails, password : Passwords]
  \cup [op : {"login"}, email : Emails, password : Passwords, rehash : BOOLEAN]

AccountsTypeOK ==
  /\ accounts \in [Emails -> AccountRows]
  /\ cost \in Costs
  /\ authReq \in [Clients -> AuthRequests \cup {idle}]
  /\ authServed \in 0..MaxAuthRequests
  /\ chosen \in [Emails -> Passwords \cup {NoPassword}]
  /\ rehashed \subseteq Emails

-----------------------------------------------------------------------------
AuthBegin(c, request) ==
  /\ authReq[c] = idle
  /\ authServed < MaxAuthRequests
  /\ authServed' = authServed + 1
  /\ authReq' = [authReq EXCEPT ![c] = request]
  /\ UNCHANGED <<accounts, cost, chosen, rehashed>>

\* PasswordPolicy.violations finds nothing; WEAK_PASSWORD otherwise.
Acceptable(p) == p \notin Weak

\* register_user: EMAIL_ALREADY_REGISTERED
RegisterUser(c, e, p) ==
  /\ ~Registered(e)
  /\ Acceptable(p)
  /\ AuthBegin(c, [op |-> "register", email |-> e, password |-> p])

\* Mutant: a hash that is out of date is not compared.
Verify_CurrentOnly(e, p) == Registered(e) /\ (accounts[e].cost = cost => accounts[e].password = p)

\* PasswordHasher.verify
Verify(e, p) == Registered(e) /\ accounts[e].password = p

\* PasswordHasher.needs_rehash
NeedsRehash(e) == accounts[e].cost # cost

\* authenticate; an account that does not verify or is inactive changes nothing
Authenticate(c, e, p) ==
  /\ Verify(e, p)
  /\ accounts[e].active
  /\ AuthBegin(c, [op |-> "login", email |-> e, password |-> p, rehash |-> NeedsRehash(e)])

\* change_password, for somebody who is logged in: PASSWORD_UNCHANGED
ChangePassword(c, e, old, new) ==
  /\ accounts[e].active
  /\ Verify(e, old)
  /\ Acceptable(new)
  /\ ~Verify(e, new)
  /\ AuthBegin(c, [op |-> "change", email |-> e, password |-> new])

-----------------------------------------------------------------------------
AuthEnd(c) == authReq' = [authReq EXCEPT ![c] = idle] /\ UNCHANGED <<authServed, cost>>

Stored(e, p) == [accounts EXCEPT ![e] = [password |-> p, cost |-> cost, active |-> TRUE]]

\* ix_users_email is unique.
CommitRegister(c) ==
  LET q == authReq[c] IN
  /\ q.op = "register"
  /\ ~Registered(q.email)
  /\ accounts' = Stored(q.email, q.password)
  /\ chosen' = [chosen EXCEPT ![q.email] = q.password]
  /\ AuthEnd(c)
  /\ UNCHANGED rehashed

\* The hash is written over whatever the row says by now.
CommitLogin(c) ==
  LET q == authReq[c] IN
  /\ q.op = "login"
  /\ accounts' = IF q.rehash
                   THEN [accounts EXCEPT ![q.email].password = q.password,
                                         ![q.email].cost = cost]
                   ELSE accounts
  /\ AuthEnd(c)
  /\ UNCHANGED <<chosen, rehashed>>

\* Logins that will write the password of e they have verified.
Rehashing(e) ==
  {d \in Clients : authReq[d].op = "login" /\ authReq[d].email = e /\ authReq[d].rehash}

CommitChange(c) ==
  LET q == authReq[c] IN
  /\ q.op = "change"
  /\ accounts' = [accounts EXCEPT ![q.email].password = q.password, ![q.email].cost = cost]
  /\ chosen' = [chosen EXCEPT ![q.email] = q.password]
  /\ rehashed' = IF Rehashing(q.email) = {} THEN rehashed ELSE rehashed \cup {q.email}
  /\ AuthEnd(c)

\* A key is violated, or the connection is lost.
AuthRollback(c) ==
  /\ authReq[c] # idle
  /\ AuthEnd(c)
  /\ UNCHANGED <<accounts, chosen, rehashed>>

\* A process is started with other settings.
ConfigureCost(x) ==
  /\ x # cost
  /\ \A c \in Clients : authReq[c] = idle
  /\ cost' = x
  /\ UNCHANGED <<accounts, authReq, authServed, chosen, rehashed>>

\* No route writes is_active: an operator does.
SetUserActive(e, value) ==
  /\ Registered(e) /\ accounts[e].active # value
  /\ accounts' = [accounts EXCEPT ![e].active = value]
  /\ UNCHANGED <<cost, authReq, authServed, chosen, rehashed>>

-----------------------------------------------------------------------------
AccountsInit ==
  /\ accounts = [e \in Emails |-> NoAccount]
  /\ cost \in Costs
  /\ authReq = [c \in Clients |-> idle]
  /\ authServed = 0
  /\ chosen = [e \in Emails |-> NoPassword]
  /\ rehashed = {}

AuthRoute(c, e) ==
  \/ \E p \in Passwords : RegisterUser(c, e, p)
  \/ \E p \in Passwords : Authenticate(c, e, p)
  \/ \E old, new \in Passwords : ChangePassword(c, e, old, new)

AuthCommit(c) ==
  \/ CommitRegister(c)
  \/ CommitLogin(c)
  \/ CommitChange(c)
  \/ AuthRollback(c)

AccountsNext ==
  \/ \E c \in Clients, e \in Emails : AuthRoute(c, e)
  \/ \E c \in Clients : AuthCommit(c)
  \/ \E x \in Costs : ConfigureCost(x)
  \/ \E e \in Emails, value \in BOOLEAN : SetUserActive(e, value)

AccountsSpec == AccountsInit /\ [][AccountsNext]_authVars

-----------------------------------------------------------------------------
\* The password that opens an account is the one its owner chose last, whatever
\* is rehashed at a login ("transparent upgrade"), unless the rehashing login
\* was still under way as the password changed: it brings the old one back.
PasswordStands == \A e \in Emails \ rehashed : accounts[e].password = chosen[e]
=============================================================================
