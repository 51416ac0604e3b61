--------------------------- MODULE RefreshSessions ---------------------------
(***************************************************************************)
(* Refresh-token families (auth/service.py, repositories/sessions.py).     *)
(*                                                                         *)
(* A login starts a family; a refresh revokes the token it was shown and   *)
(* issues the next one of the family; a revoked token that is shown again  *)
(* revokes the family; a logout and a password change revoke families too. *)
(* A request reads its row first and commits later, with no lock held in   *)
(* between: after two password hashes, or while another refresh of the     *)
(* same token is under way.  A bulk UPDATE takes the rows that are valid   *)
(* when it starts: it waits for a rotation that is under way, whose        *)
(* successor it does not see, and its request commits later.               *)
(*                                                                         *)
(* delete_expired has no caller, so no row ever leaves the table.          *)
(***************************************************************************)
CONSTANTS Users,
          Families,  \* the logins that may ever happen
          Owner,     \* the user of each family
          Tokens,    \* the rows of refresh_sessions that may ever be inserted
          NoFamily,  \* the family of a row not yet inserted
          Clients    \* the requests under way at a time

ASSUME RefreshSessionsAssumption ==
  /\ Owner \in [Families -> Users]
  /\ NoFamily \notin Families

VARIABLES
  family,   \* refresh_sessions.family_id
  revoked,  \* refresh_sessions.revoked
  expired,  \* the rows whose expires_at has passed
  active,   \* users.is_active
  req,      \* what each client's request has read and is about to commit
  killed,   \* history: families ended by a logout, a replay or a new password
  raced     \* history: families with a write over a row revoked since its read,
            \* or a refresh committed while the row's revocation was under way

vars == <<family, revoked, expired, active, req, killed, raced>>

Issued(t) == family[t] # NoFamily
Started(f) == \E t \in Tokens : family[t] = f
User(t) == Owner[family[t]]
FamiliesOf(u) == {f \in Families : Owner[f] = u}

\* A revocation whose bulk UPDATE has run is "revoking", a password change
\* "replacing"; rows are those that it has taken.
Ops == {"revoke", "revoking", "rotate", "password", "replacing"}
Requests == [op : Ops, token : Tokens, scope : SUBSET Families, rows : SUBSET Tokens]
Idle == [op |-> "idle"]

TypeOK ==
  /\ family \in [Tokens -> Families \cup {NoFamily}]
  /\ revoked \in [Tokens -> BOOLEAN]
  /\ expired \subseteq Tokens
  /\ active \in [Users -> BOOLEAN]
  /\ req \in [Clients -> Requests \cup {Idle}]
  /\ killed \subseteq Families
  /\ raced \subseteq Families
  /\ \A t \in Tokens : ~Issued(t) => ~revoked[t]
  /\ \A c \in Clients : req[c] # Idle => Issued(req[c].token)

Init ==
  /\ family = [t \in Tokens |-> NoFamily]
  /\ revoked = [t \in Tokens |-> FALSE]
  /\ expired = {}
  /\ active = [u \in Users |-> TRUE]
  /\ req = [c \in Clients |-> Idle]
  /\ killed = {}
  /\ raced = {}

-----------------------------------------------------------------------------
(***************************************************************************)
(* What a request reads before it decides.                                 *)
(***************************************************************************)

\* login, _start_session: the first token of a fresh family.
Login(f, t) ==
  /\ active[Owner[f]]
  /\ ~Started(f)
  /\ ~Issued(t)
  /\ family' = [family EXCEPT ![t] = f]
  /\ UNCHANGED <<revoked, expired, active, req, killed, raced>>

Begin(c, op, t, scope) ==
  /\ req[c] = Idle
  /\ req' = [req EXCEPT ![c] = [op |-> op, token |-> t, scope |-> scope, rows |-> {}]]
  /\ UNCHANGED <<family, revoked, expired, active, killed, raced>>

\* refresh of a token that is revoked: a replay.
RefreshReplayed(c, t) ==
  /\ Issued(t)
  /\ revoked[t]
  /\ Begin(c, "revoke", t, {family[t]})

\* refresh for a user who has been deactivated.
RefreshInactive(c, t) ==
  /\ Issued(t)
  /\ ~revoked[t]
  /\ t \notin expired
  /\ ~active[User(t)]
  /\ Begin(c, "revoke", t, {family[t]})

\* refresh of the valid token.
Refresh(c, t) ==
  /\ Issued(t)
  /\ ~revoked[t]
  /\ t \notin expired
  /\ active[User(t)]
  /\ Begin(c, "rotate", t, {})

\* get_principal: an access token is good while its session is not revoked.
Principal(t) == Issued(t) /\ ~revoked[t] /\ active[User(t)]

\* Mutant: logout by refresh token does not compare the users.
Logout_Anyone(c, t, scope) ==
  /\ Principal(t)
  /\ \/ scope = FamiliesOf(User(t))
     \/ \E other \in Tokens : Issued(other) /\ scope = {family[other]}
  /\ Begin(c, "revoke", t, scope)

\* logout and revoke_session: everywhere, or the family of a token, or of a
\* session, of the same user.
Logout(c, t, scope) ==
  /\ Principal(t)
  /\ \/ scope = FamiliesOf(User(t))
     \/ \E other \in Tokens :
          Issued(other) /\ User(other) = User(t) /\ scope = {family[other]}
  /\ Begin(c, "revoke", t, scope)

\* change_password with revoke_other_sessions.
ChangePassword(c, t) ==
  /\ Principal(t)
  /\ Begin(c, "password", t, FamiliesOf(User(t)) \ {family[t]})

-----------------------------------------------------------------------------
(***************************************************************************)
(* What it writes, at its commit.                                          *)
(***************************************************************************)

\* The UPDATE of revoke_family and revoke_all_for_user takes the rows that are
\* not revoked; a password change takes those of the current session as well.
BulkUpdate(c) ==
  /\ req[c].op \in {"revoke", "password"}
  /\ LET taken == IF req[c].op = "password" THEN FamiliesOf(User(req[c].token)) ELSE req[c].scope
     IN req' = [req EXCEPT ![c] =
                  [op |-> IF @.op = "password" THEN "replacing" ELSE "revoking",
                   token |-> @.token,
                   scope |-> {f \in @.scope : Started(f)},
                   rows |-> {t \in Tokens : family[t] \in taken /\ ~revoked[t]}]]
  /\ UNCHANGED <<family, revoked, expired, active, killed, raced>>

Done(c) == req' = [req EXCEPT ![c] = Idle] /\ UNCHANGED <<expired, active>>

\* Mutant: the exception rolls the revocation back.
RevokeFamilies_RolledBack(c) ==
  /\ req[c].op = "revoking"
  /\ killed' = killed \cup req[c].scope
  /\ Done(c)
  /\ UNCHANGED <<family, revoked, raced>>

\* Mutant: an UPDATE of the whole table.
RevokeFamilies_Everything(c) ==
  /\ req[c].op = "revoking"
  /\ revoked' = [t \in Tokens |-> TRUE]
  /\ killed' = killed \cup req[c].scope
  /\ Done(c)
  /\ UNCHANGED <<family, raced>>

\* The commit of a logout, of the replay of a token, or of revoke_session.
RevokeFamilies(c) ==
  /\ req[c].op = "revoking"
  /\ revoked' = [t \in Tokens |-> revoked[t] \/ t \in req[c].rows]
  /\ killed' = killed \cup req[c].scope
  /\ Done(c)
  /\ UNCHANGED <<family, raced>>

\* The row was revoked by somebody else after this request had read it.
Race(t) == raced' = IF revoked[t] THEN raced \cup {family[t]} ELSE raced

\* A bulk UPDATE that has taken the row waits for this request, or the other
\* way round.
Taken(t) == \E d \in Clients : req[d].op \in {"revoking", "replacing"} /\ t \in req[d].rows

\* The end of refresh: the old row is revoked and the next one inserted.
Rotate(c, next) ==
  /\ req[c].op = "rotate"
  /\ ~Issued(next)
  /\ revoked' = [revoked EXCEPT ![req[c].token] = TRUE]
  /\ family' = [family EXCEPT ![next] = family[req[c].token]]
  /\ raced' = IF revoked[req[c].token] \/ Taken(req[c].token)
                THEN raced \cup {family[req[c].token]} ELSE raced
  /\ Done(c)
  /\ UNCHANGED killed

\* Mutant: the whole family of the current session is kept.
KeepCurrent_Family(c) ==
  /\ req[c].op = "replacing"
  /\ LET current == req[c].token
     IN /\ revoked' = [t \in Tokens |->
                         IF family[t] = family[current] THEN FALSE
                         ELSE revoked[t] \/ t \in req[c].rows]
        /\ Race(current)
  /\ killed' = killed \cup req[c].scope
  /\ Done(c)
  /\ UNCHANGED family

\* The end of change_password: everything of the user is revoked, and then the
\* current session is not, whether or not this request had revoked it.
KeepCurrent(c) ==
  /\ req[c].op = "replacing"
  /\ LET current == req[c].token
     IN /\ revoked' = [t \in Tokens |->
                         IF t = current THEN FALSE ELSE revoked[t] \/ t \in req[c].rows]
        /\ Race(current)
  /\ killed' = killed \cup req[c].scope
  /\ Done(c)
  /\ UNCHANGED family

\* The request fails or is lost before its commit.
Abort(c) ==
  /\ req[c] # Idle
  /\ Done(c)
  /\ UNCHANGED <<family, revoked, killed, raced>>

-----------------------------------------------------------------------------

\* Time passes, and an operator deactivates or reactivates a user.
Expire(t) ==
  /\ Issued(t)
  /\ t \notin expired
  /\ expired' = expired \cup {t}
  /\ UNCHANGED <<family, revoked, active, req, killed, raced>>

SetActive(u, value) ==
  /\ active[u] # value
  /\ active' = [active EXCEPT ![u] = value]
  /\ UNCHANGED <<family, revoked, expired, req, killed, raced>>

ClientStep(c) ==
  \/ \E t \in Tokens :
       \/ RefreshReplayed(c, t)
       \/ RefreshInactive(c, t)
       \/ Refresh(c, t)
       \/ \E scope \in SUBSET Families : Logout(c, t, scope)
       \/ ChangePassword(c, t)
       \/ Rotate(c, t)
  \/ BulkUpdate(c)
  \/ RevokeFamilies(c)
  \/ KeepCurrent(c)
  \/ Abort(c)

Next ==
  \/ \E f \in Families, t \in Tokens : Login(f, t)
  \/ \E c \in Clients : ClientStep(c)
  \/ \E t \in Tokens : Expire(t)
  \/ \E u \in Users, value \in BOOLEAN : SetActive(u, value)

Spec == Init /\ [][Next]_vars

-----------------------------------------------------------------------------
(***************************************************************************)
(* Properties.                                                             *)
(***************************************************************************)

Unrevoked(f) == {t \in Tokens : family[t] = f /\ ~revoked[t]}

\* "Exactly one token per family is ever valid" (refresh).
OneValidToken == \A f \in Families : \A t, u \in Unrevoked(f) : t = u

\* Only a request that commits over a row revoked since it was read can give a
\* family a second valid token (refresh, change_password).
OneTokenUnlessRaced ==
  \A f \in Families \ raced : \A t, u \in Unrevoked(f) : t = u

\* A logout, the replay of a token or a new password ends a family for good:
\* the revocation is committed although the replay is answered with an error,
\* and no token of the family is valid again, races aside (revoke_family).
DeadUnlessRaced == \A f \in killed \ raced : Unrevoked(f) = {}

\* A token loses its validity only by a request of its own user, or by one that
\* has shown a token of that user (logout, revoke_session).
OwnSessionsOnly ==
  [][\A t \in Tokens : ~revoked[t] /\ revoked'[t] =>
       \E c \in Clients : /\ req[c] # Idle
                          /\ req'[c] = Idle
                          /\ User(req[c].token) = User(t)]_vars

=============================================================================
