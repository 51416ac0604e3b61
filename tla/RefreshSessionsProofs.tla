------------------------ MODULE RefreshSessionsProofs ------------------------
(***************************************************************************)
(* What TLAPS proves of RefreshSessions, for every number of users,        *)
(* families, tokens and, but for the last theorem, clients.                *)
(***************************************************************************)
EXTENDS RefreshSessions, TLAPS

-----------------------------------------------------------------------------
(***************************************************************************)
(* Types, and what a request under way may hold.                           *)
(***************************************************************************)

\* The families and rows a request is about to revoke are those of the user
\* whose token it has shown; a password change spares the family of that token.
Shape(q) ==
  /\ q.op # "rotate" => q.scope \subseteq FamiliesOf(User(q.token))
  /\ q.op \in {"password", "replacing"} => family[q.token] \notin q.scope
  /\ \A t \in q.rows : Issued(t) /\ User(t) = User(q.token)

RequestShape == \A c \in Clients : req[c] # Idle => Shape(req[c])

TypeInv == TypeOK /\ RequestShape

LEMMA PendingIsARequest ==
  ASSUME TypeOK, NEW c \in Clients, req[c].op # "idle"
  PROVE  /\ req[c] \in Requests
         /\ req[c] # Idle
         /\ req[c].token \in Tokens
         /\ Issued(req[c].token)
         /\ family[req[c].token] \in Families
BY DEF TypeOK, Requests, Idle, Issued

\* The users of the rows that were there do not change.
LEMMA ShapeKept ==
  ASSUME TypeInv, \A t \in Tokens : Issued(t) => family'[t] = family[t],
         NEW c \in Clients, req[c] # Idle
  PROVE  /\ family'[req[c].token] = family[req[c].token]
         /\ FamiliesOf(Owner[family'[req[c].token]]) = FamiliesOf(User(req[c].token))
         /\ \A t \in req[c].rows : /\ t \in Tokens /\ family'[t] = family[t]
                                   /\ family[t] # NoFamily
BY DEF TypeInv, TypeOK, Requests, RequestShape, Shape, Issued, User

\* Once a request has read its row, what it holds does not change.
LEMMA BeginStep ==
  ASSUME TypeInv, NEW c \in Clients, NEW op \in Ops, NEW t \in Tokens,
         NEW scope \in SUBSET Families, Issued(t), Begin(c, op, t, scope),
         op # "rotate" => scope \subseteq FamiliesOf(User(t)),
         op \in {"password", "replacing"} => family[t] \notin scope
  PROVE  TypeInv'
<1>1. req' \in [Clients -> Requests \cup {Idle}]
  BY DEF TypeInv, TypeOK, Begin, Requests
<1>2. \A d \in Clients : req'[d] = IF d = c
                           THEN [op |-> op, token |-> t, scope |-> scope, rows |-> {}]
                           ELSE req[d]
  BY DEF TypeInv, TypeOK, Begin
<1>3. TypeOK'
  BY <1>1, <1>2 DEF TypeInv, TypeOK, Begin, Issued
<1>4. RequestShape'
  BY <1>2 DEF TypeInv, RequestShape, Shape, Begin, FamiliesOf, User, Issued
<1> QED
  BY <1>3, <1>4 DEF TypeInv

\* A bulk UPDATE takes rows of the user, and never more families than it was
\* asked for.
LEMMA BulkStep ==
  ASSUME TypeInv, NEW c \in Clients, BulkUpdate(c)
  PROVE  TypeInv'
<1>1. PICK q \in Requests : q = req[c] /\ q.op \in {"revoke", "password"} /\ req[c] # Idle
  BY DEF TypeInv, TypeOK, BulkUpdate, Idle
<1>2. q.token \in Tokens /\ Issued(q.token) /\ q.scope \subseteq Families /\ Shape(q)
  BY <1>1 DEF TypeInv, TypeOK, RequestShape, Requests
<1>3. PICK new : /\ req' = [req EXCEPT ![c] = new]
                 /\ new \in Requests /\ new.token = q.token /\ new.scope \subseteq q.scope
                 /\ new.op = IF q.op = "password" THEN "replacing" ELSE "revoking"
                 /\ \A t \in new.rows :
                      t \in Tokens /\ family[t] \in FamiliesOf(User(q.token))
  <2> DEFINE taken == IF q.op = "password" THEN FamiliesOf(User(q.token)) ELSE q.scope
             new == [op |-> IF q.op = "password" THEN "replacing" ELSE "revoking",
                     token |-> q.token, scope |-> {f \in q.scope : Started(f)},
                     rows |-> {t \in Tokens : family[t] \in taken /\ ~revoked[t]}]
  <2>1. req' = [req EXCEPT ![c] = new]
    BY <1>1 DEF BulkUpdate
  <2>2. new \in Requests
    BY <1>2 DEF Requests, Ops
  <2>3. taken \subseteq FamiliesOf(User(q.token))
    BY <1>1, <1>2 DEF Shape
  <2>4. \A t \in new.rows : t \in Tokens /\ family[t] \in FamiliesOf(User(q.token))
    <3> HIDE DEF taken
    <3> QED BY <2>3
  <2>5. /\ new.token = q.token /\ new.scope \subseteq q.scope
        /\ new.op = IF q.op = "password" THEN "replacing" ELSE "revoking"
    OBVIOUS
  <2> HIDE DEF new
  <2> QED BY <2>1, <2>2, <2>4, <2>5
<1>4. UNCHANGED <<family, revoked, expired, active, killed, raced>>
  BY DEF BulkUpdate
<1>5. \A d \in Clients : req'[d] = IF d = c THEN new ELSE req[d]
  BY <1>3 DEF TypeInv, TypeOK
<1>6. TypeOK'
  BY <1>2, <1>3, <1>4, <1>5 DEF TypeInv, TypeOK, Issued
<1>7. Shape(new)
  <2>1. \A t \in new.rows : Issued(t) /\ User(t) = User(q.token)
    BY <1>3, RefreshSessionsAssumption DEF FamiliesOf, Issued, User
  <2> QED BY <1>1, <1>2, <1>3, <2>1 DEF Shape
<1>8. RequestShape'
  BY <1>4, <1>5, <1>7 DEF TypeInv, RequestShape, Shape, FamiliesOf, User, Issued
<1> QED
  BY <1>6, <1>8 DEF TypeInv

\* The end of a request that leaves every issued row in its family.
LEMMA DoneStep ==
  ASSUME TypeInv, NEW c \in Clients, Done(c),
         family' \in [Tokens -> Families \cup {NoFamily}],
         revoked' \in [Tokens -> BOOLEAN],
         \A t \in Tokens : Issued(t) => family'[t] = family[t],
         \A t \in Tokens : ~Issued(t)' => ~revoked'[t],
         killed' \subseteq Families,
         raced' \subseteq Families
  PROVE  TypeInv'
<1>1. req' \in [Clients -> Requests \cup {Idle}]
  BY DEF TypeInv, TypeOK, Done
<1>2. \A d \in Clients : req'[d] = IF d = c THEN Idle ELSE req[d]
  BY DEF TypeInv, TypeOK, Done
<1>3. \A d \in Clients : req'[d] # Idle =>
        /\ req'[d] = req[d]
        /\ req[d].token \in Tokens
        /\ Issued(req[d].token)
        /\ family'[req[d].token] = family[req[d].token]
  BY <1>2 DEF TypeInv, TypeOK, Requests
<1>4. \A d \in Clients : req'[d] # Idle => Issued(req[d].token)'
  BY <1>3, RefreshSessionsAssumption DEF Issued
<1>5. TypeOK'
  BY <1>1, <1>4 DEF TypeInv, TypeOK, Done
<1>6. RequestShape'
  <2> SUFFICES ASSUME NEW d \in Clients, req'[d] # Idle
               PROVE  Shape(req[d])'
    BY DEF RequestShape
  <2>1. req'[d] = req[d] /\ req[d] # Idle /\ Shape(req[d])
    BY <1>3 DEF TypeInv, RequestShape
  <2>2. /\ family'[req[d].token] = family[req[d].token]
        /\ FamiliesOf(Owner[family'[req[d].token]]) = FamiliesOf(User(req[d].token))
        /\ \A t \in req[d].rows : family'[t] = family[t] /\ family[t] # NoFamily
    BY <2>1, ShapeKept
  <2> QED BY <2>1, <2>2 DEF Shape, FamiliesOf, Issued, User
<1> QED
  BY <1>5, <1>6 DEF TypeInv

LEMMA TypeInvStep == TypeInv /\ [Next]_vars => TypeInv'
<1> SUFFICES ASSUME TypeInv, [Next]_vars
             PROVE  TypeInv'
  OBVIOUS
<1>0. TypeOK
  BY DEF TypeInv
<1>1. ASSUME NEW f \in Families, NEW t \in Tokens, Login(f, t)
      PROVE  TypeInv'
  <2>1. \A u \in Tokens : Issued(u) => u # t /\ family'[u] = family[u]
    BY <1>0, <1>1 DEF Login, TypeOK, Issued
  <2>2. \A c \in Clients : req[c] # Idle => /\ req[c].token \in Tokens
                                            /\ family'[req[c].token] = family[req[c].token]
    BY <1>0, <2>1 DEF TypeOK, Requests
  <2>3. TypeOK'
    BY <1>0, <1>1, <2>2 DEF TypeOK, Login, Issued
  <2>4. ASSUME NEW c \in Clients, req[c] # Idle
        PROVE  Shape(req[c])'
    <3>1. /\ family'[req[c].token] = family[req[c].token]
          /\ FamiliesOf(Owner[family'[req[c].token]]) = FamiliesOf(User(req[c].token))
          /\ \A u \in req[c].rows : family'[u] = family[u] /\ family[u] # NoFamily
      BY <2>1, <2>4, ShapeKept
    <3>2. Shape(req[c]) /\ req' = req
      BY <1>1, <2>4 DEF TypeInv, RequestShape, Login
    <3> QED BY <3>1, <3>2 DEF Shape, FamiliesOf, Issued, User
  <2>5. RequestShape'
    BY <1>1, <2>4 DEF RequestShape, Login
  <2> QED
    BY <2>3, <2>5 DEF TypeInv
<1>2. ASSUME NEW c \in Clients, NEW t \in Tokens,
             RefreshReplayed(c, t) \/ RefreshInactive(c, t)
      PROVE  TypeInv'
  <2>1. Issued(t) /\ family[t] \in Families /\ Begin(c, "revoke", t, {family[t]})
    BY <1>0, <1>2 DEF RefreshReplayed, RefreshInactive, Issued, TypeOK
  <2> QED
    BY <2>1, BeginStep DEF Ops, FamiliesOf, User
<1>3. ASSUME NEW c \in Clients, NEW t \in Tokens, Refresh(c, t)
      PROVE  TypeInv'
  BY <1>3, BeginStep DEF Refresh, Ops
<1>4. ASSUME NEW c \in Clients, NEW t \in Tokens, NEW scope \in SUBSET Families,
             Logout(c, t, scope)
      PROVE  TypeInv'
  <2>1. scope \subseteq FamiliesOf(User(t))
    BY <1>0, <1>4 DEF Logout, FamiliesOf, User, TypeOK, Issued
  <2> QED
    BY <1>4, <2>1, BeginStep DEF Logout, Principal, Ops
<1>5. ASSUME NEW c \in Clients, NEW t \in Tokens, ChangePassword(c, t)
      PROVE  TypeInv'
  BY <1>5, BeginStep DEF ChangePassword, Principal, Ops, FamiliesOf
<1>6. ASSUME NEW c \in Clients, NEW t \in Tokens, Rotate(c, t)
      PROVE  TypeInv'
  <2>1. /\ req[c].token \in Tokens
        /\ Issued(req[c].token)
        /\ family[req[c].token] \in Families
    BY <1>0, <1>6, PendingIsARequest DEF Rotate
  <2> QED
    BY <1>0, <1>6, <2>1, DoneStep DEF Rotate, TypeOK, Race, Issued
<1>7. ASSUME NEW c \in Clients, RevokeFamilies(c)
      PROVE  TypeInv'
  <2>1. req[c].scope \subseteq Families
    BY <1>0, <1>7, PendingIsARequest DEF RevokeFamilies, Requests
  <2>2. \A t \in req[c].rows : Issued(t)
    BY <1>0, <1>7, PendingIsARequest DEF RevokeFamilies, TypeInv, RequestShape, Shape
  <2> QED
    BY <1>0, <1>7, <2>1, <2>2, DoneStep DEF RevokeFamilies, TypeOK, Issued
<1>8. ASSUME NEW c \in Clients, KeepCurrent(c)
      PROVE  TypeInv'
  <2>1. /\ req[c].scope \subseteq Families
        /\ req[c].token \in Tokens
        /\ family[req[c].token] \in Families
    BY <1>0, <1>8, PendingIsARequest DEF KeepCurrent, Requests
  <2>2. \A t \in req[c].rows : Issued(t)
    BY <1>0, <1>8, PendingIsARequest DEF KeepCurrent, TypeInv, RequestShape, Shape
  <2> QED
    BY <1>0, <1>8, <2>1, <2>2, DoneStep DEF KeepCurrent, TypeOK, Issued, Race
<1>9. ASSUME NEW c \in Clients, Abort(c)
      PROVE  TypeInv'
  BY <1>0, <1>9, DoneStep DEF Abort, TypeOK, Issued
<1>10. ASSUME NEW t \in Tokens, Expire(t)
       PROVE  TypeInv'
  BY <1>10 DEF Expire, TypeInv, TypeOK, RequestShape, Shape, Issued, FamiliesOf, User
<1>11. ASSUME NEW u \in Users, NEW value \in BOOLEAN, SetActive(u, value)
       PROVE  TypeInv'
  BY <1>11 DEF SetActive, TypeInv, TypeOK, RequestShape, Shape, Issued, FamiliesOf, User
<1>12. CASE UNCHANGED vars
  BY <1>12 DEF vars, TypeInv, TypeOK, RequestShape, Shape, Issued, FamiliesOf, User
<1>13. ASSUME NEW c \in Clients, BulkUpdate(c)
       PROVE  TypeInv'
  BY <1>13, BulkStep
<1> QED
  BY <1>1, <1>2, <1>3, <1>4, <1>5, <1>6, <1>7, <1>8, <1>9, <1>10, <1>11, <1>12, <1>13
     DEF Next, ClientStep

LEMMA TypeInvInit == Init => TypeInv
BY DEF Init, TypeInv, TypeOK, RequestShape, Issued, Idle

\* Every state of the sessions table and of the requests under way is typed: no
\* request holds a row that does not exist, no row is revoked before its login.
THEOREM TypeCorrect == Spec => []TypeOK
<1>1. TypeInv => TypeOK
  BY DEF TypeInv
<1> QED
  BY TypeInvInit, TypeInvStep, <1>1, PTL DEF Spec

-----------------------------------------------------------------------------
(***************************************************************************)
(* Families.  The two safety invariants are inductive together: the token  *)
(* a refresh or a password change works on is, unless the family is raced, *)
(* still its only valid token at the commit, and what a bulk UPDATE has    *)
(* taken is still all that is valid of the families it is about to end.    *)
(***************************************************************************)

Sweeping(c) == req[c].op \in {"revoking", "replacing"}

Covered ==
  \A c \in Clients : Sweeping(c) =>
    \A f \in req[c].scope : Started(f) /\ (f \in raced \/ Unrevoked(f) \subseteq req[c].rows)

FamilyInv ==
  /\ OneTokenUnlessRaced
  /\ DeadUnlessRaced
  /\ \A f \in killed : Started(f)
  /\ Covered

\* A step that adds no valid token to a family that is not raced.
LEMMA FewerTokens ==
  ASSUME FamilyInv,
         \A f \in Families \ raced' : f \in Families \ raced /\ Unrevoked(f)' \subseteq Unrevoked(f),
         \A f \in killed' \ raced' : f \in killed \/ Unrevoked(f)' = {},
         raced \subseteq raced',
         killed' \subseteq Families,
         \A f \in killed' : Started(f)',
         TypeInv, family' = family, NEW c \in Clients, Done(c)
  PROVE  FamilyInv'
<1>1. OneTokenUnlessRaced'
  BY DEF FamilyInv, OneTokenUnlessRaced
<1>2. DeadUnlessRaced'
  BY DEF FamilyInv, DeadUnlessRaced
<1>3. ASSUME NEW d \in Clients, Sweeping(d)'
      PROVE  req'[d] = req[d] /\ Sweeping(d) /\ req[d].scope \subseteq Families
  <2>1. req'[d] = IF d = c THEN Idle ELSE req[d]
    BY DEF Done, TypeInv, TypeOK
  <2>2. req'[d] = req[d] /\ Sweeping(d)
    BY <1>3, <2>1 DEF Sweeping, Idle
  <2>3. req[d].scope \subseteq Families
    BY <2>2, PendingIsARequest DEF Sweeping, Requests, TypeInv
  <2> QED BY <2>2, <2>3
<1>4. Covered'
  BY <1>3 DEF FamilyInv, Covered, Started
<1> QED
  BY <1>1, <1>2, <1>4 DEF FamilyInv

\* A request that begins or ends leaves what the others have taken.
LEMMA CoveredKept ==
  ASSUME TypeInv, FamilyInv, NEW c \in Clients, UNCHANGED <<family, revoked, killed, raced>>,
         \A d \in Clients \ {c} : req'[d] = req[d], ~Sweeping(c)'
  PROVE  FamilyInv'
<1>1. \A d \in Clients : Sweeping(d)' => d # c /\ req'[d] = req[d] /\ Sweeping(d)
  BY DEF Sweeping
<1>2. Covered'
  BY <1>1 DEF FamilyInv, Covered, Started, Unrevoked
<1> QED
  BY <1>2 DEF FamilyInv, OneTokenUnlessRaced, DeadUnlessRaced, Unrevoked, Started

LEMMA RotateStep ==
  ASSUME TypeInv, FamilyInv, NEW c \in Clients, NEW next \in Tokens, Rotate(c, next)
  PROVE  FamilyInv'
<1>0. TypeOK
  BY DEF TypeInv
<1>1. PICK t \in Tokens : t = req[c].token /\ Issued(t) /\ family[t] \in Families
  BY <1>0, PendingIsARequest DEF Rotate
<1>2. next # t
  BY <1>1 DEF Rotate
<1>3. /\ revoked' = [revoked EXCEPT ![t] = TRUE]
      /\ family' = [family EXCEPT ![next] = family[t]]
      /\ killed' = killed
      /\ raced' = IF revoked[t] \/ Taken(t) THEN raced \cup {family[t]} ELSE raced
      /\ ~Issued(next)
      /\ req' = [req EXCEPT ![c] = Idle]
  BY <1>1 DEF Rotate, Done
<1>4. \A g \in Families : g # family[t] => Unrevoked(g)' \subseteq Unrevoked(g)
  BY <1>0, <1>1, <1>2, <1>3 DEF Unrevoked, TypeOK
<1>5. family[t] \notin raced' => t \in Unrevoked(family[t])
  BY <1>1, <1>3 DEF Unrevoked
<1>6. family[t] \notin raced' => Unrevoked(family[t])' \subseteq {next}
  BY <1>0, <1>1, <1>2, <1>3, <1>5 DEF Unrevoked, TypeOK, FamilyInv, OneTokenUnlessRaced
<1>7. \A g \in Families : Started(g) => Started(g)'
  BY <1>0, <1>1, <1>3, RefreshSessionsAssumption DEF Started, TypeOK, Issued
<1>8. OneTokenUnlessRaced'
  BY <1>3, <1>4, <1>6 DEF FamilyInv, OneTokenUnlessRaced
<1>9. killed \subseteq Families /\ raced \subseteq raced'
  BY <1>0, <1>3 DEF TypeOK
<1>10. DeadUnlessRaced'
  BY <1>3, <1>4, <1>5, <1>9 DEF FamilyInv, DeadUnlessRaced
<1>11. ASSUME NEW d \in Clients, Sweeping(d)', NEW f \in req'[d].scope
       PROVE  Started(f)' /\ (f \in raced' \/ Unrevoked(f)' \subseteq req'[d].rows)
  <2>1. req'[d] = IF d = c THEN Idle ELSE req[d]
    BY <1>0, <1>3 DEF TypeOK
  <2>2. req'[d] = req[d] /\ Sweeping(d)
    BY <1>11, <2>1 DEF Sweeping, Idle
  <2>3. f \in Families
    BY <1>0, <1>11, <2>2, PendingIsARequest DEF Sweeping, Requests
  <2>4. Started(f) /\ (f \in raced \/ Unrevoked(f) \subseteq req[d].rows)
    BY <1>11, <2>2 DEF FamilyInv, Covered
  <2>5. CASE f # family[t]
    BY <1>4, <1>7, <1>9, <2>2, <2>3, <2>4, <2>5
  <2>6. CASE f = family[t]
    <3>1. t \in req[d].rows => Taken(t)
      BY <2>2 DEF Sweeping, Taken
    <3>2. f \in raced'
      BY <1>3, <1>5, <1>9, <2>4, <2>6, <3>1
    <3> QED BY <1>7, <2>3, <2>4, <3>2
  <2> QED BY <2>5, <2>6
<1>12. Covered'
  BY <1>11 DEF Covered
<1> QED
  BY <1>3, <1>7, <1>8, <1>9, <1>10, <1>12 DEF FamilyInv

LEMMA FamilyInvStep == TypeInv /\ FamilyInv /\ [Next]_vars => FamilyInv'
<1> SUFFICES ASSUME TypeInv, FamilyInv, [Next]_vars
             PROVE  FamilyInv'
  OBVIOUS
<1>0. TypeOK
  BY DEF TypeInv
<1>1. ASSUME NEW f \in Families, NEW t \in Tokens, Login(f, t)
      PROVE  FamilyInv'
  <2>1. f \notin killed
    BY <1>1 DEF Login, FamilyInv
  <2>2. \A g \in Families : g # f => Unrevoked(g)' = Unrevoked(g)
    BY <1>0, <1>1, RefreshSessionsAssumption DEF Login, Unrevoked, TypeOK, Issued
  <2>3. Unrevoked(f)' \subseteq {t}
    BY <1>0, <1>1 DEF Login, Unrevoked, TypeOK, Started
  <2>4. \A g \in Families : Started(g) => Started(g)'
    BY <1>0, <1>1, RefreshSessionsAssumption DEF Login, Started, TypeOK, Issued
  <2>5. raced' = raced /\ killed' = killed /\ req' = req /\ killed \subseteq Families
    BY <1>0, <1>1 DEF Login, TypeOK
  <2>6. OneTokenUnlessRaced'
    BY <2>2, <2>3, <2>5 DEF FamilyInv, OneTokenUnlessRaced
  <2>7. DeadUnlessRaced'
    BY <2>1, <2>2, <2>5 DEF FamilyInv, DeadUnlessRaced
  <2>8. ASSUME NEW d \in Clients, Sweeping(d)', NEW g \in req'[d].scope
        PROVE  Started(g)' /\ (g \in raced' \/ Unrevoked(g)' \subseteq req'[d].rows)
    <3>1. Sweeping(d) /\ g \in req[d].scope
      BY <2>5, <2>8 DEF Sweeping
    <3>2. g \in Families
      BY <1>0, <3>1, PendingIsARequest DEF Sweeping, Requests
    <3>3. Started(g) /\ (g \in raced \/ Unrevoked(g) \subseteq req[d].rows)
      BY <3>1 DEF FamilyInv, Covered
    <3>4. g # f
      BY <1>1, <3>3 DEF Login
    <3> QED BY <2>2, <2>4, <2>5, <3>2, <3>3, <3>4
  <2>9. Covered'
    BY <2>8 DEF Covered
  <2> QED
    BY <2>4, <2>5, <2>6, <2>7, <2>9 DEF FamilyInv
<1>2. ASSUME UNCHANGED <<family, revoked, killed, raced, req>>
      PROVE  FamilyInv'
  BY <1>2 DEF FamilyInv, OneTokenUnlessRaced, DeadUnlessRaced, Unrevoked, Started, Covered,
              Sweeping
<1>3. ASSUME NEW c \in Clients, NEW next \in Tokens, Rotate(c, next)
      PROVE  FamilyInv'
  BY <1>3, RotateStep
<1>4. ASSUME NEW c \in Clients, RevokeFamilies(c)
      PROVE  FamilyInv'
  <2>1. /\ family' = family
        /\ raced' = raced
        /\ revoked' = [t \in Tokens |-> revoked[t] \/ t \in req[c].rows]
        /\ killed' = killed \cup req[c].scope
        /\ Done(c) /\ Sweeping(c)
    BY <1>4 DEF RevokeFamilies, Sweeping
  <2>2. \A f \in Families : Unrevoked(f)' \subseteq Unrevoked(f)
    BY <2>1 DEF Unrevoked
  <2>3. \A f \in req[c].scope : Started(f) /\ (f \in raced' \/ Unrevoked(f)' = {})
    BY <2>1 DEF Unrevoked, FamilyInv, Covered
  <2>4. \A f \in killed' : Started(f)'
    BY <2>1, <2>3 DEF FamilyInv, Started
  <2>5. killed' \subseteq Families
    BY <1>0, <1>4, TypeInvStep DEF TypeInv, TypeOK
  <2> QED
    BY <2>1, <2>2, <2>3, <2>4, <2>5, FewerTokens
<1>5. ASSUME NEW c \in Clients, KeepCurrent(c)
      PROVE  FamilyInv'
  <2>1. PICK t \in Tokens : t = req[c].token /\ Issued(t) /\ family[t] \in Families
    BY <1>0, <1>5, PendingIsARequest DEF KeepCurrent
  <2>2. /\ family' = family
        /\ revoked' = [u \in Tokens |-> IF u = t THEN FALSE ELSE revoked[u] \/ u \in req[c].rows]
        /\ raced' = IF revoked[t] THEN raced \cup {family[t]} ELSE raced
        /\ killed' = killed \cup req[c].scope
        /\ Done(c) /\ Sweeping(c)
        /\ family[t] \notin req[c].scope
    BY <1>0, <1>5, <2>1, PendingIsARequest
       DEF KeepCurrent, Race, TypeInv, RequestShape, Shape, Sweeping
  <2>3. \A f \in Families \ raced' : Unrevoked(f)' \subseteq Unrevoked(f)
    <3> SUFFICES ASSUME NEW f \in Families \ raced', NEW u \in Tokens,
                        family'[u] = f, ~revoked'[u]
                 PROVE  u \in Unrevoked(f)
      BY DEF Unrevoked
    <3>1. CASE u = t
      BY <2>1, <2>2, <3>1 DEF Unrevoked
    <3>2. CASE u # t
      BY <2>2, <3>2 DEF Unrevoked
    <3> QED
      BY <3>1, <3>2
  <2>4. \A f \in req[c].scope : Started(f) /\ (f \in raced' \/ Unrevoked(f)' = {})
    <3> SUFFICES ASSUME NEW f \in req[c].scope
                 PROVE  Started(f) /\ (f \in raced' \/ Unrevoked(f)' = {})
      OBVIOUS
    <3>1. Started(f) /\ (f \in raced \/ Unrevoked(f) \subseteq req[c].rows)
      BY <2>2 DEF FamilyInv, Covered
    <3>2. f # family[t]
      BY <2>2
    <3> QED
      BY <2>2, <3>1, <3>2 DEF Unrevoked
  <2>5. \A f \in killed' : Started(f)'
    BY <2>2, <2>4 DEF FamilyInv, Started
  <2>6. killed' \subseteq Families
    BY <1>0, <1>5, TypeInvStep DEF TypeInv, TypeOK
  <2> QED
    BY <2>2, <2>3, <2>4, <2>5, <2>6, FewerTokens
<1>6. ASSUME NEW c \in Clients, NEW op \in {"revoke", "rotate", "password"}, NEW t, NEW scope,
             Begin(c, op, t, scope)
      PROVE  FamilyInv'
  <2>1. ~Sweeping(c)' /\ \A d \in Clients \ {c} : req'[d] = req[d]
    BY <1>0, <1>6 DEF Begin, Sweeping, TypeOK
  <2> QED BY <1>6, <2>1, CoveredKept DEF Begin
<1>7. ASSUME NEW c \in Clients, Abort(c)
      PROVE  FamilyInv'
  <2>1. ~Sweeping(c)' /\ \A d \in Clients \ {c} : req'[d] = req[d]
    BY <1>0, <1>7 DEF Abort, Done, Sweeping, TypeOK, Idle
  <2> QED BY <1>7, <2>1, CoveredKept DEF Abort
<1>8. ASSUME NEW c \in Clients, BulkUpdate(c)
      PROVE  FamilyInv'
  <2>1. req[c].op \in {"revoke", "password"} /\ req[c] # Idle
    BY <1>8 DEF BulkUpdate, Idle
  <2>2. UNCHANGED <<family, revoked, killed, raced>>
    BY <1>8 DEF BulkUpdate
  <2>3. req[c].scope \subseteq FamiliesOf(User(req[c].token))
    BY <2>1 DEF TypeInv, RequestShape, Shape
  <2>4. /\ \A d \in Clients \ {c} : req'[d] = req[d]
        /\ req'[c].scope = {f \in req[c].scope : Started(f)}
        /\ req'[c].rows = {t \in Tokens :
                             /\ family[t] \in IF req[c].op = "password"
                                                THEN FamiliesOf(User(req[c].token))
                                                ELSE req[c].scope
                             /\ ~revoked[t]}
    BY <1>0, <1>8 DEF BulkUpdate, TypeOK
  <2>5. \A f \in req'[c].scope : Started(f) /\ Unrevoked(f) \subseteq req'[c].rows
    BY <2>3, <2>4 DEF Unrevoked
  <2>6. \A d \in Clients : Sweeping(d)' => d = c \/ (req'[d] = req[d] /\ Sweeping(d))
    BY <2>4 DEF Sweeping
  <2>7. Covered'
    BY <2>2, <2>5, <2>6 DEF FamilyInv, Covered, Started, Unrevoked
  <2> QED
    BY <2>2, <2>7 DEF FamilyInv, OneTokenUnlessRaced, DeadUnlessRaced, Unrevoked, Started
<1> QED
  BY <1>1, <1>2, <1>3, <1>4, <1>5, <1>6, <1>7, <1>8
     DEF Next, ClientStep, RefreshReplayed, RefreshInactive, Refresh, Logout, ChangePassword,
         Expire, SetActive, vars

LEMMA FamilyInvariant == Spec => [](TypeInv /\ FamilyInv)
<1>1. Init => FamilyInv
  BY RefreshSessionsAssumption
     DEF Init, FamilyInv, OneTokenUnlessRaced, DeadUnlessRaced, Unrevoked, Started, Covered,
         Sweeping, Idle
<1> QED
  BY <1>1, TypeInvInit, TypeInvStep, FamilyInvStep, PTL DEF Spec

\* However many requests interleave, a family has at most one valid token until
\* a request commits over a row that was revoked after it had read it.
THEOREM OneTokenPerFamily == Spec => []OneTokenUnlessRaced
<1>1. FamilyInv => OneTokenUnlessRaced
  BY DEF FamilyInv
<1> QED
  BY FamilyInvariant, <1>1, PTL

\* A family ended by a logout, a replay or a new password has no valid token
\* again, with the same exception.
THEOREM DeadFamilyStaysDead == Spec => []DeadUnlessRaced
<1>1. FamilyInv => DeadUnlessRaced
  BY DEF FamilyInv
<1> QED
  BY FamilyInvariant, <1>1, PTL

\* No request takes the validity of a token of a user whose token it has not
\* shown.
THEOREM OnlyOwnSessions == Spec => OwnSessionsOnly
<1>1. ASSUME TypeInv, [Next]_vars, NEW t \in Tokens, ~revoked[t], revoked'[t]
      PROVE  \E c \in Clients : /\ req[c] # Idle
                                /\ req'[c] = Idle
                                /\ User(req[c].token) = User(t)
  <2>0. TypeOK
    BY <1>1 DEF TypeInv
  <2>1. ASSUME NEW c \in Clients, Done(c)
        PROVE  req'[c] = Idle
    BY <2>0, <2>1 DEF Done, TypeOK
  <2>2. ASSUME NEW c \in Clients, NEW next \in Tokens, Rotate(c, next)
        PROVE  req[c] # Idle /\ req'[c] = Idle /\ req[c].token = t
    BY <1>1, <2>0, <2>1, <2>2, PendingIsARequest DEF Rotate, TypeOK
  <2>3. ASSUME NEW c \in Clients, RevokeFamilies(c) \/ KeepCurrent(c)
        PROVE  req[c] # Idle /\ req'[c] = Idle /\ User(req[c].token) = User(t)
    <3>1. req[c] # Idle
      BY <2>0, <2>3, PendingIsARequest DEF RevokeFamilies, KeepCurrent
    <3>2. t \in req[c].rows
      BY <1>1, <2>3 DEF RevokeFamilies, KeepCurrent
    <3>3. User(t) = User(req[c].token)
      BY <1>1, <3>1, <3>2 DEF TypeInv, RequestShape, Shape
    <3> QED
      BY <2>1, <2>3, <3>1, <3>3 DEF RevokeFamilies, KeepCurrent
  <2>5. revoked' # revoked
    BY <1>1
  <2> QED
    BY <1>1, <2>2, <2>3, <2>5
       DEF Next, ClientStep, Login, RefreshReplayed, RefreshInactive, Refresh, Logout,
           ChangePassword, Begin, BulkUpdate, Abort, Expire, SetActive, vars
<1>2. TypeInv /\ [Next]_vars =>
        [\A t \in Tokens : ~revoked[t] /\ revoked'[t] =>
           \E c \in Clients : /\ req[c] # Idle
                              /\ req'[c] = Idle
                              /\ User(req[c].token) = User(t)]_vars
  BY <1>1
<1> QED
  BY <1>2, TypeInvInit, TypeInvStep, PTL DEF Spec, OwnSessionsOnly

-----------------------------------------------------------------------------
(***************************************************************************)
(* One request at a time: nothing is ever raced, so the docstring holds.   *)
(***************************************************************************)

\* The row a request works on is still valid when it commits.
NothingRaced ==
  /\ raced = {}
  /\ \A c \in Clients : req[c].op \in {"rotate", "password", "replacing"} => ~revoked[req[c].token]

LEMMA NothingRacedStep ==
  ASSUME \A c, d \in Clients : c = d
  PROVE  TypeInv /\ NothingRaced /\ [Next]_vars => NothingRaced'
<1> SUFFICES ASSUME TypeInv, NothingRaced, [Next]_vars
             PROVE  NothingRaced'
  OBVIOUS
<1>0. TypeOK
  BY DEF TypeInv
<1>1. ASSUME UNCHANGED <<revoked, req, raced>>
      PROVE  NothingRaced'
  BY <1>1 DEF NothingRaced
<1>2. ASSUME NEW c \in Clients, NEW op, NEW t \in Tokens, NEW scope, Begin(c, op, t, scope),
             op \in {"rotate", "password"} => ~revoked[t], op # "replacing"
      PROVE  NothingRaced'
  BY <1>0, <1>2 DEF Begin, NothingRaced, TypeOK
<1>3. ASSUME NEW c \in Clients, Done(c), raced' = raced
      PROVE  NothingRaced'
  <2>1. \A d \in Clients : req'[d] = Idle
    BY <1>0, <1>3 DEF Done, TypeOK
  <2> QED
    BY <1>3, <2>1 DEF NothingRaced, Idle
<1>4. ASSUME NEW c \in Clients, KeepCurrent(c)
      PROVE  raced' = raced
  BY <1>4 DEF KeepCurrent, Race, NothingRaced
<1>5. ASSUME NEW c \in Clients, NEW t \in Tokens,
             \/ RefreshReplayed(c, t) \/ RefreshInactive(c, t) \/ Refresh(c, t)
             \/ \E scope \in SUBSET Families : Logout(c, t, scope)
             \/ ChangePassword(c, t)
      PROVE  NothingRaced'
  BY <1>2, <1>5
     DEF RefreshReplayed, RefreshInactive, Refresh, Logout, ChangePassword, Principal
<1>6. ASSUME NEW c \in Clients, NEW next \in Tokens, Rotate(c, next)
      PROVE  NothingRaced'
  <2>1. ~Taken(req[c].token)
    BY <1>6 DEF Rotate, Taken
  <2>2. raced' = raced
    BY <1>6, <2>1 DEF Rotate, NothingRaced
  <2> QED BY <1>3, <1>6, <2>2 DEF Rotate
<1>7. ASSUME NEW c \in Clients, RevokeFamilies(c) \/ KeepCurrent(c) \/ Abort(c)
      PROVE  NothingRaced'
  BY <1>3, <1>4, <1>7 DEF RevokeFamilies, KeepCurrent, Abort
<1>8. ASSUME NEW c \in Clients, BulkUpdate(c)
      PROVE  NothingRaced'
  <2>1. /\ req[c].op \in {"revoke", "password"}
        /\ req'[c].token = req[c].token
        /\ req'[c].op = IF req[c].op = "password" THEN "replacing" ELSE "revoking"
        /\ UNCHANGED <<revoked, raced>>
    BY <1>0, <1>8 DEF BulkUpdate, TypeOK
  <2>2. \A d \in Clients : d = c
    OBVIOUS
  <2> QED BY <2>1, <2>2 DEF NothingRaced
<1> QED
  BY <1>1, <1>5, <1>6, <1>7, <1>8 DEF Next, ClientStep, Login, Expire, SetActive, vars

\* Taken one at a time, requests keep the promise of refresh: exactly one token
\* of a family is ever valid.
THEOREM OneTokenWhenSerial ==
  ASSUME \A c, d \in Clients : c = d
  PROVE  Spec => []OneValidToken
<1>1. Init => NothingRaced
  BY DEF Init, NothingRaced, Idle
<1>2. FamilyInv /\ NothingRaced => OneValidToken
  BY DEF FamilyInv, NothingRaced, OneTokenUnlessRaced, OneValidToken
<1> QED
  BY <1>1, <1>2, NothingRacedStep, FamilyInvariant, PTL DEF Spec

=============================================================================
