----------------------------- MODULE AuthProofs -----------------------------
(***************************************************************************)
(* What is certain of who is let in (internal/auth).  Accounts: sessions,  *)
(* passwords and second factors, for any users, browsers, requests in      *)
(* flight and recovery codes.  DeviceGrant: the token that a device gets,  *)
(* for any number of handlers, users and tokens.                           *)
(***************************************************************************)
EXTENDS Accounts, DeviceGrant, FiniteSetTheorems, TLAPS

-----------------------------------------------------------------------------
(* The pieces that the handlers are made of.                               *)

LEMMA SetSeedType ==
  ASSUME TypeOK, NEW u \in Users, NEW s, SetSeed(u, s)
  PROVE  /\ s \in Eras /\ era[u] + 1 \in Eras /\ s > 0 /\ era[u] < MaxEra
         /\ era' \in [Users -> Eras]
         /\ twice' \subseteq Users
  BY AccountsAssumption DEF TypeOK, SetSeed, Eras

LEMMA RowTypes ==
  ASSUME TypeOK, NEW r \in Row, NEW u \in Users, NEW s \in Eras
  PROVE  /\ Seeded(r, s) \in Row
         /\ [r EXCEPT !.totp = TRUE] \in Row /\ [r EXCEPT !.totp = FALSE] \in Row
         /\ \A off \in BOOLEAN : [r EXCEPT !.totp = @ /\ ~ off] \in Row
         /\ \A n \in Eras : [r EXCEPT !.pw = n, !.weak = FALSE] \in Row
         /\ \A weak \in BOOLEAN : [r EXCEPT !.weak = weak] \in Row
         /\ era[u] < MaxEra => Chosen(r, u) \in Row
<1>1. Seeded(r, s) \in Row
  BY DEF Row, Seeded
<1>2. \A x \in BOOLEAN : [r EXCEPT !.totp = x] \in Row /\ [r EXCEPT !.weak = x] \in Row
  BY DEF Row
<1>3. \A off \in BOOLEAN : (r.totp /\ ~ off) \in BOOLEAN
  BY DEF Row
<1>4. \A n \in Eras : [r EXCEPT !.pw = n, !.weak = FALSE] \in Row
  BY DEF Row
<1>5. era[u] < MaxEra => era[u] + 1 \in Eras
  BY AccountsAssumption DEF TypeOK, Eras
<1> QED
  BY <1>1, <1>2, <1>3, <1>4, <1>5 DEF Chosen

LEMMA UpdateType ==
  ASSUME TypeOK, NEW u \in Users, NEW r, row[u] # None => r \in Row, Update(u, r)
  PROVE  row' \in [Users -> Row \cup {None}]
  BY DEF TypeOK, Update

LEMMA EndsType ==
  ASSUME TypeOK, NEW q \in Requests, Ends(q)
  PROVE  /\ req' \in [Requests -> Request \cup {None}]
         /\ \A p \in Requests : req'[p] # None => p # q /\ req'[p] = req[p]
  BY DEF TypeOK, Ends

LEMMA EndsShape ==
  ASSUME TypeOK, NEW q \in Requests, Ends(q), row' \in [Users -> Row \cup {None}],
         cookie' \in [Devices -> Payload \cup {None}],
         code' \in [Codes -> Users \cup {None}], onboards' \in BOOLEAN,
         era' \in [Users -> Eras], last' \in [Users -> Eras],
         twice' \subseteq Users, undone' \subseteq Users
  PROVE  TypeOK'
  BY EndsType DEF TypeOK

LEMMA AnswerType ==
  ASSUME TypeOK, NEW q \in Requests, req[q] # None,
         req[q].kind \notin {"recover", "command"},
         NEW p, p \in Payload \cup {None}, Answer(q, p)
  PROVE  cookie' \in [Devices -> Payload \cup {None}]
  BY DEF TypeOK, Answer

\* What a request in flight carries.
LEMMA Carried ==
  ASSUME TypeOK, NEW q \in Requests, req[q] # None
  PROVE  /\ req[q].user \in Users
         /\ req[q].sess \in Payload \cup {None}
         /\ req[q].kind \in {"session", "totpOff", "mfa"} =>
               req[q].sess \in Payload /\ req[q].sess.user = req[q].user
         /\ req[q].kind \in {"totpOff", "login", "command"} => req[q].copy \in Row
         /\ req[q].kind = "recover" => req[q].code \in Codes
  BY DEF TypeOK, Request

LEMMA PayloadTypes ==
  ASSUME NEW p \in Payload, NEW s \in Eras
  PROVE  /\ [p EXCEPT !.seed = s, !.first = FALSE] \in Payload
         /\ [p EXCEPT !.seed = s, !.first = FALSE].user = p.user
         /\ [p EXCEPT !.seed = s, !.first = FALSE].seed = s
         /\ ~ [p EXCEPT !.seed = s, !.first = FALSE].first
         /\ [p EXCEPT !.mfa = FALSE, !.first = FALSE] \in Payload
         /\ [p EXCEPT !.mfa = FALSE, !.first = FALSE].user = p.user
         /\ [p EXCEPT !.mfa = FALSE, !.first = FALSE].seed = p.seed
         /\ ~ [p EXCEPT !.mfa = FALSE, !.first = FALSE].first
  BY DEF Payload

-----------------------------------------------------------------------------
(* Accounts: types.                                                        *)

LEMMA TypeStep == TypeOK /\ [Next]_vars => TypeOK'
<1> SUFFICES ASSUME TypeOK, [Next]_vars PROVE TypeOK'
  OBVIOUS
<1> USE AccountsAssumption, NoneAssumption
<1>1. ASSUME NEW q \in Requests, NEW d \in Devices, NEW kind \in {"session", "totpOff"}, Visit(q, d, kind)
      PROVE  TypeOK'
  BY <1>1 DEF Visit, Begin, Free, Good, TypeOK, Eras, Row, Payload, Request, Kinds, history
<1>2. ASSUME NEW q \in Requests, Renew(q)
      PROVE  TypeOK'
  BY <1>2 DEF Renew, Answer, Ends, TypeOK, Eras, Row, Payload, Request, Kinds, history
<1>3. ASSUME NEW q \in Requests, Logout(q)
      PROVE  TypeOK'
  BY <1>3 DEF Logout, Is, Answer, Ends, TypeOK, Eras, Row, Payload, Request, Kinds, history
<1>4. ASSUME NEW q \in Requests, RemoveTOTP(q)
      PROVE  TypeOK'
  <2>1. req[q].copy \in Row /\ req[q].sess \in Payload /\ req[q].user \in Users
    BY <1>4, Carried DEF RemoveTOTP, Is
  <2>2. row' \in [Users -> Row \cup {None}]
    BY <1>4, <2>1, RowTypes, UpdateType DEF RemoveTOTP, TypeOK, Eras
  <2>3. cookie' \in [Devices -> Payload \cup {None}]
    BY <1>4, <2>1, AnswerType DEF RemoveTOTP, Is
  <2>4. undone' \subseteq Users
    BY <1>4, <2>1 DEF RemoveTOTP, Overwrites, TypeOK
  <2> QED
    BY <1>4, <2>2, <2>3, <2>4, EndsShape DEF RemoveTOTP, TypeOK
<1>5. ASSUME NEW q \in Requests, NEW s \in 1 .. MaxEra, ChangePassword(q, s)
      PROVE  TypeOK'
  <2>1. req[q].sess \in Payload /\ req[q].user \in Users
    BY <1>5, Carried DEF ChangePassword, Is
  <2>2. /\ s \in Eras /\ era[req[q].user] < MaxEra
        /\ era' \in [Users -> Eras] /\ twice' \subseteq Users
        /\ era[req[q].user] + 1 \in Eras
    BY <1>5, <2>1, SetSeedType DEF ChangePassword
  <2>3. row' \in [Users -> Row \cup {None}]
    <3>1. row[req[q].user] # None => row[req[q].user] \in Row
      BY <2>1 DEF TypeOK
    <3> QED
      BY <1>5, <2>1, <2>2, <3>1, RowTypes, UpdateType DEF ChangePassword
  <2>4. cookie' \in [Devices -> Payload \cup {None}]
    <3>1. Stamped(q, s) \in Payload
      BY <2>1, <2>2, PayloadTypes DEF Stamped
    <3> QED
      BY <1>5, <3>1, AnswerType DEF ChangePassword, Is
  <2>5. last' \in [Users -> Eras]
    BY <1>5, <2>1, <2>2 DEF ChangePassword, TypeOK
  <2> QED
    BY <1>5, <2>2, <2>3, <2>4, <2>5, EndsShape DEF ChangePassword, TypeOK
<1>6. ASSUME NEW q \in Requests, NEW s \in 1 .. MaxEra, ChangeProfile(q, s)
      PROVE  TypeOK'
  <2>1. req[q].sess \in Payload /\ req[q].user \in Users
    BY <1>6, Carried DEF ChangeProfile, Is
  <2>2. /\ s \in Eras /\ era[req[q].user] < MaxEra
        /\ era' \in [Users -> Eras] /\ twice' \subseteq Users
        /\ era[req[q].user] + 1 \in Eras
    BY <1>6, <2>1, SetSeedType DEF ChangeProfile
  <2>3. row' \in [Users -> Row \cup {None}]
    <3>1. row[req[q].user] # None => row[req[q].user] \in Row
      BY <2>1 DEF TypeOK
    <3> QED
      BY <1>6, <2>1, <2>2, <3>1, RowTypes, UpdateType DEF ChangeProfile
  <2>4. cookie' \in [Devices -> Payload \cup {None}]
    <3>1. Stamped(q, s) \in Payload
      BY <2>1, <2>2, PayloadTypes DEF Stamped
    <3> QED
      BY <1>6, <3>1, AnswerType DEF ChangeProfile, Is
  <2>5. last' \in [Users -> Eras]
    BY <1>6, <2>1, <2>2 DEF ChangeProfile, TypeOK
  <2> QED
    BY <1>6, <2>2, <2>3, <2>4, <2>5, EndsShape DEF ChangeProfile, TypeOK
<1>7. ASSUME NEW q \in Requests, NEW s \in 1 .. MaxEra, EnableTOTP(q, s)
      PROVE  TypeOK'
  <2>1. req[q].sess \in Payload /\ req[q].user \in Users
    BY <1>7, Carried DEF EnableTOTP, Is
  <2>2. /\ s \in Eras /\ era[req[q].user] < MaxEra
        /\ era' \in [Users -> Eras] /\ twice' \subseteq Users
        /\ era[req[q].user] + 1 \in Eras
    BY <1>7, <2>1, SetSeedType DEF EnableTOTP
  <2>3. row' \in [Users -> Row \cup {None}]
    <3>1. row[req[q].user] # None => row[req[q].user] \in Row
      BY <2>1 DEF TypeOK
    <3> QED
      BY <1>7, <2>1, <2>2, <3>1, RowTypes, UpdateType DEF EnableTOTP
  <2>4. cookie' \in [Devices -> Payload \cup {None}]
    <3>1. Stamped(q, s) \in Payload
      BY <2>1, <2>2, PayloadTypes DEF Stamped
    <3> QED
      BY <1>7, <3>1, AnswerType DEF EnableTOTP, Is
  <2>5. last' \in [Users -> Eras]
    BY <1>7, <2>1, <2>2 DEF EnableTOTP, TypeOK
  <2> QED
    BY <1>7, <2>2, <2>3, <2>4, <2>5, EndsShape DEF EnableTOTP, TypeOK
<1>8. ASSUME NEW d \in Devices, Refuse(d)
      PROVE  TypeOK'
  BY <1>8 DEF Refuse, TypeOK, Eras, Row, Payload, Request, Kinds, history
<1>9. ASSUME NEW d \in Devices, Forget(d)
      PROVE  TypeOK'
  BY <1>9 DEF Forget, TypeOK, Eras, Row, Payload, Request, Kinds, history
<1>10. ASSUME NEW q \in Requests, NEW d \in Devices, SendCode(q, d)
      PROVE  TypeOK'
  BY <1>10 DEF SendCode, Begin, Free, TypeOK, Eras, Row, Payload, Request, Kinds, history
<1>11. ASSUME NEW q \in Requests, NEW d \in Devices, NEW u \in Users, SignIn(q, d, u)
      PROVE  TypeOK'
  BY <1>11 DEF SignIn, Begin, Free, TypeOK, Eras, Row, Payload, Request, Kinds, history
<1>12. ASSUME NEW q \in Requests, NEW d \in Devices, NEW u \in Users, ProxyVisit(q, d, u)
      PROVE  TypeOK'
  BY <1>12 DEF ProxyVisit, Begin, Free, Proxied, TypeOK, Eras, Row, Payload, Request, Kinds, history
<1>13. ASSUME NEW q \in Requests, Login(q)
      PROVE  TypeOK'
  <2>1. req[q].copy \in Row /\ req[q].user \in Users /\ req[q].sess \in Payload \cup {None}
    BY <1>13, Carried DEF Login, Is
  <2>2. row' \in [Users -> Row \cup {None}]
    <3>1. row[req[q].user] # None => row[req[q].user] \in Row
      BY <2>1 DEF TypeOK
    <3>2. req[q].copy.pw \in Eras
      BY <2>1 DEF Row
    <3>3. row[req[q].user] # None =>
             [row[req[q].user] EXCEPT !.pw = req[q].copy.pw, !.weak = FALSE] \in Row
      BY <2>1, <3>1, <3>2, RowTypes
    <3>4. CASE req[q].copy.weak
      BY <1>13, <2>1, <3>3, <3>4, UpdateType DEF Login
    <3>5. CASE ~ req[q].copy.weak
      BY <1>13, <3>5 DEF Login, TypeOK
    <3> QED
      BY <3>4, <3>5
  <2>3. cookie' \in [Devices -> Payload \cup {None}]
    <3>1. SignedIn(q, req[q].copy) \in Payload
      BY <2>1 DEF SignedIn, Payload, Row
    <3> QED
      BY <1>13, <3>1, AnswerType DEF Login, Is
  <2>4. undone' \subseteq Users
    BY <1>13, <2>1 DEF Login, TypeOK
  <2> QED
    BY <1>13, <2>2, <2>3, <2>4, EndsShape DEF Login, TypeOK
<1>14. ASSUME NEW q \in Requests, CodeIsRight(q)
      PROVE  TypeOK'
  <2>1. req[q].sess \in Payload /\ 0 \in Eras
    BY <1>14, Carried DEF CodeIsRight, Is, Eras
  <2>2. cookie' \in [Devices -> Payload \cup {None}]
    BY <1>14, <2>1, PayloadTypes, AnswerType DEF CodeIsRight, Is
  <2> QED
    BY <1>14, <2>2, EndsShape DEF CodeIsRight, TypeOK, history
<1>15. ASSUME NEW q \in Requests, GiveUp(q)
      PROVE  TypeOK'
  BY <1>15 DEF GiveUp, Ends, TypeOK, Eras, Row, Payload, Request, Kinds, history
<1>16. ASSUME NEW u \in Users, NEW s \in 1 .. MaxEra, Provision(u, s)
      PROVE  TypeOK'
  BY <1>16 DEF Provision, Create, SetSeed, TypeOK, Eras, Row, Payload, Request, Kinds, history
<1>17. ASSUME NEW c \in Codes, CodeExpires(c)
      PROVE  TypeOK'
  BY <1>17 DEF CodeExpires, TypeOK, Eras, Row, Payload, Request, Kinds, history
<1>18. ASSUME NEW c \in Codes, NEW u \in Users, AskRecovery(c, u)
      PROVE  TypeOK'
  BY <1>18 DEF AskRecovery, TypeOK, Eras, Row, Payload, Request, Kinds, history
<1>19. ASSUME NEW q \in Requests, NEW c \in Codes, SendRecovery(q, c)
      PROVE  TypeOK'
  BY <1>19 DEF SendRecovery, Begin, Free, TypeOK, Eras, Row, Payload, Request, Kinds, history
<1>20. ASSUME NEW q \in Requests, NEW s \in 1 .. MaxEra, Recover(q, s)
      PROVE  TypeOK'
  <2>1. req[q].user \in Users /\ req[q].code \in Codes
    BY <1>20, Carried DEF Recover, Is
  <2>2. /\ s \in Eras /\ era[req[q].user] < MaxEra
        /\ era' \in [Users -> Eras] /\ twice' \subseteq Users
        /\ era[req[q].user] + 1 \in Eras
    BY <1>20, <2>1, SetSeedType DEF Recover
  <2>3. row' \in [Users -> Row \cup {None}]
    <3>1. row[req[q].user] # None => row[req[q].user] \in Row
      BY <2>1 DEF TypeOK
    <3> QED
      BY <1>20, <2>1, <2>2, <3>1, RowTypes, UpdateType DEF Recover
  <2>4. last' \in [Users -> Eras]
    BY <1>20, <2>1, <2>2 DEF Recover, TypeOK
  <2>5. code' \in [Codes -> Users \cup {None}]
    BY <1>20, <2>1 DEF Recover, TypeOK
  <2> QED
    BY <1>20, <2>2, <2>3, <2>4, <2>5, EndsShape DEF Recover, TypeOK
<1>21. ASSUME NEW u \in Users, NEW s \in 1 .. MaxEra, NEW x \in BOOLEAN, NewUser(u, s, x)
      PROVE  TypeOK'
  BY <1>21 DEF NewUser, Create, SetSeed, TypeOK, Eras, Row, Payload, Request, Kinds, history
<1>22. ASSUME NEW u \in Users, NEW s \in 1 .. MaxEra, NEW x \in BOOLEAN, EditUser(u, s, x)
      PROVE  TypeOK'
  <2>1. row[u] \in Row
    BY <1>22 DEF EditUser, TypeOK
  <2>2. /\ s \in Eras /\ era[u] < MaxEra
        /\ era' \in [Users -> Eras] /\ twice' \subseteq Users
        /\ era[u] + 1 \in Eras
    BY <1>22, SetSeedType DEF EditUser
  <2>3. row' \in [Users -> Row \cup {None}]
    BY <1>22, <2>1, <2>2, RowTypes, UpdateType DEF EditUser
  <2>4. last' \in [Users -> Eras]
    BY <1>22, <2>2 DEF EditUser, TypeOK
  <2> QED
    BY <1>22, <2>2, <2>3, <2>4 DEF EditUser, TypeOK
<1>23. ASSUME NEW u \in Users, DeleteUser(u)
      PROVE  TypeOK'
  BY <1>23 DEF DeleteUser, TypeOK, Eras, Row, Payload, Request, Kinds, history
<1>24. ASSUME NEW q \in Requests, NEW u \in Users, StartCommand(q, u)
      PROVE  TypeOK'
  BY <1>24 DEF StartCommand, Begin, Free, TypeOK, Eras, Row, Payload, Request, Kinds, history
<1>25. ASSUME NEW q \in Requests, NEW s \in 1 .. MaxEra, NEW pw \in BOOLEAN,
            NEW weak \in BOOLEAN, NEW off \in BOOLEAN, CommandSeeds(q, s, pw, weak, off)
      PROVE  TypeOK'
  <2> DEFINE r == [req[q].copy EXCEPT !.totp = @ /\ ~ off]
  <2>1. req[q].user \in Users /\ r \in Row
    BY <1>25, Carried, RowTypes DEF CommandSeeds, Is, TypeOK, Eras
  <2>2. /\ s \in Eras /\ era[req[q].user] < MaxEra
        /\ era' \in [Users -> Eras] /\ twice' \subseteq Users
        /\ era[req[q].user] + 1 \in Eras
    BY <1>25, <2>1, SetSeedType DEF CommandSeeds
  <2>3. [Chosen(r, req[q].user) EXCEPT !.weak = weak] \in Row
    BY <2>1, <2>2, RowTypes
  <2>4. row' \in [Users -> Row \cup {None}]
    <3>1. Update(req[q].user, Seeded(IF pw THEN [Chosen(r, req[q].user) EXCEPT !.weak = weak]
                                     ELSE r, s))
      BY <1>25 DEF CommandSeeds
    <3> QED
      BY <2>1, <2>2, <2>3, <3>1, RowTypes, UpdateType
  <2>5. last' \in [Users -> Eras] /\ undone' \subseteq Users
    BY <1>25, <2>1, <2>2 DEF CommandSeeds, Overwrites, TypeOK
  <2> QED
    BY <1>25, <2>2, <2>4, <2>5, EndsShape DEF CommandSeeds, TypeOK
<1>26. ASSUME NEW q \in Requests, NEW off \in BOOLEAN, CommandKeeps(q, off)
      PROVE  TypeOK'
  <2>1. req[q].user \in Users /\ [req[q].copy EXCEPT !.totp = @ /\ ~ off] \in Row
    BY <1>26, Carried, RowTypes DEF CommandKeeps, Is, TypeOK, Eras
  <2>2. row' \in [Users -> Row \cup {None}]
    BY <1>26, <2>1, UpdateType DEF CommandKeeps
  <2>3. undone' \subseteq Users
    BY <1>26, <2>1 DEF CommandKeeps, Overwrites, TypeOK
  <2> QED
    BY <1>26, <2>2, <2>3, EndsShape DEF CommandKeeps, TypeOK
<1>27. ASSUME NEW q \in Requests, NEW d \in Devices, NEW u \in Users, SendOnboarding(q, d, u)
      PROVE  TypeOK'
  BY <1>27 DEF SendOnboarding, Begin, Free, TypeOK, Eras, Row, Payload, Request, Kinds, history
<1>28. ASSUME NEW q \in Requests, NEW s \in 1 .. MaxEra, Onboard(q, s)
      PROVE  TypeOK'
  BY <1>28 DEF Onboard, Is, Create, SetSeed, Answer, Ends, TypeOK, Eras, Row, Payload, Request, Kinds, history
<1>29. CASE Restart
  BY <1>29 DEF Restart, TypeOK, history
<1>30. CASE UNCHANGED vars
  BY <1>30 DEF vars, TypeOK
<1> HIDE AccountsAssumption, NoneAssumption
<1> QED
  BY <1>1, <1>2, <1>3, <1>4, <1>5, <1>6, <1>7, <1>8, <1>9, <1>10, <1>11, <1>12, <1>13, <1>14, <1>15, <1>16, <1>17, <1>18, <1>19, <1>20, <1>21, <1>22, <1>23, <1>24, <1>25, <1>26, <1>27, <1>28, <1>29, <1>30
     DEF Next, Sessions, SigningIn, Recovery, Administration

-----------------------------------------------------------------------------
(* Seeds.  A seed that was drawn for a user is at most the era; a session  *)
(* that a password alone made, and that a second factor should have ended, *)
(* does not have the seed of the row.                                      *)

\* p may be held by a browser, or by a request, when the rows are rw, the
\* eras e, and the users of x were touched by hand.
Safe(p, rw, e, x) ==
    /\ p.seed <= e[p.user]
    /\ /\ p.user \notin x /\ rw[p.user] # None /\ rw[p.user].totp
       /\ ~ p.mfa /\ p.first
       => p.seed # rw[p.user].seed

\* So may a request, with the copy that it made of a row.
SafeRequest(y, rw, e, x) ==
    y # None =>
        /\ y.sess # None => Safe(y.sess, rw, e, x)
        /\ y.copy # None => y.copy.seed <= e[y.user]
        /\ /\ y.kind = "login" /\ y.user \notin x /\ rw[y.user] # None
           /\ rw[y.user].totp /\ ~ y.copy.totp
           => y.copy.seed # rw[y.user].seed

SeedIsKnown == \A u \in Users : row[u] # None => row[u].seed <= era[u]

SeedIsLast ==
    \A u \in Users : row[u] # None /\ u \notin twice \cup undone => row[u].seed = era[u]

SessionsAreSafe ==
    /\ \A d \in Devices : cookie[d] # None => Safe(cookie[d], row, era, twice \cup undone)
    /\ \A q \in Requests : SafeRequest(req[q], row, era, twice \cup undone)

IInv == TypeOK /\ SeedIsKnown /\ SeedIsLast /\ SessionsAreSafe /\ PasswordIsLast

\* What a step does to the row and the seeds of v.
Moved(v) ==
    /\ era'[v] \in Nat /\ era[v] <= era'[v]
    /\ v \in twice => v \in twice'
    /\ v \in undone => v \in undone'
    /\ row'[v] # None => row'[v].seed <= era'[v]
    /\ row'[v] # None /\ v \notin twice' \cup undone' =>
          /\ row'[v].seed = era'[v]
          /\ row'[v].totp =>
                \/ era[v] < row'[v].seed
                \/ row[v] # None /\ row[v].totp /\ row[v].seed = row'[v].seed

LEMMA Rests ==
  ASSUME IInv, UNCHANGED <<row, era, twice, undone>>
  PROVE  \A v \in Users : Moved(v)
<1>1. \A v \in Users : era[v] \in Nat
  BY DEF IInv, TypeOK, Eras
<1> QED
  BY <1>1 DEF IInv, SeedIsKnown, SeedIsLast, Moved

LEMMA Reseeds ==
  ASSUME IInv, NEW u \in Users, NEW s \in 1 .. MaxEra, SetSeed(u, s),
         NEW r, row[u] # None => r \in Row, Update(u, Seeded(r, s)),
         undone \subseteq undone'
  PROVE  \A v \in Users : Moved(v)
<1>1. \A v \in Users : era[v] \in Nat
  BY DEF IInv, TypeOK, Eras
<1>2. /\ era' = [era EXCEPT ![u] = @ + 1] /\ s \in 1 .. era[u] + 1
      /\ twice' = IF s <= era[u] THEN twice \cup {u} ELSE twice
  BY DEF SetSeed
<1>3. row[u] # None => Seeded(r, s).seed = s
  BY DEF Seeded, Row
<1>4. row' = [row EXCEPT ![u] = IF row[u] = None THEN None ELSE Seeded(r, s)]
  BY DEF Update
<1>5. DOMAIN row = Users /\ DOMAIN era = Users
  BY DEF IInv, TypeOK
<1>6. SeedIsKnown /\ SeedIsLast
  BY DEF IInv
<1> SUFFICES ASSUME NEW v \in Users PROVE Moved(v)
  OBVIOUS
<1>7. CASE v # u
  <2>1. row'[v] = row[v] /\ era'[v] = era[v]
    BY <1>2, <1>4, <1>5, <1>7
  <2>2. v \in twice' <=> v \in twice
    BY <1>2, <1>7
  <2> QED
    BY <1>1, <1>6, <2>1, <2>2 DEF SeedIsKnown, SeedIsLast, Moved
<1>8. CASE v = u
  <2>1. row'[u] = (IF row[u] = None THEN None ELSE Seeded(r, s)) /\ era'[u] = era[u] + 1
    BY <1>2, <1>4, <1>5
  <2>2. row'[u] # None => row'[u].seed = s
    BY <1>3, <2>1
  <2>3. s <= era[u] => u \in twice'
    BY <1>2
  <2>4. twice \subseteq twice'
    BY <1>2
  <2> QED
    BY <1>1, <1>2, <1>8, <2>1, <2>2, <2>3, <2>4 DEF Moved
<1> QED
  BY <1>7, <1>8

LEMMA Creates ==
  ASSUME IInv, NEW u \in Users, NEW s \in 1 .. MaxEra, NEW x \in BOOLEAN, Create(u, s, x)
  PROVE  \A v \in Users : Moved(v)
<1>1. \A v \in Users : era[v] \in Nat
  BY DEF IInv, TypeOK, Eras
<1>2. SeedIsKnown /\ SeedIsLast /\ DOMAIN row = Users /\ DOMAIN era = Users
  BY DEF IInv, TypeOK
<1>3. [pw |-> 1, seed |-> s, weak |-> x, totp |-> FALSE] \in Row
  BY AccountsAssumption DEF Row, Eras
<1> QED
  BY <1>1, <1>2, <1>3, NoneAssumption DEF Create, SetSeed, SeedIsKnown, SeedIsLast, Moved

\* A copy is written over the row.
LEMMA Saves ==
  ASSUME IInv, NEW u \in Users, NEW c \in Row, c.seed <= era[u], NEW r \in Row,
         r.seed = c.seed, r.totp => c.totp,
         Update(u, r), Overwrites(u, c), UNCHANGED <<era, twice>>
  PROVE  \A v \in Users : Moved(v)
<1>1. \A v \in Users : era[v] \in Nat
  BY DEF IInv, TypeOK, Eras
<1>2. SeedIsKnown /\ SeedIsLast /\ DOMAIN row = Users
  BY DEF IInv, TypeOK
<1>3. undone \subseteq undone' /\ (u \in undone' \/ row[u] = None \/ row[u] = c)
  BY DEF Overwrites
<1> SUFFICES ASSUME NEW v \in Users PROVE Moved(v)
  OBVIOUS
<1>4. CASE v # u
  <2>1. row'[v] = row[v] /\ (v \in undone' <=> v \in undone)
    BY <1>2, <1>4 DEF Update, Overwrites
  <2> QED
    BY <1>1, <1>2, <2>1 DEF SeedIsKnown, SeedIsLast, Moved
<1>5. CASE v = u
  <2>1. row'[u] = IF row[u] = None THEN None ELSE r
    BY <1>2 DEF Update
  <2>2. row'[u] # None /\ u \notin undone' => row[u] = c /\ row[u] # None
    BY <1>3, <2>1
  <2> QED
    BY <1>1, <1>2, <1>3, <1>5, <2>1, <2>2 DEF SeedIsKnown, SeedIsLast, Moved
<1> QED
  BY <1>4, <1>5

\* A row keeps its seed and its factor.
LEMMA Rehashes ==
  ASSUME IInv, NEW u \in Users, NEW n \in Eras,
         Update(u, [row[u] EXCEPT !.pw = n, !.weak = FALSE]),
         undone \subseteq undone', UNCHANGED <<era, twice>>
  PROVE  \A v \in Users : Moved(v)
<1>1. \A v \in Users : era[v] \in Nat
  BY DEF IInv, TypeOK, Eras
<1>2. SeedIsKnown /\ SeedIsLast /\ row \in [Users -> Row \cup {None}]
  BY DEF IInv, TypeOK
<1>3. \A r \in Row : LET t == [r EXCEPT !.pw = n, !.weak = FALSE] IN
                     t.seed = r.seed /\ t.totp = r.totp
  BY DEF Row
<1> SUFFICES ASSUME NEW v \in Users PROVE Moved(v)
  OBVIOUS
<1>4. row'[v] # None => row[v] # None /\ row'[v].seed = row[v].seed /\ row'[v].totp = row[v].totp
  <2>1. CASE v # u
    BY <1>2, <2>1 DEF Update
  <2>2. CASE v = u
    BY <1>2, <1>3, <2>2 DEF Update
  <2> QED
    BY <2>1, <2>2
<1> QED
  BY <1>1, <1>2, <1>4 DEF SeedIsKnown, SeedIsLast, Moved

\* The copy of a request in flight.
LEMMA CopyIsKnown ==
  ASSUME IInv, NEW q \in Requests, req[q] # None,
         req[q].kind \in {"totpOff", "login", "command"}
  PROVE  /\ req[q].user \in Users /\ req[q].copy \in Row
         /\ req[q].copy.seed <= era[req[q].user]
BY Carried, NoneAssumption DEF IInv, SessionsAreSafe, SafeRequest

LEMMA RowStep == IInv /\ [Next]_vars => \A v \in Users : Moved(v)
<1> SUFFICES ASSUME IInv, [Next]_vars PROVE \A v \in Users : Moved(v)
  OBVIOUS
<1>t. TypeOK
  BY DEF IInv
<1>1. ASSUME NEW q \in Requests, NEW d \in Devices, NEW kind \in {"session", "totpOff"}, Visit(q, d, kind)
      PROVE  \A v \in Users : Moved(v)
  BY <1>1, Rests DEF Visit, history
<1>2. ASSUME NEW q \in Requests, Renew(q)
      PROVE  \A v \in Users : Moved(v)
  BY <1>2, Rests DEF Renew, history
<1>3. ASSUME NEW q \in Requests, Logout(q)
      PROVE  \A v \in Users : Moved(v)
  BY <1>3, Rests DEF Logout, history
<1>4. ASSUME NEW q \in Requests, RemoveTOTP(q)
      PROVE  \A v \in Users : Moved(v)
  <2> DEFINE u == req[q].user
             c == req[q].copy
             r == [c EXCEPT !.totp = FALSE]
  <2>1. u \in Users /\ c \in Row /\ c.seed <= era[u]
    BY <1>4, CopyIsKnown DEF RemoveTOTP, Is
  <2>2. r \in Row /\ r.seed = c.seed /\ ~ r.totp
    BY <2>1 DEF Row
  <2>3. Update(u, r) /\ Overwrites(u, c) /\ UNCHANGED <<era, twice>>
    BY <1>4 DEF RemoveTOTP
  <2> QED
    BY <2>1, <2>2, <2>3, Saves
<1>5. ASSUME NEW q \in Requests, NEW s \in 1 .. MaxEra, ChangePassword(q, s)
      PROVE  \A v \in Users : Moved(v)
  <2>1. req[q].user \in Users
    BY <1>5, <1>t, Carried DEF ChangePassword, Is
  <2>2. /\ row[req[q].user] # None => Chosen(row[req[q].user], req[q].user) \in Row
        /\ undone \subseteq undone'
    <3>1. row[req[q].user] # None => row[req[q].user] \in Row
      BY <2>1, <1>t DEF TypeOK
    <3>2. s \in Eras /\ era[req[q].user] < MaxEra
      BY <1>5, <1>t, <2>1, SetSeedType DEF ChangePassword
    <3> QED
      BY <1>5, <1>t, <2>1, <3>1, <3>2, RowTypes DEF ChangePassword
  <2>3. SetSeed(req[q].user, s) /\ Update(req[q].user, Seeded(Chosen(row[req[q].user], req[q].user), s))
    BY <1>5 DEF ChangePassword
  <2> QED
    BY <2>1, <2>2, <2>3, Reseeds
<1>6. ASSUME NEW q \in Requests, NEW s \in 1 .. MaxEra, ChangeProfile(q, s)
      PROVE  \A v \in Users : Moved(v)
  <2>1. req[q].user \in Users
    BY <1>6, <1>t, Carried DEF ChangeProfile, Is
  <2>2. /\ row[req[q].user] # None => row[req[q].user] \in Row
        /\ undone \subseteq undone'
    <3>1. row[req[q].user] # None => row[req[q].user] \in Row
      BY <2>1, <1>t DEF TypeOK
    <3>2. s \in Eras /\ era[req[q].user] < MaxEra
      BY <1>6, <1>t, <2>1, SetSeedType DEF ChangeProfile
    <3> QED
      BY <1>6, <1>t, <2>1, <3>1, <3>2, RowTypes DEF ChangeProfile
  <2>3. SetSeed(req[q].user, s) /\ Update(req[q].user, Seeded(row[req[q].user], s))
    BY <1>6 DEF ChangeProfile
  <2> QED
    BY <2>1, <2>2, <2>3, Reseeds
<1>7. ASSUME NEW q \in Requests, NEW s \in 1 .. MaxEra, EnableTOTP(q, s)
      PROVE  \A v \in Users : Moved(v)
  <2> DEFINE u == req[q].user
             r == [row[u] EXCEPT !.totp = TRUE]
  <2>1. u \in Users
    BY <1>7, <1>t, Carried DEF EnableTOTP, Is
  <2>2. row[u] # None => r \in Row /\ Seeded(r, s) = [Seeded(row[u], s) EXCEPT !.totp = TRUE]
    <3>1. row[u] # None => row[u] \in Row
      BY <2>1, <1>t DEF TypeOK
    <3> QED
      BY <3>1 DEF Seeded, Row
  <2>3. SetSeed(u, s) /\ Update(u, Seeded(r, s))
    BY <1>7, <2>2 DEF EnableTOTP, Update
  <2>4. undone \subseteq undone'
    BY <1>7 DEF EnableTOTP
  <2> QED
    BY <2>1, <2>2, <2>3, <2>4, Reseeds
<1>8. ASSUME NEW d \in Devices, Refuse(d)
      PROVE  \A v \in Users : Moved(v)
  BY <1>8, Rests DEF Refuse, history
<1>9. ASSUME NEW d \in Devices, Forget(d)
      PROVE  \A v \in Users : Moved(v)
  BY <1>9, Rests DEF Forget, history
<1>10. ASSUME NEW q \in Requests, NEW d \in Devices, SendCode(q, d)
      PROVE  \A v \in Users : Moved(v)
  BY <1>10, Rests DEF SendCode, history
<1>11. ASSUME NEW q \in Requests, NEW d \in Devices, NEW u \in Users, SignIn(q, d, u)
      PROVE  \A v \in Users : Moved(v)
  BY <1>11, Rests DEF SignIn, history
<1>12. ASSUME NEW q \in Requests, NEW d \in Devices, NEW u \in Users, ProxyVisit(q, d, u)
      PROVE  \A v \in Users : Moved(v)
  BY <1>12, Rests DEF ProxyVisit, history
<1>13. ASSUME NEW q \in Requests, Login(q)
      PROVE  \A v \in Users : Moved(v)
  <2>1. req[q].user \in Users /\ req[q].copy \in Row
    BY <1>13, CopyIsKnown DEF Login, Is
  <2>2. CASE req[q].copy.weak
    <3>1. req[q].copy.pw \in Eras
      BY <2>1 DEF Row
    <3>2. /\ Update(req[q].user,
                    [row[req[q].user] EXCEPT !.pw = req[q].copy.pw, !.weak = FALSE])
          /\ undone \subseteq undone' /\ UNCHANGED <<era, twice>>
      BY <1>13, <2>2 DEF Login
    <3> QED
      BY <2>1, <3>1, <3>2, Rehashes
  <2>3. CASE ~ req[q].copy.weak
    BY <1>13, <2>3, Rests DEF Login
  <2> QED
    BY <2>2, <2>3
<1>14. ASSUME NEW q \in Requests, CodeIsRight(q)
      PROVE  \A v \in Users : Moved(v)
  BY <1>14, Rests DEF CodeIsRight, history
<1>15. ASSUME NEW q \in Requests, GiveUp(q)
      PROVE  \A v \in Users : Moved(v)
  BY <1>15, Rests DEF GiveUp, history
<1>16. ASSUME NEW u \in Users, NEW s \in 1 .. MaxEra, Provision(u, s)
      PROVE  \A v \in Users : Moved(v)
  BY <1>16, Creates DEF Provision
<1>17. ASSUME NEW c \in Codes, CodeExpires(c)
      PROVE  \A v \in Users : Moved(v)
  BY <1>17, Rests DEF CodeExpires, history
<1>18. ASSUME NEW c \in Codes, NEW u \in Users, AskRecovery(c, u)
      PROVE  \A v \in Users : Moved(v)
  BY <1>18, Rests DEF AskRecovery, history
<1>19. ASSUME NEW q \in Requests, NEW c \in Codes, SendRecovery(q, c)
      PROVE  \A v \in Users : Moved(v)
  BY <1>19, Rests DEF SendRecovery, history
<1>20. ASSUME NEW q \in Requests, NEW s \in 1 .. MaxEra, Recover(q, s)
      PROVE  \A v \in Users : Moved(v)
  <2>1. req[q].user \in Users
    BY <1>20, <1>t, Carried DEF Recover, Is
  <2>2. /\ row[req[q].user] # None => Chosen(row[req[q].user], req[q].user) \in Row
        /\ undone \subseteq undone'
    <3>1. row[req[q].user] # None => row[req[q].user] \in Row
      BY <2>1, <1>t DEF TypeOK
    <3>2. s \in Eras /\ era[req[q].user] < MaxEra
      BY <1>20, <1>t, <2>1, SetSeedType DEF Recover
    <3> QED
      BY <1>20, <1>t, <2>1, <3>1, <3>2, RowTypes DEF Recover
  <2>3. SetSeed(req[q].user, s) /\ Update(req[q].user, Seeded(Chosen(row[req[q].user], req[q].user), s))
    BY <1>20 DEF Recover
  <2> QED
    BY <2>1, <2>2, <2>3, Reseeds
<1>21. ASSUME NEW u \in Users, NEW s \in 1 .. MaxEra, NEW x \in BOOLEAN, NewUser(u, s, x)
      PROVE  \A v \in Users : Moved(v)
  BY <1>21, Creates DEF NewUser
<1>22. ASSUME NEW u \in Users, NEW s \in 1 .. MaxEra, NEW x \in BOOLEAN, EditUser(u, s, x)
      PROVE  \A v \in Users : Moved(v)
  <2> DEFINE r == IF x THEN Chosen(row[u], u) ELSE row[u]
  <2>1. r \in Row
    <3>1. row[u] \in Row /\ s \in Eras /\ era[u] < MaxEra
      BY <1>22, <1>t, SetSeedType DEF EditUser, TypeOK
    <3> QED
      BY <1>t, <3>1, RowTypes
  <2>2. SetSeed(u, s) /\ Update(u, Seeded(r, s)) /\ undone \subseteq undone'
    BY <1>22 DEF EditUser
  <2> QED
    BY <2>1, <2>2, Reseeds
<1>23. ASSUME NEW u \in Users, DeleteUser(u)
      PROVE  \A v \in Users : Moved(v)
  <2>1. \A v \in Users : era[v] \in Nat
    BY <1>t DEF TypeOK, Eras
  <2>2. \A v \in Users : row'[v] # None => row'[v] = row[v]
    BY <1>23, <1>t DEF DeleteUser, TypeOK
  <2> QED
    BY <1>23, <2>1, <2>2 DEF DeleteUser, IInv, SeedIsKnown, SeedIsLast, Moved, history
<1>24. ASSUME NEW q \in Requests, NEW u \in Users, StartCommand(q, u)
      PROVE  \A v \in Users : Moved(v)
  BY <1>24, Rests DEF StartCommand, history
<1>25. ASSUME NEW q \in Requests, NEW s \in 1 .. MaxEra, NEW pw \in BOOLEAN,
            NEW weak \in BOOLEAN, NEW off \in BOOLEAN, CommandSeeds(q, s, pw, weak, off)
      PROVE  \A v \in Users : Moved(v)
  <2> DEFINE u == req[q].user
             r == [req[q].copy EXCEPT !.totp = @ /\ ~ off]
             t == IF pw THEN [Chosen(r, u) EXCEPT !.weak = weak] ELSE r
  <2>1. u \in Users /\ r \in Row
    BY <1>25, <1>t, AccountsAssumption, Carried, RowTypes DEF CommandSeeds, Is, TypeOK, Eras
  <2>2. t \in Row
    <3>1. s \in Eras /\ era[u] < MaxEra
      BY <1>25, <1>t, <2>1, SetSeedType DEF CommandSeeds
    <3> QED
      BY <1>t, <2>1, <3>1, RowTypes
  <2>3. SetSeed(u, s) /\ Update(u, Seeded(t, s))
    BY <1>25 DEF CommandSeeds
  <2>4. undone \subseteq undone'
    BY <1>25 DEF CommandSeeds, Overwrites
  <2> QED
    BY <2>1, <2>2, <2>3, <2>4, Reseeds
<1>26. ASSUME NEW q \in Requests, NEW off \in BOOLEAN, CommandKeeps(q, off)
      PROVE  \A v \in Users : Moved(v)
  <2> DEFINE u == req[q].user
             c == req[q].copy
             r == [c EXCEPT !.totp = @ /\ ~ off]
  <2>1. u \in Users /\ c \in Row /\ c.seed <= era[u]
    BY <1>26, CopyIsKnown DEF CommandKeeps, Is
  <2>2. r \in Row /\ r.seed = c.seed /\ (r.totp => c.totp)
    <3>1. (c.totp /\ ~ off) \in BOOLEAN
      BY <2>1 DEF Row
    <3> QED
      BY <2>1, <3>1 DEF Row
  <2>3. Update(u, r) /\ Overwrites(u, c) /\ UNCHANGED <<era, twice>>
    BY <1>26 DEF CommandKeeps
  <2> QED
    BY <2>1, <2>2, <2>3, Saves
<1>27. ASSUME NEW q \in Requests, NEW d \in Devices, NEW u \in Users, SendOnboarding(q, d, u)
      PROVE  \A v \in Users : Moved(v)
  BY <1>27, Rests DEF SendOnboarding, history
<1>28. ASSUME NEW q \in Requests, NEW s \in 1 .. MaxEra, Onboard(q, s)
      PROVE  \A v \in Users : Moved(v)
  <2>1. req[q].user \in Users
    BY <1>28, <1>t, Carried DEF Onboard, Is
  <2> QED
    BY <1>28, <2>1, Creates DEF Onboard
<1>29. CASE Restart
  BY <1>29, Rests DEF Restart, history
<1>30. CASE UNCHANGED vars
  BY <1>30, Rests DEF vars
<1> QED
  BY <1>1, <1>2, <1>3, <1>4, <1>5, <1>6, <1>7, <1>8, <1>9, <1>10, <1>11, <1>12, <1>13, <1>14, <1>15, <1>16, <1>17, <1>18, <1>19, <1>20, <1>21, <1>22, <1>23, <1>24, <1>25, <1>26, <1>27, <1>28, <1>29, <1>30
     DEF Next, Sessions, SigningIn, Recovery, Administration

-----------------------------------------------------------------------------
(* Sessions and requests in flight stay safe.                              *)

LEMMA SafeStays ==
  ASSUME IInv, \A v \in Users : Moved(v), NEW p \in Payload,
         Safe(p, row, era, twice \cup undone)
  PROVE  Safe(p, row', era', twice' \cup undone')
<1>1. p.user \in Users /\ p.seed \in Nat
  BY DEF Payload, Eras
<1>2. era[p.user] \in Nat
  BY <1>1 DEF IInv, TypeOK, Eras
<1>3. Moved(p.user)
  BY <1>1
<1> QED
  BY <1>1, <1>2, <1>3 DEF Safe, Moved

LEMMA SafeRequestStays ==
  ASSUME IInv, \A v \in Users : Moved(v), NEW y \in Request \cup {None},
         y # None /\ y.kind = "login" => y.copy \in Row,
         SafeRequest(y, row, era, twice \cup undone)
  PROVE  SafeRequest(y, row', era', twice' \cup undone')
<1> SUFFICES ASSUME y # None PROVE SafeRequest(y, row', era', twice' \cup undone')
  BY DEF SafeRequest
<1>1. y.user \in Users /\ y.sess \in Payload \cup {None} /\ y.copy \in Row \cup {None}
  BY DEF Request
<1>2. y.sess # None => Safe(y.sess, row', era', twice' \cup undone')
  BY <1>1, SafeStays DEF SafeRequest
<1>3. Moved(y.user) /\ era[y.user] \in Nat
  BY <1>1 DEF IInv, TypeOK, Eras
<1>4. y.copy # None => y.copy.seed \in Nat
  BY <1>1 DEF Row, Eras
<1>5. y.copy # None => y.copy.seed <= era'[y.user]
  BY <1>3, <1>4 DEF SafeRequest, Moved
<1>6. /\ y.kind = "login" /\ y.user \notin twice' \cup undone' /\ row'[y.user] # None
      /\ row'[y.user].totp /\ ~ y.copy.totp
      => y.copy.seed # row'[y.user].seed
  BY <1>1, <1>3, <1>4, NoneAssumption DEF SafeRequest, Moved
<1> QED
  BY <1>2, <1>5, <1>6 DEF SafeRequest

LEMMA CookiesStay ==
  ASSUME IInv, \A v \in Users : Moved(v), NEW d \in Devices, cookie'[d] = cookie[d]
  PROVE  cookie'[d] # None => Safe(cookie'[d], row', era', twice' \cup undone')
<1>1. cookie[d] # None => cookie[d] \in Payload
  BY DEF IInv, TypeOK
<1>2. cookie[d] # None => Safe(cookie[d], row, era, twice \cup undone)
  BY DEF IInv, SessionsAreSafe
<1> QED
  BY <1>1, <1>2, SafeStays

LEMMA AnswerIsSafe ==
  ASSUME IInv, \A v \in Users : Moved(v), NEW q \in Requests, NEW p,
         p # None => Safe(p, row', era', twice' \cup undone'), Answer(q, p),
         NEW d \in Devices
  PROVE  cookie'[d] # None => Safe(cookie'[d], row', era', twice' \cup undone')
<1>1. cookie'[d] = cookie[d] \/ cookie'[d] = p
  BY DEF Answer, IInv, TypeOK
<1> QED
  BY <1>1, CookiesStay

LEMMA RequestIsSafe ==
  ASSUME IInv, \A v \in Users : Moved(v), NEW q \in Requests, req[q] # None
  PROVE  /\ SafeRequest(req[q], row', era', twice' \cup undone')
         /\ req[q].sess # None => Safe(req[q].sess, row', era', twice' \cup undone')
<1>1. SafeRequest(req[q], row, era, twice \cup undone)
  BY DEF IInv, SessionsAreSafe
<1>2. req[q] \in Request \cup {None} /\ (req[q].kind = "login" => req[q].copy \in Row)
  BY DEF IInv, TypeOK
<1>3. SafeRequest(req[q], row', era', twice' \cup undone')
  BY <1>1, <1>2, SafeRequestStays
<1> QED
  BY <1>3 DEF SafeRequest

LEMMA StampedIsSafe ==
  ASSUME IInv, NEW q \in Requests, NEW s \in 1 .. MaxEra, Is(q, "session"),
         SetSeed(req[q].user, s)
  PROVE  Safe(Stamped(q, s), row', era', twice' \cup undone')
<1>1. /\ req[q].sess \in Payload /\ req[q].sess.user = req[q].user /\ req[q].user \in Users
      /\ TypeOK
  BY Carried DEF Is, IInv
<1>2. s \in Eras
  BY AccountsAssumption DEF Eras
<1>3. /\ Stamped(q, s).seed = s /\ Stamped(q, s).user = req[q].user /\ ~ Stamped(q, s).first
  BY <1>1, <1>2, PayloadTypes DEF Stamped
<1>4. era[req[q].user] \in Nat /\ era'[req[q].user] = era[req[q].user] + 1 /\ s <= era[req[q].user] + 1
  BY <1>1 DEF SetSeed, TypeOK, Eras
<1> QED
  BY <1>3, <1>4 DEF Safe

LEMMA CookieStep ==
  IInv /\ [Next]_vars =>
     \A d \in Devices : cookie'[d] # None => Safe(cookie'[d], row', era', twice' \cup undone')
<1> SUFFICES ASSUME IInv, [Next]_vars, NEW dd \in Devices
             PROVE  cookie'[dd] # None => Safe(cookie'[dd], row', era', twice' \cup undone')
  OBVIOUS
<1>m. \A v \in Users : Moved(v)
  BY RowStep
<1>t. TypeOK
  BY DEF IInv
<1>1. ASSUME NEW q \in Requests, NEW d \in Devices, NEW kind \in {"session", "totpOff"}, Visit(q, d, kind)
      PROVE  cookie'[dd] # None => Safe(cookie'[dd], row', era', twice' \cup undone')
  BY <1>1, <1>m, CookiesStay DEF Visit
<1>2. ASSUME NEW q \in Requests, Renew(q)
      PROVE  cookie'[dd] # None => Safe(cookie'[dd], row', era', twice' \cup undone')
  <2>1. req[q] # None
    BY <1>2 DEF Renew, Is
  <2> QED
    BY <1>2, <1>m, <2>1, RequestIsSafe, AnswerIsSafe DEF Renew
<1>3. ASSUME NEW q \in Requests, Logout(q)
      PROVE  cookie'[dd] # None => Safe(cookie'[dd], row', era', twice' \cup undone')
  BY <1>3, <1>m, AnswerIsSafe DEF Logout
<1>4. ASSUME NEW q \in Requests, RemoveTOTP(q)
      PROVE  cookie'[dd] # None => Safe(cookie'[dd], row', era', twice' \cup undone')
  <2>1. req[q] # None
    BY <1>4 DEF RemoveTOTP, Is
  <2> QED
    BY <1>4, <1>m, <2>1, RequestIsSafe, AnswerIsSafe DEF RemoveTOTP
<1>5. ASSUME NEW q \in Requests, NEW s \in 1 .. MaxEra, ChangePassword(q, s)
      PROVE  cookie'[dd] # None => Safe(cookie'[dd], row', era', twice' \cup undone')
  BY <1>5, <1>m, StampedIsSafe, AnswerIsSafe DEF ChangePassword
<1>6. ASSUME NEW q \in Requests, NEW s \in 1 .. MaxEra, ChangeProfile(q, s)
      PROVE  cookie'[dd] # None => Safe(cookie'[dd], row', era', twice' \cup undone')
  BY <1>6, <1>m, StampedIsSafe, AnswerIsSafe DEF ChangeProfile
<1>7. ASSUME NEW q \in Requests, NEW s \in 1 .. MaxEra, EnableTOTP(q, s)
      PROVE  cookie'[dd] # None => Safe(cookie'[dd], row', era', twice' \cup undone')
  BY <1>7, <1>m, StampedIsSafe, AnswerIsSafe DEF EnableTOTP
<1>8. ASSUME NEW d \in Devices, Refuse(d)
      PROVE  cookie'[dd] # None => Safe(cookie'[dd], row', era', twice' \cup undone')
  <2>1. cookie'[dd] = None \/ cookie'[dd] = cookie[dd]
    BY <1>8, <1>t DEF Refuse, TypeOK
  <2> QED
    BY <1>m, <2>1, CookiesStay
<1>9. ASSUME NEW d \in Devices, Forget(d)
      PROVE  cookie'[dd] # None => Safe(cookie'[dd], row', era', twice' \cup undone')
  <2>1. cookie'[dd] = None \/ cookie'[dd] = cookie[dd]
    BY <1>9, <1>t DEF Forget, TypeOK
  <2> QED
    BY <1>m, <2>1, CookiesStay
<1>10. ASSUME NEW q \in Requests, NEW d \in Devices, SendCode(q, d)
      PROVE  cookie'[dd] # None => Safe(cookie'[dd], row', era', twice' \cup undone')
  BY <1>10, <1>m, CookiesStay DEF SendCode
<1>11. ASSUME NEW q \in Requests, NEW d \in Devices, NEW u \in Users, SignIn(q, d, u)
      PROVE  cookie'[dd] # None => Safe(cookie'[dd], row', era', twice' \cup undone')
  BY <1>11, <1>m, CookiesStay DEF SignIn
<1>12. ASSUME NEW q \in Requests, NEW d \in Devices, NEW u \in Users, ProxyVisit(q, d, u)
      PROVE  cookie'[dd] # None => Safe(cookie'[dd], row', era', twice' \cup undone')
  BY <1>12, <1>m, CookiesStay DEF ProxyVisit
<1>13. ASSUME NEW q \in Requests, Login(q)
      PROVE  cookie'[dd] # None => Safe(cookie'[dd], row', era', twice' \cup undone')
  <2>1. req[q] # None /\ req[q].kind = "login" /\ req[q].copy # None
    BY <1>13, <1>t, Carried, NoneAssumption DEF Login, Is
  <2>2. SafeRequest(req[q], row', era', twice' \cup undone')
    BY <1>m, <2>1, RequestIsSafe
  <2>3. Safe(SignedIn(q, req[q].copy), row', era', twice' \cup undone')
    BY <2>1, <2>2 DEF SafeRequest, Safe, SignedIn
  <2> QED
    BY <1>13, <1>m, <2>3, AnswerIsSafe DEF Login
<1>14. ASSUME NEW q \in Requests, CodeIsRight(q)
      PROVE  cookie'[dd] # None => Safe(cookie'[dd], row', era', twice' \cup undone')
  <2> DEFINE p == [req[q].sess EXCEPT !.mfa = FALSE, !.first = FALSE]
  <2>1. req[q] # None /\ req[q].sess \in Payload /\ req[q].sess # None /\ Answer(q, p)
    BY <1>14, <1>t, Carried, NoneAssumption DEF CodeIsRight, Is
  <2>2. Safe(req[q].sess, row', era', twice' \cup undone')
    BY <1>m, <2>1, RequestIsSafe
  <2>3. p.user = req[q].sess.user /\ p.seed = req[q].sess.seed /\ ~ p.first
    BY <2>1 DEF Payload
  <2>4. Safe(p, row', era', twice' \cup undone')
    BY <2>2, <2>3 DEF Safe
  <2> QED
    BY <1>m, <2>1, <2>4, AnswerIsSafe
<1>15. ASSUME NEW q \in Requests, GiveUp(q)
      PROVE  cookie'[dd] # None => Safe(cookie'[dd], row', era', twice' \cup undone')
  BY <1>15, <1>m, CookiesStay DEF GiveUp
<1>16. ASSUME NEW u \in Users, NEW s \in 1 .. MaxEra, Provision(u, s)
      PROVE  cookie'[dd] # None => Safe(cookie'[dd], row', era', twice' \cup undone')
  BY <1>16, <1>m, CookiesStay DEF Provision
<1>17. ASSUME NEW c \in Codes, CodeExpires(c)
      PROVE  cookie'[dd] # None => Safe(cookie'[dd], row', era', twice' \cup undone')
  BY <1>17, <1>m, CookiesStay DEF CodeExpires
<1>18. ASSUME NEW c \in Codes, NEW u \in Users, AskRecovery(c, u)
      PROVE  cookie'[dd] # None => Safe(cookie'[dd], row', era', twice' \cup undone')
  BY <1>18, <1>m, CookiesStay DEF AskRecovery
<1>19. ASSUME NEW q \in Requests, NEW c \in Codes, SendRecovery(q, c)
      PROVE  cookie'[dd] # None => Safe(cookie'[dd], row', era', twice' \cup undone')
  BY <1>19, <1>m, CookiesStay DEF SendRecovery
<1>20. ASSUME NEW q \in Requests, NEW s \in 1 .. MaxEra, Recover(q, s)
      PROVE  cookie'[dd] # None => Safe(cookie'[dd], row', era', twice' \cup undone')
  BY <1>20, <1>m, CookiesStay DEF Recover
<1>21. ASSUME NEW u \in Users, NEW s \in 1 .. MaxEra, NEW x \in BOOLEAN, NewUser(u, s, x)
      PROVE  cookie'[dd] # None => Safe(cookie'[dd], row', era', twice' \cup undone')
  BY <1>21, <1>m, CookiesStay DEF NewUser
<1>22. ASSUME NEW u \in Users, NEW s \in 1 .. MaxEra, NEW x \in BOOLEAN, EditUser(u, s, x)
      PROVE  cookie'[dd] # None => Safe(cookie'[dd], row', era', twice' \cup undone')
  BY <1>22, <1>m, CookiesStay DEF EditUser
<1>23. ASSUME NEW u \in Users, DeleteUser(u)
      PROVE  cookie'[dd] # None => Safe(cookie'[dd], row', era', twice' \cup undone')
  BY <1>23, <1>m, CookiesStay DEF DeleteUser
<1>24. ASSUME NEW q \in Requests, NEW u \in Users, StartCommand(q, u)
      PROVE  cookie'[dd] # None => Safe(cookie'[dd], row', era', twice' \cup undone')
  BY <1>24, <1>m, CookiesStay DEF StartCommand
<1>25. ASSUME NEW q \in Requests, NEW s \in 1 .. MaxEra, NEW pw \in BOOLEAN,
            NEW weak \in BOOLEAN, NEW off \in BOOLEAN, CommandSeeds(q, s, pw, weak, off)
      PROVE  cookie'[dd] # None => Safe(cookie'[dd], row', era', twice' \cup undone')
  BY <1>25, <1>m, CookiesStay DEF CommandSeeds
<1>26. ASSUME NEW q \in Requests, NEW off \in BOOLEAN, CommandKeeps(q, off)
      PROVE  cookie'[dd] # None => Safe(cookie'[dd], row', era', twice' \cup undone')
  BY <1>26, <1>m, CookiesStay DEF CommandKeeps
<1>27. ASSUME NEW q \in Requests, NEW d \in Devices, NEW u \in Users, SendOnboarding(q, d, u)
      PROVE  cookie'[dd] # None => Safe(cookie'[dd], row', era', twice' \cup undone')
  BY <1>27, <1>m, CookiesStay DEF SendOnboarding
<1>28. ASSUME NEW q \in Requests, NEW s \in 1 .. MaxEra, Onboard(q, s)
      PROVE  cookie'[dd] # None => Safe(cookie'[dd], row', era', twice' \cup undone')
  <2> DEFINE u == req[q].user
             p == [user |-> u, seed |-> s, mfa |-> req[q].sess # None /\ req[q].sess.mfa,
                   ext |-> req[q].sess # None /\ req[q].sess.ext, first |-> FALSE]
  <2>1. u \in Users
    BY <1>28, <1>t, Carried DEF Onboard, Is
  <2>2. era[u] \in Nat /\ era'[u] = era[u] + 1 /\ s <= era[u] + 1
    BY <1>28, <1>t, <2>1 DEF Onboard, Create, SetSeed, TypeOK, Eras
  <2>3. Safe(p, row', era', twice' \cup undone')
    BY <2>2 DEF Safe
  <2>4. Answer(q, p)
    BY <1>28 DEF Onboard
  <2> QED
    BY <1>m, <2>3, <2>4, AnswerIsSafe
<1>29. CASE Restart
  BY <1>29, <1>m, CookiesStay DEF Restart
<1>30. CASE UNCHANGED vars
  BY <1>30, <1>m, CookiesStay DEF vars
<1> QED
  BY <1>1, <1>2, <1>3, <1>4, <1>5, <1>6, <1>7, <1>8, <1>9, <1>10, <1>11, <1>12, <1>13, <1>14, <1>15, <1>16, <1>17, <1>18, <1>19, <1>20, <1>21, <1>22, <1>23, <1>24, <1>25, <1>26, <1>27, <1>28, <1>29, <1>30
     DEF Next, Sessions, SigningIn, Recovery, Administration

LEMMA RequestsStay ==
  ASSUME IInv, \A v \in Users : Moved(v), NEW q \in Requests,
         req'[q] = req[q] \/ req'[q] = None
  PROVE  SafeRequest(req'[q], row', era', twice' \cup undone')
<1>1. req'[q] = None => SafeRequest(req'[q], row', era', twice' \cup undone')
  BY DEF SafeRequest
<1>2. req[q] # None => SafeRequest(req[q], row', era', twice' \cup undone')
  BY RequestIsSafe
<1> QED
  BY <1>1, <1>2

\* A request that begins holds a safe session, and the row as it is.
LEMMA BeginIsSafe ==
  ASSUME IInv, NEW q \in Requests, NEW kind, NEW d, NEW u \in Users, NEW r, NEW p, NEW c,
         Begin(q, kind, d, u, r, p, c), UNCHANGED <<row, era, twice, undone>>,
         r = None \/ r = row[u], kind = "login" => r = row[u],
         p # None => Safe(p, row, era, twice \cup undone),
         NEW x \in Requests
  PROVE  SafeRequest(req'[x], row', era', twice' \cup undone')
<1>1. \A v \in Users : Moved(v)
  BY Rests
<1>2. CASE x # q
  <2>1. req'[x] = req[x]
    BY <1>2 DEF Begin, IInv, TypeOK
  <2> QED
    BY <1>1, <2>1, RequestsStay
<1>3. CASE x = q
  <2>1. req'[q] = [kind |-> kind, dev |-> d, user |-> u, copy |-> r, sess |-> p, code |-> c]
    BY DEF Begin, IInv, TypeOK
  <2>2. r # None => r.seed <= era[u]
    BY DEF IInv, SeedIsKnown
  <2>3. SafeRequest([kind |-> kind, dev |-> d, user |-> u, copy |-> r, sess |-> p, code |-> c],
                    row, era, twice \cup undone)
    BY <2>2 DEF SafeRequest
  <2> QED
    BY <1>3, <2>1, <2>3
<1> QED
  BY <1>2, <1>3

LEMMA RequestStep ==
  IInv /\ [Next]_vars =>
     \A q \in Requests : SafeRequest(req'[q], row', era', twice' \cup undone')
<1> SUFFICES ASSUME IInv, [Next]_vars, NEW z \in Requests
             PROVE  SafeRequest(req'[z], row', era', twice' \cup undone')
  OBVIOUS
<1>m. \A v \in Users : Moved(v)
  BY RowStep
<1>t. TypeOK
  BY DEF IInv
<1>c. \A d \in Devices : cookie[d] # None =>
         Safe(cookie[d], row, era, twice \cup undone) /\ cookie[d].user \in Users
  BY DEF IInv, SessionsAreSafe, TypeOK, Payload
<1>1. ASSUME NEW q \in Requests, NEW d \in Devices, NEW kind \in {"session", "totpOff"}, Visit(q, d, kind)
      PROVE  SafeRequest(req'[z], row', era', twice' \cup undone')
  <2>1. cookie[d].user \in Users
    BY <1>1, <1>t, <1>c, NoneAssumption DEF Visit, Good, Free, TypeOK
  <2> QED
    BY <1>1, <1>c, <2>1, BeginIsSafe DEF Visit, Good, Free, history
<1>2. ASSUME NEW q \in Requests, Renew(q)
      PROVE  SafeRequest(req'[z], row', era', twice' \cup undone')
  <2>1. req'[z] = req[z] \/ req'[z] = None
    BY <1>2, <1>t DEF Renew, Ends, TypeOK
  <2> QED
    BY <1>m, <2>1, RequestsStay
<1>3. ASSUME NEW q \in Requests, Logout(q)
      PROVE  SafeRequest(req'[z], row', era', twice' \cup undone')
  <2>1. req'[z] = req[z] \/ req'[z] = None
    BY <1>3, <1>t DEF Logout, Ends, TypeOK
  <2> QED
    BY <1>m, <2>1, RequestsStay
<1>4. ASSUME NEW q \in Requests, RemoveTOTP(q)
      PROVE  SafeRequest(req'[z], row', era', twice' \cup undone')
  <2>1. req'[z] = req[z] \/ req'[z] = None
    BY <1>4, <1>t DEF RemoveTOTP, Ends, TypeOK
  <2> QED
    BY <1>m, <2>1, RequestsStay
<1>5. ASSUME NEW q \in Requests, NEW s \in 1 .. MaxEra, ChangePassword(q, s)
      PROVE  SafeRequest(req'[z], row', era', twice' \cup undone')
  <2>1. req'[z] = req[z] \/ req'[z] = None
    BY <1>5, <1>t DEF ChangePassword, Ends, TypeOK
  <2> QED
    BY <1>m, <2>1, RequestsStay
<1>6. ASSUME NEW q \in Requests, NEW s \in 1 .. MaxEra, ChangeProfile(q, s)
      PROVE  SafeRequest(req'[z], row', era', twice' \cup undone')
  <2>1. req'[z] = req[z] \/ req'[z] = None
    BY <1>6, <1>t DEF ChangeProfile, Ends, TypeOK
  <2> QED
    BY <1>m, <2>1, RequestsStay
<1>7. ASSUME NEW q \in Requests, NEW s \in 1 .. MaxEra, EnableTOTP(q, s)
      PROVE  SafeRequest(req'[z], row', era', twice' \cup undone')
  <2>1. req'[z] = req[z] \/ req'[z] = None
    BY <1>7, <1>t DEF EnableTOTP, Ends, TypeOK
  <2> QED
    BY <1>m, <2>1, RequestsStay
<1>8. ASSUME NEW d \in Devices, Refuse(d)
      PROVE  SafeRequest(req'[z], row', era', twice' \cup undone')
  BY <1>8, <1>m, RequestsStay DEF Refuse
<1>9. ASSUME NEW d \in Devices, Forget(d)
      PROVE  SafeRequest(req'[z], row', era', twice' \cup undone')
  BY <1>9, <1>m, RequestsStay DEF Forget
<1>10. ASSUME NEW q \in Requests, NEW d \in Devices, SendCode(q, d)
      PROVE  SafeRequest(req'[z], row', era', twice' \cup undone')
  <2>1. cookie[d].user \in Users
    BY <1>10, <1>t, <1>c, NoneAssumption DEF SendCode, Free, TypeOK
  <2> QED
    BY <1>10, <1>c, <2>1, BeginIsSafe DEF SendCode, Free, history
<1>11. ASSUME NEW q \in Requests, NEW d \in Devices, NEW u \in Users, SignIn(q, d, u)
      PROVE  SafeRequest(req'[z], row', era', twice' \cup undone')
  BY <1>11, <1>c, BeginIsSafe DEF SignIn, history
<1>12. ASSUME NEW q \in Requests, NEW d \in Devices, NEW u \in Users, ProxyVisit(q, d, u)
      PROVE  SafeRequest(req'[z], row', era', twice' \cup undone')
  <2>1. row[u].seed <= era[u]
    BY <1>12 DEF ProxyVisit, IInv, SeedIsKnown
  <2>2. Safe(Proxied(u), row, era, twice \cup undone)
    BY <2>1 DEF Safe, Proxied
  <2> QED
    BY <1>12, <2>2, BeginIsSafe DEF ProxyVisit, history
<1>13. ASSUME NEW q \in Requests, Login(q)
      PROVE  SafeRequest(req'[z], row', era', twice' \cup undone')
  <2>1. req'[z] = req[z] \/ req'[z] = None
    BY <1>13, <1>t DEF Login, Ends, TypeOK
  <2> QED
    BY <1>m, <2>1, RequestsStay
<1>14. ASSUME NEW q \in Requests, CodeIsRight(q)
      PROVE  SafeRequest(req'[z], row', era', twice' \cup undone')
  <2>1. req'[z] = req[z] \/ req'[z] = None
    BY <1>14, <1>t DEF CodeIsRight, Ends, TypeOK
  <2> QED
    BY <1>m, <2>1, RequestsStay
<1>15. ASSUME NEW q \in Requests, GiveUp(q)
      PROVE  SafeRequest(req'[z], row', era', twice' \cup undone')
  <2>1. req'[z] = req[z] \/ req'[z] = None
    BY <1>15, <1>t DEF GiveUp, Ends, TypeOK
  <2> QED
    BY <1>m, <2>1, RequestsStay
<1>16. ASSUME NEW u \in Users, NEW s \in 1 .. MaxEra, Provision(u, s)
      PROVE  SafeRequest(req'[z], row', era', twice' \cup undone')
  BY <1>16, <1>m, RequestsStay DEF Provision
<1>17. ASSUME NEW c \in Codes, CodeExpires(c)
      PROVE  SafeRequest(req'[z], row', era', twice' \cup undone')
  BY <1>17, <1>m, RequestsStay DEF CodeExpires
<1>18. ASSUME NEW c \in Codes, NEW u \in Users, AskRecovery(c, u)
      PROVE  SafeRequest(req'[z], row', era', twice' \cup undone')
  BY <1>18, <1>m, RequestsStay DEF AskRecovery
<1>19. ASSUME NEW q \in Requests, NEW c \in Codes, SendRecovery(q, c)
      PROVE  SafeRequest(req'[z], row', era', twice' \cup undone')
  <2>1. code[c] \in Users
    BY <1>19, <1>t, NoneAssumption DEF SendRecovery, TypeOK
  <2> QED
    BY <1>19, <2>1, BeginIsSafe DEF SendRecovery, history
<1>20. ASSUME NEW q \in Requests, NEW s \in 1 .. MaxEra, Recover(q, s)
      PROVE  SafeRequest(req'[z], row', era', twice' \cup undone')
  <2>1. req'[z] = req[z] \/ req'[z] = None
    BY <1>20, <1>t DEF Recover, Ends, TypeOK
  <2> QED
    BY <1>m, <2>1, RequestsStay
<1>21. ASSUME NEW u \in Users, NEW s \in 1 .. MaxEra, NEW x \in BOOLEAN, NewUser(u, s, x)
      PROVE  SafeRequest(req'[z], row', era', twice' \cup undone')
  BY <1>21, <1>m, RequestsStay DEF NewUser
<1>22. ASSUME NEW u \in Users, NEW s \in 1 .. MaxEra, NEW x \in BOOLEAN, EditUser(u, s, x)
      PROVE  SafeRequest(req'[z], row', era', twice' \cup undone')
  BY <1>22, <1>m, RequestsStay DEF EditUser
<1>23. ASSUME NEW u \in Users, DeleteUser(u)
      PROVE  SafeRequest(req'[z], row', era', twice' \cup undone')
  BY <1>23, <1>m, RequestsStay DEF DeleteUser
<1>24. ASSUME NEW q \in Requests, NEW u \in Users, StartCommand(q, u)
      PROVE  SafeRequest(req'[z], row', era', twice' \cup undone')
  BY <1>24, BeginIsSafe DEF StartCommand, history
<1>25. ASSUME NEW q \in Requests, NEW s \in 1 .. MaxEra, NEW pw \in BOOLEAN,
            NEW weak \in BOOLEAN, NEW off \in BOOLEAN, CommandSeeds(q, s, pw, weak, off)
      PROVE  SafeRequest(req'[z], row', era', twice' \cup undone')
  <2>1. req'[z] = req[z] \/ req'[z] = None
    BY <1>25, <1>t DEF CommandSeeds, Ends, TypeOK
  <2> QED
    BY <1>m, <2>1, RequestsStay
<1>26. ASSUME NEW q \in Requests, NEW off \in BOOLEAN, CommandKeeps(q, off)
      PROVE  SafeRequest(req'[z], row', era', twice' \cup undone')
  <2>1. req'[z] = req[z] \/ req'[z] = None
    BY <1>26, <1>t DEF CommandKeeps, Ends, TypeOK
  <2> QED
    BY <1>m, <2>1, RequestsStay
<1>27. ASSUME NEW q \in Requests, NEW d \in Devices, NEW u \in Users, SendOnboarding(q, d, u)
      PROVE  SafeRequest(req'[z], row', era', twice' \cup undone')
  BY <1>27, <1>c, BeginIsSafe DEF SendOnboarding, history
<1>28. ASSUME NEW q \in Requests, NEW s \in 1 .. MaxEra, Onboard(q, s)
      PROVE  SafeRequest(req'[z], row', era', twice' \cup undone')
  <2>1. req'[z] = req[z] \/ req'[z] = None
    BY <1>28, <1>t DEF Onboard, Ends, TypeOK
  <2> QED
    BY <1>m, <2>1, RequestsStay
<1>29. CASE Restart
  BY <1>29, <1>m, RequestsStay DEF Restart
<1>30. CASE UNCHANGED vars
  BY <1>30, <1>m, RequestsStay DEF vars
<1> QED
  BY <1>1, <1>2, <1>3, <1>4, <1>5, <1>6, <1>7, <1>8, <1>9, <1>10, <1>11, <1>12, <1>13, <1>14, <1>15, <1>16, <1>17, <1>18, <1>19, <1>20, <1>21, <1>22, <1>23, <1>24, <1>25, <1>26, <1>27, <1>28, <1>29, <1>30
     DEF Next, Sessions, SigningIn, Recovery, Administration

-----------------------------------------------------------------------------
(* Passwords.                                                              *)

LEMMA PasswordStep == IInv /\ [Next]_vars => PasswordIsLast'
<1> SUFFICES ASSUME IInv, [Next]_vars PROVE PasswordIsLast'
  OBVIOUS
<1>t. /\ TypeOK /\ PasswordIsLast /\ DOMAIN row = Users /\ DOMAIN last = Users
      /\ \A v \in Users : row[v] # None => row[v] \in Row
  BY DEF IInv, TypeOK
<1>1. ASSUME NEW q \in Requests, NEW d \in Devices, NEW kind \in {"session", "totpOff"}, Visit(q, d, kind)
      PROVE  PasswordIsLast'
  BY <1>1, <1>t DEF Visit, PasswordIsLast, history
<1>2. ASSUME NEW q \in Requests, Renew(q)
      PROVE  PasswordIsLast'
  BY <1>2, <1>t DEF Renew, PasswordIsLast, history
<1>3. ASSUME NEW q \in Requests, Logout(q)
      PROVE  PasswordIsLast'
  BY <1>3, <1>t DEF Logout, PasswordIsLast, history
<1>4. ASSUME NEW q \in Requests, RemoveTOTP(q)
      PROVE  PasswordIsLast'
  <2>1. req[q].user \in Users /\ [req[q].copy EXCEPT !.totp = FALSE].pw = req[q].copy.pw
    BY <1>4, <1>t, Carried DEF RemoveTOTP, Is, Row
  <2> QED
    BY <1>4, <1>t, <2>1 DEF RemoveTOTP, Update, Overwrites, PasswordIsLast
<1>5. ASSUME NEW q \in Requests, NEW s \in 1 .. MaxEra, ChangePassword(q, s)
      PROVE  PasswordIsLast'
  <2>1. row[req[q].user] # None => Seeded(Chosen(row[req[q].user], req[q].user), s).pw = era[req[q].user] + 1
    BY <1>5, <1>t, Carried DEF ChangePassword, Is, Seeded, Chosen, Row
  <2> QED
    BY <1>5, <1>t, <2>1 DEF ChangePassword, Update, PasswordIsLast
<1>6. ASSUME NEW q \in Requests, NEW s \in 1 .. MaxEra, ChangeProfile(q, s)
      PROVE  PasswordIsLast'
  <2>1. row[req[q].user] # None => (Seeded(row[req[q].user], s)).pw = row[req[q].user].pw
    BY <1>6, <1>t, Carried DEF ChangeProfile, Is, Seeded, Row
  <2> QED
    BY <1>6, <1>t, <2>1 DEF ChangeProfile, Update, PasswordIsLast
<1>7. ASSUME NEW q \in Requests, NEW s \in 1 .. MaxEra, EnableTOTP(q, s)
      PROVE  PasswordIsLast'
  <2>1. row[req[q].user] # None => ([Seeded(row[req[q].user], s) EXCEPT !.totp = TRUE]).pw = row[req[q].user].pw
    BY <1>7, <1>t, Carried DEF EnableTOTP, Is, Seeded, Row
  <2> QED
    BY <1>7, <1>t, <2>1 DEF EnableTOTP, Update, PasswordIsLast
<1>8. ASSUME NEW d \in Devices, Refuse(d)
      PROVE  PasswordIsLast'
  BY <1>8, <1>t DEF Refuse, PasswordIsLast, history
<1>9. ASSUME NEW d \in Devices, Forget(d)
      PROVE  PasswordIsLast'
  BY <1>9, <1>t DEF Forget, PasswordIsLast, history
<1>10. ASSUME NEW q \in Requests, NEW d \in Devices, SendCode(q, d)
      PROVE  PasswordIsLast'
  BY <1>10, <1>t DEF SendCode, PasswordIsLast, history
<1>11. ASSUME NEW q \in Requests, NEW d \in Devices, NEW u \in Users, SignIn(q, d, u)
      PROVE  PasswordIsLast'
  BY <1>11, <1>t DEF SignIn, PasswordIsLast, history
<1>12. ASSUME NEW q \in Requests, NEW d \in Devices, NEW u \in Users, ProxyVisit(q, d, u)
      PROVE  PasswordIsLast'
  BY <1>12, <1>t DEF ProxyVisit, PasswordIsLast, history
<1>13. ASSUME NEW q \in Requests, Login(q)
      PROVE  PasswordIsLast'
  <2>1. req[q].user \in Users
    BY <1>13, <1>t, Carried DEF Login, Is
  <2>2. CASE req[q].copy.weak
    <3>1. row[req[q].user] # None =>
             [row[req[q].user] EXCEPT !.pw = req[q].copy.pw, !.weak = FALSE].pw = req[q].copy.pw
      BY <1>t, <2>1 DEF Row
    <3> QED
      BY <1>13, <1>t, <2>1, <2>2, <3>1 DEF Login, Update, PasswordIsLast
  <2>3. CASE ~ req[q].copy.weak
    BY <1>13, <1>t, <2>3 DEF Login, PasswordIsLast
  <2> QED
    BY <2>2, <2>3
<1>14. ASSUME NEW q \in Requests, CodeIsRight(q)
      PROVE  PasswordIsLast'
  BY <1>14, <1>t DEF CodeIsRight, PasswordIsLast, history
<1>15. ASSUME NEW q \in Requests, GiveUp(q)
      PROVE  PasswordIsLast'
  BY <1>15, <1>t DEF GiveUp, PasswordIsLast, history
<1>16. ASSUME NEW u \in Users, NEW s \in 1 .. MaxEra, Provision(u, s)
      PROVE  PasswordIsLast'
  BY <1>16, <1>t DEF Provision, Create, PasswordIsLast
<1>17. ASSUME NEW c \in Codes, CodeExpires(c)
      PROVE  PasswordIsLast'
  BY <1>17, <1>t DEF CodeExpires, PasswordIsLast, history
<1>18. ASSUME NEW c \in Codes, NEW u \in Users, AskRecovery(c, u)
      PROVE  PasswordIsLast'
  BY <1>18, <1>t DEF AskRecovery, PasswordIsLast, history
<1>19. ASSUME NEW q \in Requests, NEW c \in Codes, SendRecovery(q, c)
      PROVE  PasswordIsLast'
  BY <1>19, <1>t DEF SendRecovery, PasswordIsLast, history
<1>20. ASSUME NEW q \in Requests, NEW s \in 1 .. MaxEra, Recover(q, s)
      PROVE  PasswordIsLast'
  <2>1. row[req[q].user] # None => Seeded(Chosen(row[req[q].user], req[q].user), s).pw = era[req[q].user] + 1
    BY <1>20, <1>t, Carried DEF Recover, Is, Seeded, Chosen, Row
  <2> QED
    BY <1>20, <1>t, <2>1 DEF Recover, Update, PasswordIsLast
<1>21. ASSUME NEW u \in Users, NEW s \in 1 .. MaxEra, NEW x \in BOOLEAN, NewUser(u, s, x)
      PROVE  PasswordIsLast'
  BY <1>21, <1>t DEF NewUser, Create, PasswordIsLast
<1>22. ASSUME NEW u \in Users, NEW s \in 1 .. MaxEra, NEW x \in BOOLEAN, EditUser(u, s, x)
      PROVE  PasswordIsLast'
  <2>1. /\ Seeded(Chosen(row[u], u), s).pw = era[u] + 1
        /\ Seeded(row[u], s).pw = row[u].pw
    BY <1>22, <1>t DEF EditUser, Seeded, Chosen, Row
  <2> QED
    BY <1>22, <1>t, <2>1 DEF EditUser, Update, PasswordIsLast
<1>23. ASSUME NEW u \in Users, DeleteUser(u)
      PROVE  PasswordIsLast'
  BY <1>23, <1>t DEF DeleteUser, PasswordIsLast, history
<1>24. ASSUME NEW q \in Requests, NEW u \in Users, StartCommand(q, u)
      PROVE  PasswordIsLast'
  BY <1>24, <1>t DEF StartCommand, PasswordIsLast, history
<1>25. ASSUME NEW q \in Requests, NEW s \in 1 .. MaxEra, NEW pw \in BOOLEAN,
            NEW weak \in BOOLEAN, NEW off \in BOOLEAN, CommandSeeds(q, s, pw, weak, off)
      PROVE  PasswordIsLast'
  <2> DEFINE u == req[q].user
             r == [req[q].copy EXCEPT !.totp = @ /\ ~ off]
             t == IF pw THEN [Chosen(r, u) EXCEPT !.weak = weak] ELSE r
  <2>1. u \in Users /\ r \in Row /\ r.pw = req[q].copy.pw
    <3>1. u \in Users /\ r \in Row
      BY <1>25, <1>t, AccountsAssumption, Carried, RowTypes DEF CommandSeeds, Is, TypeOK, Eras
    <3>2. req[q].copy \in Row
      BY <1>25, <1>t, Carried DEF CommandSeeds, Is
    <3> QED
      BY <3>1, <3>2 DEF Row
  <2>2. Seeded(t, s).pw = IF pw THEN era[u] + 1 ELSE r.pw
    BY <2>1 DEF Seeded, Chosen, Row
  <2>3. Update(u, Seeded(t, s))
    BY <1>25 DEF CommandSeeds
  <2>4. last' = [last EXCEPT ![u] = IF pw /\ row[u] # None THEN era[u] + 1 ELSE @]
    BY <1>25 DEF CommandSeeds
  <2>5. undone' = IF row[u] # None /\ row[u] # req[q].copy THEN undone \cup {u} ELSE undone
    BY <1>25 DEF CommandSeeds, Overwrites
  <2> HIDE DEF t, r
  <2> QED
    BY <1>t, <2>1, <2>2, <2>3, <2>4, <2>5 DEF Update, PasswordIsLast
<1>26. ASSUME NEW q \in Requests, NEW off \in BOOLEAN, CommandKeeps(q, off)
      PROVE  PasswordIsLast'
  <2>1. /\ req[q].user \in Users
        /\ [req[q].copy EXCEPT !.totp = @ /\ ~ off].pw = req[q].copy.pw
    BY <1>26, <1>t, Carried DEF CommandKeeps, Is, Row
  <2> QED
    BY <1>26, <1>t, <2>1 DEF CommandKeeps, Update, Overwrites, PasswordIsLast
<1>27. ASSUME NEW q \in Requests, NEW d \in Devices, NEW u \in Users, SendOnboarding(q, d, u)
      PROVE  PasswordIsLast'
  BY <1>27, <1>t DEF SendOnboarding, PasswordIsLast, history
<1>28. ASSUME NEW q \in Requests, NEW s \in 1 .. MaxEra, Onboard(q, s)
      PROVE  PasswordIsLast'
  <2>1. req[q].user \in Users
    BY <1>28, <1>t, Carried DEF Onboard, Is
  <2> QED
    BY <1>28, <1>t, <2>1 DEF Onboard, Create, PasswordIsLast
<1>29. CASE Restart
  BY <1>29, <1>t DEF PasswordIsLast, Restart, history
<1>30. CASE UNCHANGED vars
  BY <1>30, <1>t DEF PasswordIsLast, vars
<1> QED
  BY <1>1, <1>2, <1>3, <1>4, <1>5, <1>6, <1>7, <1>8, <1>9, <1>10, <1>11, <1>12, <1>13, <1>14, <1>15, <1>16, <1>17, <1>18, <1>19, <1>20, <1>21, <1>22, <1>23, <1>24, <1>25, <1>26, <1>27, <1>28, <1>29, <1>30
     DEF Next, Sessions, SigningIn, Recovery, Administration

-----------------------------------------------------------------------------
(* The theorems.                                                           *)

LEMMA IInvInit == Init => IInv
BY AccountsAssumption
DEF Init, IInv, TypeOK, Eras, SeedIsKnown, SeedIsLast, SessionsAreSafe, SafeRequest, PasswordIsLast

LEMMA IInvStep == IInv /\ [Next]_vars => IInv'
<1> SUFFICES ASSUME IInv, [Next]_vars PROVE IInv'
  OBVIOUS
<1>1. TypeOK'
  BY TypeStep DEF IInv
<1>2. SeedIsKnown' /\ SeedIsLast'
  BY RowStep DEF Moved, SeedIsKnown, SeedIsLast
<1>3. SessionsAreSafe'
  BY CookieStep, RequestStep DEF SessionsAreSafe
<1>4. PasswordIsLast'
  BY PasswordStep
<1> QED
  BY <1>1, <1>2, <1>3, <1>4 DEF IInv

LEMMA IInvHolds == Spec => []IInv
<1>1. Init => IInv
  BY IInvInit
<1>2. IInv /\ [Next]_vars => IInv'
  BY IInvStep
<1> QED
  BY <1>1, <1>2, PTL DEF Spec

\* Every variable keeps its type, and every request what its handler needs:
\* the session and the copy of the row that it was authenticated with.
THEOREM TypeCorrect == Spec => []TypeOK
<1>1. IInv => TypeOK
  BY DEF IInv
<1> QED
  BY <1>1, IInvHolds, PTL

\* "Set or reset seed to logout every instance" (app/user.go:166): a session
\* that was made before the last seed was drawn opens nothing.
THEOREM SeedEndsSessions == Spec => []SessionsEnd
<1>1. IInv => SessionsEnd
  BY DEF IInv, TypeOK, Payload, SeedIsLast, SessionsEnd, Opens, Good
<1> QED
  BY <1>1, IInvHolds, PTL

\* No change of a password is lost to a sign-in, a form or a command that
\* read the row before it, unless that one overwrote what it did not read.
THEOREM PasswordStays == Spec => []PasswordIsLast
<1>1. IInv => PasswordIsLast
  BY DEF IInv
<1> QED
  BY <1>1, IInvHolds, PTL

\* A sign-in that read the row before the second factor was set does not get
\* past it, and neither does a session older than the factor.
THEOREM FactorIsNotSkipped == Spec => []FactorIsAsked
<1>1. IInv => FactorIsAsked
  <2> SUFFICES ASSUME IInv, NEW d \in Devices, Opens(d),
                      cookie[d].user \notin twice \cup undone, row[cookie[d].user].totp
               PROVE  ~ cookie[d].first
    BY DEF FactorIsAsked
  <2>1. cookie[d] # None /\ ~ cookie[d].mfa /\ row[cookie[d].user] # None
        /\ row[cookie[d].user].seed = cookie[d].seed
    BY DEF Opens, Good
  <2>2. Safe(cookie[d], row, era, twice \cup undone)
    BY <2>1 DEF IInv, SessionsAreSafe
  <2> QED
    BY <2>1, <2>2 DEF Safe
<1> QED
  BY <1>1, IInvHolds, PTL

-----------------------------------------------------------------------------
(* The device grant: types.                                                *)

LEMMA DeviceTypeInit == DeviceInit => DeviceTypeOK
  BY DeviceAssumption DEF DeviceInit, DeviceTypeOK, Idle, PollStates, VisitStates

LEMMA DeviceTypeStep ==
    DeviceTypeOK /\ [DeviceNext]_deviceVars => DeviceTypeOK'
<1> SUFFICES ASSUME DeviceTypeOK, [DeviceNext]_deviceVars
              PROVE  DeviceTypeOK'
  OBVIOUS
<1> USE DeviceAssumption
      DEF DeviceTypeOK, PollStates, VisitStates, Idle, deviceCode, accounts, past,
          DeviceRequests, Mishaps, Made
<1>1. CASE Issue
  BY <1>1 DEF Issue
<1>2. CASE Lapse
  BY <1>2 DEF Lapse
<1>3. ASSUME NEW p \in Polls, PollPending(p) PROVE DeviceTypeOK'
  BY <1>3, SMTT(30) DEF PollPending, Load
<1>4. ASSUME NEW p \in Polls, PollTouches(p) PROVE DeviceTypeOK'
  BY <1>4 DEF PollTouches, Store, StoreFails
<1>5. ASSUME NEW p \in Polls, PollGranted(p) PROVE DeviceTypeOK'
  BY <1>5 DEF PollGranted, Load
<1>6. ASSUME NEW p \in Polls, PollCreates(p) PROVE DeviceTypeOK'
  <2>1. PICK t \in Tokens \ Made :
          /\ owner' = [owner EXCEPT ![t] = poll[p].req.user]
          /\ tokens' = tokens \cup {t}
          /\ poll' = [poll EXCEPT ![p] =
                        [pc |-> "bind", req |-> [@.req EXCEPT !.token = t]]]
    BY <1>6 DEF PollCreates
  <2>2. poll[p].req \in DeviceRequests /\ poll[p].req.user \in users
    BY <1>6 DEF PollCreates
  <2>3. [poll[p].req EXCEPT !.token = t] \in DeviceRequests
    BY <2>2
  <2>4. poll' \in [Polls -> PollStates]
    BY <2>1, <2>3
  <2>5. owner' \in [Tokens -> UserIds \cup {Nil}] /\ Made' = Made \cup {t}
    BY <2>1, <2>2
  <2>6. \A q \in Polls : poll'[q].pc = "bind" => poll'[q].req.token \in Made'
    BY <2>1, <2>2, <2>5
  <2>7. tokens' \subseteq {s \in Tokens : owner'[s] \in users}
    BY <2>1, <2>2
  <2>8. given' \subseteq {s \in Tokens : owner'[s] # Nil}
    BY <2>1, <2>2, <1>6 DEF PollCreates
  <2> QED
    BY <1>6, <2>4, <2>5, <2>6, <2>7, <2>8 DEF PollCreates
<1>7. ASSUME NEW p \in Polls, PollBinds(p) PROVE DeviceTypeOK'
  BY <1>7 DEF PollBinds, Store, StoreFails
<1>8. ASSUME NEW p \in Polls, PollRepeats(p) \/ PollFails(p) PROVE DeviceTypeOK'
  BY <1>8 DEF PollRepeats, PollFails
<1>9. ASSUME NEW v \in Visits, NEW u \in UserIds, NEW grant \in BOOLEAN,
             Decide(v, u, grant)
      PROVE  DeviceTypeOK'
  BY <1>9 DEF Decide, Load
<1>10. ASSUME NEW v \in Visits, DecisionStored(v) PROVE DeviceTypeOK'
  BY <1>10 DEF DecisionStored, Store, StoreFails
<1>11. CASE Tick \/ ClientLapses
  <2>1. CASE Tick
    BY <2>1 DEF Tick
  <2>2. CASE ClientLapses
    BY <2>2 DEF ClientLapses
  <2> QED
    BY <1>11, <2>1, <2>2
<1>12. ASSUME NEW u \in UserIds, RemoveUser(u) PROVE DeviceTypeOK'
  BY <1>12 DEF RemoveUser
<1>13. ASSUME NEW t \in Tokens, Revoke(t) PROVE DeviceTypeOK'
  BY <1>13 DEF Revoke
<1>14. CASE RestartServer
  BY <1>14 DEF RestartServer
<1>15. CASE UNCHANGED deviceVars
  BY <1>15 DEF deviceVars
<1> HIDE DEF DeviceTypeOK
<1> QED
  BY <1>1, <1>2, <1>3, <1>4, <1>5, <1>6, <1>7, <1>8, <1>9, <1>10, <1>11,
     <1>12, <1>13, <1>14, <1>15
  DEF DeviceNext, Poll

\* The variables of the flow stay in their ranges; a token that a request, the
\* table or the device has was made, and a row's user is there.
THEOREM DeviceTypeCorrect == DeviceSpec => []DeviceTypeOK
  BY DeviceTypeInit, DeviceTypeStep, PTL DEF DeviceSpec

-----------------------------------------------------------------------------
(* The inductive invariant, part by part.                                  *)

\* Whoever a granted request names, in the store or in a handler, granted it.
GrantInv ==
    /\ TokenHasGrant
    /\ (entry # Nil /\ entry.status = "granted") => entry.user \in granted
    /\ \A p \in Polls :
          /\ poll[p].pc = "touch" => poll[p].req.status = "pending"
          /\ poll[p].pc \in {"grant", "bind"} =>
                poll[p].req.status = "granted" /\ poll[p].req.user \in granted
    /\ \A v \in Visits :
          visit[v].pc = "decided" =>
             \/ visit[v].req.status = "denied"
             \/ visit[v].req.status = "granted" /\ visit[v].req.user \in granted

LEMMA GrantStep ==
    DeviceTypeOK /\ GrantInv /\ [DeviceNext]_deviceVars => GrantInv'
<1> SUFFICES ASSUME DeviceTypeOK, GrantInv, [DeviceNext]_deviceVars
              PROVE  GrantInv'
  OBVIOUS
<1> USE DeviceAssumption
      DEF DeviceTypeOK, PollStates, VisitStates, Idle, deviceCode, accounts, past,
          GrantInv, TokenHasGrant, Made, DeviceRequests
<1>1. CASE Issue
  BY <1>1 DEF Issue
<1>2. CASE Lapse
  BY <1>2 DEF Lapse
<1>3. ASSUME NEW p \in Polls, PollPending(p) PROVE GrantInv'
  BY <1>3, SMTT(30) DEF PollPending, Load
<1>4. ASSUME NEW p \in Polls, PollTouches(p) PROVE GrantInv'
  BY <1>4 DEF PollTouches, Store, StoreFails
<1>5. ASSUME NEW p \in Polls, PollGranted(p) PROVE GrantInv'
  BY <1>5 DEF PollGranted, Load
<1>6. ASSUME NEW p \in Polls, PollCreates(p) PROVE GrantInv'
  BY <1>6 DEF PollCreates
<1>7. ASSUME NEW p \in Polls, PollBinds(p) PROVE GrantInv'
  BY <1>7 DEF PollBinds, Store, StoreFails
<1>8. ASSUME NEW p \in Polls, PollRepeats(p) \/ PollFails(p) PROVE GrantInv'
  BY <1>8 DEF PollRepeats, PollFails
<1>9. ASSUME NEW v \in Visits, NEW u \in UserIds, NEW grant \in BOOLEAN,
             Decide(v, u, grant)
      PROVE  GrantInv'
  BY <1>9 DEF Decide, Load
<1>10. ASSUME NEW v \in Visits, DecisionStored(v) PROVE GrantInv'
  BY <1>10 DEF DecisionStored, Store, StoreFails
<1>11. CASE Tick \/ ClientLapses
  BY <1>11 DEF Tick, ClientLapses
<1>12. ASSUME NEW u \in UserIds, RemoveUser(u) PROVE GrantInv'
  BY <1>12 DEF RemoveUser
<1>13. ASSUME NEW t \in Tokens, Revoke(t) PROVE GrantInv'
  BY <1>13 DEF Revoke
<1>14. CASE RestartServer
  BY <1>14, SMTT(30) DEF RestartServer
<1>15. CASE UNCHANGED deviceVars
  BY <1>15 DEF deviceVars
<1> HIDE DEF DeviceTypeOK, GrantInv, TokenHasGrant
<1> QED
  BY <1>1, <1>2, <1>3, <1>4, <1>5, <1>6, <1>7, <1>8, <1>9, <1>10, <1>11,
     <1>12, <1>13, <1>14, <1>15
  DEF DeviceNext, Poll

\* Nothing happens before the code is issued.
IssueInv ==
    expires = Nil =>
       /\ entry = Nil /\ due = Nil /\ answered = Nil /\ Made = {}
       /\ \A p \in Polls : poll[p] = Idle
       /\ \A v \in Visits : visit[v] = Idle

LEMMA IssueStep ==
    DeviceTypeOK /\ IssueInv /\ [DeviceNext]_deviceVars => IssueInv'
<1> SUFFICES ASSUME DeviceTypeOK, IssueInv, [DeviceNext]_deviceVars
              PROVE  IssueInv'
  OBVIOUS
<1> USE DeviceAssumption
      DEF DeviceTypeOK, PollStates, VisitStates, Idle, deviceCode, accounts, past,
          IssueInv, Made
<1>1. CASE Issue
  BY <1>1 DEF Issue
<1>2. CASE Lapse
  BY <1>2 DEF Lapse
<1>3. ASSUME NEW p \in Polls, PollPending(p) PROVE IssueInv'
  BY <1>3, SMTT(30) DEF PollPending, Load
<1>4. ASSUME NEW p \in Polls, PollTouches(p) PROVE IssueInv'
  BY <1>4 DEF PollTouches, Store, StoreFails
<1>5. ASSUME NEW p \in Polls, PollGranted(p) PROVE IssueInv'
  BY <1>5 DEF PollGranted, Load
<1>6. ASSUME NEW p \in Polls, PollCreates(p) PROVE IssueInv'
  BY <1>6 DEF PollCreates
<1>7. ASSUME NEW p \in Polls, PollBinds(p) PROVE IssueInv'
  BY <1>7 DEF PollBinds, Store, StoreFails
<1>8. ASSUME NEW p \in Polls, PollRepeats(p) \/ PollFails(p) PROVE IssueInv'
  BY <1>8 DEF PollRepeats, PollFails
<1>9. ASSUME NEW v \in Visits, NEW u \in UserIds, NEW grant \in BOOLEAN,
             Decide(v, u, grant)
      PROVE  IssueInv'
  BY <1>9 DEF Decide, Load
<1>10. ASSUME NEW v \in Visits, DecisionStored(v) PROVE IssueInv'
  BY <1>10 DEF DecisionStored, Store, StoreFails
<1>11. CASE Tick \/ ClientLapses
  BY <1>11 DEF Tick, ClientLapses
<1>12. ASSUME NEW u \in UserIds, RemoveUser(u) PROVE IssueInv'
  BY <1>12 DEF RemoveUser
<1>13. ASSUME NEW t \in Tokens, Revoke(t) PROVE IssueInv'
  BY <1>13 DEF Revoke
<1>14. CASE RestartServer
  BY <1>14, SMTT(30) DEF RestartServer
<1>15. CASE UNCHANGED deviceVars
  BY <1>15 DEF deviceVars
<1> HIDE DEF DeviceTypeOK, IssueInv
<1> QED
  BY <1>1, <1>2, <1>3, <1>4, <1>5, <1>6, <1>7, <1>8, <1>9, <1>10, <1>11,
     <1>12, <1>13, <1>14, <1>15
  DEF DeviceNext, Poll

\* As long as no two handlers overlap, at most one of them is between its load
\* and its store, and what it will store still agrees with the store.
SoloInv ==
    "overlap" \notin mishap =>
       /\ \A p, q \in Polls : poll[p] # Idle /\ poll[q] # Idle => p = q
       /\ \A v, w \in Visits : visit[v] # Idle /\ visit[w] # Idle => v = w
       /\ \A p \in Polls, v \in Visits : poll[p] = Idle \/ visit[v] = Idle
       /\ entry # Nil => \A p \in Polls :
             /\ poll[p].pc = "touch" => entry.status = "pending"
             /\ poll[p].pc \in {"grant", "bind"} =>
                   /\ poll[p].req.status = entry.status
                   /\ poll[p].req.user = entry.user
             /\ poll[p].pc \in {"touch", "grant"} => poll[p].req.token = entry.token
             /\ poll[p].pc = "bind" => entry.token = Nil
       /\ entry # Nil => \A v \in Visits : visit[v].pc = "decided" =>
             entry.status = "pending" /\ visit[v].req.token = entry.token

LEMMA SoloStep ==
    DeviceTypeOK /\ IssueInv /\ GrantInv /\ SoloInv /\ [DeviceNext]_deviceVars => SoloInv'
<1> SUFFICES ASSUME DeviceTypeOK, IssueInv, GrantInv, SoloInv, [DeviceNext]_deviceVars
              PROVE  SoloInv'
  OBVIOUS
<1> USE DeviceAssumption
      DEF DeviceTypeOK, PollStates, VisitStates, Idle, deviceCode, accounts, past,
          IssueInv, GrantInv, SoloInv, Busy, DeviceRequests
<1>1. CASE Issue
  BY <1>1 DEF Issue
<1>2. CASE Lapse
  BY <1>2 DEF Lapse
<1>3. ASSUME NEW p \in Polls, PollPending(p) PROVE SoloInv'
  BY <1>3, SMTT(30) DEF PollPending, Load
<1>4. ASSUME NEW p \in Polls, PollTouches(p) PROVE SoloInv'
  BY <1>4 DEF PollTouches, Store, StoreFails
<1>5. ASSUME NEW p \in Polls, PollGranted(p) PROVE SoloInv'
  BY <1>5 DEF PollGranted, Load
<1>6. ASSUME NEW p \in Polls, PollCreates(p) PROVE SoloInv'
  BY <1>6 DEF PollCreates
<1>7. ASSUME NEW p \in Polls, PollBinds(p) PROVE SoloInv'
  BY <1>7 DEF PollBinds, Store, StoreFails
<1>8. ASSUME NEW p \in Polls, PollRepeats(p) \/ PollFails(p) PROVE SoloInv'
  BY <1>8 DEF PollRepeats, PollFails
<1>9. ASSUME NEW v \in Visits, NEW u \in UserIds, NEW grant \in BOOLEAN,
             Decide(v, u, grant)
      PROVE  SoloInv'
  BY <1>9 DEF Decide, Load
<1>10. ASSUME NEW v \in Visits, DecisionStored(v) PROVE SoloInv'
  BY <1>10 DEF DecisionStored, Store, StoreFails
<1>11. CASE Tick \/ ClientLapses
  BY <1>11 DEF Tick, ClientLapses
<1>12. ASSUME NEW u \in UserIds, RemoveUser(u) PROVE SoloInv'
  BY <1>12 DEF RemoveUser
<1>13. ASSUME NEW t \in Tokens, Revoke(t) PROVE SoloInv'
  BY <1>13 DEF Revoke
<1>14. CASE RestartServer
  BY <1>14, SMTT(30) DEF RestartServer
<1>15. CASE UNCHANGED deviceVars
  BY <1>15 DEF deviceVars
<1> HIDE DEF DeviceTypeOK, IssueInv, GrantInv, SoloInv
<1> QED
  BY <1>1, <1>2, <1>3, <1>4, <1>5, <1>6, <1>7, <1>8, <1>9, <1>10, <1>11,
     <1>12, <1>13, <1>14, <1>15
  DEF DeviceNext, Poll

\* Without an overlap or a failure, a request that has no token means that
\* none was made, except while a poll carries the new one to the store.
TokenInv ==
    mishap \cap {"overlap", "failed"} = {} =>
       /\ \A s, t \in Made : s = t
       /\ \A p \in Polls :
             /\ (poll[p].pc \in {"touch", "grant"} /\ poll[p].req.token = Nil)
                => Made = {}
             /\ poll[p].pc = "bind" => Made = {poll[p].req.token}
       /\ \A v \in Visits :
             (visit[v].pc = "decided" /\ visit[v].req.token = Nil) => Made = {}
       /\ (entry # Nil /\ entry.token = Nil)
          => Made = {} \/ \E p \in Polls : poll[p].pc = "bind"

LEMMA TokenStep ==
    DeviceTypeOK /\ IssueInv /\ SoloInv /\ TokenInv /\ [DeviceNext]_deviceVars => TokenInv'
<1> SUFFICES ASSUME DeviceTypeOK, IssueInv, SoloInv, TokenInv, [DeviceNext]_deviceVars
              PROVE  TokenInv'
  OBVIOUS
<1> USE DeviceAssumption
      DEF DeviceTypeOK, PollStates, VisitStates, Idle, deviceCode, accounts, past,
          IssueInv, SoloInv, TokenInv, Busy, Made, DeviceRequests
<1>1. CASE Issue
  BY <1>1 DEF Issue
<1>2. CASE Lapse
  BY <1>2 DEF Lapse
<1>3. ASSUME NEW p \in Polls, PollPending(p) PROVE TokenInv'
  <2> DEFINE x == [entry EXCEPT !.last = now]
  <2>1. /\ entry # Nil /\ x.token = entry.token
        /\ poll' = [poll EXCEPT ![p] = [pc |-> "touch", req |-> x]]
        /\ mishap' = IF Busy = {} THEN mishap ELSE mishap \cup {"overlap"}
        /\ UNCHANGED <<entry, owner, visit>>
    BY <1>3, SMTT(30) DEF PollPending, Load
  <2> QED
    BY <2>1
<1>4. ASSUME NEW p \in Polls, PollTouches(p) PROVE TokenInv'
  <2>1. CASE Store(poll[p].req)
    BY <1>4, <2>1 DEF PollTouches, Store
  <2>2. CASE StoreFails
    BY <1>4, <2>2 DEF PollTouches, StoreFails
  <2> QED
    BY <1>4, <2>1, <2>2 DEF PollTouches
<1>5. ASSUME NEW p \in Polls, PollGranted(p) PROVE TokenInv'
  <2>1. /\ entry # Nil
        /\ poll' = [poll EXCEPT ![p] = [pc |-> "grant", req |-> entry]]
        /\ mishap' = IF Busy = {} THEN mishap ELSE mishap \cup {"overlap"}
        /\ UNCHANGED <<entry, owner, visit>>
    BY <1>5 DEF PollGranted, Load
  <2> QED
    BY <2>1
<1>6. ASSUME NEW p \in Polls, PollCreates(p) PROVE TokenInv'
  BY <1>6 DEF PollCreates
<1>7. ASSUME NEW p \in Polls, PollBinds(p) PROVE TokenInv'
  <2>1. CASE Store(poll[p].req)
    BY <1>7, <2>1 DEF PollBinds, Store
  <2>2. CASE StoreFails
    BY <1>7, <2>2 DEF PollBinds, StoreFails
  <2> QED
    BY <1>7, <2>1, <2>2 DEF PollBinds
<1>8. ASSUME NEW p \in Polls, PollRepeats(p) \/ PollFails(p) PROVE TokenInv'
  BY <1>8 DEF PollRepeats, PollFails
<1>9. ASSUME NEW v \in Visits, NEW u \in UserIds, NEW grant \in BOOLEAN,
             Decide(v, u, grant)
      PROVE  TokenInv'
  BY <1>9 DEF Decide, Load
<1>10. ASSUME NEW v \in Visits, DecisionStored(v) PROVE TokenInv'
  BY <1>10 DEF DecisionStored, Store, StoreFails
<1>11. CASE Tick \/ ClientLapses
  BY <1>11 DEF Tick, ClientLapses
<1>12. ASSUME NEW u \in UserIds, RemoveUser(u) PROVE TokenInv'
  BY <1>12 DEF RemoveUser
<1>13. ASSUME NEW t \in Tokens, Revoke(t) PROVE TokenInv'
  BY <1>13 DEF Revoke
<1>14. CASE RestartServer
  <2>1. /\ poll' = [p \in Polls |-> Idle] /\ visit' = [v \in Visits |-> Idle]
        /\ mishap' = IF Busy = {} THEN mishap ELSE mishap \cup {"failed"}
        /\ entry' \in {Nil, entry} /\ UNCHANGED owner
    BY <1>14, SMTT(30) DEF RestartServer
  <2>2. CASE Busy = {}
    BY <2>1, <2>2
  <2>3. CASE Busy # {}
    BY <2>1, <2>3
  <2> QED
    BY <2>2, <2>3
<1>15. CASE UNCHANGED deviceVars
  <2>1. UNCHANGED <<entry, owner, poll, visit, mishap>>
    BY <1>15 DEF deviceVars
  <2> QED
    BY <2>1
<1> HIDE DEF DeviceTypeOK, IssueInv, SoloInv, TokenInv
<1> QED
  BY <1>1, <1>2, <1>3, <1>4, <1>5, <1>6, <1>7, <1>8, <1>9, <1>10, <1>11,
     <1>12, <1>13, <1>14, <1>15
  DEF DeviceNext, Poll

\* The store drops the entry when the request expires, and at no other time;
\* only a request that was stored late is kept.
DueInv ==
    /\ due # Nil => due = expires /\ now <= due
    /\ (entry # Nil /\ "late" \notin mishap) => due = expires

LEMMA DueStep ==
    DeviceTypeOK /\ IssueInv /\ DueInv /\ [DeviceNext]_deviceVars => DueInv'
<1> SUFFICES ASSUME DeviceTypeOK, IssueInv, DueInv, [DeviceNext]_deviceVars
              PROVE  DueInv'
  OBVIOUS
<1> USE DeviceAssumption
      DEF DeviceTypeOK, PollStates, VisitStates, Idle, deviceCode, accounts, past,
          IssueInv, DueInv
<1>1. CASE Issue
  BY <1>1 DEF Issue
<1>2. CASE Lapse
  BY <1>2 DEF Lapse
<1>3. ASSUME NEW p \in Polls, PollPending(p) PROVE DueInv'
  BY <1>3, SMTT(30) DEF PollPending, Load
<1>4. ASSUME NEW p \in Polls, PollTouches(p) PROVE DueInv'
  BY <1>4 DEF PollTouches, Store, StoreFails
<1>5. ASSUME NEW p \in Polls, PollGranted(p) PROVE DueInv'
  BY <1>5 DEF PollGranted, Load
<1>6. ASSUME NEW p \in Polls, PollCreates(p) PROVE DueInv'
  BY <1>6 DEF PollCreates
<1>7. ASSUME NEW p \in Polls, PollBinds(p) PROVE DueInv'
  BY <1>7 DEF PollBinds, Store, StoreFails
<1>8. ASSUME NEW p \in Polls, PollRepeats(p) \/ PollFails(p) PROVE DueInv'
  BY <1>8 DEF PollRepeats, PollFails
<1>9. ASSUME NEW v \in Visits, NEW u \in UserIds, NEW grant \in BOOLEAN,
             Decide(v, u, grant)
      PROVE  DueInv'
  BY <1>9 DEF Decide, Load
<1>10. ASSUME NEW v \in Visits, DecisionStored(v) PROVE DueInv'
  BY <1>10 DEF DecisionStored, Store, StoreFails
<1>11. CASE Tick \/ ClientLapses
  BY <1>11 DEF Tick, ClientLapses
<1>12. ASSUME NEW u \in UserIds, RemoveUser(u) PROVE DueInv'
  BY <1>12 DEF RemoveUser
<1>13. ASSUME NEW t \in Tokens, Revoke(t) PROVE DueInv'
  BY <1>13 DEF Revoke
<1>14. CASE RestartServer
  BY <1>14, SMTT(30) DEF RestartServer
<1>15. CASE UNCHANGED deviceVars
  BY <1>15 DEF deviceVars
<1> HIDE DEF DeviceTypeOK, IssueInv, DueInv
<1> QED
  BY <1>1, <1>2, <1>3, <1>4, <1>5, <1>6, <1>7, <1>8, <1>9, <1>10, <1>11,
     <1>12, <1>13, <1>14, <1>15
  DEF DeviceNext, Poll

\* The last poll is in the store, or on its way to it.
PaceInv ==
    mishap = {} =>
       /\ \A p \in Polls : poll[p].pc = "touch" => poll[p].req.last = answered
       /\ (entry # Nil /\ answered # Nil /\ entry.status = "pending")
          => \/ entry.last = answered
             \/ \E p \in Polls : poll[p].pc = "touch"

LEMMA PaceStep ==
    DeviceTypeOK /\ IssueInv /\ GrantInv /\ SoloInv /\ PaceInv /\ [DeviceNext]_deviceVars
    => PaceInv'
<1> SUFFICES ASSUME DeviceTypeOK, IssueInv, GrantInv, SoloInv, PaceInv, [DeviceNext]_deviceVars
              PROVE  PaceInv'
  OBVIOUS
<1> USE DeviceAssumption
      DEF DeviceTypeOK, PollStates, VisitStates, Idle, deviceCode, accounts, past,
          IssueInv, GrantInv, SoloInv, PaceInv, Busy, DeviceRequests
<1>1. CASE Issue
  BY <1>1 DEF Issue
<1>2. CASE Lapse
  BY <1>2 DEF Lapse
<1>3. ASSUME NEW p \in Polls, PollPending(p) PROVE PaceInv'
  BY <1>3, SMTT(30) DEF PollPending, Load
<1>4. ASSUME NEW p \in Polls, PollTouches(p) PROVE PaceInv'
  BY <1>4 DEF PollTouches, Store, StoreFails
<1>5. ASSUME NEW p \in Polls, PollGranted(p) PROVE PaceInv'
  BY <1>5 DEF PollGranted, Load
<1>6. ASSUME NEW p \in Polls, PollCreates(p) PROVE PaceInv'
  BY <1>6 DEF PollCreates
<1>7. ASSUME NEW p \in Polls, PollBinds(p) PROVE PaceInv'
  BY <1>7 DEF PollBinds, Store, StoreFails
<1>8. ASSUME NEW p \in Polls, PollRepeats(p) \/ PollFails(p) PROVE PaceInv'
  BY <1>8 DEF PollRepeats, PollFails
<1>9. ASSUME NEW v \in Visits, NEW u \in UserIds, NEW grant \in BOOLEAN,
             Decide(v, u, grant)
      PROVE  PaceInv'
  BY <1>9 DEF Decide, Load
<1>10. ASSUME NEW v \in Visits, DecisionStored(v) PROVE PaceInv'
  BY <1>10 DEF DecisionStored, Store, StoreFails
<1>11. CASE Tick \/ ClientLapses
  BY <1>11 DEF Tick, ClientLapses
<1>12. ASSUME NEW u \in UserIds, RemoveUser(u) PROVE PaceInv'
  BY <1>12 DEF RemoveUser
<1>13. ASSUME NEW t \in Tokens, Revoke(t) PROVE PaceInv'
  BY <1>13 DEF Revoke
<1>14. CASE RestartServer
  BY <1>14, SMTT(30) DEF RestartServer
<1>15. CASE UNCHANGED deviceVars
  BY <1>15 DEF deviceVars
<1> HIDE DEF DeviceTypeOK, IssueInv, GrantInv, SoloInv, PaceInv
<1> QED
  BY <1>1, <1>2, <1>3, <1>4, <1>5, <1>6, <1>7, <1>8, <1>9, <1>10, <1>11,
     <1>12, <1>13, <1>14, <1>15
  DEF DeviceNext, Poll

-----------------------------------------------------------------------------
DeviceInv ==
    /\ DeviceTypeOK /\ GrantInv /\ IssueInv /\ SoloInv /\ TokenInv /\ DueInv /\ PaceInv

LEMMA DeviceInvInit == DeviceInit => DeviceInv
<1> SUFFICES ASSUME DeviceInit PROVE DeviceInv
  OBVIOUS
<1>1. DeviceTypeOK
  BY DeviceTypeInit
<1>2. GrantInv /\ IssueInv /\ SoloInv /\ TokenInv /\ DueInv /\ PaceInv
  BY DeviceAssumption DEF DeviceInit, GrantInv, TokenHasGrant, IssueInv, SoloInv,
     TokenInv, DueInv, PaceInv, Idle, Made
<1> QED
  BY <1>1, <1>2 DEF DeviceInv

LEMMA DeviceInvHolds == DeviceSpec => []DeviceInv
<1>1. DeviceInv /\ [DeviceNext]_deviceVars => DeviceInv'
  BY DeviceTypeStep, GrantStep, IssueStep, SoloStep, TokenStep, DueStep, PaceStep
     DEF DeviceInv
<1> QED
  BY <1>1, DeviceInvInit, PTL DEF DeviceSpec

\* No token is made for a user who did not grant the request, in whatever way
\* polls and decisions overwrite each other.
THEOREM GrantSafe == DeviceSpec => []TokenHasGrant
<1>1. DeviceInv => TokenHasGrant
  BY DEF DeviceInv, GrantInv
<1> QED
  BY <1>1, DeviceInvHolds, PTL

\* Handlers that do not overlap, and are not cut short, create one token.
THEOREM TokenSafe == DeviceSpec => []OneToken
<1>1. ASSUME DeviceInv PROVE OneToken
  <2> SUFFICES ASSUME mishap \cap {"overlap", "failed"} = {}
               PROVE  Cardinality(Made) <= 1
    BY DEF OneToken
  <2>1. \A s, t \in Made : s = t
    BY <1>1 DEF DeviceInv, TokenInv
  <2>2. CASE Made = {}
    BY <2>2, FS_EmptySet
  <2>3. CASE Made # {}
    <3>1. PICK t \in Made : Made = {t}
      BY <2>1, <2>3
    <3> QED
      BY <3>1, FS_Singleton
  <2> QED
    BY <2>2, <2>3
<1> QED
  BY <1>1, DeviceInvHolds, PTL

\* A stored decision stays, and so does the token bound to it, until two
\* handlers overlap.
THEOREM DecisionSafe == DeviceSpec => DecisionStays
<1> DEFINE Stays == /\ entry'.status = entry.status /\ entry'.user = entry.user
                    /\ entry.token \in {Nil, entry'.token}
<1>1. ASSUME DeviceInv, [DeviceNext]_deviceVars, "overlap" \notin mishap',
             entry # Nil, entry' # Nil, entry.status # "pending"
      PROVE  Stays
  <2> USE <1>1, DeviceAssumption
      DEF DeviceInv, DeviceTypeOK, IssueInv, SoloInv, deviceCode, PollStates, VisitStates, Idle
  <2>1. CASE entry' = entry
    BY <2>1
  <2>2. ASSUME NEW p \in Polls, PollTouches(p) \/ PollBinds(p) PROVE Stays
    BY <2>2 DEF PollTouches, PollBinds, Store, StoreFails
  <2>3. ASSUME NEW v \in Visits, DecisionStored(v) PROVE Stays
    BY <2>3 DEF DecisionStored, Store, StoreFails
  <2>4. \/ entry' = entry
        \/ \E p \in Polls : PollTouches(p) \/ PollBinds(p)
        \/ \E v \in Visits : DecisionStored(v)
    BY DEF DeviceNext, deviceVars, Poll, Issue, Lapse, Tick, ClientLapses, RestartServer,
           PollPending, PollGranted, PollCreates, PollRepeats, PollFails, Load,
           Decide, RemoveUser, Revoke
  <2> QED
    BY <2>1, <2>2, <2>3, <2>4
<1>2. DeviceInv /\ [DeviceNext]_deviceVars
      => [(/\ "overlap" \notin mishap'
           /\ entry # Nil /\ entry' # Nil /\ entry.status # "pending")
          => Stays]_deviceVars
  BY <1>1
<1> QED
  BY <1>2, DeviceInvHolds, PTL DEF DeviceSpec, DecisionStays

\* The code is forgotten in time unless a handler stored it late.
THEOREM ForgetSafe == DeviceSpec => []ForgottenInTime
<1>1. DeviceInv => ForgottenInTime
  BY DEF DeviceInv, DeviceTypeOK, DueInv, IssueInv, ForgottenInTime
<1> QED
  BY <1>1, DeviceInvHolds, PTL

\* The time of the last poll is never lost while nothing goes wrong.
THEOREM PaceSafe == DeviceSpec => []PaceIsKept
<1>1. DeviceInv => PaceIsKept
  BY DEF DeviceInv, PaceInv, PaceIsKept
<1> QED
  BY <1>1, DeviceInvHolds, PTL

=============================================================================
