------------------------------ MODULE Accounts ------------------------------
(***************************************************************************)
(* Users, the sessions that stand for them, and everything that writes a   *)
(* user's password, seed or second factor.                                 *)
(*                                                                         *)
(* A session is a cookie that the server encrypts and does not remember.   *)
(* It is good as long as its seed is the one of the user's row             *)
(* (server/auth.go), so whatever changes a password draws a new seed "to   *)
(* logout every instance" (app/user.go:166).  A request reads the row when *)
(* it authenticates and works on that copy; some handlers then write a few *)
(* columns (Update), others the whole copy (Save).                         *)
(*                                                                         *)
(* A handler is two actions: what it reads, and what it writes together    *)
(* with its answer to the browser.  E-mail addresses, names and            *)
(* preferences are left out, but for the fact that they were written.      *)
(***************************************************************************)
EXTENDS Naturals, FiniteSets

CONSTANTS
    Users,      \* names
    Devices,    \* browsers, each with one cookie
    Requests,   \* requests in flight, and runs of the "user" command
    Codes,      \* recovery codes
    MaxEra,     \* bound: the seeds drawn for one user
    None,       \* no row, no cookie, no request
    Forwarded,  \* TRUE: a reverse proxy may say who the user is
    Faults      \* what may fail: "bus"

ASSUME AccountsAssumption ==
    /\ MaxEra \in Nat \ {0}
    /\ Forwarded \in BOOLEAN
    /\ Faults \subseteq {"bus"}

\* The seeds of a user are numbered as they are drawn, and a password has the
\* number of the seed that was drawn with it.
Eras == 0 .. MaxEra

\* A row; weak: the hash is of an old kind; totp: it has the secret of a
\* second factor.
Row == [pw : Eras, seed : Eras, weak : BOOLEAN, totp : BOOLEAN]

\* sessions.Payload; first: a password, or the proxy, is all that it came
\* from, and not a code nor a request that drew its seed.
Payload == [user : Users, seed : Eras, mfa : BOOLEAN, ext : BOOLEAN, first : BOOLEAN]

\* The handlers of a session that keep no copy of the row are one kind until
\* they write: a page, a logout, the forms of the profile.
Kinds == {"session", "totpOff", "login", "mfa", "recover", "onboard", "command"}

Request == [kind : Kinds, dev : Devices \cup {None}, user : Users,
            copy : Row \cup {None}, sess : Payload \cup {None},
            code : Codes \cup {None}]

ASSUME NoneAssumption ==
    /\ None \notin Row /\ None \notin Payload /\ None \notin Request
    /\ None \notin Users /\ None \notin Devices /\ None \notin Codes

VARIABLES
    row,      \* row[u]: the row, or None
    cookie,   \* cookie[d]: the session that browser d holds, or None
    req,      \* req[q]: the request in flight, or None
    code,     \* code[c]: the user whose password code c can change, or None
    onboards, \* the route of the onboarding exists
    era,      \* history: era[u], how many seeds were drawn for u
    last,     \* history: last[u], the number of the last password chosen
    twice,    \* history: the users for whom a seed was drawn again
    undone    \* history: the users whose row, or hash, was overwritten with
              \* an older copy

vars == <<row, cookie, req, code, onboards, era, last, twice, undone>>

history == <<era, last, twice, undone>>

TypeOK ==
    /\ row \in [Users -> Row \cup {None}]
    /\ cookie \in [Devices -> Payload \cup {None}]
    /\ req \in [Requests -> Request \cup {None}]
    /\ code \in [Codes -> Users \cup {None}]
    /\ onboards \in BOOLEAN
    /\ era \in [Users -> Eras]
    /\ last \in [Users -> Eras]
    /\ twice \subseteq Users
    /\ undone \subseteq Users
    /\ \A q \in Requests : req[q] # None =>
          /\ req[q].kind \in {"session", "totpOff", "mfa"} =>
                req[q].sess \in Payload /\ req[q].sess.user = req[q].user
          /\ req[q].kind \in {"totpOff", "login", "command"} => req[q].copy \in Row
          /\ req[q].kind \notin {"recover", "command"} => req[q].dev \in Devices
          /\ req[q].kind = "recover" => req[q].code \in Codes

\* The server started with an empty database.
Init ==
    /\ row = [u \in Users |-> None]
    /\ cookie = [d \in Devices |-> None]
    /\ req = [q \in Requests |-> None]
    /\ code = [c \in Codes |-> None]
    /\ onboards = TRUE
    /\ era = [u \in Users |-> 0]
    /\ last = [u \in Users |-> 0]
    /\ twice = {}
    /\ undone = {}

-----------------------------------------------------------------------------
(* Seeds, rows and sessions.                                               *)

\* SetSeed draws a number below 32767, and nothing says that it is not one
\* that it drew before.
SetSeed(u, s) ==
    /\ era[u] < MaxEra /\ s \in 1 .. era[u] + 1
    /\ era' = [era EXCEPT ![u] = @ + 1]
    /\ twice' = IF s <= era[u] THEN twice \cup {u} ELSE twice

\* User.Update: an UPDATE that finds no row does nothing.
Update(u, r) == row' = [row EXCEPT ![u] = IF @ = None THEN None ELSE r]

\* The row u as the database has it, with a new seed, password or factor.
Seeded(r, s) == [r EXCEPT !.seed = s]
Chosen(r, u) == [r EXCEPT !.pw = era[u] + 1, !.weak = FALSE]

\* Users.Create; the username and the e-mail address are unique, and a user
\* who was deleted does not come back with the same identifier.
Create(u, s, weak) ==
    /\ row[u] = None /\ era[u] = 0
    /\ SetSeed(u, s)
    /\ row' = [row EXCEPT ![u] = [pw |-> 1, seed |-> s, weak |-> weak, totp |-> FALSE]]
    /\ last' = [last EXCEPT ![u] = 1]
    /\ UNCHANGED undone

\* SessionAuthProvider.Authenticate and its checkSession.
Good(p) ==
    /\ p # None /\ ~ p.mfa
    /\ row[p.user] # None /\ row[p.user].seed = p.seed
    /\ p.ext => Forwarded

Free(q) == req[q] = None

\* A copy of the row is kept where the handler writes from it.
Begin(q, kind, d, u, r, p, c) ==
    req' = [req EXCEPT ![q] = [kind |-> kind, dev |-> d, user |-> u, copy |-> r,
                               sess |-> p, code |-> c]]

Is(q, kind) == req[q] # None /\ req[q].kind = kind

Ends(q) == req' = [req EXCEPT ![q] = None]

\* The answer's Set-Cookie.
Answer(q, p) == cookie' = [cookie EXCEPT ![req[q].dev] = p]

\* The session of the request, with the seed that it drew.
Stamped(q, s) == [req[q].sess EXCEPT !.seed = s, !.first = FALSE]

-----------------------------------------------------------------------------
(* Requests of a session.                                                  *)

\* A request of an authenticated route; the session will be renewed.
Visit(q, d, kind) ==
    /\ Free(q) /\ Good(cookie[d])
    /\ Begin(q, kind, d, cookie[d].user,
             IF kind = "totpOff" THEN row[cookie[d].user] ELSE None, cookie[d], None)
    /\ UNCHANGED <<row, cookie, code, onboards, history>>

\* An authenticated route with a session that is no good clears it.
Refuse(d) ==
    /\ cookie[d] # None /\ ~ Good(cookie[d])
    /\ cookie' = [cookie EXCEPT ![d] = None]
    /\ UNCHANGED <<row, req, code, onboards, history>>

\* A page, and any of the forms below when it is not valid or its UPDATE
\* fails: nothing is written, and the session is renewed.
Renew(q) ==
    /\ req[q] # None
    /\ req[q].kind \in {"session", "totpOff"}
    /\ Answer(q, req[q].sess) /\ Ends(q)
    /\ UNCHANGED <<row, code, onboards, history>>

\* The session ends in this browser; the server has nothing to forget.
Logout(q) ==
    /\ Is(q, "session")
    /\ Answer(q, None) /\ Ends(q)
    /\ UNCHANGED <<row, code, onboards, history>>

\* changePasswordForm.update: three columns, unless the account is locked.
ChangePassword(q, s) ==
    LET u == req[q].user IN
    /\ Is(q, "session") /\ ~ req[q].sess.ext
    /\ SetSeed(u, s)
    /\ Update(u, Seeded(Chosen(row[u], u), s))
    /\ last' = [last EXCEPT ![u] = IF row[u] = None THEN @ ELSE era[u] + 1]
    /\ Answer(q, Stamped(q, s)) /\ Ends(q)
    /\ UNCHANGED <<code, onboards, undone>>

\* profileForm.update, when the username or the address changes; any other
\* preference is written as Renew, with no new seed.
ChangeProfile(q, s) ==
    LET u == req[q].user IN
    /\ Is(q, "session") /\ ~ req[q].sess.ext
    /\ SetSeed(u, s)
    /\ Update(u, Seeded(row[u], s))
    /\ Answer(q, Stamped(q, s)) /\ Ends(q)
    /\ UNCHANGED <<code, onboards, last, undone>>

\* A mistake to catch: the seed stays what it was.
EnableTOTP_SameSeed(q, s) ==
    LET u == req[q].user IN
    /\ Is(q, "session")
    /\ Update(u, [row[u] EXCEPT !.totp = TRUE])
    /\ Answer(q, [req[q].sess EXCEPT !.first = FALSE]) /\ Ends(q)
    /\ UNCHANGED <<code, onboards, history>>

\* totpForm.save.
EnableTOTP(q, s) ==
    LET u == req[q].user IN
    /\ Is(q, "session")
    /\ SetSeed(u, s)
    /\ Update(u, [Seeded(row[u], s) EXCEPT !.totp = TRUE])
    /\ Answer(q, Stamped(q, s)) /\ Ends(q)
    /\ UNCHANGED <<code, onboards, last, undone>>

\* The row of u is overwritten with a copy that is not what it was.
Overwrites(u, r) ==
    undone' = IF row[u] # None /\ row[u] # r THEN undone \cup {u} ELSE undone

\* The form's "remove-totp": User.Save writes every column of the copy.
RemoveTOTP(q) ==
    LET u == req[q].user IN
    /\ Is(q, "totpOff")
    /\ Update(u, [req[q].copy EXCEPT !.totp = FALSE])
    /\ Overwrites(u, req[q].copy)
    /\ Answer(q, req[q].sess) /\ Ends(q)
    /\ UNCHANGED <<code, onboards, era, last, twice>>

-----------------------------------------------------------------------------
(* Sign-in.                                                                *)

\* POST /login: the row is read and the password is right.
SignIn(q, d, u) ==
    /\ Free(q) /\ row[u] # None
    /\ Begin(q, "login", d, u, row[u], cookie[d], None)
    /\ UNCHANGED <<row, cookie, code, onboards, history>>

\* The session of a sign-in keeps what it does not set.
SignedIn(q, r) ==
    [user |-> req[q].user, seed |-> r.seed, mfa |-> r.totp,
     ext |-> req[q].sess # None /\ req[q].sess.ext, first |-> TRUE]

\* A mistake to catch: last_login is written with the password of the copy.
Login_Saves(q) ==
    LET u == req[q].user
        r == req[q].copy
    IN
    /\ Is(q, "login")
    /\ Update(u, [row[u] EXCEPT !.pw = r.pw, !.weak = FALSE])
    /\ Answer(q, SignedIn(q, r)) /\ Ends(q)
    /\ UNCHANGED <<code, onboards, history>>

\* CheckPassword: a weak hash of the copy is replaced by a better one of the
\* same password.  Then the session is that of the copy.
Login(q) ==
    LET u == req[q].user
        r == req[q].copy
    IN
    /\ Is(q, "login")
    /\ IF r.weak
       THEN /\ Update(u, [row[u] EXCEPT !.pw = r.pw, !.weak = FALSE])
            /\ undone' = IF row[u] # None /\ row[u].pw # r.pw
                         THEN undone \cup {u} ELSE undone
       ELSE UNCHANGED <<row, undone>>
    /\ Answer(q, SignedIn(q, r)) /\ Ends(q)
    /\ UNCHANGED <<code, onboards, era, last, twice>>

\* POST /login/mfa, with the session that waits for a code.  The seed is not
\* looked at here, but the row has to have a secret.
SendCode(q, d) ==
    /\ Free(q) /\ cookie[d] # None /\ cookie[d].mfa
    /\ row[cookie[d].user] # None /\ row[cookie[d].user].totp
    /\ Begin(q, "mfa", d, cookie[d].user, None, cookie[d], None)
    /\ UNCHANGED <<row, cookie, code, onboards, history>>

\* The code is right.
CodeIsRight(q) ==
    /\ Is(q, "mfa")
    /\ Answer(q, [req[q].sess EXCEPT !.mfa = FALSE, !.first = FALSE]) /\ Ends(q)
    /\ UNCHANGED <<row, code, onboards, history>>

\* Any other request of the sign-in pages that comes to nothing.
GiveUp(q) ==
    /\ req[q] # None
    /\ req[q].kind \in {"login", "mfa", "recover", "onboard", "command"}
    /\ Ends(q)
    /\ UNCHANGED <<row, cookie, code, onboards, history>>

\* The cookie expires, or the browser forgets it.
Forget(d) ==
    /\ cookie[d] # None
    /\ cookie' = [cookie EXCEPT ![d] = None]
    /\ UNCHANGED <<row, req, code, onboards, history>>

\* ForwardedAuthProvider: the proxy names u, who is created if need be.
Provision(u, s) ==
    /\ Forwarded
    /\ Create(u, s, FALSE)
    /\ UNCHANGED <<cookie, req, code, onboards>>

\* The session that the provider puts into the request, for the next one to
\* check: a page answers with it, and the sign-in page asks for a code.
Proxied(u) ==
    [user |-> u, seed |-> row[u].seed, mfa |-> row[u].totp,
     ext |-> TRUE, first |-> TRUE]

ProxyVisit(q, d, u) ==
    /\ Forwarded /\ Free(q) /\ row[u] # None
    /\ cookie[d] # None => cookie[d].user # u
    /\ Begin(q, IF row[u].totp THEN "mfa" ELSE "session", d, u, None, Proxied(u), None)
    /\ UNCHANGED <<row, cookie, code, onboards, history>>

-----------------------------------------------------------------------------
(* Recovery, onboarding, administration.                                   *)

\* recover, step 0: a code for the user who has this address.
AskRecovery(c, u) ==
    /\ row[u] # None /\ code[c] = None
    /\ code' = [code EXCEPT ![c] = u]
    /\ UNCHANGED <<row, cookie, req, onboards, history>>

\* The store forgets it.
CodeExpires(c) ==
    /\ code[c] # None
    /\ code' = [code EXCEPT ![c] = None]
    /\ UNCHANGED <<row, cookie, req, onboards, history>>

\* Step 2: the code is loaded, then its user.
SendRecovery(q, c) ==
    /\ Free(q) /\ code[c] # None /\ row[code[c]] # None
    /\ Begin(q, "recover", None, code[c], None, None, c)
    /\ UNCHANGED <<row, cookie, code, onboards, history>>

\* A mistake to catch: the new seed is not written.
Recover_SameSeed(q, s) ==
    LET u == req[q].user IN
    /\ Is(q, "recover")
    /\ SetSeed(u, s)
    /\ Update(u, Chosen(row[u], u))
    /\ last' = [last EXCEPT ![u] = IF row[u] = None THEN @ ELSE era[u] + 1]
    /\ code' = [code EXCEPT ![req[q].code] = None]
    /\ Ends(q)
    /\ UNCHANGED <<cookie, onboards, undone>>

\* The password is written before the code is deleted.
Recover(q, s) ==
    LET u == req[q].user IN
    /\ Is(q, "recover")
    /\ SetSeed(u, s)
    /\ Update(u, Seeded(Chosen(row[u], u), s))
    /\ last' = [last EXCEPT ![u] = IF row[u] = None THEN @ ELSE era[u] + 1]
    /\ \/ code' = [code EXCEPT ![req[q].code] = None]
       \/ "bus" \in Faults /\ UNCHANGED code
    /\ Ends(q)
    /\ UNCHANGED <<cookie, onboards, undone>>

\* onboarding: there is no user yet...
SendOnboarding(q, d, u) ==
    /\ Free(q) /\ onboards
    /\ \A v \in Users : row[v] = None
    /\ Begin(q, "onboard", d, u, None, cookie[d], None)
    /\ UNCHANGED <<row, cookie, code, onboards, history>>

\* ... and one is created, whoever came meanwhile.
Onboard(q, s) ==
    LET u == req[q].user
        p == req[q].sess
    IN
    /\ Is(q, "onboard")
    /\ Create(u, s, FALSE)
    /\ Answer(q, [user |-> u, seed |-> s, mfa |-> p # None /\ p.mfa,
                  ext |-> p # None /\ p.ext, first |-> FALSE])
    /\ Ends(q)
    /\ UNCHANGED <<code, onboards>>

\* The server starts again: with users, there is no onboarding.
Restart ==
    /\ onboards' = (\A u \in Users : row[u] = None)
    /\ req' = [q \in Requests |-> None]
    /\ UNCHANGED <<row, cookie, code, history>>

\* An administrator, or the command, creates a user; the command takes the
\* hash of a password, which may be of an old kind.
NewUser(u, s, weak) ==
    /\ Create(u, s, weak)
    /\ UNCHANGED <<cookie, req, code, onboards>>

\* The administration's userForm.updateUser, with or without a password.
EditUser(u, s, pw) ==
    /\ row[u] # None
    /\ SetSeed(u, s)
    /\ Update(u, Seeded(IF pw THEN Chosen(row[u], u) ELSE row[u], s))
    /\ last' = [last EXCEPT ![u] = IF pw THEN era[u] + 1 ELSE @]
    /\ UNCHANGED <<cookie, req, code, onboards, undone>>

\* User.Delete, at the end of deleteUser.
DeleteUser(u) ==
    /\ row[u] # None
    /\ row' = [row EXCEPT ![u] = None]
    /\ UNCHANGED <<cookie, req, code, onboards, history>>

\* "readeck user" reads the row, asks for a password...
StartCommand(q, u) ==
    /\ Free(q) /\ row[u] # None
    /\ Begin(q, "command", None, u, row[u], None, None)
    /\ UNCHANGED <<row, cookie, code, onboards, history>>

\* ... and saves the whole copy: with a new password and a new seed, with a
\* new group or address and a new seed, or with neither; and with or without
\* the second factor.
CommandSeeds(q, s, pw, weak, off) ==
    LET u == req[q].user
        r == [req[q].copy EXCEPT !.totp = @ /\ ~ off]
    IN
    /\ Is(q, "command")
    /\ SetSeed(u, s)
    /\ Update(u, Seeded(IF pw THEN [Chosen(r, u) EXCEPT !.weak = weak] ELSE r, s))
    /\ last' = [last EXCEPT ![u] = IF pw /\ row[u] # None THEN era[u] + 1 ELSE @]
    /\ Overwrites(u, req[q].copy)
    /\ Ends(q)
    /\ UNCHANGED <<cookie, code, onboards>>

CommandKeeps(q, off) ==
    LET u == req[q].user IN
    /\ Is(q, "command")
    /\ Update(u, [req[q].copy EXCEPT !.totp = @ /\ ~ off])
    /\ Overwrites(u, req[q].copy)
    /\ Ends(q)
    /\ UNCHANGED <<cookie, code, onboards, era, last, twice>>

-----------------------------------------------------------------------------
Sessions ==
    \/ \E q \in Requests, d \in Devices, kind \in {"session", "totpOff"} :
          Visit(q, d, kind)
    \/ \E q \in Requests : Renew(q) \/ Logout(q) \/ RemoveTOTP(q)
    \/ \E q \in Requests, s \in 1 .. MaxEra :
          ChangePassword(q, s) \/ ChangeProfile(q, s) \/ EnableTOTP(q, s)
    \/ \E d \in Devices : Refuse(d) \/ Forget(d)

SigningIn ==
    \/ \E q \in Requests, d \in Devices :
          SendCode(q, d) \/ \E u \in Users : SignIn(q, d, u) \/ ProxyVisit(q, d, u)
    \/ \E q \in Requests : Login(q) \/ CodeIsRight(q) \/ GiveUp(q)
    \/ \E u \in Users, s \in 1 .. MaxEra : Provision(u, s)

Recovery ==
    \/ \E c \in Codes : CodeExpires(c) \/ \E u \in Users : AskRecovery(c, u)
    \/ \E q \in Requests, c \in Codes : SendRecovery(q, c)
    \/ \E q \in Requests, s \in 1 .. MaxEra : Recover(q, s)

Administration ==
    \/ \E u \in Users, s \in 1 .. MaxEra, x \in BOOLEAN : NewUser(u, s, x) \/ EditUser(u, s, x)
    \/ \E u \in Users : DeleteUser(u) \/ \E q \in Requests : StartCommand(q, u)
    \/ \E q \in Requests, s \in 1 .. MaxEra, pw \in BOOLEAN, weak \in BOOLEAN, off \in BOOLEAN :
          CommandSeeds(q, s, pw, weak, off)
    \/ \E q \in Requests, off \in BOOLEAN : CommandKeeps(q, off)
    \/ \E q \in Requests, d \in Devices, u \in Users : SendOnboarding(q, d, u)
    \/ \E q \in Requests, s \in 1 .. MaxEra : Onboard(q, s)
    \/ Restart

Next == Sessions \/ SigningIn \/ Recovery \/ Administration

Spec == Init /\ [][Next]_vars

-----------------------------------------------------------------------------
(* Properties.                                                             *)

\* What the browser d holds opens an authenticated route.
Opens(d) == Good(cookie[d])

\* A second factor is never skipped: while a user has one, no session opens
\* that a password or the proxy alone made, although it may be older than
\* the factor, or come from a sign-in that read the row before it
\* (signin/http.go:110, profile/forms.go:324).
FactorIsAsked ==
    \A d \in Devices :
        /\ Opens(d)
        /\ cookie[d].user \notin twice \cup undone
        /\ row[cookie[d].user].totp
        => ~ cookie[d].first

\* "Set or reset seed to logout every instance" (app/user.go:166): a session
\* that opens has the last seed drawn for its user, unless a copy was written
\* over the row, or SetSeed drew an old number again.
SessionsEnd ==
    \A d \in Devices :
        /\ Opens(d)
        /\ cookie[d].user \notin twice \cup undone
        => cookie[d].seed = era[cookie[d].user]

\* The password that opens an account is the last one that was chosen, unless
\* a copy was written over the row or over its hash.
PasswordIsLast ==
    \A u \in Users :
        row[u] # None /\ u \notin undone => row[u].pw = last[u]

=============================================================================
