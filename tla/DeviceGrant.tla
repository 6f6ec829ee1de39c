----------------------------- MODULE DeviceGrant ----------------------------
(***************************************************************************)
(* One device code of the OAuth device flow                                *)
(* (internal/auth/oauth2/grant_device_code.go).                            *)
(*                                                                         *)
(* A device asks for a code, then polls the token route while a user       *)
(* decides on a web page.  Both handlers load the whole request from the   *)
(* key/value store, work on their copy and store it back whole, with no    *)
(* lock in between, so a load and the store that follows it are two steps  *)
(* here.  What a handler answers without storing anything (slow_down,      *)
(* access_denied, an unknown or expired code) changes no state and is a    *)
(* stuttering step.                                                        *)
(*                                                                         *)
(* Time is counted in units of which a code lives Life and two polls are   *)
(* Interval apart.  The store drops an entry at the moment it lapses.      *)
(***************************************************************************)
EXTENDS Integers, FiniteSets

CONSTANTS
    Polls,      \* requests to the token route that may run at the same time
    Visits,     \* requests to the /device page that may run at the same time
    UserIds,    \* users of the server
    Tokens,     \* token ids, handed out in increasing order
    Backends,   \* the stores to consider, among "memory" and "redis"
    Nil,        \* no time, no entry, no user, no token
    Life,       \* deviceCodeTTL
    Interval,   \* deviceCodeInterval
    MaxNow      \* bound on the clock

ASSUME DeviceAssumption ==
    /\ Polls \cap Visits = {}
    /\ Tokens \subseteq Nat
    /\ Nil \notin UserIds \cup Tokens \cup Nat
    /\ Backends \subseteq {"memory", "redis"}
    /\ Life \in Nat \ {0} /\ Interval \in Nat /\ MaxNow \in Nat

VARIABLES
    now,
    client,     \* the registered client is still in the store
    expires,    \* Expires of the request, Nil before the code is issued
    entry,      \* the request in the store, or Nil
    due,        \* when the store drops the entry, Nil: never
    poll,       \* what each poll of the token route is doing
    visit,      \* what each visit of the page is about to store
    users,      \* rows of the user table
    tokens,     \* rows of the token table
    owner,      \* owner[t]: the user token t was made for; Nil: not made
    granted,    \* history: the users who pressed "authorize"
    given,      \* history: tokens sent to the device
    answered,   \* history: when the device was last told to keep polling
    mishap      \* history: what went wrong so far

deviceCode == <<expires, entry, due>>
accounts == <<users, tokens, owner>>
past == <<granted, given, answered>>
deviceVars == <<now, client, deviceCode, poll, visit, accounts, past, mishap>>

DeviceRequests ==
    [status : {"pending", "granted", "denied"},
     user : UserIds \cup {Nil}, token : Tokens \cup {Nil}, last : Int]

Idle == [pc |-> "idle", req |-> Nil]
PollStates == {Idle} \cup [pc : {"touch", "grant", "bind"}, req : DeviceRequests]
VisitStates == {Idle} \cup [pc : {"decided"}, req : DeviceRequests]

\* "overlap": a request was loaded by one handler while another one was
\* between its load and its store; "late": a request was stored after it
\* expired; "failed": the store or the database refused a write, or the
\* process stopped in the middle of a handler.
Mishaps == {"overlap", "late", "failed"}

Made == {t \in Tokens : owner[t] # Nil}

\* Every variable stays in its range; only tokens that were made are bound to a
\* request, kept in the table or sent, and a row belongs to a user who is there.
DeviceTypeOK ==
    /\ now \in Nat
    /\ client \in BOOLEAN
    /\ expires \in Nat \cup {Nil}
    /\ entry \in DeviceRequests \cup {Nil}
    /\ due \in Nat \cup {Nil}
    /\ poll \in [Polls -> PollStates]
    /\ visit \in [Visits -> VisitStates]
    /\ \A p \in Polls : poll[p].pc = "bind" => poll[p].req.token \in Made
    /\ users \subseteq UserIds
    /\ owner \in [Tokens -> UserIds \cup {Nil}]
    /\ tokens \subseteq {t \in Tokens : owner[t] \in users}
    /\ granted \subseteq UserIds
    /\ given \subseteq {t \in Tokens : owner[t] # Nil}
    /\ answered \in Nat \cup {Nil}
    /\ mishap \subseteq Mishaps

Busy == {p \in Polls : poll[p] # Idle} \cup {v \in Visits : visit[v] # Idle}

DeviceInit ==
    /\ now = 0 /\ client = TRUE
    /\ expires = Nil /\ entry = Nil /\ due = Nil
    /\ poll = [p \in Polls |-> Idle] /\ visit = [v \in Visits |-> Idle]
    /\ users = UserIds /\ tokens = {} /\ owner = [t \in Tokens |-> Nil]
    /\ granted = {} /\ given = {} /\ answered = Nil /\ mishap = {}

-----------------------------------------------------------------------------
(* The store.                                                              *)

\* A mistake to catch: every store gives the entry a whole life again.
Store_WholeLife(req) ==
    /\ entry' = req
    /\ due' = now + Life
    /\ mishap' = IF expires > now THEN mishap ELSE mishap \cup {"late"}
    /\ UNCHANGED expires

\* deviceAuthorizationRequest.store: the time to live is what is left until
\* Expires; when nothing is left the entry is kept with no expiration.
Store(req) ==
    /\ entry' = req
    /\ due' = IF expires > now THEN expires ELSE Nil
    /\ mishap' = IF expires > now THEN mishap ELSE mishap \cup {"late"}
    /\ UNCHANGED expires

StoreFails == mishap' = mishap \cup {"failed"} /\ UNCHANGED deviceCode

\* loadDeviceAuthorizationRequest, by a handler that will store what it read.
Load(status) ==
    /\ client /\ entry # Nil /\ entry.status = status
    /\ mishap' = IF Busy = {} THEN mishap ELSE mishap \cup {"overlap"}
    /\ UNCHANGED deviceCode

\* deviceHandler.  LastChecked is put one interval back.
Issue ==
    /\ expires = Nil /\ client
    /\ expires' = now + Life
    /\ entry' = [status |-> "pending", user |-> Nil, token |-> Nil,
                 last |-> now - Interval]
    /\ due' = expires'
    /\ UNCHANGED <<now, client, poll, visit, accounts, past, mishap>>

\* The store drops what has lapsed.
Lapse ==
    /\ due # Nil /\ due <= now
    /\ entry' = Nil /\ due' = Nil
    /\ UNCHANGED <<now, client, expires, poll, visit, accounts, past, mishap>>

-----------------------------------------------------------------------------
(* deviceCodeHandler: a poll of the token route.                           *)

\* The request is pending and the last poll is far enough: the device is told
\* to keep polling, and the deferred store is still to run.
PollPending(p) ==
    /\ poll[p] = Idle
    /\ Load("pending")
    /\ now - entry.last >= Interval
    /\ poll' = [poll EXCEPT ![p] =
                  [pc |-> "touch", req |-> [entry EXCEPT !.last = now]]]
    /\ answered' = now
    /\ UNCHANGED <<now, client, visit, accounts, granted, given>>

PollTouches(p) ==
    /\ poll[p].pc = "touch"
    /\ Store(poll[p].req) \/ StoreFails
    /\ poll' = [poll EXCEPT ![p] = Idle]
    /\ UNCHANGED <<now, client, visit, accounts, past>>

PollGranted(p) ==
    /\ poll[p] = Idle
    /\ Load("granted")
    /\ poll' = [poll EXCEPT ![p] = [pc |-> "grant", req |-> entry]]
    /\ UNCHANGED <<now, client, visit, accounts, past>>

\* No token yet: one is created for the user who granted the request.
PollCreates(p) ==
    /\ poll[p].pc = "grant" /\ poll[p].req.token = Nil
    /\ poll[p].req.user \in users
    /\ \E t \in Tokens \ Made :
          /\ \A s \in Made : s < t
          /\ owner' = [owner EXCEPT ![t] = poll[p].req.user]
          /\ tokens' = tokens \cup {t}
          /\ poll' = [poll EXCEPT ![p] =
                        [pc |-> "bind", req |-> [@.req EXCEPT !.token = t]]]
    /\ UNCHANGED <<now, client, deviceCode, visit, users, past, mishap>>

\* A mistake to catch: the token is sent and its id is not stored.
PollBinds_NotStored(p) ==
    /\ poll[p].pc = "bind"
    /\ given' = given \cup {poll[p].req.token}
    /\ poll' = [poll EXCEPT ![p] = Idle]
    /\ UNCHANGED <<now, client, deviceCode, visit, accounts, granted,
                   answered, mishap>>

\* The token id goes to the store, then the token to the device.
PollBinds(p) ==
    /\ poll[p].pc = "bind"
    /\ \/ Store(poll[p].req) /\ given' = given \cup {poll[p].req.token}
       \/ StoreFails /\ UNCHANGED given
    /\ poll' = [poll EXCEPT ![p] = Idle]
    /\ UNCHANGED <<now, client, visit, accounts, granted, answered>>

\* A later poll gets the token that was created before.
PollRepeats(p) ==
    /\ poll[p].pc = "grant" /\ poll[p].req.token \in tokens
    /\ given' = given \cup {poll[p].req.token}
    /\ poll' = [poll EXCEPT ![p] = Idle]
    /\ UNCHANGED <<now, client, deviceCode, visit, accounts, granted, answered, mishap>>

\* The user or the token is gone, or the database refuses: an error.
PollFails(p) ==
    /\ poll[p].pc = "grant"
    /\ mishap' = IF \/ poll[p].req.user \notin users
                    \/ poll[p].req.token \notin tokens \cup {Nil}
                 THEN mishap ELSE mishap \cup {"failed"}
    /\ poll' = [poll EXCEPT ![p] = Idle]
    /\ UNCHANGED <<now, client, deviceCode, visit, accounts, past>>

Poll(p) ==
    \/ PollPending(p) \/ PollTouches(p) \/ PollGranted(p)
    \/ PollCreates(p) \/ PollBinds(p) \/ PollRepeats(p) \/ PollFails(p)

-----------------------------------------------------------------------------
(* authorizeHandler: a user answers the question of the page.              *)

\* Mistakes to catch: the answer is granted whatever was pressed; the status
\* is not looked at; the user who granted is not written down.
Decide_AnyAnswer(v, u, grant) ==
    /\ visit[v] = Idle /\ u \in users
    /\ Load("pending")
    /\ visit' = [visit EXCEPT ![v] =
                   [pc |-> "decided",
                    req |-> [entry EXCEPT !.status = "granted", !.user = u]]]
    /\ granted' = IF grant THEN granted \cup {u} ELSE granted
    /\ UNCHANGED <<now, client, poll, accounts, given, answered>>
Decide_AnyStatus(v, u, grant) ==
    /\ visit[v] = Idle /\ u \in users
    /\ \E status \in {"pending", "granted", "denied"} : Load(status)
    /\ visit' = [visit EXCEPT ![v] =
                   [pc |-> "decided",
                    req |-> IF grant
                            THEN [entry EXCEPT !.status = "granted", !.user = u]
                            ELSE [entry EXCEPT !.status = "denied"]]]
    /\ granted' = IF grant THEN granted \cup {u} ELSE granted
    /\ UNCHANGED <<now, client, poll, accounts, given, answered>>
Decide_NoUser(v, u, grant) ==
    /\ visit[v] = Idle /\ u \in users
    /\ Load("pending")
    /\ visit' = [visit EXCEPT ![v] =
                   [pc |-> "decided",
                    req |-> [entry EXCEPT !.status =
                               IF grant THEN "granted" ELSE "denied"]]]
    /\ granted' = IF grant THEN granted \cup {u} ELSE granted
    /\ UNCHANGED <<now, client, poll, accounts, given, answered>>

Decide(v, u, grant) ==
    /\ visit[v] = Idle /\ u \in users
    /\ Load("pending")
    /\ visit' = [visit EXCEPT ![v] =
                   [pc |-> "decided",
                    req |-> IF grant
                            THEN [entry EXCEPT !.status = "granted", !.user = u]
                            ELSE [entry EXCEPT !.status = "denied"]]]
    /\ granted' = IF grant THEN granted \cup {u} ELSE granted
    /\ UNCHANGED <<now, client, poll, accounts, given, answered>>

DecisionStored(v) ==
    /\ visit[v].pc = "decided"
    /\ Store(visit[v].req) \/ StoreFails
    /\ visit' = [visit EXCEPT ![v] = Idle]
    /\ UNCHANGED <<now, client, poll, accounts, past>>

-----------------------------------------------------------------------------
(* The world around the code.                                              *)

\* The clock starts with the code.  The entries of the store are dropped when
\* their time comes.
Tick ==
    /\ expires # Nil /\ now < MaxNow
    /\ (due # Nil => due > now)
    /\ now' = now + 1
    /\ UNCHANGED <<client, deviceCode, poll, visit, accounts, past, mishap>>

\* The client was registered at most ten minutes ago and lapses on its own.
ClientLapses ==
    /\ client /\ client' = FALSE
    /\ UNCHANGED <<now, deviceCode, poll, visit, accounts, past, mishap>>

\* The tokens of a user are deleted with the user (foreign key).
RemoveUser(u) ==
    /\ u \in users
    /\ users' = users \ {u}
    /\ tokens' = {t \in tokens : owner[t] # u}
    /\ UNCHANGED <<now, client, deviceCode, poll, visit, owner, past, mishap>>

Revoke(t) ==
    /\ t \in tokens /\ tokens' = tokens \ {t}
    /\ UNCHANGED <<now, client, deviceCode, poll, visit, users, owner, past, mishap>>

\* The process stops and starts again; what was in its memory is gone.  Which
\* store it runs on is configured, and may be either each time it starts.
RestartServer ==
    /\ poll' = [p \in Polls |-> Idle] /\ visit' = [v \in Visits |-> Idle]
    /\ mishap' = IF Busy = {} THEN mishap ELSE mishap \cup {"failed"}
    /\ \/ "memory" \in Backends /\ client' = FALSE /\ entry' = Nil /\ due' = Nil
       \/ "redis" \in Backends /\ UNCHANGED <<client, entry, due>>
    /\ UNCHANGED <<now, expires, accounts, past>>

DeviceNext ==
    \/ Issue \/ Lapse \/ Tick \/ ClientLapses \/ RestartServer
    \/ \E p \in Polls : Poll(p)
    \/ \E v \in Visits, u \in UserIds, grant \in BOOLEAN : Decide(v, u, grant)
    \/ \E v \in Visits : DecisionStored(v)
    \/ \E u \in UserIds : RemoveUser(u)
    \/ \E t \in Tokens : Revoke(t)

DeviceSpec == DeviceInit /\ [][DeviceNext]_deviceVars

\* The device keeps polling, as the answer asks it to, and a handler that has
\* started runs to its end; users and the clock owe nothing.
DeviceFairSpec == DeviceSpec /\ \A p \in Polls : WF_deviceVars(Poll(p))

-----------------------------------------------------------------------------
(* Properties.                                                             *)

\* A token was made for a user who granted the request, whatever the handlers
\* overwrite of each other.
TokenHasGrant == \A t \in Made : owner[t] \in granted

\* The handlers create one token for a code, unless two of them overlapped or
\* one was cut short before it stored the token's id.
OneToken == mishap \cap {"overlap", "failed"} = {} => Cardinality(Made) <= 1

\* A decision that was stored stays, and so does the token bound to it, as
\* long as no two handlers overlap: the page only decides what is pending and
\* the token route only adds the token.
DecisionStays ==
    [][ (/\ "overlap" \notin mishap'
         /\ entry # Nil /\ entry' # Nil /\ entry.status # "pending")
        => /\ entry'.status = entry.status /\ entry'.user = entry.user
           /\ entry.token \in {Nil, entry'.token} ]_deviceVars

\* The code is forgotten when its time is over, however often it was stored
\* again, unless a handler had loaded it before and stored it after.
ForgottenInTime == entry # Nil /\ now > expires => "late" \in mishap

\* The store remembers the last poll, so the next one is told to slow down:
\* no answer, decision or restart between two polls loses the time.
PaceIsKept ==
    mishap = {} /\ entry # Nil /\ answered # Nil /\ entry.status = "pending"
    => \/ entry.last = answered
       \/ \E p \in Polls : poll[p].pc = "touch" /\ poll[p].req.last = answered

\* A device that keeps polling gets a token once the user granted the request,
\* unless time, a mishap, the end of the client, a restart that forgets the
\* code, a deleted user or a revoked token comes first.
GrantIsDelivered ==
    (entry # Nil /\ entry.status = "granted")
    ~> \/ given # {} \/ entry = Nil \/ mishap # {} \/ ~ client
       \/ users # UserIds \/ tokens # Made

=============================================================================
