------------------------------ MODULE Accounts ------------------------------
(***************************************************************************)
(* Accounts, their roles and tokens on the server, and the session of the   *)
(* phone: two modules of the app hold an access token each, the API client  *)
(* (services/api.ts) and the store (store/auth.ts), and share the refresh   *)
(* token in the secure store.  Filing a complaint under ComplaintLimits is  *)
(* what the requests do here; every other request only needs a token.       *)
(*                                                                         *)
(* JavaScript switches at an await, so an action is the code between two.   *)
(* No screen of the app leads from a session back to the login: only a new   *)
(* start of the app does.                                                   *)
(***************************************************************************)
EXTENDS ComplaintLimits

CONSTANTS
    None,
    Phone,       \* the phone's address
    Calls,       \* calls of apiRequest that may be under way at once
    AccessTtl, RefreshTtl,
    MaxLogins, MaxRestarts, MaxErrors  \* bounds on logins, on kills of the app, on network errors

ASSUME AccountsAssumption ==
    /\ None \notin Users /\ Phone \in Addresses
    /\ AccessTtl \in Nat /\ RefreshTtl \in Nat
    /\ MaxLogins \in Nat /\ MaxRestarts \in Nat /\ MaxErrors \in Nat

VARIABLES
    role,     \* users.role, None before the registration
    screen,   \* what the app shows: start-up, the login or a session
    api,      \* the access token of services/api.ts
    shown,    \* the access token of store/auth.ts, whose user the app shows
    stored,   \* the access and the refresh token in the secure store
    call,     \* the calls of apiRequest
    login,    \* the login under way and its tokens
    logins, restarts, errors,
    lapsed,   \* history: a refresh token had expired when it was used
    torn      \* history: the app was killed between two writes to the secure store

clientVars == <<screen, api, shown, stored, call, login>>
boundVars == <<logins, restarts, errors, lapsed, torn>>
vars == <<now, limitVars, role, clientVars, boundVars>>

-----------------------------------------------------------------------------
Roles == {"CITIZEN", "COP"}
NoToken == [user |-> None, expires |-> 0]
Access(u) == [user |-> u, expires |-> now + AccessTtl]
Refresh(u) == [user |-> u, expires |-> now + RefreshTtl]

\* The tokens are signed and not recorded anywhere: one is good until it expires.
Accepted(t) == t.user # None /\ now <= t.expires

NoCall == [at |-> "idle", token |-> NoToken, refresh |-> NoToken]
NoLogin == [at |-> "idle", access |-> NoToken, refresh |-> NoToken]

Init ==
    /\ LimitsInit
    /\ role = [u \in Users |-> None]
    /\ screen = "starting"
    /\ api = NoToken /\ shown = NoToken
    /\ stored = [access |-> NoToken, refresh |-> NoToken]
    /\ call = [c \in Calls |-> NoCall] /\ login = NoLogin
    /\ logins = 0 /\ restarts = 0 /\ errors = 0
    /\ lapsed = FALSE /\ torn = FALSE

-----------------------------------------------------------------------------
(* The server.                                                             *)

Tick ==
    /\ now < MaxTime
    /\ now' = now + 1
    /\ UNCHANGED <<limitVars, role, clientVars, boundVars>>

\* The role is the one the payload asks for.
register(u, r) ==
    /\ role[u] = None
    /\ role' = [role EXCEPT ![u] = r]
    /\ UNCHANGED <<now, limitVars, clientVars, boundVars>>

update_user_role(u, r) ==
    /\ role[u] \in Roles \ {r}
    /\ role' = [role EXCEPT ![u] = r]
    /\ UNCHANGED <<now, limitVars, clientVars, boundVars>>

\* What an accepted request of u does: it files a complaint, if the role in the database
\* allows and the limits do, or changes nothing here.
Serve(u) ==
    \/ role[u] = "CITIZEN" /\ enforce(u, Phone)
    \/ UNCHANGED limitVars

-----------------------------------------------------------------------------
(* Start-up and login.                                                     *)

\* Mutant: an expired session is forgotten by the screens and not by the store.
restore_tokens_lazily ==
    /\ screen = "starting"
    /\ IF stored.access = NoToken \/ stored.access.expires <= now
       THEN screen' = "login" /\ UNCHANGED <<shown, stored>>
       ELSE shown' = stored.access /\ screen' = "app" /\ UNCHANGED stored
    /\ UNCHANGED <<now, limitVars, role, api, call, login, boundVars>>

\* restoreTokens: the stored access token decides.  Refreshes do not renew it, and when
\* it has expired both tokens are deleted, one after the other.
restore_tokens ==
    /\ screen = "starting"
    /\ IF stored.access = NoToken
       THEN screen' = "login" /\ UNCHANGED <<shown, stored>>
       ELSE IF stored.access.expires <= now
       THEN stored' = [stored EXCEPT !.access = NoToken] /\ screen' = "clearing" /\ UNCHANGED shown
       ELSE shown' = stored.access /\ screen' = "app" /\ UNCHANGED stored
    /\ UNCHANGED <<now, limitVars, role, api, call, login, boundVars>>

clear_tokens ==
    /\ screen = "clearing"
    /\ stored' = [stored EXCEPT !.refresh = NoToken]
    /\ screen' = "login"
    /\ UNCHANGED <<now, limitVars, role, api, shown, call, login, boundVars>>

\* The form sends one login at a time.
FormIdle == screen = "login" /\ login = NoLogin /\ \A c \in Calls : call[c] = NoCall

\* The right password.
log_in(u) ==
    /\ FormIdle
    /\ role[u] # None
    /\ logins < MaxLogins
    /\ logins' = logins + 1
    /\ login' = [at |-> "granted", access |-> Access(u), refresh |-> Refresh(u)]
    /\ UNCHANGED <<now, limitVars, role, screen, api, shown, stored, call, restarts, errors, lapsed, torn>>

\* The wrong password: its 401 makes apiRequest refresh what it finds in the store.
login_refused(c) ==
    /\ FormIdle
    /\ call' = [call EXCEPT ![c].at = "unauthorized"]
    /\ UNCHANGED <<now, limitVars, role, screen, api, shown, stored, login, boundVars>>

\* setTokens writes the access token, then the refresh token, and the session begins.
set_access ==
    /\ login.at = "granted"
    /\ shown' = login.access
    /\ stored' = [stored EXCEPT !.access = login.access]
    /\ login' = [login EXCEPT !.at = "half"]
    /\ UNCHANGED <<now, limitVars, role, screen, api, call, boundVars>>

set_refresh ==
    /\ login.at = "half"
    /\ stored' = [stored EXCEPT !.refresh = login.refresh]
    /\ login' = NoLogin
    /\ screen' = "app"
    /\ UNCHANGED <<now, limitVars, role, api, shown, call, boundVars>>

\* The app is killed.  The memory is gone, and what was being written is half written.
restart ==
    /\ restarts < MaxRestarts
    /\ restarts' = restarts + 1
    /\ screen' = "starting"
    /\ api' = NoToken /\ shown' = NoToken
    /\ call' = [c \in Calls |-> NoCall] /\ login' = NoLogin
    /\ torn' = (torn \/ login.at = "half" \/ screen = "clearing")
    /\ UNCHANGED <<now, limitVars, role, stored, logins, errors, lapsed>>

-----------------------------------------------------------------------------
(* apiRequest and attemptRefresh.                                          *)

Step(c, at) == call' = [call EXCEPT ![c].at = at]
Return(c) == call' = [call EXCEPT ![c] = NoCall]

\* The token of api.ts is taken, which is none at the beginning of a session.
api_request(c) ==
    /\ screen = "app"
    /\ call[c] = NoCall
    /\ call' = [call EXCEPT ![c] = [NoCall EXCEPT !.at = "sent", !.token = api]]
    /\ UNCHANGED <<now, limitVars, role, screen, api, shown, stored, login, boundVars>>

answer(c) ==
    /\ call[c].at = "sent"
    /\ IF Accepted(call[c].token)
       THEN Serve(call[c].token.user) /\ Return(c)
       ELSE Step(c, "unauthorized") /\ UNCHANGED limitVars
    /\ UNCHANGED <<now, role, screen, api, shown, stored, login, boundVars>>

\* attemptRefresh reads the refresh token; without one the request fails.
get_refresh_token(c) ==
    /\ call[c].at = "unauthorized"
    /\ IF stored.refresh = NoToken
       THEN Return(c)
       ELSE call' = [call EXCEPT ![c].at = "refreshing", ![c].refresh = stored.refresh]
    /\ UNCHANGED <<now, limitVars, role, screen, api, shown, stored, login, boundVars>>

\* Mutant: a refresh token is good for the newest refresh only.
refresh_once(c) ==
    /\ call[c].at = "refreshing"
    /\ LET u == call[c].refresh.user IN
       IF Accepted(call[c].refresh) /\ call[c].refresh = stored.refresh
       THEN /\ api' = Access(u)
            /\ call' = [call EXCEPT ![c] = [at |-> "saving", token |-> Access(u), refresh |-> Refresh(u)]]
            /\ UNCHANGED lapsed
       ELSE /\ api' = NoToken
            /\ Step(c, "erasing")
            /\ lapsed' = (lapsed \/ ~Accepted(call[c].refresh))
    /\ UNCHANGED <<now, limitVars, role, screen, shown, stored, login, logins, restarts, errors, torn>>

\* POST /auth/refresh: new tokens of the same user, and the old ones stay good.
refresh(c) ==
    /\ call[c].at = "refreshing"
    /\ LET u == call[c].refresh.user IN
       IF Accepted(call[c].refresh)
       THEN /\ api' = Access(u)
            /\ call' = [call EXCEPT ![c] = [at |-> "saving", token |-> Access(u), refresh |-> Refresh(u)]]
            /\ UNCHANGED lapsed
       ELSE /\ api' = NoToken
            /\ Step(c, "erasing")
            /\ lapsed' = TRUE
    /\ UNCHANGED <<now, limitVars, role, screen, shown, stored, login, logins, restarts, errors, torn>>

\* Any error erases the tokens, those of a refresh that went well meanwhile too.
refresh_fails(c) ==
    /\ call[c].at = "refreshing"
    /\ errors < MaxErrors
    /\ errors' = errors + 1
    /\ api' = NoToken
    /\ Step(c, "erasing")
    /\ UNCHANGED <<now, limitVars, role, screen, shown, stored, login, logins, restarts, lapsed, torn>>

set_refresh_token(c) ==
    /\ call[c].at = "saving"
    /\ stored' = [stored EXCEPT !.refresh = call[c].refresh]
    /\ Step(c, "retrying")
    /\ UNCHANGED <<now, limitVars, role, screen, api, shown, login, boundVars>>

clear_refresh_token(c) ==
    /\ call[c].at = "erasing"
    /\ stored' = [stored EXCEPT !.refresh = NoToken]
    /\ Return(c)
    /\ UNCHANGED <<now, limitVars, role, screen, api, shown, login, boundVars>>

\* The request is sent again with the new token; the login form's is refused again.
retry(c) ==
    /\ call[c].at = "retrying"
    /\ IF Accepted(call[c].token) /\ screen = "app"
       THEN Serve(call[c].token.user)
       ELSE UNCHANGED limitVars
    /\ Return(c)
    /\ UNCHANGED <<now, role, screen, api, shown, stored, login, boundVars>>

-----------------------------------------------------------------------------
Next ==
    \/ Tick
    \/ \E u \in Users, r \in Roles : register(u, r) \/ update_user_role(u, r)
    \/ restore_tokens \/ clear_tokens
    \/ \E u \in Users : log_in(u)
    \/ set_access \/ set_refresh
    \/ restart
    \/ \E c \in Calls :
          \/ login_refused(c) \/ api_request(c) \/ answer(c)
          \/ get_refresh_token(c) \/ refresh(c) \/ refresh_fails(c)
          \/ set_refresh_token(c) \/ clear_refresh_token(c) \/ retry(c)

Spec == Init /\ [][Next]_vars

-----------------------------------------------------------------------------
(* Properties.                                                             *)

Held == {api, stored.access, stored.refresh} \cup {call[c].token : c \in Calls}
                                             \cup {call[c].refresh : c \in Calls}

\* What the phone sends and stores in a session belongs to the user it shows, although
\* two modules keep tokens apart and refreshes of the login form and of the session
\* overwrite one another, unless the app was killed in the middle of a login or logout.
OneUserPerSession ==
    (screen = "app" /\ ~torn) => \A t \in Held : t.user \in {shown.user, None}

\* Overlapping refreshes never cost the phone its refresh token: a session without one
\* had a network error during a refresh, or a refresh token that had expired.
StrandedOnlyByFailure ==
    (screen = "app" /\ stored.refresh = NoToken) => errors > 0 \/ lapsed \/ torn
=============================================================================
