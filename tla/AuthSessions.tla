----------------------------- MODULE AuthSessions -----------------------------
(***************************************************************************)
(* AuthService: the root user, its password, sessions and API keys, kept   *)
(* in the application state in memory and written with all of it by        *)
(* saveState.                                                              *)
(*                                                                         *)
(* Comparing and hashing a password takes long and is done outside the     *)
(* lock, so that what was read before may have changed when the result is  *)
(* stored.  A save may fail: the change then stays in memory, and the      *)
(* request reports an error.  The process may stop at any point and start  *)
(* again from the file, with other settings in its environment.            *)
(***************************************************************************)
EXTENDS Naturals

CONSTANTS
    AuthRequests, \* HTTP requests, one at a time each
    Sessions,     \* sessions, each handed out once
    Keys,         \* API keys, each handed out once
    MaxPassword,  \* bound: passwords the root user has had
    MaxFaults     \* bound: failed saves and restarts

ASSUME AuthConstants ==
    /\ MaxPassword \in Nat \ {0} /\ MaxFaults \in Nat
    /\ "nobody" \notin AuthRequests

VARIABLES
    auth,         \* the state in memory
    disk,         \* what the state file has of it
    asked,        \* what each request is doing
    saving,       \* the request that holds stateSaveMu, and what it has copied
    overdue,      \* sessions past their expiry, of those that are in use
    told,         \* observer: keys reported as revoked, passwords as changed
    mishaps       \* faults so far

authVars == <<auth, disk, asked, saving, overdue, told, mishaps>>

\* A password stands for its hash, which no other hashing yields; 0: no user.
NoUser == 0

Fresh == [password |-> NoUser,
          session  |-> [s \in Sessions |-> "unused"],
          under    |-> [s \in Sessions |-> NoUser],   \* observer: the password it was opened with
          key      |-> [k \in Keys |-> "unused"],
          reset    |-> FALSE]

Ready == [at |-> "idle"]
NoSaver == [by |-> "nobody"]

AuthInit ==
    /\ auth = Fresh /\ disk = Fresh
    /\ asked = [r \in AuthRequests |-> Ready]
    /\ saving = NoSaver
    /\ overdue = {}
    /\ told = [keys |-> {}, password |-> NoUser]
    /\ mishaps = 0
-----------------------------------------------------------------------------
(* Helpers *)

Mishap == mishaps < MaxFaults /\ mishaps' = mishaps + 1

HasUser == auth.password # NoUser
\* A session, opened by a request that gave a password.
Opened(state, s, password) == [state EXCEPT !.session[s] = "live", !.under[s] = password]
Live(s) == auth.session[s] = "live"
Unused == {s \in Sessions : auth.session[s] = "unused"}
NextSession == CHOOSE s \in Unused : TRUE

Revoked(state, s) == [state EXCEPT !.session[s] = "revoked", !.under[s] = NoUser]

\* Every session that is not revoked yet.
RevokedAll(state) ==
    [state EXCEPT !.session = [s \in Sessions |->
                                  IF state.session[s] = "live" THEN "revoked" ELSE state.session[s]],
                  !.under = [s \in Sessions |-> NoUser]]

\* A new password, and no session that was opened under another one.
Replaced(state) == [RevokedAll(state) EXCEPT !.password = @ + 1]

\* What a request goes on to do once its change is in memory: report, once saved.
Save(r, report) == asked' = [asked EXCEPT ![r] = [at |-> "save", report |-> report]]
Done(r) == asked' = [asked EXCEPT ![r] = Ready]
Nothing == [keys |-> {}, password |-> NoUser]

Rest == UNCHANGED <<disk, saving, overdue, told, mishaps>>

\* ValidateSessionToken, or ValidateAPIKey, of the middleware.
Authenticated == \/ \E s \in Sessions : Live(s) /\ s \notin overdue
                 \/ \E k \in Keys : auth.key[k] = "live"
-----------------------------------------------------------------------------
(* Requests *)

\* SetupRoot before and after the password is hashed.
Setup(r) ==
    /\ asked[r] = Ready /\ ~HasUser
    /\ asked' = [asked EXCEPT ![r] = [at |-> "setup"]]
    /\ UNCHANGED auth /\ Rest

SetupRoot(r) ==
    /\ asked[r].at = "setup"
    /\ \/ /\ ~HasUser
          /\ Unused # {} /\ auth' = Opened(Replaced(auth), NextSession, auth.password + 1)
          /\ Save(r, Nothing)
       \/ HasUser /\ Done(r) /\ UNCHANGED auth
    /\ Rest

\* Login and ChangePassword read the user; the password they were given is the
\* right one, or the attempt is recorded and saved.
Read(r, at) ==
    /\ asked[r] = Ready /\ HasUser
    /\ at = "change" => Authenticated
    /\ \/ asked' = [asked EXCEPT ![r] = [at |-> at, password |-> auth.password]]
       \/ Save(r, Nothing)
    /\ UNCHANGED auth /\ Rest

\* Mutant: the password is not compared again.
SameAlways(r) == TRUE
\* The password is still the one that was read.
Same(r) == auth.password = asked[r].password

Login(r) ==
    /\ asked[r].at = "login"
    /\ \/ /\ Same(r)
          /\ Unused # {} /\ auth' = Opened(auth, NextSession, asked[r].password)
          /\ Save(r, Nothing)
       \/ ~Same(r) /\ Done(r) /\ UNCHANGED auth
    /\ Rest

ChangePassword(r) ==
    /\ asked[r].at = "change"
    /\ \/ /\ Same(r) /\ auth.password < MaxPassword
          /\ auth' = Replaced(auth)
          /\ Save(r, [keys |-> {}, password |-> auth'.password])
       \/ ~Same(r) /\ Done(r) /\ UNCHANGED auth
    /\ Rest

\* Logout with the session's own token; nothing is saved for one that is revoked.
Logout(r, s) ==
    /\ asked[r] = Ready
    /\ Live(s)
    /\ auth' = Revoked(auth, s)
    /\ Save(r, Nothing)
    /\ Rest

LogoutAll(r) ==
    /\ asked[r] = Ready /\ Authenticated
    /\ \E s \in Sessions : Live(s)
    /\ auth' = RevokedAll(auth)
    /\ Save(r, Nothing)
    /\ Rest

CreateAPIKey(r, k) ==
    /\ asked[r] = Ready /\ Authenticated
    /\ auth.key[k] = "unused"
    /\ auth' = [auth EXCEPT !.key[k] = "live"]
    /\ Save(r, Nothing)
    /\ Rest

\* Mutant: nothing is saved for a key that is revoked already.
RevokeAPIKeyOnce(r, k) ==
    /\ asked[r] = Ready /\ Authenticated
    /\ auth.key[k] # "unused"
    /\ auth' = [auth EXCEPT !.key[k] = "revoked"]
    /\ IF auth.key[k] = "live"
       THEN Save(r, [keys |-> {k}, password |-> NoUser]) /\ UNCHANGED told
       ELSE told' = [told EXCEPT !.keys = @ \cup {k}] /\ UNCHANGED asked
    /\ UNCHANGED <<disk, saving, overdue, mishaps>>

\* A key that is revoked already is saved as well.
RevokeAPIKey(r, k) ==
    /\ asked[r] = Ready /\ Authenticated
    /\ auth.key[k] # "unused"
    /\ auth' = [auth EXCEPT !.key[k] = "revoked"]
    /\ Save(r, [keys |-> {k}, password |-> NoUser])
    /\ Rest

\* A request comes with a session that has expired; or it saves the state for
\* another reason: a time last seen, a failed login, anything else in the state.
Touch(r) ==
    /\ asked[r] = Ready
    /\ \/ \E s \in overdue : Live(s) /\ auth' = Revoked(auth, s)
       \/ UNCHANGED auth
    /\ Save(r, Nothing)
    /\ Rest
-----------------------------------------------------------------------------
(* saveState *)

\* The lock, and under it the copy.
CopyState(r) ==
    /\ asked[r].at = "save" /\ saving = NoSaver
    /\ saving' = [by |-> r, copy |-> auth]
    /\ UNCHANGED <<auth, disk, asked, overdue, told, mishaps>>

\* The file is replaced as a whole or not at all.
Replace(r) ==
    /\ asked[r].at = "save" /\ saving.by = r
    /\ \/ /\ disk' = saving.copy
          /\ told' = [keys |-> told.keys \cup asked[r].report.keys,
                      password |-> IF asked[r].report.password > told.password
                                   THEN asked[r].report.password ELSE told.password]
          /\ UNCHANGED mishaps
       \/ Mishap /\ UNCHANGED <<disk, told>>
    /\ saving' = NoSaver
    /\ Done(r)
    /\ UNCHANGED <<auth, overdue>>
-----------------------------------------------------------------------------
(* Time and the process *)

ExpireSession(s) ==
    /\ Live(s) /\ s \notin overdue
    /\ overdue' = overdue \cup {s}
    /\ UNCHANGED <<auth, disk, asked, saving, told, mishaps>>

\* The process stops, and starts with the file: AUTH_PASSWORD makes a user when
\* there is none; a reset that was not applied yet replaces the password.  A start
\* that cannot save what it did ends, and memory with it.
Restart ==
    /\ Mishap
    /\ \/ auth' = disk
       \/ disk.password = NoUser /\ auth' = Replaced(disk)
       \/ /\ disk.password # NoUser /\ ~disk.reset /\ disk.password < MaxPassword
          /\ auth' = [Replaced(disk) EXCEPT !.reset = TRUE]
    /\ disk' = auth'
    /\ asked' = [r \in AuthRequests |-> Ready]
    /\ saving' = NoSaver
    /\ overdue' = {s \in overdue : auth'.session[s] = "live"}
    /\ UNCHANGED told

AuthNext ==
    \/ \E r \in AuthRequests :
         \/ Setup(r) \/ SetupRoot(r) \/ Login(r) \/ ChangePassword(r)
         \/ \E at \in {"login", "change"} : Read(r, at)
         \/ \E s \in Sessions : Logout(r, s)
         \/ \E k \in Keys : CreateAPIKey(r, k) \/ RevokeAPIKey(r, k)
         \/ LogoutAll(r) \/ Touch(r) \/ CopyState(r) \/ Replace(r)
    \/ \E s \in Sessions : ExpireSession(s)
    \/ Restart

AuthSpec == AuthInit /\ [][AuthNext]_authVars
-----------------------------------------------------------------------------
(* Properties *)

States == [password : 0..MaxPassword, session : [Sessions -> {"unused", "live", "revoked"}],
           under : [Sessions -> 0..MaxPassword],
           key : [Keys -> {"unused", "live", "revoked"}], reset : BOOLEAN]

Reports == [keys : SUBSET Keys, password : 0..MaxPassword]
Between == [at : {"idle", "setup"}]
Comparing == [at : {"login", "change"}, password : 0..MaxPassword]
Reporting == [at : {"save"}, report : Reports]

\* Types of the variables.
AuthTypeOK ==
    /\ auth \in States /\ disk \in States
    /\ asked \in [AuthRequests -> Between \cup Comparing \cup Reporting]
    /\ saving \in {NoSaver} \cup [by : AuthRequests, copy : States]
    /\ overdue \subseteq Sessions
    /\ told \in Reports
    /\ mishaps \in 0..MaxFaults

\* Every session that can still be used was opened under the password of now: a
\* login or a change that was overtaken while it hashed its password opens none,
\* and none comes back with a restart.  A password that was reported as changed
\* stays changed.
CurrentPasswordOnly ==
    \A state \in {auth, disk} :
        /\ state.password >= told.password
        /\ \A s \in Sessions : state.session[s] = "live" => state.under[s] = state.password

\* A key that was reported as revoked stays revoked, after a restart too: whatever
\* saves failed before and in whichever order the others wrote the file.
KeyRevocationKept ==
    \A k \in told.keys : auth.key[k] = "revoked" /\ disk.key[k] = "revoked"
=============================================================================
