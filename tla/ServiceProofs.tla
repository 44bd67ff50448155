---------------------------- MODULE ServiceProofs ----------------------------
(***************************************************************************)
(* What a request of a user meets on its way to an answer, for any         *)
(* accounts, keys, callers, documents, queues, scopes and runs.  First who *)
(* may do what: AuthSessions (passwords, sessions and keys), McpCalls      *)
(* (rate limits and confirmations of dangerous operations) and McpTools    *)
(* (the scopes of tools, of the jobs they start and of retries).  Then     *)
(* what an answer passes through: Retrieval, ModelRuntime and ChatHistory; *)
(* and EvalDatasets, the datasets answers are measured with.               *)
(*                                                                         *)
(* Copies of the account are taken and written under one lock, so what a   *)
(* save is about to write is never behind the file and never ahead of      *)
(* memory; what a request is about to report is in its copy.  A nonce is   *)
(* unknown, stored, with the one call that took it, or used.  A job acts   *)
(* long after the call that started it, so the invariant keeps with every  *)
(* job what its owner was granted.                                         *)
(*                                                                         *)
(* What a retrieval chose is fresh because everything it takes up was      *)
(* filtered by the catalog of that moment; the invariant follows the hits  *)
(* from the filter over the wider search and the cache into the answer.    *)
(* What the cache and the vector store hold is not constrained at all: the *)
(* answer may not depend on it.                                            *)
(*                                                                         *)
(* A call of the model is in one place at a time: the invariant names the  *)
(* place, a spot in a queue, the goroutine or the answer channel, and what *)
(* the client of a stream was shown while it was there.                    *)
(*                                                                         *)
(* Clearing a conversation is final because a request holds the lock from  *)
(* its first step on.  A scope is kept because a request that is about to  *)
(* write a record either writes what it has found, or was overtaken by a   *)
(* request that changed the conversation while it ran.                     *)
(*                                                                         *)
(* A change of a dataset is kept for one of two reasons.  Where requests   *)
(* overlap no save fails, and what a request is about to report is in      *)
(* memory, or was changed again.  Where saves fail a request is alone, and *)
(* what it would put back makes memory what the file is.                   *)
(***************************************************************************)
EXTENDS AuthSessions, McpCalls, McpTools, Retrieval, ModelRuntime, ChatHistory,
        EvalDatasets, FiniteInduction, TLAPS
-----------------------------------------------------------------------------
(* AuthSessions *)

\* Every session in use was opened under the password of the state.
Consistent(state) ==
    \A s \in Sessions : state.session[s] = "live" => state.under[s] = state.password

\* No password and no revocation of the older state is missing from the newer one.
AheadOf(newer, older) ==
    /\ newer.password >= older.password
    /\ \A k \in Keys : older.key[k] = "revoked" => newer.key[k] = "revoked"

\* What is reported is in the state.
Reflects(state, report) ==
    /\ state.password >= report.password
    /\ \A k \in report.keys : state.key[k] = "revoked"

AuthInv ==
    /\ AuthTypeOK
    /\ Consistent(auth) /\ Consistent(disk)
    /\ AheadOf(auth, disk) /\ Reflects(disk, told)
    /\ \A r \in AuthRequests : asked[r].at = "save" => Reflects(auth, asked[r].report)
    /\ saving # NoSaver =>
           /\ asked[saving.by].at = "save" /\ Consistent(saving.copy)
           /\ AheadOf(saving.copy, disk) /\ AheadOf(auth, saving.copy)
           /\ Reflects(saving.copy, asked[saving.by].report)
-----------------------------------------------------------------------------
(* States *)

LEMMA StateFields ==
    ASSUME NEW state \in States
    PROVE  /\ state.password \in 0..MaxPassword
           /\ state.session \in [Sessions -> {"unused", "live", "revoked"}]
           /\ state.under \in [Sessions -> 0..MaxPassword]
           /\ state.key \in [Keys -> {"unused", "live", "revoked"}]
           /\ state.reset \in BOOLEAN
BY DEF States

LEMMA ReportFields ==
    ASSUME NEW report \in Reports
    PROVE  report.password \in 0..MaxPassword /\ report.keys \subseteq Keys
BY DEF Reports

LEMMA AheadReflects ==
    ASSUME NEW newer \in States, NEW older \in States, NEW report \in Reports,
           AheadOf(newer, older), Reflects(older, report)
    PROVE  Reflects(newer, report)
<1>1. /\ newer.password \in 0..MaxPassword /\ older.password \in 0..MaxPassword
      /\ report.password \in 0..MaxPassword /\ report.keys \subseteq Keys
  BY StateFields, ReportFields
<1> QED BY <1>1, AuthConstants DEF AheadOf, Reflects

LEMMA AheadTwice ==
    ASSUME NEW a \in States, NEW b \in States, NEW c \in States, AheadOf(a, b), AheadOf(b, c)
    PROVE  AheadOf(a, c)
<1>1. a.password \in 0..MaxPassword /\ b.password \in 0..MaxPassword /\ c.password \in 0..MaxPassword
  BY StateFields
<1> QED BY <1>1, AuthConstants DEF AheadOf

LEMMA AheadOfItself == ASSUME NEW state \in States PROVE AheadOf(state, state)
<1>1. state.password \in 0..MaxPassword
  BY StateFields
<1> QED BY <1>1, AuthConstants DEF AheadOf

LEMMA OpenedState ==
    ASSUME NEW state \in States, Consistent(state), NEW s \in Sessions
    PROVE  LET new == Opened(state, s, state.password)
           IN  new \in States /\ Consistent(new) /\ AheadOf(new, state)
<1> DEFINE new == Opened(state, s, state.password)
<1>1. /\ state.password \in 0..MaxPassword
      /\ state.session \in [Sessions -> {"unused", "live", "revoked"}]
      /\ state.under \in [Sessions -> 0..MaxPassword]
  BY StateFields
<1>2. /\ new.password = state.password /\ new.key = state.key
      /\ new.session = [state.session EXCEPT ![s] = "live"]
      /\ new.under = [state.under EXCEPT ![s] = state.password]
  BY DEF Opened, States
<1>3. new \in States
  BY <1>1 DEF Opened, States
<1>4. Consistent(new)
  BY <1>1, <1>2 DEF Consistent
<1>5. AheadOf(new, state)
  BY <1>1, <1>2, AuthConstants DEF AheadOf
<1> QED BY <1>3, <1>4, <1>5

LEMMA RevokedState ==
    ASSUME NEW state \in States, Consistent(state), NEW s \in Sessions
    PROVE  LET new == Revoked(state, s)
           IN  new \in States /\ Consistent(new) /\ AheadOf(new, state)
<1> DEFINE new == Revoked(state, s)
<1>1. /\ state.password \in 0..MaxPassword /\ NoUser \in 0..MaxPassword
      /\ state.session \in [Sessions -> {"unused", "live", "revoked"}]
      /\ state.under \in [Sessions -> 0..MaxPassword]
  BY StateFields, AuthConstants DEF NoUser
<1>2. /\ new.password = state.password /\ new.key = state.key
      /\ new.session = [state.session EXCEPT ![s] = "revoked"]
      /\ new.under = [state.under EXCEPT ![s] = NoUser]
  BY DEF Revoked, States
<1>3. new \in States
  BY <1>1 DEF Revoked, States
<1>4. Consistent(new)
  BY <1>1, <1>2 DEF Consistent
<1>5. AheadOf(new, state)
  BY <1>1, <1>2, AuthConstants DEF AheadOf
<1> QED BY <1>3, <1>4, <1>5

LEMMA RevokedAllState ==
    ASSUME NEW state \in States
    PROVE  LET new == RevokedAll(state)
           IN  /\ new \in States /\ AheadOf(new, state) /\ new.password = state.password
               /\ new.key = state.key /\ \A s \in Sessions : new.session[s] # "live"
<1> DEFINE new == RevokedAll(state)
           ended == [s \in Sessions |->
                        IF state.session[s] = "live" THEN "revoked" ELSE state.session[s]]
           none == [s \in Sessions |-> NoUser]
<1>1. /\ state.password \in 0..MaxPassword /\ NoUser \in 0..MaxPassword
      /\ state.session \in [Sessions -> {"unused", "live", "revoked"}]
  BY StateFields, AuthConstants DEF NoUser
<1>2. /\ new.password = state.password /\ new.key = state.key
      /\ new.session = ended /\ new.under = none
  BY DEF RevokedAll, States
<1>3. ended \in [Sessions -> {"unused", "live", "revoked"}] /\ none \in [Sessions -> 0..MaxPassword]
  BY <1>1
<1>4. new \in States
  <2>1. new = [state EXCEPT !.session = ended, !.under = none]
    BY DEF RevokedAll
  <2> HIDE DEF new, ended, none
  <2> QED BY <1>3, <2>1 DEF States
<1>5. AheadOf(new, state)
  BY <1>1, <1>2, AuthConstants DEF AheadOf
<1>6. \A s \in Sessions : new.session[s] # "live"
  BY <1>1, <1>2
<1> QED BY <1>2, <1>4, <1>5, <1>6

LEMMA ReplacedState ==
    ASSUME NEW state \in States, state.password < MaxPassword
    PROVE  LET new == Replaced(state)
           IN  /\ new \in States /\ Consistent(new) /\ AheadOf(new, state)
               /\ new.password = state.password + 1 /\ new.key = state.key
<1> DEFINE all == RevokedAll(state)
           new == Replaced(state)
<1>1. /\ all \in States /\ all.password = state.password /\ all.key = state.key
      /\ \A s \in Sessions : all.session[s] # "live"
  BY RevokedAllState
<1>2. state.password \in 0..MaxPassword /\ all.password + 1 \in 0..MaxPassword
  BY <1>1, StateFields, AuthConstants
<1>3. new = [all EXCEPT !.password = all.password + 1]
  BY DEF Replaced
<1> HIDE DEF all, new
<1>4. /\ new \in States /\ new.password = all.password + 1
      /\ new.key = all.key /\ new.session = all.session
  BY <1>1, <1>2, <1>3 DEF States
<1>5. Consistent(new)
  BY <1>1, <1>4 DEF Consistent
<1>6. AheadOf(new, state)
  BY <1>1, <1>2, <1>4, AuthConstants DEF AheadOf
<1> QED BY <1>1, <1>4, <1>5, <1>6 DEF new
-----------------------------------------------------------------------------
(* Steps *)

\* What a request may be doing.
Doings == Between \cup Comparing \cup Reporting

LEMMA Types ==
    ASSUME AuthTypeOK
    PROVE  /\ asked \in [AuthRequests -> Doings] /\ auth \in States /\ disk \in States
           /\ told \in Reports /\ (saving # NoSaver => saving \in [by : AuthRequests, copy : States])
BY DEF AuthTypeOK, Doings

LEMMA DoingStages ==
    ASSUME NEW act \in Doings
    PROVE  /\ act.at = "save" => act \in Reporting /\ act.report \in Reports
           /\ act.at \in {"login", "change"} => act \in Comparing
BY DEF Doings, Between, Comparing, Reporting

LEMMA Resting == Ready \in Doings /\ Ready.at = "idle"
BY DEF Ready, Doings, Between

LEMMA NothingReported == Nothing \in Reports /\ \A state \in States : Reflects(state, Nothing)
<1>1. NoUser \in 0..MaxPassword
  BY AuthConstants DEF NoUser
<1>2. Nothing \in Reports
  BY <1>1 DEF Nothing, Reports
<1>3. ASSUME NEW state \in States PROVE Reflects(state, Nothing)
  <2>1. state.password \in 0..MaxPassword
    BY StateFields
  <2> QED BY <2>1, AuthConstants DEF Nothing, NoUser, Reflects
<1> QED BY <1>2, <1>3

LEMMA AboutToSave ==
    ASSUME NEW report \in Reports
    PROVE  LET new == [at |-> "save", report |-> report]
           IN  new \in Doings /\ new.report = report
BY DEF Doings, Reporting

\* A step of a request that does not save: the state it leaves in memory is ahead
\* of the one before, and what it is going to report is in it.
LEMMA Changes ==
    ASSUME AuthInv, NEW r \in AuthRequests, asked[r].at # "save",
           auth' \in States, Consistent(auth'), AheadOf(auth', auth),
           NEW new \in Doings, asked' = [asked EXCEPT ![r] = new],
           new.at = "save" => Reflects(auth', new.report), Rest
    PROVE  AuthInv'
<1>1. /\ disk' = disk /\ saving' = saving /\ overdue' = overdue /\ told' = told
      /\ mishaps' = mishaps
  BY DEF Rest
<1>2. /\ asked \in [AuthRequests -> Doings] /\ auth \in States /\ disk \in States
      /\ told \in Reports /\ (saving # NoSaver => saving \in [by : AuthRequests, copy : States])
      /\ AuthTypeOK
  BY Types DEF AuthInv
<1>3. /\ asked' \in [AuthRequests -> Doings] /\ asked'[r] = new
      /\ \A q \in AuthRequests \ {r} : asked'[q] = asked[q]
  BY <1>2
<1>4. AuthTypeOK'
  BY <1>1, <1>2, <1>3 DEF AuthTypeOK, Doings
<1>5. AheadOf(auth', disk)
  BY <1>2, AheadTwice DEF AuthInv
<1>6. ASSUME NEW q \in AuthRequests, asked'[q].at = "save" PROVE Reflects(auth', asked'[q].report)
  <2>1. CASE q = r
    BY <1>3, <1>6, <2>1
  <2>2. CASE q # r
    <3>1. asked'[q] = asked[q]
      BY <1>3, <2>2
    <3>2. Reflects(auth, asked[q].report) /\ asked[q].report \in Reports
      BY <1>2, <1>6, <3>1, DoingStages DEF AuthInv
    <3> QED BY <1>2, <3>1, <3>2, AheadReflects
  <2> QED BY <2>1, <2>2
<1>7. ASSUME saving # NoSaver
      PROVE  /\ asked'[saving.by].at = "save" /\ Consistent(saving.copy)
             /\ AheadOf(saving.copy, disk) /\ AheadOf(auth', saving.copy)
             /\ Reflects(saving.copy, asked'[saving.by].report)
  <2>1. /\ asked[saving.by].at = "save" /\ AheadOf(auth, saving.copy)
        /\ Consistent(saving.copy) /\ AheadOf(saving.copy, disk)
        /\ Reflects(saving.copy, asked[saving.by].report)
    BY <1>7 DEF AuthInv
  <2>2. saving.by \in AuthRequests \ {r} /\ saving.copy \in States
    BY <1>2, <1>7, <2>1
  <2>3. asked'[saving.by] = asked[saving.by]
    BY <1>3, <2>2
  <2>4. AheadOf(auth', saving.copy)
    BY <1>2, <2>1, <2>2, AheadTwice
  <2> QED BY <2>1, <2>3, <2>4
<1> QED BY <1>1, <1>4, <1>5, <1>6, <1>7 DEF AuthInv, Consistent, AheadOf, Reflects

\* A change of memory that reports nothing.
LEMMA ChangesAndSaves ==
    ASSUME AuthInv, NEW r \in AuthRequests, asked[r].at # "save",
           auth' \in States, Consistent(auth'), AheadOf(auth', auth), Save(r, Nothing), Rest
    PROVE  AuthInv'
<1> DEFINE new == [at |-> "save", report |-> Nothing]
<1>1. new \in Doings /\ new.report = Nothing
  BY AboutToSave, NothingReported
<1>2. asked' = [asked EXCEPT ![r] = new] /\ Reflects(auth', Nothing)
  BY NothingReported DEF Save
<1> HIDE DEF new
<1> QED BY <1>1, <1>2, Changes

\* A step that changes only what the request is doing, and does not save.
LEMMA GoesOnWith ==
    ASSUME AuthInv, NEW r \in AuthRequests, asked[r].at # "save", auth' = auth,
           NEW new \in Doings, new.at # "save", asked' = [asked EXCEPT ![r] = new], Rest
    PROVE  AuthInv'
<1>1. auth' \in States /\ Consistent(auth') /\ AheadOf(auth', auth)
  BY Types, AheadOfItself DEF AuthInv
<1> QED BY <1>1, Changes

LEMMA SavesOnly ==
    ASSUME AuthInv, NEW r \in AuthRequests, asked[r].at # "save", auth' = auth,
           Save(r, Nothing), Rest
    PROVE  AuthInv'
<1>1. auth' \in States /\ Consistent(auth') /\ AheadOf(auth', auth)
  BY Types, AheadOfItself DEF AuthInv
<1> QED BY <1>1, ChangesAndSaves

LEMMA IdleOnly == ASSUME NEW r, asked[r] = Ready PROVE asked[r].at # "save"
BY Resting

LEMMA SetupKeeps == ASSUME AuthInv, NEW r \in AuthRequests, Setup(r) PROVE AuthInv'
<1> DEFINE new == [at |-> "setup"]
<1>1. new \in Doings /\ new.at # "save"
  BY DEF Doings, Between
<1>2. asked' = [asked EXCEPT ![r] = new] /\ auth' = auth /\ Rest /\ asked[r].at # "save"
  BY IdleOnly DEF Setup
<1> HIDE DEF new
<1> QED BY <1>1, <1>2, GoesOnWith

LEMMA AsksNoMore ==
    ASSUME AuthInv, NEW r \in AuthRequests, asked[r].at # "save", Done(r), auth' = auth, Rest
    PROVE  AuthInv'
BY Resting, GoesOnWith DEF Done

LEMMA SetupRootKeeps == ASSUME AuthInv, NEW r \in AuthRequests, SetupRoot(r) PROVE AuthInv'
<1>1. asked[r].at # "save" /\ Rest
  BY DEF SetupRoot
<1>2. CASE HasUser /\ Done(r) /\ UNCHANGED auth
  BY <1>1, <1>2, AsksNoMore
<1>3. CASE /\ ~HasUser /\ Unused # {}
           /\ auth' = Opened(Replaced(auth), NextSession, auth.password + 1) /\ Save(r, Nothing)
  <2>1. auth \in States /\ auth.password < MaxPassword
    BY <1>3, Types, AuthConstants DEF AuthInv, HasUser, NoUser
  <2> DEFINE replaced == Replaced(auth)
  <2>2. /\ replaced \in States /\ Consistent(replaced) /\ AheadOf(replaced, auth)
        /\ replaced.password = auth.password + 1
    BY <2>1, ReplacedState
  <2>3. NextSession \in Sessions
    BY <1>3 DEF NextSession, Unused
  <2>4. auth' = Opened(replaced, NextSession, replaced.password)
    BY <1>3, <2>2
  <2> HIDE DEF replaced
  <2>5. auth' \in States /\ Consistent(auth') /\ AheadOf(auth', replaced)
    BY <2>2, <2>3, <2>4, OpenedState
  <2>6. AheadOf(auth', auth)
    BY <2>1, <2>2, <2>5, AheadTwice
  <2> QED BY <1>1, <1>3, <2>5, <2>6, ChangesAndSaves
<1> QED BY <1>2, <1>3 DEF SetupRoot

LEMMA ReadKeeps ==
    ASSUME AuthInv, NEW r \in AuthRequests, NEW at \in {"login", "change"}, Read(r, at)
    PROVE  AuthInv'
<1>1. asked[r].at # "save" /\ auth' = auth /\ Rest
  BY IdleOnly DEF Read
<1>2. CASE Save(r, Nothing)
  BY <1>1, <1>2, SavesOnly
<1>3. CASE asked' = [asked EXCEPT ![r] = [at |-> at, password |-> auth.password]]
  <2> DEFINE new == [at |-> at, password |-> auth.password]
  <2>1. auth.password \in 0..MaxPassword
    BY Types, StateFields DEF AuthInv
  <2>2. new \in Comparing /\ new.at # "save"
    BY <2>1 DEF Comparing
  <2>3. asked' = [asked EXCEPT ![r] = new]
    BY <1>3
  <2> HIDE DEF new
  <2> QED BY <1>1, <2>2, <2>3, GoesOnWith DEF Doings
<1> QED BY <1>2, <1>3 DEF Read

LEMMA LoginKeeps == ASSUME AuthInv, NEW r \in AuthRequests, Login(r) PROVE AuthInv'
<1>1. asked[r].at # "save" /\ Rest
  BY DEF Login
<1>2. CASE ~Same(r) /\ Done(r) /\ UNCHANGED auth
  BY <1>1, <1>2, AsksNoMore
<1>3. CASE /\ Same(r) /\ Unused # {} /\ Save(r, Nothing)
           /\ auth' = Opened(auth, NextSession, asked[r].password)
  <2>1. auth' = Opened(auth, NextSession, auth.password) /\ NextSession \in Sessions
    BY <1>3 DEF Same, NextSession, Unused
  <2>2. auth' \in States /\ Consistent(auth') /\ AheadOf(auth', auth)
    BY <2>1, Types, OpenedState DEF AuthInv
  <2> QED BY <1>1, <1>3, <2>2, ChangesAndSaves
<1> QED BY <1>2, <1>3 DEF Login

LEMMA ChangePasswordKeeps ==
    ASSUME AuthInv, NEW r \in AuthRequests, ChangePassword(r) PROVE AuthInv'
<1>1. asked[r].at # "save" /\ Rest
  BY DEF ChangePassword
<1>2. CASE ~Same(r) /\ Done(r) /\ UNCHANGED auth
  BY <1>1, <1>2, AsksNoMore
<1>3. CASE /\ auth.password < MaxPassword /\ auth' = Replaced(auth)
           /\ Save(r, [keys |-> {}, password |-> auth'.password])
  <2> DEFINE report == [keys |-> {}, password |-> auth'.password]
             new == [at |-> "save", report |-> report]
  <2>1. auth' \in States /\ Consistent(auth') /\ AheadOf(auth', auth)
    BY <1>3, Types, ReplacedState DEF AuthInv
  <2>2. auth'.password \in 0..MaxPassword
    BY <2>1, StateFields
  <2>3. report \in Reports /\ Reflects(auth', report)
    BY <2>2, AuthConstants DEF Reports, Reflects
  <2>4. asked' = [asked EXCEPT ![r] = new]
    BY <1>3 DEF Save
  <2>5. new \in Doings /\ new.report = report
    <3> HIDE DEF report
    <3> QED BY <2>3, AboutToSave
  <2> HIDE DEF new, report
  <2> QED BY <1>1, <2>1, <2>3, <2>4, <2>5, Changes
<1> QED BY <1>2, <1>3 DEF ChangePassword

LEMMA LogoutKeeps ==
    ASSUME AuthInv, NEW r \in AuthRequests, NEW s \in Sessions, Logout(r, s) PROVE AuthInv'
<1>1. asked[r].at # "save" /\ auth' = Revoked(auth, s) /\ Save(r, Nothing) /\ Rest
  BY IdleOnly DEF Logout
<1>2. auth' \in States /\ Consistent(auth') /\ AheadOf(auth', auth)
  BY <1>1, Types, RevokedState DEF AuthInv
<1> QED BY <1>1, <1>2, ChangesAndSaves

LEMMA LogoutAllKeeps == ASSUME AuthInv, NEW r \in AuthRequests, LogoutAll(r) PROVE AuthInv'
<1>1. asked[r].at # "save" /\ auth' = RevokedAll(auth) /\ Save(r, Nothing) /\ Rest
  BY IdleOnly DEF LogoutAll
<1>2. auth' \in States /\ AheadOf(auth', auth) /\ \A s \in Sessions : auth'.session[s] # "live"
  BY <1>1, Types, RevokedAllState DEF AuthInv
<1>3. Consistent(auth')
  BY <1>2 DEF Consistent
<1> QED BY <1>1, <1>2, <1>3, ChangesAndSaves

\* A key that is made, when it is new, or revoked.
LEMMA KeyState ==
    ASSUME NEW state \in States, Consistent(state), NEW k \in Keys,
           NEW mark \in {"live", "revoked"}, mark = "live" => state.key[k] = "unused"
    PROVE  LET new == [state EXCEPT !.key[k] = mark]
           IN  /\ new \in States /\ Consistent(new) /\ AheadOf(new, state)
               /\ new.key[k] = mark
<1> DEFINE new == [state EXCEPT !.key[k] = mark]
<1>1. /\ state.password \in 0..MaxPassword
      /\ state.key \in [Keys -> {"unused", "live", "revoked"}]
  BY StateFields
<1>2. /\ new.password = state.password /\ new.key = [state.key EXCEPT ![k] = mark]
      /\ new.session = state.session /\ new.under = state.under
  BY DEF States
<1>3. new \in States
  <2>1. [state.key EXCEPT ![k] = mark] \in [Keys -> {"unused", "live", "revoked"}]
    BY <1>1
  <2>2. new = [state EXCEPT !.key = [state.key EXCEPT ![k] = mark]]
    BY DEF States
  <2> HIDE DEF new
  <2> QED BY <2>1, <2>2 DEF States
<1>4. Consistent(new)
  BY <1>2 DEF Consistent
<1>5. AheadOf(new, state)
  BY <1>1, <1>2, AuthConstants DEF AheadOf
<1> QED BY <1>1, <1>2, <1>3, <1>4, <1>5

LEMMA CreateAPIKeyKeeps ==
    ASSUME AuthInv, NEW r \in AuthRequests, NEW k \in Keys, CreateAPIKey(r, k) PROVE AuthInv'
<1>1. /\ asked[r].at # "save" /\ auth.key[k] = "unused" /\ auth' = [auth EXCEPT !.key[k] = "live"]
      /\ Save(r, Nothing) /\ Rest
  BY IdleOnly DEF CreateAPIKey
<1>2. auth' \in States /\ Consistent(auth') /\ AheadOf(auth', auth)
  BY <1>1, Types, KeyState DEF AuthInv
<1> QED BY <1>1, <1>2, ChangesAndSaves

LEMMA RevokeAPIKeyKeeps ==
    ASSUME AuthInv, NEW r \in AuthRequests, NEW k \in Keys, RevokeAPIKey(r, k) PROVE AuthInv'
<1> DEFINE report == [keys |-> {k}, password |-> NoUser]
           new == [at |-> "save", report |-> report]
<1>1. /\ asked[r].at # "save" /\ auth' = [auth EXCEPT !.key[k] = "revoked"] /\ Rest
      /\ asked' = [asked EXCEPT ![r] = new]
  BY IdleOnly DEF RevokeAPIKey, Save
<1>2. /\ auth' \in States /\ Consistent(auth') /\ AheadOf(auth', auth)
      /\ auth'.key[k] = "revoked"
  BY <1>1, Types, KeyState DEF AuthInv
<1>3. auth'.password \in 0..MaxPassword
  BY <1>2, StateFields
<1>4. report \in Reports /\ Reflects(auth', report)
  BY <1>2, <1>3, AuthConstants DEF Reports, Reflects, NoUser
<1>5. new \in Doings /\ new.report = report
  <2> HIDE DEF report
  <2> QED BY <1>4, AboutToSave
<1> HIDE DEF new, report
<1> QED BY <1>1, <1>2, <1>4, <1>5, Changes

LEMMA TouchKeeps == ASSUME AuthInv, NEW r \in AuthRequests, Touch(r) PROVE AuthInv'
<1>1. asked[r].at # "save" /\ Save(r, Nothing) /\ Rest
  BY IdleOnly DEF Touch
<1>2. CASE auth' = auth
  BY <1>1, <1>2, SavesOnly
<1>3. ASSUME NEW s \in overdue, auth' = Revoked(auth, s) PROVE AuthInv'
  <2>1. s \in Sessions
    BY DEF AuthInv, AuthTypeOK
  <2>2. auth' \in States /\ Consistent(auth') /\ AheadOf(auth', auth)
    BY <1>3, <2>1, Types, RevokedState DEF AuthInv
  <2> QED BY <1>1, <2>2, ChangesAndSaves
<1> QED BY <1>2, <1>3 DEF Touch

LEMMA CopyKeeps == ASSUME AuthInv, NEW r \in AuthRequests, CopyState(r) PROVE AuthInv'
<1>1. /\ asked[r].at = "save" /\ saving' = [by |-> r, copy |-> auth]
      /\ UNCHANGED <<auth, disk, asked, overdue, told, mishaps>>
  BY DEF CopyState
<1>2. auth \in States /\ AuthTypeOK
  BY Types DEF AuthInv
<1>3. /\ saving' \in [by : AuthRequests, copy : States]
      /\ saving'.by = r /\ saving'.copy = auth
  BY <1>1, <1>2
<1>4. AuthTypeOK'
  BY <1>1, <1>2, <1>3 DEF AuthTypeOK
<1>5. AheadOf(auth, auth)
  BY <1>2, AheadOfItself
<1>6. /\ Consistent(auth) /\ AheadOf(auth, disk) /\ Reflects(auth, asked[r].report)
  BY <1>1 DEF AuthInv
<1>7. /\ asked'[saving'.by].at = "save" /\ Consistent(saving'.copy)
      /\ AheadOf(saving'.copy, disk') /\ AheadOf(auth', saving'.copy)
      /\ Reflects(saving'.copy, asked'[saving'.by].report)
  BY <1>1, <1>3, <1>5, <1>6
<1>8. /\ Consistent(auth') /\ Consistent(disk')
      /\ AheadOf(auth', disk') /\ Reflects(disk', told')
      /\ \A q \in AuthRequests : asked'[q].at = "save" => Reflects(auth', asked'[q].report)
  BY <1>1 DEF AuthInv
<1> QED BY <1>4, <1>7, <1>8 DEF AuthInv, Consistent, AheadOf, Reflects

\* The file takes the copy, which reflects what the request now reports.
LEMMA ReplaceKeeps == ASSUME AuthInv, NEW r \in AuthRequests, Replace(r) PROVE AuthInv'
<1>1. /\ asked[r].at = "save" /\ saving.by = r /\ saving' = NoSaver
      /\ asked' = [asked EXCEPT ![r] = Ready] /\ UNCHANGED <<auth, overdue>>
  BY DEF Replace, Done
<1>2. saving # NoSaver
  BY <1>1, AuthConstants DEF NoSaver
<1>3. /\ saving.copy \in States /\ Consistent(saving.copy) /\ AheadOf(saving.copy, disk)
      /\ AheadOf(auth, saving.copy) /\ Reflects(saving.copy, asked[r].report)
  BY <1>1, <1>2, Types DEF AuthInv
<1>4. /\ auth \in States /\ disk \in States /\ told \in Reports
      /\ asked \in [AuthRequests -> Doings]
  BY Types DEF AuthInv
<1>5. asked[r].report \in Reports
  BY <1>1, <1>4, DoingStages
<1>6. asked' \in [AuthRequests -> Doings] /\ asked'[r].at # "save"
  BY <1>1, <1>4, Resting
<1>7. mishaps' \in 0..MaxFaults
  <2>1. mishaps \in 0..MaxFaults
    BY DEF AuthInv, AuthTypeOK
  <2> QED BY <2>1, AuthConstants DEF Replace, Mishap
<1>8. /\ disk' \in States /\ told' \in Reports /\ Consistent(disk')
      /\ AheadOf(auth, disk') /\ Reflects(disk', told')
  <2>1. CASE disk' = disk /\ told' = told
    BY <1>4, <2>1 DEF AuthInv
  <2>2. CASE /\ disk' = saving.copy
             /\ told' = [keys |-> told.keys \cup asked[r].report.keys,
                         password |-> IF asked[r].report.password > told.password
                                      THEN asked[r].report.password ELSE told.password]
    <3>1. Reflects(disk, told)
      BY DEF AuthInv
    <3>2. Reflects(saving.copy, told)
      BY <1>3, <1>4, <3>1, AheadReflects
    <3>3. /\ told.keys \subseteq Keys /\ asked[r].report.keys \subseteq Keys
          /\ told.password \in 0..MaxPassword /\ asked[r].report.password \in 0..MaxPassword
      BY <1>4, <1>5, ReportFields
    <3>4. /\ told'.keys = told.keys \cup asked[r].report.keys
          /\ told'.password \in {asked[r].report.password, told.password}
      BY <2>2
    <3>5. told' \in Reports
      <4> DEFINE n == IF asked[r].report.password > told.password
                      THEN asked[r].report.password ELSE told.password
                 ks == told.keys \cup asked[r].report.keys
      <4>1. n \in 0..MaxPassword /\ ks \in SUBSET Keys
        BY <3>3
      <4>2. told' = [keys |-> ks, password |-> n]
        BY <2>2
      <4> HIDE DEF n, ks
      <4> QED BY <4>1, <4>2 DEF Reports
    <3>6. Reflects(disk', told')
      BY <1>3, <2>2, <3>2, <3>4 DEF Reflects
    <3> QED BY <1>3, <2>2, <3>5, <3>6
  <2> QED BY <2>1, <2>2 DEF Replace
<1>9. ASSUME NEW q \in AuthRequests, asked'[q].at = "save" PROVE Reflects(auth, asked'[q].report)
  <2>1. q # r
    BY <1>6, <1>9
  <2>2. asked'[q] = asked[q]
    BY <1>1, <1>4, <2>1
  <2> QED BY <1>9, <2>2 DEF AuthInv
<1>10. AuthTypeOK'
  BY <1>1, <1>4, <1>6, <1>7, <1>8 DEF AuthInv, AuthTypeOK, Doings
<1>11. auth' = auth /\ Consistent(auth)
  BY <1>1 DEF AuthInv
<1> QED BY <1>1, <1>8, <1>9, <1>10, <1>11 DEF AuthInv, Consistent, AheadOf, Reflects

LEMMA ExpireKeeps == ASSUME AuthInv, NEW s \in Sessions, ExpireSession(s) PROVE AuthInv'
<1>1. UNCHANGED <<auth, disk, asked, saving, told, mishaps>> /\ overdue' \subseteq Sessions
  BY DEF ExpireSession, AuthInv, AuthTypeOK
<1>2. AuthTypeOK'
  BY <1>1 DEF AuthInv, AuthTypeOK
<1> QED BY <1>1, <1>2 DEF AuthInv, Consistent, AheadOf, Reflects

\* The process starts with the file, or with what it makes of it.
LEMMA RestartKeeps == ASSUME AuthInv, Restart PROVE AuthInv'
<1>1. /\ Mishap /\ disk' = auth' /\ told' = told /\ saving' = NoSaver
      /\ asked' = [r \in AuthRequests |-> Ready] /\ overdue' \subseteq overdue
  BY DEF Restart
<1>2. disk \in States /\ Consistent(disk) /\ told \in Reports /\ Reflects(disk, told)
  BY Types DEF AuthInv
<1>3. auth' \in States /\ Consistent(auth') /\ AheadOf(auth', disk)
  <2>1. CASE auth' = disk
    BY <1>2, <2>1, AheadOfItself
  <2>2. CASE disk.password = NoUser /\ auth' = Replaced(disk)
    <3>1. disk.password < MaxPassword
      BY <2>2, AuthConstants DEF NoUser
    <3> QED BY <1>2, <2>2, <3>1, ReplacedState
  <2>3. CASE disk.password < MaxPassword /\ auth' = [Replaced(disk) EXCEPT !.reset = TRUE]
    <3> DEFINE new == Replaced(disk)
    <3>1. new \in States /\ Consistent(new) /\ AheadOf(new, disk)
      BY <1>2, <2>3, ReplacedState
    <3>2. auth' = [new EXCEPT !.reset = TRUE]
      BY <2>3
    <3> HIDE DEF new
    <3>3. /\ auth'.password = new.password /\ auth'.session = new.session
          /\ auth'.under = new.under /\ auth'.key = new.key
      BY <3>1, <3>2 DEF States
    <3>4. auth' \in States
      BY <3>1, <3>2 DEF States
    <3> QED BY <3>1, <3>3, <3>4 DEF Consistent, AheadOf
  <2> QED BY <2>1, <2>2, <2>3 DEF Restart
<1>4. Reflects(auth', told)
  BY <1>2, <1>3, AheadReflects
<1>5. AheadOf(auth', auth')
  BY <1>3, AheadOfItself
<1>6. asked' \in [AuthRequests -> Doings] /\ \A q \in AuthRequests : asked'[q].at # "save"
  BY <1>1, Resting
<1>7. mishaps' \in 0..MaxFaults /\ overdue' \subseteq Sessions
  <2>1. mishaps \in 0..MaxFaults /\ overdue \subseteq Sessions
    BY DEF AuthInv, AuthTypeOK
  <2> QED BY <1>1, <2>1, AuthConstants DEF Mishap
<1>8. AuthTypeOK'
  BY <1>1, <1>2, <1>3, <1>6, <1>7 DEF AuthTypeOK, Doings
<1> QED BY <1>1, <1>3, <1>4, <1>5, <1>6, <1>8 DEF AuthInv, Consistent, AheadOf, Reflects
-----------------------------------------------------------------------------
LEMMA FreshState == Fresh \in States /\ Consistent(Fresh)
<1>1. NoUser \in 0..MaxPassword
  BY AuthConstants DEF NoUser
<1>2. Fresh \in States
  BY <1>1 DEF Fresh, States
<1> QED BY <1>2 DEF Fresh, Consistent

LEMMA AuthInvInit == AuthInit => AuthInv
<1> SUFFICES ASSUME AuthInit PROVE AuthInv
  OBVIOUS
<1>1. auth = Fresh /\ disk = Fresh /\ asked = [r \in AuthRequests |-> Ready] /\ saving = NoSaver
  BY DEF AuthInit
<1>2. told = Nothing
  BY DEF AuthInit, Nothing
<1>3. asked \in [AuthRequests -> Doings] /\ \A r \in AuthRequests : asked[r].at # "save"
  BY <1>1, Resting
<1>4. AheadOf(auth, disk) /\ Reflects(disk, told) /\ told \in Reports
  BY <1>1, <1>2, FreshState, AheadOfItself, NothingReported
<1>5. AuthTypeOK
  BY <1>1, <1>3, <1>4, FreshState, AuthConstants DEF AuthInit, AuthTypeOK, Doings
<1> QED BY <1>1, <1>3, <1>4, <1>5, FreshState DEF AuthInv

LEMMA AuthInvNext == AuthInv /\ [AuthNext]_authVars => AuthInv'
<1> SUFFICES ASSUME AuthInv, [AuthNext]_authVars PROVE AuthInv'
  OBVIOUS
<1>1. CASE UNCHANGED authVars
  <2>1. UNCHANGED <<auth, disk, asked, saving, overdue, told, mishaps>>
    BY <1>1 DEF authVars
  <2>2. AuthTypeOK'
    BY <2>1 DEF AuthInv, AuthTypeOK
  <2> QED BY <2>1, <2>2 DEF AuthInv, Consistent, AheadOf, Reflects
<1>2. ASSUME NEW r \in AuthRequests,
             \/ Setup(r) \/ SetupRoot(r) \/ Login(r) \/ ChangePassword(r)
             \/ \E at \in {"login", "change"} : Read(r, at)
             \/ \E s \in Sessions : Logout(r, s)
             \/ \E k \in Keys : CreateAPIKey(r, k) \/ RevokeAPIKey(r, k)
             \/ LogoutAll(r) \/ Touch(r) \/ CopyState(r) \/ Replace(r)
      PROVE  AuthInv'
  BY <1>2, SetupKeeps, SetupRootKeeps, LoginKeeps, ChangePasswordKeeps, ReadKeeps, LogoutKeeps,
     CreateAPIKeyKeeps, RevokeAPIKeyKeeps, LogoutAllKeeps, TouchKeeps, CopyKeeps, ReplaceKeeps
<1>3. ASSUME NEW s \in Sessions, ExpireSession(s) PROVE AuthInv'
  BY <1>3, ExpireKeeps
<1>4. CASE Restart
  BY <1>4, RestartKeeps
<1> QED BY <1>1, <1>2, <1>3, <1>4 DEF AuthNext

LEMMA AuthAlways == AuthSpec => []AuthInv
BY AuthInvInit, AuthInvNext, PTL DEF AuthSpec

LEMMA InvMeansCurrent == AuthInv => CurrentPasswordOnly
<1> SUFFICES ASSUME AuthInv PROVE CurrentPasswordOnly
  OBVIOUS
<1>1. /\ Consistent(auth) /\ Consistent(disk) /\ Reflects(disk, told)
      /\ auth \in States /\ disk \in States /\ told \in Reports
  BY Types DEF AuthInv
<1>2. Reflects(auth, told)
  BY <1>1, AheadReflects DEF AuthInv
<1> QED BY <1>1, <1>2 DEF Consistent, Reflects, CurrentPasswordOnly

LEMMA InvMeansRevoked == AuthInv => KeyRevocationKept
<1> SUFFICES ASSUME AuthInv PROVE KeyRevocationKept
  OBVIOUS
<1>1. /\ Reflects(disk, told) /\ auth \in States /\ disk \in States /\ told \in Reports
  BY Types DEF AuthInv
<1>2. Reflects(auth, told)
  BY <1>1, AheadReflects DEF AuthInv
<1> QED BY <1>1, <1>2 DEF Reflects, KeyRevocationKept

\* The variables of the account keep their types, and what a save copies is a state
\* the account has been in.
THEOREM AuthTyped == AuthSpec => []AuthTypeOK
<1>1. AuthInv => AuthTypeOK
  BY DEF AuthInv
<1> QED BY <1>1, AuthAlways, PTL

\* No session survives the password it was opened under, in memory or in the file,
\* and a change that was reported is never undone.
THEOREM PasswordsCurrent == AuthSpec => []CurrentPasswordOnly
BY AuthAlways, InvMeansCurrent, PTL

\* A key that was reported as revoked is revoked for good.
THEOREM RevocationsKept == AuthSpec => []KeyRevocationKept
BY AuthAlways, InvMeansRevoked, PTL
-----------------------------------------------------------------------------
(* McpCalls *)

\* A call that may run a dangerous operation with a nonce.
Holds(c, n) ==
    caller[c].at = "run" /\ caller[c].operation \in Dangerous /\ caller[c].nonce = n

\* A call holds a nonce that is neither stored nor used, and no other call does.
TakenOnce(n) ==
    \A c \in Calls : Holds(c, n) =>
        /\ confirms[n] = Absent /\ ran[n] = {}
        /\ Matches(approved[n], caller[c].operation, caller[c].by)
        /\ \A d \in Calls : Holds(d, n) => d = c

\* A used nonce is not stored, was used once, and for what it was created for.
Used(n) ==
    ran[n] # {} =>
        /\ confirms[n] = Absent
        /\ \E run \in ran[n] :
             ran[n] = {run} /\ Matches(approved[n], run.operation, run.by)

NonceAt(n) ==
    /\ confirms[n] # Absent => confirms[n] = approved[n] /\ ran[n] = {}
    /\ confirms[n] # Absent => \A c \in Calls : ~Holds(c, n)
    /\ TakenOnce(n) /\ Used(n)

\* Principals that share a key or a user share their count.
RatesAgree == \A p, q \in Principals : RateKey(p) = RateKey(q) => rates[p] = rates[q]

CallInv == CallTypeOK /\ RatesAgree /\ \A n \in Nonces : NonceAt(n)
-----------------------------------------------------------------------------
\* Nothing was confirmed, called or run at the start.
LEMMA CallInvInit == CallInit => CallInv
<1> SUFFICES ASSUME CallInit PROVE CallInv
  OBVIOUS
<1> USE DEF CallInit
<1>1. CallTypeOK
  BY CallConstants DEF CallTypeOK, Confirmations, Bucket
<1>2. RatesAgree
  BY DEF RatesAgree
<1>3. ASSUME NEW n \in Nonces PROVE NonceAt(n)
  BY DEF NonceAt, TakenOnce, Used, Holds, Silent
<1> QED BY <1>1, <1>2, <1>3 DEF CallInv

\* A nonce that no step touches stays where it is.
LEMMA PlaceKept ==
    ASSUME NEW n \in Nonces, NonceAt(n),
           confirms'[n] \in {confirms[n], Absent}, approved'[n] = approved[n], ran'[n] = ran[n],
           \A c \in Calls : Holds(c, n)' => Holds(c, n) /\ caller'[c].operation = caller[c].operation
                                             /\ caller'[c].by = caller[c].by
    PROVE  NonceAt(n)'
<1>1. TakenOnce(n)'
  BY DEF NonceAt, TakenOnce, Matches, OwnerMatches
<1>2. Used(n)'
  BY DEF NonceAt, Used, Matches, OwnerMatches
<1> QED BY <1>1, <1>2 DEF NonceAt
-----------------------------------------------------------------------------
\* Every step keeps the invariant.
LEMMA CallInvNext == CallInv /\ [CallNext]_callVars => CallInv'
<1> SUFFICES ASSUME CallInv, [CallNext]_callVars PROVE CallInv'
  OBVIOUS
<1> USE DEF CallInv
<1>1. ASSUME NEW p \in Principals, NEW operation \in Operations, NEW n \in Nonces,
             CreateConfirmation(p, operation, n)
      PROVE  CallInv'
  <2> DEFINE record == [by |-> p, operation |-> operation]
  <2>1. UNCHANGED <<caller, lapsed, buckets, minute, ran>> /\ approved[n] = Absent
    BY <1>1 DEF CreateConfirmation
  <2>2. /\ approved' = [approved EXCEPT ![n] = record]
        /\ confirms' = [Pruned(confirms) EXCEPT ![n] = record]
        /\ record \in Confirmations
    BY <1>1 DEF CreateConfirmation, Confirmations
  <2>3. /\ rates' \in [Principals -> 0..ConfirmationsPerMinute]
        /\ RatesAgree'
    <3>1. \A q \in Confirmed(p) : rates[q] = rates[p]
      BY DEF RatesAgree, Confirmed
    <3>2. /\ rates' = [q \in Principals |-> IF q \in Confirmed(p) THEN rates[q] + 1 ELSE rates[q]]
          /\ rates[p] < ConfirmationsPerMinute
      BY <1>1 DEF CreateConfirmation
    <3>3. \A q, r \in Principals : RateKey(q) = RateKey(r) => (q \in Confirmed(p) <=> r \in Confirmed(p))
      BY DEF Confirmed
    <3>4. rates' \in [Principals -> 0..ConfirmationsPerMinute]
      BY <3>1, <3>2, CallConstants DEF CallTypeOK
    <3>5. \A q \in Principals : rates'[q] = IF q \in Confirmed(p) THEN rates[q] + 1 ELSE rates[q]
      BY <3>2
    <3>6. ASSUME NEW q \in Principals, NEW r \in Principals, RateKey(q) = RateKey(r)
          PROVE  rates'[q] = rates'[r]
      BY <3>3, <3>5, <3>6 DEF RatesAgree
    <3> QED BY <3>4, <3>6 DEF RatesAgree, RateKey
  <2>4. Absent \in Confirmations
    BY DEF Confirmations
  <2>5. Pruned(confirms) \in [Nonces -> Confirmations]
    BY <2>4 DEF CallTypeOK, Pruned
  <2> HIDE DEF record
  <2>6. CallTypeOK'
    BY <2>1, <2>2, <2>3, <2>5 DEF CallTypeOK
  <2>7. ASSUME NEW m \in Nonces, m # n PROVE NonceAt(m)'
    <3>1. confirms'[m] \in {confirms[m], Absent} /\ approved'[m] = approved[m] /\ ran'[m] = ran[m]
      BY <2>1, <2>2, <2>5, <2>7 DEF Pruned, CallTypeOK
    <3> QED BY <2>1, <3>1, PlaceKept DEF Holds
  <2>8. NonceAt(n)'
    <3>1. confirms'[n] = record /\ approved'[n] = record
      BY <2>2, <2>5 DEF CallTypeOK
    <3>2. ran[n] = {} /\ \A c \in Calls : ~Holds(c, n)
      BY <2>1 DEF NonceAt, TakenOnce, Used, Matches
    <3> QED BY <2>1, <3>1, <3>2 DEF NonceAt, TakenOnce, Used, Holds
  <2> QED BY <2>3, <2>6, <2>7, <2>8
<1>2. ASSUME NEW c \in Calls, NEW p \in Clients, NEW operation \in Operations, NEW n \in Nonces,
             Arrive(c, p, operation, n)
      PROVE  CallInv'
  <2> DEFINE ask == [at |-> "admit", by |-> p, operation |-> operation, nonce |-> n, window |-> minute]
  <2>1. /\ UNCHANGED <<confirms, lapsed, rates, buckets, minute, approved, ran>>
        /\ caller' = [caller EXCEPT ![c] = ask]
        /\ ask \in Asked /\ ask.at # "run"
    BY <1>2 DEF Arrive, Asked, CallTypeOK
  <2> HIDE DEF ask
  <2>2. CallTypeOK'
    BY <2>1 DEF CallTypeOK
  <2>3. ASSUME NEW m \in Nonces PROVE NonceAt(m)'
    <3>1. \A d \in Calls : Holds(d, m)' => Holds(d, m) /\ caller'[d] = caller[d]
      BY <2>1 DEF CallTypeOK, Holds
    <3> QED BY <2>1, <3>1, PlaceKept
  <2> QED BY <2>1, <2>2, <2>3 DEF RatesAgree, RateKey
<1>3. ASSUME NEW c \in Calls, Admit(c) PROVE CallInv'
  <2> DEFINE p == caller[c].by
             window == caller[c].window
             kept == [q \in Clients |-> IF buckets[q].window = window THEN buckets[q]
                                        ELSE Bucket(window, 0)]
             ask == [caller[c] EXCEPT !.at = "authorize"]
  <2>1. UNCHANGED <<confirms, lapsed, rates, minute, approved, ran>>
    BY <1>3 DEF Admit
  <2>2. caller[c] \in Asked
    BY <1>3 DEF Admit, CallTypeOK, Silent
  <2>3. /\ ask \in Asked /\ ask.at # "run"
        /\ p \in Clients /\ window \in 0..MaxMinute
    BY <2>2 DEF Asked
  <2>4. kept \in [Clients -> [window : 0..MaxMinute, count : 0..RequestsPerMinute]]
    BY <2>3, CallConstants DEF CallTypeOK, Bucket
  <2>5. \/ buckets' = kept /\ caller' = [caller EXCEPT ![c] = Silent]
        \/ /\ kept[p].count < RequestsPerMinute
           /\ buckets' = [kept EXCEPT ![p].count = @ + 1]
           /\ caller' = [caller EXCEPT ![c] = ask]
    <3>1. kept[p].count \in Nat
      BY <2>3, <2>4, CallConstants
    <3> QED BY <1>3, <3>1, <2>2, CallConstants DEF Admit, Spent, Respond, Advance
  <2> HIDE DEF ask, kept, p, window
  <2>6. buckets' \in [Clients -> [window : 0..MaxMinute, count : 0..RequestsPerMinute]]
    <3>1. CASE buckets' = kept
      BY <2>4, <3>1
    <3>2. CASE kept[p].count < RequestsPerMinute /\ buckets' = [kept EXCEPT ![p].count = @ + 1]
      <4>1. kept[p] \in [window : 0..MaxMinute, count : 0..RequestsPerMinute]
        BY <2>3, <2>4
      <4>2. [kept[p] EXCEPT !.count = @ + 1] \in [window : 0..MaxMinute, count : 0..RequestsPerMinute]
        BY <3>2, <4>1, CallConstants
      <4>3. buckets' = [kept EXCEPT ![p] = [kept[p] EXCEPT !.count = @ + 1]]
        BY <3>2
      <4> QED BY <2>3, <2>4, <4>2, <4>3
    <3> QED BY <2>5, <3>1, <3>2
  <2>7. CallTypeOK'
    BY <2>1, <2>3, <2>5, <2>6 DEF CallTypeOK
  <2>8. ASSUME NEW m \in Nonces PROVE NonceAt(m)'
    <3>1. \A d \in Calls : Holds(d, m)' => Holds(d, m) /\ caller'[d] = caller[d]
      BY <2>3, <2>5 DEF CallTypeOK, Holds, Silent
    <3> QED BY <2>1, <3>1, PlaceKept
  <2> QED BY <2>1, <2>7, <2>8 DEF RatesAgree, RateKey
<1>4. ASSUME NEW c \in Calls, Authorize(c) PROVE CallInv'
  <2> DEFINE mine == caller[c]
             ask == [caller[c] EXCEPT !.at = "run"]
  <2>1. UNCHANGED <<lapsed, rates, buckets, minute, approved, ran>>
    BY <1>4 DEF Authorize
  <2>2. caller[c] \in Asked /\ caller[c].at = "authorize"
    BY <1>4 DEF Authorize, CallTypeOK, Silent
  <2>3. /\ ask \in Asked /\ ask.at = "run" /\ ask.by = mine.by
        /\ ask.operation = mine.operation /\ ask.nonce = mine.nonce /\ mine.nonce \in Nonces
    BY <2>2 DEF Asked
  <2>4. \/ /\ mine.operation \notin Dangerous
           /\ caller' = [caller EXCEPT ![c] = ask] /\ confirms' = confirms
        \/ caller' = [caller EXCEPT ![c] = Silent] /\ confirms' = confirms
        \/ caller' = [caller EXCEPT ![c] = Silent] /\ confirms' = ConsumeNonce(mine.nonce)
        \/ /\ caller' = [caller EXCEPT ![c] = ask] /\ confirms' = ConsumeNonce(mine.nonce)
           /\ Matches(confirms[mine.nonce], mine.operation, mine.by)
    BY <1>4, <2>2 DEF Authorize, Advance, Respond
  <2> HIDE DEF ask
  <2>5. /\ ConsumeNonce(mine.nonce) \in [Nonces -> Confirmations]
        /\ \A m \in Nonces : ConsumeNonce(mine.nonce)[m] \in {confirms[m], Absent}
        /\ ConsumeNonce(mine.nonce)[mine.nonce] = Absent
    BY <2>3 DEF CallTypeOK, ConsumeNonce, Pruned, Confirmations
  <2>6. /\ confirms' \in [Nonces -> Confirmations]
        /\ \A m \in Nonces : confirms'[m] \in {confirms[m], Absent}
    BY <2>4, <2>5 DEF CallTypeOK
  <2>7. CallTypeOK'
    BY <2>1, <2>3, <2>4, <2>6 DEF CallTypeOK
  <2>8. ASSUME NEW m \in Nonces PROVE NonceAt(m)'
    <3>1. CASE \A d \in Calls : Holds(d, m)' => Holds(d, m) /\ caller'[d] = caller[d]
      BY <2>1, <2>6, <3>1, PlaceKept
    <3>2. CASE ~(\A d \in Calls : Holds(d, m)' => Holds(d, m) /\ caller'[d] = caller[d])
      <4>1. PICK d \in Calls : Holds(d, m)' /\ ~(Holds(d, m) /\ caller'[d] = caller[d])
        BY <3>2
      <4>2. /\ d = c /\ mine.nonce = m /\ confirms' = ConsumeNonce(m)
            /\ caller' = [caller EXCEPT ![c] = ask]
            /\ Matches(confirms[m], mine.operation, mine.by)
        BY <2>3, <2>4, <4>1 DEF Holds, Silent, CallTypeOK
      <4>3. /\ confirms[m] = approved[m] /\ ran[m] = {} /\ \A e \in Calls : ~Holds(e, m)
        BY <4>2 DEF NonceAt, Matches
      <4>4. confirms'[m] = Absent
        BY <2>5, <4>2
      <4>5. /\ caller'[c] = ask
            /\ \A e \in Calls : e # c => ~Holds(e, m)'
        BY <4>2, <4>3 DEF Holds, CallTypeOK
      <4>6. TakenOnce(m)'
        BY <2>1, <2>3, <4>2, <4>3, <4>4, <4>5 DEF TakenOnce, Matches, OwnerMatches
      <4> QED BY <2>1, <4>3, <4>4, <4>6 DEF NonceAt, Used
    <3> QED BY <3>1, <3>2
  <2> QED BY <2>1, <2>7, <2>8 DEF RatesAgree, RateKey
<1>5. ASSUME NEW c \in Calls, Run(c) PROVE CallInv'
  <2> DEFINE mine == caller[c]
             new == [by |-> mine.by, operation |-> mine.operation,
                     time |-> Cardinality(ran[mine.nonce])]
  <2>1. /\ UNCHANGED <<confirms, lapsed, rates, buckets, minute, approved>>
        /\ caller' = [caller EXCEPT ![c] = Silent]
        /\ mine \in Asked /\ mine.at = "run"
    BY <1>5 DEF Run, Respond, CallTypeOK, Silent
  <2>2. mine.nonce \in Nonces /\ mine.by \in Clients /\ mine.operation \in Operations
    BY <2>1 DEF Asked
  <2>3. CASE mine.operation \notin Dangerous
    <3>1. ran' = ran
      BY <1>5, <2>3 DEF Run
    <3>2. ASSUME NEW m \in Nonces PROVE NonceAt(m)'
      <4>1. \A d \in Calls : Holds(d, m)' => Holds(d, m) /\ caller'[d] = caller[d]
        BY <2>1 DEF CallTypeOK, Holds, Silent
      <4> QED BY <2>1, <3>1, <4>1, PlaceKept
    <3> QED BY <2>1, <3>1, <3>2 DEF CallTypeOK, RatesAgree, RateKey
  <2>4. CASE mine.operation \in Dangerous
    <3>1. Holds(c, mine.nonce)
      BY <2>1, <2>4 DEF Holds
    <3>2. /\ confirms[mine.nonce] = Absent /\ ran[mine.nonce] = {}
          /\ Matches(approved[mine.nonce], mine.operation, mine.by)
          /\ \A d \in Calls : Holds(d, mine.nonce) => d = c
      BY <2>2, <3>1 DEF NonceAt, TakenOnce
    <3>3. ran' = [ran EXCEPT ![mine.nonce] = ran[mine.nonce] \cup {new}]
      BY <1>5, <2>4 DEF Run
    <3>4. Cardinality(ran[mine.nonce]) = 0
      BY <3>2, FS_EmptySet
    <3>5. /\ new \in [by : Clients, operation : Operations, time : Nat]
          /\ new.by = mine.by /\ new.operation = mine.operation
      BY <2>2, <3>4
    <3> HIDE DEF new
    <3>6. CallTypeOK'
      BY <2>1, <2>2, <3>3, <3>5 DEF CallTypeOK
    <3>7. ASSUME NEW m \in Nonces PROVE NonceAt(m)'
      <4>1. \A d \in Calls : Holds(d, m)' => d # c /\ Holds(d, m) /\ caller'[d] = caller[d]
        BY <2>1 DEF CallTypeOK, Holds, Silent
      <4>2. CASE m # mine.nonce
        <5>1. ran'[m] = ran[m]
          BY <3>3, <4>2 DEF CallTypeOK
        <5> QED BY <2>1, <4>1, <5>1, PlaceKept
      <4>3. CASE m = mine.nonce
        <5>1. ran'[m] = {new} /\ confirms'[m] = Absent
          BY <2>1, <2>2, <3>2, <3>3, <4>3 DEF CallTypeOK
        <5>2. \A d \in Calls : ~Holds(d, m)'
          BY <3>2, <4>1, <4>3
        <5>3. Used(m)'
          BY <2>1, <3>2, <3>5, <4>3, <5>1 DEF Used, Matches, OwnerMatches
        <5> QED BY <5>1, <5>2, <5>3 DEF NonceAt, TakenOnce
      <4> QED BY <4>2, <4>3
    <3> QED BY <2>1, <3>6, <3>7 DEF RatesAgree, RateKey
  <2> QED BY <2>3, <2>4
<1>6. ASSUME NEW n \in Nonces, LapseNonce(n) PROVE CallInv'
  <2>1. UNCHANGED <<caller, confirms, rates, buckets, minute, approved, ran>>
    BY <1>6 DEF LapseNonce
  <2>2. CallTypeOK'
    BY <1>6, <2>1 DEF CallTypeOK, LapseNonce
  <2>3. ASSUME NEW m \in Nonces PROVE NonceAt(m)'
    BY <2>1, PlaceKept DEF Holds
  <2> QED BY <2>1, <2>2, <2>3 DEF RatesAgree, RateKey
<1>7. CASE Minute
  <2>1. UNCHANGED <<caller, confirms, lapsed, buckets, approved, ran>>
    BY <1>7 DEF Minute
  <2>2. CallTypeOK'
    BY <1>7, <2>1, CallConstants DEF CallTypeOK, Minute
  <2>3. ASSUME NEW m \in Nonces PROVE NonceAt(m)'
    BY <2>1, PlaceKept DEF Holds
  <2>4. RatesAgree'
    BY <1>7 DEF RatesAgree, Minute
  <2> QED BY <2>2, <2>3, <2>4
<1>8. CASE UNCHANGED callVars
  <2>1. ASSUME NEW m \in Nonces PROVE NonceAt(m)'
    BY <1>8, PlaceKept DEF Holds, callVars
  <2> QED BY <1>8, <2>1 DEF CallTypeOK, RatesAgree, RateKey, callVars
<1> QED BY <1>1, <1>2, <1>3, <1>4, <1>5, <1>6, <1>7, <1>8 DEF CallNext
-----------------------------------------------------------------------------
\* Every variable of the server stays in its domain; the counts of requests and of
\* confirmations stay under their limits.
THEOREM CallsTyped == CallSpec => []CallTypeOK
<1>1. CallInv => CallTypeOK
  BY DEF CallInv
<1> QED BY CallInvInit, CallInvNext, <1>1, PTL DEF CallSpec

\* However many calls show a nonce at once, one at most runs, and it is the operation
\* the nonce was created for, on behalf of who created it.
THEOREM OneRunPerConfirmation == CallSpec => []DangerConfirmed
<1>1. CallInv => DangerConfirmed
  <2> SUFFICES ASSUME CallInv, NEW n \in Nonces
               PROVE  /\ Cardinality(ran[n]) <= 1
                      /\ \A run \in ran[n] : Matches(approved[n], run.operation, run.by)
    BY DEF DangerConfirmed
  <2>1. CASE ran[n] = {}
    BY <2>1, FS_EmptySet
  <2>2. CASE ran[n] # {}
    <3>1. PICK run \in ran[n] :
            ran[n] = {run} /\ Matches(approved[n], run.operation, run.by)
      BY <2>2 DEF CallInv, NonceAt, Used
    <3>2. Cardinality(ran[n]) = 1
      BY <3>1, FS_Singleton
    <3> QED BY <3>1, <3>2
  <2> QED BY <2>1, <2>2
<1> QED BY CallInvInit, CallInvNext, <1>1, PTL DEF CallSpec
-----------------------------------------------------------------------------
(* McpTools *)

\* A job was granted to its owner, and set going by its owner or by an administrator.
JobGranted(j) ==
    started[j] # NoJob =>
        /\ Authorized(started[j].owner, Grants(WorkOf(started[j].type)))
        /\ started[j].asker = started[j].owner \/ Authorized(started[j].asker, "admin")

JobsGranted == \A j \in JobSlots : JobGranted(j)

ToolsInv == ToolsTypeOK /\ JobsGranted /\ ChangesGranted
-----------------------------------------------------------------------------
\* The scope a tool is called with grants what its handler changes: the names in
\* requiredScopesForTool agree with the permission levels and with the handlers.
LEMMA ScopeOfTool ==
    ASSUME NEW t \in Tools, t.change \notin {"nothing", "job", "cancellation"}
    PROVE  RequiredScope(t) = Grants(t.change) /\ t.change \in ChangeKinds
<1> DEFINE Writing == {"knowledge", "index", "conversation"}
<1>1. CASE t \in KnowledgeWrites \/ t \in ConversationTools
  <2>1. \/ t.level = "danger" /\ t.change = "deletion"
        \/ /\ t.level = "write" /\ t.change \in Writing
           /\ t.tool \in {"create_knowledge_base", "reindex_document", "save_conversation"}
    BY <1>1 DEF KnowledgeWrites, ConversationTools, Declared
  <2>2. CASE t.level = "danger" /\ t.change = "deletion"
    BY <2>2 DEF RequiredScope, Grants, ChangeKinds
  <2>3. CASE /\ t.level = "write" /\ t.change \in Writing
             /\ t.tool \in {"create_knowledge_base", "reindex_document", "save_conversation"}
    <3>1. t \notin EvaluationTools /\ ~IsUploadTool(t.tool)
      BY <2>3 DEF EvaluationTools, Declared, IsUploadTool
    <3>2. RequiredScope(t) = "write"
      BY <2>3, <3>1 DEF RequiredScope
    <3> QED BY <2>3, <3>2 DEF Grants, ChangeKinds
  <2> QED BY <2>1, <2>2, <2>3
<1>2. CASE t \in UploadTools
  <2>1. t.level = "write" /\ t.change = "content" /\ IsUploadTool(t.tool)
    BY <1>2 DEF UploadTools, Declared, IsUploadTool
  <2>2. t.tool \notin {"generate_eval_dataset", "create_eval_case_from_query"}
    BY <1>2 DEF UploadTools, Declared
  <2> QED BY <2>1, <2>2 DEF RequiredScope, Grants, ChangeKinds
<1>3. CASE t \in EvaluationTools
  <2>1. /\ t.level = "write" /\ t.change = "evaluation"
        /\ t.tool \in {"generate_eval_dataset", "create_eval_case_from_query"}
    BY <1>3 DEF EvaluationTools, Declared
  <2>2. ~IsUploadTool(t.tool)
    BY <2>1 DEF IsUploadTool
  <2> QED BY <1>3, <2>1, <2>2 DEF RequiredScope, Grants, ChangeKinds
<1>4. CASE t \in KnowledgeReads \cup SearchTools \cup ContextTools \cup InspectionTools
                   \cup JobTools \cup SystemTools
  BY <1>4 DEF KnowledgeReads, SearchTools, ContextTools, InspectionTools, JobTools, SystemTools,
              Declared
<1> QED BY <1>1, <1>2, <1>3, <1>4 DEF Tools

\* The scope asked for when a job is started grants what the job does: the type is
\* read alike by requiredScopesForToolCall and by StartMCPImportJobAs.
LEMMA ScopeOfJob ==
    ASSUME NEW t \in JobTools, t.tool = "start_import_job",
           NEW spelling \in Spellings, JobType(spelling) \in Startable
    PROVE  RequiredForCall(t, spelling) = Grants(WorkOf(JobType(spelling)))
<1>1. spelling.word \in {"", "import", "reindex", "eval_dataset", "batch_index"}
  BY DEF Spellings, Words, JobType, Startable
<1> QED BY <1>1 DEF RequiredForCall, Compared, Grants, WorkOf, JobType

\* A job of a type that can be started makes a change of a known kind.
LEMMA KindOfWork ==
    ASSUME NEW type PROVE WorkOf(type) \in ChangeKinds /\ WorkOf(type) # "nothing"
BY DEF WorkOf, ChangeKinds
-----------------------------------------------------------------------------
\* The invariant holds at the start: there is no job, and nothing was changed.
LEMMA ToolsInvInit == ToolsInit => ToolsInv
BY DEF ToolsInit, ToolsInv, ToolsTypeOK, JobsGranted, JobGranted, ChangesGranted, NoJob, Change, ToolCallers

\* Every step keeps the invariant.
LEMMA ToolsInvNext == ToolsInv /\ [ToolsNext]_toolVars => ToolsInv'
<1> SUFFICES ASSUME ToolsInv, [ToolsNext]_toolVars PROVE ToolsInv'
  OBVIOUS
<1> USE DEF ToolsInv
<1>1. ASSUME NEW p \in ToolCallers, NEW t \in Tools, CallTool(p, t) PROVE ToolsInv'
  <2>1. held' = held /\ started' = started
    BY <1>1 DEF CallTool
  <2>2. CASE t.change = "nothing"
    BY <1>1, <2>1, <2>2 DEF CallTool, ToolsTypeOK, JobsGranted, JobGranted, ChangesGranted, Authorized
  <2>3. CASE t.change # "nothing"
    <3>1. changed' = [asker |-> p, owner |-> p, what |-> t.change]
      BY <1>1, <2>3 DEF CallTool, Change
    <3>2. t.change \in ChangeKinds /\ Authorized(p, Grants(t.change))
      BY <1>1, <2>3, ScopeOfTool DEF CallTool
    <3> QED BY <1>1, <2>1, <3>1, <3>2 DEF ToolsTypeOK, JobsGranted, JobGranted, ChangesGranted, Authorized
  <2> QED BY <2>2, <2>3
<1>2. ASSUME NEW p \in ToolCallers, NEW j \in JobSlots, NEW spelling \in Spellings,
             StartJob(p, j, spelling)
      PROVE  ToolsInv'
  <2> DEFINE new == [status |-> "queued", type |-> JobType(spelling), owner |-> p, asker |-> p]
  <2>1. held' = held /\ changed' = changed /\ started' = [started EXCEPT ![j] = new]
    BY <1>2 DEF StartJob
  <2>2. new \in KeptJobs
    BY <1>2 DEF StartJob, KeptJobs
  <2>3. Authorized(p, Grants(WorkOf(JobType(spelling))))
    BY <1>2, ScopeOfJob DEF StartJob, MayCall
  <2>4. JobsGranted'
    <3> SUFFICES ASSUME NEW k \in JobSlots PROVE JobGranted(k)'
      BY DEF JobsGranted
    <3>1. CASE k = j
      BY <2>1, <2>3, <3>1 DEF ToolsTypeOK, JobGranted, Authorized
    <3>2. CASE k # j
      BY <2>1, <3>2 DEF ToolsTypeOK, JobsGranted, JobGranted, Authorized
    <3> QED BY <3>1, <3>2
  <2> QED BY <2>1, <2>2, <2>4 DEF ToolsTypeOK, ChangesGranted, Authorized
<1>3. ASSUME NEW p \in ToolCallers, NEW j \in JobSlots, RetryJob(p, j) PROVE ToolsInv'
  <2> DEFINE again == [started[j] EXCEPT !.status = "queued", !.asker = p]
  <2>1. held' = held /\ changed' = changed /\ started' = [started EXCEPT ![j] = again]
    BY <1>3 DEF RetryJob, ToolsTypeOK
  <2>2. started[j] \in KeptJobs
    BY <1>3 DEF RetryJob, ToolsTypeOK, NoJob
  <2>3. /\ again \in KeptJobs
        /\ again.owner = started[j].owner /\ again.type = started[j].type /\ again.asker = p
    BY <1>3, <2>2 DEF KeptJobs
  <2>4. started[j].owner = p \/ Authorized(p, "admin")
    BY <1>3 DEF RetryJob, Owns
  <2>5. Authorized(started[j].owner, Grants(WorkOf(started[j].type)))
    BY <2>2 DEF JobsGranted, JobGranted, KeptJobs, NoJob
  <2>6. JobsGranted'
    <3> SUFFICES ASSUME NEW k \in JobSlots PROVE JobGranted(k)'
      BY DEF JobsGranted
    <3>1. CASE k = j
      <4>1. started'[k] = again
        BY <2>1, <3>1 DEF ToolsTypeOK
      <4> HIDE DEF again
      <4> QED BY <2>1, <2>3, <2>4, <2>5, <4>1 DEF JobGranted, Authorized
    <3>2. CASE k # j
      BY <2>1, <3>2 DEF ToolsTypeOK, JobsGranted, JobGranted, Authorized
    <3> QED BY <3>1, <3>2
  <2> HIDE DEF again
  <2> QED BY <2>1, <2>3, <2>6 DEF ToolsTypeOK, ChangesGranted, Authorized
<1>4. ASSUME NEW j \in JobSlots, NEW p \in ToolCallers, CancelJob(p, j) PROVE ToolsInv'
  BY <1>4 DEF CancelJob, ToolsTypeOK, JobsGranted, JobGranted, ChangesGranted, Authorized
<1>5. ASSUME NEW j \in JobSlots, ForgetJob(j) PROVE ToolsInv'
  BY <1>5 DEF ForgetJob, ToolsTypeOK, JobsGranted, JobGranted, ChangesGranted, Authorized
<1>6. ASSUME NEW j \in JobSlots, RunJob(j) PROVE ToolsInv'
  <2> DEFINE failed == [started[j] EXCEPT !.status = "failed"]
  <2>1. held' = held /\ started[j] \in KeptJobs
    BY <1>6 DEF RunJob, ToolsTypeOK, NoJob
  <2>2. changed' = [asker |-> started[j].asker, owner |-> started[j].owner,
                    what |-> WorkOf(started[j].type)]
    BY <1>6 DEF RunJob, Change
  <2>3. changed' \in [asker : ToolCallers, owner : ToolCallers, what : ChangeKinds \cup {"nothing"}]
    BY <2>1, <2>2, KindOfWork DEF KeptJobs
  <2>4. ChangesGranted'
    BY <2>1, <2>2 DEF JobsGranted, JobGranted, ChangesGranted, KeptJobs, NoJob, Authorized
  <2>5. /\ failed \in KeptJobs
        /\ failed.owner = started[j].owner /\ failed.type = started[j].type
        /\ failed.asker = started[j].asker
    BY <2>1 DEF KeptJobs
  <2>6. started' = [started EXCEPT ![j] = failed] \/ started' = [started EXCEPT ![j] = NoJob]
    BY <1>6 DEF RunJob, ToolsTypeOK
  <2>7. JobsGranted'
    <3> HIDE DEF failed
    <3> SUFFICES ASSUME NEW k \in JobSlots, started'[k] # NoJob PROVE JobGranted(k)'
      BY DEF JobsGranted, JobGranted, NoJob
    <3>1. /\ started[k] # NoJob
          /\ started'[k].owner = started[k].owner /\ started'[k].type = started[k].type
          /\ started'[k].asker = started[k].asker
      BY <2>1, <2>5, <2>6 DEF ToolsTypeOK, NoJob, KeptJobs
    <3> QED BY <2>1, <3>1 DEF JobsGranted, JobGranted, Authorized
  <2> HIDE DEF failed
  <2> QED BY <2>1, <2>3, <2>4, <2>5, <2>6, <2>7 DEF ToolsTypeOK
<1>7. ASSUME UNCHANGED toolVars PROVE ToolsInv'
  BY <1>7 DEF toolVars, ToolsTypeOK, JobsGranted, JobGranted, ChangesGranted, Authorized
<1> QED BY <1>1, <1>2, <1>3, <1>4, <1>5, <1>6, <1>7 DEF ToolsNext
-----------------------------------------------------------------------------
\* Every variable of the tools stays in its domain.
THEOREM ToolsTyped == ToolsSpec => []ToolsTypeOK
<1>1. ToolsInv => ToolsTypeOK
  BY DEF ToolsInv
<1> QED BY ToolsInvInit, ToolsInvNext, <1>1, PTL DEF ToolsSpec

\* No tool, and no job however often it is retried, changes anything on behalf of a
\* key whose scopes do not grant that change, or for another key unless an
\* administrator asks.
THEOREM ChangesAlwaysGranted == ToolsSpec => []ChangesGranted
<1>1. ToolsInv => ChangesGranted
  BY DEF ToolsInv
<1> QED BY ToolsInvInit, ToolsInvNext, <1>1, PTL DEF ToolsSpec
-----------------------------------------------------------------------------
(* Retrieval *)

Rounds == 0..2
Stages == {"idle", "lookup", "filter", "search", "select", "store", "chosen"}

ReaderRec ==
    [at : Stages, scope : SearchScopes, filter : SUBSET Generations, hits : SUBSET Generations,
     first : SUBSET Generations, chosen : SUBSET Generations, wide : BOOLEAN,
     planned : BOOLEAN, round : Rounds]

\* The scope of a request at work was observed; what it selected, now or before the
\* search was widened, and what it chose, was in that scope.
Observed(r) ==
    /\ reader[r].at # "idle" => Shown(reader[r].scope) \subseteq seen[r]
    /\ reader[r].at # "idle" => reader[r].chosen \cup reader[r].first \subseteq seen[r]
    /\ reader[r].at = "store" => reader[r].hits \subseteq seen[r]

RetrievalTypes ==
    /\ visible \in [Names -> Generations \cup {None}]
    /\ reader \in [Readers -> ReaderRec]
    /\ seen \in [Readers -> SUBSET Generations]

RetrievalInv == RetrievalTypes /\ \A r \in Readers : Observed(r)
-----------------------------------------------------------------------------
(* The catalog *)

\* The catalog never names a generation that is not stored: a save switches to stored
\* generations only, and the cleanup passes over the ones that are named.
THEOREM CatalogStored == Spec => []VisibleStored
<1> DEFINE Kept0 == TypeOK /\ VisibleStored
<1>1. Init => Kept0
  BY DEF Init, VisibleStored
<1>2. Kept0 /\ [Next]_vars => Kept0'
  <2> SUFFICES ASSUME Kept0, [Next]_vars PROVE Kept0'
    OBVIOUS
  <2>1. ASSUME NEW g \in Generations, Write(g) PROVE Kept0'
    BY <2>1 DEF Write, TypeOK, VisibleStored, Visible
  <2>2. CASE Discard
    BY <2>2 DEF Discard, TypeOK, VisibleStored, Visible
  <2>3. CASE Switch
    BY <2>3 DEF Switch, TypeOK, VisibleStored, Visible
  <2>4. CASE UNCHANGED vars
    BY <2>4 DEF vars, TypeOK, VisibleStored, Visible
  <2> QED BY <2>1, <2>2, <2>3, <2>4 DEF Next
<1>3. Kept0 => VisibleStored
  OBVIOUS
<1> QED BY <1>1, <1>2, <1>3, PTL DEF Spec

\* A step of the index lifecycle keeps the catalog in its domain.
LEMMA NextTyped ==
    ASSUME visible \in [Names -> Generations \cup {None}], Next, OwnOnly'
    PROVE  visible' \in [Names -> Generations \cup {None}]
<1>1. CASE Switch
  <2>1. visible' \in [Names -> stored \cup {None}]
    BY <1>1 DEF Switch
  <2>2. \A n \in Names : visible'[n] \in Generations \cup {None}
    BY DEF OwnOnly
  <2> QED BY <2>1, <2>2
<1>2. CASE ~Switch
  <2>1. visible' = visible
    BY <1>2 DEF Next, Write, Discard
  <2> QED BY <2>1
<1> QED BY <1>1, <1>2
-----------------------------------------------------------------------------
LEMMA RoundNumbers == {0, 1, 2} \subseteq Rounds
BY DEF Rounds

\* What a scope shows is a set of generations.
LEMMA ShownTyped ==
    ASSUME RetrievalTypes, NEW scope PROVE Shown(scope) \subseteq Generations
BY DEF RetrievalTypes, Shown, Shows

LEMMA RetrievalInvInit == RetrievalInit => RetrievalInv
<1> SUFFICES ASSUME RetrievalInit PROVE RetrievalInv
  OBVIOUS
<1>1. AtRest \in ReaderRec /\ AtRest.at = "idle"
  BY RoundNumbers DEF AtRest, ReaderRec, Stages, SearchScopes
<1> QED BY <1>1 DEF RetrievalInit, Init, TypeOK, RetrievalInv, RetrievalTypes, Observed

\* A step of one request that leaves the catalog, and what the others saw, alone.
LEMMA OneRequest ==
    ASSUME RetrievalInv, NEW r \in Readers, NEW new \in ReaderRec, visible' = visible,
           reader' = [reader EXCEPT ![r] = new],
           NEW saw \in SUBSET Generations, seen' = [seen EXCEPT ![r] = saw],
           new.at # "idle" =>
               /\ Shown(new.scope) \subseteq saw
               /\ new.chosen \cup new.first \subseteq saw
               /\ new.at = "store" => new.hits \subseteq saw
    PROVE  RetrievalInv'
<1>1. RetrievalTypes'
  BY DEF RetrievalInv, RetrievalTypes
<1>2. ASSUME NEW q \in Readers PROVE Observed(q)'
  <2>1. CASE q = r
    <3>1. reader'[q] = new /\ seen'[q] = saw
      BY <2>1 DEF RetrievalInv, RetrievalTypes
    <3> QED BY <3>1 DEF Observed, Shown
  <2>2. CASE q # r
    <3>1. reader'[q] = reader[q] /\ seen'[q] = seen[q]
      BY <2>2 DEF RetrievalInv, RetrievalTypes
    <3> QED BY <3>1 DEF RetrievalInv, Observed, Shown
  <2> QED BY <2>1, <2>2
<1> QED BY <1>1, <1>2 DEF RetrievalInv

\* Every step keeps the invariant.
LEMMA RetrievalInvNext == RetrievalInv /\ [RetrievalNext]_retrievalVars => RetrievalInv'
<1> SUFFICES ASSUME RetrievalInv, [RetrievalNext]_retrievalVars PROVE RetrievalInv'
  OBVIOUS
<1> USE DEF RetrievalInv
<1>1. ASSUME CatalogStep PROVE RetrievalInv'
  <2>1. visible' \in [Names -> Generations \cup {None}]
    BY <1>1, NextTyped DEF CatalogStep, RetrievalTypes
  <2>2. \A scope : Shows(visible', scope) \subseteq Generations
    BY <2>1 DEF Shows
  <2>3. /\ reader' = reader
        /\ seen' = [r \in Readers |-> IF reader[r].at = "idle" THEN {}
                                      ELSE seen[r] \cup Shows(visible', reader[r].scope)]
    BY <1>1 DEF CatalogStep
  <2>4. RetrievalTypes'
    BY <2>1, <2>2, <2>3 DEF RetrievalTypes
  <2>5. ASSUME NEW r \in Readers PROVE Observed(r)'
    <3>1. reader[r].at # "idle" =>
            seen'[r] = seen[r] \cup Shows(visible', reader[r].scope)
      BY <2>3
    <3>2. Shown(reader[r].scope)' = Shows(visible', reader[r].scope)
      BY <2>3 DEF Shown, Shows
    <3> QED BY <2>3, <3>1, <3>2 DEF Observed
  <2> QED BY <2>4, <2>5
<1>2. CASE Age
  BY <1>2 DEF Age, RetrievalTypes, Observed, Shown
<1>3. ASSUME NEW r \in Readers,
             \/ \E scope \in SearchScopes, planned \in BOOLEAN : Resolve(r, scope, planned)
             \/ Lookup(r) \/ BuildFilter(r) \/ Search(r) \/ SearchFails(r)
             \/ Select(r) \/ Store(r) \/ FollowUp(r) \/ Answer(r)
      PROVE  RetrievalInv'
  <2> DEFINE old0 == reader[r]
             scope0 == reader[r].scope
  <2>1. /\ reader[r] \in ReaderRec /\ seen[r] \in SUBSET Generations
        /\ seen = [seen EXCEPT ![r] = seen[r]]
    BY DEF RetrievalTypes
  <2>2. Shown(scope0) \subseteq Generations
    BY ShownTyped
  <2>3. Observed(r)
    OBVIOUS
  <2>4. AtRest \in ReaderRec /\ AtRest.at = "idle"
    BY RoundNumbers DEF AtRest, ReaderRec, Stages, SearchScopes
  <2>5. ASSUME NEW scope \in SearchScopes, NEW planned \in BOOLEAN, Resolve(r, scope, planned)
        PROVE  RetrievalInv'
    <3> DEFINE new == [AtRest EXCEPT !.at = "lookup", !.scope = scope, !.planned = planned, !.round = 1]
    <3>1. /\ new \in ReaderRec /\ new.scope = scope /\ new.chosen = {} /\ new.first = {}
          /\ new.at = "lookup"
      BY RoundNumbers DEF AtRest, ReaderRec, Stages, SearchScopes
    <3>2. Shown(scope) \subseteq Generations
      BY ShownTyped
    <3>3. /\ visible' = visible /\ reader' = [reader EXCEPT ![r] = new]
          /\ seen' = [seen EXCEPT ![r] = Shown(scope)]
      BY <2>5, SMTT(40) DEF Resolve, Become
    <3> HIDE DEF new
    <3> QED BY <3>1, <3>2, <3>3, OneRequest
  <2>6. CASE Lookup(r)
    <3>1. PICK new : /\ reader' = [reader EXCEPT ![r] = new]
                     /\ \/ \E hit : new = [reader[r] EXCEPT !.at = "chosen",
                                                            !.chosen = @ \cup Kept(scope0, hit)]
                        \/ new = [reader[r] EXCEPT !.at = "filter"]
      BY <2>6 DEF Lookup, Become
    <3>2. visible' = visible /\ seen' = seen /\ reader[r].at = "lookup"
      BY <2>6 DEF Lookup, Elsewhere
    <3>3. \A hit : Kept(scope0, hit) \subseteq Shown(scope0)
      BY DEF Kept
    <3>4. /\ new \in ReaderRec /\ new.scope = scope0 /\ new.first = old0.first
          /\ new.chosen \subseteq old0.chosen \cup Shown(scope0) /\ new.at # "store"
      <4>1. CASE new = [reader[r] EXCEPT !.at = "filter"]
        BY <2>1, <4>1 DEF ReaderRec, Stages
      <4>2. ASSUME NEW hit, new = [reader[r] EXCEPT !.at = "chosen", !.chosen = @ \cup Kept(scope0, hit)]
            PROVE  /\ new \in ReaderRec /\ new.scope = scope0 /\ new.first = old0.first
                   /\ new.chosen = old0.chosen \cup Kept(scope0, hit) /\ new.at = "chosen"
        <5>1. reader[r].chosen \cup Kept(scope0, hit) \in SUBSET Generations
          BY <2>1, <2>2, <3>3 DEF ReaderRec
        <5> QED BY <2>1, <4>2, <5>1 DEF ReaderRec, Stages
      <4> QED BY <3>1, <3>3, <4>1, <4>2
    <3> QED BY <2>1, <2>3, <3>1, <3>2, <3>4, OneRequest DEF Observed
  <2>7. CASE BuildFilter(r)
    <3>0. PICK filter \in Filters(scope0) :
             reader' = [reader EXCEPT ![r] = [reader[r] EXCEPT !.at = "search", !.filter = filter]]
      BY <2>7 DEF BuildFilter, Become
    <3> DEFINE new == [reader[r] EXCEPT !.at = "search", !.filter = filter]
    <3>1. visible' = visible /\ seen' = seen /\ reader' = [reader EXCEPT ![r] = new]
      BY <2>7, <3>0 DEF BuildFilter, Elsewhere
    <3>4. filter \in SUBSET Generations
      BY <2>2 DEF Filters
    <3>2. /\ new \in ReaderRec /\ new.scope = scope0 /\ new.first = old0.first
          /\ new.chosen = old0.chosen /\ new.at = "search" /\ old0.at # "idle"
      BY <2>1, <2>7, <3>4 DEF BuildFilter, ReaderRec, Stages
    <3> HIDE DEF new
    <3> QED BY <2>1, <2>3, <3>1, <3>2, OneRequest DEF Observed
  <2>8. CASE Search(r)
    <3>1. PICK hits \in SUBSET (stored \cap reader[r].filter) :
            reader' = [reader EXCEPT ![r] = [reader[r] EXCEPT !.at = "select", !.hits = hits, !.filter = {}]]
      BY <2>8 DEF Search, Become, kSubset
    <3> DEFINE new == [reader[r] EXCEPT !.at = "select", !.hits = hits, !.filter = {}]
    <3>2. visible' = visible /\ seen' = seen /\ reader[r].at = "search"
      BY <2>8 DEF Search
    <3>3. /\ new \in ReaderRec /\ new.scope = scope0 /\ new.first = old0.first
          /\ new.chosen = old0.chosen /\ new.at = "select"
      BY <2>1, <3>1 DEF ReaderRec, Stages
    <3>4. reader' = [reader EXCEPT ![r] = new]
      BY <3>1
    <3> HIDE DEF new
    <3> QED BY <2>1, <2>3, <3>2, <3>3, <3>4, OneRequest DEF Observed
  <2>9. CASE SearchFails(r)
    <3> DEFINE new == IF reader[r].wide
                      THEN [reader[r] EXCEPT !.at = "store", !.hits = reader[r].first, !.filter = {}]
                      ELSE IF reader[r].round = 2
                      THEN [reader[r] EXCEPT !.at = "chosen", !.filter = {}]
                      ELSE AtRest
               saw == IF new = AtRest THEN {} ELSE seen[r]
    <3>1. visible' = visible /\ reader[r].at = "search" /\ reader' = [reader EXCEPT ![r] = new]
      BY <2>9 DEF SearchFails, Become
    <3>2. reader'[r] = new
      BY <3>1 DEF RetrievalTypes
    <3>3. seen' = [seen EXCEPT ![r] = saw] /\ saw \in SUBSET Generations
      BY <2>1, <2>9, <3>2 DEF SearchFails
    <3>4. \/ new = AtRest
          \/ /\ new # AtRest /\ new \in ReaderRec /\ new.scope = scope0 /\ new.first = old0.first
             /\ new.chosen = old0.chosen /\ (new.at = "store" => new.hits = old0.first)
      <4>1. CASE reader[r].wide
        BY <2>1, <4>1 DEF ReaderRec, Stages, AtRest
      <4>2. CASE ~reader[r].wide /\ reader[r].round = 2
        BY <2>1, <4>2 DEF ReaderRec, Stages, AtRest
      <4> QED BY <4>1, <4>2
    <3>5. new.at # "idle" => saw = seen[r]
      BY <2>4
    <3> HIDE DEF new, saw
    <3>6. new \in ReaderRec
      BY <2>4, <3>4
    <3>7. new.at # "idle" =>
            /\ Shown(new.scope) \subseteq saw
            /\ new.chosen \cup new.first \subseteq saw
            /\ new.at = "store" => new.hits \subseteq saw
      BY <2>3, <2>4, <3>1, <3>4, <3>5 DEF Observed
    <3> QED BY <3>1, <3>3, <3>6, <3>7, OneRequest
  <2>10. CASE Select(r)
    <3> DEFINE found == Kept(scope0, reader[r].hits)
    <3>1. PICK best \in SUBSET found :
            \/ reader' = [reader EXCEPT ![r] = [reader[r] EXCEPT !.at = "store", !.hits = best]]
            \/ reader' = [reader EXCEPT ![r] = [reader[r] EXCEPT !.at = "filter", !.wide = TRUE,
                                                  !.hits = {}, !.first = best]]
            \/ \E better \in {best, reader[r].first} :
                 reader' = [reader EXCEPT ![r] = [reader[r] EXCEPT !.at = "store", !.hits = better]]
      BY <2>10 DEF Select, Become
    <3>2. visible' = visible /\ seen' = seen /\ reader[r].at = "select"
      BY <2>10 DEF Select
    <3>3. best \subseteq Shown(scope0)
      BY DEF Kept
    <3>4. PICK new : /\ reader' = [reader EXCEPT ![r] = new]
                     /\ \/ \E better \in {best, reader[r].first} :
                             new = [reader[r] EXCEPT !.at = "store", !.hits = better]
                        \/ new = [reader[r] EXCEPT !.at = "filter", !.wide = TRUE,
                                                   !.hits = {}, !.first = best]
      BY <3>1
    <3>5. /\ new \in ReaderRec /\ new.scope = scope0 /\ new.chosen = old0.chosen
          /\ new.first \in {old0.first, best}
          /\ new.at = "store" => new.hits \in {best, old0.first}
      <4>1. CASE new = [reader[r] EXCEPT !.at = "filter", !.wide = TRUE, !.hits = {}, !.first = best]
        BY <2>1, <2>2, <3>3, <4>1 DEF ReaderRec, Stages
      <4>2. ASSUME NEW better \in {best, reader[r].first},
                   new = [reader[r] EXCEPT !.at = "store", !.hits = better]
            PROVE  /\ new \in ReaderRec /\ new.scope = scope0 /\ new.chosen = old0.chosen
                   /\ new.first = old0.first /\ new.hits = better
        <5>1. better \in SUBSET Generations
          BY <2>1, <2>2, <3>3, <4>2 DEF ReaderRec
        <5> QED BY <2>1, <4>2, <5>1 DEF ReaderRec, Stages
      <4> QED BY <3>4, <4>1, <4>2
    <3>6. /\ Shown(new.scope) \subseteq seen[r]
          /\ new.chosen \cup new.first \subseteq seen[r]
          /\ new.at = "store" => new.hits \subseteq seen[r]
      <4>1. /\ Shown(scope0) \subseteq seen[r] /\ old0.chosen \subseteq seen[r]
            /\ old0.first \subseteq seen[r] /\ best \subseteq seen[r]
        BY <2>3, <3>2, <3>3 DEF Observed
      <4>2. new.first \subseteq seen[r] /\ (new.at = "store" => new.hits \subseteq seen[r])
        BY <3>5, <4>1
      <4> QED BY <3>5, <4>1, <4>2
    <3> QED BY <2>1, <3>2, <3>4, <3>5, <3>6, OneRequest
  <2>11. CASE Store(r)
    <3> DEFINE new == [reader[r] EXCEPT !.at = "chosen", !.chosen = @ \cup reader[r].hits,
                                        !.hits = {}, !.first = {}, !.wide = FALSE]
    <3>1. /\ visible' = visible /\ seen' = seen /\ reader[r].at = "store"
          /\ reader' = [reader EXCEPT ![r] = new]
      BY <2>11 DEF Store, Become, Elsewhere
    <3>2. /\ new \in ReaderRec /\ new.scope = scope0 /\ new.first = {}
          /\ new.chosen = old0.chosen \cup old0.hits /\ new.at = "chosen"
      BY <2>1 DEF ReaderRec, Stages
    <3> HIDE DEF new
    <3> QED BY <2>1, <2>3, <3>1, <3>2, OneRequest DEF Observed
  <2>12. CASE FollowUp(r)
    <3> DEFINE new == [reader[r] EXCEPT !.at = "lookup", !.planned = FALSE, !.round = 2]
    <3>1. /\ visible' = visible /\ seen' = seen /\ reader[r].at = "chosen"
          /\ reader' = [reader EXCEPT ![r] = new]
      BY <2>12 DEF FollowUp, Become, Elsewhere
    <3>2. /\ new \in ReaderRec /\ new.scope = scope0 /\ new.first = old0.first
          /\ new.chosen = old0.chosen /\ new.at = "lookup"
      BY <2>1, RoundNumbers DEF ReaderRec, Stages
    <3> HIDE DEF new
    <3> QED BY <2>1, <2>3, <3>1, <3>2, OneRequest DEF Observed
  <2>13. CASE Answer(r)
    <3>1. /\ visible' = visible /\ seen' = [seen EXCEPT ![r] = {}]
          /\ reader' = [reader EXCEPT ![r] = AtRest]
      BY <2>13 DEF Answer, Become
    <3> QED BY <2>4, <3>1, OneRequest
  <2> QED BY <1>3, <2>5, <2>6, <2>7, <2>8, <2>9, <2>10, <2>11, <2>12, <2>13
<1>4. CASE UNCHANGED retrievalVars
  BY <1>4 DEF retrievalVars, RetrievalTypes, Observed, Shown
<1> QED BY <1>1, <1>2, <1>3, <1>4 DEF RetrievalNext
-----------------------------------------------------------------------------
\* Neither the cache, whatever its size and whoever filled it, nor a search that a new
\* generation or a deletion overtook, nor the first of two rounds, brings back what
\* the request's scope did not show while the request was at work.
THEOREM AnswersAlwaysFresh == RetrievalSpec => []AnswersFresh
<1>1. RetrievalInv => AnswersFresh
  BY DEF RetrievalInv, Observed, AnswersFresh
<1> QED BY RetrievalInvInit, RetrievalInvNext, <1>1, PTL DEF RetrievalSpec

\* What the cache may hold, whatever it is: entries, no more than there is room for.
Entries == [scope : SearchScopes, chunks : SUBSET Generations]
Cached ==
    /\ stored \in SUBSET Generations
    /\ cache \in Seq(Entries) /\ Len(cache) <= CacheSize /\ old \in 0..Len(cache)

\* The end of a sequence.
LEMMA EndOf ==
    ASSUME NEW S, NEW s \in Seq(S), NEW i \in 0..Len(s)
    PROVE  SubSeq(s, i + 1, Len(s)) \in Seq(S) /\ Len(SubSeq(s, i + 1, Len(s))) = Len(s) - i
<1>1. Len(s) \in Nat /\ \A k \in 1..Len(s) : s[k] \in S
  OBVIOUS
<1> QED BY <1>1

LEMMA YoungIs ==
    ASSUME Cached
    PROVE  Young \in Seq(Entries) /\ Len(Young) = Len(cache) - old /\ Len(Young) \in Nat
           /\ Len(Young) <= CacheSize
<1>1. cache \in Seq(Entries) /\ old \in 0..Len(cache) /\ Len(cache) \in Nat /\ Len(cache) <= CacheSize
  BY DEF Cached
<1>2. Young \in Seq(Entries) /\ Len(Young) = Len(cache) - old
  BY <1>1, EndOf DEF Young
<1> QED BY <1>1, <1>2, RetrievalConstants

\* A result that is stored takes the place of the oldest one when the cache is full.
LEMMA StoreCached ==
    ASSUME Cached, RetrievalTypes, NEW r \in Readers, Store(r)
    PROVE  Cached'
<1> DEFINE entry == [scope |-> reader[r].scope, chunks |-> reader[r].hits]
           entries == Append(Young, entry)
           over == Len(entries) - CacheSize
<1>1. entry \in Entries
  BY DEF RetrievalTypes, ReaderRec, Entries
<1>2. /\ cache' = (IF over > 0 THEN SubSeq(entries, over + 1, Len(entries)) ELSE entries)
      /\ old' = 0 /\ stored' = stored
  BY DEF Store, Elsewhere
<1> HIDE DEF entry
<1>3. entries \in Seq(Entries) /\ Len(entries) \in 1..(CacheSize + 1)
  BY <1>1, YoungIs, RetrievalConstants
<1> HIDE DEF entries
<1>4. over \in Int /\ over <= 1 /\ Len(entries) - over = CacheSize
  BY <1>3, RetrievalConstants
<1>5. CASE over > 0
  <2>1. over \in 0..Len(entries)
    BY <1>3, <1>4, <1>5
  <2> HIDE DEF over
  <2>2. cache' \in Seq(Entries) /\ Len(cache') = CacheSize
    BY <1>2, <1>3, <1>4, <1>5, <2>1, EndOf
  <2> QED BY <1>2, <2>2, RetrievalConstants DEF Cached
<1>6. CASE ~(over > 0)
  <2>1. cache' \in Seq(Entries) /\ Len(cache') <= CacheSize /\ Len(cache') \in Nat
    BY <1>2, <1>3, <1>6, RetrievalConstants
  <2> QED BY <1>2, <2>1 DEF Cached
<1> QED BY <1>5, <1>6

LEMMA CachedNext == RetrievalInv /\ Cached /\ [RetrievalNext]_retrievalVars => Cached'
<1> SUFFICES ASSUME RetrievalInv, Cached, [RetrievalNext]_retrievalVars PROVE Cached'
  OBVIOUS
<1>1. CASE CatalogStep
  <2>1. stored' \in SUBSET Generations
    BY <1>1 DEF CatalogStep, Next, Write, Discard, Switch, Cached
  <2> QED BY <1>1, <2>1 DEF CatalogStep, Cached
<1>2. CASE Age
  BY <1>2 DEF Age, Cached
<1>3. ASSUME NEW r \in Readers, Lookup(r) PROVE Cached'
  <2>1. cache' = Young /\ old' = 0 /\ stored' = stored
    BY <1>3, Zenon DEF Lookup, Elsewhere
  <2> QED BY <2>1, YoungIs DEF Cached
<1>4. ASSUME NEW r \in Readers, Store(r) PROVE Cached'
  BY <1>4, StoreCached DEF RetrievalInv
<1>5. CASE UNCHANGED <<stored, cache, old>>
  BY <1>5 DEF Cached
<1>6. ASSUME NEW r \in Readers,
             \/ \E scope \in SearchScopes, planned \in BOOLEAN : Resolve(r, scope, planned)
             \/ BuildFilter(r) \/ Search(r) \/ SearchFails(r)
             \/ Select(r) \/ FollowUp(r) \/ Answer(r)
      PROVE  UNCHANGED <<stored, cache, old>>
  BY <1>6, Zenon DEF Resolve, BuildFilter, Search, SearchFails, Select, FollowUp, Answer, Elsewhere
<1>7. CASE UNCHANGED retrievalVars
  BY <1>5, <1>7 DEF retrievalVars
<1> QED BY <1>1, <1>2, <1>3, <1>4, <1>5, <1>6, <1>7 DEF RetrievalNext

\* The semantic cache never holds more than it has room for, and requests, catalog and
\* entries stay in their domains, whatever requests store and however entries age.
THEOREM RetrievalTyped == RetrievalSpec => []RetrievalTypeOK
<1>1. RetrievalInit => RetrievalInv /\ Cached
  <2>1. RetrievalInit => Cached
    BY RetrievalConstants DEF RetrievalInit, Init, TypeOK, Cached
  <2> QED BY <2>1, RetrievalInvInit
<1>2. RetrievalInv /\ Cached /\ [RetrievalNext]_retrievalVars => RetrievalInv' /\ Cached'
  BY RetrievalInvNext, CachedNext
<1>3. RetrievalInv /\ Cached => RetrievalTypeOK
  BY DEF RetrievalInv, RetrievalTypes, Cached, Entries, ReaderRec, Stages, Rounds, RetrievalTypeOK, TypeOK
<1> QED BY <1>1, <1>2, <1>3, PTL DEF RetrievalSpec
-----------------------------------------------------------------------------
(* Sequences *)

\* Two sequences in a row.
LEMMA Joined ==
    ASSUME NEW S, NEW a \in Seq(S), NEW b \in Seq(S)
    PROVE  /\ a \o b \in Seq(S) /\ Len(a \o b) = Len(a) + Len(b)
           /\ \A j \in 1..(Len(a) + Len(b)) :
                 (a \o b)[j] = IF j <= Len(a) THEN a[j] ELSE b[j - Len(a)]
OBVIOUS

\* A sequence without one of its places.
LEMMA RemovedAt ==
    ASSUME NEW S, NEW s \in Seq(S), NEW i \in 1..Len(s)
    PROVE  /\ RemoveAt(s, i) \in Seq(S) /\ Len(RemoveAt(s, i)) = Len(s) - 1
           /\ \A j \in 1..(Len(s) - 1) :
                 RemoveAt(s, i)[j] = s[IF j < i THEN j ELSE j + 1]
<1> DEFINE a == SubSeq(s, 1, i - 1)
           b == SubSeq(s, i + 1, Len(s))
<1>0. Len(s) \in Nat
  OBVIOUS
<1>1. a \in Seq(S) /\ Len(a) = i - 1 /\ \A j \in 1..(i - 1) : a[j] = s[j]
  OBVIOUS
<1>2. b \in Seq(S) /\ Len(b) = Len(s) - i /\ \A j \in 1..(Len(s) - i) : b[j] = s[i + j]
  OBVIOUS
<1>3. RemoveAt(s, i) = a \o b
  BY DEF RemoveAt
<1> HIDE DEF a, b
<1>4. /\ a \o b \in Seq(S) /\ Len(a \o b) = Len(a) + Len(b)
      /\ \A j \in 1..(Len(a) + Len(b)) :
             (a \o b)[j] = IF j <= Len(a) THEN a[j] ELSE b[j - Len(a)]
  BY <1>1, <1>2, Joined
<1>5. Len(a) + Len(b) = Len(s) - 1
  BY <1>0, <1>1, <1>2
<1>6. ASSUME NEW j \in 1..(Len(s) - 1) PROVE (a \o b)[j] = s[IF j < i THEN j ELSE j + 1]
  <2>1. (a \o b)[j] = IF j <= i - 1 THEN a[j] ELSE b[j - (i - 1)]
    BY <1>1, <1>4, <1>5
  <2>2. CASE j <= i - 1
    <3>1. a[j] = s[j] /\ j < i
      BY <1>1, <2>2
    <3> QED
      BY <2>1, <2>2, <3>1
  <2>3. CASE ~(j <= i - 1)
    <3>1. j - (i - 1) \in 1..(Len(s) - i) /\ i + (j - (i - 1)) = j + 1 /\ ~(j < i)
      BY <1>0, <2>3
    <3>2. b[j - (i - 1)] = s[i + (j - (i - 1))]
      BY <1>2, <3>1
    <3> QED
      BY <2>1, <2>3, <3>1, <3>2
  <2> QED
    BY <2>2, <2>3
<1>7. a \o b \in Seq(S) /\ Len(a \o b) = Len(s) - 1
  BY <1>4, <1>5
<1> QED
  BY <1>3, <1>6, <1>7, Zenon
-----------------------------------------------------------------------------
(* The runtime of the models *)

Spot(c, p, i) == i \in 1..Len(queue[p]) /\ queue[p][i] = Job(c)
InQueue(c) == \E p \in Priorities, i \in Nat : Spot(c, p, i)

\* Where the job of a caller is: in one place, and nowhere once the caller has left.
Placed(c) ==
    /\ \A p, q \in Priorities, i, j \in Nat : Spot(c, p, i) /\ Spot(c, q, j) => p = q /\ i = j
    /\ call[c] # "waiting" => ~InQueue(c) /\ ~Running(c) /\ answer[c] = "none"
    /\ call[c] = "waiting" => InQueue(c) \/ Running(c) \/ answer[c] # "none"
    /\ InQueue(c) => ~Running(c) /\ answer[c] = "none"
    /\ Running(c) => answer[c] = "none"

\* What its client has been shown.
Told(c) ==
    /\ call[c] = "sending" \/ InQueue(c) => shown[c] = 0
    /\ Running(c) /\ loop.at = "call" => replay[c] \/ shown[c] = loop.sent

\* Who waits for room waits once.
Blocked ==
    \A p \in Priorities : \A i \in 1..Len(blocked[p]) :
        /\ call[blocked[p][i]] = "sending" /\ Priority(blocked[p][i]) = p
        /\ \A j \in 1..Len(blocked[p]) : blocked[p][j] = blocked[p][i] => j = i

RuntimeInv ==
    /\ RuntimeTypeOK /\ Blocked
    /\ \A c \in Callers : Placed(c) /\ Told(c)

LEMMA JobTypes ==
    /\ \A c \in Callers : Job(c) \in Jobs /\ Job(c).wanted = TRUE /\ Job(c).caller = c
    /\ \A c, d : Job(c) = Job(d) => c = d
    /\ \A job \in Jobs : job.caller \in Callers /\ job.wanted \in BOOLEAN
    /\ \A job \in Jobs : job.wanted => job = Job(job.caller)
    /\ \A job \in Jobs : \A c : job = Job(c) => job.wanted /\ job.caller = c
BY DEF Job, Jobs

LEMMA JobPrime == \A c : Job(c)' = Job(c)
BY DEF Job

LEMMA LeftTypes ==
    ASSUME NEW job \in Jobs, NEW c
    PROVE  /\ Left(job, c) \in Jobs /\ Left(job, c) # Job(c)
           /\ \A d : d # c => (Left(job, c) = Job(d) <=> job = Job(d))
<1>1. Left(job, c) = [caller |-> job.caller, wanted |-> job.wanted /\ job.caller # c]
  BY DEF Left, Jobs
<1>2. job = [caller |-> job.caller, wanted |-> job.wanted]
  BY DEF Jobs
<1>3. job.caller \in Callers /\ job.wanted \in BOOLEAN
  BY DEF Jobs
<1>4. (job.wanted /\ job.caller # c) \in BOOLEAN
  OBVIOUS
<1>5. Left(job, c) \in Jobs
  BY <1>1, <1>3, <1>4 DEF Jobs
<1>6. CASE job.wanted /\ job.caller # c
  <2>1. (job.wanted /\ job.caller # c) = TRUE /\ job.wanted = TRUE
    BY <1>3, <1>6
  <2>2. Left(job, c) = job
    BY <1>1, <1>2, <2>1, Zenon
  <2>3. job # Job(c)
    BY <1>2, <1>6 DEF Job
  <2> QED
    BY <1>5, <2>2, <2>3
<1>7. CASE ~(job.wanted /\ job.caller # c)
  <2>1. (job.wanted /\ job.caller # c) = FALSE
    BY <1>3, <1>7
  <2>2. Left(job, c) = [caller |-> job.caller, wanted |-> FALSE]
    BY <1>1, <2>1, Zenon
  <2>3. \A d : Left(job, c) # Job(d)
    BY <2>2 DEF Job
  <2>4. \A d : d # c => job # Job(d)
    BY <1>2, <1>3, <1>7 DEF Job
  <2> QED
    BY <1>5, <2>3, <2>4
<1> QED
  BY <1>6, <1>7

LEMMA LoopTypes ==
    ASSUME RuntimeTypeOK
    PROVE  /\ loop.at \in {"poll", "wait", "call", "deliver"}
           /\ loop.at \in {"call", "deliver"} => loop.job \in Jobs
           /\ loop.at = "call" =>
                 /\ loop.attempt \in 1..3 /\ loop.sent \in 0..Pieces
                 /\ loop = [at |-> "call", job |-> loop.job, attempt |-> loop.attempt, sent |-> loop.sent]
           /\ loop.at = "deliver" =>
                 /\ loop.result \in {"ok", "error"}
                 /\ loop = [at |-> "deliver", job |-> loop.job, result |-> loop.result]
BY DEF RuntimeTypeOK

LEMMA RuntimeInvInit == RuntimeConstants /\ RuntimeInit => RuntimeInv
<1> SUFFICES ASSUME RuntimeConstants, RuntimeInit PROVE RuntimeInv
  OBVIOUS
<1>1. RuntimeTypeOK
  <2>1. QueueSize \in Nat /\ <<>> \in Seq(Jobs) /\ <<>> \in Seq(Callers) /\ Len(<<>>) = 0
    BY DEF RuntimeConstants
  <2>2. /\ queue \in [Priorities -> Seq(Jobs)] /\ blocked \in [Priorities -> Seq(Callers)]
        /\ \A p \in Priorities : queue[p] = <<>>
    BY <2>1, Zenon DEF RuntimeInit
  <2>3. \A p \in Priorities : Len(queue[p]) <= QueueSize
    BY <2>1, <2>2
  <2>4. loop \in [at : {"poll", "wait"}]
    BY DEF RuntimeInit, Polling, Asleep
  <2>5. /\ call \in [Callers -> {"idle", "sending", "waiting"}]
        /\ answer \in [Callers -> {"none", "ok", "error"}]
        /\ shown \in [Callers -> Nat] /\ replay \in [Callers -> BOOLEAN]
    BY DEF RuntimeInit
  <2> QED
    BY <2>2, <2>3, <2>4, <2>5 DEF RuntimeTypeOK
<1>2. Blocked
  BY DEF RuntimeInit, Blocked
<1>3. \A c \in Callers : ~InQueue(c) /\ ~Running(c)
  BY DEF RuntimeInit, InQueue, Spot, Running, Polling, Asleep
<1>4. \A c \in Callers : Placed(c) /\ Told(c)
  BY <1>3 DEF RuntimeInit, Placed, Told, InQueue
<1> QED
  BY <1>1, <1>2, <1>4 DEF RuntimeInv
-----------------------------------------------------------------------------
\* A caller about which a step says nothing.
SameSpots(c) == \A p \in Priorities, i \in Nat : Spot(c, p, i)' <=> Spot(c, p, i)
SameCaller(c) ==
    /\ call'[c] = call[c] /\ answer'[c] = answer[c] /\ shown'[c] = shown[c] /\ replay'[c] = replay[c]

LEMMA CallerSame ==
    ASSUME NEW c, Placed(c), Told(c), SameSpots(c), SameCaller(c),
           Running(c)' <=> Running(c),
           Running(c) /\ loop'.at = "call" => loop.at = "call" /\ loop'.sent = loop.sent
    PROVE  Placed(c)' /\ Told(c)'
<1>1. InQueue(c)' <=> InQueue(c)
  BY DEF SameSpots, InQueue
<1>2. Placed(c)'
  BY <1>1 DEF Placed, SameSpots, SameCaller
<1>3. Told(c)'
  BY <1>1 DEF Told, SameCaller
<1> QED
  BY <1>2, <1>3

LEMMA BlockedSame ==
    ASSUME Blocked, UNCHANGED blocked,
           \A c \in Callers : call[c] = "sending" => call'[c] = "sending",
           blocked \in [Priorities -> Seq(Callers)]
    PROVE  Blocked'
BY DEF Blocked

LEMMA CallKeeps ==
    ASSUME RuntimeConstants, RuntimeInv, NEW c \in Callers, Call(c)
    PROVE  RuntimeInv'
<1> DEFINE p == Priority(c)
<1>0. /\ RuntimeTypeOK /\ Blocked /\ \A d \in Callers : Placed(d) /\ Told(d)
      /\ p \in Priorities /\ call[c] = "idle" /\ UNCHANGED <<loop, answer>>
      /\ shown' = [shown EXCEPT ![c] = 0] /\ replay' = [replay EXCEPT ![c] = FALSE]
  BY DEF RuntimeInv, Call, Priority, Priorities
<1>1. ~InQueue(c) /\ ~Running(c) /\ answer[c] = "none"
  BY <1>0 DEF Placed
<1>2. /\ shown' \in [Callers -> Nat] /\ replay' \in [Callers -> BOOLEAN]
      /\ shown'[c] = 0 /\ \A d \in Callers : d # c => shown'[d] = shown[d] /\ replay'[d] = replay[d]
  BY <1>0 DEF RuntimeTypeOK
<1>3. \A d : Running(d)' <=> Running(d)
  BY <1>0 DEF Running
<1>4. CASE Len(queue[p]) < QueueSize
  <2>1. /\ queue' = [queue EXCEPT ![p] = Append(@, Job(c))]
        /\ call' = [call EXCEPT ![c] = "waiting"] /\ UNCHANGED blocked
    BY <1>4 DEF Call
  <2>2. /\ queue[p] \in Seq(Jobs) /\ Job(c) \in Jobs
        /\ Append(queue[p], Job(c)) \in Seq(Jobs) /\ Len(Append(queue[p], Job(c))) = Len(queue[p]) + 1
        /\ Len(queue[p]) \in Nat
    BY <1>0, JobTypes DEF RuntimeTypeOK
  <2>3. queue' \in [Priorities -> Seq(Jobs)] /\ queue'[p] = Append(queue[p], Job(c))
        /\ \A q \in Priorities : q # p => queue'[q] = queue[q]
    BY <1>0, <2>1, <2>2 DEF RuntimeTypeOK
  <2>4. \A q \in Priorities : Len(queue'[q]) <= QueueSize
    <3>1. QueueSize \in Nat /\ \A q \in Priorities : Len(queue[q]) <= QueueSize
      BY <1>0 DEF RuntimeTypeOK, RuntimeConstants
    <3> QED
      BY <1>4, <2>2, <2>3, <3>1
  <2>5. call' \in [Callers -> {"idle", "sending", "waiting"}] /\ call'[c] = "waiting"
        /\ \A d \in Callers : d # c => call'[d] = call[d]
    BY <1>0, <2>1 DEF RuntimeTypeOK
  <2>6. RuntimeTypeOK'
    BY <1>0, <1>2, <2>1, <2>3, <2>4, <2>5 DEF RuntimeTypeOK
  <2>7. Blocked'
    BY <1>0, <2>1, <2>5, BlockedSame DEF RuntimeTypeOK
  <2>8. ASSUME NEW d \in Callers, NEW q \in Priorities, NEW i \in Nat
        PROVE  Spot(d, q, i)' <=> Spot(d, q, i) \/ (d = c /\ q = p /\ i = Len(queue[p]) + 1)
    <3>1. CASE q = p
      <4>1. CASE i \in 1..Len(queue[p])
        BY <2>2, <2>3, <3>1, <4>1 DEF Spot
      <4>2. CASE i = Len(queue[p]) + 1
        <5>1. queue'[p][i] = Job(c)
          BY <2>2, <2>3, <4>2
        <5> QED
          BY <2>2, <2>3, <3>1, <4>2, <5>1, JobTypes DEF Spot
      <4>3. CASE i \notin 1..Len(queue[p]) /\ i # Len(queue[p]) + 1
        BY <2>2, <2>3, <3>1, <4>3 DEF Spot
      <4> QED
        BY <4>1, <4>2, <4>3
    <3>2. CASE q # p
      BY <2>3, <3>2 DEF Spot
    <3> QED
      BY <3>1, <3>2
  <2>9. ASSUME NEW d \in Callers PROVE Placed(d)' /\ Told(d)'
    <3>1. CASE d = c
      <4>1. \A q \in Priorities, i \in Nat : Spot(c, q, i)' <=> q = p /\ i = Len(queue[p]) + 1
        BY <1>1, <2>8 DEF InQueue
      <4>2. Len(queue[p]) + 1 \in Nat
        BY <2>2
      <4>3. InQueue(c)'
        BY <1>0, <4>1, <4>2 DEF InQueue
      <4>4. Placed(c)'
        BY <1>0, <1>1, <1>3, <2>5, <4>1, <4>3 DEF Placed
      <4>5. Told(c)'
        BY <1>1, <1>2, <1>3 DEF Told
      <4> QED
        BY <3>1, <4>4, <4>5
    <3>2. CASE d # c
      <4>1. SameSpots(d) /\ SameCaller(d)
        BY <1>0, <1>2, <2>5, <2>8, <3>2 DEF SameSpots, SameCaller
      <4> QED
        BY <1>0, <1>3, <4>1, CallerSame
    <3> QED
      BY <3>1, <3>2
  <2> QED
    BY <2>6, <2>7, <2>9 DEF RuntimeInv
<1>5. CASE ~(Len(queue[p]) < QueueSize)
  <2>1. /\ blocked' = [blocked EXCEPT ![p] = Append(@, c)]
        /\ call' = [call EXCEPT ![c] = "sending"] /\ UNCHANGED queue
    BY <1>5 DEF Call
  <2>2. blocked \in [Priorities -> Seq(Callers)]
    BY <1>0 DEF RuntimeTypeOK
  <2>3. blocked' \in [Priorities -> Seq(Callers)] /\ blocked'[p] = Append(blocked[p], c)
        /\ \A q \in Priorities : q # p => blocked'[q] = blocked[q]
    BY <1>0, <2>1, <2>2
  <2>5. call' \in [Callers -> {"idle", "sending", "waiting"}] /\ call'[c] = "sending"
        /\ \A d \in Callers : d # c => call'[d] = call[d]
    BY <1>0, <2>1 DEF RuntimeTypeOK
  <2>6. RuntimeTypeOK'
    BY <1>0, <1>2, <2>1, <2>3, <2>5 DEF RuntimeTypeOK
  <2>7. Blocked'
    <3> SUFFICES ASSUME NEW q \in Priorities, NEW i \in 1..Len(blocked'[q])
                 PROVE  /\ call'[blocked'[q][i]] = "sending" /\ Priority(blocked'[q][i]) = q
                        /\ \A j \in 1..Len(blocked'[q]) : blocked'[q][j] = blocked'[q][i] => j = i
      BY DEF Blocked, Priority
    <3>1. \A k \in 1..Len(blocked[q]) : /\ blocked[q][k] # c /\ blocked[q][k] \in Callers
                                        /\ call'[blocked[q][k]] = "sending"
                                        /\ Priority(blocked[q][k]) = q
      BY <1>0, <2>2, <2>5, SMTT(40) DEF Blocked
    <3>2. CASE q # p
      BY <1>0, <2>3, <3>1, <3>2 DEF Blocked
    <3>3. CASE q = p
      <4>1. /\ blocked[p] \in Seq(Callers) /\ Len(blocked[p]) \in Nat
            /\ Len(blocked'[p]) = Len(blocked[p]) + 1
            /\ blocked'[p][Len(blocked[p]) + 1] = c
            /\ \A k \in 1..Len(blocked[p]) : blocked'[p][k] = blocked[p][k]
        BY <1>0, <2>2, <2>3
      <4>2. \A k \in 1..Len(blocked'[p]) : k \in 1..Len(blocked[p]) \/ k = Len(blocked[p]) + 1
        BY <4>1
      <4>3. \A j, k \in 1..Len(blocked[p]) : blocked[p][j] = blocked[p][k] => j = k
        BY <1>0 DEF Blocked
      <4>4. call'[blocked'[p][i]] = "sending" /\ Priority(blocked'[p][i]) = p
        BY <2>5, <3>1, <3>3, <4>1, <4>2
      <4>5. ASSUME NEW j \in 1..Len(blocked'[p]), blocked'[p][j] = blocked'[p][i]
            PROVE  j = i
        <5>1. i \in 1..Len(blocked'[p])
          BY <3>3
        <5>2. ASSUME NEW k \in 1..Len(blocked[p]), NEW l \in 1..Len(blocked'[p]),
                     blocked'[p][k] = blocked'[p][l]
              PROVE  l \in 1..Len(blocked[p])
          <6>1. blocked'[p][k] # c
            BY <3>1, <3>3, <4>1
          <6> QED
            BY <4>1, <4>2, <5>2, <6>1
        <5>3. CASE j \in 1..Len(blocked[p])
          <6>1. i \in 1..Len(blocked[p])
            BY <4>5, <5>1, <5>2, <5>3
          <6> QED
            BY <4>1, <4>3, <4>5, <5>3, <6>1
        <5>4. CASE j \notin 1..Len(blocked[p])
          <6>1. i \notin 1..Len(blocked[p])
            BY <4>5, <5>2, <5>4
          <6> QED
            BY <4>2, <5>1, <5>4, <6>1
        <5> QED
          BY <5>3, <5>4
      <4> QED
        BY <3>3, <4>4, <4>5
    <3> QED
      BY <3>2, <3>3
  <2>8. \A d : \A q \in Priorities, i \in Nat : Spot(d, q, i)' <=> Spot(d, q, i)
    BY <2>1 DEF Spot
  <2>9. ASSUME NEW d \in Callers PROVE Placed(d)' /\ Told(d)'
    <3>0. InQueue(d)' <=> InQueue(d)
      BY <2>8 DEF InQueue
    <3>1. CASE d = c
      BY <1>0, <1>1, <1>2, <1>3, <2>5, <2>8, <3>0, <3>1 DEF Placed, Told
    <3>2. CASE d # c
      <4>1. SameSpots(d) /\ SameCaller(d)
        BY <1>0, <1>2, <2>5, <2>8, <3>2 DEF SameSpots, SameCaller
      <4> QED
        BY <1>0, <1>3, <4>1, CallerSame
    <3> QED
      BY <3>1, <3>2
  <2> QED
    BY <2>6, <2>7, <2>9 DEF RuntimeInv
<1> QED
  BY <1>4, <1>5
-----------------------------------------------------------------------------
LEMMA LeaveQueueKeeps ==
    ASSUME RuntimeInv, NEW c \in Callers, LeaveQueue(c)
    PROVE  RuntimeInv'
<1> DEFINE p == Priority(c)
<1>0. /\ RuntimeTypeOK /\ Blocked /\ \A d \in Callers : Placed(d) /\ Told(d)
      /\ p \in Priorities /\ call[c] = "sending" /\ call' = [call EXCEPT ![c] = "idle"]
      /\ UNCHANGED <<queue, loop, answer, shown, replay>>
  BY DEF RuntimeInv, LeaveQueue, Priority, Priorities
<1>1. PICK k \in DOMAIN blocked[p] :
          blocked[p][k] = c /\ blocked' = [blocked EXCEPT ![p] = RemoveAt(@, k)]
  BY DEF LeaveQueue
<1>2. blocked \in [Priorities -> Seq(Callers)] /\ blocked[p] \in Seq(Callers)
      /\ k \in 1..Len(blocked[p]) /\ Len(blocked[p]) \in Nat
  BY <1>0, <1>1 DEF RuntimeTypeOK
<1> DEFINE s == RemoveAt(blocked[p], k)
<1>3. /\ s \in Seq(Callers) /\ Len(s) = Len(blocked[p]) - 1
      /\ \A j \in 1..(Len(blocked[p]) - 1) : s[j] = blocked[p][IF j < k THEN j ELSE j + 1]
  BY <1>2, RemovedAt
<1>4. blocked' \in [Priorities -> Seq(Callers)] /\ blocked'[p] = s
      /\ \A q \in Priorities : q # p => blocked'[q] = blocked[q]
  BY <1>0, <1>1, <1>2, <1>3
<1>5. call' \in [Callers -> {"idle", "sending", "waiting"}] /\ call'[c] = "idle"
      /\ \A d \in Callers : d # c => call'[d] = call[d]
  BY <1>0 DEF RuntimeTypeOK
<1>6. RuntimeTypeOK'
  BY <1>0, <1>4, <1>5 DEF RuntimeTypeOK
<1>7. Blocked'
  <2> HIDE DEF s
  <2> SUFFICES ASSUME NEW q \in Priorities, NEW i \in 1..Len(blocked'[q])
               PROVE  /\ call'[blocked'[q][i]] = "sending" /\ Priority(blocked'[q][i]) = q
                      /\ \A j \in 1..Len(blocked'[q]) : blocked'[q][j] = blocked'[q][i] => j = i
    BY DEF Blocked, Priority
  <2>1. \A j \in 1..Len(blocked[q]) :
            /\ call[blocked[q][j]] = "sending" /\ Priority(blocked[q][j]) = q
            /\ blocked[q][j] \in Callers
            /\ \A n \in 1..Len(blocked[q]) : blocked[q][n] = blocked[q][j] => n = j
    <3>1. blocked[q] \in Seq(Callers)
      BY <1>2
    <3>2. \A j \in 1..Len(blocked[q]) : blocked[q][j] \in Callers
      BY <3>1
    <3> QED
      BY <1>0, <3>2 DEF Blocked
  <2>2. CASE q # p
    <3>1. \A j \in 1..Len(blocked[q]) : blocked[q][j] # c
      BY <2>1, <2>2
    <3> QED
      BY <1>4, <1>5, <2>1, <2>2, <3>1
  <2>3. CASE q = p
    <3> DEFINE At(j) == IF j < k THEN j ELSE j + 1
    <3>1. \A j \in 1..(Len(blocked[p]) - 1) : At(j) \in 1..Len(blocked[p]) /\ At(j) # k
      BY <1>2
    <3>2. \A j, n \in 1..(Len(blocked[p]) - 1) : At(j) = At(n) => j = n
      BY <1>2
    <3>3. \A j \in 1..(Len(blocked[p]) - 1) : s[j] = blocked[p][At(j)]
      BY <1>3
    <3>4. 1..Len(blocked'[q]) = 1..(Len(blocked[p]) - 1) /\ blocked'[q] = s
      BY <1>3, <1>4, <2>3
    <3> HIDE DEF At
    <3>5. \A j \in 1..(Len(blocked[p]) - 1) : s[j] # c
      BY <1>1, <1>2, <2>1, <2>3, <3>1, <3>3
    <3>6. ASSUME NEW j \in 1..(Len(blocked[p]) - 1)
          PROVE  call'[s[j]] = "sending" /\ Priority(s[j]) = q
      BY <1>5, <2>1, <2>3, <3>1, <3>3, <3>5
    <3>7. ASSUME NEW j \in 1..(Len(blocked[p]) - 1), NEW n \in 1..(Len(blocked[p]) - 1), s[j] = s[n]
          PROVE  j = n
      <4>1. blocked[p][At(j)] = blocked[p][At(n)]
        BY <3>3, <3>7
      <4>2. At(j) = At(n)
        BY <2>1, <2>3, <3>1, <4>1
      <4> QED
        BY <3>2, <4>2
    <3> QED
      BY <3>4, <3>6, <3>7
  <2> QED
    BY <2>2, <2>3
<1>8. \A d : SameSpots(d) /\ (Running(d)' <=> Running(d)) /\ (InQueue(d)' <=> InQueue(d))
  BY <1>0 DEF SameSpots, Spot, Running, InQueue
<1>9. ASSUME NEW d \in Callers PROVE Placed(d)' /\ Told(d)'
  <2>1. CASE d = c
    <3>1. ~InQueue(c) /\ ~Running(c) /\ answer[c] = "none"
      BY <1>0 DEF Placed
    <3>2. Placed(c)'
      BY <1>0, <1>5, <1>8, <3>1 DEF Placed, SameSpots
    <3>3. Told(c)'
      BY <1>5, <1>8, <3>1 DEF Told
    <3> QED
      BY <2>1, <3>2, <3>3
  <2>2. CASE d # c
    BY <1>0, <1>5, <1>8, <2>2, CallerSame DEF SameCaller
  <2> QED
    BY <2>1, <2>2
<1> QED
  BY <1>6, <1>7, <1>9 DEF RuntimeInv

\* The caller has left, and has no job that is wanted.
LEMMA Gone ==
    ASSUME NEW c, call'[c] = "idle", ~InQueue(c)', ~Running(c)', answer'[c] = "none"
    PROVE  Placed(c)' /\ Told(c)'
BY DEF Placed, Told, InQueue

LEMMA BlockedOthers ==
    ASSUME RuntimeTypeOK, Blocked, UNCHANGED blocked, NEW c, call[c] = "waiting",
           call' = [call EXCEPT ![c] = "idle"]
    PROVE  Blocked'
<1>1. \A d \in Callers : call[d] = "sending" => call'[d] = "sending"
  BY DEF RuntimeTypeOK
<1> QED
  BY <1>1, BlockedSame DEF RuntimeTypeOK

LEMMA GiveUpKeeps ==
    ASSUME RuntimeInv, NEW c \in Callers, GiveUp(c)
    PROVE  RuntimeInv'
<1>0. /\ RuntimeTypeOK /\ Blocked /\ \A d \in Callers : Placed(d) /\ Told(d)
      /\ call[c] = "waiting" /\ call' = [call EXCEPT ![c] = "idle"]
      /\ answer' = [answer EXCEPT ![c] = "none"] /\ UNCHANGED <<blocked, shown, replay>>
  BY DEF RuntimeInv, GiveUp
<1>1. queue' = [p \in Priorities |-> [i \in DOMAIN queue[p] |-> Left(queue[p][i], c)]]
  BY DEF GiveUp
<1>2. ASSUME NEW p \in Priorities
      PROVE  /\ queue'[p] \in Seq(Jobs) /\ Len(queue'[p]) = Len(queue[p])
             /\ \A i \in 1..Len(queue[p]) : queue'[p][i] = Left(queue[p][i], c) /\ queue[p][i] \in Jobs
  <2>1. queue[p] \in Seq(Jobs)
    BY <1>0 DEF RuntimeTypeOK
  <2>2. queue'[p] = [i \in 1..Len(queue[p]) |-> Left(queue[p][i], c)]
    BY <1>1, <2>1
  <2>3. \A i \in 1..Len(queue[p]) : queue[p][i] \in Jobs /\ Left(queue[p][i], c) \in Jobs
    BY <2>1, LeftTypes
  <2> QED
    BY <2>1, <2>2, <2>3
<1>3. queue' \in [Priorities -> Seq(Jobs)] /\ \A p \in Priorities : Len(queue'[p]) <= QueueSize
  BY <1>0, <1>1, <1>2 DEF RuntimeTypeOK
<1>4. call' \in [Callers -> {"idle", "sending", "waiting"}] /\ call'[c] = "idle"
      /\ \A d \in Callers : d # c => call'[d] = call[d]
  BY <1>0 DEF RuntimeTypeOK
<1>5. answer' \in [Callers -> {"none", "ok", "error"}] /\ answer'[c] = "none"
      /\ \A d \in Callers : d # c => answer'[d] = answer[d]
  BY <1>0 DEF RuntimeTypeOK
<1>6. /\ loop' \in [at : {"poll", "wait"}]
              \cup [at : {"call"}, job : Jobs, attempt : 1..3, sent : 0..Pieces]
              \cup [at : {"deliver"}, job : Jobs, result : {"ok", "error"}]
      /\ loop'.at = loop.at
      /\ loop.at = "call" => loop'.sent = loop.sent
      /\ loop.at \in {"call", "deliver"} => loop'.job = Left(loop.job, c) /\ loop.job \in Jobs
  <2>1. CASE loop.at \in {"call", "deliver"}
    <3>1. loop' = [loop EXCEPT !.job = Left(@, c)]
      BY <2>1 DEF GiveUp
    <3>2. loop.job \in Jobs /\ Left(loop.job, c) \in Jobs
      BY <1>0, <2>1, LoopTypes, LeftTypes
    <3>3. CASE loop.at = "call"
      <4>1. loop' = [at |-> "call", job |-> Left(loop.job, c), attempt |-> loop.attempt, sent |-> loop.sent]
        BY <1>0, <3>1, <3>3, LoopTypes
      <4> QED
        BY <1>0, <3>2, <3>3, <4>1, LoopTypes
    <3>4. CASE loop.at = "deliver"
      <4>1. loop' = [at |-> "deliver", job |-> Left(loop.job, c), result |-> loop.result]
        BY <1>0, <3>1, <3>4, LoopTypes
      <4> QED
        BY <1>0, <3>2, <3>4, <4>1, LoopTypes
    <3> QED
      BY <2>1, <3>3, <3>4
  <2>2. CASE loop.at \notin {"call", "deliver"}
    <3>1. loop' = loop
      BY <2>2 DEF GiveUp
    <3> QED
      BY <1>0, <2>2, <3>1 DEF RuntimeTypeOK
  <2> QED
    BY <2>1, <2>2
<1>7. RuntimeTypeOK'
  BY <1>0, <1>3, <1>4, <1>5, <1>6 DEF RuntimeTypeOK
<1>8. Blocked'
  BY <1>0, BlockedOthers
<1>9. ~Running(c)' /\ \A d \in Callers : d # c => (Running(d)' <=> Running(d))
  <2>1. CASE loop.at \in {"call", "deliver"}
    BY <1>6, <2>1, LeftTypes, JobPrime DEF Running
  <2>2. CASE loop.at \notin {"call", "deliver"}
    BY <1>6, <2>2 DEF Running
  <2> QED
    BY <2>1, <2>2
<1>10. ~InQueue(c)' /\ \A d \in Callers : d # c => SameSpots(d)
  <2>1. ASSUME NEW p \in Priorities, NEW i \in Nat
        PROVE  /\ ~Spot(c, p, i)'
               /\ \A d \in Callers : d # c => (Spot(d, p, i)' <=> Spot(d, p, i))
    <3>1. CASE i \in 1..Len(queue[p])
      BY <1>2, <3>1, LeftTypes, JobPrime DEF Spot
    <3>2. CASE i \notin 1..Len(queue[p])
      BY <1>2, <3>2 DEF Spot
    <3> QED
      BY <3>1, <3>2
  <2> QED
    BY <2>1 DEF InQueue, SameSpots
<1>11. ASSUME NEW d \in Callers PROVE Placed(d)' /\ Told(d)'
  <2>1. CASE d = c
    BY <1>4, <1>5, <1>9, <1>10, <2>1, Gone
  <2>2. CASE d # c
    <3>1. SameCaller(d) /\ SameSpots(d) /\ (Running(d)' <=> Running(d))
      BY <1>0, <1>4, <1>5, <1>9, <1>10, <2>2 DEF SameCaller
    <3>2. Running(d) /\ loop'.at = "call" => loop.at = "call" /\ loop'.sent = loop.sent
      BY <1>6
    <3> QED
      BY <1>0, <3>1, <3>2, CallerSame
  <2> QED
    BY <2>1, <2>2
<1> QED
  BY <1>7, <1>8, <1>11 DEF RuntimeInv

LEMMA ReceiveKeeps ==
    ASSUME RuntimeInv, NEW c \in Callers, Receive(c)
    PROVE  RuntimeInv'
<1>0. /\ RuntimeTypeOK /\ Blocked /\ \A d \in Callers : Placed(d) /\ Told(d)
      /\ call[c] = "waiting" /\ answer[c] # "none" /\ call' = [call EXCEPT ![c] = "idle"]
      /\ answer' = [answer EXCEPT ![c] = "none"] /\ UNCHANGED <<queue, blocked, loop, shown, replay>>
  BY DEF RuntimeInv, Receive
<1>1. call' \in [Callers -> {"idle", "sending", "waiting"}] /\ call'[c] = "idle"
      /\ \A d \in Callers : d # c => call'[d] = call[d]
  BY <1>0 DEF RuntimeTypeOK
<1>2. answer' \in [Callers -> {"none", "ok", "error"}] /\ answer'[c] = "none"
      /\ \A d \in Callers : d # c => answer'[d] = answer[d]
  BY <1>0 DEF RuntimeTypeOK
<1>3. RuntimeTypeOK'
  BY <1>0, <1>1, <1>2 DEF RuntimeTypeOK
<1>4. Blocked'
  BY <1>0, BlockedOthers
<1>5. \A d : SameSpots(d) /\ (Running(d)' <=> Running(d)) /\ (InQueue(d)' <=> InQueue(d))
  BY <1>0 DEF SameSpots, Spot, Running, InQueue
<1>6. ASSUME NEW d \in Callers PROVE Placed(d)' /\ Told(d)'
  <2>1. CASE d = c
    <3>1. ~InQueue(c) /\ ~Running(c)
      BY <1>0 DEF Placed
    <3> QED
      BY <1>1, <1>2, <1>5, <2>1, <3>1, Gone
  <2>2. CASE d # c
    BY <1>0, <1>1, <1>2, <1>5, <2>2, CallerSame DEF SameCaller
  <2> QED
    BY <2>1, <2>2
<1> QED
  BY <1>3, <1>4, <1>6 DEF RuntimeInv
-----------------------------------------------------------------------------
LEMMA StartedType ==
    ASSUME NEW job \in Jobs
    PROVE  /\ Started(job) \in [at : {"call"}, job : Jobs, attempt : 1..3, sent : 0..Pieces]
                               \cup [at : {"deliver"}, job : Jobs, result : {"ok", "error"}]
           /\ Started(job).job = job /\ Started(job).at \in {"call", "deliver"}
           /\ Started(job).at = "call" => Started(job).sent = 0
<1> SUFFICES 0 \in 0..Pieces
  BY DEF Started
<1> QED
  BY RuntimeConstants DEF RuntimeConstants

\* The queue after its first job was taken, and the first caller that was blocked has
\* put its own.
LEMMA TakenQueue ==
    ASSUME RuntimeTypeOK, Blocked, NEW p \in Priorities, queue[p] # <<>>, Taken(p)
    PROVE  /\ queue' \in [Priorities -> Seq(Jobs)] /\ \A q \in Priorities : Len(queue'[q]) <= QueueSize
           /\ \A d \in Callers, q \in Priorities, i \in Nat :
                 Spot(d, q, i)' <=>
                     IF q # p THEN Spot(d, q, i)
                     ELSE \/ i # 0 /\ Spot(d, p, i + 1)
                          \/ blocked[p] # <<>> /\ d = Head(blocked[p]) /\ i = Len(queue[p])
<1>1. /\ queue \in [Priorities -> Seq(Jobs)] /\ queue[p] \in Seq(Jobs) /\ Len(queue[p]) \in Nat \ {0}
      /\ Tail(queue[p]) \in Seq(Jobs) /\ Len(Tail(queue[p])) = Len(queue[p]) - 1
      /\ \A i \in 1..(Len(queue[p]) - 1) : Tail(queue[p])[i] = queue[p][i + 1]
  BY DEF RuntimeTypeOK
<1>a. Len(queue[p]) \in Nat \ {0}
  BY <1>1
<1>2. QueueSize \in Nat /\ \A q \in Priorities : Len(queue[q]) <= QueueSize
  BY RuntimeConstants DEF RuntimeTypeOK, RuntimeConstants
<1> DEFINE t == Tail(queue[p])
<1>3. CASE blocked[p] = <<>>
  <2>1. queue' = [queue EXCEPT ![p] = t]
    BY <1>3 DEF Taken
  <2>2. queue' \in [Priorities -> Seq(Jobs)] /\ queue'[p] = t
        /\ \A q \in Priorities : q # p => queue'[q] = queue[q]
    BY <1>1, <2>1
  <2>3. \A q \in Priorities : Len(queue'[q]) <= QueueSize
    BY <1>1, <1>2, <2>2
  <2>4. ASSUME NEW d \in Callers, NEW q \in Priorities, NEW i \in Nat
        PROVE  Spot(d, q, i)' <=> IF q # p THEN Spot(d, q, i) ELSE i # 0 /\ Spot(d, p, i + 1)
    <3>1. CASE q # p
      BY <2>2, <3>1, JobPrime DEF Spot
    <3>2. CASE q = p
      <4>1. Spot(d, p, i)' <=> i \in 1..Len(t) /\ t[i] = Job(d)
        BY <2>2, JobPrime DEF Spot
      <4>2. i \in 1..Len(t) <=> i # 0 /\ i + 1 \in 1..Len(queue[p])
        BY <1>1
      <4> HIDE DEF t
      <4>3. i \in 1..Len(t) => t[i] = queue[p][i + 1]
        BY <1>1 DEF t
      <4> QED
        BY <3>2, <4>1, <4>2, <4>3 DEF Spot
    <3> QED
      BY <3>1, <3>2
  <2> QED
    BY <1>3, <2>2, <2>3, <2>4
<1>4. CASE blocked[p] # <<>>
  <2> DEFINE next == Head(blocked[p])
             u == Append(t, Job(next))
  <2>0. next \in Callers /\ Job(next) \in Jobs
    BY <1>4, JobTypes DEF RuntimeTypeOK
  <2>1. queue' = [queue EXCEPT ![p] = u]
    BY <1>4 DEF Taken
  <2> HIDE DEF t, next
  <2>2. /\ u \in Seq(Jobs) /\ Len(u) = Len(queue[p]) /\ u[Len(queue[p])] = Job(next)
        /\ \A i \in 1..(Len(queue[p]) - 1) : u[i] = queue[p][i + 1]
    BY <1>1, <2>0 DEF t
  <2> HIDE DEF u
  <2>3. queue' \in [Priorities -> Seq(Jobs)] /\ queue'[p] = u
        /\ \A q \in Priorities : q # p => queue'[q] = queue[q]
    BY <1>1, <2>1, <2>2
  <2>4. \A q \in Priorities : Len(queue'[q]) <= QueueSize
    BY <1>1, <1>2, <2>2, <2>3
  <2>5. ASSUME NEW d \in Callers, NEW q \in Priorities, NEW i \in Nat
        PROVE  Spot(d, q, i)' <=>
                   IF q # p THEN Spot(d, q, i)
                   ELSE \/ i # 0 /\ Spot(d, p, i + 1)
                        \/ d = next /\ i = Len(queue[p])
    <3>1. CASE q # p
      BY <2>3, <3>1, JobPrime DEF Spot
    <3>2. CASE q = p
      <4>1. Spot(d, p, i)' <=> i \in 1..Len(queue[p]) /\ u[i] = Job(d)
        BY <2>2, <2>3, JobPrime DEF Spot
      <4>2. CASE i \in 1..(Len(queue[p]) - 1)
        <5>1. i \in 1..Len(queue[p]) /\ i + 1 \in 1..Len(queue[p]) /\ i # Len(queue[p]) /\ i # 0
          BY <1>a, <4>2
        <5>2. u[i] = queue[p][i + 1]
          BY <2>2, <4>2
        <5>3. Spot(d, p, i)' <=> queue[p][i + 1] = Job(d)
          BY <4>1, <5>1, <5>2
        <5>4. Spot(d, p, i + 1) <=> queue[p][i + 1] = Job(d)
          BY <5>1 DEF Spot
        <5> QED
          BY <3>2, <5>1, <5>3, <5>4
      <4>3. CASE i = Len(queue[p])
        <5>1. i \in 1..Len(queue[p]) /\ i + 1 \notin 1..Len(queue[p])
          BY <1>a, <4>3
        <5>2. u[i] = Job(d) <=> d = next
          BY <2>2, <4>3, JobTypes
        <5> QED
          BY <3>2, <4>1, <4>3, <5>1, <5>2 DEF Spot
      <4>4. CASE i \notin 1..(Len(queue[p]) - 1) /\ i # Len(queue[p])
        <5>1. i \notin 1..Len(queue[p]) /\ (i # 0 => i + 1 \notin 1..Len(queue[p]))
          BY <1>a, <4>4
        <5> QED
          BY <3>2, <4>1, <4>4, <5>1 DEF Spot
      <4> QED
        BY <4>2, <4>3, <4>4
    <3> QED
      BY <3>1, <3>2
  <2>6. ASSUME NEW d \in Callers, NEW q \in Priorities, NEW i \in Nat
        PROVE  Spot(d, q, i)' <=>
                   IF q # p THEN Spot(d, q, i)
                   ELSE \/ i # 0 /\ Spot(d, p, i + 1)
                        \/ blocked[p] # <<>> /\ d = Head(blocked[p]) /\ i = Len(queue[p])
    <3>1. blocked[p] # <<>> /\ next = Head(blocked[p])
      BY <1>4 DEF next
    <3> QED
      BY <2>5, <3>1
  <2> QED
    BY <2>3, <2>4, <2>6, Zenon
<1> QED
  BY <1>3, <1>4

LEMMA TakenBlocked ==
    ASSUME RuntimeTypeOK, Blocked, NEW p \in Priorities, Taken(p)
    PROVE  /\ blocked' \in [Priorities -> Seq(Callers)] /\ Blocked'
           /\ call' \in [Callers -> {"idle", "sending", "waiting"}]
           /\ \A d \in Callers :
                 IF blocked[p] # <<>> /\ d = Head(blocked[p])
                 THEN call[d] = "sending" /\ call'[d] = "waiting" ELSE call'[d] = call[d]
<1>1. blocked \in [Priorities -> Seq(Callers)] /\ call \in [Callers -> {"idle", "sending", "waiting"}]
  BY DEF RuntimeTypeOK
<1>2. CASE blocked[p] = <<>>
  <2>1. UNCHANGED <<blocked, call>>
    BY <1>2 DEF Taken
  <2> QED
    BY <1>1, <1>2, <2>1 DEF Blocked
<1>3. CASE blocked[p] # <<>>
  <2> DEFINE next == Head(blocked[p])
             t == Tail(blocked[p])
  <2>1. blocked' = [blocked EXCEPT ![p] = t] /\ call' = [call EXCEPT ![next] = "waiting"]
    BY <1>3 DEF Taken
  <2>2. /\ next \in Callers /\ next = blocked[p][1] /\ t \in Seq(Callers)
        /\ Len(blocked[p]) \in Nat \ {0} /\ Len(t) = Len(blocked[p]) - 1
        /\ \A i \in 1..(Len(blocked[p]) - 1) : t[i] = blocked[p][i + 1]
    BY <1>1, <1>3
  <2> HIDE DEF next, t
  <2>3. blocked' \in [Priorities -> Seq(Callers)] /\ blocked'[p] = t
        /\ \A q \in Priorities : q # p => blocked'[q] = blocked[q]
    BY <1>1, <2>1, <2>2
  <2>4. call' \in [Callers -> {"idle", "sending", "waiting"}] /\ call'[next] = "waiting"
        /\ \A d \in Callers : d # next => call'[d] = call[d]
    BY <1>1, <2>1, <2>2
  <2>5. \A q \in Priorities : \A j \in 1..Len(blocked[q]) :
            /\ call[blocked[q][j]] = "sending" /\ Priority(blocked[q][j]) = q
            /\ blocked[q][j] \in Callers
            /\ \A n \in 1..Len(blocked[q]) : blocked[q][n] = blocked[q][j] => n = j
    BY <1>1 DEF Blocked
  <2>6. 1 \in 1..Len(blocked[p]) /\ call[next] = "sending" /\ Priority(next) = p
    BY <2>2, <2>5
  <2>7. Blocked'
    <3> SUFFICES ASSUME NEW q \in Priorities, NEW i \in 1..Len(blocked'[q])
                 PROVE  /\ call'[blocked'[q][i]] = "sending" /\ Priority(blocked'[q][i]) = q
                        /\ \A j \in 1..Len(blocked'[q]) : blocked'[q][j] = blocked'[q][i] => j = i
      BY DEF Blocked, Priority
    <3>1. CASE q # p
      <4>1. \A j \in 1..Len(blocked[q]) : blocked[q][j] # next
        BY <2>5, <2>6, <3>1
      <4>2. blocked'[q] = blocked[q]
        BY <2>3, <3>1
      <4>3. i \in 1..Len(blocked[q])
        BY <4>2
      <4>4. call'[blocked[q][i]] = "sending"
        BY <2>4, <2>5, <4>1, <4>3
      <4> QED
        BY <2>5, <4>2, <4>3, <4>4
    <3>2. CASE q = p
      <4>1. 1..Len(blocked'[q]) = 1..(Len(blocked[p]) - 1) /\ blocked'[q] = t
        BY <2>2, <2>3, <3>2
      <4>2. \A j \in 1..(Len(blocked[p]) - 1) : j \in Nat /\ j + 1 \in 1..Len(blocked[p]) /\ j + 1 # 1
        BY <2>2
      <4>3. ASSUME NEW j \in 1..(Len(blocked[p]) - 1)
            PROVE  call'[t[j]] = "sending" /\ Priority(t[j]) = p
        <5>1. blocked[p][j + 1] # next /\ blocked[p][j + 1] \in Callers
          BY <2>2, <2>5, <2>6, <4>2
        <5> QED
          BY <2>2, <2>4, <2>5, <4>2, <5>1
      <4>4. ASSUME NEW j \in 1..(Len(blocked[p]) - 1), NEW n \in 1..(Len(blocked[p]) - 1), t[j] = t[n]
            PROVE  j = n
        <5>1. blocked[p][j + 1] = blocked[p][n + 1]
          BY <2>2, <4>4
        <5>2. j + 1 = n + 1
          BY <2>5, <4>2, <5>1
        <5> QED
          BY <4>2, <5>2
      <4> QED
        BY <3>2, <4>1, <4>3, <4>4
    <3> QED
      BY <3>1, <3>2
  <2> QED
    BY <1>3, <2>3, <2>4, <2>6, <2>7 DEF next
<1> QED
  BY <1>2, <1>3

LEMMA TakeKeeps ==
    ASSUME RuntimeInv, NEW p \in Priorities, Take(p), loop.at \in {"poll", "wait"}
    PROVE  RuntimeInv'
<1>0. /\ RuntimeTypeOK /\ Blocked /\ \A d \in Callers : Placed(d) /\ Told(d)
      /\ queue[p] # <<>> /\ Taken(p) /\ loop' = Started(Head(queue[p]))
      /\ UNCHANGED <<answer, shown, replay>>
  BY DEF RuntimeInv, Take
<1> DEFINE job == Head(queue[p])
<1>1. job \in Jobs /\ job = queue[p][1] /\ 1 \in 1..Len(queue[p]) /\ Len(queue[p]) \in Nat \ {0}
  BY <1>0 DEF RuntimeTypeOK
<1>2. /\ loop' \in [at : {"call"}, job : Jobs, attempt : 1..3, sent : 0..Pieces]
                    \cup [at : {"deliver"}, job : Jobs, result : {"ok", "error"}]
      /\ loop'.job = job /\ loop'.at \in {"call", "deliver"}
      /\ loop'.at = "call" => loop'.sent = 0
  BY <1>0, <1>1, StartedType
<1>3. /\ queue' \in [Priorities -> Seq(Jobs)] /\ \A q \in Priorities : Len(queue'[q]) <= QueueSize
      /\ \A d \in Callers, q \in Priorities, i \in Nat :
             Spot(d, q, i)' <=>
                 IF q # p THEN Spot(d, q, i)
                 ELSE \/ i # 0 /\ Spot(d, p, i + 1)
                      \/ blocked[p] # <<>> /\ d = Head(blocked[p]) /\ i = Len(queue[p])
  BY <1>0, TakenQueue
<1>4. /\ blocked' \in [Priorities -> Seq(Callers)] /\ Blocked'
      /\ call' \in [Callers -> {"idle", "sending", "waiting"}]
      /\ \A d \in Callers :
            IF blocked[p] # <<>> /\ d = Head(blocked[p])
            THEN call[d] = "sending" /\ call'[d] = "waiting" ELSE call'[d] = call[d]
  BY <1>0, TakenBlocked
<1>5. RuntimeTypeOK'
  BY <1>0, <1>2, <1>3, <1>4 DEF RuntimeTypeOK
<1>6. \A d \in Callers : ~Running(d) /\ (Running(d)' <=> Spot(d, p, 1))
  BY <1>1, <1>2, JobPrime DEF Running, Spot
<1> HIDE DEF job
<1>7. ASSUME NEW d \in Callers PROVE Placed(d)' /\ Told(d)'
  <2>1. CASE blocked[p] # <<>> /\ d = Head(blocked[p])
    <3>1. call[d] = "sending" /\ call'[d] = "waiting"
      BY <1>4, <2>1
    <3>2. ~InQueue(d) /\ answer[d] = "none" /\ shown[d] = 0
      BY <1>0, <3>1 DEF Placed, Told
    <3>3. \A q \in Priorities, i \in Nat : Spot(d, q, i)' <=> q = p /\ i = Len(queue[p])
      BY <1>3, <2>1, <3>2 DEF InQueue
    <3>4. ~Running(d)'
      BY <1>6, <3>2 DEF InQueue
    <3>5. InQueue(d)'
      BY <1>1, <3>3 DEF InQueue
    <3> QED
      BY <1>0, <3>1, <3>2, <3>3, <3>4, <3>5 DEF Placed, Told
  <2>2. CASE ~(blocked[p] # <<>> /\ d = Head(blocked[p]))
    <3>1. call'[d] = call[d] /\ Placed(d) /\ Told(d)
      BY <1>0, <1>4, <2>2
    <3>2. \A q \in Priorities, i \in Nat :
              Spot(d, q, i)' <=> IF q # p THEN Spot(d, q, i) ELSE i # 0 /\ Spot(d, p, i + 1)
      BY <1>3, <2>2
    <3>3. InQueue(d)' => InQueue(d)
      BY <3>2 DEF InQueue
    <3>4. CASE Spot(d, p, 1)
      <4>1. \A q \in Priorities, i \in Nat : Spot(d, q, i) => q = p /\ i = 1
        BY <3>1, <3>4 DEF Placed
      <4>2. ~InQueue(d)'
        BY <3>2, <4>1 DEF InQueue
      <4>3. InQueue(d)
        BY <3>4 DEF InQueue
      <4>4. call[d] = "waiting" /\ answer[d] = "none" /\ shown[d] = 0
        BY <3>1, <4>3 DEF Placed, Told
      <4> QED
        BY <1>0, <1>2, <1>6, <3>1, <3>4, <4>2, <4>4 DEF Placed, Told, InQueue
    <3>5. CASE ~Spot(d, p, 1)
      <4>1. InQueue(d) => InQueue(d)'
        <5> SUFFICES ASSUME NEW q \in Priorities, NEW i \in Nat, Spot(d, q, i) PROVE InQueue(d)'
          BY DEF InQueue
        <5>1. CASE q # p
          BY <3>2, <5>1 DEF InQueue
        <5>2. CASE q = p
          <6>1. i # 1 /\ i \in 1..Len(queue[p])
            BY <3>5, <5>2 DEF Spot
          <6>2. i - 1 \in Nat /\ i - 1 # 0 /\ (i - 1) + 1 = i
            BY <1>1, <6>1
          <6>3. Spot(d, p, i - 1)'
            BY <3>2, <5>2, <6>2
          <6> QED
            BY <6>2, <6>3 DEF InQueue
        <5> QED
          BY <5>1, <5>2
      <4>2. ~Running(d)' /\ ~Running(d)
        BY <1>6, <3>5
      <4>3. ASSUME NEW q \in Priorities, NEW r \in Priorities, NEW i \in Nat, NEW j \in Nat,
                   Spot(d, q, i)', Spot(d, r, j)'
            PROVE  q = r /\ i = j
        <5>1. Spot(d, q, IF q # p THEN i ELSE i + 1) /\ Spot(d, r, IF r # p THEN j ELSE j + 1)
          BY <3>2, <4>3
        <5>2. q = r /\ (IF q # p THEN i ELSE i + 1) = (IF r # p THEN j ELSE j + 1)
          BY <3>1, <5>1 DEF Placed
        <5> QED
          BY <5>2
      <4>4. Placed(d)'
        BY <1>0, <3>1, <3>3, <4>1, <4>2, <4>3 DEF Placed
      <4>5. Told(d)'
        BY <1>0, <3>1, <3>3, <4>2 DEF Told
      <4> QED
        BY <4>4, <4>5
    <3> QED
      BY <3>4, <3>5
  <2> QED
    BY <2>1, <2>2
<1> QED
  BY <1>4, <1>5, <1>7 DEF RuntimeInv

\* The queues and the callers stay as they are; what changes is the loop, and what it
\* says of the caller whose job it runs.
LEMMA LoopKeeps ==
    ASSUME RuntimeInv, UNCHANGED <<call, queue, blocked>>, RuntimeTypeOK',
           \A d \in Callers : Running(d)' => Running(d),
           \A d \in Callers :
               \/ answer'[d] = answer[d] /\ (Running(d) => Running(d)')
               \/ Running(d) /\ ~Running(d)' /\ answer'[d] # "none",
           \A d \in Callers :
               \/ shown'[d] = shown[d] /\ ~Running(d)
               \/ Running(d) /\ (loop'.at = "call" => replay'[d] \/ shown'[d] = loop'.sent)
    PROVE  RuntimeInv'
<1>1. Blocked'
  BY BlockedSame DEF RuntimeInv, RuntimeTypeOK
<1>2. ASSUME NEW d \in Callers PROVE Placed(d)' /\ Told(d)'
  <2>1. Placed(d) /\ Told(d)
    BY DEF RuntimeInv
  <2>2. /\ \A q \in Priorities, i \in Nat : Spot(d, q, i)' <=> Spot(d, q, i)
        /\ InQueue(d)' <=> InQueue(d)
    BY DEF Spot, InQueue
  <2>3. Placed(d)'
    BY <2>1, <2>2 DEF Placed
  <2>4. Told(d)'
    BY <2>1, <2>2 DEF Told, Placed
  <2> QED
    BY <2>3, <2>4
<1> QED
  BY <1>1, <1>2 DEF RuntimeInv
-----------------------------------------------------------------------------
LEMMA RunningOne ==
    ASSUME RuntimeInv, loop.at \in {"call", "deliver"}
    PROVE  /\ loop.job \in Jobs /\ loop.job.caller \in Callers
           /\ \A d \in Callers : Running(d) <=> loop.job.wanted /\ d = loop.job.caller
<1>1. loop.job \in Jobs
  BY LoopTypes DEF RuntimeInv
<1> QED
  BY <1>1, JobTypes DEF Running

LEMMA DeliverKeeps == ASSUME RuntimeInv, Deliver PROVE RuntimeInv'
<1>1. /\ loop.at = "deliver" /\ loop' = Polling /\ UNCHANGED <<call, queue, blocked, shown, replay>>
      /\ answer' = IF loop.job.wanted THEN [answer EXCEPT ![loop.job.caller] = loop.result] ELSE answer
  BY DEF Deliver
<1>2. RuntimeTypeOK /\ loop.result \in {"ok", "error"}
  BY <1>1, LoopTypes DEF RuntimeInv
<1>3. /\ loop.job.caller \in Callers
      /\ \A d \in Callers : Running(d) <=> loop.job.wanted /\ d = loop.job.caller
  BY <1>1, RunningOne
<1>4. \A d \in Callers : ~Running(d)'
  BY <1>1 DEF Running, Polling
<1>5. /\ answer' \in [Callers -> {"none", "ok", "error"}]
      /\ \A d \in Callers : answer'[d] = IF Running(d) THEN loop.result ELSE answer[d]
  BY <1>1, <1>2, <1>3 DEF RuntimeTypeOK
<1>6. loop' \in [at : {"poll", "wait"}] /\ loop'.at = "poll"
  BY <1>1 DEF Polling
<1>7. RuntimeTypeOK'
  BY <1>1, <1>2, <1>5, <1>6 DEF RuntimeTypeOK
<1> QED
  BY <1>1, <1>2, <1>4, <1>5, <1>6, <1>7, LoopKeeps

LEMMA CallTypes ==
    ASSUME RuntimeInv, loop.at = "call", NEW d \in Callers, Running(d)
    PROVE  d = loop.job.caller /\ loop.job.wanted /\ (replay[d] \/ shown[d] = loop.sent)
<1>1. Told(d)
  BY DEF RuntimeInv
<1> QED
  BY <1>1, RunningOne DEF Told

LEMMA PieceKeeps == ASSUME RuntimeInv, Piece PROVE RuntimeInv'
<1>0. /\ loop.at = "call" /\ loop.sent < Pieces /\ UNCHANGED <<call, queue, blocked, answer, replay>>
      /\ loop' = [loop EXCEPT !.sent = @ + 1]
      /\ shown' = IF loop.job.wanted THEN [shown EXCEPT ![loop.job.caller] = @ + 1] ELSE shown
  BY DEF Piece
<1>1. /\ RuntimeTypeOK /\ Pieces \in Nat /\ loop.job \in Jobs /\ loop.attempt \in 1..3
      /\ loop.sent \in 0..Pieces
      /\ loop = [at |-> "call", job |-> loop.job, attempt |-> loop.attempt, sent |-> loop.sent]
  BY <1>0, LoopTypes, RuntimeConstants DEF RuntimeInv, RuntimeConstants
<1>2. loop' = [at |-> "call", job |-> loop.job, attempt |-> loop.attempt, sent |-> loop.sent + 1]
  BY <1>0, <1>1
<1>3. loop.sent + 1 \in 0..Pieces
  BY <1>0, <1>1
<1>4. /\ loop' \in [at : {"call"}, job : Jobs, attempt : 1..3, sent : 0..Pieces]
      /\ loop'.at = "call" /\ loop'.job = loop.job /\ loop'.sent = loop.sent + 1
  BY <1>1, <1>2, <1>3
<1>5. /\ loop.job.caller \in Callers
      /\ \A d \in Callers : Running(d) <=> loop.job.wanted /\ d = loop.job.caller
  BY <1>0, RunningOne
<1>6. \A d \in Callers : Running(d)' <=> Running(d)
  BY <1>0, <1>4, JobPrime DEF Running
<1>7. shown \in [Callers -> Nat]
  BY <1>1 DEF RuntimeTypeOK
<1>8. /\ shown' \in [Callers -> Nat]
      /\ \A d \in Callers : shown'[d] = IF Running(d) THEN shown[d] + 1 ELSE shown[d]
  BY <1>0, <1>5, <1>7
<1>9. RuntimeTypeOK'
  BY <1>0, <1>1, <1>4, <1>8 DEF RuntimeTypeOK
<1>10. \A d \in Callers : Running(d) => replay'[d] \/ shown'[d] = loop'.sent
  BY <1>0, <1>4, <1>8, CallTypes
<1> QED
  BY <1>0, <1>6, <1>8, <1>9, <1>10, LoopKeeps

LEMMA EndedKeeps ==
    ASSUME RuntimeInv, NEW result \in {"ok", "error"}, loop.at = "call", Ended(result),
           UNCHANGED <<call, queue, blocked, answer, shown, replay>>
    PROVE  RuntimeInv'
<1>1. RuntimeTypeOK /\ loop.job \in Jobs
  BY LoopTypes DEF RuntimeInv
<1>2. loop' = [at |-> "deliver", job |-> loop.job, result |-> result]
  BY DEF Ended
<1>3. /\ loop' \in [at : {"deliver"}, job : Jobs, result : {"ok", "error"}]
      /\ loop'.at = "deliver" /\ loop'.job = loop.job
  BY <1>1, <1>2
<1>4. RuntimeTypeOK'
  BY <1>1, <1>3 DEF RuntimeTypeOK
<1>5. \A d \in Callers : Running(d)' <=> Running(d)
  BY <1>3, JobPrime DEF Running
<1> QED
  BY <1>3, <1>4, <1>5, LoopKeeps

LEMMA FailTransientKeeps == ASSUME RuntimeInv, FailTransient PROVE RuntimeInv'
<1>0. /\ loop.at = "call" /\ loop.attempt < Attempts(loop.job.caller) /\ loop.job.wanted
      /\ loop' = [loop EXCEPT !.attempt = @ + 1, !.sent = 0]
      /\ UNCHANGED <<call, queue, blocked, answer, shown>>
  BY DEF FailTransient
<1>1. /\ RuntimeTypeOK /\ Pieces \in Nat /\ loop.job \in Jobs /\ loop.attempt \in 1..3
      /\ loop.sent \in 0..Pieces
      /\ loop = [at |-> "call", job |-> loop.job, attempt |-> loop.attempt, sent |-> loop.sent]
  BY <1>0, LoopTypes, RuntimeConstants DEF RuntimeInv, RuntimeConstants
<1>2. loop' = [at |-> "call", job |-> loop.job, attempt |-> loop.attempt + 1, sent |-> 0]
  BY <1>0, <1>1
<1>3. loop.attempt + 1 \in 1..3 /\ 0 \in 0..Pieces
  BY <1>0, <1>1 DEF Attempts
<1>4. /\ loop' \in [at : {"call"}, job : Jobs, attempt : 1..3, sent : 0..Pieces]
      /\ loop'.at = "call" /\ loop'.job = loop.job /\ loop'.sent = 0
  BY <1>1, <1>2, <1>3
<1>5. /\ loop.job.caller \in Callers
      /\ \A d \in Callers : Running(d) <=> d = loop.job.caller
  BY <1>0, RunningOne
<1>6. \A d \in Callers : Running(d)' <=> Running(d)
  BY <1>0, <1>4, JobPrime DEF Running
<1>7. PICK report \in BOOLEAN :
          /\ loop.sent = 0 \/ report
          /\ replay' = [replay EXCEPT ![loop.job.caller] = @ \/ (loop.sent > 0 /\ report)]
  BY DEF FailTransient, Replayable
<1>8. /\ replay \in [Callers -> BOOLEAN] /\ shown \in [Callers -> Nat]
      /\ (replay[loop.job.caller] \/ (loop.sent > 0 /\ report)) \in BOOLEAN
  BY <1>1 DEF RuntimeTypeOK
<1>9. /\ replay' \in [Callers -> BOOLEAN]
      /\ replay'[loop.job.caller] = (replay[loop.job.caller] \/ (loop.sent > 0 /\ report))
  BY <1>5, <1>7, <1>8, Zenon
<1>10. RuntimeTypeOK'
  BY <1>0, <1>1, <1>4, <1>9 DEF RuntimeTypeOK
<1>11. ASSUME NEW d \in Callers, Running(d) PROVE replay'[d] \/ shown'[d] = loop'.sent
  <2>1. d = loop.job.caller /\ (replay[d] \/ shown[d] = loop.sent)
    BY <1>0, <1>11, CallTypes
  <2>2. CASE loop.sent = 0
    <3>1. replay[d] => replay'[d]
      BY <1>9, <2>1
    <3> QED
      BY <1>0, <1>4, <2>1, <2>2, <3>1
  <2>3. CASE loop.sent # 0
    <3>1. loop.sent > 0 /\ report
      BY <1>1, <1>7, <2>3
    <3> QED
      BY <1>9, <2>1, <3>1
  <2> QED
    BY <2>2, <2>3
<1> QED
  BY <1>0, <1>6, <1>10, <1>11, LoopKeeps

LEMMA PollKeeps == ASSUME RuntimeInv, Poll \/ Wait PROVE RuntimeInv'
<1>1. ASSUME NEW p \in Priorities, Take(p), loop.at \in {"poll", "wait"} PROVE RuntimeInv'
  BY <1>1, TakeKeeps
<1>2. ASSUME loop.at = "poll", loop' = Asleep, UNCHANGED <<call, queue, blocked, answer, shown, replay>>
      PROVE  RuntimeInv'
  <2>1. loop' \in [at : {"poll", "wait"}] /\ loop'.at = "wait"
    BY <1>2 DEF Asleep
  <2>2. RuntimeTypeOK'
    BY <1>2, <2>1 DEF RuntimeTypeOK, RuntimeInv
  <2>3. \A d \in Callers : ~Running(d) /\ ~Running(d)'
    BY <1>2, <2>1 DEF Running
  <2> QED
    BY <1>2, <2>2, <2>3, LoopKeeps
<1> QED
  BY <1>1, <1>2 DEF Poll, Wait, Priorities, Asleep

LEMMA RuntimeInvNext ==
    RuntimeConstants /\ RuntimeInv /\ [RuntimeNext]_runtimeVars => RuntimeInv'
<1> SUFFICES ASSUME RuntimeConstants, RuntimeInv, [RuntimeNext]_runtimeVars PROVE RuntimeInv'
  OBVIOUS
<1>1. ASSUME NEW c \in Callers, Call(c) \/ LeaveQueue(c) \/ GiveUp(c) \/ Receive(c) PROVE RuntimeInv'
  BY <1>1, CallKeeps, LeaveQueueKeeps, GiveUpKeeps, ReceiveKeeps
<1>2. CASE Poll \/ Wait
  BY <1>2, PollKeeps
<1>3. CASE Deliver
  BY <1>3, DeliverKeeps
<1>4. CASE Piece
  BY <1>4, PieceKeeps
<1>5. CASE Complete
  BY <1>5, EndedKeeps DEF Complete
<1>6. CASE FailFinal
  BY <1>6, EndedKeeps DEF FailFinal
<1>7. CASE FailTransient
  BY <1>7, FailTransientKeeps
<1>8. CASE UNCHANGED runtimeVars
  <2>1. UNCHANGED <<call, queue, blocked, loop, answer, shown, replay>>
    BY <1>8 DEF runtimeVars
  <2>2. RuntimeTypeOK' /\ Blocked'
    BY <2>1 DEF RuntimeInv, RuntimeTypeOK, Blocked
  <2>3. \A d : SameSpots(d) /\ SameCaller(d) /\ (Running(d)' <=> Running(d)) /\ loop' = loop
    BY <2>1, JobPrime DEF SameSpots, SameCaller, Spot, Running
  <2>4. \A d \in Callers : Placed(d)' /\ Told(d)'
    BY <2>3, CallerSame DEF RuntimeInv
  <2> QED
    BY <2>2, <2>4 DEF RuntimeInv
<1> QED
  BY <1>1, <1>2, <1>3, <1>4, <1>5, <1>6, <1>7, <1>8 DEF RuntimeNext, LoopStep, CallStep

LEMMA RuntimeInvAlways == RuntimeSpec => []RuntimeInv
<1>1. RuntimeConstants
  BY RuntimeConstants
<1> QED
  BY <1>1, RuntimeInvInit, RuntimeInvNext, PTL DEF RuntimeSpec

\* A caller that waits has one job, in one place, whoever was blocked, left or called
\* again in between.
THEOREM JobsAreSingle == RuntimeSpec => []OneJobEach
<1>1. ASSUME RuntimeInv PROVE OneJobEach
  <2> SUFFICES ASSUME NEW c \in Callers
               PROVE  Cardinality(Queued(c)) + (IF Running(c) THEN 1 ELSE 0)
                        + (IF answer[c] # "none" THEN 1 ELSE 0)
                      = IF call[c] = "waiting" THEN 1 ELSE 0
    BY DEF OneJobEach
  <2>0. Placed(c) /\ RuntimeTypeOK
    BY <1>1 DEF RuntimeInv
  <2>1. \A q \in Priorities, i \in Nat : <<q, i>> \in Queued(c) <=> Spot(c, q, i)
    <3> TAKE q \in Priorities, i \in Nat
    <3>1. Len(queue[q]) \in Nat /\ Len(queue[q]) <= QueueSize /\ QueueSize \in Nat
      BY <2>0, RuntimeConstants DEF RuntimeTypeOK, RuntimeConstants
    <3>2. i \in 1..QueueSize /\ i <= Len(queue[q]) <=> i \in 1..Len(queue[q])
      BY <3>1
    <3> QED
      BY <3>2 DEF Queued, Spot
  <2>2. \A x \in Queued(c) : \E q \in Priorities, i \in Nat : x = <<q, i>>
    BY RuntimeConstants DEF Queued, RuntimeConstants
  <2>3. CASE InQueue(c)
    <3>1. PICK q \in Priorities, i \in Nat : Spot(c, q, i)
      BY <2>3 DEF InQueue
    <3>2. Queued(c) = {<<q, i>>}
      BY <2>0, <2>1, <2>2, <3>1 DEF Placed
    <3>3. Cardinality(Queued(c)) = 1
      BY <3>2, FS_Singleton
    <3> QED
      BY <2>0, <2>3, <3>3 DEF Placed
  <2>4. CASE ~InQueue(c)
    <3>1. Queued(c) = {}
      BY <2>1, <2>2, <2>4 DEF InQueue
    <3>2. Cardinality(Queued(c)) = 0
      BY <3>1, FS_EmptySet
    <3> QED
      BY <2>0, <2>4, <3>2 DEF Placed
  <2> QED
    BY <2>3, <2>4
<1> QED
  BY <1>1, RuntimeInvAlways, PTL

\* What a client is shown is the output of one attempt, unless the model service itself
\* had reported an error in the stream.
THEOREM StreamsAreSingle == RuntimeSpec => []StreamOnce
<1>1. ASSUME RuntimeInv PROVE StreamOnce
  <2> SUFFICES ASSUME NEW c \in Callers
               PROVE  \/ replay[c] \/ call[c] # "waiting" \/ shown[c] = 0
                      \/ answer[c] # "none"
                      \/ loop.at = "deliver"
                      \/ Running(c) /\ shown[c] = loop.sent
    BY DEF StreamOnce
  <2>1. Placed(c) /\ Told(c) /\ (Running(c) => loop.at \in {"call", "deliver"})
    BY <1>1 DEF RuntimeInv, Running
  <2> QED
    BY <2>1 DEF Placed, Told
<1> QED
  BY <1>1, RuntimeInvAlways, PTL

\* The callers, the queues, the goroutine and the answers keep their types, and no
\* queue holds more jobs than it has room for.
THEOREM RuntimeTyped == RuntimeSpec => []RuntimeTypeOK
<1>1. RuntimeInv => RuntimeTypeOK
  BY DEF RuntimeInv
<1> QED
  BY <1>1, RuntimeInvAlways, PTL
-----------------------------------------------------------------------------
(* Conversations *)

\* Every request at work holds the lock, twice only once it saves.
Locked(r) ==
    /\ req[r] = Idle => locks[r] = 0
    /\ req[r] # Idle => locks[r] \in {1, 2}
    /\ req[r] # Idle /\ req[r].at \notin {"check", "write"} => locks[r] = 1

\* A record that is about to be written is the one that is stored, unless another
\* request changed the conversation meanwhile.
Current(r) ==
    req[r] # Idle /\ r \notin behind =>
        /\ req[r].at = "messages" => saved[req[r].conversation] = req[r].record
        /\ req[r].at = "write" => saved[req[r].conversation] \in {Missing, req[r].record}

ChatInv ==
    /\ ChatTypeOK /\ cleared = {}
    /\ \A r \in Requests : Locked(r)
    /\ \A r \in Requests : Current(r)
-----------------------------------------------------------------------------
\* No stage of a request is the one of a request that rests.
LEMMA AtWork ==
    ASSUME NEW q \in ConversationRequests PROVE q # Idle /\ q.at # "idle"
BY DEF ConversationRequests, Idle

LEMMA ChatInvInit == ChatInit => ChatInv
<1> SUFFICES ASSUME ChatInit PROVE ChatInv
  OBVIOUS
<1>0. \A s \in Scopes : Conversation(s, TRUE) \in ConversationRecords
  BY DEF Conversation, ConversationRecords
<1>1. {Conversation(s, TRUE) : s \in Scopes} \subseteq ConversationRecords
  BY <1>0
<1>2. saved \in [Conversations -> ConversationRecords \cup {Missing}]
  BY <1>1 DEF ChatInit
<1> QED BY <1>2 DEF ChatInit, ChatInv, ChatTypeOK, Locked, Current

\* A step of a request that goes on, and changes nothing that is stored.
LEMMA GoesOn ==
    ASSUME ChatInv, NEW r \in Requests, NEW new \in ConversationRequests, NEW n \in {1, 2},
           saved' = saved, writer' \in {"free", "locked"}, behind' = behind, cleared' = cleared,
           req' = [req EXCEPT ![r] = new], locks' = [locks EXCEPT ![r] = n],
           new.at \notin {"check", "write"} => n = 1,
           r \notin behind =>
               /\ new.at = "messages" => saved[new.conversation] = new.record
               /\ new.at = "write" => saved[new.conversation] \in {Missing, new.record}
    PROVE  ChatInv'
<1> USE DEF ChatInv
<1>1. ChatTypeOK' /\ cleared' = {}
  BY DEF ChatTypeOK
<1>2. new # Idle
  BY AtWork
<1>3. ASSUME NEW q \in Requests PROVE Locked(q)' /\ Current(q)'
  <2>1. CASE q = r
    <3>1. req'[q] = new /\ locks'[q] = n
      BY <2>1 DEF ChatTypeOK
    <3> QED BY <1>2, <2>1, <3>1 DEF Locked, Current
  <2>2. CASE q # r
    <3>1. req'[q] = req[q] /\ locks'[q] = locks[q]
      BY <2>2 DEF ChatTypeOK
    <3> QED BY <3>1 DEF Locked, Current
  <2> QED BY <2>1, <2>2
<1> QED BY <1>1, <1>3

\* The last step of a request: it may change its conversation, and then leaves
\* behind the others that run on it.
LEMMA Ends ==
    ASSUME ChatInv, NEW r \in Requests, writer' = writer, cleared' = cleared \ {r},
           req' = [req EXCEPT ![r] = Idle], locks' = [locks EXCEPT ![r] = 0],
           saved' \in [Conversations -> ConversationRecords \cup {Missing}],
           behind' \subseteq Requests,
           \A q \in Requests \ {r} : req[q] # Idle /\ q \notin behind' =>
               q \notin behind /\ saved'[req[q].conversation] = saved[req[q].conversation]
    PROVE  ChatInv'
<1> USE DEF ChatInv
<1>1. ChatTypeOK' /\ cleared' = {}
  BY DEF ChatTypeOK
<1>2. ASSUME NEW q \in Requests PROVE Locked(q)' /\ Current(q)'
  <2>1. CASE q = r
    <3>1. req'[q] = Idle /\ locks'[q] = 0
      BY <2>1 DEF ChatTypeOK
    <3> QED BY <3>1 DEF Locked, Current
  <2>2. CASE q # r
    <3>1. req'[q] = req[q] /\ locks'[q] = locks[q]
      BY <2>2 DEF ChatTypeOK
    <3> QED BY <2>2, <3>1 DEF Locked, Current
  <2> QED BY <2>1, <2>2
<1> QED BY <1>1, <1>2

\* A request that gives up.
LEMMA GivesUp ==
    ASSUME ChatInv, NEW r \in Requests, Unlock(r), saved' = saved, writer' = writer
    PROVE  ChatInv'
<1>1. /\ cleared' = cleared \ {r} /\ behind' = behind \ {r}
      /\ req' = [req EXCEPT ![r] = Idle] /\ locks' = [locks EXCEPT ![r] = 0]
  BY DEF Unlock
<1>2. /\ saved' \in [Conversations -> ConversationRecords \cup {Missing}]
      /\ behind' \subseteq Requests
  BY <1>1 DEF ChatInv, ChatTypeOK
<1> QED BY <1>1, <1>2, Ends
-----------------------------------------------------------------------------
\* What a request at work is doing, and its lock.
LEMMA Working ==
    ASSUME ChatInv, NEW r \in Requests, req[r].at # "idle"
    PROVE  /\ req[r] \in ConversationRequests /\ req[r] # Idle
           /\ locks[r] \in {1, 2} /\ locks = [locks EXCEPT ![r] = locks[r]]
           /\ req[r].at \notin {"check", "write"} => locks[r] = 1
BY DEF ChatInv, ChatTypeOK, Idle, Locked

LEMMA BeginKeeps ==
    ASSUME ChatInv, NEW r \in Requests, Begin(r) PROVE ChatInv'
<1>1. PICK kind \in Kinds, c \in Conversations, s \in Scopes :
        /\ req[r] = Idle /\ RLock(r)
        /\ req' = [req EXCEPT ![r] = [at |-> First(kind), kind |-> kind, conversation |-> c,
                                      record |-> Conversation(s, FALSE)]]
        /\ UNCHANGED <<saved, writer, behind, cleared>>
  BY DEF Begin
<1> DEFINE new == [at |-> First(kind), kind |-> kind, conversation |-> c,
                   record |-> Conversation(s, FALSE)]
<1>2. First(kind) \in {"validate", "check", "delete", "header"}
  BY DEF First
<1>3. new \in ConversationRequests /\ new.at \notin {"messages", "write"}
  BY <1>2 DEF ConversationRequests, Conversation, ConversationRecords
<1>4. locks' = [locks EXCEPT ![r] = 1]
  <2>1. locks[r] = 0
    BY <1>1 DEF ChatInv, Locked
  <2> QED BY <1>1, <2>1 DEF RLock
<1>5. req' = [req EXCEPT ![r] = new]
  BY <1>1
<1> HIDE DEF new
<1> QED BY <1>1, <1>3, <1>4, <1>5, GoesOn DEF ChatInv, ChatTypeOK

LEMMA ReadHeaderKeeps ==
    ASSUME ChatInv, NEW r \in Requests, ReadHeader(r) PROVE ChatInv'
<1> DEFINE c == req[r].conversation
           new == [req[r] EXCEPT !.at = "messages", !.record = saved[c]]
<1>1. req[r].at = "header" /\ UNCHANGED <<saved, writer>>
  BY DEF ReadHeader
<1>2. CASE Unlock(r)
  BY <1>1, <1>2, GivesUp
<1>3. CASE /\ saved[c] # Missing
           /\ req' = [req EXCEPT ![r].at = "messages", ![r].record = saved[c]]
           /\ UNCHANGED <<locks, behind, cleared>>
  <2>1. req[r] \in ConversationRequests /\ locks[r] = 1 /\ locks = [locks EXCEPT ![r] = locks[r]]
    BY <1>1, Working
  <2>2. saved[c] \in ConversationRecords
    BY <1>3, <2>1 DEF ChatInv, ChatTypeOK, ConversationRequests
  <2>3. /\ new \in ConversationRequests /\ new.at = "messages"
        /\ new.record = saved[c] /\ new.conversation = c
    BY <2>1, <2>2 DEF ConversationRequests
  <2>4. req' = [req EXCEPT ![r] = new]
    BY <1>3
  <2> HIDE DEF new
  <2>5. locks' = [locks EXCEPT ![r] = 1] /\ writer' \in {"free", "locked"}
    BY <1>1, <1>3, <2>1 DEF ChatInv, ChatTypeOK
  <2>6. UNCHANGED <<saved, behind, cleared>>
    BY <1>1, <1>3
  <2> QED BY <2>3, <2>4, <2>5, <2>6, GoesOn
<1> QED BY <1>2, <1>3 DEF ReadHeader

\* A step that only moves a request on, to a stage without obligations.
LEMMA ProceedKeeps ==
    ASSUME ChatInv, NEW r \in Requests, req[r].at # "idle",
           NEW at \in {"validate", "generate", "lock"}, req[r].at \notin {"check", "write"},
           Proceed(r, at), UNCHANGED <<saved, writer, locks, behind, cleared>>
    PROVE  ChatInv'
<1> DEFINE new == [req[r] EXCEPT !.at = at]
<1>1. req[r] \in ConversationRequests /\ locks[r] = 1 /\ locks = [locks EXCEPT ![r] = locks[r]]
  BY Working
<1>2. new \in ConversationRequests /\ new.at = at
  BY <1>1 DEF ConversationRequests
<1>3. req' = [req EXCEPT ![r] = new]
  BY DEF Proceed
<1> HIDE DEF new
<1> QED BY <1>1, <1>2, <1>3, GoesOn DEF ChatInv, ChatTypeOK

LEMMA ReadMessagesKeeps ==
    ASSUME ChatInv, NEW r \in Requests, ReadMessages(r) PROVE ChatInv'
<1> DEFINE new == [req[r] EXCEPT !.at = "write"]
<1>1. req[r].at = "messages" /\ UNCHANGED <<saved, writer>>
  BY DEF ReadMessages
<1>2. CASE Unlock(r)
  BY <1>1, <1>2, GivesUp
<1>3. CASE ~Unlock(r) /\ req[r].kind = "regenerate"
  BY <1>1, <1>3, ProceedKeeps DEF ReadMessages
<1>4. CASE ~Unlock(r) /\ req[r].kind # "regenerate"
  <2>1. req[r] \in ConversationRequests /\ locks[r] = 1 /\ locks = [locks EXCEPT ![r] = locks[r]]
        /\ req[r] # Idle
    BY <1>1, Working
  <2>2. /\ new \in ConversationRequests /\ new.at = "write"
        /\ new.record = req[r].record /\ new.conversation = req[r].conversation
    BY <2>1 DEF ConversationRequests
  <2>3. /\ req' = [req EXCEPT ![r] = new]
        /\ UNCHANGED <<locks, behind, cleared>>
    BY <1>4 DEF ReadMessages, Proceed
  <2>4. r \notin behind => saved[new.conversation] = new.record
    BY <1>1, <2>1, <2>2 DEF ChatInv, Current
  <2> HIDE DEF new
  <2> QED BY <1>1, <2>1, <2>2, <2>3, <2>4, GoesOn DEF ChatInv, ChatTypeOK
<1> QED BY <1>2, <1>3, <1>4

LEMMA CheckScopeKeeps ==
    ASSUME ChatInv, NEW r \in Requests, CheckScope(r) PROVE ChatInv'
<1> DEFINE record0 == Conversation(req[r].record.scope, FALSE)
           new == [req[r] EXCEPT !.at = "write", !.record = record0]
<1>1. req[r].at = "check" /\ UNCHANGED <<saved, writer>>
  BY DEF CheckScope
<1>2. CASE Unlock(r)
  BY <1>1, <1>2, GivesUp
<1>3. CASE /\ Checked(req[r].conversation, req[r].record)
           /\ req' = [req EXCEPT ![r].at = "write", ![r].record = Conversation(@.scope, FALSE)]
           /\ UNCHANGED <<locks, behind, cleared>>
  <2>1. req[r] \in ConversationRequests /\ locks[r] \in {1, 2} /\ locks = [locks EXCEPT ![r] = locks[r]]
    BY <1>1, Working
  <2>2. record0 \in ConversationRecords
    BY <2>1 DEF ConversationRequests, ConversationRecords, Conversation
  <2>3. req' = [req EXCEPT ![r] = new]
    BY <1>3
  <2>4. /\ new \in ConversationRequests /\ new.at = "write"
        /\ new.record = record0 /\ new.conversation = req[r].conversation
    BY <2>1, <2>2 DEF ConversationRequests
  <2>5. saved[new.conversation] \in {Missing, new.record}
    BY <1>3, <2>2, <2>4 DEF Checked, Admits
  <2> HIDE DEF new
  <2>6. locks' = [locks EXCEPT ![r] = locks[r]] /\ writer' \in {"free", "locked"}
    BY <1>1, <1>3, <2>1 DEF ChatInv, ChatTypeOK
  <2>7. UNCHANGED <<saved, behind, cleared>>
    BY <1>1, <1>3
  <2> QED BY <2>1, <2>3, <2>4, <2>5, <2>6, <2>7, GoesOn
<1> QED BY <1>2, <1>3 DEF CheckScope

LEMMA LockAgainKeeps ==
    ASSUME ChatInv, NEW r \in Requests, LockAgain(r) PROVE ChatInv'
<1> DEFINE new == [req[r] EXCEPT !.at = "check"]
<1>1. req[r].at = "lock" /\ UNCHANGED <<saved, writer, behind, cleared>>
  BY DEF LockAgain
<1>2. req[r] \in ConversationRequests /\ locks[r] = 1
  BY <1>1, Working
<1>3. new \in ConversationRequests /\ new.at = "check"
  BY <1>2 DEF ConversationRequests
<1>4. req' = [req EXCEPT ![r] = new] /\ locks' = [locks EXCEPT ![r] = 2]
  BY <1>2 DEF LockAgain, Proceed, RLock
<1> HIDE DEF new
<1> QED BY <1>1, <1>3, <1>4, GoesOn DEF ChatInv, ChatTypeOK

LEMMA WriteRecordKeeps ==
    ASSUME ChatInv, NEW r \in Requests, WriteRecord(r) PROVE ChatInv'
<1> DEFINE c == req[r].conversation
<1>1. req[r].at = "write" /\ writer' = writer
  BY DEF WriteRecord
<1>2. req[r] \in ConversationRequests
  BY <1>1, Working
<1>3. CASE Unlock(r) /\ UNCHANGED saved
  BY <1>1, <1>3, GivesUp
<1>4. CASE /\ saved' = [saved EXCEPT ![c] = req[r].record]
           /\ behind' = (behind \cup IF saved[c] # req[r].record THEN Others(r, c) ELSE {}) \ {r}
           /\ req' = [req EXCEPT ![r] = Idle]
           /\ locks' = [locks EXCEPT ![r] = 0]
           /\ cleared' = cleared \ {r}
  <2>1. /\ saved' \in [Conversations -> ConversationRecords \cup {Missing}]
        /\ behind' \subseteq Requests
    BY <1>2, <1>4 DEF ChatInv, ChatTypeOK, ConversationRequests, Others
  <2>2. ASSUME NEW q \in Requests \ {r}, req[q] # Idle, q \notin behind'
        PROVE  q \notin behind /\ saved'[req[q].conversation] = saved[req[q].conversation]
    <3>1. req[q].conversation \in Conversations
      BY <2>2 DEF ChatInv, ChatTypeOK, ConversationRequests
    <3> QED BY <1>4, <2>2, <3>1 DEF Others, ChatInv, ChatTypeOK
  <2> QED BY <1>1, <1>4, <2>1, <2>2, Ends
<1> QED BY <1>3, <1>4 DEF WriteRecord

LEMMA DeleteKeeps ==
    ASSUME ChatInv, NEW r \in Requests, DeleteConversation(r) PROVE ChatInv'
<1> DEFINE c == req[r].conversation
<1>1. req[r].at = "delete" /\ writer' = writer
  BY DEF DeleteConversation
<1>2. req[r] \in ConversationRequests
  BY <1>1, Working
<1>3. CASE Unlock(r) /\ UNCHANGED saved
  BY <1>1, <1>3, GivesUp
<1>4. CASE /\ saved' = [saved EXCEPT ![c] = Missing]
           /\ behind' = (behind \cup Others(r, c)) \ {r}
           /\ req' = [req EXCEPT ![r] = Idle]
           /\ locks' = [locks EXCEPT ![r] = 0]
           /\ cleared' = cleared \ {r}
  <2>1. /\ saved' \in [Conversations -> ConversationRecords \cup {Missing}]
        /\ behind' \subseteq Requests
    BY <1>2, <1>4 DEF ChatInv, ChatTypeOK, ConversationRequests, Others
  <2>2. ASSUME NEW q \in Requests \ {r}, req[q] # Idle, q \notin behind'
        PROVE  q \notin behind /\ saved'[req[q].conversation] = saved[req[q].conversation]
    <3>1. req[q].conversation \in Conversations
      BY <2>2 DEF ChatInv, ChatTypeOK, ConversationRequests
    <3> QED BY <1>4, <2>2, <3>1 DEF Others, ChatInv, ChatTypeOK
  <2> QED BY <1>1, <1>4, <2>1, <2>2, Ends
<1> QED BY <1>3, <1>4 DEF DeleteConversation

\* No request is at work when everything is cleared.
LEMMA ClearAllAlone ==
    ASSUME ChatInv, ClearAll
    PROVE  \A r \in Requests : req[r] = Idle
BY DEF ChatInv, ClearAll, NoReader, Locked

LEMMA ClearAllKeeps ==
    ASSUME ChatInv, ClearAll PROVE ChatInv'
<1>1. \A r \in Requests : req[r] = Idle
  BY ClearAllAlone
<1>2. saved' \in [Conversations -> ConversationRecords \cup {Missing}]
  BY DEF ClearAll, ChatInv, ChatTypeOK
<1>3. cleared' = {} /\ behind' \subseteq Requests
  BY <1>1 DEF ClearAll, ChatInv, ChatTypeOK
<1> QED BY <1>1, <1>2, <1>3 DEF ClearAll, ChatInv, ChatTypeOK, Locked, Current

LEMMA ChatInvNext == ChatInv /\ [ChatNext]_chatVars => ChatInv'
<1> SUFFICES ASSUME ChatInv, [ChatNext]_chatVars PROVE ChatInv'
  OBVIOUS
<1>1. CASE TryLock
  BY <1>1 DEF TryLock, ChatInv, ChatTypeOK, Locked, Current
<1>2. CASE ClearAll
  BY <1>2, ClearAllKeeps
<1>3. ASSUME NEW r \in Requests, Begin(r) PROVE ChatInv'
  BY <1>3, BeginKeeps
<1>4. ASSUME NEW r \in Requests, Step(r) PROVE ChatInv'
  <2>1. CASE Validate(r)
    BY <2>1, GivesUp, ProceedKeeps DEF Validate
  <2>2. CASE Generate(r)
    BY <2>2, GivesUp, ProceedKeeps DEF Generate
  <2> QED BY <1>4, <2>1, <2>2, ReadHeaderKeeps, ReadMessagesKeeps, LockAgainKeeps, CheckScopeKeeps,
             WriteRecordKeeps, DeleteKeeps DEF Step
<1>5. CASE UNCHANGED chatVars
  BY <1>5 DEF chatVars, ChatInv, ChatTypeOK, Locked, Current
<1> QED BY <1>1, <1>2, <1>3, <1>4, <1>5 DEF ChatNext
-----------------------------------------------------------------------------
\* The only step that stores a conversation is the write of a request's record.
LEMMA OnlyWrites ==
    ASSUME ChatInv, [ChatNext]_chatVars, NEW c \in Conversations,
           saved'[c] # saved[c], saved'[c] # Missing
    PROVE  \E r \in Requests :
             /\ req[r].at = "write" /\ req[r] # Idle /\ req[r].conversation = c
             /\ req'[r] = Idle /\ saved'[c] = req[r].record
<1>1. CASE ClearAll
  BY <1>1 DEF ClearAll
<1>2. ASSUME NEW r \in Requests, DeleteConversation(r) PROVE FALSE
  BY <1>2 DEF DeleteConversation, ChatInv, ChatTypeOK
<1>3. ASSUME NEW r \in Requests, WriteRecord(r)
      PROVE  /\ req[r].at = "write" /\ req[r] # Idle /\ req[r].conversation = c
             /\ req'[r] = Idle /\ saved'[c] = req[r].record
  <2>1. req[r].at = "write" /\ req[r] \in ConversationRequests /\ req[r] # Idle
    BY <1>3, Working DEF WriteRecord
  <2> QED BY <1>3, <2>1 DEF WriteRecord, ChatInv, ChatTypeOK
<1>4. CASE UNCHANGED saved
  BY <1>4
<1>5. \/ ClearAll \/ UNCHANGED saved
      \/ \E r \in Requests : WriteRecord(r) \/ DeleteConversation(r)
  BY DEF ChatNext, Step, TryLock, Begin, ReadHeader, ReadMessages, Validate, Generate, LockAgain,
         CheckScope, chatVars
<1> QED BY <1>1, <1>2, <1>3, <1>4, <1>5

\* Every variable stays in its domain; the lock is held at most twice.
THEOREM ChatTyped == ChatSpec => []ChatTypeOK
<1>1. ChatInv => ChatTypeOK
  BY DEF ChatInv
<1> QED BY ChatInvInit, ChatInvNext, <1>1, PTL DEF ChatSpec

\* No request that ran when all conversations were cleared brings one back.
THEOREM ClearsAreFinal == ChatSpec => ClearIsFinal
<1> DEFINE Final == \A c \in Conversations :
              saved'[c] # saved[c] /\ saved'[c] # Missing =>
                 \E r \in Requests \ cleared :
                    req[r] # Idle /\ req[r].conversation = c /\ req'[r] = Idle
<1>1. ChatInv /\ [ChatNext]_chatVars => [Final]_chatVars
  BY OnlyWrites DEF ChatInv
<1> QED BY ChatInvInit, ChatInvNext, <1>1, PTL DEF ChatSpec, ClearIsFinal

\* A conversation changes its scope, or one of an earlier version is continued, only
\* by a request that another one overtook.
THEOREM ScopesKept == ChatSpec => ScopeKept
<1> DEFINE Scoped == \A c \in Conversations :
              saved[c] # Missing /\ saved'[c] \notin {Missing, saved[c]} =>
                 \E r \in behind : req[r].conversation = c /\ req'[r] = Idle
<1>1. ChatInv /\ [ChatNext]_chatVars => [Scoped]_chatVars
  <2> SUFFICES ASSUME ChatInv, [ChatNext]_chatVars, NEW c \in Conversations,
                      saved[c] # Missing, saved'[c] \notin {Missing, saved[c]}
               PROVE  \E r \in behind : req[r].conversation = c /\ req'[r] = Idle
    OBVIOUS
  <2>1. PICK r \in Requests :
          /\ req[r].at = "write" /\ req[r] # Idle /\ req[r].conversation = c
          /\ req'[r] = Idle /\ saved'[c] = req[r].record
    BY OnlyWrites
  <2>2. r \in behind
    BY <2>1 DEF ChatInv, Current
  <2> QED BY <2>1, <2>2
<1> QED BY ChatInvInit, ChatInvNext, <1>1, PTL DEF ChatSpec, ScopeKept
-----------------------------------------------------------------------------
(* Evaluation datasets and their runs *)

Stores == [sets : [Datasets -> Contents], runs : SUBSET Runs]
Befores == [set : Contents, runs : SUBSET Runs]
Savings == [at : {"save", "undo"}, set : Datasets, ack : SUBSET Cases,
            stamp : 0..(MaxStamp + 1), before : Befores]
RunWorks == [at : {"run"}, set : Datasets, over : Scope, started : 1..MaxStamp]
Works == {Free} \cup [at : {"add", "saveRun"}] \cup [at : {"generate"}, over : Scope]
             \cup RunWorks \cup Savings
Saving(r) == doing[r].at \in {"save", "undo"}

EvalTypes ==
    /\ evals \in Stores /\ evalFile \in Stores
    /\ doing \in [EvalRequests -> Works]
    /\ stamp \in 0..MaxStamp /\ evalMode \in EvalModes /\ evalFaults \in 0..MaxEvalFaults
    /\ reported \in [Datasets -> [Cases -> 0..MaxStamp]]
    /\ dropped \in [started : SUBSET Datasets, done : SUBSET Datasets]
    /\ dropped.done \subseteq dropped.started

\* No two runs started with the same stamp, and no more are kept than the limit.
RunsSound(R, n, going) ==
    /\ IsFiniteSet(R) /\ Cardinality(OfBase(R)) <= RunLimit
    /\ \A x, y \in R : x.started = y.started => x = y
    /\ \A x \in R : x.started <= n /\ x.started \notin going
Going == {doing[r].started : r \in {q \in EvalRequests : doing[q].at = "run"}}
SoundRuns(R) == RunsSound(R, stamp, Going)

Starts ==
    \A r \in EvalRequests : doing[r].at = "run" =>
        /\ doing[r].started <= stamp
        /\ \A q \in EvalRequests : doing[q].at = "run" /\ doing[q].started = doing[r].started => q = r

\* What EvalsKept asks of memory, and of the file.
KeptOf(st, d) ==
    /\ d \in dropped.done => ~Exists(st, d)
    /\ d \notin dropped.started =>
          \A c \in Cases : reported[d][c] > 0 =>
              Exists(st, d) /\ st.sets[d].cases[c].stamp >= reported[d][c]
KeptIn(st) == \A d \in Datasets : KeptOf(st, d)

\* What a request is about to report as saved is in memory, or was changed since.
SaveSound(r) ==
    doing[r].at = "save" =>
        /\ doing[r].ack = {} => doing[r].set \in dropped.started /\ ~Exists(evals, doing[r].set)
        /\ doing[r].ack # {} =>
              /\ doing[r].stamp <= stamp
              /\ doing[r].set \notin dropped.started =>
                    /\ Exists(evals, doing[r].set)
                    /\ \A c \in doing[r].ack :
                          evals.sets[doing[r].set].cases[c].stamp >= doing[r].stamp

Alone ==
    /\ evalMode = "faultySaves" =>
          \A q, r \in EvalRequests : doing[q] # Free /\ doing[r] # Free => q = r
    /\ evalMode # "faultySaves" => \A r \in EvalRequests : doing[r].at # "undo"

\* Putting back the dataset as it was brings back what the file has.
Undoable(r) ==
    evalMode = "faultySaves" /\ Saving(r) =>
        /\ evalFile.sets = [evals.sets EXCEPT ![doing[r].set] = doing[r].before.set]
        /\ SoundRuns(evals.runs \cup doing[r].before.runs)

Synced == (\A r \in EvalRequests : ~Saving(r)) => evals.sets = evalFile.sets

EvalInv ==
    /\ EvalTypes /\ Starts /\ SoundRuns(evals.runs) /\ SoundRuns(evalFile.runs)
    /\ \A d \in Datasets, c \in Cases : reported[d][c] <= stamp
    /\ KeptIn(evals) /\ KeptIn(evalFile)
    /\ \A r \in EvalRequests : SaveSound(r) /\ Undoable(r)
    /\ Alone /\ Synced
-----------------------------------------------------------------------------
(* Types *)

LEMMA WorkTypes ==
    ASSUME NEW x \in Works
    PROVE  /\ x.at \in {"idle", "add", "saveRun", "generate", "run", "save", "undo"}
           /\ x.at = "idle" <=> x = Free
           /\ x.at = "generate" => x.over \in Scope
           /\ x.at = "run" => x \in RunWorks
           /\ x.at \in {"save", "undo"} => x \in Savings
BY DEF Works, Free, RunWorks, Savings

LEMMA FreeAt == Free \in Works /\ Free.at = "idle"
BY DEF Works, Free

LEMMA NoSetContent ==
    /\ NoSet \in Contents
    /\ \A x \in Contents : x # NoSet =>
          /\ x \in [kind : {"generated", "review"}, over : Scope, cases : [Cases -> CaseStates]]
          /\ x.over \in Scope
    /\ \A x \in [kind : {"generated", "review"}, over : Scope, cases : [Cases -> CaseStates]] :
          x \in Contents /\ x # NoSet
BY DEF Contents, NoSet

LEMMA OfBaseFinite ==
    ASSUME NEW R, IsFiniteSet(R)
    PROVE  /\ IsFiniteSet(OfBase(R)) /\ OfBase(R) \subseteq R
           /\ \A S : S \subseteq R => /\ IsFiniteSet(S) /\ OfBase(S) \subseteq OfBase(R)
                                      /\ Cardinality(OfBase(S)) <= Cardinality(OfBase(R))
<1>1. OfBase(R) \subseteq R
  BY DEF OfBase
<1>2. IsFiniteSet(OfBase(R))
  BY <1>1, FS_Subset
<1>3. ASSUME NEW S, S \subseteq R PROVE IsFiniteSet(S) /\ OfBase(S) \subseteq OfBase(R)
                                        /\ Cardinality(OfBase(S)) <= Cardinality(OfBase(R))
  <2>1. OfBase(S) \subseteq OfBase(R)
    BY <1>3 DEF OfBase
  <2> QED
    BY <1>2, <1>3, <2>1, FS_Subset
<1> QED
  BY <1>1, <1>2, <1>3

LEMMA EvalInvInit == EvalConstants /\ EvalInit => EvalInv
<1> SUFFICES ASSUME EvalConstants, EvalInit PROVE EvalInv
  OBVIOUS
<1>1. /\ evals = [sets |-> [d \in Datasets |-> NoSet], runs |-> {}] /\ evalFile = evals
      /\ doing = [r \in EvalRequests |-> Free] /\ stamp = 0 /\ evalFaults = 0
      /\ reported = [d \in Datasets |-> [c \in Cases |-> 0]]
      /\ dropped = [started |-> {}, done |-> {}] /\ evalMode \in EvalModes
  BY DEF EvalInit
<1>2. /\ MaxStamp \in Nat /\ MaxEvalFaults \in Nat /\ RunLimit \in Nat /\ 0 \in 0..MaxStamp
      /\ 0 \in 0..MaxEvalFaults
  BY DEF EvalConstants
<1>3. evals \in Stores
  BY <1>1, NoSetContent DEF Stores
<1>4. doing \in [EvalRequests -> Works] /\ \A r \in EvalRequests : doing[r].at = "idle"
  BY <1>1, FreeAt
<1>5. reported \in [Datasets -> [Cases -> 0..MaxStamp]] /\ \A d \in Datasets, c \in Cases : reported[d][c] = 0
  BY <1>1, <1>2
<1>6. EvalTypes
  BY <1>1, <1>2, <1>3, <1>4, <1>5 DEF EvalTypes
<1>7. RunsSound({}, 0, Going)
  <2>1. OfBase({}) = {}
    BY DEF OfBase
  <2>2. IsFiniteSet({}) /\ Cardinality({}) = 0
    BY FS_EmptySet
  <2> QED
    BY <1>2, <2>1, <2>2 DEF RunsSound
<1>8. KeptIn(evals) /\ KeptIn(evalFile)
  BY <1>1, <1>5 DEF KeptIn, KeptOf
<1>9. SoundRuns(evals.runs) /\ SoundRuns(evalFile.runs)
  BY <1>1, <1>7 DEF SoundRuns
<1>10. \A r \in EvalRequests : SaveSound(r) /\ Undoable(r)
  BY <1>4 DEF SaveSound, Undoable, Saving
<1>11. Alone /\ Synced /\ Starts
  BY <1>1, <1>4 DEF Alone, Synced, Starts
<1>12. \A d \in Datasets, c \in Cases : reported[d][c] <= stamp
  BY <1>1, <1>5
<1> QED
  BY <1>6, <1>8, <1>9, <1>10, <1>11, <1>12 DEF EvalInv
-----------------------------------------------------------------------------
(* Steps *)

\* A request that goes on to something else.
LEMMA GoesTo ==
    ASSUME EvalTypes, NEW r \in EvalRequests, NEW x \in Works, doing' = [doing EXCEPT ![r] = x]
    PROVE  /\ doing' \in [EvalRequests -> Works] /\ doing'[r] = x
           /\ \A q \in EvalRequests : q # r => doing'[q] = doing[q]
BY DEF EvalTypes

\* Runs stay sound when no run is started with their stamp.
LEMMA RunsStay ==
    ASSUME NEW R, NEW n \in Nat, NEW m \in Nat, n <= m, \A x \in R : x.started \in Nat,
           NEW going, NEW later, RunsSound(R, n, going), \A k \in later : k \in going \/ k = n + 1
    PROVE  RunsSound(R, m, later)
BY DEF RunsSound

LEMMA RunTypes == EvalConstants => \A R : R \subseteq Runs => \A x \in R : x.started \in Nat
BY DEF Runs, EvalConstants

LEMMA StartsStay ==
    ASSUME EvalTypes, Starts, stamp' >= stamp, stamp' \in Nat,
           \A q \in EvalRequests : doing'[q].at = "run" =>
               doing[q].at = "run" /\ doing'[q].started = doing[q].started
    PROVE  Starts'
<1>1. \A q \in EvalRequests : doing[q].at = "run" => doing[q].started \in Nat
  BY WorkTypes DEF EvalTypes, RunWorks
<1>2. stamp \in Nat
  BY DEF EvalTypes
<1> QED
  BY <1>1, <1>2 DEF Starts

\* A request that is alone.
LEMMA OthersFree ==
    ASSUME EvalTypes, Alone, evalMode = "faultySaves", NEW r \in EvalRequests, doing[r] # Free
    PROVE  \A q \in EvalRequests : q # r => doing[q] = Free
BY DEF Alone

LEMMA AloneStay ==
    ASSUME EvalTypes, Alone, NEW r \in EvalRequests, NEW x \in Works,
           doing' = [doing EXCEPT ![r] = x], evalMode' = evalMode,
           CanAsk(r) \/ doing[r] # Free, x.at = "undo" => evalMode = "faultySaves"
    PROVE  Alone'
<1>1. /\ doing'[r] = x /\ \A q \in EvalRequests : q # r => doing'[q] = doing[q]
  BY GoesTo
<1>2. evalMode = "faultySaves" => \A q \in EvalRequests : q # r => doing[q] = Free
  BY DEF Alone, CanAsk
<1>3. evalMode = "faultySaves" =>
          \A p, q \in EvalRequests : doing'[q] # Free /\ doing'[p] # Free => q = p
  BY <1>1, <1>2
<1>4. evalMode # "faultySaves" => \A q \in EvalRequests : doing'[q].at # "undo"
  BY <1>1 DEF Alone
<1> QED
  BY <1>3, <1>4 DEF Alone

\* What the datasets are is not touched, by a request that has nothing to save.
LEMMA QuietKeeps ==
    ASSUME EvalConstants, EvalInv, NEW r \in EvalRequests, NEW x \in Works,
           doing' = [doing EXCEPT ![r] = x], ~Saving(r), x.at \notin {"save", "undo"},
           UNCHANGED <<evals, dropped>>, Aside,
           CanAsk(r) \/ doing[r] # Free,
           \/ stamp' = stamp /\ x.at # "run"
           \/ Stamped /\ x.at = "run" /\ x.started = stamp + 1
    PROVE  EvalInv'
<1>0. /\ EvalTypes /\ Starts /\ SoundRuns(evals.runs) /\ SoundRuns(evalFile.runs)
      /\ \A d \in Datasets, c \in Cases : reported[d][c] <= stamp
      /\ KeptIn(evals) /\ KeptIn(evalFile) /\ Alone /\ Synced
      /\ \A q \in EvalRequests : SaveSound(q) /\ Undoable(q)
      /\ UNCHANGED <<evals, evalFile, evalMode, evalFaults, reported, dropped>>
  BY DEF EvalInv, Aside
<1>1. /\ doing' \in [EvalRequests -> Works] /\ doing'[r] = x
      /\ \A q \in EvalRequests : q # r => doing'[q] = doing[q]
  BY <1>0, GoesTo
<1>2. /\ stamp \in Nat /\ stamp' \in Nat /\ stamp' >= stamp /\ stamp' \in 0..MaxStamp
      /\ x.at = "run" => stamp' = stamp + 1 /\ x.started = stamp + 1
  <2>1. stamp \in 0..MaxStamp /\ MaxStamp \in Nat
    BY <1>0 DEF EvalTypes, EvalConstants
  <2> QED
    BY <2>1 DEF Stamped
<1>3. EvalTypes'
  BY <1>0, <1>1, <1>2 DEF EvalTypes
<1>4. \A q \in EvalRequests : doing'[q].at = "run" =>
          \/ doing[q].at = "run" /\ doing'[q].started = doing[q].started /\ q # r
          \/ doing'[q].started = stamp + 1 /\ q = r /\ stamp' = stamp + 1
  BY <1>1, <1>2
<1>a. \A k \in Going' : k \in Going \/ k = stamp + 1
  BY <1>4 DEF Going
<1>5. SoundRuns(evals.runs)' /\ SoundRuns(evalFile.runs)'
  <2>1. \A R : R \subseteq Runs /\ SoundRuns(R) => RunsSound(R, stamp', Going')
    BY <1>2, <1>a, RunsStay, RunTypes DEF SoundRuns
  <2>2. evals.runs \subseteq Runs /\ evalFile.runs \subseteq Runs
    BY <1>0 DEF EvalTypes, Stores
  <2> QED
    BY <1>0, <2>1, <2>2 DEF SoundRuns
<1>6. Starts'
  <2>1. \A q \in EvalRequests : doing[q].at = "run" => doing[q].started \in Nat /\ doing[q].started <= stamp
    BY <1>0, WorkTypes DEF EvalTypes, RunWorks, Starts
  <2> SUFFICES ASSUME NEW q \in EvalRequests, doing'[q].at = "run"
               PROVE  /\ doing'[q].started <= stamp'
                      /\ \A p \in EvalRequests :
                            doing'[p].at = "run" /\ doing'[p].started = doing'[q].started => p = q
    BY DEF Starts
  <2>2. doing'[q].started <= stamp'
    BY <1>2, <1>4, <2>1
  <2>3. ASSUME NEW p \in EvalRequests, doing'[p].at = "run", doing'[p].started = doing'[q].started
        PROVE  p = q
    <3>1. CASE p # r /\ q # r
      <4>1. doing'[p] = doing[p] /\ doing'[q] = doing[q]
        BY <1>1, <3>1
      <4> QED
        BY <1>0, <2>3, <4>1 DEF Starts
    <3>2. CASE (p = r) # (q = r)
      <4>1. doing'[p].started # doing'[q].started
        BY <1>2, <1>4, <2>1, <2>3, <3>2
      <4> QED
        BY <2>3, <4>1
    <3> QED
      BY <3>1, <3>2
  <2> QED
    BY <2>2, <2>3
<1>7. Alone'
  BY <1>0, AloneStay
<1>8. \A q \in EvalRequests : Saving(q)' => q # r /\ Saving(q)
  BY <1>1 DEF Saving
<1>9. \A q \in EvalRequests : Saving(q) => Saving(q)'
  BY <1>1 DEF Saving
<1>10. Synced'
  BY <1>0, <1>9 DEF Synced
<1>11. KeptIn(evals)' /\ KeptIn(evalFile)'
  BY <1>0 DEF KeptIn, KeptOf, Exists
<1>12. ASSUME NEW q \in EvalRequests PROVE SaveSound(q)'
  <2>1. CASE doing'[q].at = "save"
    <3>1. doing'[q] = doing[q]
      BY <1>1, <1>8, <2>1 DEF Saving
    <3>2. SaveSound(q) /\ evals' = evals /\ dropped' = dropped /\ doing[q].at = "save"
      BY <1>0, <2>1, <3>1
    <3>3. doing[q].stamp \in Int /\ (doing[q].stamp <= stamp => doing[q].stamp <= stamp')
      <4>1. doing[q] \in Savings
        BY <1>0, <3>2, WorkTypes DEF EvalTypes
      <4>2. doing[q].stamp \in Int
        BY <4>1 DEF Savings
      <4> QED
        BY <1>2, <4>2
    <3> QED
      BY <3>1, <3>2, <3>3 DEF SaveSound, Exists
  <2>2. CASE doing'[q].at # "save"
    BY <2>2 DEF SaveSound
  <2> QED
    BY <2>1, <2>2
<1>13. ASSUME NEW q \in EvalRequests PROVE Undoable(q)'
  <2> SUFFICES ASSUME evalMode' = "faultySaves", Saving(q)' PROVE Undoable(q)'
    BY DEF Undoable
  <2>1. q # r /\ Saving(q) /\ evalMode = "faultySaves"
    BY <1>0, <1>8
  <2>2. doing[q] # Free /\ (doing[r] # Free \/ CanAsk(r))
    BY <2>1 DEF Saving, Free
  <2> QED
    BY <1>0, <2>1, <2>2 DEF Alone, CanAsk
<1>14. \A d \in Datasets, c \in Cases : reported'[d][c] <= stamp'
  BY <1>0, <1>2 DEF EvalTypes
<1> QED
  BY <1>3, <1>5, <1>6, <1>7, <1>10, <1>11, <1>12, <1>13, <1>14 DEF EvalInv
-----------------------------------------------------------------------------
(* Changes *)

\* A request that is alone finds memory and file the same.
LEMMA SyncedAlone ==
    ASSUME EvalInv, evalMode = "faultySaves", NEW r \in EvalRequests, ~Saving(r), CanAsk(r) \/ doing[r] # Free
    PROVE  /\ evals.sets = evalFile.sets
           /\ \A q \in EvalRequests : q # r => doing[q] = Free
<1>1. \A q \in EvalRequests : q # r => doing[q] = Free
  BY DEF EvalInv, Alone, CanAsk
<1>2. \A q \in EvalRequests : ~Saving(q)
  BY <1>1 DEF Saving, Free
<1> QED
  BY <1>1, <1>2 DEF EvalInv, Synced

\* A request that begins to save.
LEMMA SavingStep ==
    ASSUME EvalConstants, EvalInv, NEW r \in EvalRequests, NEW x \in Savings, x.at = "save",
           doing' = [doing EXCEPT ![r] = x], ~Saving(r), CanAsk(r) \/ doing[r] # Free,
           stamp' \in 0..MaxStamp, stamp <= stamp', evals' \in Stores, Aside,
           evals'.runs \subseteq evals.runs,
           dropped' \in [started : SUBSET Datasets, done : SUBSET Datasets],
           dropped'.done = dropped.done, dropped.started \subseteq dropped'.started,
           \A q \in EvalRequests : q # r => SaveSound(q)', SaveSound(r)',
           KeptIn(evals)', KeptIn(evalFile)',
           evalMode = "faultySaves" =>
               /\ evals.sets = [evals'.sets EXCEPT ![x.set] = x.before.set]
               /\ evals'.runs \cup x.before.runs = evals.runs
    PROVE  EvalInv'
<1>0. /\ EvalTypes /\ Starts /\ SoundRuns(evals.runs) /\ SoundRuns(evalFile.runs)
      /\ \A d \in Datasets, c \in Cases : reported[d][c] <= stamp
      /\ Alone
      /\ UNCHANGED <<evalFile, evalMode, evalFaults, reported>>
  BY DEF EvalInv, Aside
<1>1. x \in Works
  BY DEF Works
<1>2. /\ doing' \in [EvalRequests -> Works] /\ doing'[r] = x
      /\ \A q \in EvalRequests : q # r => doing'[q] = doing[q]
  BY <1>0, <1>1, GoesTo
<1>3. stamp \in Nat /\ stamp' \in Nat
  BY <1>0 DEF EvalTypes
<1>4. EvalTypes'
  BY <1>0, <1>2 DEF EvalTypes
<1>5. \A q \in EvalRequests : doing'[q].at = "run" =>
          doing[q].at = "run" /\ doing'[q].started = doing[q].started
  BY <1>2
<1>6. Starts'
  BY <1>0, <1>3, <1>5, StartsStay
<1>7. \A k \in Going' : k \in Going
  BY <1>5 DEF Going
<1>8. \A R : R \subseteq Runs /\ SoundRuns(R) => RunsSound(R, stamp', Going')
  BY <1>3, <1>7, RunsStay, RunTypes DEF SoundRuns
<1>9. evals.runs \subseteq Runs /\ evalFile.runs \subseteq Runs
  BY <1>0 DEF EvalTypes, Stores
<1>10. RunsSound(evals.runs, stamp', Going') /\ RunsSound(evalFile.runs, stamp', Going')
  BY <1>0, <1>8, <1>9
<1>11. SoundRuns(evals.runs)' /\ SoundRuns(evalFile.runs)'
  <2>1. RunsSound(evals.runs, stamp', Going') => RunsSound(evals'.runs, stamp', Going')
    <3>1. IsFiniteSet(evals.runs) => IsFiniteSet(evals'.runs)
                                     /\ Cardinality(OfBase(evals'.runs)) <= Cardinality(OfBase(evals.runs))
      BY OfBaseFinite
    <3>2. IsFiniteSet(evals.runs) =>
              Cardinality(OfBase(evals'.runs)) \in Nat /\ Cardinality(OfBase(evals.runs)) \in Nat
      BY <3>1, OfBaseFinite, FS_CardinalityType
    <3>3. RunLimit \in Nat
      BY DEF EvalConstants
    <3> QED
      BY <3>1, <3>2, <3>3 DEF RunsSound
  <2> QED
    BY <1>0, <1>10, <2>1 DEF SoundRuns
<1>12. Alone'
  BY <1>0, <1>1, AloneStay
<1>13. Synced'
  BY <1>2 DEF Synced, Saving
<1>14. Undoable(r)'
  <2> SUFFICES ASSUME evalMode = "faultySaves" PROVE Undoable(r)'
    BY <1>0 DEF Undoable
  <2>1. evals.sets = evalFile.sets
    BY SyncedAlone
  <2>2. SoundRuns(evals.runs \cup doing[r].before.runs)'
    BY <1>2, <1>10 DEF SoundRuns
  <2> QED
    BY <1>0, <1>2, <2>1, <2>2 DEF Undoable
<1>15. ASSUME NEW q \in EvalRequests, q # r PROVE Undoable(q)'
  <2>1. evalMode = "faultySaves" => doing'[q] = Free
    BY <1>2, <1>15, SyncedAlone
  <2> QED
    BY <1>0, <2>1 DEF Undoable, Saving, Free
<1>16. \A d \in Datasets, c \in Cases : reported'[d][c] <= stamp'
  <2>1. \A d \in Datasets, c \in Cases : reported[d][c] \in Nat
    BY <1>0 DEF EvalTypes
  <2> QED
    BY <1>0, <1>3, <2>1
<1> QED
  BY <1>4, <1>6, <1>11, <1>12, <1>13, <1>14, <1>15, <1>16 DEF EvalInv

\* Changed or new items of a dataset.
LEMMA ContentKeeps ==
    ASSUME EvalConstants, EvalInv, NEW r \in EvalRequests, NEW d \in Datasets,
           NEW new \in [kind : {"generated", "review"}, over : Scope, cases : [Cases -> CaseStates]],
           NEW ack \in SUBSET Cases, ack # {},
           ~Saving(r), CanAsk(r) \/ doing[r] # Free, Stamped,
           evals' = [evals EXCEPT !.sets[d] = new],
           ToSave(r, d, Was(d, {}), ack), UNCHANGED dropped, Aside,
           Exists(evals, d) \/ d \in Untaken,
           \A c \in ack : new.cases[c].stamp = stamp + 1,
           Exists(evals, d) => \A c \in Cases : c \in ack \/ new.cases[c] = evals.sets[d].cases[c]
    PROVE  EvalInv'
<1> DEFINE x == [at |-> "save", set |-> d, ack |-> ack, stamp |-> stamp + 1, before |-> Was(d, {})]
<1>0. /\ EvalTypes /\ \A e \in Datasets, c \in Cases : reported[e][c] <= stamp
      /\ KeptIn(evals) /\ KeptIn(evalFile) /\ \A q \in EvalRequests : SaveSound(q)
      /\ UNCHANGED <<evalFile, evalMode, evalFaults, reported, dropped>>
  BY DEF EvalInv, Aside
<1>1. stamp \in Nat /\ stamp' = stamp + 1 /\ stamp' \in 0..MaxStamp /\ stamp' \in 0..(MaxStamp + 1) /\ stamp <= stamp'
  <2>1. stamp \in 0..MaxStamp /\ MaxStamp \in Nat
    BY <1>0 DEF EvalTypes, EvalConstants
  <2> QED
    BY <2>1 DEF Stamped
<1>2. evals \in Stores /\ evals.sets[d] \in Contents /\ new \in Contents /\ new # NoSet
  BY <1>0, NoSetContent DEF EvalTypes, Stores
<1>3. /\ evals'.sets = [evals.sets EXCEPT ![d] = new] /\ evals'.runs = evals.runs
      /\ evals' \in Stores
  BY <1>2 DEF Stores
<1>4. evals'.sets[d] = new /\ \A e \in Datasets : e # d => evals'.sets[e] = evals.sets[e]
  BY <1>2, <1>3 DEF Stores
<1>5. Was(d, {}) = [set |-> evals.sets[d], runs |-> {}] /\ Was(d, {}) \in Befores
  BY <1>2 DEF Was, Befores
<1>6. x \in Savings /\ x.at = "save" /\ x.set = d /\ x.ack = ack /\ x.stamp = stamp + 1
      /\ x.before = [set |-> evals.sets[d], runs |-> {}]
  BY <1>1, <1>5 DEF Savings
<1>7. doing' = [doing EXCEPT ![r] = x]
  BY DEF ToSave
<1> HIDE DEF x
<1>8. /\ doing'[r] = x /\ \A q \in EvalRequests : q # r => doing'[q] = doing[q]
  BY <1>0, <1>6, <1>7, GoesTo DEF Works
<1>9. d \in Untaken => /\ d \notin dropped.started /\ ~Exists(evals, d)
                        /\ \A c \in Cases : reported[d][c] = 0
                        /\ \A q \in EvalRequests : Saving(q) => doing[q].set # d
  BY DEF Untaken, Saving
<1>10. Exists(evals', d) /\ \A e \in Datasets : e # d => (Exists(evals', e) <=> Exists(evals, e))
  BY <1>2, <1>4 DEF Exists
<1>11. \A e \in Datasets, c \in Cases : reported[e][c] \in Nat
  BY <1>0 DEF EvalTypes
<1>12. \A e \in Datasets : KeptOf(evals', e)
  <2> TAKE e \in Datasets
  <2>1. KeptOf(evals, e)
    BY <1>0 DEF KeptIn
  <2>2. CASE e # d
    BY <1>4, <1>10, <2>1, <2>2 DEF KeptOf
  <2>3. CASE e = d
    <3>1. d \notin dropped.done
      BY <1>0, <1>9, <2>1, <2>3 DEF KeptOf, EvalTypes
    <3>2. ASSUME d \notin dropped.started, NEW c \in Cases, reported[d][c] > 0
          PROVE  new.cases[c].stamp >= reported[d][c]
      <4>1. Exists(evals, d)
        BY <1>9, <3>2
      <4>2. CASE c \in ack
        <5>1. new.cases[c].stamp = stamp + 1 /\ reported[d][c] <= stamp
          BY <1>0, <4>2
        <5> QED
          BY <1>1, <1>11, <5>1
      <4>3. CASE c \notin ack
        BY <2>1, <2>3, <3>2, <4>1, <4>3 DEF KeptOf
      <4> QED
        BY <4>2, <4>3
    <3> QED
      BY <1>0, <1>4, <1>10, <2>3, <3>1, <3>2 DEF KeptOf
  <2> QED
    BY <2>2, <2>3
<1>13. KeptIn(evals)' /\ KeptIn(evalFile)'
  <2>1. KeptIn(evals)'
    BY <1>0, <1>12 DEF KeptIn, KeptOf, Exists
  <2>2. KeptIn(evalFile)'
    BY <1>0 DEF KeptIn, KeptOf, Exists
  <2> QED
    BY <2>1, <2>2
<1>14. SaveSound(r)'
  <2>1. x.stamp <= stamp'
    BY <1>1, <1>6
  <2>2. \A c \in ack : new.cases[c].stamp >= x.stamp
    BY <1>1, <1>6
  <2> QED
    BY <1>4, <1>6, <1>8, <1>10, <2>1, <2>2 DEF SaveSound, Exists
<1>15. ASSUME NEW q \in EvalRequests, q # r PROVE SaveSound(q)'
  <2> SUFFICES ASSUME doing[q].at = "save" PROVE SaveSound(q)'
    BY <1>8, <1>15 DEF SaveSound
  <2>0. doing'[q] = doing[q] /\ SaveSound(q)
    BY <1>0, <1>8, <1>15
  <2> DEFINE e == doing[q].set
  <2>1. e \in Datasets /\ doing[q].stamp \in Nat /\ doing[q].ack \in SUBSET Cases
    <3>1. doing[q] \in Savings
      BY <1>0, WorkTypes DEF EvalTypes
    <3> QED
      BY <3>1, <1>1 DEF Savings
  <2>2. doing[q].stamp <= stamp => doing[q].stamp <= stamp'
    BY <1>1, <2>1, SMTT(40)
  <2>3. CASE e # d
    <3>1. evals'.sets[e] = evals.sets[e] /\ (Exists(evals', e) <=> Exists(evals, e))
      BY <1>4, <1>10, <2>1, <2>3
    <3> QED
      BY <1>0, <2>0, <2>2, <3>1 DEF SaveSound, Exists
  <2>4. CASE e = d
    <3>1. Exists(evals, d)
      BY <1>9, <2>4 DEF Saving
    <3>2. doing[q].ack # {} /\ doing[q].stamp <= stamp
      BY <2>0, <2>4, <3>1 DEF SaveSound
    <3>3. ASSUME NEW c \in doing[q].ack, d \notin dropped.started
          PROVE  new.cases[c].stamp >= doing[q].stamp
      <4>1. CASE c \in ack
        <5>1. new.cases[c].stamp = stamp + 1
          BY <4>1
        <5> QED
          BY <1>1, <2>1, <3>2, <5>1
      <4>2. CASE c \notin ack
        <5>1. new.cases[c] = evals.sets[d].cases[c]
          BY <2>1, <3>1, <4>2
        <5>2. evals.sets[d].cases[c].stamp >= doing[q].stamp
          BY <2>0, <2>4, <3>2, <3>3 DEF SaveSound
        <5> QED
          BY <5>1, <5>2
      <4> QED
        BY <4>1, <4>2
    <3> QED
      BY <1>0, <1>4, <1>10, <2>0, <2>2, <2>4, <3>2, <3>3 DEF SaveSound, Exists
  <2> QED
    BY <2>3, <2>4
<1>16. /\ evals.sets = [evals'.sets EXCEPT ![x.set] = x.before.set]
       /\ evals'.runs \cup x.before.runs = evals.runs
  <2>1. evals.sets = [evals'.sets EXCEPT ![d] = evals.sets[d]]
    BY <1>2, <1>3 DEF Stores
  <2> QED
    BY <1>3, <1>6, <2>1
<1> QED
  <2>1. dropped' \in [started : SUBSET Datasets, done : SUBSET Datasets]
        /\ dropped'.done = dropped.done /\ dropped.started \subseteq dropped'.started
        /\ evals'.runs \subseteq evals.runs
    BY <1>0, <1>3 DEF EvalTypes
  <2> QED
    BY <1>1, <1>3, <1>6, <1>7, <1>13, <1>14, <1>15, <1>16, <2>1, SavingStep

LEMMA CaseStamp ==
    ASSUME EvalConstants, EvalTypes, Stamped, NEW there \in BOOLEAN
    PROVE  [stamp |-> stamp + 1, there |-> there] \in CaseStates /\ NoCase \in CaseStates
<1>1. stamp + 1 \in 0..MaxStamp /\ 0 \in 0..MaxStamp
  BY DEF EvalTypes, EvalConstants, Stamped
<1> QED
  BY <1>1 DEF CaseStates, NoCase

LEMMA WithCaseType ==
    ASSUME EvalConstants, EvalTypes, Stamped, NEW c \in Cases, NEW there \in BOOLEAN,
           NEW prior \in [kind : {"generated", "review"}, over : Scope, cases : [Cases -> CaseStates]]
    PROVE  /\ WithCase(prior, c, there)
                 \in [kind : {"generated", "review"}, over : Scope, cases : [Cases -> CaseStates]]
           /\ WithCase(prior, c, there).cases[c].stamp = stamp + 1
           /\ \A b \in Cases : b # c => WithCase(prior, c, there).cases[b] = prior.cases[b]
<1> DEFINE item == [stamp |-> stamp + 1, there |-> there]
<1>1. item \in CaseStates /\ item.stamp = stamp + 1
  BY CaseStamp
<1>2. WithCase(prior, c, there) = [prior EXCEPT !.cases = [prior.cases EXCEPT ![c] = item]]
  BY DEF WithCase
<1> HIDE DEF item
<1>3. /\ [prior.cases EXCEPT ![c] = item] \in [Cases -> CaseStates]
      /\ [prior.cases EXCEPT ![c] = item][c] = item
      /\ \A b \in Cases : b # c => [prior.cases EXCEPT ![c] = item][b] = prior.cases[b]
  BY <1>1
<1> QED
  BY <1>1, <1>2, <1>3

LEMMA FreeIsNotSaving == \A r : doing[r] = Free => ~Saving(r) /\ doing[r].at = "idle"
BY DEF Saving, Free

LEMMA InsertKeeps ==
    ASSUME EvalConstants, EvalInv, NEW r \in EvalRequests, NEW d \in Datasets,
           NEW chosen \in SUBSET Cases, InsertDataset(r, d, chosen)
    PROVE  EvalInv'
<1> DEFINE cases == [c \in Cases |-> IF c \in chosen THEN [stamp |-> stamp + 1, there |-> TRUE]
                                    ELSE NoCase]
           new == NewSet("generated", doing[r].over, cases)
<1>1. /\ doing[r].at = "generate" /\ d \in Untaken /\ chosen # {} /\ Stamped
      /\ evals' = [evals EXCEPT !.sets[d] = new] /\ ToSave(r, d, Nowhere, chosen)
      /\ UNCHANGED dropped /\ Aside /\ EvalTypes
  BY DEF InsertDataset, EvalInv
<1>2. doing[r].over \in Scope /\ ~Saving(r) /\ doing[r] # Free
  BY <1>1, WorkTypes, FreeIsNotSaving DEF EvalTypes, Saving
<1>3. cases \in [Cases -> CaseStates] /\ \A c \in chosen : cases[c].stamp = stamp + 1
  <2>1. [stamp |-> stamp + 1, there |-> TRUE] \in CaseStates /\ NoCase \in CaseStates
    BY <1>1, CaseStamp
  <2> QED
    BY <2>1
<1> HIDE DEF cases
<1>4. new \in [kind : {"generated", "review"}, over : Scope, cases : [Cases -> CaseStates]]
      /\ new.cases = cases
  BY <1>2, <1>3 DEF NewSet
<1> HIDE DEF new
<1>5. ~Exists(evals, d) /\ Nowhere = Was(d, {})
  BY <1>1 DEF Untaken, Exists, Was, Nowhere
<1>6. ToSave(r, d, Was(d, {}), chosen)
  BY <1>1, <1>5
<1> QED
  BY <1>1, <1>2, <1>3, <1>4, <1>5, <1>6, ContentKeeps

LEMMA AddKeeps ==
    ASSUME EvalConstants, EvalInv, NEW r \in EvalRequests, NEW d \in Datasets,
           NEW c \in Cases, AddCandidate(r, d, c)
    PROVE  EvalInv'
<1> DEFINE prior == IF Review = {} THEN NewSet("review", "base", Absentee) ELSE evals.sets[d]
           new == WithCase(prior, c, TRUE)
<1>1. /\ doing[r].at = "add" /\ d \in (IF Review = {} THEN Untaken ELSE Review) /\ Stamped
      /\ evals' = [evals EXCEPT !.sets[d] = new] /\ ToSave(r, d, Was(d, {}), {c})
      /\ UNCHANGED dropped /\ Aside /\ EvalTypes
  BY DEF AddCandidate, EvalInv
<1>2. ~Saving(r) /\ doing[r] # Free
  BY <1>1, FreeIsNotSaving DEF Saving
<1>3. evals.sets[d] \in Contents
  BY <1>1 DEF EvalTypes, Stores
<1>4. prior \in [kind : {"generated", "review"}, over : Scope, cases : [Cases -> CaseStates]]
  <2>1. CASE Review = {}
    <3>1. NoCase \in CaseStates
      BY <1>1, CaseStamp
    <3> QED
      BY <2>1, <3>1 DEF NewSet, Absentee, Scope
  <2>2. CASE Review # {}
    BY <1>1, <1>3, <2>2, NoSetContent DEF Review
  <2> QED
    BY <2>1, <2>2
<1>5. (d \in Untaken /\ ~Exists(evals, d)) \/ (Exists(evals, d) /\ prior = evals.sets[d])
  BY <1>1 DEF Review, Exists, Untaken
<1> HIDE DEF prior
<1>6. /\ new \in [kind : {"generated", "review"}, over : Scope, cases : [Cases -> CaseStates]]
      /\ new.cases[c].stamp = stamp + 1 /\ \A b \in Cases : b # c => new.cases[b] = prior.cases[b]
  <2>1. PICK yes \in BOOLEAN : yes = TRUE
    OBVIOUS
  <2>2. /\ WithCase(prior, c, yes)
              \in [kind : {"generated", "review"}, over : Scope, cases : [Cases -> CaseStates]]
        /\ WithCase(prior, c, yes).cases[c].stamp = stamp + 1
        /\ \A b \in Cases : b # c => WithCase(prior, c, yes).cases[b] = prior.cases[b]
    BY <1>1, <1>4, WithCaseType
  <2>3. WithCase(prior, c, yes) = new
    BY <2>1, Zenon
  <2> QED
    BY <2>2, <2>3, Zenon
<1> HIDE DEF new
<1>7. {c} \in SUBSET Cases /\ {c} # {} /\ \A b \in {c} : new.cases[b].stamp = stamp + 1
  BY <1>6
<1>8. Exists(evals, d) => \A b \in Cases : b \in {c} \/ new.cases[b] = evals.sets[d].cases[b]
  BY <1>5, <1>6
<1>9. Exists(evals, d) \/ d \in Untaken
  BY <1>5
<1> QED
  BY <1>1, <1>2, <1>6, <1>7, <1>8, <1>9, ContentKeeps

LEMMA ChangeKeeps ==
    ASSUME EvalConstants, EvalInv, NEW r \in EvalRequests, NEW d \in Datasets,
           NEW c \in Cases, NEW there \in BOOLEAN, ChangeItem(r, d, c, there)
    PROVE  EvalInv'
<1> DEFINE new == WithCase(evals.sets[d], c, there)
<1>1. /\ CanAsk(r) /\ Exists(evals, d) /\ Stamped
      /\ evals' = [evals EXCEPT !.sets[d] = new] /\ ToSave(r, d, Was(d, {}), {c})
      /\ UNCHANGED dropped /\ Aside /\ EvalTypes
  BY DEF ChangeItem, EvalInv
<1>2. ~Saving(r)
  BY <1>1, FreeIsNotSaving DEF CanAsk
<1>3. evals.sets[d] \in [kind : {"generated", "review"}, over : Scope, cases : [Cases -> CaseStates]]
  BY <1>1, NoSetContent DEF EvalTypes, Stores, Exists
<1>6. /\ new \in [kind : {"generated", "review"}, over : Scope, cases : [Cases -> CaseStates]]
      /\ new.cases[c].stamp = stamp + 1 /\ \A b \in Cases : b # c => new.cases[b] = evals.sets[d].cases[b]
  BY <1>1, <1>3, WithCaseType
<1> HIDE DEF new
<1>7. {c} \in SUBSET Cases /\ {c} # {} /\ \A b \in {c} : new.cases[b].stamp = stamp + 1
  BY <1>6
<1>8. Exists(evals, d) => \A b \in Cases : b \in {c} \/ new.cases[b] = evals.sets[d].cases[b]
  BY <1>6
<1> QED
  BY <1>1, <1>2, <1>6, <1>7, <1>8, ContentKeeps

LEMMA RemoveKeeps ==
    ASSUME EvalConstants, EvalInv, NEW r \in EvalRequests, NEW d \in Datasets, DeleteDataset(r, d)
    PROVE  EvalInv'
<1> DEFINE removed == {run \in evals.runs : run.set = d}
           x == [at |-> "save", set |-> d, ack |-> {}, stamp |-> stamp + 1, before |-> Was(d, removed)]
<1>0. /\ EvalTypes /\ \A e \in Datasets, c \in Cases : reported[e][c] <= stamp
      /\ KeptIn(evals) /\ KeptIn(evalFile) /\ \A q \in EvalRequests : SaveSound(q)
      /\ UNCHANGED <<evalFile, evalMode, evalFaults, reported, stamp>>
      /\ CanAsk(r) /\ Exists(evals, d) /\ Aside
      /\ evals' = [sets |-> [evals.sets EXCEPT ![d] = NoSet], runs |-> evals.runs \ removed]
      /\ doing' = [doing EXCEPT ![r] = x]
      /\ dropped' = [dropped EXCEPT !.started = @ \cup {d}]
  BY DEF EvalInv, Aside, DeleteDataset, ToSave
<1>1. stamp \in 0..MaxStamp /\ stamp + 1 \in 0..(MaxStamp + 1) /\ stamp <= stamp'
  BY <1>0 DEF EvalTypes, EvalConstants
<1>2. evals \in Stores /\ evals.sets[d] \in Contents /\ evals.runs \in SUBSET Runs
  BY <1>0 DEF EvalTypes, Stores
<1>3. /\ evals'.sets = [evals.sets EXCEPT ![d] = NoSet] /\ evals'.runs = evals.runs \ removed
      /\ evals' \in Stores
  BY <1>0, <1>2, NoSetContent DEF Stores
<1>4. evals'.sets[d] = NoSet /\ \A e \in Datasets : e # d => evals'.sets[e] = evals.sets[e]
  BY <1>2, <1>3 DEF Stores
<1>5. Was(d, removed) = [set |-> evals.sets[d], runs |-> removed] /\ Was(d, removed) \in Befores
  BY <1>2 DEF Was, Befores
<1> HIDE DEF removed
<1>6. /\ x \in Savings /\ x.at = "save" /\ x.set = d /\ x.ack = {}
      /\ x.before.set = evals.sets[d] /\ x.before.runs = removed
  <2>1. x \in Savings
    BY <1>1, <1>5 DEF Savings
  <2>2. x.before = Was(d, removed)
    OBVIOUS
  <2> QED
    BY <1>5, <2>1, <2>2
<1>a. evals'.runs \cup x.before.runs = evals.runs
  BY <1>3, <1>6 DEF removed
<1>b. evals.sets = [evals'.sets EXCEPT ![x.set] = x.before.set]
  BY <1>2, <1>3, <1>6 DEF Stores
<1> HIDE DEF x
<1>7. /\ doing'[r] = x /\ \A q \in EvalRequests : q # r => doing'[q] = doing[q]
  BY <1>0, <1>6, GoesTo DEF Works
<1>8. /\ dropped' \in [started : SUBSET Datasets, done : SUBSET Datasets]
      /\ dropped'.done = dropped.done /\ dropped'.started = dropped.started \cup {d}
  BY <1>0 DEF EvalTypes
<1>9. ~Exists(evals', d) /\ \A e \in Datasets : e # d => (Exists(evals', e) <=> Exists(evals, e))
  BY <1>4 DEF Exists
<1>10. KeptIn(evals)' /\ KeptIn(evalFile)'
  <2>1. ASSUME NEW e \in Datasets PROVE KeptOf(evals, e)' /\ KeptOf(evalFile, e)'
    <3>1. KeptOf(evals, e) /\ KeptOf(evalFile, e)
      BY <1>0 DEF KeptIn
    <3>2. CASE e = d
      <4>1. d \notin dropped'.done /\ d \in dropped'.started
        BY <1>0, <1>8, <3>1, <3>2 DEF KeptOf
      <4> QED
        BY <3>2, <4>1 DEF KeptOf
    <3>3. CASE e # d
      <4>1. evals'.sets[e] = evals.sets[e] /\ (Exists(evals', e) <=> Exists(evals, e))
        BY <1>4, <1>9, <3>3
      <4>2. e \in dropped'.started <=> e \in dropped.started
        BY <1>8, <3>3
      <4> QED
        BY <1>0, <1>8, <3>1, <4>1, <4>2 DEF KeptOf, Exists
    <3> QED
      BY <3>2, <3>3
  <2> QED
    BY <2>1 DEF KeptIn
<1>11. SaveSound(r)'
  BY <1>6, <1>7, <1>8, <1>9 DEF SaveSound, Exists
<1>12. ASSUME NEW q \in EvalRequests, q # r PROVE SaveSound(q)'
  <2> SUFFICES ASSUME doing[q].at = "save" PROVE SaveSound(q)'
    BY <1>7, <1>12 DEF SaveSound
  <2>0. doing'[q] = doing[q] /\ SaveSound(q) /\ doing[q].set \in Datasets
    <3>1. doing[q] \in Savings
      BY <1>0, WorkTypes DEF EvalTypes
    <3> QED
      BY <1>0, <1>7, <1>12, <3>1 DEF Savings
  <2>1. CASE doing[q].set = d
    BY <1>0, <1>8, <1>9, <2>0, <2>1 DEF SaveSound, Exists
  <2>2. CASE doing[q].set # d
    <3>1. evals'.sets[doing[q].set] = evals.sets[doing[q].set]
      BY <1>4, <2>0, <2>2
    <3>2. doing[q].set \in dropped'.started <=> doing[q].set \in dropped.started
      BY <1>8, <2>2
    <3> QED
      BY <1>0, <2>0, <3>1, <3>2 DEF SaveSound, Exists
  <2> QED
    BY <2>1, <2>2
<1> QED
  <2>1. ~Saving(r) /\ stamp' \in 0..MaxStamp /\ dropped.started \subseteq dropped'.started
        /\ evals'.runs \subseteq evals.runs
    BY <1>0, <1>1, <1>3, <1>8, FreeIsNotSaving DEF CanAsk
  <2> QED
    BY <1>0, <1>1, <1>3, <1>6, <1>8, <1>10, <1>11, <1>12, <1>a, <1>b, <2>1, SavingStep
-----------------------------------------------------------------------------
(* Runs and saves *)

\* pruneEvalRunHistoryLocked keeps no more runs than the limit: all that are kept but
\* the one that started first are later than it.
LEMMA PrunedFits ==
    ASSUME EvalConstants, NEW R \in SUBSET Runs, IsFiniteSet(R),
           \A x, y \in R : x.started = y.started => x = y
    PROVE  PrunedRuns(R) \subseteq R /\ Cardinality(OfBase(PrunedRuns(R))) <= RunLimit
<1> DEFINE P == OfBase(PrunedRuns(R))
<1>1. PrunedRuns(R) \subseteq R /\ P \subseteq OfBase(R) /\ P \subseteq R /\ IsFiniteSet(P)
  <2>1. PrunedRuns(R) \subseteq R /\ P \subseteq OfBase(R) /\ P \subseteq R
    BY DEF PrunedRuns, OfBase
  <2> QED
    BY <2>1, FS_Subset
<1>2. \A x \in R : x.started \in Nat
  BY RunTypes
<1>3. CASE P = {}
  BY <1>1, <1>3, FS_EmptySet DEF EvalConstants
<1>4. CASE P # {}
  <2> DEFINE T == {x.started : x \in P}
  <2>1. PICK n \in T : \A m \in T : n <= m
    <3>1. T \in SUBSET Nat /\ T # {}
      BY <1>1, <1>2, <1>4
    <3> HIDE DEF T
    <3> QED
      BY <3>1, Smallest
  <2>2. PICK first \in P : first.started = n
    BY <2>1
  <2>3. \A x \in P : first.started <= x.started
    BY <2>1, <2>2
  <2> DEFINE L == Later(R, first)
  <2>4. Cardinality(L) < RunLimit
    BY DEF PrunedRuns, OfBase
  <2>5. P \ {first} \subseteq L
    <3>1. ASSUME NEW y \in P, y # first PROVE y \in L
      <4>1. y \in R /\ first \in R /\ y \in OfBase(R)
        BY <1>1
      <4>2. y.started \in Nat /\ first.started \in Nat /\ y.started # first.started
        BY <1>2, <3>1, <4>1
      <4>3. y.started > first.started
        BY <2>3, <4>2
      <4> QED
        BY <4>1, <4>3 DEF Later
    <3> QED
      BY <3>1
  <2>6. IsFiniteSet(L)
    <3>1. L \subseteq R
      BY DEF Later, OfBase
    <3> QED
      BY <3>1, FS_Subset
  <2>7. IsFiniteSet(P \ {first}) /\ Cardinality(P \ {first}) <= Cardinality(L)
    BY <2>5, <2>6, FS_Subset
  <2>8. Cardinality(P \ {first}) = Cardinality(P) - 1
    BY <1>1, FS_RemoveElement
  <2>9. Cardinality(P) \in Nat /\ Cardinality(L) \in Nat /\ Cardinality(P \ {first}) \in Nat
    BY <1>1, <2>6, <2>7, FS_CardinalityType
  <2>10. RunLimit \in Nat
    BY DEF EvalConstants
  <2> QED
    BY <1>1, <2>4, <2>7, <2>8, <2>9, <2>10
<1> QED
  BY <1>3, <1>4

\* No run starts in a step that starts none.
LEMMA FewerGoing ==
    ASSUME EvalConstants, EvalTypes, stamp' = stamp,
           \A q \in EvalRequests : doing'[q].at = "run" =>
               doing[q].at = "run" /\ doing'[q].started = doing[q].started
    PROVE  \A R : R \subseteq Runs /\ SoundRuns(R) => RunsSound(R, stamp', Going')
<1>1. \A k \in Going' : k \in Going
  BY DEF Going
<1>2. stamp \in Nat
  BY DEF EvalTypes
<1> QED
  BY <1>1, <1>2, RunsStay, RunTypes DEF SoundRuns

\* A request that ends, or goes on to save a run.
LEMMA EndKeeps ==
    ASSUME EvalConstants, EvalInv, NEW r \in EvalRequests, NEW x \in Works,
           x.at \notin {"run", "save", "undo"}, doing' = [doing EXCEPT ![r] = x], doing[r] # Free,
           stamp' = stamp, evalMode' = evalMode, evalFaults' \in 0..MaxEvalFaults,
           evals' \in Stores, evalFile' \in Stores,
           RunsSound(evals'.runs, stamp', Going'), RunsSound(evalFile'.runs, stamp', Going'),
           KeptIn(evals)', KeptIn(evalFile)',
           dropped' \in [started : SUBSET Datasets, done : SUBSET Datasets],
           dropped'.done \subseteq dropped'.started, dropped'.started = dropped.started,
           reported' \in [Datasets -> [Cases -> 0..MaxStamp]],
           \A d \in Datasets, c \in Cases : reported'[d][c] <= stamp,
           \/ evals' = evals
           \/ evals'.sets = evals.sets
           \/ evalMode = "faultySaves",
           Synced'
    PROVE  EvalInv'
<1>0. EvalTypes /\ Starts /\ Alone /\ \A q \in EvalRequests : SaveSound(q) /\ Undoable(q)
  BY DEF EvalInv
<1>1. /\ doing' \in [EvalRequests -> Works] /\ doing'[r] = x
      /\ \A q \in EvalRequests : q # r => doing'[q] = doing[q]
  BY <1>0, GoesTo
<1>2. EvalTypes'
  BY <1>0, <1>1 DEF EvalTypes
<1>3. Starts'
  <2>1. \A q \in EvalRequests : doing'[q].at = "run" =>
            doing[q].at = "run" /\ doing'[q].started = doing[q].started
    BY <1>1
  <2>2. stamp' \in Nat /\ stamp' >= stamp
    BY <1>0 DEF EvalTypes
  <2> QED
    BY <1>0, <2>1, <2>2, StartsStay
<1>4. Alone'
  BY <1>0, AloneStay
<1>5. SoundRuns(evals.runs)' /\ SoundRuns(evalFile.runs)'
  BY DEF SoundRuns
<1>6. ASSUME NEW q \in EvalRequests PROVE Undoable(q)'
  <2>1. CASE q = r
    BY <1>1, <2>1 DEF Undoable, Saving
  <2>2. CASE q # r
    <3>1. evalMode' = "faultySaves" => doing'[q] = Free
      BY <1>0, <1>1, <2>2, OthersFree
    <3> QED
      BY <3>1 DEF Undoable, Saving, Free
  <2> QED
    BY <2>1, <2>2
<1>7. ASSUME NEW q \in EvalRequests PROVE SaveSound(q)'
  <2>1. CASE doing'[q].at # "save"
    BY <2>1 DEF SaveSound
  <2>2. CASE doing'[q].at = "save"
    <3>1. q # r /\ doing'[q] = doing[q] /\ SaveSound(q)
      BY <1>0, <1>1, <2>2
    <3>2. doing'[q] # Free
      BY <2>2 DEF Free
    <3>3. evals'.sets = evals.sets
      BY <1>0, <1>1, <3>1, <3>2, OthersFree
    <3> QED
      BY <2>2, <3>1, <3>3 DEF SaveSound, Exists
  <2> QED
    BY <2>1, <2>2
<1>8. \A d \in Datasets, c \in Cases : reported'[d][c] <= stamp'
  OBVIOUS
<1> QED
  BY <1>2, <1>3, <1>4, <1>5, <1>6, <1>7, <1>8 DEF EvalInv

LEMMA FinishKeeps ==
    ASSUME EvalConstants, EvalInv, NEW r \in EvalRequests, FinishRun(r)
    PROVE  EvalInv'
<1> DEFINE run == [set |-> doing[r].set, over |-> doing[r].over, started |-> doing[r].started]
           runs == evals.runs \cup {run}
           kept == IF run.over = "base" THEN PrunedRuns(runs) ELSE runs
           x == [at |-> "saveRun"]
<1>0. /\ EvalTypes /\ Starts /\ SoundRuns(evals.runs) /\ SoundRuns(evalFile.runs) /\ Synced
      /\ \A d \in Datasets, c \in Cases : reported[d][c] <= stamp
      /\ KeptIn(evals) /\ KeptIn(evalFile)
  BY DEF EvalInv
<1>1. /\ doing[r].at = "run" /\ evals' = [evals EXCEPT !.runs = kept]
      /\ doing' = [doing EXCEPT ![r] = x]
      /\ UNCHANGED <<stamp, dropped, evalFile, evalMode, evalFaults, reported>>
  BY DEF FinishRun, Aside
<1>2. x \in Works /\ x.at = "saveRun"
  BY DEF Works
<1> HIDE DEF x
<1>3. /\ doing'[r] = x /\ \A q \in EvalRequests : q # r => doing'[q] = doing[q]
  BY <1>0, <1>1, <1>2, GoesTo
<1>4. doing[r] \in RunWorks /\ doing[r].over \in Scope /\ doing[r].set \in Datasets
      /\ doing[r].started \in 1..MaxStamp
  <2>1. doing[r] \in RunWorks
    BY <1>0, <1>1, WorkTypes DEF EvalTypes
  <2> QED
    BY <2>1 DEF RunWorks
<1>5. run \in Runs /\ run.started = doing[r].started /\ run.over = doing[r].over
  BY <1>4 DEF Runs
<1> HIDE DEF run
<1>6. evals \in Stores /\ evals.runs \subseteq Runs /\ evalFile.runs \subseteq Runs /\ runs \in SUBSET Runs
  BY <1>0, <1>5 DEF EvalTypes, Stores
<1>7. run.started \in Going /\ run.started <= stamp
  BY <1>0, <1>1, <1>5 DEF Going, Starts
<1>8. /\ IsFiniteSet(runs) /\ \A y, z \in runs : y.started = z.started => y = z
      /\ \A y \in runs : y.started <= stamp
  <2>1. IsFiniteSet(runs)
    BY <1>0, FS_AddElement DEF SoundRuns, RunsSound
  <2> QED
    BY <1>0, <1>7, <2>1 DEF SoundRuns, RunsSound
<1>9. \A q \in EvalRequests : doing'[q].at = "run" =>
          q # r /\ doing[q].at = "run" /\ doing'[q].started = doing[q].started
  BY <1>2, <1>3
<1>10. run.started \notin Going'
  BY <1>0, <1>1, <1>5, <1>9 DEF Going, Starts
<1>11. \A k \in Going' : k \in Going
  BY <1>9 DEF Going
<1>12. \A y \in runs : y.started \notin Going'
  BY <1>0, <1>10, <1>11 DEF SoundRuns, RunsSound
<1>13. kept \subseteq runs /\ Cardinality(OfBase(kept)) <= RunLimit
  <2>1. CASE run.over = "base"
    BY <1>6, <1>8, <2>1, PrunedFits
  <2>2. CASE run.over # "base"
    <3>1. OfBase(runs) = OfBase(evals.runs)
      BY <2>2 DEF OfBase
    <3> QED
      BY <1>0, <2>2, <3>1 DEF SoundRuns, RunsSound
  <2> QED
    BY <2>1, <2>2
<1>14. evals'.runs = kept /\ evals'.sets = evals.sets /\ evals' \in Stores
  <2>1. kept \subseteq Runs
    BY <1>6, <1>13
  <2> HIDE DEF kept
  <2> QED
    BY <1>1, <1>6, <2>1 DEF Stores
<1> HIDE DEF kept, runs
<1>15. RunsSound(evals'.runs, stamp', Going')
  <2>1. IsFiniteSet(kept)
    BY <1>8, <1>13, FS_Subset
  <2> QED
    BY <1>1, <1>8, <1>12, <1>13, <1>14, <2>1 DEF RunsSound
<1>16. RunsSound(evalFile'.runs, stamp', Going')
  BY <1>0, <1>1, <1>6, <1>9, FewerGoing
<1>17. KeptIn(evals)' /\ KeptIn(evalFile)'
  BY <1>0, <1>1, <1>14 DEF KeptIn, KeptOf, Exists
<1>18. Synced'
  <2>1. \A q \in EvalRequests : Saving(q) => Saving(q)'
    BY <1>1, <1>3 DEF Saving
  <2> QED
    BY <1>0, <1>1, <1>14, <2>1 DEF Synced
<1>19. doing[r] # Free
  BY <1>1 DEF Free
<1>20. /\ evalFaults' \in 0..MaxEvalFaults /\ evalFile' \in Stores
       /\ dropped' \in [started : SUBSET Datasets, done : SUBSET Datasets]
       /\ dropped'.done \subseteq dropped'.started /\ dropped'.started = dropped.started
       /\ reported' \in [Datasets -> [Cases -> 0..MaxStamp]]
       /\ \A d \in Datasets, c \in Cases : reported'[d][c] <= stamp
  BY <1>0, <1>1 DEF EvalTypes
<1> QED
  BY <1>1, <1>2, <1>14, <1>15, <1>16, <1>17, <1>18, <1>19, <1>20, EndKeeps

LEMMA SaveRunKeeps ==
    ASSUME EvalConstants, EvalInv, NEW r \in EvalRequests, SaveRun(r)
    PROVE  EvalInv'
<1>0. /\ EvalTypes /\ SoundRuns(evals.runs) /\ SoundRuns(evalFile.runs) /\ Synced
      /\ \A d \in Datasets, c \in Cases : reported[d][c] <= stamp
      /\ KeptIn(evals) /\ KeptIn(evalFile)
  BY DEF EvalInv
<1>1. /\ doing[r].at = "saveRun" /\ doing' = [doing EXCEPT ![r] = Free]
      /\ UNCHANGED <<evals, stamp, evalMode, reported, dropped>>
      /\ evalFile' = evals \/ evalFile' = evalFile
  BY DEF SaveRun, EvalDone
<1>2. evalFaults' \in 0..MaxEvalFaults
  <2>1. evalFaults \in 0..MaxEvalFaults /\ MaxEvalFaults \in Nat
    BY <1>0 DEF EvalTypes, EvalConstants
  <2>2. evalFaults' = evalFaults \/ (evalFaults < MaxEvalFaults /\ evalFaults' = evalFaults + 1)
    BY DEF SaveRun, EvalSaveFails
  <2> QED
    BY <2>1, <2>2
<1>3. /\ doing'[r] = Free /\ \A q \in EvalRequests : q # r => doing'[q] = doing[q]
  BY <1>0, <1>1, FreeAt, GoesTo
<1>4. \A q \in EvalRequests : doing'[q].at = "run" =>
          doing[q].at = "run" /\ doing'[q].started = doing[q].started
  BY <1>3, FreeAt
<1>5. RunsSound(evals'.runs, stamp', Going') /\ RunsSound(evalFile'.runs, stamp', Going')
  <2>1. evals.runs \subseteq Runs /\ evalFile.runs \subseteq Runs
    BY <1>0 DEF EvalTypes, Stores
  <2> QED
    BY <1>0, <1>1, <1>4, <2>1, FewerGoing
<1>6. KeptIn(evals)' /\ KeptIn(evalFile)'
  BY <1>0, <1>1 DEF KeptIn, KeptOf, Exists
<1>7. Synced'
  <2>1. \A q \in EvalRequests : Saving(q) => Saving(q)'
    BY <1>1, <1>3 DEF Saving
  <2> QED
    BY <1>0, <1>1, <2>1 DEF Synced
<1>8. doing[r] # Free /\ Free.at \notin {"run", "save", "undo"} /\ Free \in Works
  BY <1>1, FreeAt DEF Free
<1>9. /\ evals' \in Stores /\ evalFile' \in Stores
      /\ dropped' \in [started : SUBSET Datasets, done : SUBSET Datasets]
      /\ dropped'.done \subseteq dropped'.started /\ dropped'.started = dropped.started
      /\ reported' \in [Datasets -> [Cases -> 0..MaxStamp]]
      /\ \A d \in Datasets, c \in Cases : reported'[d][c] <= stamp
  BY <1>0, <1>1 DEF EvalTypes
<1> QED
  BY <1>1, <1>2, <1>5, <1>6, <1>7, <1>8, <1>9, EndKeeps

LEMMA ReportKeeps ==
    ASSUME EvalConstants, EvalInv, NEW r \in EvalRequests, SavedAndReported(r)
    PROVE  EvalInv'
<1> DEFINE d == doing[r].set
           ack == doing[r].ack
           n == doing[r].stamp
<1>0. /\ EvalTypes /\ SoundRuns(evals.runs) /\ KeptIn(evals) /\ SaveSound(r)
      /\ \A e \in Datasets, c \in Cases : reported[e][c] <= stamp
  BY DEF EvalInv
<1>1. /\ doing[r].at = "save" /\ evalFile' = evals /\ doing' = [doing EXCEPT ![r] = Free]
      /\ UNCHANGED <<evals, stamp, evalMode, evalFaults>>
  BY DEF SavedAndReported, EvalDone
<1>2. d \in Datasets /\ ack \in SUBSET Cases /\ n \in Nat
  <2>1. doing[r] \in Savings
    BY <1>0, <1>1, WorkTypes DEF EvalTypes
  <2> QED
    BY <2>1 DEF Savings
<1>3. /\ ack = {} => d \in dropped.started /\ ~Exists(evals, d)
      /\ ack # {} =>
            /\ n <= stamp
            /\ d \notin dropped.started =>
                  Exists(evals, d) /\ \A c \in ack : evals.sets[d].cases[c].stamp >= n
  BY <1>0, <1>1 DEF SaveSound
<1>4. /\ reported' = [reported EXCEPT ![d] =
                        [c \in Cases |-> IF c \in ack /\ n > reported[d][c] THEN n ELSE reported[d][c]]]
      /\ dropped' = IF ack = {} THEN [dropped EXCEPT !.done = @ \cup {d}] ELSE dropped
  <2>1. reported' = [reported EXCEPT ![d] =
                        [c \in Cases |-> IF c \in ack /\ n > @[c] THEN n ELSE @[c]]]
    BY DEF SavedAndReported
  <2> QED
    BY <2>1 DEF SavedAndReported
<1> HIDE DEF d, ack, n
<1>5. stamp \in 0..MaxStamp /\ MaxStamp \in Nat /\ reported \in [Datasets -> [Cases -> 0..MaxStamp]]
      /\ dropped \in [started : SUBSET Datasets, done : SUBSET Datasets]
      /\ dropped.done \subseteq dropped.started
  BY <1>0 DEF EvalTypes, EvalConstants
<1>6. /\ \A e \in Datasets : e # d => reported'[e] = reported[e]
      /\ \A c \in Cases : reported'[d][c] = IF c \in ack /\ n > reported[d][c] THEN n ELSE reported[d][c]
      /\ DOMAIN reported' = Datasets /\ DOMAIN reported'[d] = Cases
  BY <1>2, <1>4, <1>5
<1>7. /\ reported' \in [Datasets -> [Cases -> 0..MaxStamp]]
      /\ \A e \in Datasets, c \in Cases : reported'[e][c] <= stamp
  <2>1. \A c \in Cases : reported[d][c] \in 0..MaxStamp /\ reported[d][c] <= stamp
    BY <1>0, <1>2, <1>5
  <2>2. \A c \in Cases : c \in ack => n \in 0..MaxStamp /\ n <= stamp
    BY <1>2, <1>3, <1>5
  <2> DEFINE said == [c \in Cases |-> IF c \in ack /\ n > reported[d][c] THEN n ELSE reported[d][c]]
  <2>3. said \in [Cases -> 0..MaxStamp] /\ \A c \in Cases : said[c] <= stamp
    BY <2>1, <2>2
  <2>4. reported' = [reported EXCEPT ![d] = said]
    BY <1>4
  <2> HIDE DEF said
  <2> QED
    BY <1>0, <1>2, <1>5, <2>3, <2>4
<1>8. /\ dropped' \in [started : SUBSET Datasets, done : SUBSET Datasets]
      /\ dropped'.done \subseteq dropped'.started /\ dropped'.started = dropped.started
      /\ dropped'.done = IF ack = {} THEN dropped.done \cup {d} ELSE dropped.done
  BY <1>2, <1>3, <1>4, <1>5
<1>9. KeptIn(evals)' /\ KeptIn(evalFile)'
  <2>1. ASSUME NEW e \in Datasets PROVE KeptOf(evals, e)'
    <3>0. KeptOf(evals, e)
      BY <1>0 DEF KeptIn
    <3>1. e \in dropped'.done => ~Exists(evals, e)
      BY <1>3, <1>8, <3>0 DEF KeptOf
    <3>2. ASSUME e \notin dropped.started, NEW c \in Cases, reported'[e][c] > 0
          PROVE  Exists(evals, e) /\ evals.sets[e].cases[c].stamp >= reported'[e][c]
      <4>1. CASE e = d /\ c \in ack /\ n > reported[d][c]
        <5>1. reported'[e][c] = n /\ ack # {}
          BY <1>6, <4>1
        <5> QED
          BY <1>3, <3>2, <4>1, <5>1
      <4>2. CASE ~(e = d /\ c \in ack /\ n > reported[d][c])
        <5>1. reported'[e][c] = reported[e][c]
          BY <1>6, <4>2
        <5> QED
          BY <3>0, <3>2, <5>1 DEF KeptOf
      <4> QED
        BY <4>1, <4>2
    <3> QED
      BY <1>1, <1>8, <3>1, <3>2 DEF KeptOf, Exists
  <2>2. evalFile' = evals'
    BY <1>1
  <2>3. KeptIn(evals)'
    BY <2>1 DEF KeptIn
  <2> QED
    BY <2>2, <2>3 DEF KeptIn, KeptOf, Exists
<1>10. /\ doing'[r] = Free /\ \A q \in EvalRequests : q # r => doing'[q] = doing[q]
  BY <1>0, <1>1, FreeAt, GoesTo
<1>11. \A q \in EvalRequests : doing'[q].at = "run" =>
           doing[q].at = "run" /\ doing'[q].started = doing[q].started
  BY <1>10, FreeAt
<1>12. RunsSound(evals'.runs, stamp', Going') /\ RunsSound(evalFile'.runs, stamp', Going')
  <2>1. evals.runs \subseteq Runs
    BY <1>0 DEF EvalTypes, Stores
  <2> QED
    BY <1>0, <1>1, <1>11, <2>1, FewerGoing
<1>13. doing[r] # Free /\ Free.at \notin {"run", "save", "undo"} /\ Free \in Works
  BY <1>1, FreeAt DEF Free
<1>14. evals' \in Stores /\ evalFile' \in Stores /\ evalFaults' \in 0..MaxEvalFaults
  BY <1>0, <1>1 DEF EvalTypes
<1>15. Synced'
  BY <1>1 DEF Synced
<1> QED
  BY <1>1, <1>7, <1>8, <1>9, <1>12, <1>13, <1>14, <1>15, EndKeeps

LEMMA UndoKeeps ==
    ASSUME EvalConstants, EvalInv, NEW r \in EvalRequests, Undo(r)
    PROVE  EvalInv'
<1> DEFINE before == doing[r].before
<1>0. /\ EvalTypes /\ SoundRuns(evalFile.runs) /\ KeptIn(evalFile) /\ Alone /\ Undoable(r)
      /\ \A e \in Datasets, c \in Cases : reported[e][c] <= stamp
  BY DEF EvalInv
<1>1. /\ doing[r].at = "undo" /\ doing' = [doing EXCEPT ![r] = Free]
      /\ evals' = [sets |-> [evals.sets EXCEPT ![doing[r].set] = before.set],
                   runs |-> evals.runs \cup before.runs]
      /\ UNCHANGED <<stamp, dropped, evalFile, evalMode, evalFaults, reported>>
  BY DEF Undo, Aside, EvalDone
<1>2. evalMode = "faultySaves"
  BY <1>0, <1>1 DEF Alone
<1>3. /\ evalFile.sets = [evals.sets EXCEPT ![doing[r].set] = before.set]
      /\ SoundRuns(evals.runs \cup before.runs)
  BY <1>0, <1>1, <1>2 DEF Undoable, Saving
<1>4. before.runs \in SUBSET Runs
  <2>1. doing[r] \in Savings
    BY <1>0, <1>1, WorkTypes DEF EvalTypes
  <2>2. doing[r].before \in Befores
    BY <2>1 DEF Savings
  <2> QED
    BY <2>2 DEF Befores
<1> HIDE DEF before
<1>5. evals'.sets = evalFile.sets /\ evals'.runs = evals.runs \cup before.runs
  BY <1>1, <1>3
<1>6. evals.runs \subseteq Runs /\ evalFile.runs \subseteq Runs /\ evalFile.sets \in [Datasets -> Contents]
  BY <1>0 DEF EvalTypes, Stores
<1>7. evals' \in Stores
  BY <1>1, <1>3, <1>4, <1>6 DEF Stores
<1>8. /\ doing'[r] = Free /\ \A q \in EvalRequests : q # r => doing'[q] = doing[q]
  BY <1>0, <1>1, FreeAt, GoesTo
<1>9. \A q \in EvalRequests : doing'[q].at = "run" =>
          doing[q].at = "run" /\ doing'[q].started = doing[q].started
  BY <1>8, FreeAt
<1>10. RunsSound(evals'.runs, stamp', Going') /\ RunsSound(evalFile'.runs, stamp', Going')
  <2>1. evals.runs \cup before.runs \subseteq Runs
    BY <1>4, <1>6
  <2> QED
    BY <1>0, <1>1, <1>3, <1>5, <1>6, <1>9, <2>1, FewerGoing
<1>11. KeptIn(evals)' /\ KeptIn(evalFile)'
  BY <1>0, <1>1, <1>5 DEF KeptIn, KeptOf, Exists
<1>12. Synced'
  BY <1>1, <1>5 DEF Synced
<1>13. doing[r] # Free /\ Free.at \notin {"run", "save", "undo"} /\ Free \in Works
  BY <1>1, FreeAt DEF Free
<1>14. /\ evalFaults' \in 0..MaxEvalFaults /\ evalFile' \in Stores
       /\ dropped' \in [started : SUBSET Datasets, done : SUBSET Datasets]
       /\ dropped'.done \subseteq dropped'.started /\ dropped'.started = dropped.started
       /\ reported' \in [Datasets -> [Cases -> 0..MaxStamp]]
       /\ \A e \in Datasets, c \in Cases : reported'[e][c] <= stamp
  BY <1>0, <1>1 DEF EvalTypes
<1> QED
  BY <1>1, <1>2, <1>7, <1>10, <1>11, <1>12, <1>13, <1>14, EndKeeps

LEMMA RefusedKeeps ==
    ASSUME EvalConstants, EvalInv, NEW r \in EvalRequests, SaveRefused(r)
    PROVE  EvalInv'
<1> DEFINE x == [doing[r] EXCEPT !.at = "undo"]
<1>0. /\ EvalTypes /\ Starts /\ SoundRuns(evals.runs) /\ SoundRuns(evalFile.runs) /\ Alone
      /\ KeptIn(evals) /\ KeptIn(evalFile)
      /\ \A e \in Datasets, c \in Cases : reported[e][c] <= stamp
      /\ \A q \in EvalRequests : SaveSound(q) /\ Undoable(q)
  BY DEF EvalInv
<1>1. /\ doing[r].at = "save" /\ doing' = [doing EXCEPT ![r] = x] /\ evalMode = "faultySaves"
      /\ evalFaults < MaxEvalFaults /\ evalFaults' = evalFaults + 1
      /\ UNCHANGED <<evals, evalFile, stamp, evalMode, reported, dropped>>
  BY DEF SaveRefused, EvalSaveFails
<1>2. doing[r] \in Savings
  BY <1>0, <1>1, WorkTypes DEF EvalTypes
<1>3. x \in Savings /\ x.at = "undo" /\ x.set = doing[r].set /\ x.before = doing[r].before
  BY <1>2 DEF Savings
<1> HIDE DEF x
<1>4. x \in Works /\ doing[r] # Free
  BY <1>1, <1>3 DEF Works, Free
<1>5. /\ doing' \in [EvalRequests -> Works] /\ doing'[r] = x
      /\ \A q \in EvalRequests : q # r => doing'[q] = doing[q]
  BY <1>0, <1>1, <1>4, GoesTo
<1>6. \A q \in EvalRequests : doing'[q].at = "run" =>
          doing[q].at = "run" /\ doing'[q].started = doing[q].started
  BY <1>3, <1>5
<1>7. EvalTypes'
  <2>1. evalFaults' \in 0..MaxEvalFaults
    BY <1>0, <1>1 DEF EvalTypes, EvalConstants
  <2> QED
    BY <1>0, <1>1, <1>5, <2>1 DEF EvalTypes
<1>8. Starts'
  <2>1. stamp' \in Nat /\ stamp' >= stamp
    BY <1>0, <1>1 DEF EvalTypes
  <2> QED
    BY <1>0, <1>6, <2>1, StartsStay
<1>9. \A R : R \subseteq Runs /\ SoundRuns(R) => RunsSound(R, stamp', Going')
  BY <1>0, <1>1, <1>6, FewerGoing
<1>10. evals.runs \subseteq Runs /\ evalFile.runs \subseteq Runs
  BY <1>0 DEF EvalTypes, Stores
<1>11. SoundRuns(evals.runs)' /\ SoundRuns(evalFile.runs)'
  BY <1>0, <1>1, <1>9, <1>10 DEF SoundRuns
<1>12. Alone'
  BY <1>0, <1>1, <1>4, AloneStay
<1>13. Synced'
  BY <1>3, <1>5 DEF Synced, Saving
<1>14. KeptIn(evals)' /\ KeptIn(evalFile)'
  BY <1>0, <1>1 DEF KeptIn, KeptOf, Exists
<1>15. \A q \in EvalRequests : q # r => doing'[q] = Free
  BY <1>0, <1>1, <1>4, <1>5, OthersFree
<1>16. Undoable(r)'
  <2> DEFINE both == evals.runs \cup doing[r].before.runs
  <2>1. /\ evalFile.sets = [evals.sets EXCEPT ![doing[r].set] = doing[r].before.set]
        /\ SoundRuns(both)
    BY <1>0, <1>1 DEF Undoable, Saving
  <2>2. both \subseteq Runs
    BY <1>2, <1>10 DEF Savings, Befores
  <2>3. RunsSound(both, stamp', Going')
    BY <1>9, <2>1, <2>2
  <2>4. both = evals'.runs \cup doing'[r].before.runs
    BY <1>1, <1>3, <1>5
  <2> HIDE DEF both
  <2>5. SoundRuns(evals.runs \cup doing[r].before.runs)'
    BY <2>3, <2>4 DEF SoundRuns
  <2> QED
    BY <1>1, <1>3, <1>5, <2>1, <2>5 DEF Undoable
<1>17. \A q \in EvalRequests : SaveSound(q)' /\ (q # r => Undoable(q)')
  BY <1>3, <1>5, <1>15 DEF SaveSound, Undoable, Saving, Free
<1>18. \A e \in Datasets, c \in Cases : reported'[e][c] <= stamp'
  BY <1>0, <1>1
<1> QED
  BY <1>7, <1>8, <1>11, <1>12, <1>13, <1>14, <1>16, <1>17, <1>18 DEF EvalInv

LEMMA CrashKeeps == EvalConstants /\ EvalInv /\ EvalCrash => EvalInv'
<1> SUFFICES ASSUME EvalConstants, EvalInv, EvalCrash PROVE EvalInv'
  OBVIOUS
<1>0. /\ EvalTypes /\ SoundRuns(evalFile.runs) /\ KeptIn(evalFile)
      /\ \A e \in Datasets, c \in Cases : reported[e][c] <= stamp
      /\ evals' = evalFile /\ doing' = [r \in EvalRequests |-> Free]
      /\ UNCHANGED <<evalFile, stamp, evalMode, reported, dropped>>
  BY DEF EvalInv, EvalCrash
<1>1. evalFaults' \in 0..MaxEvalFaults
  BY <1>0 DEF EvalTypes, EvalConstants, EvalCrash
<1>2. doing' \in [EvalRequests -> Works] /\ \A r \in EvalRequests : doing'[r] = Free /\ doing'[r].at = "idle"
  BY <1>0, FreeAt
<1>3. EvalTypes'
  BY <1>0, <1>1, <1>2 DEF EvalTypes
<1>4. RunsSound(evalFile.runs, stamp', Going')
  <2>1. evalFile.runs \subseteq Runs
    BY <1>0 DEF EvalTypes, Stores
  <2> QED
    BY <1>0, <1>2, <2>1, FewerGoing
<1>5. SoundRuns(evals.runs)' /\ SoundRuns(evalFile.runs)'
  BY <1>0, <1>4 DEF SoundRuns
<1>6. KeptIn(evals)' /\ KeptIn(evalFile)'
  BY <1>0 DEF KeptIn, KeptOf, Exists
<1>7. Starts' /\ Alone' /\ Synced'
  BY <1>0, <1>2 DEF Starts, Alone, Synced
<1>8. \A r \in EvalRequests : SaveSound(r)' /\ Undoable(r)'
  BY <1>2 DEF SaveSound, Undoable, Saving
<1>9. \A e \in Datasets, c \in Cases : reported'[e][c] <= stamp'
  BY <1>0
<1> QED
  BY <1>3, <1>5, <1>6, <1>7, <1>8, <1>9 DEF EvalInv

LEMMA EvalStutter == EvalInv /\ UNCHANGED evalVars => EvalInv'
<1> SUFFICES ASSUME EvalInv, UNCHANGED evalVars PROVE EvalInv'
  OBVIOUS
<1>0. UNCHANGED <<evals, evalFile, doing, stamp, evalMode, evalFaults, reported, dropped>>
  BY DEF evalVars
<1>1. EvalTypes' /\ Starts' /\ Alone' /\ Synced'
  BY <1>0 DEF EvalInv, EvalTypes, Starts, Alone, Synced, Saving
<1>2. SoundRuns(evals.runs)' /\ SoundRuns(evalFile.runs)'
  BY <1>0 DEF EvalInv, SoundRuns, Going
<1>3. KeptIn(evals)' /\ KeptIn(evalFile)'
  BY <1>0 DEF EvalInv, KeptIn, KeptOf, Exists
<1>4. \A r \in EvalRequests : SaveSound(r)' /\ Undoable(r)'
  <2> TAKE r \in EvalRequests
  <2>1. SaveSound(r)'
    BY <1>0 DEF EvalInv, SaveSound, Exists
  <2>2. Undoable(r) /\ (Saving(r)' <=> Saving(r)) /\ Going' = Going
    BY <1>0 DEF EvalInv, Saving, Going
  <2>3. Undoable(r)'
    BY <1>0, <2>2 DEF Undoable, SoundRuns
  <2> QED
    BY <2>1, <2>3
<1>5. \A e \in Datasets, c \in Cases : reported'[e][c] <= stamp'
  BY <1>0 DEF EvalInv
<1> QED
  BY <1>1, <1>2, <1>3, <1>4, <1>5 DEF EvalInv
-----------------------------------------------------------------------------
LEMMA EvalInvNext == EvalConstants /\ EvalInv /\ [EvalNext]_evalVars => EvalInv'
<1> SUFFICES ASSUME EvalConstants, EvalInv, [EvalNext]_evalVars PROVE EvalInv'
  OBVIOUS
<1>1. ASSUME NEW r \in EvalRequests, EvalStep(r) PROVE EvalInv'
  <2>0. EvalTypes
    BY DEF EvalInv
  <2>1. ASSUME NEW over \in Scope, ReadDocuments(r, over) PROVE EvalInv'
    <3> DEFINE x == [at |-> "generate", over |-> over]
    <3>1. x \in Works /\ x.at = "generate"
      BY DEF Works
    <3>2. doing' = [doing EXCEPT ![r] = x] /\ CanAsk(r) /\ ~Saving(r)
          /\ UNCHANGED <<evals, dropped>> /\ stamp' = stamp /\ Aside
      BY <2>1, FreeIsNotSaving DEF ReadDocuments, CanAsk
    <3> HIDE DEF x
    <3> QED
      BY <3>1, <3>2, QuietKeeps
  <2>2. CASE ResolveScope(r)
    <3> DEFINE x == [at |-> "add"]
    <3>1. x \in Works /\ x.at = "add"
      BY DEF Works
    <3>2. doing' = [doing EXCEPT ![r] = x] /\ CanAsk(r) /\ ~Saving(r)
          /\ UNCHANGED <<evals, dropped>> /\ stamp' = stamp /\ Aside
      BY <2>2, FreeIsNotSaving DEF ResolveScope, CanAsk
    <3> HIDE DEF x
    <3> QED
      BY <3>1, <3>2, QuietKeeps
  <2>3. CASE Stop(r)
    <3>1. doing' = [doing EXCEPT ![r] = Free] /\ doing[r] # Free /\ ~Saving(r)
          /\ UNCHANGED <<evals, dropped>> /\ stamp' = stamp /\ Aside
      BY <2>3 DEF Stop, EvalDone, Free, Saving
    <3> QED
      BY <3>1, FreeAt, QuietKeeps
  <2>4. ASSUME NEW d \in Datasets, StartRun(r, d) PROVE EvalInv'
    <3> DEFINE x == [at |-> "run", set |-> d, over |-> evals.sets[d].over, started |-> stamp + 1]
    <3>1. evals.sets[d].over \in Scope
      BY <2>0, <2>4, NoSetContent DEF StartRun, Exists, EvalTypes, Stores
    <3>2. stamp + 1 \in 1..MaxStamp
      BY <2>0, <2>4 DEF StartRun, Stamped, EvalTypes, EvalConstants
    <3>3. x \in Works /\ x.at = "run" /\ x.started = stamp + 1
      BY <3>1, <3>2 DEF Works, RunWorks
    <3>4. doing' = [doing EXCEPT ![r] = x] /\ CanAsk(r) /\ ~Saving(r)
          /\ UNCHANGED <<evals, dropped>> /\ Stamped /\ Aside
      BY <2>4, FreeIsNotSaving DEF StartRun, CanAsk
    <3> HIDE DEF x
    <3> QED
      BY <3>3, <3>4, QuietKeeps
  <2> QED
    BY <1>1, <2>1, <2>2, <2>3, <2>4, InsertKeeps, AddKeeps, ChangeKeeps, RemoveKeeps, FinishKeeps,
       SaveRunKeeps, ReportKeeps, RefusedKeeps, UndoKeeps DEF EvalStep
<1> QED
  BY <1>1, CrashKeeps, EvalStutter DEF EvalNext

LEMMA EvalInvAlways == EvalSpec => []EvalInv
<1>1. EvalInit => EvalInv
  BY EvalConstants, EvalInvInit
<1>2. EvalInv /\ [EvalNext]_evalVars => EvalInv'
  BY EvalConstants, EvalInvNext
<1> QED
  BY <1>1, <1>2, PTL DEF EvalSpec

\* While no save fails, the last request to end leaves the runs of memory in the file.
RunsSynced ==
    /\ evalMode = "overlap"
    /\ \A r \in EvalRequests : doing[r].at \notin {"save", "saveRun", "undo"}
    => evals.runs = evalFile.runs

LEMMA RunsSyncedNext == EvalInv /\ RunsSynced /\ [EvalNext]_evalVars => RunsSynced'
<1> SUFFICES ASSUME EvalInv, RunsSynced, [EvalNext]_evalVars, evalMode' = "overlap",
                    \A r \in EvalRequests : doing'[r].at \notin {"save", "saveRun", "undo"}
             PROVE  evals'.runs = evalFile'.runs
  BY DEF RunsSynced
<1>1. doing \in [EvalRequests -> Works] /\ evalMode' = evalMode
  <2>1. ASSUME NEW r \in EvalRequests, EvalStep(r) PROVE evalMode' = evalMode
    <3>1. CASE Aside
      BY <3>1 DEF Aside
    <3>2. CASE SavedAndReported(r) \/ SaveRefused(r) \/ SaveRun(r)
      BY <3>2 DEF SavedAndReported, SaveRefused, SaveRun
    <3> QED
      BY <2>1, <3>1, <3>2 DEF EvalStep, ReadDocuments, ResolveScope, Stop, InsertDataset,
         AddCandidate, ChangeItem, DeleteDataset, StartRun, FinishRun, Undo
  <2>2. EvalCrash \/ UNCHANGED evalVars => evalMode' = evalMode
    BY DEF EvalCrash, evalVars
  <2> QED
    BY <2>1, <2>2 DEF EvalInv, EvalTypes, EvalNext
<1>2. ASSUME NEW r \in EvalRequests, EvalStep(r) PROVE evals'.runs = evalFile'.runs
  <2>1. CASE (\E over \in Scope : ReadDocuments(r, over)) \/ ResolveScope(r) \/ Stop(r)
             \/ \E d \in Datasets : StartRun(r, d)
    <3>1. /\ UNCHANGED <<evals, evalFile>> /\ \E x : doing' = [doing EXCEPT ![r] = x]
          /\ doing[r] = Free \/ doing[r].at \in {"generate", "add", "run"}
      BY <2>1 DEF ReadDocuments, ResolveScope, Stop, StartRun, CanAsk, EvalDone, Aside
    <3>2. \A q \in EvalRequests : doing[q].at \notin {"save", "saveRun", "undo"}
      BY <1>1, <3>1, FreeIsNotSaving
    <3> QED
      BY <1>1, <3>1, <3>2 DEF RunsSynced
  <2>2. CASE \E d \in Datasets :
               \/ \E chosen \in SUBSET Cases : InsertDataset(r, d, chosen)
               \/ \E c \in Cases :
                    AddCandidate(r, d, c) \/ \E there \in BOOLEAN : ChangeItem(r, d, c, there)
               \/ DeleteDataset(r, d)
    <3>1. \E d, before, ack : ToSave(r, d, before, ack)
      <4>1. ASSUME NEW d \in Datasets, NEW chosen, InsertDataset(r, d, chosen)
            PROVE  ToSave(r, d, Nowhere, chosen)
        BY <4>1 DEF InsertDataset
      <4>2. ASSUME NEW d \in Datasets, NEW c \in Cases,
                   AddCandidate(r, d, c) \/ \E there \in BOOLEAN : ChangeItem(r, d, c, there)
            PROVE  ToSave(r, d, Was(d, {}), {c})
        BY <4>2 DEF AddCandidate, ChangeItem
      <4>3. ASSUME NEW d \in Datasets, DeleteDataset(r, d)
            PROVE  \E before, ack : ToSave(r, d, before, ack)
        BY <4>3 DEF DeleteDataset
      <4> QED
        BY <2>2, <4>1, <4>2, <4>3
    <3>2. PICK d, before, ack : ToSave(r, d, before, ack)
      BY <3>1
    <3>3. doing'[r] = [at |-> "save", set |-> d, ack |-> ack, stamp |-> stamp + 1,
                       before |-> before]
      BY <1>1, <3>2 DEF ToSave
    <3>4. doing'[r].at = "save"
      BY <3>3
    <3> QED
      BY <3>4
  <2>3. CASE FinishRun(r) \/ SaveRefused(r)
    BY <1>1, <2>3 DEF FinishRun, SaveRefused, EvalSaveFails
  <2>4. CASE Undo(r)
    BY <1>1, <2>4 DEF Undo, EvalInv, Alone
  <2>5. CASE SavedAndReported(r) \/ SaveRun(r)
    BY <1>1, <2>5 DEF SavedAndReported, SaveRun, EvalSaveFails
  <2> QED
    BY <1>2, <2>1, <2>2, <2>3, <2>4, <2>5 DEF EvalStep
<1>3. CASE EvalCrash
  BY <1>3 DEF EvalCrash
<1>4. CASE UNCHANGED evalVars
  BY <1>1, <1>4 DEF evalVars, RunsSynced
<1> QED
  BY <1>2, <1>3, <1>4 DEF EvalNext

\* While requests overlap, or saves fail, but not both: a change of a dataset that was
\* reported as saved is kept, in memory and in the file, until a later change of the same
\* item or the deletion of the dataset, a deleted dataset stays deleted, and once no request
\* is at work memory has the datasets of the file, and its runs where no save fails, for any
\* requests, items, changes, failed saves and crashes.
THEOREM EvalsStay == EvalSpec => []EvalsKept
<1>1. EvalInv /\ RunsSynced => EvalsKept
  <2> SUFFICES ASSUME EvalInv, RunsSynced PROVE EvalsKept
    OBVIOUS
  <2>1. ASSUME NEW d \in Datasets PROVE KeptOf(evals, d) /\ KeptOf(evalFile, d)
    BY DEF EvalInv, KeptIn
  <2>2. (\A r \in EvalRequests : doing[r] = Free) => evals.sets = evalFile.sets
    BY FreeIsNotSaving DEF EvalInv, Synced
  <2>3. (\A r \in EvalRequests : doing[r] = Free) /\ evalMode = "overlap"
        => evals.runs = evalFile.runs
    BY FreeIsNotSaving DEF RunsSynced
  <2> QED
    BY <2>1, <2>2, <2>3 DEF EvalsKept, KeptOf
<1>2. EvalInit => RunsSynced
  BY DEF EvalInit, RunsSynced
<1> QED
  BY <1>1, <1>2, RunsSyncedNext, EvalInvAlways, PTL DEF EvalSpec

\* The datasets, the runs and what each request is doing keep their types, and no more
\* runs of a knowledge base are kept, in memory and in the file, than the limit.
THEOREM EvalTyped == EvalSpec => []EvalTypeOK
<1>1. EvalInv => EvalTypeOK
  <2> SUFFICES ASSUME EvalInv PROVE EvalTypeOK
    OBVIOUS
  <2>1. EvalTypes /\ SoundRuns(evals.runs) /\ SoundRuns(evalFile.runs)
    BY DEF EvalInv
  <2>2. ASSUME NEW st \in {evals, evalFile}
        PROVE  /\ DOMAIN st.sets = Datasets /\ \A d \in Datasets : st.sets[d] \in Contents
               /\ st.runs \subseteq Runs /\ Cardinality(OfBase(st.runs)) <= RunLimit
    BY <2>1 DEF EvalTypes, Stores, SoundRuns, RunsSound
  <2>3. DOMAIN doing = EvalRequests /\ \A r \in EvalRequests :
            doing[r].at \in {"idle", "generate", "add", "run", "save", "saveRun", "undo"}
    BY <2>1, WorkTypes DEF EvalTypes
  <2> QED
    BY <2>1, <2>2, <2>3 DEF EvalTypes, EvalTypeOK
<1> QED
  BY <1>1, EvalInvAlways, PTL
=============================================================================
