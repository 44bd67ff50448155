------------------------------- MODULE McpCalls -------------------------------
(***************************************************************************)
(* The MCP server: a call is authenticated, counted against its            *)
(* principal's requests of the minute, checked for the scope of its tool   *)
(* and, when the tool is dangerous, for a confirmation nonce, and run.     *)
(*                                                                         *)
(* A confirmation is created over the REST API for one tool with one set   *)
(* of arguments; clients may send a call again, to another tool, with      *)
(* other arguments or under another key, all at once.  A tool with its     *)
(* arguments is one operation.                                             *)
(***************************************************************************)
EXTENDS Naturals, FiniteSets

CONSTANTS
    Calls,        \* HTTP requests to the MCP server, one at a time each
    Principals,   \* who creates confirmations: users who sign in, and clients
    Clients,      \* who calls tools: API keys, and the legacy token
    KeyOf,        \* the API key of a principal, if any
    UserOf,       \* its user, if any
    Nobody,       \* the key or user of a principal without one
    Operations,   \* tools with their arguments
    Dangerous,    \* those of tools with the permission "danger"
    Granted,      \* the operations a client's scopes allow; all, to the legacy token
    Nonces,       \* confirmation nonces, each handed out once
    RequestsPerMinute,
    ConfirmationsPerMinute,
    MaxMinute     \* bound: minutes that pass

ASSUME CallConstants ==
    RequestsPerMinute \in Nat /\ ConfirmationsPerMinute \in Nat /\ MaxMinute \in Nat

VARIABLES
    caller,       \* what each request is doing
    confirms,     \* mcpDangerConfirms: what each nonce confirms
    lapsed,       \* nonces past their time to live
    rates,        \* mcpDangerRates: confirmations of the last minute, by principal
    buckets,      \* rateBuckets: requests of each client in a window
    minute,       \* the window of now
    approved,     \* observer: nonces created, and what each was created for
    ran           \* observer: runs of dangerous operations, by the nonce shown

callVars == <<caller, confirms, lapsed, rates, buckets, minute, approved, ran>>

Silent == [at |-> "idle"]
Absent  == [by |-> Nobody]
Bucket(window, count) == [window |-> window, count |-> count]

CallInit ==
    /\ caller = [c \in Calls |-> Silent]
    /\ confirms = [n \in Nonces |-> Absent]
    /\ lapsed = {}
    /\ rates = [p \in Principals |-> 0]
    /\ buckets = [p \in Clients |-> Bucket(0, 0)]
    /\ minute = 0
    /\ approved = [n \in Nonces |-> Absent]
    /\ ran = [n \in Nonces |-> {}]
-----------------------------------------------------------------------------
(* Confirmations *)

\* mcpDangerPrincipalKey: the key of a principal, else its user.
RateKey(p) == IF KeyOf[p] # Nobody THEN <<"key", KeyOf[p]>> ELSE <<"user", UserOf[p]>>
Confirmed(p) == {q \in Principals : RateKey(q) = RateKey(p)}

\* pruneExpiredMCPDangerConfirmationsLocked.
Pruned(records) == [n \in Nonces |-> IF n \in lapsed THEN Absent ELSE records[n]]

\* CreateMCPDangerConfirmationAs.
CreateConfirmation(p, operation, n) ==
    /\ approved[n] = Absent
    /\ rates[p] < ConfirmationsPerMinute
    /\ rates' = [q \in Principals |-> IF q \in Confirmed(p) THEN rates[q] + 1 ELSE rates[q]]
    /\ confirms' = [Pruned(confirms) EXCEPT ![n] = [by |-> p, operation |-> operation]]
    /\ approved' = [approved EXCEPT ![n] = [by |-> p, operation |-> operation]]
    /\ UNCHANGED <<caller, lapsed, buckets, minute, ran>>

\* mcpDangerOwnerMatches: a confirmation of an API key is for that key, one of a
\* signed-in user is for every key of that user.
OwnerMatches(owner, p) ==
    IF KeyOf[owner] # Nobody THEN KeyOf[p] = KeyOf[owner]
    ELSE IF UserOf[owner] # Nobody THEN UserOf[p] = UserOf[owner]
    ELSE KeyOf[p] = Nobody /\ UserOf[p] = Nobody

Matches(record, operation, p) ==
    record # Absent /\ record.operation = operation /\ OwnerMatches(record.by, p)
-----------------------------------------------------------------------------
(* A call: handleJSONRPC *)

\* The request is authenticated; allowRequest looks at the clock before it waits
\* for the lock.  A nonce is one that was created, or none that is known.
Arrive(c, p, operation, n) ==
    /\ caller[c] = Silent
    /\ caller' = [caller EXCEPT ![c] = [at |-> "admit", by |-> p, operation |-> operation,
                                        nonce |-> n, window |-> minute]]
    /\ UNCHANGED <<confirms, lapsed, rates, buckets, minute, approved, ran>>

Advance(c, at) == caller' = [caller EXCEPT ![c].at = at]
Respond(c)  == caller' = [caller EXCEPT ![c] = Silent]

\* Mutant: one request too many.
Exceeded(count) == count > RequestsPerMinute
\* The principal has used up its requests of the window.
Spent(count) == count >= RequestsPerMinute

\* allowRequest under its lock: buckets of any other window are dropped.
Admit(c) ==
    LET p == caller[c].by
        window == caller[c].window
        kept == [q \in Clients |-> IF buckets[q].window = window THEN buckets[q]
                                   ELSE Bucket(window, 0)]
    IN
    /\ caller[c].at = "admit"
    /\ IF Spent(kept[p].count)
       THEN buckets' = kept /\ Respond(c)
       ELSE buckets' = [kept EXCEPT ![p].count = @ + 1] /\ Advance(c, "authorize")
    /\ UNCHANGED <<confirms, lapsed, rates, minute, approved, ran>>

\* Mutant: the nonce stays until the tool has run.
ConsumeNonceLater(n) == IF confirms[n] # Absent /\ n \notin lapsed THEN confirms ELSE Pruned(confirms)
\* The nonce goes with the first call that shows it, whatever becomes of the call.
ConsumeNonce(n) == Pruned([confirms EXCEPT ![n] = Absent])

\* authorizeScopes and authorizeDangerousTool, with ConsumeMCPDangerConfirmationAs.
Authorize(c) ==
    LET call == caller[c] IN
    /\ caller[c].at = "authorize"
    /\ \/ /\ call.operation \in Granted[call.by] \ Dangerous
          /\ Advance(c, "run")
          /\ UNCHANGED confirms
       \/ /\ call.operation \notin Granted[call.by]
          /\ Respond(c)
          /\ UNCHANGED confirms
       \/ /\ call.operation \in Granted[call.by] \cap Dangerous
          /\ confirms' = ConsumeNonce(call.nonce)
          /\ IF Matches(confirms[call.nonce], call.operation, call.by) /\ call.nonce \notin lapsed
             THEN Advance(c, "run") ELSE Respond(c)
    /\ UNCHANGED <<lapsed, rates, buckets, minute, approved, ran>>

\* registry.Call; its answer may be an error or come too late for the client.
Run(c) ==
    LET call == caller[c] IN
    /\ call.at = "run"
    /\ ran' = IF call.operation \in Dangerous
              THEN [ran EXCEPT ![call.nonce] =
                       @ \cup {[by |-> call.by, operation |-> call.operation,
                                time |-> Cardinality(@)]}]
              ELSE ran
    /\ Respond(c)
    /\ UNCHANGED <<confirms, lapsed, rates, buckets, minute, approved>>
-----------------------------------------------------------------------------
(* Time *)

LapseNonce(n) ==
    /\ approved[n] # Absent /\ n \notin lapsed
    /\ lapsed' = lapsed \cup {n}
    /\ UNCHANGED <<caller, confirms, rates, buckets, minute, approved, ran>>

\* A minute goes by; confirmations of more than a minute ago do not count.
Minute ==
    /\ minute < MaxMinute
    /\ minute' = minute + 1
    /\ rates' = [p \in Principals |-> 0]
    /\ UNCHANGED <<caller, confirms, lapsed, buckets, approved, ran>>

CallNext ==
    \/ \E n \in Nonces, operation \in Operations :
         \/ \E p \in Principals : CreateConfirmation(p, operation, n)
         \/ \E c \in Calls, p \in Clients : Arrive(c, p, operation, n)
         \/ LapseNonce(n)
    \/ \E c \in Calls : Admit(c) \/ Authorize(c) \/ Run(c)
    \/ Minute

CallSpec == CallInit /\ [][CallNext]_callVars
-----------------------------------------------------------------------------
(* Properties *)

Asked == [at : {"admit", "authorize", "run"}, by : Clients, operation : Operations,
          nonce : Nonces, window : 0..MaxMinute]
Confirmations == {Absent} \cup [by : Principals, operation : Operations]

\* Types of the variables.
CallTypeOK ==
    /\ caller \in [Calls -> {Silent} \cup Asked]
    /\ confirms \in [Nonces -> Confirmations] /\ approved \in [Nonces -> Confirmations]
    /\ lapsed \subseteq Nonces
    /\ rates \in [Principals -> 0..ConfirmationsPerMinute]
    /\ buckets \in [Clients -> [window : 0..MaxMinute, count : 0..RequestsPerMinute]]
    /\ minute \in 0..MaxMinute
    /\ ran \in [Nonces -> SUBSET [by : Clients, operation : Operations, time : Nat]]

\* A confirmation runs one dangerous operation, the one it was created for, once,
\* for the principal that asked for it: calls that arrive together, again, with
\* other arguments or under another key do not run a second one.
DangerConfirmed ==
    \A n \in Nonces :
        /\ Cardinality(ran[n]) <= 1
        /\ \A run \in ran[n] : Matches(approved[n], run.operation, run.by)
=============================================================================
