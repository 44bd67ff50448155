----------------------------- MODULE MCServices -----------------------------
(***************************************************************************)
(* Instances of the services that share no state with each other, for TLC. *)
(* A behaviour exercises one of them, the one `service` names; the others  *)
(* rest in a state they may start in.  So one run explores them all, and   *)
(* their states add up.                                                    *)
(***************************************************************************)
EXTENDS UploadStaging, ModelRuntime, Retrieval, ChatHistory, AuthSessions,
        McpCalls, McpTools, EvalDatasets, Ranking, TLC

CONSTANTS
    u1, u2, w1, w2, alice, text,            \* uploads, workers, a principal, a content
    h1, h2, n1, g1, g2,                     \* callers, a document, generations
    r1, r2, c1, root, key1, key2, user,     \* requests, a conversation, principals
    tool, query

VARIABLE service

serviceVars == <<service, stagingVars, runtimeVars, retrievalVars, chatVars, authVars, callVars,
                  toolVars, evalVars, rankingVars>>

\* Constants of UploadStaging: two uploads of one principal, with one content.
UploadOwner   == u1 :> alice @@ u2 :> alice
UploadSize    == u1 :> 1 @@ u2 :> 2
UploadContent == u1 :> text @@ u2 :> text
PrincipalKey  == alice :> "alice"

OneOf(limit, mishap, uploads, workers) ==
    [files |-> limit, bytes |-> 3, total |-> 3, faults |-> mishap,
     uploads |-> uploads, workers |-> workers]

OneWorker  == OneOf(2, 2, {u1}, {w1})
StagingSetups == {OneWorker, OneOf(2, 1, {u1}, {w1, w2}), OneOf(1, 0, {u1, u2}, {w1})}

\* Of Retrieval.
GenerationOf == g1 :> n1 @@ g2 :> n1

\* Of McpCalls: a key, a user who signs in, and another key of the same user.
KeyOfPrincipal  == user :> Nobody @@ key1 :> "key1" @@ key2 :> "key2"
UserOfPrincipal == user :> root @@ key1 :> root @@ key2 :> root
GrantedTo       == key1 :> {tool, query} @@ key2 :> {tool}

\* Of McpTools.
ScopesHeld == {{scope} : scope \in {"read", "write", "upload", "eval", "danger", "admin"}}
                  \cup {{}, {"read", "write"}}
ReadOnly == key1 :> {"read"} @@ key2 :> {"read"}

\* Of Ranking: two chunks of one document, one of another with a text of the first.
ChunkSource == <<1, 1, 2>>
ChunkTopic == <<1, 2, 2>>

Services == {"staging", "runtime", "search", "chat", "accounts", "calls",
             "tools", "datasets", "ranking"}

ServicesInit ==
    /\ service \in Services
    /\ StagingInit   /\ (service # "staging" => setup = OneWorker)
    /\ RuntimeInit   /\ (service # "runtime" => loop = Asleep)
    /\ RetrievalInit /\ (service # "search" => visible = (n1 :> None) /\ stored = {})
    /\ ChatInit      /\ (service # "chat" => saved = (c1 :> Missing))
    /\ AuthInit /\ CallInit
    /\ ToolsInit     /\ (service # "tools" => held = ReadOnly)
    /\ EvalInit      /\ (service # "datasets" => evalMode = "overlap")
    /\ RankingInit   /\ (service # "ranking" => ~hybrid)

Exercised(name, step) == service = name /\ step /\ UNCHANGED service

ServicesNext ==
    \/ /\ Exercised("staging", StagingNext)
       /\ UNCHANGED <<runtimeVars, retrievalVars, chatVars, authVars, callVars, toolVars, evalVars,
                      rankingVars>>
    \/ /\ Exercised("runtime", RuntimeNext)
       /\ UNCHANGED <<stagingVars, retrievalVars, chatVars, authVars, callVars, toolVars, evalVars,
                      rankingVars>>
    \/ /\ Exercised("search", RetrievalNext)
       /\ UNCHANGED <<stagingVars, runtimeVars, chatVars, authVars, callVars, toolVars, evalVars,
                      rankingVars>>
    \/ /\ Exercised("chat", ChatNext)
       /\ UNCHANGED <<stagingVars, runtimeVars, retrievalVars, authVars, callVars, toolVars, evalVars,
                      rankingVars>>
    \/ /\ Exercised("accounts", AuthNext)
       /\ UNCHANGED <<stagingVars, runtimeVars, retrievalVars, chatVars, callVars, toolVars, evalVars,
                      rankingVars>>
    \/ /\ Exercised("calls", CallNext)
       /\ UNCHANGED <<stagingVars, runtimeVars, retrievalVars, chatVars, authVars, toolVars, evalVars,
                      rankingVars>>
    \/ /\ Exercised("tools", ToolsNext)
       /\ UNCHANGED <<stagingVars, runtimeVars, retrievalVars, chatVars, authVars, callVars, evalVars,
                      rankingVars>>
    \/ /\ Exercised("datasets", EvalNext)
       /\ UNCHANGED <<stagingVars, runtimeVars, retrievalVars, chatVars, authVars, callVars, toolVars,
                      rankingVars>>
    \/ /\ Exercised("ranking", RankingNext)
       /\ UNCHANGED <<stagingVars, runtimeVars, retrievalVars, chatVars, authVars, callVars, toolVars,
                      evalVars>>

\* A service that rests is in a state in which none of its fair steps is enabled.
ServicesSpec ==
    /\ ServicesInit /\ [][ServicesNext]_serviceVars
    /\ StagingFairness /\ RuntimeFairness /\ ChatFairness
-----------------------------------------------------------------------------
\* The variables of every service have their types.
TypesOK ==
    /\ StagingTypeOK /\ RuntimeTypeOK /\ RetrievalTypeOK
    /\ ChatTypeOK /\ AuthTypeOK /\ CallTypeOK /\ ToolsTypeOK /\ EvalTypeOK
    /\ RankingTypeOK

\* What the exercised service owes one of its two uploads, callers or requests.
Owed(i) ==
    CASE service = "staging" -> InDirectory(IF i = 1 THEN u1 ELSE u2)
      [] service = "runtime" -> Unanswered(IF i = 1 THEN h1 ELSE h2)
      [] service = "chat" -> Unended(IF i = 1 THEN r1 ELSE r2)
      [] OTHER -> FALSE

\* What is owed is settled in the end: a file leaves the staging directory, a call
\* with high priority is answered or given up, a request about a conversation
\* ends; whatever failed, crashed, timed out or was abandoned before.
Settles == \A i \in 1..2 : Owed(i) ~> ~Owed(i)
=============================================================================
