------------------------------- MODULE McpTools -------------------------------
(***************************************************************************)
(* The tools of the MCP server: what each one changes, the permission it   *)
(* is declared with, and the scope the server demands for it.              *)
(*                                                                         *)
(* The table of the tools, the scopes and the type of a job are decided in *)
(* three places of the code; a client's arguments, and a retry long after  *)
(* the first start, connect them.  The confirmation of a dangerous tool is *)
(* in McpCalls, what a job does in MCPJobs.                                *)
(***************************************************************************)
CONSTANTS
    ToolKeys,     \* API keys
    Compatible,   \* the principal of the token that needs no scope, and owns nothing
    HeldScopes,   \* the sets of scopes a key may have been created with
    JobSlots      \* bound: jobs that are kept

VARIABLES
    held,         \* the scopes of each key
    started,      \* the jobs: their type, owner and status
    changed       \* observer: what was changed last, and on whose behalf

toolVars == <<held, started, changed>>
-----------------------------------------------------------------------------
(* The tools, by the file that declares them *)

Declared(names, level, change) == [tool : names, level : {level}, change : {change}]

KnowledgeReads == Declared({"list_knowledge_bases", "list_documents", "get_document_detail",
                            "summarize_document"}, "readOnly", "nothing")
KnowledgeWrites ==
    Declared({"create_knowledge_base"}, "write", "knowledge")
        \cup Declared({"reindex_document"}, "write", "index")
        \cup Declared({"delete_knowledge_base", "delete_document"}, "danger", "deletion")
SearchTools == Declared({"search_knowledge_base", "search_document", "query_structured_data"},
                        "readOnly", "nothing")
ContextTools == Declared({"debug_retrieval", "answer_with_sources"}, "readOnly", "nothing")
InspectionTools == Declared({"inspect_knowledge_base_quality", "compare_retrieval_modes"},
                            "readOnly", "nothing")
UploadTools == Declared({"upload_text_document", "upload_document", "register_staged_upload"},
                        "write", "content")
JobTools ==
    Declared({"start_import_job", "retry_job"}, "write", "job")
        \cup Declared({"cancel_job"}, "write", "cancellation")
        \cup Declared({"get_job_status", "list_recent_jobs"}, "readOnly", "nothing")
ConversationTools ==
    Declared({"list_conversations", "get_conversation"}, "readOnly", "nothing")
        \cup Declared({"save_conversation"}, "write", "conversation")
        \cup Declared({"delete_conversation"}, "danger", "deletion")
EvaluationTools == Declared({"create_eval_case_from_query", "generate_eval_dataset"},
                            "write", "evaluation")
SystemTools == Declared({"get_mcp_capabilities", "get_config_summary"}, "readOnly", "nothing")

Tools == UNION {KnowledgeReads, KnowledgeWrites, SearchTools, ContextTools, InspectionTools,
                UploadTools, JobTools, ConversationTools, EvaluationTools, SystemTools}
-----------------------------------------------------------------------------
(* The arguments *)

\* The type of a job as the client spells it: a word, perhaps with other capitals
\* or with spaces around it; "" is no type, "other" one that is not known.
Words == {"", "import", "reindex", "eval_dataset", "batch_index", "other"}
Spellings == [word : Words, exact : BOOLEAN]

\* Mutant: the type is compared as it is spelled.
AsSpelled(spelling) == IF spelling.exact THEN spelling.word ELSE "other"
\* requiredScopesForToolCall compares it trimmed and in lower case.
Compared(spelling) == spelling.word
\* The handler of start_import_job, and StartMCPImportJobAs after it.
JobType(spelling) == IF spelling.word = "" THEN "import" ELSE spelling.word
Startable == {"import", "reindex", "eval_dataset", "batch_index"}
-----------------------------------------------------------------------------
(* The scopes *)

\* isMCPUploadTool.
IsUploadTool(name) ==
    name \in {"upload_text_document", "upload_document", "register_staged_upload", "start_import_job"}

\* requiredScopesForTool.
RequiredScope(t) ==
    CASE t.level = "danger" -> "danger"
      [] t.level # "danger" /\ t.tool \in {"generate_eval_dataset", "create_eval_case_from_query"} -> "eval"
      [] t.level # "danger" /\ IsUploadTool(t.tool) -> "upload"
      [] t.level = "write" /\ t \notin EvaluationTools /\ ~IsUploadTool(t.tool) -> "write"
      [] OTHER -> "read"

\* requiredScopesForToolCall.
RequiredForCall(t, spelling) ==
    IF t.tool # "start_import_job" THEN RequiredScope(t)
    ELSE CASE Compared(spelling) = "reindex" -> "write"
           [] Compared(spelling) = "eval_dataset" -> "eval"
           [] OTHER -> "upload"

\* authorizeScopes, with hasMCPScopes.
Authorized(p, scope) == p # Compatible => {scope, "admin"} \cap held[p] # {}
-----------------------------------------------------------------------------
(* Calls and jobs *)

ToolCallers == ToolKeys \cup {Compatible}
NoJob == [status |-> "none"]
Change(asker, owner, what) == [asker |-> asker, owner |-> owner, what |-> what]

ToolsInit ==
    /\ held \in [ToolKeys -> HeldScopes]
    /\ started = [j \in JobSlots |-> NoJob]
    /\ changed = Change(Compatible, Compatible, "nothing")

\* A tool whose handler does its work itself.
CallTool(p, t) ==
    /\ t.change \notin {"job", "cancellation"}
    /\ Authorized(p, RequiredScope(t))
    /\ changed' = IF t.change = "nothing" THEN changed ELSE Change(p, p, t.change)
    /\ UNCHANGED <<held, started>>

\* The tool of this name, when p may call it.
MayCall(p, name, spelling) ==
    \E t \in JobTools : t.tool = name /\ Authorized(p, RequiredForCall(t, spelling))
Untyped == [word |-> "", exact |-> TRUE]

StartJob(p, j, spelling) ==
    /\ started[j] = NoJob
    /\ MayCall(p, "start_import_job", spelling) /\ JobType(spelling) \in Startable
    /\ started' = [started EXCEPT ![j] = [status |-> "queued", type |-> JobType(spelling),
                                          owner |-> p, asker |-> p]]
    /\ UNCHANGED <<held, changed>>

\* Mutant: every job is the client's.
OwnsAny(p, job) == TRUE
\* mcpJobOwnerMatches.
Owns(p, job) == job.owner # p => Authorized(p, "admin")

\* The child of a failed job has its type and its owner; it stands in its place.
RetryJob(p, j) ==
    /\ started[j].status = "failed"
    /\ MayCall(p, "retry_job", Untyped) /\ Owns(p, started[j])
    /\ started' = [started EXCEPT ![j].status = "queued", ![j].asker = p]
    /\ UNCHANGED <<held, changed>>

CancelJob(p, j) ==
    /\ started[j].status = "queued"
    /\ MayCall(p, "cancel_job", Untyped) /\ Owns(p, started[j])
    /\ started' = [started EXCEPT ![j] = NoJob]
    /\ UNCHANGED <<held, changed>>

WorkOf(type) ==
    CASE type = "reindex" -> "index"
      [] type = "eval_dataset" -> "evaluation"
      [] OTHER -> "content"

\* A job that failed may have done part of its work.
RunJob(j) ==
    /\ started[j].status = "queued"
    /\ \/ started' = [started EXCEPT ![j].status = "failed"]
       \/ started' = [started EXCEPT ![j] = NoJob]
    /\ changed' = Change(started[j].asker, started[j].owner, WorkOf(started[j].type))
    /\ UNCHANGED held

\* A failed job is pruned.
ForgetJob(j) ==
    /\ started[j].status = "failed"
    /\ started' = [started EXCEPT ![j] = NoJob]
    /\ UNCHANGED <<held, changed>>

ToolsNext ==
    \/ \E p \in ToolCallers :
         \/ \E t \in Tools : CallTool(p, t)
         \/ \E j \in JobSlots :
              \/ \E spelling \in Spellings : StartJob(p, j, spelling)
              \/ RetryJob(p, j) \/ CancelJob(p, j)
    \/ \E j \in JobSlots : RunJob(j) \/ ForgetJob(j)

ToolsSpec == ToolsInit /\ [][ToolsNext]_toolVars
-----------------------------------------------------------------------------
(* Properties *)

ChangeKinds == {"knowledge", "index", "deletion", "content", "conversation", "evaluation"}
KeptJobs == [status : {"queued", "failed"}, type : Startable, owner : ToolCallers, asker : ToolCallers]

\* Types of the variables.
ToolsTypeOK ==
    /\ held \in [ToolKeys -> HeldScopes]
    /\ started \in [JobSlots -> {NoJob} \cup KeptJobs]
    /\ changed \in [asker : ToolCallers, owner : ToolCallers, what : ChangeKinds \cup {"nothing"}]

\* The scope that grants a change.
Grants(what) ==
    CASE what = "content" -> "upload"
      [] what = "evaluation" -> "eval"
      [] what = "deletion" -> "danger"
      [] OTHER -> "write"

\* Nothing is changed on behalf of a key whose scopes do not grant that change, and
\* nobody but an administrator has it done for another: whichever tool does it, at
\* once or in a job, however the arguments are spelled, and after a retry too.
ChangesGranted ==
    changed.what # "nothing" =>
        /\ Authorized(changed.owner, Grants(changed.what))
        /\ changed.asker = changed.owner \/ Authorized(changed.asker, "admin")
=============================================================================
