----------------------------- MODULE ChatHistory -----------------------------
(***************************************************************************)
(* Conversations: requests that answer, save, edit and delete run beside   *)
(* each other over the SQLite store, each of its calls one transaction of  *)
(* its own; clearing everything is the one operation that runs alone.      *)
(*                                                                         *)
(* A request holds the read side of conversationLifecycleMu from its first *)
(* step to its last, and takes it once more inside SaveConversation.  The  *)
(* texts of messages are left out, and whether a message or a knowledge    *)
(* base is still there is left open where the code looks for it.           *)
(***************************************************************************)
EXTENDS Integers

CONSTANTS
    Requests,        \* requests, one at a time each
    Conversations,
    Scopes,          \* the knowledge base and document a conversation is about
    Missing          \* what the store has for a conversation it does not know

VARIABLES
    saved,          \* the store: the scope and the version of each conversation
    req,             \* what each request is doing
    locks,           \* read locks each request holds on conversationLifecycleMu
    writer,          \* its write side, which DeleteAllConversations tries to take
    behind,          \* observer: requests whose conversation came into being,
                     \* went away or changed its scope after they began
    cleared          \* observer: requests that were running at the last clear

chatVars == <<saved, req, locks, writer, behind, cleared>>

Kinds == {"chat", "regenerate", "save", "edit", "delete"}

\* A conversation of an earlier version cannot be continued.
Conversation(scope, legacy) == [scope |-> scope, legacy |-> legacy]
ConversationRecords == [scope : Scopes, legacy : BOOLEAN]

Idle == [at |-> "idle"]

ChatInit ==
    /\ saved \in [Conversations -> {Missing} \cup {Conversation(s, TRUE) : s \in Scopes}]
    /\ req = [r \in Requests |-> Idle]
    /\ locks = [r \in Requests |-> 0]
    /\ writer = "free"
    /\ behind = {} /\ cleared = {}
-----------------------------------------------------------------------------
Proceed(r, at) == req' = [req EXCEPT ![r].at = at]

\* The deferred unlocks.
Unlock(r) ==
    /\ req' = [req EXCEPT ![r] = Idle]
    /\ locks' = [locks EXCEPT ![r] = 0]
    /\ behind' = behind \ {r}
    /\ cleared' = cleared \ {r}

\* RLock waits for a writer, one that waits included.
RLock(r) == writer = "free" /\ locks' = [locks EXCEPT ![r] = @ + 1]

\* The step of a kind of request after it has taken the lock.
First(kind) == CASE kind = "chat" -> "validate"
                 [] kind = "save" -> "check"
                 [] kind = "delete" -> "delete"
                 [] OTHER -> "header"

\* Mutant: a chat takes the lock only to save.
BeginUnlocked(r) ==
    \E kind \in Kinds, c \in Conversations, s \in Scopes :
        /\ req[r] = Idle /\ writer = "free"
        /\ req' = [req EXCEPT ![r] = [at |-> First(kind), kind |-> kind, conversation |-> c,
                                      record |-> Conversation(s, FALSE)]]
        /\ locks' = [locks EXCEPT ![r] = IF kind = "chat" THEN 0 ELSE 1]
        /\ UNCHANGED <<saved, writer, behind, cleared>>

\* BeginConversationRequest.
Begin(r) ==
    \E kind \in Kinds, c \in Conversations, s \in Scopes :
        /\ req[r] = Idle
        /\ RLock(r)
        /\ req' = [req EXCEPT ![r] = [at |-> First(kind), kind |-> kind, conversation |-> c,
                                      record |-> Conversation(s, FALSE)]]
        /\ UNCHANGED <<saved, writer, behind, cleared>>

\* GetConversation, of a regeneration, an edit, a deletion of a message: the row
\* of the conversation ...
ReadHeader(r) ==
    LET c == req[r].conversation IN
    /\ req[r].at = "header"
    /\ \/ /\ saved[c] # Missing
          /\ req' = [req EXCEPT ![r].at = "messages", ![r].record = saved[c]]
          /\ UNCHANGED <<locks, behind, cleared>>
       \/ Unlock(r)
    /\ UNCHANGED <<saved, writer>>

\* ... and then its messages, by a query of its own.  The message may not be
\* there, may be the last one, or may not be one that can be answered again.
ReadMessages(r) ==
    /\ req[r].at = "messages"
    /\ \/ /\ saved[req[r].conversation] # Missing
          /\ Proceed(r, IF req[r].kind = "regenerate" THEN "validate" ELSE "write")
          /\ UNCHANGED <<locks, behind, cleared>>
       \/ Unlock(r)
    /\ UNCHANGED <<saved, writer>>

\* A conversation that may be saved with a record's scope, as far as it is known.
Admits(c, record) == saved[c] \in {Missing, Conversation(record.scope, FALSE)}

\* ValidateChatRequestScope; the knowledge base may be gone.
Validate(r) ==
    /\ req[r].at = "validate"
    /\ \/ /\ Admits(req[r].conversation, req[r].record)
          /\ Proceed(r, "generate")
          /\ UNCHANGED <<locks, behind, cleared>>
       \/ Unlock(r)
    /\ UNCHANGED <<saved, writer>>

\* Retrieval and the model, which may fail.
Generate(r) ==
    /\ req[r].at = "generate"
    /\ \/ Proceed(r, "lock") /\ UNCHANGED <<locks, behind, cleared>>
       \/ Unlock(r)
    /\ UNCHANGED <<saved, writer>>

\* SaveConversation begins a conversation request of its own.
LockAgain(r) ==
    /\ req[r].at = "lock"
    /\ RLock(r)
    /\ Proceed(r, "check")
    /\ UNCHANGED <<saved, writer, behind, cleared>>

\* Mutant: an existing conversation is overwritten with any scope.
CheckedAlways(c, record) == TRUE
\* The scope and the version of what is stored now.
Checked(c, record) == Admits(c, record)

\* SaveConversation reads what is stored under the conversation's name; a request
\* without messages or without a name is refused as well.
CheckScope(r) ==
    /\ req[r].at = "check"
    /\ \/ /\ Checked(req[r].conversation, req[r].record)
          /\ req' = [req EXCEPT ![r].at = "write", ![r].record = Conversation(@.scope, FALSE)]
          /\ UNCHANGED <<locks, behind, cleared>>
       \/ Unlock(r)
    /\ UNCHANGED <<saved, writer>>

\* Requests about a conversation, but for the one that makes a change to it.
Others(r, c) == {q \in Requests : req[q] # Idle /\ q # r /\ req[q].conversation = c}

\* The whole record is written in one transaction, or not at all: a save as it
\* was checked, an edit with the header it has read.
WriteRecord(r) ==
    LET c == req[r].conversation IN
    /\ req[r].at = "write"
    /\ \/ /\ saved' = [saved EXCEPT ![c] = req[r].record]
          /\ behind' = (behind \cup IF saved[c] # req[r].record THEN Others(r, c) ELSE {}) \ {r}
          /\ req' = [req EXCEPT ![r] = Idle]
          /\ locks' = [locks EXCEPT ![r] = 0]
          /\ cleared' = cleared \ {r}
       \/ Unlock(r) /\ UNCHANGED saved
    /\ UNCHANGED writer

DeleteConversation(r) ==
    LET c == req[r].conversation IN
    /\ req[r].at = "delete"
    /\ \/ /\ saved' = [saved EXCEPT ![c] = Missing]
          /\ behind' = (behind \cup Others(r, c)) \ {r}
          /\ req' = [req EXCEPT ![r] = Idle]
          /\ locks' = [locks EXCEPT ![r] = 0]
          /\ cleared' = cleared \ {r}
       \/ Unlock(r) /\ UNCHANGED saved
    /\ UNCHANGED writer
-----------------------------------------------------------------------------
(* DeleteAllConversations *)

NoReader == \A r \in Requests : locks[r] = 0

\* Mutant: the lock is waited for; from then on no reader gets in.
LockWaits ==
    /\ writer = "free"
    /\ writer' = "locked"
    /\ UNCHANGED <<saved, req, locks, behind, cleared>>

\* TryLock: the clear is refused while any request runs.
TryLock ==
    /\ writer = "free" /\ NoReader
    /\ writer' = "locked"
    /\ UNCHANGED <<saved, req, locks, behind, cleared>>

\* Both tables in one transaction, or nothing; then the lock is given back.
ClearAll ==
    /\ writer = "locked" /\ NoReader
    /\ \/ /\ saved' = [c \in Conversations |-> Missing]
          /\ cleared' = {r \in Requests : req[r] # Idle}
          /\ behind' = cleared'
       \/ UNCHANGED <<saved, behind, cleared>>
    /\ writer' = "free"
    /\ UNCHANGED <<req, locks>>

Step(r) == \/ ReadHeader(r) \/ ReadMessages(r) \/ Validate(r) \/ Generate(r)
           \/ LockAgain(r) \/ CheckScope(r) \/ WriteRecord(r) \/ DeleteConversation(r)

ChatNext == TryLock \/ ClearAll \/ \E r \in Requests : Begin(r) \/ Step(r)

\* Requests run on, a call of a model ends at its timeout, and so does a clear.
ChatFairness == WF_chatVars(ClearAll) /\ \A r \in Requests : WF_chatVars(Step(r))

ChatSpec == ChatInit /\ [][ChatNext]_chatVars /\ ChatFairness
-----------------------------------------------------------------------------
(* Properties *)

ConversationRequests ==
    [at : {"header", "messages", "validate", "generate", "lock", "check", "write", "delete"},
     kind : Kinds, conversation : Conversations, record : ConversationRecords]

\* Types of the variables.
ChatTypeOK ==
    /\ saved \in [Conversations -> ConversationRecords \cup {Missing}]
    /\ req \in [Requests -> {Idle} \cup ConversationRequests]
    /\ locks \in [Requests -> 0..2]
    /\ writer \in {"free", "locked"}
    /\ behind \subseteq Requests /\ cleared \subseteq Requests

\* Clearing everything is final: no request that was already running, a long
\* generation in particular, writes a conversation back afterwards.
ClearIsFinal ==
    [][\A c \in Conversations :
          saved'[c] # saved[c] /\ saved'[c] # Missing =>
             \E r \in Requests \ cleared :
                req[r] # Idle /\ req[r].conversation = c /\ req'[r] = Idle]_chatVars

\* A conversation stays in its scope, and one of an earlier version stays behind:
\* it takes a request that was already running when the conversation came into
\* being to change either, whatever else runs.
ScopeKept ==
    [][\A c \in Conversations :
          saved[c] # Missing /\ saved'[c] \notin {Missing, saved[c]} =>
             \E r \in behind : req[r].conversation = c /\ req'[r] = Idle]_chatVars

\* What requests owe: each ends, and the lock one takes twice does not wait for a
\* clear that waits for the request.
Unended(r) == req[r] # Idle
=============================================================================
