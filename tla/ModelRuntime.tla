----------------------------- MODULE ModelRuntime -----------------------------
(***************************************************************************)
(* modelRuntimeScheduler: calls of a local model wait in two bounded       *)
(* queues, one of them preferred, for a single goroutine that makes them   *)
(* one at a time, and LLMService, which makes a call with a few attempts   *)
(* and may stream its answer to the client while it runs.                  *)
(*                                                                         *)
(* A caller can leave at any point: when the queue stays full, or when its *)
(* context ends, also while its job is running.  Its job stays where it is *)
(* and is still run, with an ended context.                                *)
(***************************************************************************)
EXTENDS Integers, Sequences, FiniteSets, SequencesExt

CONSTANTS
    Callers,      \* goroutines that call a model, one call at a time
    High,         \* those with high priority; the others probe a connection
    Streams,      \* those of High whose answer is streamed
    QueueSize,    \* the capacity of each queue
    Pieces        \* bound: pieces of a streamed answer

ASSUME RuntimeConstants ==
    /\ High \subseteq Callers /\ Streams \subseteq High
    /\ QueueSize \in Nat \ {0} /\ Pieces \in Nat \ {0}

VARIABLES
    call,         \* what each caller is doing
    queue,        \* highQueue and lowQueue: jobs
    blocked,      \* for each queue, the callers that wait for room in it
    loop,         \* the goroutine that makes the calls
    answer,       \* result: the channel of each caller's job, of capacity one
    shown,        \* pieces shown to the client of each caller's call
    replay        \* a stream that broke off with an error report of the model
                  \* service after it had shown something was attempted again

runtimeVars == <<call, queue, blocked, loop, answer, shown, replay>>

Priorities == {"high", "low"}
Priority(c) == IF c \in High THEN "high" ELSE "low"

\* A job of a caller that has given up is not wanted any more.
Job(c)  == [caller |-> c, wanted |-> TRUE]
Left(job, c) == [job EXCEPT !.wanted = @ /\ job.caller # c]

\* The attempts retryModelCall makes: of a chat, of a stream; a probe and an
\* embedding call have one.
Attempts(c) == IF c \in Streams THEN 2 ELSE IF c \in High THEN 3 ELSE 1

Polling == [at |-> "poll"]
Asleep  == [at |-> "wait"]

RuntimeInit ==
    /\ call = [c \in Callers |-> "idle"]
    /\ queue = [p \in Priorities |-> <<>>]
    /\ blocked = [p \in Priorities |-> <<>>]
    /\ loop \in {Polling, Asleep}   \* it has found nothing yet
    /\ answer = [c \in Callers |-> "none"]
    /\ shown = [c \in Callers |-> 0]
    /\ replay = [c \in Callers |-> FALSE]
-----------------------------------------------------------------------------
(* Callers: run *)

\* A job goes into its queue at once when there is room.
Call(c) ==
    LET p == Priority(c) IN
    /\ call[c] = "idle"
    /\ shown' = [shown EXCEPT ![c] = 0]
    /\ replay' = [replay EXCEPT ![c] = FALSE]
    /\ IF Len(queue[p]) < QueueSize
       THEN /\ queue' = [queue EXCEPT ![p] = Append(@, Job(c))]
            /\ call' = [call EXCEPT ![c] = "waiting"]
            /\ UNCHANGED blocked
       ELSE /\ blocked' = [blocked EXCEPT ![p] = Append(@, c)]
            /\ call' = [call EXCEPT ![c] = "sending"]
            /\ UNCHANGED queue
    /\ UNCHANGED <<loop, answer>>

\* The enqueue timeout, or the end of the context before there was room.
LeaveQueue(c) ==
    LET p == Priority(c) IN
    /\ call[c] = "sending"
    /\ call' = [call EXCEPT ![c] = "idle"]
    /\ \E i \in DOMAIN blocked[p] :
         blocked[p][i] = c /\ blocked' = [blocked EXCEPT ![p] = RemoveAt(@, i)]
    /\ UNCHANGED <<queue, loop, answer, shown, replay>>

\* The context ends while the job waits, runs, or has just been answered.
GiveUp(c) ==
    /\ call[c] = "waiting"
    /\ call' = [call EXCEPT ![c] = "idle"]
    /\ queue' = [p \in Priorities |->
                    [i \in DOMAIN queue[p] |-> Left(queue[p][i], c)]]
    /\ loop' = IF loop.at \in {"call", "deliver"}
               THEN [loop EXCEPT !.job = Left(@, c)] ELSE loop
    /\ answer' = [answer EXCEPT ![c] = "none"]
    /\ UNCHANGED <<blocked, shown, replay>>

Receive(c) ==
    /\ call[c] = "waiting" /\ answer[c] # "none"
    /\ call' = [call EXCEPT ![c] = "idle"]
    /\ answer' = [answer EXCEPT ![c] = "none"]
    /\ UNCHANGED <<queue, blocked, loop, shown, replay>>
-----------------------------------------------------------------------------
(* The goroutine: loop, takeNextJob *)

\* Mutant: the caller that waited for room is woken without its job.
TakenForgetful(p) ==
    /\ queue' = [queue EXCEPT ![p] = Tail(@)]
    /\ blocked' = [blocked EXCEPT ![p] = IF @ = <<>> THEN @ ELSE Tail(@)]
    /\ call' = IF blocked[p] = <<>> THEN call
               ELSE [call EXCEPT ![Head(blocked[p])] = "waiting"]

\* A receive from a full channel lets the first caller that waits put its job.
Taken(p) ==
    IF blocked[p] = <<>>
    THEN queue' = [queue EXCEPT ![p] = Tail(@)] /\ UNCHANGED <<blocked, call>>
    ELSE LET next == Head(blocked[p]) IN
         /\ queue' = [queue EXCEPT ![p] = Append(Tail(@), Job(next))]
         /\ blocked' = [blocked EXCEPT ![p] = Tail(@)]
         /\ call' = [call EXCEPT ![next] = "waiting"]

\* The job's function, which looks at the context before its first attempt.
Started(job) ==
    IF job.wanted THEN [at |-> "call", job |-> job, attempt |-> 1, sent |-> 0]
    ELSE [at |-> "deliver", job |-> job, result |-> "error"]

Take(p) ==
    /\ queue[p] # <<>>
    /\ Taken(p)
    /\ loop' = Started(Head(queue[p]))
    /\ UNCHANGED <<answer, shown, replay>>

\* The first select: the high queue only, without waiting.
Poll ==
    /\ loop.at = "poll"
    /\ \/ Take("high")
       \/ /\ queue["high"] = <<>>
          /\ loop' = Asleep
          /\ UNCHANGED <<call, queue, blocked, answer, shown, replay>>

\* The second one: whatever comes first, and either when both are there.
Wait == loop = Asleep /\ \E p \in Priorities : Take(p)

\* Mutant: the result channel has no buffer.
DeliverUnbuffered ==
    /\ loop.at = "deliver" /\ loop.job.wanted
    /\ answer' = [answer EXCEPT ![loop.job.caller] = loop.result]
    /\ loop' = Polling
    /\ UNCHANGED <<call, queue, blocked, shown, replay>>

\* The result goes into the channel's buffer whether or not anybody waits.
Deliver ==
    /\ loop.at = "deliver"
    /\ answer' = IF loop.job.wanted
                 THEN [answer EXCEPT ![loop.job.caller] = loop.result] ELSE answer
    /\ loop' = Polling
    /\ UNCHANGED <<call, queue, blocked, shown, replay>>
-----------------------------------------------------------------------------
(* The call: retryModelCall around ollamaChat and ollamaStreamChat *)

Ended(result) == loop' = [at |-> "deliver", job |-> loop.job, result |-> result]

\* A stream shows each piece as it comes, to a client that is still there.
Piece ==
    /\ loop.at = "call" /\ loop.job.caller \in Streams /\ loop.sent < Pieces
    /\ loop' = [loop EXCEPT !.sent = @ + 1]
    /\ shown' = IF loop.job.wanted THEN [shown EXCEPT ![loop.job.caller] = @ + 1]
                ELSE shown
    /\ UNCHANGED <<call, queue, blocked, answer, replay>>

\* The answer is complete; an empty one is an error.
Complete ==
    /\ loop.at = "call"
    /\ loop.job.caller \in Streams => loop.sent > 0
    /\ Ended("ok")
    /\ UNCHANGED <<call, queue, blocked, answer, shown, replay>>

\* An error that no further attempt would cure, the end of the stream before the
\* answer is complete, the end of the context, the end of the attempts.
FailFinal ==
    /\ loop.at = "call"
    /\ Ended("error")
    /\ UNCHANGED <<call, queue, blocked, answer, shown, replay>>

\* Mutant: any interrupted stream is attempted again.
ReplayableAlways(report) == TRUE
\* A stream that has shown something is attempted again only after an error the
\* service itself reported; any other interruption stops (stopRetryError).
Replayable(report) == loop.sent = 0 \/ report

\* A transient error (isRetryableModelError) before the last attempt; the
\* context ends the wait between two attempts.
FailTransient ==
    /\ loop.at = "call"
    /\ loop.attempt < Attempts(loop.job.caller) /\ loop.job.wanted
    /\ \E report \in BOOLEAN :
         /\ Replayable(report)
         /\ replay' = [replay EXCEPT ![loop.job.caller] = @ \/ (loop.sent > 0 /\ report)]
    /\ loop' = [loop EXCEPT !.attempt = @ + 1, !.sent = 0]
    /\ UNCHANGED <<call, queue, blocked, answer, shown>>

CallStep == Piece \/ Complete \/ FailFinal \/ FailTransient
LoopStep == Poll \/ Wait \/ Deliver \/ CallStep

RuntimeNext ==
    \/ \E c \in Callers : Call(c) \/ LeaveQueue(c) \/ GiveUp(c) \/ Receive(c)
    \/ LoopStep

\* The goroutine runs and the HTTP client's timeout ends every call.
RuntimeFairness == WF_runtimeVars(LoopStep)

RuntimeSpec == RuntimeInit /\ [][RuntimeNext]_runtimeVars /\ RuntimeFairness
-----------------------------------------------------------------------------
(* Properties *)

Jobs == [caller : Callers, wanted : BOOLEAN]

\* Types of the variables.
RuntimeTypeOK ==
    /\ call \in [Callers -> {"idle", "sending", "waiting"}]
    /\ queue \in [Priorities -> Seq(Jobs)]
    /\ \A p \in Priorities : Len(queue[p]) <= QueueSize
    /\ blocked \in [Priorities -> Seq(Callers)]
    /\ loop \in [at : {"poll", "wait"}]
                \cup [at : {"call"}, job : Jobs, attempt : 1..3, sent : 0..Pieces]
                \cup [at : {"deliver"}, job : Jobs, result : {"ok", "error"}]
    /\ answer \in [Callers -> {"none", "ok", "error"}]
    /\ shown \in [Callers -> Nat]
    /\ replay \in [Callers -> BOOLEAN]

Queued(c)  == {spot \in Priorities \X (1..QueueSize) :
                  LET jobs == queue[spot[1]] IN
                  spot[2] <= Len(jobs) /\ jobs[spot[2]] = Job(c)}
Running(c) == loop.at \in {"call", "deliver"} /\ loop.job = Job(c)

\* A caller that waits has one job, which is queued, or runs, or is answered;
\* callers that were blocked on a full queue and callers that left, and called
\* again while their old job was still there, change nothing about that.
OneJobEach ==
    \A c \in Callers :
        Cardinality(Queued(c)) + (IF Running(c) THEN 1 ELSE 0)
          + (IF answer[c] # "none" THEN 1 ELSE 0)
        = IF call[c] = "waiting" THEN 1 ELSE 0

\* What a client is shown is the output of one attempt: a stream is not repeated
\* after partial output, whatever interrupted it, unless the model service had
\* reported an error in the stream.
StreamOnce ==
    \A c \in Callers :
        \/ replay[c] \/ call[c] # "waiting" \/ shown[c] = 0
        \/ answer[c] # "none"
        \/ loop.at = "deliver"
        \/ Running(c) /\ shown[c] = loop.sent

\* What the goroutine owes: a caller that waits is answered, or gives up, in the
\* end; jobs nobody waits for any more do not block the goroutine.
Unanswered(c) == call[c] = "waiting" /\ answer[c] = "none"
=============================================================================
