----------------------------- MODULE EvalDatasets -----------------------------
(***************************************************************************)
(* Evaluation datasets and the runs over them.                             *)
(*                                                                         *)
(* A request changes the state in memory under its lock, releases the lock *)
(* and saves the whole state; when the save fails it locks again and puts  *)
(* back the dataset it saw before.  Saves by other requests, a run that    *)
(* takes minutes and a crash fall in between.                              *)
(*                                                                         *)
(* Of an item only its last change counts: a stamp, which is new with      *)
(* every change, and whether the item is there since.                      *)
(***************************************************************************)
EXTENDS Naturals, FiniteSets

CONSTANTS
    EvalRequests, \* HTTP requests and jobs, one at a time each
    Datasets,     \* identifiers of datasets, each used once
    Cases,        \* identifiers of items
    RunLimit,     \* runs kept for a knowledge base
    EvalModes,    \* of "overlap", "faultySaves": see CanAsk, EvalSaveFails
    MaxStamp,     \* bound: changes
    MaxEvalFaults \* bound: failed saves and crashes

ASSUME EvalConstants ==
    /\ RunLimit \in Nat /\ MaxStamp \in Nat /\ MaxEvalFaults \in Nat
    /\ EvalModes \subseteq {"overlap", "faultySaves"}

VARIABLES
    evals,        \* the datasets and runs in memory
    evalFile,     \* those in the state file
    doing,        \* what each request is doing
    stamp,        \* changes so far
    evalMode,     \* whether requests overlap, or saves fail
    evalFaults,   \* faults so far
    reported,     \* observer: the last change of each item reported as saved
    dropped       \* observer: datasets a request set out to delete, or reports deleted

evalVars == <<evals, evalFile, doing, stamp, evalMode, evalFaults, reported, dropped>>

NoSet == [kind |-> "none"]
NoCase == [stamp |-> 0, there |-> FALSE]
Free == [at |-> "idle"]

\* The datasets of one knowledge base, and those over all of them.
Scope == {"base", "all"}
Absentee == [c \in Cases |-> NoCase]
NewSet(kind, over, cases) == [kind |-> kind, over |-> over, cases |-> cases]

EvalInit ==
    /\ evalMode \in EvalModes
    /\ evals = [sets |-> [d \in Datasets |-> NoSet], runs |-> {}]
    /\ evalFile = evals
    /\ doing = [r \in EvalRequests |-> Free]
    /\ stamp = 0 /\ evalFaults = 0
    /\ reported = [d \in Datasets |-> [c \in Cases |-> 0]]
    /\ dropped = [started |-> {}, done |-> {}]
-----------------------------------------------------------------------------
(* Helpers *)

Exists(st, d) == st.sets[d] # NoSet

\* No identifier is handed out twice.
Untaken == {d \in Datasets : ~Exists(evals, d) /\ ~Exists(evalFile, d)
              /\ d \notin dropped.started
              /\ \A c \in Cases : reported[d][c] = 0
              /\ \A r \in EvalRequests : doing[r].at \in {"save", "undo"} => doing[r].set # d}

CanAsk(r) ==
    /\ doing[r] = Free
    /\ evalMode = "faultySaves" => \A q \in EvalRequests : doing[q] = Free

Stamped == stamp < MaxStamp /\ stamp' = stamp + 1
WithCase(dataset, c, there) == [dataset EXCEPT !.cases[c] = [stamp |-> stamp + 1, there |-> there]]

\* Mutant: the copy to go back to shares its items with the dataset.
ToSaveShared(r, d, before, ack) ==
    doing' = [doing EXCEPT ![r] = [at |-> "save", set |-> d, ack |-> ack, stamp |-> stamp + 1,
                                 before |-> IF before.set = NoSet THEN before
                                            ELSE [before EXCEPT !.set = evals'.sets[d]]]]
\* After the change: the dataset as it was, to go back to, and what to report.
ToSave(r, d, before, ack) ==
    doing' = [doing EXCEPT ![r] = [at |-> "save", set |-> d, ack |-> ack, stamp |-> stamp + 1,
                                 before |-> before]]

EvalDone(r) == doing' = [doing EXCEPT ![r] = Free]
Was(d, removed) == [set |-> evals.sets[d], runs |-> removed]
Nowhere == [set |-> NoSet, runs |-> {}]
Aside == UNCHANGED <<evalFile, evalMode, evalFaults, reported>>
-----------------------------------------------------------------------------
(* Requests *)

\* GenerateEvalDatasetWithContext reads the documents and, without the lock, builds
\* the cases; Stop: no document, no case, an unreadable file, or a cancelled job.
ReadDocuments(r, over) ==
    /\ CanAsk(r)
    /\ doing' = [doing EXCEPT ![r] = [at |-> "generate", over |-> over]]
    /\ UNCHANGED <<evals, stamp, dropped>> /\ Aside

Stop(r) ==
    /\ doing[r].at \in {"generate", "add", "run"}
    /\ EvalDone(r)
    /\ UNCHANGED <<evals, stamp, dropped>> /\ Aside

\* saveEvalDataset, before its save.
InsertDataset(r, d, chosen) ==
    /\ doing[r].at = "generate" /\ d \in Untaken /\ chosen # {}
    /\ Stamped
    /\ evals' = [evals EXCEPT !.sets[d] =
                    NewSet("generated", doing[r].over,
                           [c \in Cases |-> IF c \in chosen THEN [stamp |-> stamp + 1, there |-> TRUE]
                                            ELSE NoCase])]
    /\ ToSave(r, d, Nowhere, chosen)
    /\ UNCHANGED dropped /\ Aside

\* AddEvalDatasetCandidate: resolveEvalCandidateScope looks at the knowledge base
\* and unlocks; the candidate goes to a review dataset of it, or to a new one, in
\* the place of a candidate with its identifier.
ResolveScope(r) ==
    /\ CanAsk(r)
    /\ doing' = [doing EXCEPT ![r] = [at |-> "add"]]
    /\ UNCHANGED <<evals, stamp, dropped>> /\ Aside

Review == {d \in Datasets : evals.sets[d] # NoSet /\ evals.sets[d].kind = "review"}

AddCandidate(r, d, c) ==
    /\ doing[r].at = "add"
    /\ d \in IF Review = {} THEN Untaken ELSE Review
    /\ Stamped
    /\ evals' = [evals EXCEPT !.sets[d] =
                    WithCase(IF Review = {} THEN NewSet("review", "base", Absentee) ELSE @, c, TRUE)]
    /\ ToSave(r, d, Was(d, {}), {c})
    /\ UNCHANGED dropped /\ Aside

\* UpdateEvalDatasetItem, and DeleteEvalDatasetItem when there is FALSE.
ChangeItem(r, d, c, there) ==
    /\ CanAsk(r) /\ Exists(evals, d) /\ evals.sets[d].cases[c].there
    /\ Stamped
    /\ evals' = [evals EXCEPT !.sets[d] = WithCase(@, c, there)]
    /\ ToSave(r, d, Was(d, {}), {c})
    /\ UNCHANGED dropped /\ Aside

\* DeleteEvalDataset takes the runs of the dataset with it.
DeleteDataset(r, d) ==
    LET removed == {run \in evals.runs : run.set = d} IN
    /\ CanAsk(r) /\ Exists(evals, d)
    /\ evals' = [sets |-> [evals.sets EXCEPT ![d] = NoSet], runs |-> evals.runs \ removed]
    /\ ToSave(r, d, Was(d, removed), {})
    /\ dropped' = [dropped EXCEPT !.started = @ \cup {d}]
    /\ UNCHANGED stamp /\ Aside

\* RunEvalDataset copies the dataset and works on the copy; nobody holds a lock.
StartRun(r, d) ==
    /\ CanAsk(r) /\ Exists(evals, d) /\ \E c \in Cases : evals.sets[d].cases[c].there
    /\ Stamped
    /\ doing' = [doing EXCEPT ![r] = [at |-> "run", set |-> d, over |-> evals.sets[d].over,
                                    started |-> stamp + 1]]
    /\ UNCHANGED <<evals, dropped>> /\ Aside

OfBase(runs) == {run \in runs : run.over = "base"}
Later(runs, run) == {other \in OfBase(runs) : other.started > run.started}

\* pruneEvalRunHistoryLocked: the runs of a knowledge base that started last.
PrunedRuns(runs) == {run \in runs : run.over = "all" \/ Cardinality(Later(runs, run)) < RunLimit}

\* saveEvalRun: whether the dataset is still there is not looked at.
FinishRun(r) ==
    LET run == [set |-> doing[r].set, over |-> doing[r].over, started |-> doing[r].started]
        runs == evals.runs \cup {run}
    IN
    /\ doing[r].at = "run"
    /\ evals' = [evals EXCEPT !.runs = IF run.over = "base" THEN PrunedRuns(runs) ELSE runs]
    /\ doing' = [doing EXCEPT ![r] = [at |-> "saveRun"]]
    /\ UNCHANGED <<stamp, dropped>> /\ Aside
-----------------------------------------------------------------------------
(* Saves *)

EvalSaveFails ==
    /\ evalMode = "faultySaves" /\ evalFaults < MaxEvalFaults
    /\ evalFaults' = evalFaults + 1

SavedAndReported(r) ==
    LET job == doing[r] IN
    /\ job.at = "save"
    /\ evalFile' = evals
    /\ reported' = [reported EXCEPT ![job.set] =
                       [c \in Cases |-> IF c \in job.ack /\ job.stamp > @[c] THEN job.stamp ELSE @[c]]]
    /\ dropped' = IF job.ack = {} THEN [dropped EXCEPT !.done = @ \cup {job.set}] ELSE dropped
    /\ EvalDone(r)
    /\ UNCHANGED <<evals, stamp, evalMode, evalFaults>>

SaveRefused(r) ==
    /\ doing[r].at = "save" /\ EvalSaveFails
    /\ doing' = [doing EXCEPT ![r].at = "undo"]
    /\ UNCHANGED <<evals, evalFile, stamp, evalMode, reported, dropped>>

\* The dataset as it was goes back over whatever is there by now.
Undo(r) ==
    LET job == doing[r] IN
    /\ job.at = "undo"
    /\ evals' = [sets |-> [evals.sets EXCEPT ![job.set] = job.before.set],
                 runs |-> evals.runs \cup job.before.runs]
    /\ EvalDone(r)
    /\ UNCHANGED <<stamp, dropped>> /\ Aside

\* A run that could not be saved stays in memory, and RunEvalDataset reports an error.
SaveRun(r) ==
    /\ doing[r].at = "saveRun"
    /\ \/ evalFile' = evals /\ UNCHANGED evalFaults
       \/ EvalSaveFails /\ UNCHANGED evalFile
    /\ EvalDone(r)
    /\ UNCHANGED <<evals, stamp, evalMode, reported, dropped>>

EvalCrash ==
    /\ evalFaults < MaxEvalFaults
    /\ evalFaults' = evalFaults + 1
    /\ evals' = evalFile
    /\ doing' = [r \in EvalRequests |-> Free]
    /\ UNCHANGED <<evalFile, stamp, evalMode, reported, dropped>>
-----------------------------------------------------------------------------
EvalStep(r) ==
    \/ \E over \in Scope : ReadDocuments(r, over)
    \/ ResolveScope(r) \/ Stop(r)
    \/ \E d \in Datasets :
         \/ \E chosen \in SUBSET Cases : InsertDataset(r, d, chosen)
         \/ \E c \in Cases :
              \/ AddCandidate(r, d, c)
              \/ \E there \in BOOLEAN : ChangeItem(r, d, c, there)
         \/ DeleteDataset(r, d) \/ StartRun(r, d)
    \/ FinishRun(r) \/ SaveRun(r)
    \/ SavedAndReported(r) \/ SaveRefused(r) \/ Undo(r)

EvalNext == (\E r \in EvalRequests : EvalStep(r)) \/ EvalCrash

EvalSpec == EvalInit /\ [][EvalNext]_evalVars
-----------------------------------------------------------------------------
(* Properties *)

CaseStates == [stamp : 0..MaxStamp, there : BOOLEAN]
Contents == {NoSet} \cup [kind : {"generated", "review"}, over : Scope, cases : [Cases -> CaseStates]]
Runs == [set : Datasets, over : Scope, started : 1..MaxStamp]

\* Types of the variables; the runs kept for a knowledge base are within the limit.
EvalTypeOK ==
    /\ \A st \in {evals, evalFile} :
         /\ DOMAIN st.sets = Datasets /\ \A d \in Datasets : st.sets[d] \in Contents
         /\ st.runs \subseteq Runs
         /\ Cardinality(OfBase(st.runs)) <= RunLimit
    /\ DOMAIN doing = EvalRequests
    /\ \A r \in EvalRequests :
         doing[r].at \in {"idle", "generate", "add", "run", "save", "saveRun", "undo"}
    /\ stamp \in 0..MaxStamp /\ evalMode \in EvalModes /\ evalFaults \in 0..MaxEvalFaults
    /\ reported \in [Datasets -> [Cases -> 0..MaxStamp]]
    /\ dropped.done \subseteq dropped.started /\ dropped.started \subseteq Datasets

\* While requests overlap, or saves fail, but not both (evalMode): a change of a dataset
\* that was reported as saved is kept, in memory and in the file, until a later change
\* of the same item or the deletion of the dataset; a deleted dataset stays deleted; and
\* once no request is at work, memory has the datasets of the file, so that a request
\* that reported an error has put its dataset back, and, where no save fails, its runs
\* (a run whose save failed stays in memory).
EvalsKept ==
    /\ \A st \in {evals, evalFile}, d \in Datasets :
         /\ d \in dropped.done => ~Exists(st, d)
         /\ d \notin dropped.started =>
              \A c \in Cases : reported[d][c] > 0 =>
                  Exists(st, d) /\ st.sets[d].cases[c].stamp >= reported[d][c]
    /\ (\A r \in EvalRequests : doing[r] = Free) =>
          /\ evals.sets = evalFile.sets
          /\ evalMode = "overlap" => evals.runs = evalFile.runs
=============================================================================
