------------------------------- MODULE Driver -------------------------------
(***************************************************************************)
(* The driver of a remote query: RemoteStageRunner of                      *)
(* src/src/cluster/remote.rs.  It submits a graph of stages, polls until   *)
(* all of them succeeded, fetches the output of the final stage from the   *)
(* workers, deletes the blocks, and after a recoverable failure abandons   *)
(* the graph and computes it again under a new query identity.             *)
(*                                                                         *)
(* The coordinator is OutputCommit, the promise that Coordinator is shown  *)
(* to implement, with partitions that may fail and workers that may be     *)
(* lost.  A call is one step: it is served and answered, served with its   *)
(* answer lost, or fails.  The coordinator keeps everything in memory: a   *)
(* restart forgets it, with the calls under way.  The driver may also give *)
(* up on a call that is still under way.  A submission may then be served  *)
(* later; a cancellation or deletion served late is one by somebody else,  *)
(* or a block lost.                                                        *)
(***************************************************************************)
EXTENDS Integers, Sequences, FiniteSets, SequencesExt

CONSTANTS
  Requests,          \* what execute_graph may be called with
  StageId,           \* stage numbers
  PartitionId,       \* partition numbers
  Outputs,           \* manifests a partition may commit
  MaxQueryRetries,
  MaxRestarts,       \* restarts of the coordinator
  MaxUnlisted        \* partitions with blocks nobody lists, at a time

\* A request: the stages in the order of their submission, numbered from 1, the
\* stage whose output is the result, and delete_output_after_fetch.
ASSUME RequestAssumption ==
  \A r \in Requests :
    /\ r.stages \in Seq([inputs : SUBSET Nat, partitions : Nat])
    /\ r.final \in DOMAIN r.stages
    /\ r.delete \in BOOLEAN
    /\ \A s \in DOMAIN r.stages :
         /\ s \in StageId
         /\ r.stages[s].inputs \subseteq 1 .. s - 1
         /\ 0 .. r.stages[s].partitions - 1 \subseteq PartitionId

\* Partition numbers and manifests of blocks.
ASSUME IdAssumption == PartitionId \subseteq Nat /\ Outputs \subseteq Seq(Nat)

ASSUME RetryAssumption ==
  MaxQueryRetries \in Nat /\ MaxRestarts \in Nat /\ MaxUnlisted \in Nat

\* Attempt a of the query runs under identity a: recovery_query_id never repeats.
Query == 0 .. MaxQueryRetries
PlanOf(r, q, s) ==
  [query |-> q, stage |-> s, inputs |-> r.stages[s].inputs,
   partitions |-> r.stages[s].partitions, exchange |-> 0]

StageKey == Query \X StageId
PartitionKey == Query \X StageId \X PartitionId
StagePlans ==
  UNION {{PlanOf(r, q, s) : q \in Query, s \in DOMAIN r.stages} : r \in Requests}
NoStage == [query |-> -1, stage |-> -1, inputs |-> {}, partitions |-> 0,
            exchange |-> 0]
NoOutput == [attempt |-> -1, blocks |-> << >>]

VARIABLES
  plan, output, closed,   \* the coordinator, as in OutputCommit
  failed,      \* partition -> "no", "retryable" or "fatal"
  held,        \* blocks that some live worker's data plane holds
  restarts,    \* restarts of the coordinator so far
  late,        \* submissions that the driver gave up on and may still be served
  request,     \* the driver's arguments
  token,       \* the client's CancellationToken
  expired,     \* the deadline has passed
  d,           \* the driver's locals, see Locals
  ever,        \* history: partition -> the output it committed, restarts or not
  cleaned,     \* history: queries whose cleanup went through to its end
  fatal        \* history: queries seen failed when a partition had failed for good,
               \* and not cancelled or forgotten while the driver asked for details

INSTANCE OutputCommit WITH MaxTaskAttempts <- 1

promiseVars == <<plan, output, closed>>
coordVars == <<promiseVars, failed, restarts>>
clientVars == <<request, token, expired>>
historyVars == <<ever, cleaned, fatal>>
vars == <<coordVars, held, late, clientVars, d, historyVars>>

(***************************************************************************)
(* The driver's locals:                                                    *)
(*   at, attempt      where it is, in which round of execute_graph's loop  *)
(*   stage            the stage its current loop is at                     *)
(*   allDone          all_succeeded                                        *)
(*   todo             partitions or blocks the loop has still to go through*)
(*   worst            failures found: "no", "retryable" or "fatal"         *)
(*   others           intermediate_blocks                                  *)
(*   fetched          the blocks in the result                             *)
(*   error            what execute_graph_once ended with                   *)
(*   thorough         nothing went wrong in the cleanup (cleanup_errors)   *)
(***************************************************************************)
Locals(attempt) ==
  [at |-> "begin", attempt |-> attempt, stage |-> 1, allDone |-> TRUE,
   todo |-> << >>, worst |-> "no", others |-> << >>, fetched |-> << >>,
   error |-> "none", thorough |-> TRUE]

Q == d.attempt
LastStage == Len(request.stages)

Count(s) == request.stages[s].partitions
PartitionsOf(q, s) == [n \in 1 .. Count(s) |-> <<q, s, n - 1>>]
PartitionOf(b) == <<b[1], b[2], b[3]>>

\* What a task left that succeeded after its query was cancelled: blocks under tickets
\* of their own, which no manifest lists.
Unlisted(k) == <<k[1], k[2], k[3], 0>>
BlocksOf(k) == [n \in DOMAIN output[k].blocks |-> <<k[1], k[2], k[3], n>>]

\* The committed blocks of a stage, in the order of its partitions.
StageBlocks(q, s) ==
  FlattenSeq([n \in 1 .. Count(s) |-> BlocksOf(<<q, s, n - 1>>)])

-----------------------------------------------------------------------------
(* The cluster, as far as a driver can tell.                               *)

Known(q) == \E s \in StageId : plan[<<q, s>>] # NoStage

PartitionCommits(k, blocks) ==
  /\ failed[k] = "no"
  /\ Commit(k, 0, blocks)
  /\ held' = held \cup {<<k[1], k[2], k[3], n>> : n \in DOMAIN blocks}
  /\ ever' = [ever EXCEPT ![k] = output'[k]]
  /\ UNCHANGED <<failed, restarts, late, clientVars, d, cleaned, fatal>>

\* A task that runs when its query is cancelled succeeds before its worker hears of it.
\* Its report is answered as if it counted, so the worker keeps the blocks; nothing is
\* committed.
LateSuccess(k) ==
  /\ k[1] \in closed
  /\ plan[StageOf(k)] # NoStage /\ k \in Members(StageOf(k))
  /\ \A i \in plan[StageOf(k)].inputs : Finished(<<k[1], i>>)
  /\ output[k] = NoOutput
  /\ Cardinality({b \in held : b = Unlisted(b)}) < MaxUnlisted
  /\ held' = held \cup {Unlisted(k)}
  /\ UNCHANGED <<coordVars, late, clientVars, d, historyVars>>

\* Its last attempt was lost or failed with an error that may pass, or one failed
\* with an error that will not.
PartitionFails(k, kind) ==
  /\ plan[StageOf(k)] # NoStage /\ k \in Members(StageOf(k))
  /\ \A i \in plan[StageOf(k)].inputs : Finished(<<k[1], i>>)
  /\ output[k] = NoOutput /\ failed[k] = "no" /\ k[1] \notin closed
  /\ failed' = [failed EXCEPT ![k] = kind]
  /\ UNCHANGED <<promiseVars, restarts, held, late, clientVars, d, historyVars>>

\* The worker holding a partition's blocks goes away.
BlocksLost(k) ==
  /\ \E b \in held : PartitionOf(b) = k
  /\ held' = {b \in held : PartitionOf(b) # k}
  /\ UNCHANGED <<coordVars, late, clientVars, d, historyVars>>

\* Partitions of a cancelled query that failed are cancelled like the others.
CloseQuery(q) ==
  /\ Close(q)
  /\ failed' = [k \in PartitionKey |-> IF k[1] = q THEN "no" ELSE failed[k]]
  /\ UNCHANGED restarts

\* Somebody else cancels the query: the service takes requests from anyone.
OthersCancel(q) ==
  /\ Known(q)
  /\ CloseQuery(q)
  /\ UNCHANGED <<held, late, clientVars, d, historyVars>>

\* The coordinator's process is started again: its queries, outputs and
\* cancellations are gone.  A cleanup under way no longer finds what to delete.
CoordinatorRestarts ==
  /\ restarts < MaxRestarts
  /\ restarts' = restarts + 1
  /\ plan' = [s \in StageKey |-> NoStage]
  /\ output' = [k \in PartitionKey |-> NoOutput]
  /\ closed' = {}
  /\ failed' = [k \in PartitionKey |-> "no"]
  /\ late' = {}
  /\ d' = IF d.at \in {"survey", "purge"} THEN [d EXCEPT !.thorough = FALSE] ELSE d
  /\ fatal' = IF d.at = "details" THEN {} ELSE fatal
  /\ UNCHANGED <<held, clientVars, ever, cleaned>>

\* stage_status.
StatusOf(q, s) ==
  IF q \in closed THEN "Cancelled"
  ELSE IF \E k \in Members(<<q, s>>) : failed[k] # "no" THEN "Failed"
  ELSE IF Finished(<<q, s>>) THEN "Succeeded"
  ELSE "Unfinished"

\* stage_output_blocks answers, for a cancelled query with what it committed.
HasOutput(q, s) == plan[<<q, s>>] # NoStage /\ (q \in closed \/ Finished(<<q, s>>))

-----------------------------------------------------------------------------
(* Calls.                                                                  *)

\* submit_stage, which turns stages of a cancelled query away.
Accepted(q, s) ==
  /\ q \notin closed
  /\ \A i \in request.stages[s].inputs : plan[<<q, i>>] # NoStage
  /\ Publish(PlanOf(request, q, s))
  /\ UNCHANGED <<failed, restarts>>

LateSubmit(q, s) ==
  /\ <<q, s>> \in late
  /\ late' = late \ {<<q, s>>}
  /\ Accepted(q, s)
  /\ UNCHANGED <<held, clientVars, d, historyVars>>

\* cancel_query does nothing for a query unknown or cancelled before.
CancelServed(q) ==
  IF Known(q) /\ q \notin closed THEN CloseQuery(q) ELSE UNCHANGED coordVars

-----------------------------------------------------------------------------
(* Driver steps.                                                           *)

\* What a step leaves alone that calls nobody, or only asks.
Asking == UNCHANGED <<coordVars, held, late, clientVars>>
Local == Asking /\ UNCHANGED historyVars

\* execute_graph_once is over with an error, its locals are gone: what follows is
\* cancel_and_cleanup.
Failing(e) == d' = [Locals(d.attempt) EXCEPT !.at = "cancel", !.error = e]

-----------------------------------------------------------------------------
(* execute_graph_once.                                                     *)

Executing == {"begin", "submit", "status", "details", "pause", "list",
              "fetch", "tidy"}

\* The token is checked and the coordinator dialled.
Begin ==
  /\ d.at = "begin"
  /\ \/ ~token /\ d' = [d EXCEPT !.at = "submit"]
     \/ token /\ Failing("cancelled")
     \/ ~token /\ Failing("fatal")
  /\ Local

AfterSubmit ==
  IF d.stage < LastStage THEN [d EXCEPT !.stage = @ + 1]
  ELSE [d EXCEPT !.at = "status", !.stage = 1]

\* Every stage is submitted, until a submission fails or its answer is lost.
Submit ==
  /\ d.at = "submit"
  /\ \/ /\ Accepted(Q, d.stage)
        /\ d' = AfterSubmit \/ Failing("fatal")
        /\ UNCHANGED late
     \/ /\ Failing("fatal")
        /\ late' \in {late, late \cup {<<Q, d.stage>>}}
        /\ UNCHANGED coordVars
  /\ UNCHANGED <<held, clientVars, historyVars>>

\* One more stage of the round was asked for.
NextStage(done) ==
  IF d.stage < LastStage THEN d' = [d EXCEPT !.stage = @ + 1, !.allDone = done]
  ELSE d' = [d EXCEPT !.at = IF done THEN "list" ELSE "pause", !.stage = 1,
                    !.allDone = TRUE]

\* Mutant: a stage that is over counts as done.
PollStageOver ==
  /\ d.at = "status"
  /\ \/ /\ StatusOf(Q, d.stage) # "Failed"
        /\ NextStage(d.allDone /\ StatusOf(Q, d.stage) \in {"Succeeded", "Cancelled"})
     \/ /\ StatusOf(Q, d.stage) = "Failed"
        /\ d' = [d EXCEPT !.at = "details", !.todo = PartitionsOf(Q, d.stage)]
  /\ Local

\* The status of every stage, one call each.
PollStage ==
  /\ d.at = "status"
  /\ plan[<<Q, d.stage>>] # NoStage
  /\ \/ /\ StatusOf(Q, d.stage) \in {"Succeeded", "Unfinished"}
        /\ NextStage(d.allDone /\ StatusOf(Q, d.stage) = "Succeeded")
        /\ UNCHANGED fatal
     \/ /\ StatusOf(Q, d.stage) = "Failed"
        /\ d' = [d EXCEPT !.at = "details", !.todo = PartitionsOf(Q, d.stage)]
        /\ fatal' = IF \E k \in Members(<<Q, d.stage>>) : failed[k] = "fatal"
                    THEN fatal \cup {Q} ELSE fatal
     \/ StatusOf(Q, d.stage) = "Cancelled" /\ Failing("cancelled") /\ UNCHANGED fatal
  /\ Asking /\ UNCHANGED <<ever, cleaned>>

\* Mutant: any retryable failure makes the query retryable.
WorseIfNone(a, b) == IF a = "no" THEN b ELSE a

\* retryable_failure and nonretryable_failure.
Worse(a, b) == IF "fatal" \in {a, b} THEN "fatal"
               ELSE IF "retryable" \in {a, b} THEN "retryable" ELSE "no"

\* failed_partition_details, one call for each partition.
AskPartition ==
  /\ d.at = "details"
  /\ \/ /\ d.todo # << >>
        /\ plan[<<Q, d.stage>>] # NoStage
        /\ d' = [d EXCEPT !.todo = Tail(@), !.worst = Worse(@, failed[Head(d.todo)])]
     \/ /\ d.todo = << >>
        /\ Failing(IF d.worst = "retryable" THEN "retryable" ELSE "fatal")
  /\ fatal' = fatal \ closed
  /\ Asking /\ UNCHANGED <<ever, cleaned>>

\* The poll interval.
Pause ==
  /\ d.at = "pause"
  /\ d' = [d EXCEPT !.at = "status"]
  /\ Local

\* The loop itself notices the cancellation or the timeout, and cancels the query
\* before it returns.
Quit ==
  /\ \/ /\ d.at = "pause" \/ (d.at = "status" /\ d.stage = 1)
        /\ token
        /\ Failing("cancelled")
     \/ d.at = "pause" /\ expired /\ Failing("fatal")
  /\ CancelServed(Q) \/ UNCHANGED coordVars
  /\ UNCHANGED <<held, late, clientVars, historyVars>>

\* stage_output_blocks of every stage.
ListStage ==
  LET blocks == StageBlocks(Q, d.stage)
      found == IF d.stage = request.final THEN [d EXCEPT !.todo = blocks]
               ELSE [d EXCEPT !.others = @ \o blocks]
  IN  /\ d.at = "list"
      /\ HasOutput(Q, d.stage)
      /\ d' = IF d.stage < LastStage THEN [found EXCEPT !.stage = @ + 1]
            ELSE [found EXCEPT !.at = "fetch"]
      /\ Local

\* The coordinator does not know the stage: NotFound, which may be recomputed.
Forgotten ==
  /\ \/ d.at \in {"status", "list"}
     \/ d.at = "details" /\ d.todo # << >>
  /\ plan[<<Q, d.stage>>] = NoStage
  /\ Failing("retryable")
  /\ Local

\* A status or output call that does not go through.
ReadFails ==
  /\ d.at \in {"status", "details", "list"}
  /\ Failing("fatal")
  /\ Local

\* fetch_output.  A block that is not there, or a worker that is not, is worth a
\* recomputation; corrupt data or differing schemas are not.
FetchBlock ==
  /\ d.at = "fetch"
  /\ d.todo # << >>
  /\ \/ /\ Head(d.todo) \in held
        /\ d' = [d EXCEPT !.todo = Tail(@), !.fetched = Append(@, Head(d.todo))]
     \/ Failing("retryable")
     \/ Failing("fatal")
  /\ Local

\* Everything is fetched: intermediate blocks are deleted, then the output.
Fetched ==
  /\ d.at = "fetch"
  /\ d.todo = << >>
  /\ d' = IF request.delete
        THEN [d EXCEPT !.at = "tidy", !.todo = d.others \o d.fetched, !.others = << >>]
        ELSE [d EXCEPT !.at = "ok"]
  /\ Local

\* One deletion after the other, in fetch_output and in cancel_and_cleanup.  The
\* store refuses to delete what it does not have.
DeleteBlock ==
  /\ d.at \in {"tidy", "purge"}
  /\ d.todo # << >>
  /\ LET b == Head(d.todo)
     IN  \/ /\ b \in held
            /\ held' = held \ {b}
            /\ d' = [d EXCEPT !.todo = Tail(@)]
         \/ /\ held' \in {held, held \ {b}}
            /\ d' = [d EXCEPT !.todo = Tail(@), !.thorough = FALSE]
  /\ UNCHANGED <<coordVars, late, clientVars, historyVars>>

Cleaned == cleaned' = IF d.thorough THEN cleaned \cup {Q} ELSE cleaned

Tidied ==
  /\ d.at = "tidy"
  /\ d.todo = << >>
  /\ d' = [d EXCEPT !.at = "ok"]
  /\ Cleaned
  /\ Asking /\ UNCHANGED <<ever, fatal>>

-----------------------------------------------------------------------------
(* execute_graph.                                                          *)

\* Mutant: the deadline is only looked at between two polls.
AbandonWhenPolling ==
  /\ d.at = "pause"
  /\ \/ token /\ Failing("cancelled")
     \/ expired /\ Failing("fatal")
  /\ Local

\* The select's other branches drop execute_graph_once wherever it is, with the
\* call it waits for.
Abandon ==
  /\ d.at \in Executing
  /\ \/ token /\ Failing("cancelled")
     \/ expired /\ Failing("fatal")
  /\ \/ d.at = "submit" /\ late' = late \cup {<<Q, d.stage>>}
     \/ UNCHANGED late
  /\ UNCHANGED <<coordVars, held, clientVars, historyVars>>

\* No restart has made the coordinator forget an output of the query: between the
\* submissions of two independent stages it may, and answer for the second only.
Remembered == \A k \in PartitionKey : k[1] = Q => ever[k] = output[k]

CancelGraph ==
  /\ d.at = "cancel"
  /\ CancelServed(Q) \/ UNCHANGED coordVars
  /\ d' = [d EXCEPT !.at = "survey", !.thorough = Q \in closed' /\ Remembered]
  /\ UNCHANGED <<held, late, clientVars, historyVars>>

\* Mutant: only the output of the final stage is cleaned up.
SurveyFinalOnly ==
  /\ d.at = "survey"
  /\ d' = [d EXCEPT !.at = "purge", !.stage = LastStage,
                  !.todo = IF HasOutput(Q, request.final) THEN StageBlocks(Q, request.final)
                           ELSE << >>]
  /\ Local

\* What a stage committed is deleted; a stage without an answer is passed over.
Survey ==
  /\ d.at = "survey"
  /\ \/ /\ HasOutput(Q, d.stage)
        /\ d' = [d EXCEPT !.at = "purge", !.todo = StageBlocks(Q, d.stage)]
     \/ /\ ~HasOutput(Q, d.stage)
        /\ d' = [d EXCEPT !.at = "purge", !.todo = << >>]
     \/ d' = [d EXCEPT !.at = "purge", !.todo = << >>, !.thorough = FALSE]
  /\ Local

ToDecide == [Locals(d.attempt) EXCEPT !.at = "decide", !.error = d.error]

Purged ==
  /\ d.at = "purge"
  /\ d.todo = << >>
  /\ \/ /\ d.stage < LastStage
        /\ d' = [d EXCEPT !.at = "survey", !.stage = @ + 1]
        /\ UNCHANGED cleaned
     \/ /\ d.stage = LastStage
        /\ d' = ToDecide
        /\ Cleaned
  /\ Asking /\ UNCHANGED <<ever, fatal>>

\* The two seconds are over, or the coordinator cannot be reached.
GraceOver ==
  /\ d.at \in {"cancel", "survey", "purge"}
  /\ d' = ToDecide
  /\ Local

MayRetry ==
  /\ d.attempt < MaxQueryRetries
  /\ ~expired
  /\ ~token
  /\ d.error = "retryable"

Decide ==
  /\ d.at = "decide"
  /\ d' = IF MayRetry THEN Locals(d.attempt + 1) ELSE [d EXCEPT !.at = "err"]
  /\ Local

Over == d.at \in {"ok", "err"}

Cancel ==
  /\ ~token /\ ~Over
  /\ token' = TRUE
  /\ UNCHANGED <<coordVars, held, late, request, expired, d, historyVars>>

Expire ==
  /\ ~expired /\ ~Over
  /\ expired' = TRUE
  /\ UNCHANGED <<coordVars, held, late, request, token, d, historyVars>>

-----------------------------------------------------------------------------
Init ==
  /\ OInit
  /\ failed = [k \in PartitionKey |-> "no"]
  /\ held = {}
  /\ restarts = 0
  /\ late = {}
  /\ request \in Requests
  /\ token \in BOOLEAN
  /\ expired = FALSE
  /\ d = Locals(0)
  /\ ever = output
  /\ cleaned = {}
  /\ fatal = {}

DriverStep ==
  \/ Begin \/ Submit \/ PollStage \/ AskPartition \/ Pause \/ Quit
  \/ ListStage \/ Forgotten \/ ReadFails \/ FetchBlock \/ Fetched \/ DeleteBlock \/ Tidied
  \/ CancelGraph \/ Survey \/ Purged

ClusterStep ==
  \/ \E k \in PartitionKey :
       \/ \E blocks \in Outputs : PartitionCommits(k, blocks)
       \/ \E kind \in {"retryable", "fatal"} : PartitionFails(k, kind)
       \/ LateSuccess(k)
       \/ BlocksLost(k)
  \/ \E q \in Query : OthersCancel(q)
  \/ CoordinatorRestarts

\* execute_graph has returned.
Returned == Over /\ UNCHANGED vars

Next ==
  \/ DriverStep \/ Abandon \/ GraceOver \/ Decide
  \/ \E key \in late : LateSubmit(key[1], key[2])
  \/ ClusterStep
  \/ Cancel \/ Expire
  \/ Returned

\* The driver's timers fire and it is polled when they do.  No service is assumed
\* to answer, no worker to make progress, no loop of the driver to end by itself.
Fairness ==
  /\ WF_vars(Expire)
  /\ WF_vars(Abandon)
  /\ WF_vars(GraceOver)
  /\ WF_vars(Decide)

Spec == Init /\ [][Next]_vars /\ Fairness

-----------------------------------------------------------------------------
(* Properties.                                                             *)

\* A result is the output of one execution of the whole graph: every block the
\* final stage committed under the last query identity, once and in order, and
\* nothing of an abandoned attempt, although statuses, block lists and blocks
\* come from separate calls between which partitions fail, others cancel, late
\* submissions of earlier attempts arrive and the coordinator restarts
\* (execute_graph_once, fetch_output).
ResultIsWhole ==
  d.at = "ok" =>
    /\ \A n \in 1 .. Count(request.final) : ever[<<Q, request.final, n - 1>>] # NoOutput
    /\ d.fetched = FlattenSeq([n \in 1 .. Count(request.final) |->
         LET k == <<Q, request.final, n - 1>>
         IN  [b \in DOMAIN ever[k].blocks |-> <<k[1], k[2], k[3], b>>]])

\* Cleaning up without an error leaves no committed block behind, now or later:
\* neither a block of any stage that a manifest lists nor work that will commit one,
\* because the query is cancelled before its blocks are listed, also when a submission
\* is still under way (cancel_and_cleanup, fetch_output).  What may stay on a worker are
\* the blocks of a task that succeeded after the cancellation: nobody can list them.
\* Nor can anybody list what a restart has made the coordinator forget: such a cleanup
\* is not thorough.
CleanupIsComplete == \A q \in cleaned : \A b \in held : b[1] = q => b = Unlisted(b)

\* A query that failed for good is not computed again, unless it was cancelled or
\* forgotten while the driver was asking for details (failed_partition_details).
FatalIsFinal ==
  [][d'.attempt # d.attempt => Q \notin fatal]_vars

\* The driver returns: its deadline bounds every call, dialling included, and the
\* cleanup has its own, whether or not anything ever answers (execute_graph).
DriverReturns == <>Over
=============================================================================
