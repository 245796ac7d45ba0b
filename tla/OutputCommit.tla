---------------------------- MODULE OutputCommit ----------------------------
(***************************************************************************)
(* What the coordinator promises a query driver: the output of a partition *)
(* is committed at most once, is complete when it is, comes after the      *)
(* outputs it depends on, and is never committed after its query closed.   *)
(* Workers, leases, retries and time are not part of the promise.          *)
(***************************************************************************)
EXTENDS Integers, Sequences

CONSTANTS StageKey, PartitionKey, StagePlans, Outputs, MaxTaskAttempts,
          NoStage, NoOutput

VARIABLES
  plan,     \* stage key -> its plan, or NoStage
  output,   \* partition key -> the committed [attempt, blocks], or NoOutput
  closed    \* cancelled queries

ovars == <<plan, output, closed>>

StageOf(k) == <<k[1], k[2]>>

Members(s) ==
  {k \in PartitionKey : StageOf(k) = s /\ k[3] < plan[s].partitions}

Finished(s) ==
  plan[s] # NoStage /\ \A k \in Members(s) : output[k] # NoOutput

\* An exchange stage's manifest has one block for each destination.
Complete(p, blocks) ==
  \A d \in 0 .. p.exchange - 1 :
    \E n \in DOMAIN blocks : {m \in DOMAIN blocks : blocks[m] = d} = {n}

OInit ==
  /\ plan = [s \in StageKey |-> NoStage]
  /\ output = [k \in PartitionKey |-> NoOutput]
  /\ closed = {}

Publish(p) ==
  LET s == <<p.query, p.stage>>
  IN  /\ p.query \notin closed
      /\ plan[s] = NoStage
      /\ plan' = [plan EXCEPT ![s] = p]
      /\ UNCHANGED <<output, closed>>

Commit(k, attempt, blocks) ==
  /\ output[k] = NoOutput
  /\ plan[StageOf(k)] # NoStage
  /\ k \in Members(StageOf(k))
  /\ k[1] \notin closed
  /\ \A d \in plan[StageOf(k)].inputs : Finished(<<k[1], d>>)
  /\ Complete(plan[StageOf(k)], blocks)
  /\ output' = [output EXCEPT ![k] = [attempt |-> attempt, blocks |-> blocks]]
  /\ UNCHANGED <<plan, closed>>

Close(q) ==
  /\ q \notin closed
  /\ closed' = closed \cup {q}
  /\ UNCHANGED <<plan, output>>

ONext ==
  \/ \E p \in StagePlans : Publish(p)
  \/ \E k \in PartitionKey, attempt \in 0 .. MaxTaskAttempts - 1,
        blocks \in Outputs : Commit(k, attempt, blocks)
  \/ \E s \in StageKey : Close(s[1])

OSpec == OInit /\ [][ONext]_ovars
=============================================================================
