------------------------------ MODULE Pipeline ------------------------------
(***************************************************************************)
(* The pipelined executor: src/src/runtime/execution.rs, with the memory   *)
(* budget and the cancellation token of src/src/runtime.                   *)
(*                                                                         *)
(* `execute` builds the plan from its root down: every operator is a task  *)
(* that reads its inputs and writes a bounded channel (`raw`), and a       *)
(* tracking task that forwards it to a second one (`out`), which the       *)
(* parent reads; a scan has a task per partition.  Tasks that were spawned *)
(* run while the rest of the plan is still being built.  The client        *)
(* collects the root's output, as a session or inside a worker's task,     *)
(* and the query may be cancelled at any time.                             *)
(***************************************************************************)
EXTENDS Operators, FiniteSets, Functions, Bags

CONSTANTS
  Plans,             \* the plans a query may have
  ChannelCapacity,
  MemoryLimit        \* in rows: a batch is charged its number of rows

ASSUME CapacityAssumption ==
  ChannelCapacity \in Nat \ {0} /\ MemoryLimit \in Nat

(***************************************************************************)
(* A plan is [ops, inTask]: operators numbered from 1, the root, and       *)
(* whether the client is a worker's task.  An operator is a record:        *)
(*   kind, inputs   what it is and the operators it reads                  *)
(*   parts          a scan's partitions: sequences of batches              *)
(*   pruned         partitions whose statistics rule out every row         *)
(*   unreadable     partitions whose scan fails                            *)
(*   missing        partitions the provider does not have                  *)
(*   keys, bad      keys its predicate keeps; keys it cannot evaluate      *)
(*   limit          of a limit or TopK                                     *)
(*   outer          whether a join keeps the left rows without a partner   *)
(* An operator comes before its inputs, of which a join has two.           *)
(***************************************************************************)
IsSeq(s) == s \in Seq(Range(s))

ASSUME PlanAssumption ==
  \A p \in Plans :
    /\ p.inTask \in BOOLEAN
    /\ IsSeq(p.ops) /\ Len(p.ops) > 0
    /\ \A o \in DOMAIN p.ops :
         /\ IsSeq(p.ops[o].inputs) /\ Len(p.ops[o].inputs) <= 2
         /\ p.ops[o].kind # "scan" => Len(p.ops[o].inputs) > 0
         /\ Range(p.ops[o].inputs) \subseteq o + 1 .. Len(p.ops)
         /\ IsSeq(p.ops[o].parts)
         /\ \A part \in Range(p.ops[o].parts) :
              IsSeq(part) /\ \A batch \in Range(part) : IsSeq(batch)
         /\ p.ops[o].limit \in Nat

VARIABLES
  plan,       \* the query's plan
  built,      \* operator -> "new", "entered", "running" or "refused"
  spawned,    \* scan -> partitions its loop has been through
  scan,       \* scan -> partition -> its task's [at, todo]
  task,       \* operator -> its task's [at, held, got, left]
  tracker,    \* operator -> its tracking task's [at, held]
  raw, out,   \* operator -> the items in its channels
  rawOpen, outOpen,  \* operator -> the channel's receiver still exists
  mem,        \* operator, or 0 for the client -> bytes in its reservations
  reserved,   \* the query's reserved_bytes
  cancelled,  \* the token
  client,     \* [at, rows]: the collector of the root's output
  late        \* history: batches the client got after the cancellation

channelVars == <<raw, out, rawOpen, outOpen>>
memoryVars == <<mem, reserved>>
taskVars == <<scan, task, tracker>>
vars == <<plan, built, spawned, taskVars, channelVars, memoryVars, cancelled,
          client, late>>

Ops == DOMAIN plan.ops
Kind(o) == plan.ops[o].kind
Inputs(o) == plan.ops[o].inputs
Parts(o) == plan.ops[o].parts
IsScan(o) == Kind(o) = "scan"
IsMap(o) == Kind(o) \in {"projection", "filter"}
IsBlocking(o) == Kind(o) \in {"aggregate", "groupby", "sort", "topk", "join"}

\* What travels in a channel: Ok(batch) or Err(error).
Ok(rows) == [ok |-> TRUE, rows |-> rows, error |-> "none"]
Err(error) == [ok |-> FALSE, rows |-> << >>, error |-> error]
Nothing == Err("none")

IsBad(o, batch) == \E n \in DOMAIN batch : Key(batch[n]) \in plan.ops[o].bad

-----------------------------------------------------------------------------
(* Channels.                                                               *)

\* Mutant: execute_scan keeps its own sender.
RawEndedNever(o) == ~IsScan(o) /\ raw[o] = << >> /\ task[o].at = "done"

\* tokio::mpsc: recv returns None once the buffer is empty and every sender is
\* dropped.  A scan's senders are its tasks and, until it returns, execute_scan.
RawEnded(o) ==
  /\ raw[o] = << >>
  /\ IF IsScan(o) THEN /\ built[o] = "running"
                       /\ \A p \in DOMAIN Parts(o) : scan[o][p].at \in {"off", "done"}
     ELSE task[o].at = "done"

OutEnded(o) ==
  /\ out[o] = << >>
  /\ built[o] = "refused" \/ tracker[o].at = "done"

\* A receiver is dropped with what its channel still holds.
DropInputs(o) ==
  /\ out' = [i \in Ops |-> IF i \in Range(Inputs(o)) THEN << >> ELSE out[i]]
  /\ outOpen' = [i \in Ops |-> outOpen[i] /\ i \notin Range(Inputs(o))]

CanSendRaw(o) == ~rawOpen[o] \/ Len(raw[o]) < ChannelCapacity

\* send: an error if the receiver is gone.
SendRaw(o, item) ==
  raw' = IF rawOpen[o] THEN [raw EXCEPT ![o] = Append(@, item)] ELSE raw

Tracker(at, held) == [at |-> at, held |-> held]

\* Mutant: no check at the head of the loop, only the select.
NextRoundUnchecked(o) == Tracker("reading", Nothing)

\* The head of the loop checks the token before it waits again.
NextRound(o) ==
  IF cancelled THEN Tracker("cancelling", Err("cancelled"))
  ELSE Tracker("reading", Nothing)

-----------------------------------------------------------------------------
(* Building the plan: `execute`.                                           *)

\* Nothing is spawned for an operator whose token check fails: its output is the
\* error alone.
Enter(o) ==
  /\ built[o] = "new"
  /\ o = 1 \/ \E parent \in Ops : \E n \in DOMAIN Inputs(parent) :
       /\ Inputs(parent)[n] = o
       /\ built[parent] = "entered"
       /\ \A m \in 1 .. n - 1 : built[Inputs(parent)[m]] \in {"running", "refused"}
  /\ built' = [built EXCEPT ![o] = IF cancelled THEN "refused" ELSE "entered"]
  /\ out' = IF cancelled THEN [out EXCEPT ![o] = <<Err("cancelled")>>] ELSE out
  /\ UNCHANGED <<plan, spawned, taskVars, raw, rawOpen, outOpen, memoryVars,
                 cancelled, client, late>>

\* execute_scan's loop: a partition that may match gets a task; the error of a
\* partition that does not exist is sent if the channel has room for it.
SpawnPartition(o) ==
  /\ built[o] = "entered" /\ IsScan(o)
  /\ spawned[o] < Len(Parts(o))
  /\ LET p == spawned[o] + 1
     IN  \/ /\ p \notin plan.ops[o].pruned \cup plan.ops[o].missing
            /\ scan' = [scan EXCEPT ![o][p].at = "scanning"]
            /\ UNCHANGED raw
         \/ /\ p \in plan.ops[o].pruned
            /\ UNCHANGED <<scan, raw>>
         \/ /\ p \in plan.ops[o].missing
            /\ raw' = IF Len(raw[o]) = ChannelCapacity THEN raw
                      ELSE [raw EXCEPT ![o] = Append(@, Err("scan"))]
            /\ UNCHANGED scan
  /\ spawned' = [spawned EXCEPT ![o] = @ + 1]
  /\ UNCHANGED <<plan, built, task, tracker, out, rawOpen, outOpen, memoryVars,
                 cancelled, client, late>>

\* The operator's task and its tracker.
Spawn(o) ==
  /\ built[o] = "entered"
  /\ \A n \in DOMAIN Inputs(o) : built[Inputs(o)[n]] \in {"running", "refused"}
  /\ IsScan(o) => spawned[o] = Len(Parts(o))
  /\ built' = [built EXCEPT ![o] = "running"]
  /\ task' = IF IsScan(o) THEN task ELSE [task EXCEPT ![o].at = "reading"]
  /\ tracker' = [tracker EXCEPT ![o] = NextRound(o)]
  /\ UNCHANGED <<plan, spawned, scan, channelVars, memoryVars, cancelled, client,
                 late>>

-----------------------------------------------------------------------------
(* Scan tasks.                                                             *)

\* What a scan task sends: its batches through the pushed-down filter, up to the
\* first one on which the filter fails; or the read's error.
ScanItems(o, p) ==
  LET batches == Parts(o)[p]
      Filtered(n) == IF IsBad(o, batches[n]) THEN Err("evaluation")
                     ELSE Ok(FilterBatch(batches[n], plan.ops[o].keys))
      failing == {n \in DOMAIN batches : IsBad(o, batches[n])}
      last == IF failing = {} THEN Len(batches) ELSE Min(failing)
  IN  IF p \in plan.ops[o].unreadable THEN <<Err("scan")>>
      ELSE [n \in 1 .. last |-> Filtered(n)]

ScanTask(at, todo) == [at |-> at, todo |-> todo]

ScanRead(o, p) ==
  /\ scan[o][p].at = "scanning"
  /\ scan' = [scan EXCEPT ![o][p] =
       IF ScanItems(o, p) = << >> THEN ScanTask("done", << >>)
       ELSE ScanTask("sending", ScanItems(o, p))]
  /\ UNCHANGED <<plan, built, spawned, task, tracker, channelVars, memoryVars,
                 cancelled, client, late>>

ScanSend(o, p) ==
  /\ scan[o][p].at = "sending"
  /\ CanSendRaw(o)
  /\ SendRaw(o, Head(scan[o][p].todo))
  /\ scan' = [scan EXCEPT ![o][p] =
       IF rawOpen[o] /\ Len(@.todo) > 1 THEN ScanTask("sending", Tail(@.todo))
       ELSE ScanTask("done", << >>)]
  /\ UNCHANGED <<plan, built, spawned, task, tracker, out, rawOpen, outOpen,
                 memoryVars, cancelled, client, late>>

-----------------------------------------------------------------------------
(* Projection, filter and limit, batch by batch.                           *)

Mapped(o, item) ==
  IF ~item.ok THEN item
  ELSE IF IsBad(o, item.rows) THEN Err("evaluation")
  ELSE IF Kind(o) = "filter" THEN Ok(FilterBatch(item.rows, plan.ops[o].keys))
  ELSE Ok(ProjectBatch(item.rows))

Limited(o, item) ==
  IF item.ok THEN Ok(Prefix(item.rows, task[o].left)) ELSE item

\* A limit stops at an error, and passes on no batch that it empties.
StreamRecv(o) ==
  /\ task[o].at = "reading" /\ (IsMap(o) \/ Kind(o) = "limit")
  /\ LET i == Inputs(o)[1]
         item == Head(out[i])
         taken == Limited(o, item)
     IN  /\ out[i] # << >>
         /\ IF IsMap(o)
            THEN task' = [task EXCEPT ![o].at = "sending",
                                      ![o].held = Mapped(o, item)]
            ELSE /\ task[o].left > 0
                 /\ task' = [task EXCEPT
                      ![o].at = IF item.ok /\ taken.rows = << >> THEN "reading"
                                ELSE "sending",
                      ![o].held = IF item.ok /\ taken.rows = << >> THEN Nothing
                                  ELSE taken,
                      ![o].left = IF item.ok THEN @ - Len(taken.rows) ELSE 0]
         /\ out' = [out EXCEPT ![i] = Tail(@)]
  /\ UNCHANGED <<plan, built, spawned, scan, tracker, raw, rawOpen, outOpen,
                 memoryVars, cancelled, client, late>>

\* Sent, or broken off because nobody reads any more.
StreamSend(o) ==
  /\ task[o].at = "sending" /\ ~IsBlocking(o)
  /\ CanSendRaw(o)
  /\ SendRaw(o, task[o].held)
  /\ task' = [task EXCEPT ![o].at = IF rawOpen[o] THEN "reading" ELSE "done",
                          ![o].held = Nothing]
  /\ IF rawOpen[o] THEN UNCHANGED <<out, outOpen>> ELSE DropInputs(o)
  /\ UNCHANGED <<plan, built, spawned, scan, tracker, rawOpen, memoryVars,
                 cancelled, client, late>>

StreamEnd(o) ==
  /\ task[o].at = "reading" /\ ~IsBlocking(o)
  /\ OutEnded(Inputs(o)[1]) \/ (Kind(o) = "limit" /\ task[o].left = 0)
  /\ task' = [task EXCEPT ![o].at = "done"]
  /\ DropInputs(o)
  /\ UNCHANGED <<plan, built, spawned, scan, tracker, raw, rawOpen, memoryVars,
                 cancelled, client, late>>

-----------------------------------------------------------------------------
(* Blocking operators: collect_with_memory, then the computation.          *)

Task(at, held) == [at |-> at, held |-> held, got |-> << << >>, << >> >>, left |-> 0]

\* Mutant: an error path that forgets what was reserved.
ReleasedNever(o) == UNCHANGED memoryVars

\* Dropping an operator's reservations.
Released(o) == mem' = [mem EXCEPT ![o] = 0] /\ reserved' = reserved - mem[o]

\* reserve: the compare-and-swap loop of QueryMemory, which takes effect at once.
Fits(bytes) == reserved + bytes <= MemoryLimit
Reserved(o, bytes) ==
  mem' = [mem EXCEPT ![o] = @ + bytes] /\ reserved' = reserved + bytes

\* What the operator makes of its collected inputs.
Computed(o) ==
  LET rows == task[o].got[1]
  IN  CASE Kind(o) = "aggregate" -> Aggregate(rows)
        [] Kind(o) = "groupby" -> GroupBy(rows)
        [] Kind(o) = "sort" -> Sorted(rows)
        [] Kind(o) = "topk" -> TopK(rows, plan.ops[o].limit)
        [] Kind(o) = "join" -> HashJoin(rows, task[o].got[2], plan.ops[o].outer)

\* Mutant: `while let Some(Ok(batch))`, an error taken for the end of the input.
AbortAsEnd(o, error) ==
  /\ task' = [task EXCEPT ![o] = Task("sending", Ok(Computed(o)))]
  /\ DropInputs(o)
  /\ Released(o)

\* The operator ends with an error: its inputs and reservations are dropped.
Abort(o, error) ==
  /\ task' = [task EXCEPT ![o] = Task("sending", Err(error))]
  /\ DropInputs(o)
  /\ Released(o)

\* One more batch of the n-th input.  A join reads both, whichever is ready.
CollectRecv(o, n) ==
  LET i == Inputs(o)[n]
      item == Head(out[i])
  IN  /\ task[o].at = "reading" /\ IsBlocking(o)
      /\ out[i] # << >>
      /\ \/ /\ item.ok /\ Fits(Len(item.rows))
            /\ task' = [task EXCEPT ![o].got[n] = @ \o item.rows]
            /\ Reserved(o, Len(item.rows))
            /\ out' = [out EXCEPT ![i] = Tail(@)]
            /\ UNCHANGED outOpen
         \/ /\ item.ok /\ ~Fits(Len(item.rows))
            /\ Abort(o, "memory")
         \/ /\ ~item.ok
            /\ Abort(o, item.error)
      /\ UNCHANGED <<plan, built, spawned, scan, tracker, raw, rawOpen, cancelled,
                     client, late>>

\* The copies and tables of the computation, charged besides the inputs.
WorkBytes(o) == Len(task[o].got[1]) + Len(task[o].got[2])

CollectEnd(o) ==
  /\ task[o].at = "reading" /\ IsBlocking(o)
  /\ \A n \in DOMAIN Inputs(o) : OutEnded(Inputs(o)[n])
  /\ \/ /\ Fits(WorkBytes(o))
        /\ Reserved(o, WorkBytes(o))
        /\ task' = [task EXCEPT ![o].at = "computing"]
        /\ DropInputs(o)
     \/ /\ ~Fits(WorkBytes(o))
        /\ Abort(o, "memory")
  /\ UNCHANGED <<plan, built, spawned, scan, tracker, raw, rawOpen, cancelled,
                 client, late>>

\* The result leaves the scope of the reservations before it is sent.
Compute(o) ==
  /\ task[o].at = "computing"
  /\ task' = [task EXCEPT ![o] = Task("sending",
       IF \E n \in 1 .. 2 : IsBad(o, task[o].got[n]) THEN Err("evaluation")
       ELSE Ok(Computed(o)))]
  /\ Released(o)
  /\ UNCHANGED <<plan, built, spawned, scan, tracker, channelVars, cancelled,
                 client, late>>

CollectSend(o) ==
  /\ task[o].at = "sending" /\ IsBlocking(o)
  /\ CanSendRaw(o)
  /\ SendRaw(o, task[o].held)
  /\ task' = [task EXCEPT ![o] = Task("done", Nothing)]
  /\ UNCHANGED <<plan, built, spawned, scan, tracker, out, rawOpen, outOpen,
                 memoryVars, cancelled, client, late>>

-----------------------------------------------------------------------------
(* track_operator_output.                                                  *)

\* The tracker ends and drops the operator's receiver.
TrackerDone(o) ==
  /\ tracker' = [tracker EXCEPT ![o] = Tracker("done", Nothing)]
  /\ raw' = [raw EXCEPT ![o] = << >>]
  /\ rawOpen' = [rawOpen EXCEPT ![o] = FALSE]

TrackerRecv(o) ==
  /\ tracker[o].at = "reading"
  /\ \/ /\ raw[o] # << >>
        /\ tracker' = [tracker EXCEPT ![o] = Tracker("sending", Head(raw[o]))]
        /\ raw' = [raw EXCEPT ![o] = Tail(@)]
        /\ UNCHANGED rawOpen
     \/ RawEnded(o) /\ TrackerDone(o)
  /\ UNCHANGED <<plan, built, spawned, scan, task, out, outOpen, memoryVars,
                 cancelled, client, late>>

\* The select's other branch, or the check at the head of the loop.
TrackerCancel(o) ==
  /\ tracker[o].at = "reading"
  /\ cancelled
  /\ tracker' = [tracker EXCEPT ![o] = Tracker("cancelling", Err("cancelled"))]
  /\ UNCHANGED <<plan, built, spawned, scan, task, channelVars, memoryVars,
                 cancelled, client, late>>

TrackerSend(o) ==
  /\ tracker[o].at \in {"sending", "cancelling"}
  /\ \/ /\ outOpen[o] /\ Len(out[o]) < ChannelCapacity
        /\ out' = [out EXCEPT ![o] = Append(@, tracker[o].held)]
        /\ IF tracker[o].at = "cancelling" THEN TrackerDone(o)
           ELSE /\ tracker' = [tracker EXCEPT ![o] = NextRound(o)]
                /\ UNCHANGED <<raw, rawOpen>>
     \/ ~outOpen[o] /\ TrackerDone(o) /\ UNCHANGED out
  /\ UNCHANGED <<plan, built, spawned, scan, task, outOpen, memoryVars, cancelled,
                 client, late>>

-----------------------------------------------------------------------------
(* The client: a session collects batches; a worker's task collects them   *)
(* with memory, against its token and its lease, and cancels the token     *)
(* when it fails.                                                          *)

Collecting == client.at = "collecting" /\ built[1] \in {"running", "refused"}

Finish(at) ==
  /\ client' = [client EXCEPT !.at = at]
  /\ out' = [out EXCEPT ![1] = << >>]
  /\ outOpen' = [outOpen EXCEPT ![1] = FALSE]

Fail ==
  /\ Finish("err")
  /\ Released(0)
  /\ cancelled' = (cancelled \/ plan.inTask)

ClientRecv ==
  LET item == Head(out[1])
      charge == IF plan.inTask THEN Len(item.rows) ELSE 0
  IN  /\ Collecting
      /\ out[1] # << >>
      /\ late' = IF cancelled /\ item.ok THEN late + 1 ELSE late
      /\ \/ /\ item.ok /\ Fits(charge)
            /\ client' = [client EXCEPT !.rows = @ \o item.rows]
            /\ out' = [out EXCEPT ![1] = Tail(@)]
            /\ Reserved(0, charge)
            /\ UNCHANGED <<outOpen, cancelled>>
         \/ ~(item.ok /\ Fits(charge)) /\ Fail
      /\ UNCHANGED <<plan, built, spawned, taskVars, raw, rawOpen>>

\* The stream ended: a worker's task checks its token once more.
ClientEnd ==
  /\ Collecting
  /\ OutEnded(1)
  /\ IF plan.inTask /\ cancelled THEN Fail
     ELSE Finish("ok") /\ UNCHANGED <<memoryVars, cancelled>>
  /\ UNCHANGED <<plan, built, spawned, taskVars, raw, rawOpen, late>>

\* execute_assignment's select: token cancelled or lease deadline passed.
ClientGivesUp ==
  /\ Collecting
  /\ plan.inTask
  /\ Fail
  /\ UNCHANGED <<plan, built, spawned, taskVars, raw, rawOpen, late>>

Cancel ==
  /\ ~cancelled
  /\ client.at = "collecting"
  /\ cancelled' = TRUE
  /\ UNCHANGED <<plan, built, spawned, taskVars, channelVars, memoryVars, client,
                 late>>

-----------------------------------------------------------------------------
Init ==
  /\ plan \in Plans
  /\ built = [o \in Ops |-> "new"]
  /\ spawned = [o \in Ops |-> 0]
  /\ scan = [o \in Ops |-> [p \in DOMAIN Parts(o) |-> ScanTask("off", << >>)]]
  /\ task = [o \in Ops |-> [Task("off", Nothing) EXCEPT !.left = plan.ops[o].limit]]
  /\ tracker = [o \in Ops |-> Tracker("off", Nothing)]
  /\ raw = [o \in Ops |-> << >>]
  /\ out = raw
  /\ rawOpen = [o \in Ops |-> TRUE]
  /\ outOpen = rawOpen
  /\ mem = [o \in Ops \cup {0} |-> 0]
  /\ reserved = 0
  /\ cancelled \in BOOLEAN
  /\ client = [at |-> "collecting", rows |-> << >>]
  /\ late = 0

TaskStep(o) ==
  \/ StreamRecv(o) \/ StreamSend(o) \/ StreamEnd(o)
  \/ \E n \in DOMAIN Inputs(o) : CollectRecv(o, n)
  \/ CollectEnd(o) \/ Compute(o) \/ CollectSend(o)

ScanStep(o, p) == ScanRead(o, p) \/ ScanSend(o, p)
TrackerStep(o) == TrackerRecv(o) \/ TrackerCancel(o) \/ TrackerSend(o)
BuildStep == \E o \in Ops : Enter(o) \/ SpawnPartition(o) \/ Spawn(o)
ClientStep == ClientRecv \/ ClientEnd

Ended ==
  /\ client.at # "collecting"
  /\ \A o \in Ops :
       /\ task[o].at \in {"off", "done"} /\ tracker[o].at \in {"off", "done"}
       /\ \A p \in DOMAIN Parts(o) : scan[o][p].at \in {"off", "done"}

\* The query is over; nothing happens any more.
Terminated == Ended /\ UNCHANGED vars

Next ==
  \/ BuildStep
  \/ \E o \in Ops : TaskStep(o) \/ TrackerStep(o)
  \/ \E o \in Ops : \E p \in DOMAIN Parts(o) : ScanStep(o, p)
  \/ ClientStep \/ ClientGivesUp \/ Cancel
  \/ Terminated

\* Every task is polled again when a channel or the token wakes it; nothing
\* makes the client give up or cancel.  Operators are numbered from 1 to 9.
MaxOps == 9
Fairness ==
  /\ WF_vars(BuildStep)
  /\ WF_vars(ClientStep)
  /\ \A o \in 1 .. MaxOps :
       /\ WF_vars(o \in Ops /\ TaskStep(o))
       /\ WF_vars(o \in Ops /\ TrackerStep(o))
       /\ WF_vars(o \in Ops /\ \E p \in DOMAIN Parts(o) : ScanStep(o, p))

Spec == Init /\ [][Next]_vars /\ Fairness

-----------------------------------------------------------------------------
(* Reference: what a plan means, on bags of rows.                          *)

Keep(bag, keys) == [row \in {r \in DOMAIN bag : Key(r) \in keys} |-> bag[row]]

RefAggregate(bag) ==
  LET seen == {row \in DOMAIN bag : row[2] # Null}
      values == {row[2] : row \in seen}
      count == MapThenSumSet(LAMBDA row : bag[row], seen)
      sum == MapThenSumSet(LAMBDA row : bag[row] * row[2], seen)
  IN  <<count, sum, IF seen = {} THEN Null ELSE Min(values),
        IF seen = {} THEN Null ELSE Max(values), <<sum, count>>>>

RefGroupBy(bag) ==
  SetToBag({<<k>> \o RefAggregate(Keep(bag, {k})) :
              k \in {Key(row) : row \in DOMAIN bag}})

RefJoin(left, right, outer) ==
  LET Matching(l, r) == Key(l) = Key(r) /\ Key(l) # Null
      pairs == {lr \in (DOMAIN left) \X (DOMAIN right) : Matching(lr[1], lr[2])}
      lonely == {l \in DOMAIN left : outer /\ \A r \in DOMAIN right : ~Matching(l, r)}
  IN  [row \in {lr[1] \o lr[2] : lr \in pairs} |->
         left[SubSeq(row, 1, 2)] * right[SubSeq(row, 3, 4)]]
      (+) [row \in {l \o <<Null, Null>> : l \in lonely} |-> left[SubSeq(row, 1, 2)]]

\* The bag an operator delivers; a limit is only ever the root.
Answer[o \in Ops] ==
  LET op == plan.ops[o]
      In(n) == Answer[op.inputs[n]]
  IN  CASE op.kind = "scan" -> Keep(ToBag(Concat(Concat(op.parts))), op.keys)
        [] op.kind = "filter" -> Keep(In(1), op.keys)
        [] op.kind = "projection" -> BagOfAll(LAMBDA row : <<Key(row)>>, In(1))
        [] op.kind = "aggregate" -> SetToBag({RefAggregate(In(1))})
        [] op.kind = "groupby" -> RefGroupBy(In(1))
        [] op.kind = "join" -> RefJoin(In(1), In(2), op.outer)
        [] op.kind \in {"sort", "topk", "limit"} -> In(1)

InOrder(rows) == \A m, n \in DOMAIN rows : m < n => Key(rows[m]) <= Key(rows[n])

IsAnswer(rows) ==
  LET op == plan.ops[1]
      bag == ToBag(rows)
      cut == op.kind \in {"limit", "topk"}
  IN  /\ bag \sqsubseteq Answer[1]
      /\ BagCardinality(bag) =
           IF cut THEN Min({op.limit, BagCardinality(Answer[1])})
           ELSE BagCardinality(Answer[1])
      /\ op.kind \in {"sort", "topk"} => InOrder(rows)
      /\ op.kind = "topk" =>
           \A left \in DOMAIN (Answer[1] (-) bag) :
             \A n \in DOMAIN rows : Key(rows[n]) <= Key(left)

-----------------------------------------------------------------------------
(* Properties.                                                             *)

\* A query that ends with Ok delivers exactly the rows its plan means: no scan
\* error, evaluation error, exhausted budget, cancellation or early end of a
\* task is ever mistaken for the end of a stream, whatever channel fills up or is
\* dropped when, and while the plan is still being built (execute and the
\* operator tasks).
ResultExact == client.at = "ok" => IsAnswer(client.rows)

\* After a cancellation the client gets what its channel held and what the
\* root's tracker had in hand or just took, and no more (the token check at the
\* head of track_operator_output's loop).
PromptCancellation == late <= ChannelCapacity + 1

\* The reservations never exceed the limit, and when the last task has ended all
\* of them were returned but for the output a worker's task still holds
\* (collect_with_memory, MemoryReservation's Drop).
MemoryReturned ==
  /\ reserved <= MemoryLimit
  /\ Ended => reserved = mem[0]

\* Every query ends and no task survives it: no cycle of full channels, no
\* receiver waits for a sender that is gone, no sender for a receiver
\* (operators, trackers, scans, the client).
EverythingEnds == <>Ended
=============================================================================
