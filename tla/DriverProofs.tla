---------------------------- MODULE DriverProofs ----------------------------
(***************************************************************************)
(* The driver of a remote query returns whole results, leaves no committed *)
(* block where its cleanup went through, and does not repeat a query that  *)
(* failed for good: for any graph of stages, any number of partitions,     *)
(* recomputations and restarts of the coordinator.                         *)
(*                                                                         *)
(* The history variable ever carries the argument.  Every stage is         *)
(* submitted once under a query identity, so a stage the coordinator knows *)
(* agrees with the history, and what a stage committed is never committed  *)
(* differently again: a stage seen complete stays complete whatever is     *)
(* forgotten, and its list of blocks stays the same.                       *)
(***************************************************************************)
EXTENDS Driver, SumProofs

-----------------------------------------------------------------------------
(* The inductive invariant.                                                *)

\* Where the driver may be, see Locals.
Places == {"begin", "submit", "status", "details", "pause", "list", "fetch", "tidy",
           "ok", "cancel", "survey", "purge", "decide", "err"}
Block == Query \X StageId \X PartitionId \X Nat
Item == PartitionKey \cup Block
Kind == {"no", "retryable", "fatal"}
Output == [attempt : Int, blocks : Seq(Nat)]

Frame ==
  [at : Places, attempt : Query, stage : Nat, allDone : BOOLEAN, todo : Seq(Item),
   worst : Kind, others : Seq(Item), fetched : Seq(Item),
   error : {"none", "retryable", "fatal", "cancelled"}, thorough : BOOLEAN]

\* Types, and the stage the driver is at.
TypeInv ==
  /\ plan \in [StageKey -> StagePlans \cup {NoStage}]
  /\ output \in [PartitionKey -> Output]
  /\ closed \in SUBSET Query
  /\ failed \in [PartitionKey -> Kind]
  /\ held \in SUBSET Block
  /\ late \in SUBSET StageKey
  /\ request \in Requests
  /\ d \in Frame
  /\ d.stage \in DOMAIN request.stages
  /\ ever \in [PartitionKey -> Output]
  /\ cleaned \in SUBSET Query
  /\ fatal \in SUBSET Query

\* What is known of a stage is what the request says.
PlanInv ==
  \A q \in Query, s \in StageId :
    plan[<<q, s>>] # NoStage => s \in DOMAIN request.stages
                                /\ plan[<<q, s>>] = PlanOf(request, q, s)

\* The history agrees with what the coordinator has not forgotten.
EverInv ==
  \A q \in Query, s \in StageId, p \in PartitionId :
    /\ plan[<<q, s>>] # NoStage => ever[<<q, s, p>>] = output[<<q, s, p>>]
    /\ plan[<<q, s>>] = NoStage => output[<<q, s, p>>] = NoOutput
    /\ ever[<<q, s, p>>] # NoOutput => s \in DOMAIN request.stages /\ p < Count(s)

\* A block that is held is one of a committed output, or of a task that succeeded after
\* its query was cancelled.
HeldInv == \A b \in held : b[4] # 0 => b[4] \in DOMAIN ever[PartitionOf(b)].blocks

\* The attempt has ended with an error.
Cleaning == {"cancel", "survey", "purge", "decide", "err"}

\* A submission of the stage may still come.
Ahead(q, s) ==
  \/ q > Q
  \/ q = Q /\ d.at = "begin"
  \/ q = Q /\ d.at = "submit" /\ s >= d.stage
  \/ <<q, s>> \in late

\* Such a stage is unknown and has committed nothing: a stage is submitted once.
\* What is under way is a stage of an attempt that has ended.
AheadInv ==
  /\ \A q \in Query, s \in StageId :
       Ahead(q, s) => /\ plan[<<q, s>>] = NoStage
                      /\ \A p \in PartitionId : ever[<<q, s, p>>] = NoOutput
  /\ \A q \in Query, s \in StageId :
       <<q, s>> \in late => /\ s \in DOMAIN request.stages
                            /\ q <= Q
                            /\ q = Q => d.at \in Cleaning

\* All partitions of a stage committed, as the history e has it.
AllIn(e, n, q, s) == \A p \in 1 .. n : e[<<q, s, p - 1>>] # NoOutput

\* The blocks they committed, in the order of the partitions.
BlocksIn(e, n, q, s) ==
  FlattenSeq([p \in 1 .. n |->
    [b \in DOMAIN e[<<q, s, p - 1>>].blocks |-> <<q, s, p - 1, b>>]])

\* All stages were reported as succeeded.
Reading == {"list", "fetch", "tidy", "ok"}

\* What a round of polling has found complete is, although not in one instant.
RoundInv ==
  /\ d.at \in {"begin", "pause", "cancel"} => d.stage = 1
  /\ d.at = "status" /\ d.allDone => \A s \in 1 .. d.stage - 1 : AllIn(ever, Count(s), Q, s)
  /\ d.at \in Reading => \A s \in DOMAIN request.stages : AllIn(ever, Count(s), Q, s)

\* What is fetched and what is left to fetch make up the result.
FetchInv ==
  /\ d.at \in {"begin", "submit", "status", "pause"} =>
       d.todo = << >> /\ d.others = << >> /\ d.fetched = << >>
  /\ d.at = "list" =>
       /\ d.fetched = << >>
       /\ d.todo = IF request.final < d.stage
                   THEN BlocksIn(ever, Count(request.final), Q, request.final)
                   ELSE << >>
  /\ d.at = "fetch" =>
       d.fetched \o d.todo = BlocksIn(ever, Count(request.final), Q, request.final)
  /\ d.at \in {"tidy", "ok"} =>
       d.fetched = BlocksIn(ever, Count(request.final), Q, request.final)

\* What a query that is through has left is on the list of what to delete.
TidyInv ==
  \A b \in held : b[1] = Q /\ b[4] # 0 =>
    /\ d.at = "list" /\ b[2] < d.stage /\ b[2] # request.final => b \in Range(d.others)
    /\ d.at = "fetch" /\ b[2] # request.final => b \in Range(d.others)
    /\ d.at = "tidy" /\ d.thorough => b \in Range(d.todo)

\* As long as nothing went wrong, the query is closed and what is left of it is
\* still to be listed or on the list.
PurgeInv ==
  d.at \in {"survey", "purge"} /\ d.thorough =>
    /\ Q \in closed
    /\ Remembered
    /\ \A b \in held : b[1] = Q /\ b[4] # 0 =>
         /\ b[2] >= d.stage
         /\ d.at = "purge" /\ b[2] = d.stage => b \in Range(d.todo)

\* A query that is cleaned up has no committed blocks, and no stage of it that could commit.
CleanedInv ==
  \A q \in cleaned :
    /\ q <= Q
    /\ q = Q => d.at \in {"decide", "err", "ok"}
    /\ \A b \in held : b[1] = q => b[4] = 0
    /\ \/ q \in closed
       \/ \A s \in StageId : <<q, s>> \notin late
                             /\ (plan[<<q, s>>] # NoStage => AllIn(ever, Count(s), q, s))

\* A failure for good was noted, or will be among the answers still to come.
FatalInv ==
  \A q \in fatal :
    /\ q <= Q
    /\ q = Q =>
         \/ /\ d.at = "details"
            /\ plan[<<Q, d.stage>>] # NoStage
            /\ \/ Q \in closed
               \/ d.worst = "fatal"
               \/ \E i \in DOMAIN d.todo :
                    /\ d.todo[i] \in PartitionKey /\ d.todo[i][1] = Q
                    /\ failed[d.todo[i]] = "fatal"
         \/ d.at \in Cleaning /\ d.error # "retryable"

Inv ==
  /\ TypeInv /\ PlanInv /\ EverInv /\ HeldInv /\ AheadInv /\ RoundInv
  /\ FetchInv /\ TidyInv /\ PurgeInv /\ CleanedInv /\ FatalInv

-----------------------------------------------------------------------------
(* Facts about the request, the plans and the lists of blocks.             *)

\* Stages are numbered from 1, partitions from 0.
LEMMA StageFacts ==
  ASSUME TypeInv
  PROVE  /\ LastStage \in Nat /\ DOMAIN request.stages = 1 .. LastStage
         /\ request.final \in 1 .. LastStage
         /\ \A s \in 1 .. LastStage :
              s \in StageId /\ Count(s) \in Nat /\ 0 .. Count(s) - 1 \subseteq PartitionId
<1>1. /\ request.stages \in Seq([inputs : SUBSET Nat, partitions : Nat])
      /\ request.final \in DOMAIN request.stages
      /\ \A s \in DOMAIN request.stages :
           s \in StageId /\ 0 .. request.stages[s].partitions - 1 \subseteq PartitionId
  BY RequestAssumption DEF TypeInv
<1>2. LastStage \in Nat /\ DOMAIN request.stages = 1 .. LastStage
  BY <1>1 DEF LastStage
<1>3. \A s \in 1 .. LastStage : request.stages[s] \in [inputs : SUBSET Nat, partitions : Nat]
  BY <1>1, ElementOfSeq DEF LastStage
<1>4. \A s \in 1 .. LastStage : request.stages[s].partitions \in Nat
  BY <1>3
<1>5. \A s \in 1 .. LastStage : Count(s) = request.stages[s].partitions
  BY DEF Count
<1>6. QED
  BY <1>1, <1>2, <1>4, <1>5

\* A plan is no placeholder.
LEMMA PlanIsSome ==
  ASSUME NEW r, NEW q \in Query, NEW s
  PROVE  PlanOf(r, q, s) # NoStage
<1>1. PlanOf(r, q, s).query = q /\ NoStage.query = -1
  BY DEF PlanOf, NoStage
<1>2. QED
  BY <1>1 DEF Query

\* A block's first three components name its partition.
LEMMA BlockFacts ==
  ASSUME NEW b \in Block
  PROVE  /\ b[1] \in Query /\ b[2] \in StageId /\ b[3] \in PartitionId /\ b[4] \in Nat
         /\ b = <<b[1], b[2], b[3], b[4]>>
         /\ PartitionOf(b) = <<b[1], b[2], b[3]>>
         /\ PartitionOf(b) \in PartitionKey
BY DEF Block, PartitionOf, PartitionKey

\* The list of a stage's blocks has every block of every partition.
LEMMA BlocksInHas ==
  ASSUME NEW e \in [PartitionKey -> Output], NEW q \in Query, NEW s \in StageId,
         NEW n \in Nat, 0 .. n - 1 \subseteq PartitionId
  PROVE  /\ BlocksIn(e, n, q, s) \in Seq(Item)
         /\ \A p \in 0 .. n - 1 : \A b \in DOMAIN e[<<q, s, p>>].blocks :
              <<q, s, p, b>> \in Range(BlocksIn(e, n, q, s))
<1> DEFINE part(p) == [b \in DOMAIN e[<<q, s, p - 1>>].blocks |-> <<q, s, p - 1, b>>]
           ss == [p \in 1 .. n |-> part(p)]
<1>1. ASSUME NEW p \in 1 .. n
      PROVE  /\ part(p) \in Seq(Item)
             /\ \A b \in DOMAIN e[<<q, s, p - 1>>].blocks : <<q, s, p - 1, b>> \in Range(part(p))
  <2>1. p - 1 \in 0 .. n - 1
    OBVIOUS
  <2>2. p - 1 \in PartitionId
    BY <2>1
  <2>3. <<q, s, p - 1>> \in PartitionKey
    BY <2>2 DEF PartitionKey
  <2>4. e[<<q, s, p - 1>>].blocks \in Seq(Nat)
    BY <2>3 DEF Output
  <2>5. PICK m \in Nat : DOMAIN e[<<q, s, p - 1>>].blocks = 1 .. m
    BY <2>4
  <2>6. \A b \in 1 .. m : <<q, s, p - 1, b>> \in Item
    BY <2>2 DEF Item, Block
  <2>7. part(p) \in [1 .. m -> Item] /\ DOMAIN part(p) = 1 .. m
    BY <2>5, <2>6
  <2>8. part(p) \in Seq(Item)
    BY SMTT(30), <2>7
  <2>9. QED
    BY <2>8, <2>5 DEF Range
<1>2. ss \in Seq(Seq(Item)) /\ Len(ss) = n
  BY <1>1
<1>3. BlocksIn(e, n, q, s) = FlattenSeq(ss)
  BY DEF BlocksIn
<1> HIDE DEF ss
<1>4. /\ FlattenSeq(ss) \in Seq(Item)
      /\ \A p \in 1 .. n : Range(ss[p]) \subseteq Range(FlattenSeq(ss))
  BY <1>2, FlattenHas
<1>5. ASSUME NEW p \in 0 .. n - 1, NEW b \in DOMAIN e[<<q, s, p>>].blocks
      PROVE  <<q, s, p, b>> \in Range(FlattenSeq(ss))
  <2>1. p + 1 \in 1 .. n /\ (p + 1) - 1 = p
    OBVIOUS
  <2>2. ss[p + 1] = part(p + 1)
    BY <2>1 DEF ss
  <2> HIDE DEF part
  <2>3. <<q, s, p, b>> \in Range(part(p + 1))
    BY <1>1, <2>1
  <2>4. QED
    BY <1>4, <2>1, <2>2, <2>3
<1>6. QED
  BY <1>3, <1>4, <1>5

\* Two histories that agree on a stage list the same blocks.
LEMMA BlocksInSame ==
  ASSUME NEW e, NEW f, NEW q, NEW s, NEW n \in Nat,
         \A p \in 0 .. n - 1 : e[<<q, s, p>>] = f[<<q, s, p>>]
  PROVE  /\ BlocksIn(e, n, q, s) = BlocksIn(f, n, q, s)
         /\ AllIn(e, n, q, s) <=> AllIn(f, n, q, s)
<1>1. \A p \in 1 .. n : p - 1 \in 0 .. n - 1
  OBVIOUS
<1>2. \A p \in 1 .. n : e[<<q, s, p - 1>>] = f[<<q, s, p - 1>>]
  BY <1>1
<1>3. [p \in 1 .. n |-> [b \in DOMAIN e[<<q, s, p - 1>>].blocks |-> <<q, s, p - 1, b>>]]
    = [p \in 1 .. n |-> [b \in DOMAIN f[<<q, s, p - 1>>].blocks |-> <<q, s, p - 1, b>>]]
  BY <1>2
<1>4. QED
  BY <1>2, <1>3 DEF BlocksIn, AllIn

\* What stage_output_blocks lists is what the history lists for a stage the
\* coordinator knows.
LEMMA StageBlocksIs ==
  ASSUME TypeInv, EverInv, NEW q \in Query, NEW s \in 1 .. LastStage,
         \/ plan[<<q, s>>] # NoStage
         \/ \A k \in PartitionKey : k[1] = q => ever[k] = output[k]
  PROVE  /\ StageBlocks(q, s) = BlocksIn(ever, Count(s), q, s)
         /\ StageBlocks(q, s) \in Seq(Item)
<1>1. s \in StageId /\ Count(s) \in Nat /\ 0 .. Count(s) - 1 \subseteq PartitionId
  BY StageFacts
<1>2. \A p \in 0 .. Count(s) - 1 : output[<<q, s, p>>] = ever[<<q, s, p>>]
  <2>1. \A p \in 0 .. Count(s) - 1 : p \in PartitionId /\ <<q, s, p>> \in PartitionKey
    BY <1>1 DEF PartitionKey
  <2>2. QED
    BY <2>1, <1>1 DEF EverInv
<1>3. [n \in 1 .. Count(s) |-> BlocksOf(<<q, s, n - 1>>)]
    = [p \in 1 .. Count(s) |->
        [b \in DOMAIN output[<<q, s, p - 1>>].blocks |-> <<q, s, p - 1, b>>]]
  BY DEF BlocksOf
<1>4. StageBlocks(q, s) = BlocksIn(output, Count(s), q, s)
  BY <1>3 DEF StageBlocks, BlocksIn
<1>5. StageBlocks(q, s) = BlocksIn(ever, Count(s), q, s)
  BY <1>1, <1>2, <1>4, BlocksInSame
<1>6. QED
  BY <1>1, <1>5, BlocksInHas DEF TypeInv

\* Every committed block that is held is on the list of its stage.
LEMMA HeldIsListed ==
  ASSUME TypeInv, EverInv, HeldInv, NEW b \in held, b[4] # 0
  PROVE  /\ b[1] \in Query /\ b[2] \in 1 .. LastStage
         /\ b \in Range(BlocksIn(ever, Count(b[2]), b[1], b[2]))
         /\ b[3] \in 0 .. Count(b[2]) - 1 /\ ever[<<b[1], b[2], b[3]>>] # NoOutput
<1>1. b \in Block
  BY DEF TypeInv
<1> DEFINE q == b[1]
           s == b[2]
           p == b[3]
<1>2. q \in Query /\ s \in StageId /\ p \in PartitionId /\ b = <<q, s, p, b[4]>>
      /\ PartitionOf(b) = <<q, s, p>>
  BY <1>1, BlockFacts
<1>3. b[4] \in DOMAIN ever[<<q, s, p>>].blocks
  BY <1>2 DEF HeldInv
<1>4. ever[<<q, s, p>>] # NoOutput
  <2>1. DOMAIN NoOutput.blocks = {}
    BY DEF NoOutput
  <2>2. QED
    BY <2>1, <1>3
<1>5. s \in 1 .. LastStage /\ p < Count(s)
  BY <1>2, <1>4, StageFacts DEF EverInv
<1>6. p \in 0 .. Count(s) - 1
  BY <1>2, <1>5, IdAssumption, StageFacts
<1>7. Count(s) \in Nat /\ 0 .. Count(s) - 1 \subseteq PartitionId
  BY <1>5, StageFacts
<1>8. ever \in [PartitionKey -> Output]
  BY DEF TypeInv
<1>9. <<q, s, p, b[4]>> \in Range(BlocksIn(ever, Count(s), q, s))
  BY <1>2, <1>3, <1>6, <1>7, <1>8, BlocksInHas
<1>10. QED
  BY <1>2, <1>4, <1>5, <1>6, <1>9

-----------------------------------------------------------------------------
(* What a step does to the coordinator's memory and to its history.        *)

\* An output once committed stays in the history.
Grows(e, f) == \A k \in PartitionKey : e[k] # NoOutput => f[k] = e[k]

\* So a stage that is complete stays so, with the same blocks.
LEMMA GrowsKeeps ==
  ASSUME NEW e, NEW f, Grows(e, f), NEW q \in Query, NEW s \in StageId, NEW n \in Nat,
         0 .. n - 1 \subseteq PartitionId, AllIn(e, n, q, s)
  PROVE  AllIn(f, n, q, s) /\ BlocksIn(f, n, q, s) = BlocksIn(e, n, q, s)
<1>1. ASSUME NEW p \in 0 .. n - 1  PROVE e[<<q, s, p>>] = f[<<q, s, p>>]
  <2>1. <<q, s, p>> \in PartitionKey
    BY DEF PartitionKey
  <2>2. p + 1 \in 1 .. n /\ (p + 1) - 1 = p
    OBVIOUS
  <2>3. e[<<q, s, (p + 1) - 1>>] # NoOutput
    BY <2>2 DEF AllIn
  <2>4. QED
    BY <2>1, <2>2, <2>3 DEF Grows
<1>2. QED
  BY <1>1, BlocksInSame

\* Steps that leave plans and outputs alone.
LEMMA StoreSame ==
  ASSUME PlanInv, EverInv, HeldInv, UNCHANGED <<plan, output, ever, request>>,
         \A b \in held' : b \in held \/ b[4] = 0
  PROVE  PlanInv' /\ EverInv' /\ HeldInv' /\ Grows(ever, ever')
BY DEF PlanInv, EverInv, HeldInv, Count, PlanOf, PartitionOf, Grows

\* submit_stage records the stage: nothing was ever committed under its name.
LEMMA StorePublish ==
  ASSUME TypeInv, PlanInv, EverInv, HeldInv, NEW q \in Query, NEW s \in 1 .. LastStage,
         \A p \in PartitionId : ever[<<q, s, p>>] = NoOutput,
         Accepted(q, s), UNCHANGED <<ever, held, request>>
  PROVE  /\ PlanInv' /\ EverInv' /\ HeldInv' /\ Grows(ever, ever')
         /\ plan' \in [StageKey -> StagePlans \cup {NoStage}]
         /\ \A x \in StageKey : x # <<q, s>> => plan'[x] = plan[x]
         /\ plan[<<q, s>>] = NoStage /\ q \notin closed
         /\ UNCHANGED <<output, closed, failed>>
<1>1. s \in StageId /\ s \in DOMAIN request.stages
  BY StageFacts
<1>2. <<q, s>> \in StageKey
  BY <1>1 DEF StageKey
<1> DEFINE p0 == PlanOf(request, q, s)
<1>3. p0.query = q /\ p0.stage = s
  BY DEF PlanOf
<1>4. /\ plan' = [plan EXCEPT ![<<q, s>>] = p0]
      /\ plan[<<q, s>>] = NoStage /\ q \notin closed
      /\ UNCHANGED <<output, closed, failed>>
  BY <1>3 DEF Accepted, Publish
<1>5. p0 \in StagePlans
  BY <1>1 DEF StagePlans, TypeInv
<1> HIDE DEF p0
<1>6. /\ plan' \in [StageKey -> StagePlans \cup {NoStage}]
      /\ plan'[<<q, s>>] = p0
      /\ \A x \in StageKey : x # <<q, s>> => plan'[x] = plan[x]
  BY <1>2, <1>4, <1>5 DEF TypeInv
<1>7. \A x \in Query, y \in StageId : <<x, y>> \in StageKey
  BY DEF StageKey
<1>8. PlanInv'
  <2>1. SUFFICES ASSUME NEW x \in Query, NEW y \in StageId, plan'[<<x, y>>] # NoStage
                 PROVE  y \in DOMAIN request.stages /\ plan'[<<x, y>>] = PlanOf(request, x, y)
    BY DEF PlanInv, PlanOf
  <2>2. CASE <<x, y>> = <<q, s>>
    BY <1>1, <1>6, <2>2 DEF p0
  <2>3. CASE <<x, y>> # <<q, s>>
    BY <1>6, <1>7, <2>1, <2>3 DEF PlanInv
  <2>4. QED
    BY <2>2, <2>3
<1>9. EverInv'
  <2>1. SUFFICES ASSUME NEW x \in Query, NEW y \in StageId, NEW p \in PartitionId
                 PROVE  /\ plan'[<<x, y>>] # NoStage =>
                             ever[<<x, y, p>>] = output[<<x, y, p>>]
                        /\ plan'[<<x, y>>] = NoStage => output[<<x, y, p>>] = NoOutput
                        /\ ever[<<x, y, p>>] # NoOutput =>
                             y \in DOMAIN request.stages /\ p < Count(y)
    BY <1>4 DEF EverInv, Count
  <2>2. p0 # NoStage
    BY PlanIsSome DEF p0
  <2>3. CASE <<x, y>> = <<q, s>>
    <3>1. x = q /\ y = s
      BY <2>3
    <3>2. output[<<q, s, p>>] = NoOutput /\ ever[<<q, s, p>>] = NoOutput
      BY <1>1, <1>4 DEF EverInv
    <3>3. QED
      BY <3>1, <3>2, <1>6, <2>2
  <2>4. CASE <<x, y>> # <<q, s>>
    BY <1>6, <1>7, <2>4 DEF EverInv
  <2>5. QED
    BY <2>3, <2>4
<1>10. HeldInv' /\ Grows(ever, ever')
  BY DEF HeldInv, PartitionOf, Grows
<1>11. QED
  BY <1>4, <1>6, <1>8, <1>9, <1>10

\* complete_task commits an output, the first of its partition.
LEMMA StoreCommit ==
  ASSUME TypeInv, PlanInv, EverInv, HeldInv, NEW k \in PartitionKey,
         NEW blocks \in Outputs, PartitionCommits(k, blocks)
  PROVE  /\ PlanInv' /\ EverInv' /\ HeldInv' /\ Grows(ever, ever')
         /\ output' \in [PartitionKey -> Output] /\ ever' \in [PartitionKey -> Output]
         /\ held' \in SUBSET Block
         /\ \A x \in PartitionKey : x # k => ever'[x] = ever[x]
         /\ \A b \in held' : b \in held \/ PartitionOf(b) = k
         /\ UNCHANGED <<plan, closed, failed, late, request, d, cleaned, fatal>>
         /\ k[1] \notin closed /\ plan[<<k[1], k[2]>>] # NoStage
         /\ ever[k] = NoOutput /\ k[3] \in 0 .. Count(k[2]) - 1 /\ k[2] \in 1 .. LastStage
<1> DEFINE q == k[1]
           s == k[2]
           p == k[3]
           new == [attempt |-> 0, blocks |-> blocks]
<1>1. q \in Query /\ s \in StageId /\ p \in PartitionId /\ k = <<q, s, p>>
  BY DEF PartitionKey
<1>2. /\ output[k] = NoOutput /\ plan[<<q, s>>] # NoStage /\ q \notin closed
      /\ p < plan[<<q, s>>].partitions
      /\ output' = [output EXCEPT ![k] = new]
      /\ UNCHANGED <<plan, closed>>
  BY DEF PartitionCommits, Commit, Members, StageOf
<1>3. /\ held' = held \cup {<<q, s, p, n>> : n \in DOMAIN blocks}
      /\ ever' = [ever EXCEPT ![k] = output'[k]]
      /\ UNCHANGED <<failed, late, request, d, cleaned, fatal>>
  BY DEF PartitionCommits, clientVars
<1>4. new \in Output /\ blocks \in Seq(Nat)
  BY IdAssumption DEF Output
<1> HIDE DEF new
<1>5. output \in [PartitionKey -> Output] /\ ever \in [PartitionKey -> Output]
  BY DEF TypeInv
<1>6. /\ output' \in [PartitionKey -> Output] /\ ever' \in [PartitionKey -> Output]
      /\ output'[k] = new /\ ever'[k] = new
      /\ \A x \in PartitionKey : x # k => output'[x] = output[x] /\ ever'[x] = ever[x]
  BY <1>2, <1>3, <1>4, <1>5
<1>7. ever[k] = NoOutput
  BY <1>1, <1>2 DEF EverInv
<1>8. s \in DOMAIN request.stages /\ plan[<<q, s>>] = PlanOf(request, q, s)
  BY <1>1, <1>2 DEF PlanInv
<1>9. s \in 1 .. LastStage /\ Count(s) \in Nat
  BY <1>8, StageFacts
<1>10. p < Count(s)
  BY <1>2, <1>8 DEF PlanOf, Count
<1>11. p \in 0 .. Count(s) - 1
  BY <1>1, <1>9, <1>10, IdAssumption
<1>12. \A b \in held' : b \in Block /\ (b \in held \/ PartitionOf(b) = k)
  <2>1. SUFFICES ASSUME NEW n \in DOMAIN blocks
                 PROVE  <<q, s, p, n>> \in Block /\ PartitionOf(<<q, s, p, n>>) = k
    BY <1>3 DEF TypeInv
  <2>2. n \in Nat \ {0}
    BY <1>4
  <2>3. QED
    BY <1>1, <2>2 DEF Block, PartitionOf
<1>13. PlanInv'
  BY <1>2, <1>3 DEF PlanInv, PlanOf
<1>14. EverInv'
  <2>1. SUFFICES ASSUME NEW x \in Query, NEW y \in StageId, NEW z \in PartitionId
                 PROVE  /\ plan[<<x, y>>] # NoStage =>
                             ever'[<<x, y, z>>] = output'[<<x, y, z>>]
                        /\ plan[<<x, y>>] = NoStage => output'[<<x, y, z>>] = NoOutput
                        /\ ever'[<<x, y, z>>] # NoOutput =>
                             y \in DOMAIN request.stages /\ z < Count(y)
    BY <1>2, <1>3 DEF EverInv, Count
  <2>2. <<x, y, z>> \in PartitionKey
    BY DEF PartitionKey
  <2>3. CASE <<x, y, z>> = k
    <3>1. x = q /\ y = s /\ z = p
      BY <1>1, <2>3
    <3>2. QED
      BY <3>1, <2>3, <1>2, <1>6, <1>8, <1>10
  <2>4. CASE <<x, y, z>> # k
    BY <2>2, <2>4, <1>6 DEF EverInv
  <2>5. QED
    BY <2>3, <2>4
<1>15. HeldInv'
  <2>1. SUFFICES ASSUME NEW b \in held', b[4] # 0
                 PROVE  b[4] \in DOMAIN ever'[PartitionOf(b)].blocks
    BY DEF HeldInv, PartitionOf
  <2>2. CASE PartitionOf(b) = k /\ b \notin held
    <3>1. PICK n \in DOMAIN blocks : b = <<q, s, p, n>>
      BY <1>3, <2>2
    <3>2. b[4] = n /\ ever'[k].blocks = blocks
      BY <3>1, <1>6 DEF new
    <3>3. QED
      BY <3>2, <2>2
  <2>3. CASE b \in held
    <3>1. b[4] \in DOMAIN ever[PartitionOf(b)].blocks
      BY <2>1, <2>3 DEF HeldInv
    <3>2. DOMAIN NoOutput.blocks = {}
      BY DEF NoOutput
    <3>3. PartitionOf(b) # k
      BY <3>1, <3>2, <1>7
    <3>4. PartitionOf(b) \in PartitionKey
      BY <1>12, BlockFacts
    <3>5. QED
      BY <3>1, <3>3, <3>4, <1>6
  <2>4. QED
    BY <2>2, <2>3, <1>12
<1>16. Grows(ever, ever')
  BY <1>6, <1>7 DEF Grows
<1>17. QED
  BY <1>2, <1>3, <1>6, <1>7, <1>9, <1>11, <1>12, <1>13, <1>14, <1>15, <1>16

\* A restart forgets plans and outputs, and the history keeps them.
LEMMA StoreForget ==
  ASSUME TypeInv, EverInv, HeldInv, CoordinatorRestarts
  PROVE  /\ PlanInv' /\ EverInv' /\ HeldInv' /\ Grows(ever, ever')
         /\ \A q \in Query, s \in StageId : plan'[<<q, s>>] = NoStage
<1>1. /\ plan' = [s \in StageKey |-> NoStage]
      /\ output' = [k \in PartitionKey |-> NoOutput]
      /\ UNCHANGED <<held, ever, request>>
  BY DEF CoordinatorRestarts, clientVars
<1>2. \A q \in Query, s \in StageId : plan'[<<q, s>>] = NoStage
  BY <1>1 DEF StageKey
<1>3. \A q \in Query, s \in StageId, p \in PartitionId : output'[<<q, s, p>>] = NoOutput
  BY <1>1 DEF PartitionKey
<1>4. PlanInv'
  BY <1>2 DEF PlanInv
<1>5. EverInv'
  BY <1>1, <1>2, <1>3 DEF EverInv, Count
<1>6. QED
  BY <1>1, <1>2, <1>4, <1>5 DEF HeldInv, PartitionOf, Grows

-----------------------------------------------------------------------------
(* Steps of the cluster.                                                   *)

\* A query number names the attempt or an earlier or a later one.
LEMMA QueryFacts ==
  ASSUME TypeInv
  PROVE  /\ Q \in Query /\ Query \subseteq Nat
         /\ \A q \in Query, s \in StageId : <<q, s>> \in StageKey
         /\ \A q \in Query, s \in StageId, p \in PartitionId : <<q, s, p>> \in PartitionKey
BY RetryAssumption DEF TypeInv, Frame, Q, Query, StageKey, PartitionKey

\* What the driver has seen complete stays complete while it waits.
LEMMA IdleRounds ==
  ASSUME TypeInv, RoundInv, FetchInv, UNCHANGED <<d, request>>, Grows(ever, ever')
  PROVE  RoundInv' /\ FetchInv'
<1>1. Q \in Query /\ d.stage \in 1 .. LastStage
  BY StageFacts, QueryFacts DEF TypeInv
<1>2. ASSUME NEW s \in 1 .. LastStage, AllIn(ever, Count(s), Q, s)
      PROVE  /\ AllIn(ever', Count(s), Q, s)
             /\ BlocksIn(ever', Count(s), Q, s) = BlocksIn(ever, Count(s), Q, s)
  BY SMTT(30), <1>1, <1>2, StageFacts, GrowsKeeps
<1>3. RoundInv'
  <2>1. \A s \in 1 .. d.stage - 1 : s \in 1 .. LastStage
    BY <1>1, StageFacts
  <2>2. QED
    BY <1>2, <2>1, StageFacts DEF RoundInv, Count, Q
<1>4. FetchInv'
  <2>1. d.at \in Reading =>
          BlocksIn(ever', Count(request.final), Q, request.final)
            = BlocksIn(ever, Count(request.final), Q, request.final)
    BY <1>2, StageFacts DEF RoundInv
  <2>2. QED
    BY <2>1 DEF FetchInv, Count, Q, Reading
<1>5. QED
  BY <1>3, <1>4

\* Losing blocks and closing queries leaves the lists of what to delete complete.
LEMMA IdleLists ==
  ASSUME TidyInv, PurgeInv, UNCHANGED <<d, request, output, ever>>,
         \A b \in held' : b \in held \/ b[4] = 0, closed \subseteq closed'
  PROVE  TidyInv' /\ PurgeInv'
BY DEF TidyInv, PurgeInv, Q, Remembered

\* complete_task.
LEMMA CommitStep ==
  ASSUME Inv, NEW k \in PartitionKey, NEW blocks \in Outputs, PartitionCommits(k, blocks)
  PROVE  Inv'
<1>0. TypeInv /\ PlanInv /\ EverInv /\ HeldInv /\ AheadInv /\ RoundInv /\ FetchInv
      /\ TidyInv /\ PurgeInv /\ CleanedInv /\ FatalInv
  BY DEF Inv
<1>1. /\ PlanInv' /\ EverInv' /\ HeldInv' /\ Grows(ever, ever')
      /\ output' \in [PartitionKey -> Output] /\ ever' \in [PartitionKey -> Output]
      /\ held' \in SUBSET Block
      /\ \A x \in PartitionKey : x # k => ever'[x] = ever[x]
      /\ \A b \in held' : b \in held \/ PartitionOf(b) = k
      /\ UNCHANGED <<plan, closed, failed, late, request, d, cleaned, fatal>>
      /\ k[1] \notin closed /\ plan[<<k[1], k[2]>>] # NoStage
      /\ ever[k] = NoOutput /\ k[3] \in 0 .. Count(k[2]) - 1 /\ k[2] \in 1 .. LastStage
  BY <1>0, StoreCommit
<1>2. TypeInv'
  BY <1>0, <1>1 DEF TypeInv
<1>3. k = <<k[1], k[2], k[3]>> /\ k[1] \in Query /\ k[2] \in StageId /\ k[3] \in PartitionId
  BY DEF PartitionKey
<1>4. ~AllIn(ever, Count(k[2]), k[1], k[2])
  <2>1. Count(k[2]) \in Nat
    BY <1>0, <1>1, StageFacts
  <2>2. k[3] + 1 \in 1 .. Count(k[2]) /\ (k[3] + 1) - 1 = k[3]
    BY <1>1, <2>1
  <2>3. ever[<<k[1], k[2], (k[3] + 1) - 1>>] = NoOutput
    BY <1>1, <1>3, <2>2
  <2>4. QED
    BY <2>2, <2>3 DEF AllIn
<1>5. \A b \in held' : b[1] = PartitionOf(b)[1]
  BY DEF PartitionOf
<1>6. AheadInv'
  <2>1. SUFFICES ASSUME NEW q \in Query, NEW s \in StageId, Ahead(q, s)
                 PROVE  \A p \in PartitionId : ever'[<<q, s, p>>] = NoOutput
    BY <1>0, <1>1 DEF AheadInv, Ahead, Cleaning, Q
  <2>2. plan[<<q, s>>] = NoStage /\ \A p \in PartitionId : ever[<<q, s, p>>] = NoOutput
    BY <1>0, <2>1 DEF AheadInv
  <2>3. \A p \in PartitionId : <<q, s, p>> # k
    BY <1>1, <2>2
  <2>4. QED
    BY <1>0, <1>1, <2>2, <2>3, QueryFacts
<1>7. RoundInv' /\ FetchInv'
  BY <1>0, <1>1, IdleRounds
<1>8. TidyInv'
  <2>1. SUFFICES ASSUME NEW b \in held', b[1] = Q, b \notin held,
                        d.at \in {"list", "fetch", "tidy"}
                 PROVE  FALSE
    BY <1>0, <1>1 DEF TidyInv, Q
  <2>2. k[1] = Q
    BY <1>1, <1>5, <2>1
  <2>3. AllIn(ever, Count(k[2]), Q, k[2])
    BY <1>0, <1>1, <2>1, StageFacts DEF RoundInv, Reading
  <2>4. QED
    BY <1>4, <2>2, <2>3
<1>9. PurgeInv'
  <2>1. SUFFICES ASSUME d.at \in {"survey", "purge"}, d.thorough
                 PROVE  PurgeInv'
    BY <1>1 DEF PurgeInv
  <2>2. k[1] # Q /\ Remembered
    BY <1>0, <1>1, <2>1 DEF PurgeInv
  <2>3. \A x \in PartitionKey : x[1] = Q => ever'[x] = output'[x]
    <3>1. \A x \in PartitionKey : x # k => output'[x] = output[x]
      BY <1>0 DEF PartitionCommits, Commit, TypeInv
    <3>2. QED
      BY <3>1, <1>1, <2>2 DEF Remembered
  <2>4. \A b \in held' : b[1] = Q => b \in held
    BY <1>1, <1>5, <2>2
  <2>5. QED
    BY <1>0, <1>1, <2>1, <2>3, <2>4 DEF PurgeInv, Remembered, Q
<1>10. CleanedInv'
  <2>1. SUFFICES ASSUME NEW q \in cleaned
                 PROVE  /\ \A b \in held' : b[1] = q => b[4] = 0
                        /\ \A s \in StageId : plan[<<q, s>>] # NoStage /\ q \notin closed =>
                             AllIn(ever', Count(s), q, s)
    BY <1>0, <1>1 DEF CleanedInv, Q, Count
  <2>2. q \in Query
    BY <1>0 DEF TypeInv
  <2>3. \A s \in StageId : plan[<<q, s>>] # NoStage /\ q \notin closed =>
          s \in 1 .. LastStage /\ AllIn(ever, Count(s), q, s)
    BY <1>0, <2>2, StageFacts DEF CleanedInv, PlanInv
  <2>4. \A b \in held' : b[1] = q => b[4] = 0
    BY <1>0, <1>1, <1>3, <1>4, <1>5, <2>3 DEF CleanedInv
  <2>5. \A s \in StageId : plan[<<q, s>>] # NoStage /\ q \notin closed =>
          AllIn(ever', Count(s), q, s)
    BY <1>0, <1>1, <2>2, <2>3, StageFacts, GrowsKeeps
  <2>6. QED
    BY <2>4, <2>5
<1>11. FatalInv'
  BY <1>0, <1>1 DEF FatalInv, Cleaning, Q
<1>12. QED
  BY <1>1, <1>2, <1>6, <1>7, <1>8, <1>9, <1>10, <1>11 DEF Inv

\* An attempt fails, a worker goes away or somebody else cancels: plans and outputs
\* stay, and a failure for good is only forgotten with its query.
LEMMA MishapStep ==
  ASSUME Inv, UNCHANGED <<plan, output, late, request, d, ever, cleaned, fatal>>,
         held' \in SUBSET Block, \A b \in held' : b \in held \/ b[4] = 0,
         closed \subseteq closed', closed' \in SUBSET Query,
         failed' \in [PartitionKey -> Kind],
         \A k \in PartitionKey : failed[k] = "fatal" => failed'[k] = "fatal" \/ k[1] \in closed'
  PROVE  Inv'
<1>0. TypeInv /\ PlanInv /\ EverInv /\ HeldInv /\ AheadInv /\ RoundInv /\ FetchInv
      /\ TidyInv /\ PurgeInv /\ CleanedInv /\ FatalInv
  BY DEF Inv
<1>1. PlanInv' /\ EverInv' /\ HeldInv' /\ Grows(ever, ever')
  BY <1>0, StoreSame
<1>2. TypeInv'
  BY <1>0 DEF TypeInv
<1>3. AheadInv'
  BY <1>0 DEF AheadInv, Ahead, Cleaning, Q
<1>4. RoundInv' /\ FetchInv'
  BY <1>0, <1>1, IdleRounds
<1>5. TidyInv' /\ PurgeInv'
  BY <1>0, IdleLists
<1>6. CleanedInv'
  BY <1>0 DEF CleanedInv, Q, Count
<1>7. FatalInv'
  BY <1>0 DEF FatalInv, Cleaning, Q
<1>8. QED
  BY <1>1, <1>2, <1>3, <1>4, <1>5, <1>6, <1>7 DEF Inv

\* fail_task, for the last time.
LEMMA PartitionFailsStep ==
  ASSUME Inv, NEW k \in PartitionKey, NEW kind \in {"retryable", "fatal"},
         PartitionFails(k, kind)
  PROVE  Inv'
<1>1. failed \in [PartitionKey -> Kind] /\ closed \in SUBSET Query /\ held \in SUBSET Block
  BY DEF Inv, TypeInv
<1>2. /\ failed[k] = "no" /\ failed' = [failed EXCEPT ![k] = kind]
      /\ UNCHANGED <<plan, output, closed, late, request, d, ever, cleaned, fatal, held>>
  BY DEF PartitionFails, promiseVars, clientVars, historyVars
<1>3. /\ failed' \in [PartitionKey -> Kind]
      /\ \A x \in PartitionKey : failed[x] = "fatal" => failed'[x] = "fatal"
  BY <1>1, <1>2 DEF Kind
<1>4. QED
  BY <1>1, <1>2, <1>3, MishapStep

\* A task succeeds after its query was cancelled: its blocks are on no list.
LEMMA LateSuccessStep ==
  ASSUME Inv, NEW k \in PartitionKey, LateSuccess(k)
  PROVE  Inv'
<1>1. failed \in [PartitionKey -> Kind] /\ closed \in SUBSET Query /\ held \in SUBSET Block
  BY DEF Inv, TypeInv
<1>2. /\ held' = held \cup {Unlisted(k)}
      /\ UNCHANGED <<plan, output, closed, late, request, d, ever, cleaned, fatal, failed>>
  BY DEF LateSuccess, coordVars, promiseVars, clientVars, historyVars
<1>3. Unlisted(k) \in Block /\ Unlisted(k)[4] = 0
  BY DEF Unlisted, Block, PartitionKey
<1>4. held' \in SUBSET Block /\ \A b \in held' : b \in held \/ b[4] = 0
  BY <1>1, <1>2, <1>3
<1>5. QED
  BY <1>1, <1>2, <1>4, MishapStep

\* A worker goes away with its blocks.
LEMMA BlocksLostStep ==
  ASSUME Inv, NEW k \in PartitionKey, BlocksLost(k)
  PROVE  Inv'
<1>1. failed \in [PartitionKey -> Kind] /\ closed \in SUBSET Query /\ held \in SUBSET Block
  BY DEF Inv, TypeInv
<1>2. /\ held' \subseteq held
      /\ UNCHANGED <<plan, output, closed, late, request, d, ever, cleaned, fatal, failed>>
  BY DEF BlocksLost, coordVars, promiseVars, clientVars, historyVars
<1>3. QED
  BY <1>1, <1>2, MishapStep

\* cancel_query, by the driver or by somebody else.
LEMMA Closing ==
  ASSUME TypeInv, NEW q \in Query, CloseQuery(q) \/ UNCHANGED coordVars
  PROVE  /\ UNCHANGED <<plan, output>>
         /\ closed \subseteq closed' /\ closed' \in SUBSET Query
         /\ failed' \in [PartitionKey -> Kind]
         /\ \A k \in PartitionKey : failed[k] = "fatal" =>
              failed'[k] = "fatal" \/ k[1] \in closed'
<1>1. failed \in [PartitionKey -> Kind] /\ closed \in SUBSET Query
  BY DEF TypeInv
<1>2. CASE CloseQuery(q)
  <2>1. /\ closed' = closed \cup {q} /\ UNCHANGED <<plan, output>>
        /\ failed' = [k \in PartitionKey |-> IF k[1] = q THEN "no" ELSE failed[k]]
    BY <1>2 DEF CloseQuery, Close
  <2>2. QED
    BY <1>1, <2>1 DEF Kind
<1>3. CASE UNCHANGED coordVars
  BY <1>1, <1>3 DEF coordVars, promiseVars
<1>4. QED
  BY <1>2, <1>3

\* cancel_query, by somebody else.
LEMMA OthersCancelStep ==
  ASSUME Inv, NEW q \in Query, OthersCancel(q)
  PROVE  Inv'
<1>1. CloseQuery(q) /\ UNCHANGED <<held, late, request, d, ever, cleaned, fatal>>
  BY DEF OthersCancel, clientVars, historyVars
<1>2. TypeInv /\ held \in SUBSET Block
  BY DEF Inv, TypeInv
<1>3. QED
  BY <1>1, <1>2, Closing, MishapStep

\* A submission arrives that its driver had given up on.
LEMMA LateSubmitStep ==
  ASSUME Inv, NEW q, NEW s, LateSubmit(q, s)
  PROVE  Inv'
<1>0. TypeInv /\ PlanInv /\ EverInv /\ HeldInv /\ AheadInv /\ RoundInv /\ FetchInv
      /\ TidyInv /\ PurgeInv /\ CleanedInv /\ FatalInv
  BY DEF Inv
<1>1. /\ <<q, s>> \in late /\ late' = late \ {<<q, s>>} /\ Accepted(q, s)
      /\ UNCHANGED <<held, request, d, ever, cleaned, fatal>>
  BY DEF LateSubmit, clientVars, historyVars
<1>2. q \in Query /\ s \in StageId
  BY <1>0, <1>1 DEF TypeInv, StageKey
<1>3. /\ s \in 1 .. LastStage /\ q <= Q /\ (q = Q => d.at \in Cleaning)
      /\ \A p \in PartitionId : ever[<<q, s, p>>] = NoOutput
  BY <1>0, <1>1, <1>2, StageFacts DEF AheadInv, Ahead
<1>4. /\ PlanInv' /\ EverInv' /\ HeldInv' /\ Grows(ever, ever')
      /\ plan' \in [StageKey -> StagePlans \cup {NoStage}]
      /\ \A x \in StageKey : x # <<q, s>> => plan'[x] = plan[x]
      /\ plan[<<q, s>>] = NoStage /\ q \notin closed
      /\ UNCHANGED <<output, closed, failed>>
  BY <1>0, <1>1, <1>2, <1>3, StorePublish
<1>5. TypeInv'
  BY <1>0, <1>1, <1>4 DEF TypeInv
<1>6. AheadInv'
  <2>1. SUFFICES ASSUME NEW x \in Query, NEW y \in StageId, Ahead(x, y)'
                 PROVE  /\ plan'[<<x, y>>] = NoStage
                        /\ \A p \in PartitionId : ever[<<x, y, p>>] = NoOutput
    BY <1>0, <1>1 DEF AheadInv, Cleaning, Q
  <2>2. Ahead(x, y) /\ <<x, y>> # <<q, s>>
    BY <1>0, <1>1, <1>2, <1>3, <2>1, QueryFacts DEF Ahead, Q, Cleaning
  <2>3. QED
    BY <1>0, <1>4, <2>2, QueryFacts DEF AheadInv
<1>7. RoundInv' /\ FetchInv'
  BY <1>0, <1>1, <1>4, IdleRounds
<1>8. TidyInv' /\ PurgeInv'
  BY <1>0, <1>1, <1>4, IdleLists
<1>9. CleanedInv'
  <2>1. ASSUME NEW x \in cleaned, x \notin closed, NEW y \in StageId
        PROVE  <<x, y>> # <<q, s>>
    BY <1>0, <1>1, <2>1 DEF CleanedInv
  <2>2. \A x \in cleaned, y \in StageId : <<x, y>> \in StageKey
    BY <1>0, QueryFacts DEF TypeInv
  <2>3. QED
    BY <1>0, <1>1, <1>4, <2>1, <2>2 DEF CleanedInv, Q, Count
<1>10. FatalInv'
  <2>1. <<Q, d.stage>> \in StageKey
    BY <1>0, StageFacts, QueryFacts DEF TypeInv
  <2>2. plan[<<Q, d.stage>>] # NoStage => plan'[<<Q, d.stage>>] # NoStage
    BY <1>4, <2>1
  <2>3. QED
    BY <1>0, <1>1, <1>4, <2>2 DEF FatalInv, Cleaning, Q
<1>11. QED
  BY <1>4, <1>5, <1>6, <1>7, <1>8, <1>9, <1>10 DEF Inv

\* The coordinator's process is started again.
LEMMA RestartStep ==
  ASSUME Inv, CoordinatorRestarts
  PROVE  Inv'
<1>0. TypeInv /\ PlanInv /\ EverInv /\ HeldInv /\ AheadInv /\ RoundInv /\ FetchInv
      /\ TidyInv /\ PurgeInv /\ CleanedInv /\ FatalInv
  BY DEF Inv
<1>1. /\ PlanInv' /\ EverInv' /\ HeldInv' /\ Grows(ever, ever')
      /\ \A q \in Query, s \in StageId : plan'[<<q, s>>] = NoStage
  BY <1>0, StoreForget
<1>2. /\ plan' = [s \in StageKey |-> NoStage]
      /\ output' = [k \in PartitionKey |-> NoOutput]
      /\ failed' = [k \in PartitionKey |-> "no"]
      /\ closed' = {} /\ late' = {}
      /\ d' = IF d.at \in {"survey", "purge"} THEN [d EXCEPT !.thorough = FALSE] ELSE d
      /\ fatal' = IF d.at = "details" THEN {} ELSE fatal
      /\ UNCHANGED <<held, request, ever, cleaned>>
  BY DEF CoordinatorRestarts, clientVars
<1>3. /\ d' \in Frame /\ d'.at = d.at /\ d'.attempt = d.attempt /\ d'.stage = d.stage
      /\ d'.allDone = d.allDone /\ d'.todo = d.todo /\ d'.others = d.others
      /\ d'.fetched = d.fetched /\ d'.error = d.error
      /\ d.at \in {"survey", "purge"} => d'.thorough = FALSE
      /\ d.at \notin {"survey", "purge"} => d'.thorough = d.thorough
  BY <1>0, <1>2 DEF TypeInv, Frame
<1>4. TypeInv'
  <2>1. NoOutput \in Output
    BY DEF Output, NoOutput
  <2>2. QED
    BY <1>0, <1>2, <1>3, <2>1 DEF TypeInv, Kind
<1>5. AheadInv'
  BY <1>0, <1>1, <1>2, <1>3 DEF AheadInv, Ahead, Cleaning, Q
<1>6. RoundInv'
  BY <1>0, <1>2, <1>3 DEF RoundInv, Count, Q
<1>7. FetchInv'
  BY <1>0, <1>2, <1>3 DEF FetchInv, Count, Q
<1>8. TidyInv'
  BY <1>0, <1>2, <1>3 DEF TidyInv, Q
<1>9. PurgeInv'
  BY <1>3 DEF PurgeInv
<1>10. CleanedInv'
  <2>1. \A q \in cleaned : q \in Query
    BY <1>0 DEF TypeInv
  <2>2. QED
    BY <1>0, <1>1, <1>2, <1>3, <2>1 DEF CleanedInv, Q
<1>11. FatalInv'
  BY <1>0, <1>2, <1>3 DEF FatalInv, Cleaning, Q
<1>12. QED
  BY <1>1, <1>4, <1>5, <1>6, <1>7, <1>8, <1>9, <1>10, <1>11 DEF Inv

-----------------------------------------------------------------------------
(* Steps of the driver.                                                    *)

Errors == {"retryable", "fatal", "cancelled"}

\* An attempt's locals as it begins.
LEMMA LocalsType ==
  ASSUME NEW q \in Query
  PROVE  Locals(q) \in Frame
<1>1. << >> \in Seq(Item)
  OBVIOUS
<1>2. QED
  BY <1>1 DEF Locals, Frame, Places, Kind

\* execute_graph_once ends with an error, wherever it is: what it leaves behind are
\* the query's outputs, perhaps a stage it has just submitted or a submission that
\* is still under way.
LEMMA FailingStep ==
  ASSUME Inv, NEW e \in Errors, d.at \in Executing, Failing(e),
         UNCHANGED <<output, held, request, ever, cleaned>>,
         closed \subseteq closed', closed' \in SUBSET Query,
         failed' \in [PartitionKey -> Kind],
         fatal' \subseteq fatal, Q \in fatal' => e # "retryable",
         \/ plan' = plan /\ late' = late
         \/ plan' = plan /\ d.at = "submit" /\ late' = late \cup {<<Q, d.stage>>}
         \/ Accepted(Q, d.stage) /\ d.at = "submit" /\ late' = late
  PROVE  Inv'
<1>0. TypeInv /\ PlanInv /\ EverInv /\ HeldInv /\ AheadInv /\ RoundInv /\ FetchInv
      /\ TidyInv /\ PurgeInv /\ CleanedInv /\ FatalInv
  BY DEF Inv
<1>1. /\ d' \in Frame /\ d'.at = "cancel" /\ d'.attempt = d.attempt /\ d'.stage = 1
      /\ d'.error = e
  <2>1. Locals(d.attempt) \in Frame
    BY <1>0, LocalsType, QueryFacts DEF Q
  <2>2. /\ d' = [Locals(d.attempt) EXCEPT !.at = "cancel", !.error = e]
        /\ Locals(d.attempt).attempt = d.attempt /\ Locals(d.attempt).stage = 1
    BY DEF Failing, Locals
  <2>3. QED
    BY <2>1, <2>2 DEF Frame, Errors, Places
<1>2. Q \in Query /\ d.stage \in 1 .. LastStage /\ d.stage \in StageId
      /\ <<Q, d.stage>> \in StageKey
  BY <1>0, StageFacts, QueryFacts DEF TypeInv
<1>3. d.at = "submit" => /\ plan[<<Q, d.stage>>] = NoStage
                         /\ \A p \in PartitionId : ever[<<Q, d.stage, p>>] = NoOutput
  <2>1. d.at = "submit" => Ahead(Q, d.stage)
    BY <1>2, StageFacts, <1>0 DEF Ahead
  <2>2. QED
    BY <1>0, <1>2, <2>1 DEF AheadInv
<1>4. /\ PlanInv' /\ EverInv' /\ HeldInv' /\ Grows(ever, ever')
      /\ plan' \in [StageKey -> StagePlans \cup {NoStage}]
      /\ \A x \in StageKey : x # <<Q, d.stage>> => plan'[x] = plan[x]
      /\ d.at # "submit" => plan' = plan
  <2>1. CASE plan' = plan
    BY <1>0, <2>1, StoreSame DEF TypeInv
  <2>2. CASE Accepted(Q, d.stage) /\ d.at = "submit"
    BY <1>0, <1>2, <1>3, <2>2, StorePublish
  <2>3. QED
    BY <2>1, <2>2
<1>5. late' \in SUBSET StageKey /\ \A x \in late' : x \in late \/ (d.at = "submit" /\ plan' = plan
                                                           /\ x = <<Q, d.stage>>)
  BY <1>0, <1>2 DEF TypeInv
<1>6. TypeInv'
  <2>1. 1 \in DOMAIN request.stages
    BY <1>0, StageFacts
  <2>2. QED
    BY <1>0, <1>1, <1>4, <1>5, <2>1 DEF TypeInv
<1>7. \A q \in Query, s \in StageId : <<q, s>> \in late => q # Q
  BY <1>0 DEF AheadInv, Executing, Cleaning
<1>8. AheadInv'
  <2>1. ASSUME NEW q \in Query, NEW s \in StageId, Ahead(q, s)'
        PROVE  /\ plan'[<<q, s>>] = NoStage
               /\ \A p \in PartitionId : ever[<<q, s, p>>] = NoOutput
    <3>1. q > Q \/ <<q, s>> \in late'
      BY <1>1, <2>1 DEF Ahead, Q
    <3>2. <<q, s>> \in StageKey /\ Q \in Nat /\ q \in Nat
      BY <1>0, QueryFacts
    <3>3. CASE q > Q
      <4>1. q # Q
        BY <3>2, <3>3
      <4>2. plan'[<<q, s>>] = plan[<<q, s>>]
        BY <1>4, <3>2, <4>1
      <4>3. QED
        BY <1>0, <3>3, <4>2 DEF AheadInv, Ahead
    <3>4. CASE <<q, s>> \in late
      <4>1. plan'[<<q, s>>] = plan[<<q, s>>]
        BY <1>4, <1>7, <3>2, <3>4
      <4>2. QED
        BY <1>0, <3>4, <4>1 DEF AheadInv, Ahead
    <3>5. CASE d.at = "submit" /\ plan' = plan /\ <<q, s>> = <<Q, d.stage>>
      BY <1>3, <3>5
    <3>6. QED
      BY <1>5, <3>1, <3>3, <3>4, <3>5
  <2>2. ASSUME NEW q \in Query, NEW s \in StageId, <<q, s>> \in late'
        PROVE  s \in DOMAIN request.stages /\ q <= Q
    <3>1. CASE <<q, s>> \in late
      BY <1>0, <3>1 DEF AheadInv
    <3>2. CASE <<q, s>> = <<Q, d.stage>>
      BY <1>0, <1>2, <3>2, StageFacts, QueryFacts
    <3>3. QED
      BY <1>5, <2>2, <3>1, <3>2
  <2>3. QED
    BY <1>1, <2>1, <2>2 DEF AheadInv, Cleaning, Q
<1>9. RoundInv' /\ FetchInv' /\ TidyInv' /\ PurgeInv'
  BY <1>1 DEF RoundInv, FetchInv, TidyInv, PurgeInv, Reading
<1>10. CleanedInv'
  <2>1. \A q \in cleaned : q \in Query /\ q # Q
    BY <1>0 DEF CleanedInv, TypeInv, Executing
  <2>2. \A q \in cleaned, s \in StageId :
          plan'[<<q, s>>] = plan[<<q, s>>] /\ (<<q, s>> \in late' => <<q, s>> \in late)
    BY <1>0, <1>4, <1>5, <2>1, QueryFacts
  <2>3. QED
    BY <1>0, <1>1, <2>1, <2>2 DEF CleanedInv, Q, Count
<1>11. FatalInv'
  BY <1>0, <1>1 DEF FatalInv, Cleaning, Q, Errors
<1>12. QED
  BY <1>4, <1>6, <1>8, <1>9, <1>10, <1>11 DEF Inv

\* A step of the driver that leaves everything alone but its own locals, and the
\* last two parts of the history.
Own == UNCHANGED <<plan, output, closed, failed, held, late, request, ever>>

\* An error, found without the help of the coordinator.
LEMMA FailingAlone ==
  ASSUME Inv, NEW e \in Errors, d.at \in Executing, Failing(e), Own,
         UNCHANGED cleaned, fatal' \subseteq fatal, Q \in fatal' => e # "retryable"
  PROVE  Inv'
<1>1. closed \in SUBSET Query /\ failed \in [PartitionKey -> Kind]
  BY DEF Inv, TypeInv
<1>2. QED
  BY <1>1, FailingStep DEF Own

\* The driver moves on within an attempt: what has to be shown of its locals.
LEMMA MovingStep ==
  ASSUME Inv, Own, d' \in Frame, d'.attempt = d.attempt,
         d'.stage \in DOMAIN request.stages,
         d'.at # "begin", d'.at = "submit" => d.at = "begin",
         d.at \in Cleaning => d'.at \in Cleaning,
         RoundInv', FetchInv', TidyInv', PurgeInv', CleanedInv', FatalInv',
         cleaned' \in SUBSET Query, fatal' \in SUBSET Query
  PROVE  Inv'
<1>0. TypeInv /\ PlanInv /\ EverInv /\ HeldInv /\ AheadInv
  BY DEF Inv
<1>1. PlanInv' /\ EverInv' /\ HeldInv'
  BY <1>0, StoreSame DEF Own
<1>2. TypeInv'
  BY <1>0 DEF TypeInv, Own
<1>3. AheadInv'
  BY <1>0 DEF AheadInv, Ahead, Cleaning, Q, Own
<1>4. QED
  BY <1>1, <1>2, <1>3 DEF Inv

\* The token is checked and the coordinator dialled.
LEMMA BeginStep ==
  ASSUME Inv, Begin
  PROVE  Inv'
<1>0. TypeInv /\ PlanInv /\ EverInv /\ HeldInv /\ AheadInv /\ RoundInv /\ FetchInv
      /\ TidyInv /\ PurgeInv /\ CleanedInv /\ FatalInv
  BY DEF Inv
<1>1. d.at = "begin" /\ Own /\ UNCHANGED <<cleaned, fatal>>
  BY DEF Begin, Local, Asking, Own, coordVars, promiseVars, clientVars, historyVars
<1>2. CASE d' = [d EXCEPT !.at = "submit"]
  <2>1. /\ d' \in Frame /\ d'.at = "submit" /\ d'.attempt = d.attempt
        /\ d'.stage = d.stage /\ d'.todo = d.todo /\ d'.others = d.others
        /\ d'.fetched = d.fetched
    BY <1>0, <1>2 DEF TypeInv, Frame, Places
  <2>2. RoundInv' /\ TidyInv' /\ PurgeInv'
    BY <2>1 DEF RoundInv, TidyInv, PurgeInv, Reading
  <2>3. FetchInv'
    BY <1>0, <1>1, <2>1 DEF FetchInv
  <2>4. CleanedInv'
    BY <1>0, <1>1, <2>1 DEF CleanedInv, Q, Count, Own
  <2>5. FatalInv'
    BY <1>0, <1>1, <2>1 DEF FatalInv, Q, Cleaning
  <2>6. QED
    BY <1>0, <1>1, <2>1, <2>2, <2>3, <2>4, <2>5, MovingStep DEF TypeInv, Cleaning, Executing
<1>3. CASE \E e \in {"cancelled", "fatal"} : Failing(e)
  BY <1>1, <1>3, FailingAlone DEF Errors, Executing
<1>4. QED
  BY <1>2, <1>3 DEF Begin

\* submit_stage is answered, or the driver never learns of it.
LEMMA SubmitStep ==
  ASSUME Inv, Submit
  PROVE  Inv'
<1>0. TypeInv /\ PlanInv /\ EverInv /\ HeldInv /\ AheadInv /\ RoundInv /\ FetchInv
      /\ TidyInv /\ PurgeInv /\ CleanedInv /\ FatalInv
  BY DEF Inv
<1>1. d.at = "submit" /\ UNCHANGED <<held, request, ever, cleaned, fatal>>
  BY DEF Submit, clientVars, historyVars
<1>2. closed \in SUBSET Query /\ failed \in [PartitionKey -> Kind] /\ d.at \in Executing
      /\ Q \in Query /\ d.stage \in 1 .. LastStage /\ d.stage \in StageId
  BY <1>0, <1>1, StageFacts, QueryFacts DEF TypeInv, Executing
<1>3. ASSUME Accepted(Q, d.stage)
      PROVE  UNCHANGED <<output, closed, failed>>
  BY <1>3 DEF Accepted, Publish
<1>4. CASE Failing("fatal")
  <2>1. "fatal" \in Errors
    BY DEF Errors
  <2>2. CASE Accepted(Q, d.stage) /\ UNCHANGED late
    BY <1>1, <1>2, <1>3, <1>4, <2>1, <2>2, FailingStep
  <2>3. CASE late' \in {late, late \cup {<<Q, d.stage>>}} /\ UNCHANGED coordVars
    <3>1. UNCHANGED <<plan, output, closed, failed>>
      BY <2>3 DEF coordVars, promiseVars
    <3>2. QED
      BY <1>1, <1>2, <1>4, <2>1, <2>3, <3>1, FailingStep
  <2>4. QED
    BY <2>2, <2>3, <1>4 DEF Submit
<1>5. CASE Accepted(Q, d.stage) /\ d' = AfterSubmit /\ UNCHANGED late
  <2>1. Ahead(Q, d.stage)
    BY <1>0, <1>1, <1>2, StageFacts DEF Ahead
  <2>2. \A p \in PartitionId : ever[<<Q, d.stage, p>>] = NoOutput
    BY <1>0, <1>2, <2>1 DEF AheadInv
  <2>3. /\ PlanInv' /\ EverInv' /\ HeldInv' /\ Grows(ever, ever')
        /\ plan' \in [StageKey -> StagePlans \cup {NoStage}]
        /\ \A x \in StageKey : x # <<Q, d.stage>> => plan'[x] = plan[x]
        /\ UNCHANGED <<output, closed, failed>>
    BY <1>0, <1>1, <1>2, <1>5, <2>2, StorePublish
  <2>4. /\ d' \in Frame /\ d'.attempt = d.attempt /\ d'.todo = d.todo
        /\ d'.others = d.others /\ d'.fetched = d.fetched
        /\ d'.stage \in 1 .. LastStage
        /\ \/ d'.at = "submit" /\ d'.stage = d.stage + 1
           \/ d'.at = "status" /\ d'.stage = 1
    <3>1. LastStage \in Nat /\ d.stage \in Nat
      BY <1>0, <1>2, StageFacts
    <3>2. CASE d.stage < LastStage
      <4>1. d' = [d EXCEPT !.stage = d.stage + 1]
        BY <1>5, <3>2 DEF AfterSubmit
      <4>2. d.stage + 1 \in Nat /\ d.stage + 1 \in 1 .. LastStage
        BY <1>2, <3>1, <3>2
      <4>3. d \in Frame
        BY <1>0 DEF TypeInv
      <4>4. QED
        BY <1>1, <4>1, <4>2, <4>3 DEF Frame
    <3>3. CASE ~(d.stage < LastStage)
      <4>1. d' = [d EXCEPT !.at = "status", !.stage = 1]
        BY <1>5, <3>3 DEF AfterSubmit
      <4>2. d \in Frame /\ 1 \in 1 .. LastStage
        BY <1>0, <1>2, <3>1 DEF TypeInv
      <4>3. QED
        BY <4>1, <4>2 DEF Frame, Places
    <3>4. QED
      BY <3>2, <3>3
  <2>5. TypeInv'
    BY <1>0, <1>1, <1>5, <2>3, <2>4, StageFacts DEF TypeInv
  <2>6. AheadInv'
    <3>1. ASSUME NEW q \in Query, NEW s \in StageId, Ahead(q, s)'
          PROVE  /\ plan'[<<q, s>>] = NoStage
                 /\ \A p \in PartitionId : ever[<<q, s, p>>] = NoOutput
      <4>1. Q \in Nat /\ d.stage \in Nat
        BY <1>0, <1>2, QueryFacts, StageFacts
      <4>2. /\ q > Q \/ (q = Q /\ s >= d.stage + 1) \/ <<q, s>> \in late
        BY <1>5, <2>4, <3>1 DEF Ahead, Q
      <4>3. \A x, y : <<x, y>> \in late /\ x \in Query /\ y \in StageId => x # Q
        BY <1>0, <1>1 DEF AheadInv, Cleaning
      <4>4. <<q, s>> # <<Q, d.stage>>
        BY <4>1, <4>2, <4>3
      <4>5. CASE q = Q /\ s >= d.stage + 1
        <5>1. s \in Nat \/ s \notin Nat
          OBVIOUS
        <5>2. plan[<<Q, s>>] = NoStage \/ s \in 1 .. LastStage
          BY <1>0, <1>2, StageFacts DEF PlanInv
        <5>3. \A p \in PartitionId : ever[<<Q, s, p>>] = NoOutput \/ s \in 1 .. LastStage
          BY <1>0, <1>2, StageFacts DEF EverInv
        <5>4. s \in 1 .. LastStage => Ahead(q, s)
          BY <1>1, <4>1, <4>5 DEF Ahead
        <5>5. QED
          BY <1>0, <2>3, <4>4, <4>5, <5>2, <5>3, <5>4, QueryFacts DEF AheadInv
      <4>6. CASE q > Q \/ <<q, s>> \in late
        <5>1. Ahead(q, s)
          BY <4>6 DEF Ahead
        <5>2. QED
          BY <1>0, <2>3, <4>4, <5>1, QueryFacts DEF AheadInv
      <4>7. QED
        BY <4>2, <4>5, <4>6
    <3>2. ASSUME NEW q \in Query, NEW s \in StageId, <<q, s>> \in late
          PROVE  s \in DOMAIN request.stages /\ q <= Q /\ q # Q
      BY <1>0, <1>1, <3>2 DEF AheadInv, Cleaning
    <3>3. QED
      BY <1>1, <1>5, <2>4, <3>1, <3>2 DEF AheadInv, Q
  <2>7. RoundInv'
    BY <2>4 DEF RoundInv, Reading
  <2>8. FetchInv'
    BY <1>0, <1>1, <2>4 DEF FetchInv
  <2>9. TidyInv' /\ PurgeInv'
    BY <2>4 DEF TidyInv, PurgeInv
  <2>10. CleanedInv'
    <3>1. \A q \in cleaned : q \in Query /\ q # Q
      BY <1>0, <1>1 DEF CleanedInv, TypeInv
    <3>2. \A q \in cleaned, s \in StageId : plan'[<<q, s>>] = plan[<<q, s>>]
      BY <1>0, <2>3, <3>1, QueryFacts
    <3>3. QED
      BY <1>0, <1>1, <1>5, <2>3, <2>4, <3>1, <3>2 DEF CleanedInv, Q, Count
  <2>11. FatalInv'
    BY <1>0, <1>1, <2>4 DEF FatalInv, Cleaning, Q
  <2>12. QED
    BY <2>3, <2>5, <2>6, <2>7, <2>8, <2>9, <2>10, <2>11 DEF Inv
<1>6. QED
  BY <1>4, <1>5 DEF Submit

\* A stage that is reported as succeeded has committed all of its outputs.
LEMMA FinishedIsWhole ==
  ASSUME TypeInv, PlanInv, EverInv, NEW q \in Query, NEW s \in 1 .. LastStage,
         Finished(<<q, s>>)
  PROVE  AllIn(ever, Count(s), q, s)
<1>1. s \in StageId /\ Count(s) \in Nat /\ 0 .. Count(s) - 1 \subseteq PartitionId
  BY StageFacts
<1>2. plan[<<q, s>>] # NoStage /\ plan[<<q, s>>].partitions = Count(s)
  <2>1. plan[<<q, s>>] # NoStage
    BY DEF Finished
  <2>2. plan[<<q, s>>] = PlanOf(request, q, s)
    BY <1>1, <2>1 DEF PlanInv
  <2>3. QED
    BY <2>1, <2>2 DEF PlanOf, Count
<1>3. ASSUME NEW p \in 1 .. Count(s)  PROVE ever[<<q, s, p - 1>>] # NoOutput
  <2>1. p - 1 \in 0 .. Count(s) - 1
    BY <1>1
  <2>2. p - 1 \in PartitionId
    BY <1>1, <2>1
  <2>3. <<q, s, p - 1>> \in PartitionKey
    BY <1>1, <2>2 DEF PartitionKey
  <2>4. p - 1 < Count(s)
    BY <1>1
  <2>5. <<q, s, p - 1>> \in Members(<<q, s>>)
    BY <1>2, <2>3, <2>4 DEF Members, StageOf
  <2>6. output[<<q, s, p - 1>>] # NoOutput
    BY <2>5 DEF Finished
  <2>7. QED
    BY <1>1, <1>2, <2>2, <2>6 DEF EverInv
<1>4. QED
  BY <1>3 DEF AllIn

\* The partitions the driver asks about are those of the stage.
LEMMA PartitionsFacts ==
  ASSUME TypeInv, PlanInv, NEW s \in 1 .. LastStage, plan[<<Q, s>>] # NoStage
  PROVE  /\ PartitionsOf(Q, s) \in Seq(Item)
         /\ \A k \in Members(<<Q, s>>) : \E i \in DOMAIN PartitionsOf(Q, s) :
              /\ PartitionsOf(Q, s)[i] = k
              /\ k \in PartitionKey /\ k[1] = Q
<1>1. Q \in Query /\ s \in StageId /\ Count(s) \in Nat
      /\ 0 .. Count(s) - 1 \subseteq PartitionId
  BY StageFacts, QueryFacts
<1>2. plan[<<Q, s>>].partitions = Count(s)
  <2>1. plan[<<Q, s>>] = PlanOf(request, Q, s)
    BY <1>1 DEF PlanInv
  <2>2. QED
    BY <2>1 DEF PlanOf, Count
<1>3. \A n \in 1 .. Count(s) : <<Q, s, n - 1>> \in Item
  <2>1. \A n \in 1 .. Count(s) : n - 1 \in 0 .. Count(s) - 1
    BY <1>1
  <2>2. QED
    BY <1>1, <2>1 DEF Item, PartitionKey
<1>4. /\ PartitionsOf(Q, s) \in [1 .. Count(s) -> Item]
      /\ DOMAIN PartitionsOf(Q, s) = 1 .. Count(s)
      /\ \A n \in 1 .. Count(s) : PartitionsOf(Q, s)[n] = <<Q, s, n - 1>>
  BY <1>3 DEF PartitionsOf
<1>5. PartitionsOf(Q, s) \in Seq(Item)
  BY <1>1, <1>4
<1>6. ASSUME NEW k \in Members(<<Q, s>>)
      PROVE  /\ k \in PartitionKey /\ k[1] = Q
             /\ \E i \in 1 .. Count(s) : PartitionsOf(Q, s)[i] = k
  <2>1. k \in PartitionKey /\ <<k[1], k[2]>> = <<Q, s>> /\ k[3] < Count(s)
    BY <1>2 DEF Members, StageOf
  <2>2. k = <<Q, s, k[3]>> /\ k[3] \in PartitionId
    BY <2>1 DEF PartitionKey
  <2>3. k[3] + 1 \in 1 .. Count(s) /\ (k[3] + 1) - 1 = k[3]
    <3>1. k[3] \in Nat
      BY <2>2, IdAssumption
    <3>2. QED
      BY <1>1, <2>1, <3>1
  <2>4. PartitionsOf(Q, s)[k[3] + 1] = k
    BY <1>4, <2>2, <2>3
  <2>5. QED
    BY <2>1, <2>3, <2>4
<1>7. QED
  BY <1>4, <1>5, <1>6

\* stage_status of one stage.
LEMMA PollStep ==
  ASSUME Inv, PollStage
  PROVE  Inv'
<1>0. TypeInv /\ PlanInv /\ EverInv /\ HeldInv /\ AheadInv /\ RoundInv /\ FetchInv
      /\ TidyInv /\ PurgeInv /\ CleanedInv /\ FatalInv
  BY DEF Inv
<1>1. d.at = "status" /\ Own /\ UNCHANGED cleaned /\ plan[<<Q, d.stage>>] # NoStage
  BY DEF PollStage, Asking, Own, coordVars, promiseVars, clientVars
<1>2. /\ Q \in Query /\ d.stage \in 1 .. LastStage /\ LastStage \in Nat
      /\ DOMAIN request.stages = 1 .. LastStage
      /\ cleaned \in SUBSET Query /\ fatal \in SUBSET Query
  BY <1>0, StageFacts, QueryFacts DEF TypeInv
<1>3. Q \notin fatal
  BY <1>0, <1>1 DEF FatalInv, Cleaning
<1>4. d.at \in Executing /\ d.at \notin Cleaning
  BY <1>1 DEF Executing, Cleaning
<1>5. ASSUME d' \in Frame, d'.attempt = d.attempt, d'.at \in Executing \cup {"details"}
      PROVE  CleanedInv'
  <2>1. \A q \in cleaned : q # Q
    BY <1>0, <1>1 DEF CleanedInv
  <2>2. QED
    BY <1>0, <1>1, <1>5, <2>1 DEF CleanedInv, Q, Count, Own
<1>6. CASE /\ StatusOf(Q, d.stage) \in {"Succeeded", "Unfinished"}
           /\ NextStage(d.allDone /\ StatusOf(Q, d.stage) = "Succeeded")
           /\ UNCHANGED fatal
  <2> DEFINE done == d.allDone /\ StatusOf(Q, d.stage) = "Succeeded"
  <2>1. done => \A s \in 1 .. d.stage : AllIn(ever, Count(s), Q, s)
    <3>1. StatusOf(Q, d.stage) = "Succeeded" => Finished(<<Q, d.stage>>)
      BY DEF StatusOf
    <3>2. done => AllIn(ever, Count(d.stage), Q, d.stage)
      BY <1>0, <1>2, <3>1, FinishedIsWhole
    <3>3. \A s \in 1 .. d.stage : s = d.stage \/ s \in 1 .. d.stage - 1
      BY <1>2
    <3>4. QED
      BY <1>0, <1>1, <3>2, <3>3 DEF RoundInv
  <2>2. done \in BOOLEAN
    OBVIOUS
  <2> HIDE DEF done
  <2>3. CASE d.stage < LastStage
    <3>1. d' = [d EXCEPT !.stage = d.stage + 1, !.allDone = done]
      BY <1>6, <2>3 DEF NextStage, done
    <3>2. /\ d' \in Frame /\ d'.attempt = d.attempt /\ d'.todo = d.todo
          /\ d'.others = d.others /\ d'.fetched = d.fetched /\ d'.at = "status"
          /\ d'.stage = d.stage + 1 /\ d'.allDone = done
      <4>1. d \in Frame /\ d.stage + 1 \in Nat
        BY <1>0, <1>2 DEF TypeInv
      <4>2. QED
        BY <1>1, <2>2, <3>1, <4>1 DEF Frame
    <3>3. (d.stage + 1) - 1 = d.stage /\ d'.stage \in 1 .. LastStage
      BY <1>2, <2>3, <3>2
    <3>4. RoundInv'
      BY <1>1, <2>1, <3>2, <3>3 DEF RoundInv, Reading, Q, Count, Own
    <3>5. FetchInv'
      BY <1>0, <1>1, <3>2 DEF FetchInv
    <3>6. TidyInv' /\ PurgeInv'
      BY <3>2 DEF TidyInv, PurgeInv
    <3>7. FatalInv'
      BY <1>0, <1>3, <1>6, <3>2 DEF FatalInv, Q
    <3>8. CleanedInv'
      BY <1>4, <1>5, <3>2 DEF Executing
    <3>9. QED
      BY <1>1, <1>2, <1>4, <1>6, <3>2, <3>3, <3>4, <3>5, <3>6, <3>7, <3>8, MovingStep
  <2>4. CASE ~(d.stage < LastStage)
    <3>1. d' = [d EXCEPT !.at = IF done THEN "list" ELSE "pause", !.stage = 1,
                         !.allDone = TRUE]
      BY <1>6, <2>4 DEF NextStage, done
    <3>2. /\ d' \in Frame /\ d'.attempt = d.attempt /\ d'.todo = d.todo
          /\ d'.others = d.others /\ d'.fetched = d.fetched
          /\ d'.at = (IF done THEN "list" ELSE "pause")
          /\ d'.stage = 1 /\ d'.allDone
      BY <1>0, <1>1, <1>2, <2>2, <3>1 DEF TypeInv, Frame, Places
    <3>3. d.stage = LastStage /\ 1 \in 1 .. LastStage
      BY <1>2, <2>4
    <3>4. RoundInv'
      BY <1>1, <1>2, <2>1, <3>2, <3>3 DEF RoundInv, Reading, Q, Count, Own
    <3>5. FetchInv'
      <4>1. request.final \in 1 .. LastStage
        BY <1>0, StageFacts
      <4>2. ~(request.final < 1)
        BY <1>2, <4>1
      <4>3. d.todo = << >> /\ d.others = << >> /\ d.fetched = << >>
        BY <1>0, <1>1 DEF FetchInv
      <4>4. QED
        BY <1>1, <3>2, <4>2, <4>3 DEF FetchInv, Own
    <3>6. TidyInv' /\ PurgeInv'
      <4>1. ASSUME NEW b \in held, b[4] # 0  PROVE ~(b[2] < 1)
        <5>1. b[2] \in 1 .. LastStage
          BY <1>0, <4>1, HeldIsListed
        <5>2. QED
          BY <1>2, <5>1
      <4>2. QED
        BY <1>1, <3>2, <4>1 DEF TidyInv, PurgeInv, Own
    <3>7. FatalInv'
      BY <1>0, <1>3, <1>6, <3>2 DEF FatalInv, Q
    <3>8. CleanedInv'
      BY <1>4, <1>5, <3>2 DEF Executing
    <3>9. QED
      BY <1>1, <1>2, <1>4, <1>6, <3>2, <3>3, <3>4, <3>5, <3>6, <3>7, <3>8, MovingStep
  <2>5. QED
    BY <2>3, <2>4
<1>7. CASE /\ StatusOf(Q, d.stage) = "Failed"
           /\ d' = [d EXCEPT !.at = "details", !.todo = PartitionsOf(Q, d.stage)]
           /\ fatal' = IF \E k \in Members(<<Q, d.stage>>) : failed[k] = "fatal"
                       THEN fatal \cup {Q} ELSE fatal
  <2>1. /\ PartitionsOf(Q, d.stage) \in Seq(Item)
        /\ \A k \in Members(<<Q, d.stage>>) : \E i \in DOMAIN PartitionsOf(Q, d.stage) :
             /\ PartitionsOf(Q, d.stage)[i] = k
             /\ k \in PartitionKey /\ k[1] = Q
    BY <1>0, <1>1, <1>2, PartitionsFacts
  <2>2. /\ d' \in Frame /\ d'.attempt = d.attempt /\ d'.todo = PartitionsOf(Q, d.stage)
        /\ d'.at = "details" /\ d'.stage = d.stage /\ d'.worst = d.worst
    BY <1>0, <1>7, <2>1 DEF TypeInv, Frame, Places
  <2>3. RoundInv' /\ FetchInv' /\ TidyInv' /\ PurgeInv'
    BY <2>2 DEF RoundInv, FetchInv, TidyInv, PurgeInv, Reading
  <2>4. CleanedInv'
    BY <1>5, <2>2 DEF Executing
  <2>5. FatalInv'
    <3>1. \A q \in fatal : q <= Q /\ q # Q
      BY <1>0, <1>3 DEF FatalInv
    <3>2. Q <= Q
      BY <1>0, QueryFacts
    <3>3. Q \in fatal' => \E k \in Members(<<Q, d.stage>>) : failed[k] = "fatal"
      BY <1>3, <1>7
    <3>4. Q \in fatal' => \E i \in DOMAIN PartitionsOf(Q, d.stage) :
                            /\ PartitionsOf(Q, d.stage)[i] \in PartitionKey
                            /\ PartitionsOf(Q, d.stage)[i][1] = Q
                            /\ failed[PartitionsOf(Q, d.stage)[i]] = "fatal"
      BY <2>1, <3>3
    <3>5. \A q \in fatal' : q <= Q
      BY <1>7, <3>1, <3>2
    <3>6. QED
      BY <1>1, <2>2, <3>4, <3>5 DEF FatalInv, Q, Own
  <2>6. fatal' \in SUBSET Query
    BY <1>2, <1>7
  <2>7. QED
    BY <1>1, <1>2, <1>4, <2>2, <2>3, <2>4, <2>5, <2>6, MovingStep
<1>8. CASE Failing("cancelled") /\ UNCHANGED fatal
  BY <1>1, <1>3, <1>4, <1>8, FailingAlone DEF Errors
<1>9. QED
  BY <1>6, <1>7, <1>8 DEF PollStage

\* failed_partition_details, one partition or the verdict.
LEMMA AskStep ==
  ASSUME Inv, AskPartition
  PROVE  Inv'
<1>0. TypeInv /\ PlanInv /\ EverInv /\ HeldInv /\ AheadInv /\ RoundInv /\ FetchInv
      /\ TidyInv /\ PurgeInv /\ CleanedInv /\ FatalInv
  BY DEF Inv
<1>1. d.at = "details" /\ Own /\ UNCHANGED cleaned /\ fatal' = fatal \ closed
  BY DEF AskPartition, Asking, Own, coordVars, promiseVars, clientVars
<1>2. d \in Frame /\ d.todo \in Seq(Item) /\ d.worst \in Kind
      /\ cleaned \in SUBSET Query /\ fatal \in SUBSET Query
  BY <1>0 DEF TypeInv, Frame
<1>3. d.at \in Executing /\ d.at \notin Cleaning
  BY <1>1 DEF Executing, Cleaning
<1>4. Q \in fatal' => \/ d.worst = "fatal"
                      \/ \E i \in DOMAIN d.todo :
                           /\ d.todo[i] \in PartitionKey /\ d.todo[i][1] = Q
                           /\ failed[d.todo[i]] = "fatal"
  BY <1>0, <1>1, <1>3 DEF FatalInv
<1>5. CASE /\ d.todo # << >>
           /\ plan[<<Q, d.stage>>] # NoStage
           /\ d' = [d EXCEPT !.todo = Tail(@), !.worst = Worse(@, failed[Head(d.todo)])]
  <2> DEFINE w == Worse(d.worst, failed[Head(d.todo)])
  <2>1. w \in Kind /\ (d.worst = "fatal" \/ failed[Head(d.todo)] = "fatal" => w = "fatal")
    BY DEF Worse, Kind
  <2>2. d' = [d EXCEPT !.todo = Tail(d.todo), !.worst = w]
    BY <1>5
  <2> HIDE DEF w
  <2>3. /\ Head(d.todo) = d.todo[1] /\ Tail(d.todo) \in Seq(Item)
        /\ Len(Tail(d.todo)) = Len(d.todo) - 1
        /\ \A i \in 1 .. Len(d.todo) - 1 : Tail(d.todo)[i] = d.todo[i + 1]
        /\ DOMAIN d.todo = 1 .. Len(d.todo) /\ Len(d.todo) \in Nat
        /\ DOMAIN Tail(d.todo) = 1 .. Len(d.todo) - 1
    BY <1>2, <1>5
  <2>4. /\ d' \in Frame /\ d'.attempt = d.attempt /\ d'.todo = Tail(d.todo)
        /\ d'.at = "details" /\ d'.stage = d.stage /\ d'.worst = w
    BY <1>1, <1>2, <2>1, <2>2, <2>3 DEF Frame
  <2>5. RoundInv' /\ FetchInv' /\ TidyInv' /\ PurgeInv'
    BY <2>4 DEF RoundInv, FetchInv, TidyInv, PurgeInv, Reading
  <2>6. CleanedInv'
    BY <1>0, <1>1, <2>4 DEF CleanedInv, Q, Count, Own
  <2>7. Q \in fatal' => \/ w = "fatal"
                        \/ \E i \in DOMAIN Tail(d.todo) :
                             /\ Tail(d.todo)[i] \in PartitionKey /\ Tail(d.todo)[i][1] = Q
                             /\ failed[Tail(d.todo)[i]] = "fatal"
    <3>1. SUFFICES ASSUME NEW i \in DOMAIN d.todo,
                          d.todo[i] \in PartitionKey /\ d.todo[i][1] = Q,
                          failed[d.todo[i]] = "fatal", w # "fatal"
                   PROVE  \E j \in DOMAIN Tail(d.todo) : Tail(d.todo)[j] = d.todo[i]
      BY <1>4, <2>1
    <3>2. i # 1
      BY <2>1, <2>3, <3>1
    <3>3. i - 1 \in 1 .. Len(d.todo) - 1 /\ (i - 1) + 1 = i
      BY <2>3, <3>2
    <3>4. QED
      BY <2>3, <3>3
  <2>8. FatalInv'
    BY <1>0, <1>1, <1>5, <2>4, <2>7 DEF FatalInv, Q, Own
  <2>9. d'.stage \in DOMAIN request.stages /\ fatal' \in SUBSET Query
    BY <1>0, <1>1, <1>2, <2>4 DEF TypeInv
  <2>10. QED
    BY <1>1, <1>2, <1>3, <2>4, <2>5, <2>6, <2>8, <2>9, MovingStep
<1>6. CASE d.todo = << >> /\ Failing(IF d.worst = "retryable" THEN "retryable" ELSE "fatal")
  <2>1. Q \in fatal' => d.worst = "fatal"
    BY <1>4, <1>6
  <2>2. (IF d.worst = "retryable" THEN "retryable" ELSE "fatal") \in Errors
    BY DEF Errors
  <2>3. QED
    BY <1>1, <1>3, <1>6, <2>1, <2>2, FailingAlone
<1>7. QED
  BY <1>5, <1>6 DEF AskPartition

\* The poll interval is over.
LEMMA PauseStep ==
  ASSUME Inv, Pause
  PROVE  Inv'
<1>0. TypeInv /\ PlanInv /\ EverInv /\ HeldInv /\ AheadInv /\ RoundInv /\ FetchInv
      /\ TidyInv /\ PurgeInv /\ CleanedInv /\ FatalInv
  BY DEF Inv
<1>1. d.at = "pause" /\ Own /\ UNCHANGED <<cleaned, fatal>>
  BY DEF Pause, Local, Asking, Own, coordVars, promiseVars, clientVars, historyVars
<1>2. /\ d' \in Frame /\ d'.at = "status" /\ d'.attempt = d.attempt
      /\ d'.stage = d.stage /\ d'.todo = d.todo /\ d'.others = d.others
      /\ d'.fetched = d.fetched
  BY <1>0 DEF Pause, TypeInv, Frame, Places
<1>3. d.stage = 1
  BY <1>0, <1>1 DEF RoundInv
<1>4. RoundInv' /\ TidyInv' /\ PurgeInv'
  BY <1>2, <1>3 DEF RoundInv, TidyInv, PurgeInv, Reading
<1>5. FetchInv'
  BY <1>0, <1>1, <1>2 DEF FetchInv
<1>6. CleanedInv'
  BY <1>0, <1>1, <1>2 DEF CleanedInv, Q, Count, Own
<1>7. FatalInv'
  BY <1>0, <1>1, <1>2 DEF FatalInv, Q, Cleaning
<1>8. QED
  BY <1>0, <1>1, <1>2, <1>4, <1>5, <1>6, <1>7, MovingStep DEF TypeInv, Cleaning

\* The loop notices the cancellation or the timeout.
LEMMA QuitStep ==
  ASSUME Inv, Quit
  PROVE  Inv'
<1>0. TypeInv /\ FatalInv
  BY DEF Inv
<1>1. /\ d.at \in {"pause", "status"} /\ (Failing("cancelled") \/ Failing("fatal"))
      /\ CloseQuery(Q) \/ UNCHANGED coordVars
      /\ UNCHANGED <<held, late, request, ever, cleaned, fatal>>
  BY DEF Quit, CancelServed, clientVars, historyVars
<1>2. Q \in Query
  BY <1>0, QueryFacts
<1>3. /\ UNCHANGED <<plan, output>>
      /\ closed \subseteq closed' /\ closed' \in SUBSET Query
      /\ failed' \in [PartitionKey -> Kind]
  BY <1>0, <1>1, <1>2, Closing
<1>4. "cancelled" \in Errors /\ "fatal" \in Errors /\ d.at \in Executing
  BY <1>1 DEF Errors, Executing
<1>5. QED
  BY <1>1, <1>3, <1>4, FailingStep

\* The coordinator does not know the stage.
LEMMA ForgottenStep ==
  ASSUME Inv, Forgotten
  PROVE  Inv'
<1>0. FatalInv
  BY DEF Inv
<1>1. /\ d.at \in {"status", "list", "details"} /\ plan[<<Q, d.stage>>] = NoStage
      /\ Failing("retryable") /\ Own /\ UNCHANGED <<cleaned, fatal>>
  BY DEF Forgotten, Local, Asking, Own, coordVars, promiseVars, clientVars, historyVars
<1>2. Q \notin fatal
  BY <1>0, <1>1 DEF FatalInv, Cleaning
<1>3. QED
  BY <1>1, <1>2, FailingAlone DEF Errors, Executing

\* A status or output call does not go through.
LEMMA ReadFailsStep ==
  ASSUME Inv, ReadFails
  PROVE  Inv'
<1>1. /\ d.at \in Executing /\ Failing("fatal") /\ Own /\ UNCHANGED <<cleaned, fatal>>
  BY DEF ReadFails, Local, Asking, Own, coordVars, promiseVars, clientVars, historyVars,
         Executing
<1>2. QED
  BY <1>1, FailingAlone DEF Errors

\* The select drops execute_graph_once, perhaps with a submission under way.
LEMMA AbandonStep ==
  ASSUME Inv, Abandon
  PROVE  Inv'
<1>1. /\ d.at \in Executing /\ (Failing("cancelled") \/ Failing("fatal"))
      /\ UNCHANGED <<plan, output, closed, failed, held, request, ever, cleaned, fatal>>
      /\ \/ d.at = "submit" /\ late' = late \cup {<<Q, d.stage>>}
         \/ UNCHANGED late
  BY DEF Abandon, coordVars, promiseVars, clientVars, historyVars
<1>2. closed \in SUBSET Query /\ failed \in [PartitionKey -> Kind]
  BY DEF Inv, TypeInv
<1>3. "cancelled" \in Errors /\ "fatal" \in Errors
  BY DEF Errors
<1>4. QED
  BY <1>1, <1>2, <1>3, FailingStep

\* stage_output_blocks of one stage.
LEMMA ListStep ==
  ASSUME Inv, ListStage
  PROVE  Inv'
<1>0. TypeInv /\ PlanInv /\ EverInv /\ HeldInv /\ AheadInv /\ RoundInv /\ FetchInv
      /\ TidyInv /\ PurgeInv /\ CleanedInv /\ FatalInv
  BY DEF Inv
<1> DEFINE blocks == StageBlocks(Q, d.stage)
           final == request.final
           found == IF d.stage = final THEN [d EXCEPT !.todo = blocks]
                    ELSE [d EXCEPT !.others = d.others \o blocks]
<1>1. /\ d.at = "list" /\ Own /\ UNCHANGED <<cleaned, fatal>>
      /\ plan[<<Q, d.stage>>] # NoStage
      /\ d' = IF d.stage < LastStage THEN [found EXCEPT !.stage = @ + 1]
              ELSE [found EXCEPT !.at = "fetch"]
  BY DEF ListStage, HasOutput, Local, Asking, Own, coordVars, promiseVars, clientVars,
         historyVars
<1>2. /\ Q \in Query /\ d.stage \in 1 .. LastStage /\ LastStage \in Nat
      /\ DOMAIN request.stages = 1 .. LastStage /\ final \in 1 .. LastStage
      /\ cleaned \in SUBSET Query /\ fatal \in SUBSET Query /\ d \in Frame
  BY <1>0, StageFacts, QueryFacts DEF TypeInv
<1>3. blocks = BlocksIn(ever, Count(d.stage), Q, d.stage) /\ blocks \in Seq(Item)
  BY <1>0, <1>1, <1>2, StageBlocksIs
<1> HIDE DEF blocks
<1>4. /\ d.others \in Seq(Item) /\ d.todo \in Seq(Item)
      /\ d.others \o blocks \in Seq(Item)
      /\ Range(d.others \o blocks) = Range(d.others) \cup Range(blocks)
  BY <1>2, <1>3, RangeConcat DEF Frame
<1>5. /\ found \in Frame /\ found.at = "list" /\ found.attempt = d.attempt
      /\ found.stage = d.stage /\ found.fetched = d.fetched
      /\ found.todo = (IF d.stage = final THEN blocks ELSE d.todo)
      /\ found.others = (IF d.stage = final THEN d.others ELSE d.others \o blocks)
  BY <1>1, <1>2, <1>3, <1>4 DEF Frame
<1> HIDE DEF found
<1>6. /\ d' \in Frame /\ d'.attempt = d.attempt /\ d'.fetched = d.fetched
      /\ d'.todo = found.todo /\ d'.others = found.others
      /\ \/ d.stage < LastStage /\ d'.at = "list" /\ d'.stage = d.stage + 1
         \/ d.stage = LastStage /\ d'.at = "fetch" /\ d'.stage = d.stage
  <2>1. CASE d.stage < LastStage
    <3>1. d' = [found EXCEPT !.stage = d.stage + 1] /\ d.stage + 1 \in Nat
      BY <1>1, <1>2, <1>5, <2>1
    <3>2. QED
      BY <1>5, <2>1, <3>1 DEF Frame
  <2>2. CASE ~(d.stage < LastStage)
    <3>1. d' = [found EXCEPT !.at = "fetch"] /\ d.stage = LastStage
      BY <1>1, <1>2, <2>2
    <3>2. QED
      BY <1>5, <3>1 DEF Frame, Places
  <2>3. QED
    BY <2>1, <2>2
<1>7. d'.stage \in 1 .. LastStage
  BY <1>2, <1>6
<1>8. \A s \in 1 .. LastStage : AllIn(ever, Count(s), Q, s)
  BY <1>0, <1>1, <1>2 DEF RoundInv, Reading
<1>9. RoundInv'
  BY <1>1, <1>2, <1>6, <1>8 DEF RoundInv, Reading, Q, Count, Own
<1>10. FetchInv'
  <2> DEFINE whole == BlocksIn(ever, Count(final), Q, final)
  <2>1. d.fetched = << >> /\ d.todo = IF final < d.stage THEN whole ELSE << >>
    BY <1>0, <1>1 DEF FetchInv
  <2>2. d'.todo = IF final < d.stage + 1 THEN whole ELSE << >>
    <3>1. CASE d.stage = final
      <4>1. final < d.stage + 1
        BY <1>2, <3>1
      <4>2. QED
        BY <1>3, <1>5, <1>6, <3>1, <4>1
    <3>2. CASE d.stage # final
      <4>1. final < d.stage <=> final < d.stage + 1
        BY <1>2, <3>2
      <4>2. QED
        BY <1>5, <1>6, <2>1, <3>2, <4>1
    <3>3. QED
      BY <3>1, <3>2
  <2>3. whole \in Seq(Item)
    BY <1>0, <1>2, StageFacts, BlocksInHas DEF TypeInv
  <2> HIDE DEF whole
  <2>4. << >> \o whole = whole
    BY <2>3
  <2>5. d'.at = "fetch" => d'.fetched \o d'.todo = whole
    <3>1. d.stage = LastStage => final < d.stage + 1
      BY <1>2
    <3>2. QED
      BY <1>6, <2>1, <2>2, <2>4, <3>1
  <2>6. d'.at = "list" =>
          d'.fetched = << >> /\ d'.todo = IF final < d'.stage THEN whole ELSE << >>
    BY <1>6, <2>1, <2>2
  <2>7. QED
    BY <1>1, <1>6, <2>5, <2>6 DEF FetchInv, Q, Count, Own, whole
<1>11. TidyInv'
  <2>1. ASSUME NEW b \in held, b[1] = Q, b[4] # 0, b[2] < d.stage + 1, b[2] # final
        PROVE  b \in Range(d'.others)
    <3>1. b[2] \in 1 .. LastStage /\ b \in Range(BlocksIn(ever, Count(b[2]), b[1], b[2]))
      BY <1>0, <2>1, HeldIsListed
    <3>2. CASE b[2] < d.stage
      <4>1. b \in Range(d.others)
        BY <1>0, <1>1, <2>1, <3>2 DEF TidyInv
      <4>2. QED
        BY <1>4, <1>5, <1>6, <4>1
    <3>3. CASE b[2] = d.stage
      <4>1. b \in Range(blocks)
        BY <1>3, <2>1, <3>1, <3>3
      <4>2. QED
        BY <1>4, <1>5, <1>6, <2>1, <3>3, <4>1
    <3>4. QED
      BY <1>2, <2>1, <3>1, <3>2, <3>3
  <2>2. ASSUME NEW b \in held, b[4] # 0, d.stage = LastStage  PROVE b[2] < d.stage + 1
    <3>1. b[2] \in 1 .. LastStage
      BY <1>0, <2>2, HeldIsListed
    <3>2. QED
      BY <1>2, <2>2, <3>1
  <2>3. QED
    BY <1>1, <1>6, <2>1, <2>2 DEF TidyInv, Q, Own
<1>12. PurgeInv'
  BY <1>6 DEF PurgeInv
<1>13. CleanedInv'
  BY <1>0, <1>1, <1>6 DEF CleanedInv, Q, Count, Own
<1>14. FatalInv'
  BY <1>0, <1>1, <1>6 DEF FatalInv, Q, Cleaning
<1>15. QED
  BY <1>1, <1>2, <1>6, <1>7, <1>9, <1>10, <1>11, <1>12, <1>13, <1>14, MovingStep DEF Cleaning

\* A block is read, or the fetch fails.
LEMMA FetchStep ==
  ASSUME Inv, FetchBlock
  PROVE  Inv'
<1>0. TypeInv /\ PlanInv /\ EverInv /\ HeldInv /\ AheadInv /\ RoundInv /\ FetchInv
      /\ TidyInv /\ PurgeInv /\ CleanedInv /\ FatalInv
  BY DEF Inv
<1>1. d.at = "fetch" /\ d.todo # << >> /\ Own /\ UNCHANGED <<cleaned, fatal>>
  BY DEF FetchBlock, Local, Asking, Own, coordVars, promiseVars, clientVars, historyVars
<1>2. Q \notin fatal
  BY <1>0, <1>1 DEF FatalInv, Cleaning
<1>3. CASE Failing("retryable") \/ Failing("fatal")
  BY <1>1, <1>2, <1>3, FailingAlone DEF Errors, Executing
<1>4. CASE d' = [d EXCEPT !.todo = Tail(@), !.fetched = Append(@, Head(d.todo))]
  <2>1. d \in Frame /\ d.todo \in Seq(Item) /\ d.fetched \in Seq(Item)
    BY <1>0 DEF TypeInv, Frame
  <2>2. /\ Tail(d.todo) \in Seq(Item) /\ Append(d.fetched, Head(d.todo)) \in Seq(Item)
        /\ Append(d.fetched, Head(d.todo)) \o Tail(d.todo) = d.fetched \o d.todo
    BY <1>1, <2>1, MoveHead, RangeTail
  <2> DEFINE t == Tail(d.todo)
             f == Append(d.fetched, Head(d.todo))
  <2>3. d' = [d EXCEPT !.todo = t, !.fetched = f]
    BY <1>4
  <2>4. t \in Seq(Item) /\ f \in Seq(Item) /\ f \o t = d.fetched \o d.todo
    BY <2>2
  <2> HIDE DEF t, f
  <2>5. /\ d' \in Frame /\ d'.at = "fetch" /\ d'.attempt = d.attempt
        /\ d'.stage = d.stage /\ d'.todo = t /\ d'.others = d.others /\ d'.fetched = f
    BY <1>1, <2>1, <2>3, <2>4 DEF Frame
  <2>6. RoundInv'
    BY <1>0, <1>1, <2>5 DEF RoundInv, Reading, Q, Count, Own
  <2>7. FetchInv'
    BY <1>0, <1>1, <2>4, <2>5 DEF FetchInv, Q, Count, Own
  <2>8. TidyInv' /\ PurgeInv'
    BY <1>0, <1>1, <2>5 DEF TidyInv, PurgeInv, Q, Own
  <2>9. CleanedInv'
    BY <1>0, <1>1, <2>5 DEF CleanedInv, Q, Count, Own
  <2>10. FatalInv'
    BY <1>0, <1>1, <2>5 DEF FatalInv, Q, Cleaning
  <2>11. QED
    BY <1>0, <1>1, <2>5, <2>6, <2>7, <2>8, <2>9, <2>10, MovingStep DEF TypeInv, Cleaning
<1>5. QED
  BY <1>3, <1>4 DEF FetchBlock

\* Everything is fetched.
LEMMA FetchedStep ==
  ASSUME Inv, Fetched
  PROVE  Inv'
<1>0. TypeInv /\ PlanInv /\ EverInv /\ HeldInv /\ AheadInv /\ RoundInv /\ FetchInv
      /\ TidyInv /\ PurgeInv /\ CleanedInv /\ FatalInv
  BY DEF Inv
<1>1. d.at = "fetch" /\ d.todo = << >> /\ Own /\ UNCHANGED <<cleaned, fatal>>
  BY DEF Fetched, Local, Asking, Own, coordVars, promiseVars, clientVars, historyVars
<1>2. d \in Frame /\ d.others \in Seq(Item) /\ d.fetched \in Seq(Item) /\ << >> \in Seq(Item)
  BY <1>0 DEF TypeInv, Frame
<1> DEFINE t == d.others \o d.fetched
<1>3. t \in Seq(Item) /\ Range(t) = Range(d.others) \cup Range(d.fetched)
  BY <1>2, RangeConcat
<1>4. d' = IF request.delete THEN [d EXCEPT !.at = "tidy", !.todo = t, !.others = << >>]
           ELSE [d EXCEPT !.at = "ok"]
  BY DEF Fetched
<1> HIDE DEF t
<1>5. /\ d' \in Frame /\ d'.attempt = d.attempt /\ d'.stage = d.stage
      /\ d'.fetched = d.fetched
      /\ (d'.at = "tidy" /\ d'.todo = t) \/ d'.at = "ok"
  BY <1>2, <1>3, <1>4 DEF Frame, Places
<1>6. RoundInv'
  BY <1>0, <1>1, <1>5 DEF RoundInv, Reading, Q, Count, Own
<1>7. d.fetched = BlocksIn(ever, Count(request.final), Q, request.final)
  <2>1. d.fetched \o << >> = d.fetched
    BY <1>2
  <2>2. QED
    BY <1>0, <1>1, <2>1 DEF FetchInv
<1>8. FetchInv'
  BY <1>1, <1>5, <1>7 DEF FetchInv, Q, Count, Own
<1>9. TidyInv'
  <2>1. ASSUME NEW b \in held, b[1] = Q, b[4] # 0  PROVE b \in Range(t)
    <3>1. b \in Range(BlocksIn(ever, Count(b[2]), b[1], b[2]))
      BY <1>0, <2>1, HeldIsListed
    <3>2. CASE b[2] = request.final
      BY <1>3, <1>7, <2>1, <3>1, <3>2
    <3>3. CASE b[2] # request.final
      <4>1. b \in Range(d.others)
        BY <1>0, <1>1, <2>1, <3>3 DEF TidyInv
      <4>2. QED
        BY <1>3, <4>1
    <3>4. QED
      BY <3>2, <3>3
  <2>2. QED
    BY <1>1, <1>5, <2>1 DEF TidyInv, Q, Own
<1>10. PurgeInv'
  BY <1>5 DEF PurgeInv
<1>11. CleanedInv'
  BY <1>0, <1>1, <1>5 DEF CleanedInv, Q, Count, Own
<1>12. FatalInv'
  BY <1>0, <1>1, <1>5 DEF FatalInv, Q, Cleaning
<1>13. QED
  BY <1>0, <1>1, <1>5, <1>6, <1>8, <1>9, <1>10, <1>11, <1>12, MovingStep DEF TypeInv, Cleaning

\* A block is deleted, or its deletion fails.
LEMMA DeleteStep ==
  ASSUME Inv, DeleteBlock
  PROVE  Inv'
<1>0. TypeInv /\ PlanInv /\ EverInv /\ HeldInv /\ AheadInv /\ RoundInv /\ FetchInv
      /\ TidyInv /\ PurgeInv /\ CleanedInv /\ FatalInv
  BY DEF Inv
<1>1. /\ d.at \in {"tidy", "purge"} /\ d.todo # << >>
      /\ UNCHANGED <<plan, output, closed, failed, late, request, ever, cleaned, fatal>>
  BY DEF DeleteBlock, coordVars, promiseVars, clientVars, historyVars
<1>2. d \in Frame /\ d.todo \in Seq(Item)
  BY <1>0 DEF TypeInv, Frame
<1> DEFINE h == Head(d.todo)
           t == Tail(d.todo)
<1>3. t \in Seq(Item) /\ Range(d.todo) \subseteq {h} \cup Range(t)
  BY <1>1, <1>2, RangeTail
<1>4. \/ held' = held \ {h} /\ d' = [d EXCEPT !.todo = t]
      \/ held' \in {held, held \ {h}} /\ d' = [d EXCEPT !.todo = t, !.thorough = FALSE]
  BY DEF DeleteBlock
<1> HIDE DEF h, t
<1>5. /\ d' \in Frame /\ d'.attempt = d.attempt /\ d'.stage = d.stage /\ d'.at = d.at
      /\ d'.fetched = d.fetched /\ d'.todo = t /\ d'.others = d.others
      /\ d'.error = d.error
      /\ d'.thorough => d.thorough /\ held' = held \ {h}
  BY <1>2, <1>3, <1>4 DEF Frame
<1>6. held' \subseteq held
  BY <1>4
<1>7. PlanInv' /\ EverInv' /\ HeldInv'
  BY <1>0, <1>1, <1>6, StoreSame
<1>8. TypeInv'
  BY <1>0, <1>1, <1>5, <1>6 DEF TypeInv
<1>9. AheadInv'
  BY <1>0, <1>1, <1>5 DEF AheadInv, Ahead, Cleaning, Q
<1>10. RoundInv'
  BY <1>0, <1>1, <1>5 DEF RoundInv, Reading, Q, Count
<1>11. FetchInv'
  BY <1>0, <1>1, <1>5 DEF FetchInv, Q, Count
<1>12. TidyInv'
  BY <1>0, <1>1, <1>3, <1>5, <1>6 DEF TidyInv, Q
<1>13. PurgeInv'
  BY <1>0, <1>1, <1>3, <1>5, <1>6 DEF PurgeInv, Remembered, Q
<1>14. CleanedInv'
  BY <1>0, <1>1, <1>5, <1>6 DEF CleanedInv, Q, Count
<1>15. FatalInv'
  BY <1>0, <1>1, <1>5 DEF FatalInv, Q, Cleaning
<1>16. QED
  BY <1>7, <1>8, <1>9, <1>10, <1>11, <1>12, <1>13, <1>14, <1>15 DEF Inv

\* The query's blocks are deleted after a result.
LEMMA TidiedStep ==
  ASSUME Inv, Tidied
  PROVE  Inv'
<1>0. TypeInv /\ PlanInv /\ EverInv /\ HeldInv /\ AheadInv /\ RoundInv /\ FetchInv
      /\ TidyInv /\ PurgeInv /\ CleanedInv /\ FatalInv
  BY DEF Inv
<1>1. /\ d.at = "tidy" /\ d.todo = << >> /\ Own /\ UNCHANGED fatal
      /\ cleaned' = IF d.thorough THEN cleaned \cup {Q} ELSE cleaned
  BY DEF Tidied, Cleaned, Asking, Own, coordVars, promiseVars, clientVars
<1>2. /\ d' \in Frame /\ d'.at = "ok" /\ d'.attempt = d.attempt /\ d'.stage = d.stage
      /\ d'.fetched = d.fetched
  BY <1>0 DEF Tidied, TypeInv, Frame, Places
<1>3. RoundInv'
  BY <1>0, <1>1, <1>2 DEF RoundInv, Reading, Q, Count, Own
<1>4. FetchInv'
  BY <1>0, <1>1, <1>2 DEF FetchInv, Q, Count, Own
<1>5. TidyInv' /\ PurgeInv'
  BY <1>2 DEF TidyInv, PurgeInv
<1>6. Q \in Query /\ Q <= Q
  BY <1>0, QueryFacts
<1>7. CleanedInv'
  <2>1. d.thorough => \A b \in held : b[1] = Q => b[4] = 0
    BY <1>0, <1>1, RangeOfNone DEF TidyInv
  <2>2. \A s \in StageId : <<Q, s>> \notin late
    BY <1>0, <1>1, <1>6 DEF AheadInv, Cleaning
  <2>3. \A s \in StageId : plan[<<Q, s>>] # NoStage => AllIn(ever, Count(s), Q, s)
    BY <1>0, <1>1, <1>6 DEF PlanInv, RoundInv, Reading
  <2>4. QED
    BY <1>0, <1>1, <1>2, <1>6, <2>1, <2>2, <2>3 DEF CleanedInv, Q, Count, Own
<1>8. FatalInv'
  BY <1>0, <1>1, <1>2 DEF FatalInv, Q, Cleaning
<1>9. cleaned' \in SUBSET Query
  BY <1>0, <1>1, <1>6 DEF TypeInv
<1>10. QED
  BY <1>0, <1>1, <1>2, <1>3, <1>4, <1>5, <1>7, <1>8, <1>9, MovingStep DEF TypeInv, Cleaning

\* cancel_query, before anything is listed for deletion.
LEMMA CancelStep ==
  ASSUME Inv, CancelGraph
  PROVE  Inv'
<1>0. TypeInv /\ PlanInv /\ EverInv /\ HeldInv /\ AheadInv /\ RoundInv /\ FetchInv
      /\ TidyInv /\ PurgeInv /\ CleanedInv /\ FatalInv
  BY DEF Inv
<1>1. /\ d.at = "cancel" /\ (CloseQuery(Q) \/ UNCHANGED coordVars)
      /\ UNCHANGED <<held, late, request, ever, cleaned, fatal>>
  BY DEF CancelGraph, CancelServed, clientVars, historyVars
<1> DEFINE th == Q \in closed' /\ Remembered
<1>2. d' = [d EXCEPT !.at = "survey", !.thorough = th]
  BY DEF CancelGraph
<1>3. th \in BOOLEAN
  OBVIOUS
<1> HIDE DEF th
<1>4. /\ d' \in Frame /\ d'.at = "survey" /\ d'.attempt = d.attempt
      /\ d'.stage = d.stage /\ d'.error = d.error /\ d'.thorough = th
  BY <1>0, <1>2, <1>3 DEF TypeInv, Frame, Places
<1>5. Q \in Query
  BY <1>0, QueryFacts
<1>6. /\ UNCHANGED <<plan, output>>
      /\ closed \subseteq closed' /\ closed' \in SUBSET Query
      /\ failed' \in [PartitionKey -> Kind]
  BY <1>0, <1>1, <1>5, Closing
<1>7. PlanInv' /\ EverInv' /\ HeldInv'
  BY <1>0, <1>1, <1>6, StoreSame
<1>8. TypeInv'
  BY <1>0, <1>1, <1>4, <1>6 DEF TypeInv
<1>9. AheadInv'
  BY <1>0, <1>1, <1>4, <1>6 DEF AheadInv, Ahead, Cleaning, Q
<1>10. RoundInv' /\ FetchInv' /\ TidyInv'
  BY <1>4 DEF RoundInv, FetchInv, TidyInv, Reading
<1>11. PurgeInv'
  <2>1. d.stage = 1
    BY <1>0, <1>1 DEF RoundInv
  <2>2. ASSUME NEW b \in held, b[4] # 0  PROVE b[2] >= 1
    <3>1. b[2] \in 1 .. LastStage /\ LastStage \in Nat
      BY <1>0, <2>2, HeldIsListed, StageFacts
    <3>2. QED
      BY <3>1
  <2>3. QED
    BY <1>1, <1>4, <1>6, <2>1, <2>2 DEF PurgeInv, Remembered, Q, th
<1>12. CleanedInv'
  BY <1>0, <1>1, <1>4, <1>6 DEF CleanedInv, Q, Count
<1>13. FatalInv'
  BY <1>0, <1>1, <1>4 DEF FatalInv, Q, Cleaning
<1>14. QED
  BY <1>7, <1>8, <1>9, <1>10, <1>11, <1>12, <1>13 DEF Inv

\* What one stage committed is listed for deletion.
LEMMA SurveyStep ==
  ASSUME Inv, Survey
  PROVE  Inv'
<1>0. TypeInv /\ PlanInv /\ EverInv /\ HeldInv /\ AheadInv /\ RoundInv /\ FetchInv
      /\ TidyInv /\ PurgeInv /\ CleanedInv /\ FatalInv
  BY DEF Inv
<1>1. d.at = "survey" /\ Own /\ UNCHANGED <<cleaned, fatal>>
  BY DEF Survey, Local, Asking, Own, coordVars, promiseVars, clientVars, historyVars
<1>2. /\ Q \in Query /\ d.stage \in 1 .. LastStage /\ d.stage \in StageId
      /\ DOMAIN request.stages = 1 .. LastStage /\ d \in Frame
      /\ << >> \in Seq(Item)
  BY <1>0, StageFacts, QueryFacts DEF TypeInv
<1>3. HasOutput(Q, d.stage) =>
        /\ StageBlocks(Q, d.stage) = BlocksIn(ever, Count(d.stage), Q, d.stage)
        /\ StageBlocks(Q, d.stage) \in Seq(Item)
  BY <1>0, <1>2, StageBlocksIs DEF HasOutput
<1>4. PICK t \in Seq(Item), th \in BOOLEAN :
        /\ d' = [d EXCEPT !.at = "purge", !.todo = t, !.thorough = th]
        /\ th => /\ d.thorough
                 /\ HasOutput(Q, d.stage) => t = BlocksIn(ever, Count(d.stage), Q, d.stage)
  <2>1. d.thorough \in BOOLEAN /\ d = [d EXCEPT !.thorough = d.thorough]
    BY <1>2 DEF Frame
  <2>2. CASE HasOutput(Q, d.stage)
             /\ d' = [d EXCEPT !.at = "purge", !.todo = StageBlocks(Q, d.stage)]
    <3>1. d' = [d EXCEPT !.at = "purge", !.todo = StageBlocks(Q, d.stage),
                         !.thorough = d.thorough]
      BY <1>2, <2>2 DEF Frame
    <3>2. QED
      BY <1>3, <2>1, <2>2, <3>1
  <2>3. CASE ~HasOutput(Q, d.stage) /\ d' = [d EXCEPT !.at = "purge", !.todo = << >>]
    <3>1. d' = [d EXCEPT !.at = "purge", !.todo = << >>, !.thorough = d.thorough]
      BY <1>2, <2>3 DEF Frame
    <3>2. QED
      BY <1>2, <2>1, <2>3, <3>1
  <2>4. CASE d' = [d EXCEPT !.at = "purge", !.todo = << >>, !.thorough = FALSE]
    BY <1>2, <2>4
  <2>5. QED
    BY <2>2, <2>3, <2>4 DEF Survey
<1>5. /\ d' \in Frame /\ d'.at = "purge" /\ d'.attempt = d.attempt /\ d'.stage = d.stage
      /\ d'.todo = t /\ d'.thorough = th /\ d'.error = d.error
  BY <1>2, <1>4 DEF Frame, Places
<1>6. RoundInv' /\ FetchInv' /\ TidyInv'
  BY <1>5 DEF RoundInv, FetchInv, TidyInv, Reading
<1>7. PurgeInv'
  <2>1. SUFFICES ASSUME th  PROVE PurgeInv'
    BY <1>5 DEF PurgeInv
  <2>2. /\ Q \in closed /\ Remembered
        /\ \A b \in held : b[1] = Q /\ b[4] # 0 => b[2] >= d.stage
    BY <1>0, <1>1, <1>4, <2>1 DEF PurgeInv
  <2>3. ASSUME NEW b \in held, b[1] = Q, b[4] # 0, b[2] = d.stage  PROVE b \in Range(t)
    <3>1. /\ b \in Range(BlocksIn(ever, Count(b[2]), b[1], b[2]))
          /\ b[3] \in 0 .. Count(b[2]) - 1 /\ ever[<<b[1], b[2], b[3]>>] # NoOutput
          /\ b[2] \in 1 .. LastStage
      BY <1>0, <2>3, HeldIsListed
    <3>2. b[3] \in PartitionId /\ <<Q, d.stage, b[3]>> \in PartitionKey
      BY <1>0, <1>2, <2>3, <3>1, StageFacts, QueryFacts
    <3>3. output[<<Q, d.stage, b[3]>>] # NoOutput
      BY <2>2, <2>3, <3>1, <3>2 DEF Remembered
    <3>4. plan[<<Q, d.stage>>] # NoStage
      BY <1>0, <1>2, <3>2, <3>3 DEF EverInv
    <3>5. HasOutput(Q, d.stage)
      BY <2>2, <3>4 DEF HasOutput
    <3>6. QED
      BY <1>4, <2>1, <2>3, <3>1, <3>5
  <2>4. QED
    BY <1>1, <1>5, <2>2, <2>3 DEF PurgeInv, Remembered, Q, Own
<1>8. CleanedInv'
  BY <1>0, <1>1, <1>5 DEF CleanedInv, Q, Count, Own
<1>9. FatalInv'
  BY <1>0, <1>1, <1>5 DEF FatalInv, Q, Cleaning
<1>10. QED
  BY <1>0, <1>1, <1>5, <1>6, <1>7, <1>8, <1>9, MovingStep DEF TypeInv, Cleaning

\* The locals of an attempt whose cleanup is over.
LEMMA ToDecideIs ==
  ASSUME TypeInv
  PROVE  /\ ToDecide \in Frame /\ ToDecide.at = "decide" /\ ToDecide.attempt = d.attempt
         /\ ToDecide.stage = 1 /\ ToDecide.error = d.error
<1>1. Locals(d.attempt) \in Frame /\ d \in Frame
  BY LocalsType, QueryFacts DEF Q, TypeInv
<1>2. Locals(d.attempt).attempt = d.attempt /\ Locals(d.attempt).stage = 1
  BY DEF Locals
<1>3. QED
  BY <1>1, <1>2 DEF ToDecide, Frame, Places

\* A stage is cleaned up, or the last one.
LEMMA PurgedStep ==
  ASSUME Inv, Purged
  PROVE  Inv'
<1>0. TypeInv /\ PlanInv /\ EverInv /\ HeldInv /\ AheadInv /\ RoundInv /\ FetchInv
      /\ TidyInv /\ PurgeInv /\ CleanedInv /\ FatalInv
  BY DEF Inv
<1>1. d.at = "purge" /\ d.todo = << >> /\ Own /\ UNCHANGED fatal
  BY DEF Purged, Asking, Own, coordVars, promiseVars, clientVars
<1>2. /\ Q \in Query /\ Q <= Q /\ d.stage \in 1 .. LastStage /\ LastStage \in Nat
      /\ DOMAIN request.stages = 1 .. LastStage /\ d \in Frame
  BY <1>0, StageFacts, QueryFacts DEF TypeInv
<1>3. ASSUME NEW b \in held, b[1] = Q, b[4] # 0, d.thorough  PROVE b[2] >= d.stage + 1
  <2>1. b[2] \in 1 .. LastStage
    BY <1>0, <1>3, HeldIsListed
  <2>2. b[2] >= d.stage /\ b[2] # d.stage
    BY <1>0, <1>1, <1>3, RangeOfNone DEF PurgeInv
  <2>3. QED
    BY <1>2, <2>1, <2>2
<1>4. CASE d.stage < LastStage /\ d' = [d EXCEPT !.at = "survey", !.stage = @ + 1]
           /\ UNCHANGED cleaned
  <2>1. d.stage + 1 \in Nat /\ d.stage + 1 \in 1 .. LastStage
    BY <1>2, <1>4
  <2>2. /\ d' \in Frame /\ d'.at = "survey" /\ d'.attempt = d.attempt
        /\ d'.stage = d.stage + 1 /\ d'.thorough = d.thorough /\ d'.error = d.error
    BY <1>2, <1>4, <2>1 DEF Frame, Places
  <2>3. RoundInv' /\ FetchInv' /\ TidyInv'
    BY <2>2 DEF RoundInv, FetchInv, TidyInv, Reading
  <2>4. PurgeInv'
    BY <1>0, <1>1, <1>3, <2>2 DEF PurgeInv, Remembered, Q, Own
  <2>5. CleanedInv'
    BY <1>0, <1>1, <1>4, <2>2 DEF CleanedInv, Q, Count, Own
  <2>6. FatalInv'
    BY <1>0, <1>1, <2>2 DEF FatalInv, Q, Cleaning
  <2>7. QED
    BY <1>0, <1>1, <1>2, <1>4, <2>1, <2>2, <2>3, <2>4, <2>5, <2>6, MovingStep
       DEF TypeInv, Cleaning
<1>5. CASE d.stage = LastStage /\ d' = ToDecide /\ Cleaned
  <2>1. /\ d' \in Frame /\ d'.at = "decide" /\ d'.attempt = d.attempt
        /\ d'.stage = 1 /\ d'.error = d.error
    BY <1>0, <1>5, ToDecideIs
  <2>2. cleaned' = IF d.thorough THEN cleaned \cup {Q} ELSE cleaned
    BY <1>5 DEF Cleaned
  <2>3. RoundInv' /\ FetchInv' /\ TidyInv' /\ PurgeInv'
    BY <2>1 DEF RoundInv, FetchInv, TidyInv, PurgeInv, Reading
  <2>4. CleanedInv'
    <3>1. d.thorough => Q \in closed
      BY <1>0, <1>1 DEF PurgeInv
    <3>2. ASSUME NEW b \in held, b[4] # 0, d.thorough  PROVE b[1] # Q
      <4>1. b[2] \in 1 .. LastStage
        BY <1>0, <3>2, HeldIsListed
      <4>2. ~(b[2] >= d.stage + 1)
        BY <1>2, <1>5, <4>1
      <4>3. QED
        BY <1>3, <3>2, <4>2
    <3>3. QED
      BY <1>0, <1>1, <1>2, <2>1, <2>2, <3>1, <3>2 DEF CleanedInv, Q, Count, Own
  <2>5. FatalInv'
    BY <1>0, <1>1, <2>1 DEF FatalInv, Q, Cleaning
  <2>6. cleaned' \in SUBSET Query /\ d'.stage \in DOMAIN request.stages
    BY <1>0, <1>2, <2>1, <2>2 DEF TypeInv
  <2>7. QED
    BY <1>0, <1>1, <2>1, <2>3, <2>4, <2>5, <2>6, MovingStep DEF TypeInv, Cleaning
<1>6. QED
  BY <1>4, <1>5 DEF Purged

\* The two seconds are over.
LEMMA GraceStep ==
  ASSUME Inv, GraceOver
  PROVE  Inv'
<1>0. TypeInv /\ PlanInv /\ EverInv /\ HeldInv /\ AheadInv /\ RoundInv /\ FetchInv
      /\ TidyInv /\ PurgeInv /\ CleanedInv /\ FatalInv
  BY DEF Inv
<1>1. /\ d.at \in {"cancel", "survey", "purge"} /\ Own /\ UNCHANGED <<cleaned, fatal>>
      /\ d' = ToDecide
  BY DEF GraceOver, Local, Asking, Own, coordVars, promiseVars, clientVars, historyVars
<1>2. /\ d' \in Frame /\ d'.at = "decide" /\ d'.attempt = d.attempt
      /\ d'.stage = 1 /\ d'.error = d.error
  BY <1>0, <1>1, ToDecideIs
<1>3. RoundInv' /\ FetchInv' /\ TidyInv' /\ PurgeInv'
  BY <1>2 DEF RoundInv, FetchInv, TidyInv, PurgeInv, Reading
<1>4. CleanedInv'
  BY <1>0, <1>1, <1>2 DEF CleanedInv, Q, Count, Own
<1>5. FatalInv'
  BY <1>0, <1>1, <1>2 DEF FatalInv, Q, Cleaning
<1>6. d'.stage \in DOMAIN request.stages
  BY <1>0, <1>2, StageFacts
<1>7. QED
  BY <1>0, <1>1, <1>2, <1>3, <1>4, <1>5, <1>6, MovingStep DEF TypeInv, Cleaning

\* Another attempt, under a new identity, or the end.
LEMMA DecideStep ==
  ASSUME Inv, Decide
  PROVE  Inv' /\ (d'.attempt # d.attempt => Q \notin fatal)
<1>0. TypeInv /\ PlanInv /\ EverInv /\ HeldInv /\ AheadInv /\ RoundInv /\ FetchInv
      /\ TidyInv /\ PurgeInv /\ CleanedInv /\ FatalInv
  BY DEF Inv
<1>1. /\ d.at = "decide" /\ Own /\ UNCHANGED <<cleaned, fatal>>
      /\ d' = IF MayRetry THEN Locals(d.attempt + 1) ELSE [d EXCEPT !.at = "err"]
  BY DEF Decide, Local, Asking, Own, coordVars, promiseVars, clientVars, historyVars
<1>2. Q \in Query /\ Q \in Nat /\ d \in Frame /\ 1 \in DOMAIN request.stages
  BY <1>0, QueryFacts, StageFacts DEF TypeInv
<1>3. CASE MayRetry
  <2>1. d.error = "retryable" /\ d.attempt + 1 \in Query
    BY <1>2, <1>3, RetryAssumption DEF MayRetry, Query, Q
  <2>2. Q \notin fatal
    BY <1>0, <1>1, <2>1 DEF FatalInv
  <2>3. /\ d' \in Frame /\ d'.at = "begin" /\ d'.attempt = d.attempt + 1 /\ d'.stage = 1
        /\ d'.todo = << >> /\ d'.others = << >> /\ d'.fetched = << >>
    BY <1>1, <1>3, <2>1, LocalsType DEF Locals
  <2>4. TypeInv' /\ PlanInv' /\ EverInv' /\ HeldInv'
    BY <1>0, <1>1, <1>2, <2>3, StoreSame DEF TypeInv, Own
  <2>5. AheadInv'
    <3>1. \A q \in Query : q \in Nat
      BY <1>0, QueryFacts
    <3>2. ASSUME NEW q \in Query, NEW s \in StageId, Ahead(q, s)'
          PROVE  Ahead(q, s)
      <4>1. q > d.attempt + 1 \/ q = d.attempt + 1 \/ <<q, s>> \in late
        BY <1>1, <2>3, <3>2 DEF Ahead, Q, Own
      <4>2. QED
        BY <1>2, <3>1, <4>1 DEF Ahead, Q
    <3>3. ASSUME NEW q \in Query, NEW s \in StageId, <<q, s>> \in late
          PROVE  s \in DOMAIN request.stages /\ q <= d.attempt + 1 /\ q # d.attempt + 1
      <4>1. s \in DOMAIN request.stages /\ q <= d.attempt
        BY <1>0, <3>3 DEF AheadInv, Q
      <4>2. QED
        BY <1>2, <3>1, <4>1 DEF Q
    <3>4. QED
      BY <1>0, <1>1, <2>3, <3>2, <3>3 DEF AheadInv, Q, Own
  <2>6. RoundInv' /\ FetchInv' /\ TidyInv' /\ PurgeInv'
    BY <2>3 DEF RoundInv, FetchInv, TidyInv, PurgeInv, Reading
  <2>7. \A q \in Query : q <= d.attempt => q <= d.attempt + 1 /\ q # d.attempt + 1
    BY <1>0, <1>2, QueryFacts DEF Q
  <2>8. CleanedInv'
    BY <1>0, <1>1, <2>3, <2>7 DEF CleanedInv, Q, Count, Own, TypeInv
  <2>9. FatalInv'
    BY <1>0, <1>1, <2>3, <2>7 DEF FatalInv, Q, TypeInv
  <2>10. QED
    BY <2>2, <2>4, <2>5, <2>6, <2>8, <2>9 DEF Inv
<1>4. CASE ~MayRetry
  <2>1. /\ d' \in Frame /\ d'.at = "err" /\ d'.attempt = d.attempt
        /\ d'.stage = d.stage /\ d'.error = d.error
    BY <1>1, <1>2, <1>4 DEF Frame, Places
  <2>2. RoundInv' /\ FetchInv' /\ TidyInv' /\ PurgeInv'
    BY <2>1 DEF RoundInv, FetchInv, TidyInv, PurgeInv, Reading
  <2>3. CleanedInv'
    BY <1>0, <1>1, <2>1 DEF CleanedInv, Q, Count, Own
  <2>4. FatalInv'
    BY <1>0, <1>1, <2>1 DEF FatalInv, Q, Cleaning
  <2>5. QED
    BY <1>0, <1>1, <2>1, <2>2, <2>3, <2>4, MovingStep DEF TypeInv, Cleaning
<1>5. QED
  BY <1>3, <1>4

-----------------------------------------------------------------------------
(* The theorems.                                                           *)

\* The invariant holds as the driver is called.
LEMMA InitInv ==
  ASSUME Init
  PROVE  Inv
<1>1. /\ plan = [s \in StageKey |-> NoStage]
      /\ output = [k \in PartitionKey |-> NoOutput]
      /\ closed = {} /\ held = {} /\ late = {} /\ request \in Requests
      /\ failed = [k \in PartitionKey |-> "no"]
      /\ d = Locals(0) /\ ever = output /\ cleaned = {} /\ fatal = {}
  BY DEF Init, OInit
<1>2. 0 \in Query
  BY RetryAssumption DEF Query
<1>3. /\ d \in Frame /\ d.at = "begin" /\ d.attempt = 0 /\ d.stage = 1
      /\ d.todo = << >> /\ d.others = << >> /\ d.fetched = << >>
  BY <1>1, <1>2, LocalsType DEF Locals
<1>4. NoOutput \in Output
  BY DEF NoOutput, Output
<1>5. 1 \in DOMAIN request.stages
  <2>1. request.stages \in Seq([inputs : SUBSET Nat, partitions : Nat])
        /\ request.final \in DOMAIN request.stages
    BY <1>1, RequestAssumption
  <2>2. request.final \in 1 .. Len(request.stages) /\ Len(request.stages) \in Nat
        /\ DOMAIN request.stages = 1 .. Len(request.stages)
    BY <2>1
  <2>3. QED
    BY <2>2
<1>6. TypeInv
  BY <1>1, <1>3, <1>4, <1>5 DEF TypeInv, Kind
<1>7. /\ \A q \in Query, s \in StageId : plan[<<q, s>>] = NoStage
      /\ \A q \in Query, s \in StageId, p \in PartitionId :
           output[<<q, s, p>>] = NoOutput /\ ever[<<q, s, p>>] = NoOutput
  BY <1>1, <1>6, QueryFacts
<1>8. PlanInv /\ EverInv /\ HeldInv
  BY <1>1, <1>7 DEF PlanInv, EverInv, HeldInv
<1>9. AheadInv
  BY <1>1, <1>7 DEF AheadInv
<1>10. RoundInv /\ FetchInv /\ TidyInv /\ PurgeInv
  BY <1>3 DEF RoundInv, FetchInv, TidyInv, PurgeInv, Reading
<1>11. CleanedInv /\ FatalInv
  BY <1>1 DEF CleanedInv, FatalInv
<1>12. QED
  BY <1>6, <1>8, <1>9, <1>10, <1>11 DEF Inv

\* A step that no part of the invariant sees.
LEMMA StutterStep ==
  ASSUME Inv, UNCHANGED <<plan, output, closed, failed, held, late, request, d, ever,
                          cleaned, fatal>>
  PROVE  Inv'
<1>1. failed \in [PartitionKey -> Kind] /\ closed \in SUBSET Query /\ held \in SUBSET Block
  BY DEF Inv, TypeInv
<1>2. QED
  BY <1>1, MishapStep

\* Every step preserves the invariant.
LEMMA NextInv ==
  ASSUME Inv, [Next]_vars
  PROVE  Inv'
<1>1. CASE DriverStep
  BY <1>1, BeginStep, SubmitStep, PollStep, AskStep, PauseStep, QuitStep, ListStep,
     ForgottenStep, ReadFailsStep, FetchStep, FetchedStep, DeleteStep, TidiedStep,
     CancelStep, SurveyStep, PurgedStep DEF DriverStep
<1>2. CASE Abandon \/ GraceOver \/ Decide
  BY <1>2, AbandonStep, GraceStep, DecideStep
<1>3. CASE \E key \in late : LateSubmit(key[1], key[2])
  BY <1>3, LateSubmitStep
<1>4. CASE ClusterStep
  BY <1>4, CommitStep, PartitionFailsStep, LateSuccessStep, BlocksLostStep,
     OthersCancelStep, RestartStep
     DEF ClusterStep
<1>5. CASE Cancel \/ Expire \/ Returned \/ UNCHANGED vars
  BY <1>5, StutterStep DEF Cancel, Expire, Returned, vars, coordVars, promiseVars,
     clientVars, historyVars
<1>6. QED
  BY <1>1, <1>2, <1>3, <1>4, <1>5 DEF Next

\* The inductive invariant holds at every step of the driver and of the cluster.
THEOREM DriverInvariant == Spec => []Inv
<1>1. Init => Inv
  BY InitInv
<1>2. Inv /\ [Next]_vars => Inv'
  BY NextInv
<1>3. QED
  BY <1>1, <1>2, PTL DEF Spec

\* A result is the output of one execution of the whole graph (execute_graph_once,
\* fetch_output).
THEOREM WholeResult == Spec => []ResultIsWhole
<1>1. Inv => ResultIsWhole
  <2>1. SUFFICES ASSUME Inv, d.at = "ok"  PROVE ResultIsWhole
    BY DEF ResultIsWhole
  <2> DEFINE f == request.final
             n == Count(f)
  <2>2. f \in 1 .. LastStage /\ DOMAIN request.stages = 1 .. LastStage
    BY <2>1, StageFacts DEF Inv
  <2>3. AllIn(ever, n, Q, f) /\ d.fetched = BlocksIn(ever, n, Q, f)
    BY <2>1, <2>2 DEF Inv, RoundInv, FetchInv, Reading
  <2>4. [p \in 1 .. n |-> LET k == <<Q, f, p - 1>>
                          IN  [b \in DOMAIN ever[k].blocks |-> <<k[1], k[2], k[3], b>>]]
      = [p \in 1 .. n |-> [b \in DOMAIN ever[<<Q, f, p - 1>>].blocks |-> <<Q, f, p - 1, b>>]]
    OBVIOUS
  <2>5. QED
    BY <2>3, <2>4 DEF ResultIsWhole, AllIn, BlocksIn
<1>2. QED
  BY <1>1, DriverInvariant, PTL

\* Cleaning up without an error leaves no committed block of the query behind, for any
\* graph and whatever tasks succeed after the cancellation (cancel_and_cleanup,
\* fetch_output; update_task's answer to a Cancelling partition).
THEOREM CompleteCleanup == Spec => []CleanupIsComplete
<1>1. Inv => CleanupIsComplete
  <2>1. SUFFICES ASSUME Inv, NEW q \in cleaned, NEW b \in held, b[1] = q
                 PROVE  b = Unlisted(b)
    BY DEF CleanupIsComplete
  <2>2. b \in Block /\ b[4] = 0
    BY <2>1 DEF Inv, CleanedInv, TypeInv
  <2>3. QED
    BY <2>2, BlockFacts DEF Unlisted
<1>2. QED
  BY <1>1, DriverInvariant, PTL

\* Every step but Decide stays within the attempt.
LEMMA FatalStep ==
  ASSUME Inv, [Next]_vars
  PROVE  d'.attempt # d.attempt => Q \notin fatal
<1>0. d \in Frame
  BY DEF Inv, TypeInv
<1>1. CASE Decide
  BY <1>1, DecideStep
<1>2. CASE Begin \/ Submit \/ PollStage \/ AskPartition \/ Pause \/ Quit
  BY <1>0, <1>2 DEF Begin, Submit, PollStage, AskPartition, Pause, Quit, AfterSubmit,
     NextStage, Failing, Locals, Frame
<1>3. CASE ListStage \/ Forgotten \/ ReadFails \/ FetchBlock \/ Fetched
  BY <1>0, <1>3 DEF ListStage, Forgotten, ReadFails, FetchBlock, Fetched, Failing, Locals,
     Frame
<1>4. CASE DeleteBlock \/ Tidied \/ CancelGraph \/ Survey \/ Purged
  BY <1>0, <1>4 DEF DeleteBlock, Tidied, CancelGraph, Survey, Purged, ToDecide, Locals,
     Frame
<1>5. CASE Abandon \/ GraceOver
  BY <1>0, <1>5 DEF Abandon, GraceOver, ToDecide, Failing, Locals
<1>6. CASE CoordinatorRestarts
  BY <1>0, <1>6 DEF CoordinatorRestarts, Frame
<1>7. CASE \/ \E key \in late : LateSubmit(key[1], key[2])
           \/ ClusterStep /\ ~CoordinatorRestarts
           \/ Cancel \/ Expire \/ Returned \/ UNCHANGED vars
  BY <1>7 DEF LateSubmit, ClusterStep, PartitionCommits, PartitionFails, LateSuccess,
     BlocksLost, OthersCancel, Cancel, Expire, Returned, vars
<1>8. QED
  BY <1>1, <1>2, <1>3, <1>4, <1>5, <1>6, <1>7 DEF Next, DriverStep, ClusterStep

\* A query that failed for good is not computed again (failed_partition_details).
THEOREM FatalStays == Spec => FatalIsFinal
<1>1. Inv /\ [Next]_vars => [d'.attempt # d.attempt => Q \notin fatal]_vars
  BY FatalStep
<1>2. QED
  BY <1>1, DriverInvariant, PTL DEF Spec, FatalIsFinal
=============================================================================
