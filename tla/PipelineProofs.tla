--------------------------- MODULE PipelineProofs ---------------------------
(***************************************************************************)
(* The pipelined executor gives back all the memory it reserved, and after *)
(* a cancellation its client gets no more batches than its channel and the *)
(* root's tracker held: for any plan, any capacity of the channels and any *)
(* memory limit.                                                           *)
(*                                                                         *)
(* Both are counts that many tasks change.  What is reserved is the sum of *)
(* what each operator and the client hold, and only an operator that reads *)
(* or computes holds anything.  What the client may still get after the    *)
(* cancellation is what it got and what its channel holds: the sum grows   *)
(* only by the tracker's own steps, of which the token leaves it two, the  *)
(* second one with an error.                                               *)
(***************************************************************************)
EXTENDS Pipeline, SumProofs

-----------------------------------------------------------------------------
(* Batches are sequences, and so is what the operators make of them.       *)

\* A sequence of anything is one (the channels and batches of the executor).
LEMMA SeqIs ==
  ASSUME NEW X, NEW s \in Seq(X)
  PROVE  IsSeq(s) /\ Len(s) \in Nat /\ DOMAIN s = 1 .. Len(s)
BY SeqOfRange DEF IsSeq

\* The sums the counts of rows and batches need.
LEMMA Counting ==
  /\ \A m, n \in Nat : m + n \in Nat /\ (m + 1) + (n - 1) = m + n
  /\ \A n \in Nat : n + 0 = n
OBVIOUS

\* A batch of no rows, and of one.
LEMMA ShortSeq == IsSeq(<< >>) /\ \A x : IsSeq(<<x>>)
<1>1. << >> \in Seq({}) /\ \A x : <<x>> \in Seq({x})
  OBVIOUS
<1>2. QED
  BY <1>1, SeqIs

\* What IsSeq says of a batch.
LEMMA SeqHas ==
  ASSUME NEW s, IsSeq(s)
  PROVE  /\ Len(s) \in Nat /\ DOMAIN s = 1 .. Len(s)
         /\ \A n \in 1 .. Len(s) : s[n] \in Range(s)
BY DEF IsSeq

\* A batch made row by row.
LEMMA MadeSeq ==
  ASSUME NEW k \in Nat, NEW f, f = [n \in 1 .. k |-> f[n]]
  PROVE  IsSeq(f) /\ Len(f) = k /\ DOMAIN f = 1 .. k
<1>1. DOMAIN f = 1 .. k
  OBVIOUS
<1>2. f \in [1 .. k -> Range(f)]
  <2>1. \A n \in 1 .. k : f[n] \in Range(f)
    BY <1>1 DEF Range
  <2>2. QED
    BY <1>1, <2>1
<1>3. f \in Seq(Range(f)) /\ Len(f) = k
  BY <1>2
<1>4. QED
  BY <1>1, <1>3 DEF IsSeq

\* Batches one after the other are a batch (concat_batches).
LEMMA ConcatIs ==
  ASSUME NEW ss, IsSeq(ss), \A n \in DOMAIN ss : IsSeq(ss[n])
  PROVE  IsSeq(Concat(ss))
<1> DEFINE X == UNION {Range(ss[n]) : n \in DOMAIN ss}
<1>1. ss = [n \in 1 .. Len(ss) |-> ss[n]] /\ Len(ss) \in Nat /\ DOMAIN ss = 1 .. Len(ss)
  BY DEF IsSeq
<1>2. ASSUME NEW n \in 1 .. Len(ss)  PROVE ss[n] \in Seq(X)
  <2>1. IsSeq(ss[n]) /\ Range(ss[n]) \subseteq X
    BY <1>1
  <2> HIDE DEF X
  <2>2. QED
    BY <2>1, SeqMonotonic DEF IsSeq
<1> HIDE DEF X
<1>3. ss \in Seq(Seq(X))
  <2>1. ss \in [1 .. Len(ss) -> Seq(X)]
    BY <1>1, <1>2
  <2>2. QED
    BY <1>1, <2>1
<1>4. FlattenSeq(ss) \in Seq(X)
  BY <1>3, FlattenHas
<1>5. QED
  BY <1>4, SeqIs DEF Concat

\* filter_batch.
LEMMA FilterIs ==
  ASSUME NEW b, IsSeq(b), NEW keys
  PROVE  IsSeq(FilterBatch(b, keys))
<1> DEFINE ss == [n \in DOMAIN b |-> IF Key(b[n]) \in keys THEN <<b[n]>> ELSE << >>]
<1>1. IsSeq(ss) /\ DOMAIN ss = DOMAIN b
  <2>1. Len(b) \in Nat /\ DOMAIN b = 1 .. Len(b)
    BY SeqHas
  <2>2. ss = [n \in 1 .. Len(b) |-> ss[n]] /\ DOMAIN ss = DOMAIN b
    BY <2>1
  <2> HIDE DEF ss
  <2>3. QED
    BY <2>1, <2>2, MadeSeq
<1>2. ASSUME NEW n \in DOMAIN b  PROVE IsSeq(ss[n])
  <2>1. IsSeq(<<b[n]>>) /\ IsSeq(<< >>)
    BY ShortSeq
  <2>2. QED
    BY <2>1
<1>3. FilterBatch(b, keys) = Concat(ss)
  BY DEF FilterBatch
<1> HIDE DEF ss
<1>4. QED
  BY <1>1, <1>2, <1>3, ConcatIs

\* project_batch.
LEMMA ProjectIs ==
  ASSUME NEW b, IsSeq(b)
  PROVE  IsSeq(ProjectBatch(b))
<1>1. Len(b) \in Nat /\ DOMAIN b = 1 .. Len(b)
  BY SeqHas
<1> DEFINE f == ProjectBatch(b)
<1>2. f = [n \in 1 .. Len(b) |-> f[n]]
  BY <1>1 DEF ProjectBatch
<1> HIDE DEF f
<1>3. IsSeq(f)
  BY <1>1, <1>2, MadeSeq
<1>4. QED
  BY <1>3 DEF f

\* The rows a limit takes of a batch.
LEMMA PrefixIs ==
  ASSUME NEW b, IsSeq(b), NEW count \in Nat
  PROVE  IsSeq(Prefix(b, count)) /\ Len(Prefix(b, count)) <= count
<1>1. b \in Seq(Range(b)) /\ Len(b) \in Nat
  BY DEF IsSeq
<1> DEFINE last == IF count < Len(b) THEN count ELSE Len(b)
<1>2. last \in Nat /\ last <= count /\ last <= Len(b)
  BY <1>1
<1>3. Prefix(b, count) = SubSeq(b, 1, last)
  BY DEF Prefix
<1> HIDE DEF last
<1>4. \A i \in 1 .. last : b[i] \in Range(b)
  BY <1>1, <1>2
<1>5. SubSeq(b, 1, last) \in Seq(Range(b)) /\ Len(SubSeq(b, 1, last)) = last
  BY <1>2, <1>4, SubSeqProperties
<1>6. QED
  BY <1>2, <1>3, <1>5, SeqIs

\* Sorting keeps the number of rows.
LEMMA SortedIs ==
  ASSUME NEW b, IsSeq(b)
  PROVE  IsSeq(Sorted(b)) /\ Len(Sorted(b)) = Len(b)
<1>1. Len(b) \in Nat /\ DOMAIN b = 1 .. Len(b)
  BY SeqHas
<1> DEFINE f == Sorted(b)
<1>2. f = [n \in 1 .. Len(b) |-> f[n]]
  BY <1>1 DEF Sorted
<1> HIDE DEF f
<1>3. IsSeq(f) /\ Len(f) = Len(b)
  BY <1>1, <1>2, MadeSeq
<1>4. QED
  BY <1>3 DEF f

\* A batch has finitely many keys.
LEMMA KeysFinite ==
  ASSUME NEW b, IsSeq(b)
  PROVE  IsFiniteSet(Keys(b))
<1>1. Len(b) \in Nat /\ DOMAIN b = 1 .. Len(b)
  BY SeqHas
<1> DEFINE f == [n \in 1 .. Len(b) |-> Key(b[n])]
<1>2. Keys(b) = {f[n] : n \in 1 .. Len(b)}
  BY <1>1 DEF Keys, ToSet
<1>3. f \in Surjection(1 .. Len(b), Keys(b))
  BY <1>2 DEF Surjection
<1>4. IsFiniteSet(1 .. Len(b))
  BY <1>1, FS_Interval
<1>5. QED
  BY <1>3, <1>4, FS_Surjection

\* A grouped aggregate makes a row of every key.
LEMMA GroupByIs ==
  ASSUME NEW b, IsSeq(b)
  PROVE  IsSeq(GroupBy(b))
<1> DEFINE k == Cardinality(Keys(b))
           f == GroupBy(b)
<1>1. k \in Nat
  BY KeysFinite, FS_CardinalityType
<1>2. DOMAIN GroupStates(b, NewState, UpdateRow) = Keys(b)
  BY DEF GroupStates
<1>3. f = [n \in 1 .. k |-> f[n]]
  BY <1>2 DEF GroupBy, InKeyOrder, InOrderOf
<1> HIDE DEF f, k
<1>4. IsSeq(f)
  BY <1>1, <1>3, MadeSeq
<1>5. QED
  BY <1>4 DEF f

\* hash_join.
LEMMA HashJoinIs ==
  ASSUME NEW left, IsSeq(left), NEW right, IsSeq(right), NEW outer
  PROVE  IsSeq(HashJoin(left, right, outer))
<1> DEFINE Matches(row) == [n \in DOMAIN RowsOf(right, Key(row)) |->
                              row \o RowsOf(right, Key(row))[n]]
           Probe(row) ==
             IF Key(row) # Null /\ Key(row) \in DOMAIN Build(right)
             THEN [n \in DOMAIN Build(right)[Key(row)] |->
                     row \o Build(right)[Key(row)][n]]
             ELSE IF outer THEN <<row \o <<Null, Null>>>>
             ELSE << >>
           ss == [n \in DOMAIN left |-> Probe(left[n])]
<1>1. Len(left) \in Nat /\ DOMAIN left = 1 .. Len(left)
  BY SeqHas
<1>2. ASSUME NEW row  PROVE IsSeq(Probe(row))
  <2>1. IsSeq(Matches(row))
    <3> DEFINE m == Matches(row)
    <3>1. IsSeq(RowsOf(right, Key(row)))
      BY FilterIs DEF RowsOf
    <3>2. /\ Len(RowsOf(right, Key(row))) \in Nat
          /\ DOMAIN RowsOf(right, Key(row)) = 1 .. Len(RowsOf(right, Key(row)))
      BY <3>1, SeqHas
    <3>3. m = [n \in 1 .. Len(RowsOf(right, Key(row))) |-> m[n]]
      BY <3>2
    <3> HIDE DEF m
    <3>4. IsSeq(m)
      BY <3>2, <3>3, MadeSeq
    <3>5. QED
      BY <3>4 DEF m
  <2>2. Key(row) \in DOMAIN Build(right) => Build(right)[Key(row)] = RowsOf(right, Key(row))
    BY DEF Build
  <2>3. IsSeq(<<row \o <<Null, Null>>>>) /\ IsSeq(<< >>)
    BY ShortSeq
  <2>4. CASE Key(row) # Null /\ Key(row) \in DOMAIN Build(right)
    <3>1. Probe(row) = Matches(row)
      BY <2>2, <2>4
    <3>2. QED
      BY <2>1, <3>1
  <2>5. CASE ~(Key(row) # Null /\ Key(row) \in DOMAIN Build(right))
    BY <2>3, <2>5
  <2>6. QED
    BY <2>4, <2>5
<1> HIDE DEF Probe
<1>3. IsSeq(ss) /\ DOMAIN ss = DOMAIN left
  <2>1. ss = [n \in 1 .. Len(left) |-> ss[n]] /\ DOMAIN ss = DOMAIN left
    BY <1>1
  <2> HIDE DEF ss
  <2>2. QED
    BY <1>1, <2>1, MadeSeq
<1>4. HashJoin(left, right, outer) = Concat(ss)
  BY DEF HashJoin, Probe
<1>5. \A n \in DOMAIN ss : IsSeq(ss[n])
  BY <1>2, <1>3
<1> HIDE DEF ss
<1>6. QED
  BY <1>3, <1>4, <1>5, ConcatIs

-----------------------------------------------------------------------------
(* The inductive invariant.                                                *)

\* What a channel carries, and a channel.
IsItem(item) == item.ok \in BOOLEAN /\ IsSeq(item.rows)
IsChannel(c) == IsSeq(c) /\ \A n \in DOMAIN c : IsItem(c[n])

TaskPlaces == {"off", "reading", "sending", "computing", "done"}

IsTask(t) ==
  /\ t = [at |-> t.at, held |-> t.held, got |-> t.got, left |-> t.left]
  /\ t.at \in TaskPlaces
  /\ IsItem(t.held)
  /\ t.got = <<t.got[1], t.got[2]>> /\ IsSeq(t.got[1]) /\ IsSeq(t.got[2])
  /\ t.left \in Nat

IsTracker(t) ==
  /\ t = Tracker(t.at, t.held)
  /\ t.at \in {"off", "reading", "sending", "cancelling", "done"}
  /\ IsItem(t.held)

IsScanTask(s) ==
  /\ s = ScanTask(s.at, s.todo)
  /\ s.at \in {"off", "scanning", "sending", "done"}
  /\ IsChannel(s.todo)
  /\ s.at = "sending" => s.todo # << >>

\* Every function has an entry for each operator.
BuiltType == built = [o \in Ops |-> built[o]]
ScanType ==
  /\ scan = [o \in Ops |-> [p \in DOMAIN Parts(o) |-> scan[o][p]]]
  /\ \A o \in Ops : \A p \in DOMAIN Parts(o) : IsScanTask(scan[o][p])
TaskType ==
  /\ task = [o \in Ops |-> task[o]]
  /\ \A o \in Ops : IsTask(task[o]) /\ (task[o].at = "computing" => IsBlocking(o))
TrackerType == tracker = [o \in Ops |-> tracker[o]] /\ \A o \in Ops : IsTracker(tracker[o])
RawType == raw = [o \in Ops |-> raw[o]] /\ \A o \in Ops : IsChannel(raw[o])
OutType == out = [o \in Ops |-> out[o]] /\ \A o \in Ops : IsChannel(out[o])

Types ==
  /\ plan \in Plans
  /\ BuiltType /\ ScanType /\ TaskType /\ TrackerType /\ RawType /\ OutType
  /\ late \in Nat
  /\ cancelled \in BOOLEAN

\* The reservations add up, and only an operator that collects or computes holds any.
Memory ==
  /\ mem \in [Ops \cup {0} -> Nat]
  /\ reserved = SumOf(mem, Ops \cup {0})
  /\ reserved <= MemoryLimit
  /\ \A o \in Ops : mem[o] # 0 =>
       IsBlocking(o) /\ task[o].at \in {"reading", "computing"}

\* What the client got after the cancellation and may still find in its channel.
Ahead == late + Len(out[1])

\* After the cancellation the root's tracker sends what it has in hand, and then
\* its error, which comes last.
Prompt ==
  /\ ~cancelled => late = 0
  /\ built[1] \in {"new", "entered"} => tracker[1].at = "off" /\ late = 0
  /\ Len(out[1]) <= ChannelCapacity
  /\ tracker[1].at = "cancelling" => ~tracker[1].held.ok
  /\ cancelled =>
       /\ tracker[1].at \in {"off", "reading", "sending"} => Ahead <= ChannelCapacity
       /\ tracker[1].at = "cancelling" => Ahead <= ChannelCapacity + 1
       /\ tracker[1].at = "done" =>
            \/ Ahead <= ChannelCapacity + 1
            \/ /\ Ahead <= ChannelCapacity + 2
               /\ out[1] # << >> /\ ~out[1][Len(out[1])].ok

Invariant == Types /\ Memory /\ Prompt

-----------------------------------------------------------------------------
(* What is typed.                                                          *)

\* What PlanAssumption says of the plan at hand.
LEMMA PlanHas ==
  ASSUME Types
  PROVE  /\ Ops = 1 .. Len(plan.ops) /\ Len(plan.ops) \in Nat /\ 1 \in Ops
         /\ plan.inTask \in BOOLEAN
         /\ IsFiniteSet(Ops) /\ IsFiniteSet(Ops \cup {0}) /\ 0 \notin Ops
         /\ \A o \in Ops : \A n \in DOMAIN Inputs(o) :
              n \in 1 .. 2 /\ Inputs(o)[n] \in Ops /\ Inputs(o)[n] # 1
         /\ \A o \in Ops : 1 \notin Range(Inputs(o))
         /\ \A o \in Ops : ~IsScan(o) => 1 \in DOMAIN Inputs(o)
         /\ \A o \in Ops : /\ plan.ops[o].limit \in Nat
                           /\ Len(Parts(o)) \in Nat /\ DOMAIN Parts(o) = 1 .. Len(Parts(o))
         /\ \A o \in Ops : \A p \in DOMAIN Parts(o) :
              IsSeq(Parts(o)[p]) /\ \A n \in DOMAIN Parts(o)[p] : IsSeq(Parts(o)[p][n])
<1>1. /\ plan.inTask \in BOOLEAN
      /\ IsSeq(plan.ops) /\ Len(plan.ops) > 0
      /\ \A o \in DOMAIN plan.ops :
           /\ IsSeq(plan.ops[o].inputs) /\ Len(plan.ops[o].inputs) <= 2
           /\ plan.ops[o].kind # "scan" => Len(plan.ops[o].inputs) > 0
           /\ Range(plan.ops[o].inputs) \subseteq o + 1 .. Len(plan.ops)
           /\ IsSeq(plan.ops[o].parts)
           /\ \A part \in Range(plan.ops[o].parts) :
                IsSeq(part) /\ \A batch \in Range(part) : IsSeq(batch)
           /\ plan.ops[o].limit \in Nat
  BY PlanAssumption DEF Types
<1>2. Ops = 1 .. Len(plan.ops) /\ Len(plan.ops) \in Nat /\ 1 \in Ops
  <2>1. Len(plan.ops) \in Nat /\ DOMAIN plan.ops = 1 .. Len(plan.ops)
    BY <1>1, SeqHas
  <2>2. QED
    BY <1>1, <2>1 DEF Ops
<1>3. IsFiniteSet(Ops) /\ IsFiniteSet(Ops \cup {0}) /\ 0 \notin Ops
  <2>1. IsFiniteSet(Ops) /\ 0 \notin Ops
    BY <1>2, FS_Interval
  <2>2. QED
    BY <2>1, FS_AddElement
<1>4. ASSUME NEW o \in Ops
      PROVE  /\ 1 \notin Range(Inputs(o))
             /\ ~IsScan(o) => 1 \in DOMAIN Inputs(o)
             /\ \A n \in DOMAIN Inputs(o) :
                  n \in 1 .. 2 /\ Inputs(o)[n] \in Ops /\ Inputs(o)[n] # 1
             /\ plan.ops[o].limit \in Nat
             /\ Len(Parts(o)) \in Nat /\ DOMAIN Parts(o) = 1 .. Len(Parts(o))
             /\ \A p \in DOMAIN Parts(o) :
                  IsSeq(Parts(o)[p]) /\ \A n \in DOMAIN Parts(o)[p] : IsSeq(Parts(o)[p][n])
  <2>1. o \in DOMAIN plan.ops /\ o \in Nat \ {0}
    BY <1>2 DEF Ops
  <2>2. /\ IsSeq(Inputs(o)) /\ Len(Inputs(o)) <= 2
        /\ Range(Inputs(o)) \subseteq o + 1 .. Len(plan.ops)
        /\ IsSeq(Parts(o)) /\ plan.ops[o].limit \in Nat
        /\ \A part \in Range(Parts(o)) :
             IsSeq(part) /\ \A batch \in Range(part) : IsSeq(batch)
    BY <1>1, <2>1 DEF Inputs, Parts
  <2>8. ~IsScan(o) => 1 \in DOMAIN Inputs(o)
    <3>1. ~IsScan(o) => Len(Inputs(o)) > 0
      BY <1>1, <2>1 DEF IsScan, Kind, Inputs
    <3>2. Len(Inputs(o)) \in Nat /\ DOMAIN Inputs(o) = 1 .. Len(Inputs(o))
      BY <2>2, SeqHas
    <3>3. QED
      BY <3>1, <3>2
  <2>3. 1 \notin Range(Inputs(o)) /\ Range(Inputs(o)) \subseteq Ops
    BY <1>2, <2>1, <2>2
  <2>4. ASSUME NEW n \in DOMAIN Inputs(o)
        PROVE  n \in 1 .. 2 /\ Inputs(o)[n] \in Ops /\ Inputs(o)[n] # 1
    <3>1. n \in 1 .. Len(Inputs(o)) /\ Inputs(o)[n] \in Range(Inputs(o)) /\ Len(Inputs(o)) \in Nat
      BY <2>2, SeqHas
    <3>2. QED
      BY <2>2, <2>3, <3>1
  <2>5. Len(Parts(o)) \in Nat /\ DOMAIN Parts(o) = 1 .. Len(Parts(o))
    BY <2>2, SeqHas
  <2>6. ASSUME NEW p \in DOMAIN Parts(o)
        PROVE  IsSeq(Parts(o)[p]) /\ \A n \in DOMAIN Parts(o)[p] : IsSeq(Parts(o)[p][n])
    <3>1. Parts(o)[p] \in Range(Parts(o))
      BY <2>2, <2>5, SeqHas
    <3>2. IsSeq(Parts(o)[p]) /\ \A batch \in Range(Parts(o)[p]) : IsSeq(batch)
      BY <2>2, <3>1
    <3>3. \A n \in DOMAIN Parts(o)[p] : Parts(o)[p][n] \in Range(Parts(o)[p])
      BY <3>2, SeqHas
    <3>4. QED
      BY <3>2, <3>3
  <2>7. QED
    BY <2>2, <2>3, <2>4, <2>5, <2>6, <2>8
<1>5. QED
  BY <1>1, <1>2, <1>3, <1>4

\* What Ok and Err make.
LEMMA ItemIs ==
  /\ \A rows : IsSeq(rows) => IsItem(Ok(rows)) /\ Ok(rows).ok
  /\ \A error : IsItem(Err(error)) /\ ~Err(error).ok
  /\ IsItem(Nothing)
<1>1. IsSeq(<< >>)
  BY ShortSeq
<1>2. QED
  BY <1>1 DEF IsItem, Ok, Err, Nothing

\* Sending appends to a channel, receiving takes its head.
LEMMA ChannelIs ==
  ASSUME NEW c, IsChannel(c)
  PROVE  /\ Len(c) \in Nat
         /\ \A item : IsItem(item) => /\ IsChannel(Append(c, item))
                                      /\ Len(Append(c, item)) = Len(c) + 1
                                      /\ Append(c, item) # << >>
                                      /\ Append(c, item)[Len(c) + 1] = item
         /\ c # << >> => /\ IsItem(Head(c)) /\ Head(c) = c[1] /\ Len(c) >= 1
                         /\ IsChannel(Tail(c)) /\ Len(Tail(c)) = Len(c) - 1
                         /\ Len(c) > 1 => Tail(c) # << >> /\ Tail(c)[Len(c) - 1] = c[Len(c)]
<1>1. c \in Seq(Range(c)) /\ Len(c) \in Nat /\ DOMAIN c = 1 .. Len(c)
  BY DEF IsChannel, IsSeq
<1>2. \A n \in 1 .. Len(c) : IsItem(c[n])
  BY <1>1 DEF IsChannel
<1>3. ASSUME NEW item, IsItem(item)
      PROVE  /\ IsChannel(Append(c, item)) /\ Len(Append(c, item)) = Len(c) + 1
             /\ Append(c, item) # << >>
             /\ Append(c, item)[Len(c) + 1] = item
  <2> DEFINE X == Range(c) \cup {item}
             d == Append(c, item)
  <2>1. c \in Seq(X)
    <3>1. Range(c) \subseteq X
      OBVIOUS
    <3> HIDE DEF X
    <3>2. QED
      BY <1>1, <3>1, SeqMonotonic
  <2>2. item \in X
    OBVIOUS
  <2> HIDE DEF X
  <2>3. /\ d \in Seq(X) /\ Len(d) = Len(c) + 1 /\ d[Len(c) + 1] = item
        /\ \A n \in 1 .. Len(c) : d[n] = c[n]
    BY <2>1, <2>2
  <2> HIDE DEF d
  <2>4. IsSeq(d) /\ DOMAIN d = 1 .. Len(c) + 1
    BY <2>3, SeqIs
  <2>5. \A n \in 1 .. Len(c) + 1 : n \in 1 .. Len(c) \/ n = Len(c) + 1
    BY <1>1
  <2>6. \A n \in DOMAIN d : IsItem(d[n])
    BY <1>2, <1>3, <2>3, <2>4, <2>5
  <2>7. IsChannel(d)
    BY <2>4, <2>6 DEF IsChannel
  <2>8. d # << >>
    BY <1>1, <2>3
  <2>9. QED
    BY <2>3, <2>7, <2>8 DEF d
<1>4. ASSUME c # << >>
      PROVE  /\ IsItem(Head(c)) /\ Head(c) = c[1] /\ Len(c) >= 1
             /\ IsChannel(Tail(c)) /\ Len(Tail(c)) = Len(c) - 1
             /\ Len(c) > 1 => Tail(c) # << >> /\ Tail(c)[Len(c) - 1] = c[Len(c)]
  <2>1. Len(c) >= 1 /\ Head(c) = c[1]
    BY <1>1, <1>4
  <2>2. /\ Tail(c) \in Seq(Range(c)) /\ Len(Tail(c)) = Len(c) - 1
        /\ \A n \in 1 .. Len(c) - 1 : Tail(c)[n] = c[n + 1]
    BY <1>1, <1>4
  <2>3. IsSeq(Tail(c)) /\ DOMAIN Tail(c) = 1 .. Len(c) - 1
    BY <2>2, SeqIs
  <2>4. \A n \in 1 .. Len(c) - 1 : n + 1 \in 1 .. Len(c)
    BY <1>1
  <2>5. IsChannel(Tail(c))
    BY <1>2, <2>2, <2>3, <2>4 DEF IsChannel
  <2>6. ASSUME Len(c) > 1  PROVE Tail(c) # << >> /\ Tail(c)[Len(c) - 1] = c[Len(c)]
    <3>1. Len(c) - 1 \in 1 .. Len(c) - 1 /\ (Len(c) - 1) + 1 = Len(c)
      BY <1>1, <2>6
    <3>2. Len(Tail(c)) # 0
      BY <2>2, <2>6, <1>1
    <3>3. Tail(c) # << >>
      <4>1. Len(<< >>) = 0
        OBVIOUS
      <4>2. QED
        BY <3>2, <4>1, Zenon
    <3>4. QED
      BY <2>2, <3>1, <3>3
  <2>7. IsItem(c[1])
    BY <1>1, <1>2, <2>1
  <2>8. QED
    BY <2>1, <2>2, <2>5, <2>6, <2>7
<1>5. QED
  BY <1>1, <1>3, <1>4

\* A dropped receiver leaves an empty channel.
LEMMA EmptyChannel == IsChannel(<< >>) /\ Len(<< >>) = 0
<1>1. IsSeq(<< >>)
  BY ShortSeq
<1>2. QED
  BY <1>1 DEF IsChannel

\* Some numbers from one on have a least one: the first batch a scan's filter fails on.
LEMMA LeastIs ==
  ASSUME NEW S \in SUBSET Nat, S # {}
  PROVE  Min(S) \in S
<1>1. PICK x \in S : \A y \in S : ~(<<y, x>> \in OpToRel(<, Nat))
  BY NatLessThanWellFounded, WFMin
<1>2. ASSUME NEW y \in S  PROVE x <= y
  <2>1. x \in Nat /\ y \in Nat
    OBVIOUS
  <2>2. SUFFICES ASSUME y < x  PROVE FALSE
    BY <2>1
  <2>3. <<y, x>> \in OpToRel(<, Nat)
    BY <2>1, <2>2 DEF OpToRel
  <2>4. QED
    BY <1>1, <2>3
<1>3. QED
  BY <1>2 DEF Min

\* What a scan task sends.
LEMMA ScanItemsIs ==
  ASSUME Types, NEW o \in Ops, NEW p \in DOMAIN Parts(o)
  PROVE  IsChannel(ScanItems(o, p))
<1> DEFINE batches == Parts(o)[p]
           Filtered(n) == IF IsBad(o, batches[n]) THEN Err("evaluation")
                          ELSE Ok(FilterBatch(batches[n], plan.ops[o].keys))
           failing == {n \in DOMAIN batches : IsBad(o, batches[n])}
           last == IF failing = {} THEN Len(batches) ELSE Min(failing)
           f == [n \in 1 .. last |-> Filtered(n)]
<1>1. /\ Len(batches) \in Nat /\ DOMAIN batches = 1 .. Len(batches)
      /\ \A n \in DOMAIN batches : IsSeq(batches[n])
  BY PlanHas, SeqHas
<1>2. last \in Nat /\ last <= Len(batches)
  <2>1. CASE failing = {}
    BY <1>1, <2>1
  <2>2. CASE failing # {}
    <3>1. failing \in SUBSET Nat /\ failing \subseteq 1 .. Len(batches)
      BY <1>1
    <3> HIDE DEF failing
    <3>2. Min(failing) \in failing
      BY <2>2, <3>1, LeastIs
    <3>3. last = Min(failing)
      BY <2>2
    <3> HIDE DEF last
    <3>4. last \in 1 .. Len(batches)
      BY <3>1, <3>2, <3>3
    <3>5. QED
      BY <1>1, <3>4
  <2>3. QED
    BY <2>1, <2>2
<1> HIDE DEF last, batches, failing
<1>3. ASSUME NEW n \in 1 .. last  PROVE IsItem(Filtered(n))
  <2>1. n \in DOMAIN batches
    BY <1>1, <1>2
  <2>2. QED
    BY <1>1, <2>1, FilterIs, ItemIs
<1> HIDE DEF Filtered
<1>4. f = [n \in 1 .. last |-> f[n]]
  OBVIOUS
<1>5. \A n \in 1 .. last : IsItem(f[n])
  BY <1>3
<1> HIDE DEF f
<1>6. IsChannel(f)
  BY <1>2, <1>4, <1>5, MadeSeq DEF IsChannel
<1>7. IsChannel(<<Err("scan")>>)
  <2>1. <<Err("scan")>> = Append(<< >>, Err("scan"))
    OBVIOUS
  <2>2. QED
    BY <2>1, ItemIs, EmptyChannel, ChannelIs
<1>8. ScanItems(o, p) = IF p \in plan.ops[o].unreadable THEN <<Err("scan")>> ELSE f
  BY DEF ScanItems, f, Filtered, last, failing, batches
<1>9. QED
  BY <1>6, <1>7, <1>8

\* What the streaming operators make of an item, and the blocking ones of their inputs.
LEMMA MadeIs ==
  ASSUME Types, NEW o \in Ops
  PROVE  /\ \A item : IsItem(item) => IsItem(Mapped(o, item))
         /\ \A item : IsItem(item) =>
              /\ IsItem(Limited(o, item)) /\ Limited(o, item).ok = item.ok
              /\ item.ok => Len(Limited(o, item).rows) <= task[o].left
              /\ Len(Limited(o, item).rows) \in Nat
         /\ IsBlocking(o) => IsItem(Ok(Computed(o)))
<1>1. ASSUME NEW item, IsItem(item)  PROVE IsItem(Mapped(o, item))
  <2>1. IsSeq(item.rows)
    BY <1>1 DEF IsItem
  <2>2. /\ IsItem(Err("evaluation"))
        /\ IsItem(Ok(FilterBatch(item.rows, plan.ops[o].keys)))
        /\ IsItem(Ok(ProjectBatch(item.rows)))
    BY <2>1, FilterIs, ProjectIs, ItemIs
  <2>3. QED
    BY <1>1, <2>2 DEF Mapped
<1>2. ASSUME NEW item, IsItem(item)
      PROVE  /\ IsItem(Limited(o, item)) /\ Limited(o, item).ok = item.ok
             /\ item.ok => Len(Limited(o, item).rows) <= task[o].left
             /\ Len(Limited(o, item).rows) \in Nat
  <2>1. IsSeq(item.rows) /\ item.ok \in BOOLEAN /\ Len(item.rows) \in Nat
    BY <1>2, SeqHas DEF IsItem
  <2>2. task[o].left \in Nat
    BY DEF Types, TaskType, IsTask
  <2>3. /\ IsSeq(Prefix(item.rows, task[o].left))
        /\ Len(Prefix(item.rows, task[o].left)) <= task[o].left
    BY <2>1, <2>2, PrefixIs
  <2>4. Len(Prefix(item.rows, task[o].left)) \in Nat
    BY <2>3, SeqHas
  <2>5. CASE item.ok
    <3>1. Limited(o, item) = Ok(Prefix(item.rows, task[o].left))
      BY <2>5 DEF Limited
    <3>2. Limited(o, item).rows = Prefix(item.rows, task[o].left) /\ Limited(o, item).ok = TRUE
      BY <3>1 DEF Ok
    <3>3. QED
      BY <2>1, <2>3, <2>4, <2>5, <3>1, <3>2, ItemIs
  <2>6. CASE ~item.ok
    BY <1>2, <2>1, <2>6 DEF Limited
  <2>7. QED
    BY <2>5, <2>6
<1>3. ASSUME IsBlocking(o)  PROVE IsItem(Ok(Computed(o)))
  <2> DEFINE rows == task[o].got[1]
  <2>1. IsSeq(rows) /\ IsSeq(task[o].got[2])
    BY DEF Types, TaskType, IsTask
  <2>2. IsSeq(Aggregate(rows))
    BY ShortSeq DEF Aggregate
  <2>3. IsSeq(GroupBy(rows)) /\ IsSeq(Sorted(rows))
    BY <2>1, GroupByIs, SortedIs
  <2>4. IsSeq(TopK(rows, plan.ops[o].limit))
    BY <2>3, PlanHas, PrefixIs DEF TopK
  <2>5. IsSeq(HashJoin(rows, task[o].got[2], plan.ops[o].outer))
    BY <2>1, HashJoinIs
  <2>6. IsSeq(Computed(o))
    BY <1>3, <2>2, <2>3, <2>4, <2>5 DEF Computed, IsBlocking
  <2>7. QED
    BY <2>6, ItemIs
<1>4. QED
  BY <1>1, <1>2, <1>3

-----------------------------------------------------------------------------
(* One entry of a function changes.                                        *)

\* What a step leaves alone stays typed (every action keeps the plan).
LEMMA Frame ==
  ASSUME Types, plan' = plan
  PROVE  /\ Ops' = Ops
         /\ \A o : Parts(o)' = Parts(o) /\ Inputs(o)' = Inputs(o) /\ Kind(o)' = Kind(o)
         /\ built' = built => BuiltType'
         /\ scan' = scan => ScanType'
         /\ task' = task => TaskType'
         /\ tracker' = tracker => TrackerType'
         /\ raw' = raw => RawType'
         /\ out' = out => OutType'
         /\ BuiltType' /\ ScanType' /\ TaskType' /\ TrackerType' /\ RawType' /\ OutType'
              /\ late' \in Nat /\ cancelled' \in BOOLEAN => Types'
BY DEF Types, Ops, Parts, Inputs, Kind, BuiltType, ScanType, TaskType, TrackerType, RawType,
       OutType, IsBlocking

\* An operator's task moves.
LEMMA SetTask ==
  ASSUME Types, plan' = plan, NEW o \in Ops, NEW t, IsTask(t), task' = [task EXCEPT ![o] = t],
         t.at = "computing" => IsBlocking(o)
  PROVE  TaskType' /\ task'[o] = t /\ \A q \in Ops \ {o} : task'[q] = task[q]
<1>1. /\ task = [q \in Ops |-> task[q]]
      /\ \A q \in Ops : IsTask(task[q]) /\ (task[q].at = "computing" => IsBlocking(q))
  BY DEF Types, TaskType
<1>2. task'[o] = t /\ \A q \in Ops \ {o} : task'[q] = task[q]
  BY <1>1
<1>3. task' = [q \in Ops |-> task'[q]]
  BY <1>1
<1>4. \A q \in Ops : IsTask(task'[q]) /\ (task'[q].at = "computing" => IsBlocking(q))
  BY <1>1, <1>2
<1>5. Ops' = Ops /\ \A q : Kind(q)' = Kind(q)
  BY Frame
<1>6. QED
  BY <1>2, <1>3, <1>4, <1>5 DEF TaskType, IsTask, IsBlocking

\* A tracker moves.
LEMMA SetTracker ==
  ASSUME Types, plan' = plan, NEW o \in Ops, NEW t, IsTracker(t),
         tracker' = [tracker EXCEPT ![o] = t]
  PROVE  TrackerType' /\ tracker'[o] = t /\ \A q \in Ops \ {o} : tracker'[q] = tracker[q]
<1>1. tracker = [q \in Ops |-> tracker[q]] /\ \A q \in Ops : IsTracker(tracker[q])
  BY DEF Types, TrackerType
<1>2. tracker'[o] = t /\ \A q \in Ops \ {o} : tracker'[q] = tracker[q]
  BY <1>1
<1>3. tracker' = [q \in Ops |-> tracker'[q]]
  BY <1>1
<1>4. \A q \in Ops : IsTracker(tracker'[q])
  BY <1>1, <1>2
<1>5. Ops' = Ops
  BY Frame
<1>6. QED
  BY <1>2, <1>3, <1>4, <1>5 DEF TrackerType, IsTracker

\* Something is sent into or taken from an operator's first channel.
LEMMA SetRaw ==
  ASSUME Types, plan' = plan, NEW o \in Ops, NEW c, IsChannel(c), raw' = [raw EXCEPT ![o] = c]
  PROVE  RawType'
<1>1. raw = [q \in Ops |-> raw[q]] /\ \A q \in Ops : IsChannel(raw[q])
  BY DEF Types, RawType
<1>2. raw'[o] = c /\ \A q \in Ops \ {o} : raw'[q] = raw[q]
  BY <1>1
<1>3. raw' = [q \in Ops |-> raw'[q]]
  BY <1>1
<1>4. \A q \in Ops : IsChannel(raw'[q])
  BY <1>1, <1>2
<1>5. Ops' = Ops
  BY Frame
<1>6. QED
  BY <1>3, <1>4, <1>5 DEF RawType, IsChannel

\* The same for its second channel, which its parent reads.
LEMMA SetOut ==
  ASSUME Types, plan' = plan, NEW o \in Ops, NEW c, IsChannel(c), out' = [out EXCEPT ![o] = c]
  PROVE  OutType' /\ out'[o] = c /\ \A q \in Ops \ {o} : out'[q] = out[q]
<1>1. out = [q \in Ops |-> out[q]] /\ \A q \in Ops : IsChannel(out[q])
  BY DEF Types, OutType
<1>2. out'[o] = c /\ \A q \in Ops \ {o} : out'[q] = out[q]
  BY <1>1
<1>3. out' = [q \in Ops |-> out'[q]]
  BY <1>1
<1>4. \A q \in Ops : IsChannel(out'[q])
  BY <1>1, <1>2
<1>5. Ops' = Ops
  BY Frame
<1>6. QED
  BY <1>2, <1>3, <1>4, <1>5 DEF OutType, IsChannel

\* A scan's task moves.
LEMMA SetScan ==
  ASSUME Types, plan' = plan, NEW o \in Ops, NEW p \in DOMAIN Parts(o), NEW t, IsScanTask(t),
         scan' = [scan EXCEPT ![o][p] = t]
  PROVE  ScanType'
<1>1. /\ scan = [q \in Ops |-> [r \in DOMAIN Parts(q) |-> scan[q][r]]]
      /\ \A q \in Ops : \A r \in DOMAIN Parts(q) : IsScanTask(scan[q][r])
  BY DEF Types, ScanType
<1>2. \A q \in Ops : \A r \in DOMAIN Parts(q) :
        scan'[q][r] = IF q = o /\ r = p THEN t ELSE scan[q][r]
  BY <1>1
<1>3. scan' = [q \in Ops |-> [r \in DOMAIN Parts(q) |-> scan'[q][r]]]
  <2>1. /\ scan' = [q \in Ops |-> scan'[q]]
        /\ \A q \in Ops : scan'[q] = [r \in DOMAIN Parts(q) |-> scan'[q][r]]
    BY <1>1
  <2>2. QED
    BY <2>1
<1>4. \A q \in Ops : \A r \in DOMAIN Parts(q) : IsScanTask(scan'[q][r])
  BY <1>1, <1>2
<1>5. Ops' = Ops /\ \A q : Parts(q)' = Parts(q)
  BY Frame
<1>6. QED
  BY <1>3, <1>4, <1>5 DEF ScanType, IsScanTask, IsChannel

\* An item is sent, or given up because the receiver is gone.
LEMMA SendRawIs ==
  ASSUME Types, plan' = plan, NEW o \in Ops, NEW item, IsItem(item), SendRaw(o, item)
  PROVE  RawType'
<1>1. IsChannel(raw[o])
  BY DEF Types, RawType
<1>2. IsChannel(Append(raw[o], item))
  BY <1>1, ChannelIs
<1>3. CASE rawOpen[o]
  BY <1>2, <1>3, SetRaw DEF SendRaw
<1>4. CASE ~rawOpen[o]
  BY <1>4, Frame DEF SendRaw
<1>5. QED
  BY <1>3, <1>4

\* An operator drops its inputs; the root is nobody's input.
LEMMA DropInputsIs ==
  ASSUME Types, plan' = plan, NEW o \in Ops, DropInputs(o)
  PROVE  OutType' /\ out'[1] = out[1]
<1>1. out = [q \in Ops |-> out[q]] /\ \A q \in Ops : IsChannel(out[q])
  BY DEF Types, OutType
<1>2. out' = [i \in Ops |-> IF i \in Range(Inputs(o)) THEN << >> ELSE out[i]]
  BY DEF DropInputs
<1>3. 1 \in Ops /\ 1 \notin Range(Inputs(o))
  BY PlanHas
<1>4. \A q \in Ops : IsChannel(out'[q])
  BY <1>1, <1>2, EmptyChannel
<1>5. out' = [q \in Ops |-> out'[q]]
  BY <1>2
<1>6. Ops' = Ops
  BY Frame
<1>7. QED
  BY <1>2, <1>3, <1>4, <1>5, <1>6 DEF OutType, IsChannel

\* The parts of a task.
LEMMA TaskParts ==
  ASSUME Types, NEW o \in Ops
  PROVE  /\ task[o] = [at |-> task[o].at, held |-> task[o].held, got |-> task[o].got,
                       left |-> task[o].left]
         /\ task[o].at \in TaskPlaces /\ IsItem(task[o].held) /\ task[o].left \in Nat
         /\ task[o].got = <<task[o].got[1], task[o].got[2]>>
         /\ IsSeq(task[o].got[1]) /\ IsSeq(task[o].got[2])
         /\ task = [q \in Ops |-> task[q]]
BY DEF Types, TaskType, IsTask

\* A task put together from its parts.
LEMMA TaskMade ==
  ASSUME NEW a \in TaskPlaces, NEW h, IsItem(h), NEW l \in Nat,
         NEW g, g = <<g[1], g[2]>>, IsSeq(g[1]), IsSeq(g[2])
  PROVE  IsTask([at |-> a, held |-> h, got |-> g, left |-> l])
BY DEF IsTask

\* A task of which some parts are new.
LEMMA TaskEdit ==
  ASSUME Types, NEW o \in Ops
  PROVE  /\ \A a : [task[o] EXCEPT !.at = a]
                   = [at |-> a, held |-> task[o].held, got |-> task[o].got, left |-> task[o].left]
         /\ \A g : [task[o] EXCEPT !.got = g]
                   = [at |-> task[o].at, held |-> task[o].held, got |-> g, left |-> task[o].left]
<1>1. task[o] = [at |-> task[o].at, held |-> task[o].held, got |-> task[o].got,
                 left |-> task[o].left]
  BY TaskParts
<1>2. QED
  BY <1>1

\* A task that has let go of its inputs.
LEMMA TaskFresh ==
  ASSUME NEW a \in TaskPlaces, NEW h, IsItem(h)
  PROVE  IsTask(Task(a, h)) /\ Task(a, h).at = a
<1>1. IsSeq(<< >>)
  BY ShortSeq
<1>2. QED
  BY <1>1, TaskMade DEF Task

\* The parts of a tracker, and what NextRound makes.
LEMMA TrackerIs ==
  /\ \A a \in {"off", "reading", "sending", "cancelling", "done"} : \A h :
       IsItem(h) => IsTracker(Tracker(a, h)) /\ Tracker(a, h).at = a /\ Tracker(a, h).held = h
  /\ \A o : /\ IsTracker(NextRound(o))
            /\ cancelled => NextRound(o).at = "cancelling" /\ ~NextRound(o).held.ok
            /\ ~cancelled => NextRound(o).at = "reading"
<1>1. ASSUME NEW a \in {"off", "reading", "sending", "cancelling", "done"}, NEW h, IsItem(h)
      PROVE  IsTracker(Tracker(a, h)) /\ Tracker(a, h).at = a /\ Tracker(a, h).held = h
  BY <1>1 DEF IsTracker, Tracker
<1>2. QED
  BY <1>1, ItemIs DEF NextRound

-----------------------------------------------------------------------------
(* What leaves the counts alone.                                           *)

\* A step that reserves nothing keeps Memory if who holds memory goes on working.
LEMMA MemoryFrame ==
  ASSUME Types, Memory, plan' = plan, mem' = mem, reserved' = reserved,
         \A q \in Ops : mem[q] # 0 => task'[q].at \in {"reading", "computing"}
  PROVE  Memory'
<1>1. Ops' = Ops /\ \A q : Kind(q)' = Kind(q)
  BY Frame
<1>2. QED
  BY <1>1 DEF Memory, IsBlocking

\* A step away from the root's tracker and its channel keeps Prompt.
LEMMA PromptFrame ==
  ASSUME Prompt, late' = late, cancelled' = cancelled, out'[1] = out[1],
         tracker'[1] = tracker[1], built'[1] = built[1]
  PROVE  Prompt'
BY DEF Prompt, Ahead

-----------------------------------------------------------------------------
(* One lemma for each action: building the plan.                           *)

\* execute: an operator is entered, or refused with an error.
LEMMA EnterKeeps ==
  ASSUME Invariant, NEW o \in Ops, Enter(o)
  PROVE  Invariant'
<1> USE DEF Invariant
<1>1. /\ plan' = plan /\ scan' = scan /\ task' = task /\ tracker' = tracker /\ raw' = raw
      /\ mem' = mem /\ reserved' = reserved /\ cancelled' = cancelled /\ late' = late
      /\ built[o] = "new"
      /\ built' = [built EXCEPT ![o] = IF cancelled THEN "refused" ELSE "entered"]
      /\ out' = IF cancelled THEN [out EXCEPT ![o] = <<Err("cancelled")>>] ELSE out
  BY DEF Enter, taskVars, memoryVars
<1>2. IsChannel(<<Err("cancelled")>>) /\ Len(<<Err("cancelled")>>) = 1
  <2>1. <<Err("cancelled")>> = Append(<< >>, Err("cancelled"))
    OBVIOUS
  <2>2. QED
    BY <2>1, ItemIs, EmptyChannel, ChannelIs
<1>3. /\ OutType'
      /\ o # 1 => out'[1] = out[1]
      /\ cancelled /\ o = 1 => out'[1] = <<Err("cancelled")>>
      /\ ~cancelled => out'[1] = out[1]
  <2>1. CASE cancelled
    <3>1. out' = [out EXCEPT ![o] = <<Err("cancelled")>>] /\ 1 \in Ops
      BY <1>1, <2>1, PlanHas
    <3>2. OutType' /\ out'[o] = <<Err("cancelled")>> /\ \A q \in Ops \ {o} : out'[q] = out[q]
      BY <1>1, <1>2, <3>1, SetOut
    <3>3. QED
      BY <2>1, <3>1, <3>2
  <2>2. CASE ~cancelled
    BY <1>1, <2>2, Frame
  <2>3. QED
    BY <2>1, <2>2
<1>4. /\ BuiltType'
      /\ o # 1 => built'[1] = built[1]
      /\ o = 1 => built'[1] = IF cancelled THEN "refused" ELSE "entered"
  <2>1. built = [q \in Ops |-> built[q]] /\ 1 \in Ops /\ Ops' = Ops
    BY <1>1, Frame, PlanHas DEF Types, BuiltType
  <2>2. QED
    BY <1>1, <2>1 DEF BuiltType
<1>5. Types'
  BY <1>1, <1>3, <1>4, Frame DEF Types
<1>6. Memory'
  BY <1>1, MemoryFrame DEF Memory
<1>7. Prompt'
  <2>1. CASE o # 1
    BY <1>1, <1>3, <1>4, <2>1, PromptFrame
  <2>2. CASE o = 1 /\ cancelled
    <3>1. tracker[1].at = "off" /\ late = 0
      BY <1>1, <2>2 DEF Prompt
    <3>2. /\ out'[1] = <<Err("cancelled")>> /\ Len(out'[1]) = 1
          /\ built'[1] = "refused"
      BY <1>2, <1>3, <1>4, <2>2
    <3>3. Ahead' = 1
      BY <1>1, <3>1, <3>2 DEF Ahead
    <3>4. QED
      BY <1>1, <2>2, <3>1, <3>2, <3>3, CapacityAssumption DEF Prompt
  <2>3. CASE o = 1 /\ ~cancelled
    BY <1>1, <1>3, <1>4, <2>3 DEF Prompt, Ahead
  <2>4. QED
    BY <2>1, <2>2, <2>3
<1>8. QED
  BY <1>5, <1>6, <1>7

\* execute_scan: a partition's task is spawned, or skipped, or its error is sent.
LEMMA SpawnPartitionKeeps ==
  ASSUME Invariant, NEW o \in Ops, SpawnPartition(o)
  PROVE  Invariant'
<1> USE DEF Invariant
<1> DEFINE p == spawned[o] + 1
<1>1. /\ plan' = plan /\ built' = built /\ task' = task /\ tracker' = tracker
      /\ out' = out /\ mem' = mem /\ reserved' = reserved /\ cancelled' = cancelled
      /\ late' = late
  BY DEF SpawnPartition, memoryVars
<1>2. \/ scan' = [scan EXCEPT ![o][p].at = "scanning"] /\ raw' = raw
      \/ scan' = scan /\ raw' = raw
      \/ scan' = scan /\ raw' = [raw EXCEPT ![o] = Append(@, Err("scan"))]
  BY DEF SpawnPartition
<1> HIDE DEF p
<1>3. ScanType'
  <2>1. CASE scan' = [scan EXCEPT ![o][p].at = "scanning"]
    <3>1. scan = [q \in Ops |-> [r \in DOMAIN Parts(q) |-> scan[q][r]]]
      BY DEF Types, ScanType
    <3>2. CASE p \in DOMAIN Parts(o)
      <4>1. IsScanTask(scan[o][p])
        BY <3>2 DEF Types, ScanType
      <4> DEFINE t == [scan[o][p] EXCEPT !.at = "scanning"]
      <4>2. t = ScanTask("scanning", scan[o][p].todo)
        BY <4>1 DEF IsScanTask, ScanTask
      <4>3. IsScanTask(t)
        BY <4>1, <4>2 DEF IsScanTask, ScanTask
      <4>4. scan' = [scan EXCEPT ![o][p] = t]
        BY <2>1
      <4> HIDE DEF t
      <4>5. QED
        BY <1>1, <3>2, <4>3, <4>4, SetScan
    <3>3. CASE p \notin DOMAIN Parts(o)
      <4>1. scan[o] = [r \in DOMAIN Parts(o) |-> scan[o][r]]
        BY <3>1
      <4>2. [scan[o] EXCEPT ![p].at = "scanning"] = scan[o]
        BY <3>3, <4>1
      <4>3. scan' = scan
        BY <2>1, <3>1, <4>2
      <4>4. QED
        BY <1>1, <4>3, Frame
    <3>4. QED
      BY <3>2, <3>3
  <2>2. QED
    BY <1>1, <1>2, <2>1, Frame
<1>4. RawType'
  <2>1. IsChannel(raw[o])
    BY DEF Types, RawType
  <2>2. IsChannel(Append(raw[o], Err("scan")))
    BY <2>1, ChannelIs, ItemIs
  <2>3. QED
    BY <1>1, <1>2, <2>2, Frame, SetRaw
<1>5. Types'
  BY <1>1, <1>3, <1>4, Frame DEF Types
<1>6. Memory'
  BY <1>1, MemoryFrame DEF Memory
<1>7. Prompt'
  BY <1>1, PromptFrame
<1>8. QED
  BY <1>5, <1>6, <1>7

\* execute: the operator's task and its tracker start.
LEMMA SpawnKeeps ==
  ASSUME Invariant, NEW o \in Ops, Spawn(o)
  PROVE  Invariant'
<1> USE DEF Invariant
<1>1. /\ plan' = plan /\ scan' = scan /\ raw' = raw /\ out' = out
      /\ mem' = mem /\ reserved' = reserved /\ cancelled' = cancelled /\ late' = late
      /\ built[o] = "entered"
      /\ built' = [built EXCEPT ![o] = "running"]
      /\ task' = IF IsScan(o) THEN task ELSE [task EXCEPT ![o].at = "reading"]
      /\ tracker' = [tracker EXCEPT ![o] = NextRound(o)]
  BY DEF Spawn, channelVars, memoryVars
<1>2. BuiltType' /\ (o # 1 => built'[1] = built[1]) /\ (o = 1 => built'[1] = "running")
  <2>1. built = [q \in Ops |-> built[q]] /\ 1 \in Ops /\ Ops' = Ops
    BY <1>1, Frame, PlanHas DEF Types, BuiltType
  <2>2. QED
    BY <1>1, <2>1 DEF BuiltType
<1>3. /\ TaskType'
      /\ \A q \in Ops : task'[q].at = task[q].at \/ task'[q].at = "reading"
  <2>1. CASE IsScan(o)
    BY <1>1, <2>1, Frame
  <2>2. CASE ~IsScan(o)
    <3> DEFINE t == [at |-> "reading", held |-> task[o].held,
                     got |-> task[o].got, left |-> task[o].left]
    <3>1. IsTask(t) /\ t.at # "computing"
      BY TaskParts, TaskMade DEF TaskPlaces
    <3>2. task' = [task EXCEPT ![o] = t]
      BY <1>1, <2>2, TaskEdit, Zenon
    <3>3. t.at = "reading"
      OBVIOUS
    <3> HIDE DEF t
    <3>4. QED
      BY <1>1, <3>1, <3>2, <3>3, SetTask
  <2>3. QED
    BY <2>1, <2>2
<1>4. TrackerType' /\ tracker'[o] = NextRound(o) /\ (o # 1 => tracker'[1] = tracker[1])
  <2>1. IsTracker(NextRound(o)) /\ 1 \in Ops
    BY TrackerIs, PlanHas
  <2>2. QED
    BY <1>1, <2>1, SetTracker
<1>5. Types'
  BY <1>1, <1>2, <1>3, <1>4, Frame DEF Types
<1>6. Memory'
  <2>1. \A q \in Ops : mem[q] # 0 => task'[q].at \in {"reading", "computing"}
    BY <1>3 DEF Memory
  <2>2. QED
    BY <1>1, <2>1, MemoryFrame
<1>7. Prompt'
  <2>1. CASE o # 1
    BY <1>1, <1>2, <1>4, <2>1, PromptFrame
  <2>2. CASE o = 1
    <3>1. tracker[1].at = "off" /\ late = 0 /\ built'[1] = "running"
      BY <1>1, <1>2, <2>2 DEF Prompt
    <3>2. /\ cancelled => tracker'[1].at = "cancelling" /\ ~tracker'[1].held.ok
          /\ ~cancelled => tracker'[1].at = "reading"
      BY <1>4, <2>2, TrackerIs
    <3>3. Ahead' = Ahead /\ Ahead \in Nat
      <4>1. Len(out[1]) \in Nat /\ late \in Nat
        BY PlanHas, ChannelIs DEF Types, OutType
      <4>2. QED
        BY <1>1, <4>1 DEF Ahead
    <3>4. QED
      BY <1>1, <3>1, <3>2, <3>3, CapacityAssumption DEF Prompt
  <2>3. QED
    BY <2>1, <2>2
<1>8. QED
  BY <1>5, <1>6, <1>7

-----------------------------------------------------------------------------
(* Scan tasks.                                                             *)

\* scan_partition has read its partition.
LEMMA ScanReadKeeps ==
  ASSUME Invariant, NEW o \in Ops, NEW p \in DOMAIN Parts(o), ScanRead(o, p)
  PROVE  Invariant'
<1> USE DEF Invariant
<1> DEFINE t == IF ScanItems(o, p) = << >> THEN ScanTask("done", << >>)
                ELSE ScanTask("sending", ScanItems(o, p))
<1>1. /\ plan' = plan /\ built' = built /\ task' = task /\ tracker' = tracker
      /\ raw' = raw /\ out' = out /\ mem' = mem /\ reserved' = reserved
      /\ cancelled' = cancelled /\ late' = late
      /\ scan' = [scan EXCEPT ![o][p] = t]
  BY DEF ScanRead, memoryVars, channelVars
<1>2. IsScanTask(t)
  <2>1. IsChannel(ScanItems(o, p)) /\ IsChannel(<< >>)
    BY ScanItemsIs, EmptyChannel
  <2>2. QED
    BY <2>1 DEF IsScanTask, ScanTask
<1> HIDE DEF t
<1>3. ScanType'
  BY <1>1, <1>2, SetScan
<1>4. Types'
  BY <1>1, <1>3, Frame DEF Types
<1>5. Memory'
  BY <1>1, MemoryFrame DEF Memory
<1>6. Prompt'
  BY <1>1, PromptFrame
<1>7. QED
  BY <1>4, <1>5, <1>6

\* It sends its next batch, or ends because nobody reads any more.
LEMMA ScanSendKeeps ==
  ASSUME Invariant, NEW o \in Ops, NEW p \in DOMAIN Parts(o), ScanSend(o, p)
  PROVE  Invariant'
<1> USE DEF Invariant
<1> DEFINE s == scan[o][p]
           t == IF rawOpen[o] /\ Len(s.todo) > 1 THEN ScanTask("sending", Tail(s.todo))
                ELSE ScanTask("done", << >>)
<1>1. /\ plan' = plan /\ built' = built /\ task' = task /\ tracker' = tracker
      /\ out' = out /\ mem' = mem /\ reserved' = reserved
      /\ cancelled' = cancelled /\ late' = late
      /\ scan' = [scan EXCEPT ![o][p] = t]
      /\ s.at = "sending" /\ SendRaw(o, Head(s.todo))
  BY DEF ScanSend, memoryVars
<1>2. IsChannel(s.todo) /\ s.todo # << >>
  BY <1>1 DEF Types, ScanType, IsScanTask
<1>3. IsScanTask(t)
  <2>1. /\ IsChannel(Tail(s.todo)) /\ IsChannel(<< >>)
        /\ Len(s.todo) > 1 => Tail(s.todo) # << >>
    BY <1>2, ChannelIs, EmptyChannel
  <2> HIDE DEF s
  <2>2. QED
    BY <2>1 DEF IsScanTask, ScanTask
<1>4. RawType'
  <2>1. IsItem(Head(s.todo))
    BY <1>2, ChannelIs
  <2> HIDE DEF s
  <2>2. QED
    BY <1>1, <2>1, SendRawIs
<1> HIDE DEF t, s
<1>5. ScanType'
  BY <1>1, <1>3, SetScan
<1>6. Types'
  BY <1>1, <1>4, <1>5, Frame DEF Types
<1>7. Memory'
  BY <1>1, MemoryFrame DEF Memory
<1>8. Prompt'
  BY <1>1, PromptFrame
<1>9. QED
  BY <1>6, <1>7, <1>8

-----------------------------------------------------------------------------
(* Projection, filter and limit.                                           *)

\* A batch is mapped, or cut to what the limit has left.
LEMMA StreamRecvKeeps ==
  ASSUME Invariant, NEW o \in Ops, StreamRecv(o)
  PROVE  Invariant'
<1> USE DEF Invariant
<1> DEFINE i == Inputs(o)[1]
           item == Head(out[i])
           taken == Limited(o, item)
           empty == item.ok /\ taken.rows = << >>
<1>1. /\ plan' = plan /\ built' = built /\ scan' = scan /\ tracker' = tracker /\ raw' = raw
      /\ mem' = mem /\ reserved' = reserved /\ cancelled' = cancelled /\ late' = late
      /\ task[o].at = "reading" /\ (IsMap(o) \/ Kind(o) = "limit")
      /\ out[i] # << >> /\ out' = [out EXCEPT ![i] = Tail(out[i])]
  BY DEF StreamRecv, memoryVars
<1>2. IF IsMap(o)
      THEN task' = [task EXCEPT ![o].at = "sending", ![o].held = Mapped(o, item)]
      ELSE task' = [task EXCEPT
             ![o].at = IF empty THEN "reading" ELSE "sending",
             ![o].held = IF empty THEN Nothing ELSE taken,
             ![o].left = IF item.ok THEN @ - Len(taken.rows) ELSE 0]
  BY DEF StreamRecv
<1>3. i \in Ops /\ i # 1 /\ ~IsBlocking(o)
  <2>1. ~IsScan(o) /\ ~IsBlocking(o)
    BY <1>1 DEF IsScan, IsMap, IsBlocking
  <2>2. QED
    BY <2>1, PlanHas
<1> HIDE DEF i
<1>4. IsChannel(out[i])
  BY <1>3 DEF Types, OutType
<1>5. IsItem(item) /\ IsChannel(Tail(out[i]))
  BY <1>1, <1>4, ChannelIs
<1>6. OutType' /\ out'[1] = out[1]
  BY <1>1, <1>3, <1>5, SetOut, PlanHas
<1> HIDE DEF item
<1>7. /\ IsItem(Mapped(o, item)) /\ IsItem(taken) /\ item.ok \in BOOLEAN
      /\ item.ok => Len(taken.rows) <= task[o].left
      /\ Len(taken.rows) \in Nat
  BY <1>5, MadeIs DEF IsItem
<1> HIDE DEF taken
<1>8. TaskType' /\ \A q \in Ops \ {o} : task'[q] = task[q]
  <2>1. CASE IsMap(o)
    <3> DEFINE t == [at |-> "sending", held |-> Mapped(o, item),
                     got |-> task[o].got, left |-> task[o].left]
    <3>1. IsTask(t) /\ t.at # "computing"
      BY <1>7, TaskParts, TaskMade DEF TaskPlaces
    <3>2. task' = [task EXCEPT ![o] = t]
      BY <1>2, <2>1, TaskParts
    <3> HIDE DEF t
    <3>3. QED
      BY <1>1, <3>1, <3>2, SetTask
  <2>2. CASE ~IsMap(o)
    <3> DEFINE a == IF empty THEN "reading" ELSE "sending"
               h == IF empty THEN Nothing ELSE taken
               l == IF item.ok THEN task[o].left - Len(taken.rows) ELSE 0
               t == [at |-> a, held |-> h,
                     got |-> task[o].got, left |-> l]
    <3>1. a \in TaskPlaces /\ a # "computing" /\ IsItem(h) /\ l \in Nat
      <4>1. a \in TaskPlaces /\ a # "computing"
        BY DEF TaskPlaces
      <4>2. IsItem(h)
        BY <1>7, ItemIs
      <4>3. task[o].left \in Nat
        BY TaskParts
      <4>4. CASE item.ok
        BY <1>7, <4>1, <4>2, <4>3, <4>4
      <4>5. CASE ~item.ok
        BY <4>1, <4>2, <4>5
      <4>6. QED
        BY <4>4, <4>5
    <3>2. task' = [task EXCEPT ![o].at = a, ![o].held = h, ![o].left = l]
      BY <1>2, <2>2
    <3>7. task' = [task EXCEPT
                     ![o] = [[[task[o] EXCEPT !.at = a] EXCEPT !.held = h] EXCEPT !.left = l]]
      BY <3>2, TaskParts
    <3> HIDE DEF a, h, l
    <3>3. IsTask(t) /\ t.at # "computing"
      BY <3>1, TaskParts, TaskMade
    <3>4. task' = [task EXCEPT ![o] = t]
      <4> DEFINE r1 == [task[o] EXCEPT !.at = a]
                 r2 == [r1 EXCEPT !.held = h]
      <4>1. task' = [task EXCEPT ![o] = [r2 EXCEPT !.left = l]]
        BY <3>7
      <4>2. r1 = [at |-> a, held |-> task[o].held, got |-> task[o].got, left |-> task[o].left]
        BY TaskEdit
      <4> HIDE DEF r1
      <4>3. r2 = [at |-> a, held |-> h, got |-> task[o].got, left |-> task[o].left]
        BY <4>2
      <4> HIDE DEF r2
      <4>4. [r2 EXCEPT !.left = l] = t
        BY <4>3
      <4> HIDE DEF t
      <4>5. QED
        BY <4>1, <4>4, Zenon
    <3> HIDE DEF t
    <3>5. QED
      BY <1>1, <3>3, <3>4, SetTask
  <2>3. QED
    BY <2>1, <2>2
<1>9. Types'
  BY <1>1, <1>6, <1>8, Frame DEF Types
<1>10. Memory'
  <2>1. \A q \in Ops : mem[q] # 0 => task'[q].at \in {"reading", "computing"}
    BY <1>3, <1>8 DEF Memory
  <2>2. QED
    BY <1>1, <2>1, MemoryFrame
<1>11. Prompt'
  BY <1>1, <1>6, PromptFrame
<1>12. QED
  BY <1>9, <1>10, <1>11

\* It is sent, or the operator ends because nobody reads any more.
LEMMA StreamSendKeeps ==
  ASSUME Invariant, NEW o \in Ops, StreamSend(o)
  PROVE  Invariant'
<1> USE DEF Invariant
<1>1. /\ plan' = plan /\ built' = built /\ scan' = scan /\ tracker' = tracker
      /\ mem' = mem /\ reserved' = reserved /\ cancelled' = cancelled /\ late' = late
      /\ ~IsBlocking(o) /\ SendRaw(o, task[o].held)
      /\ task' = [task EXCEPT ![o].at = IF rawOpen[o] THEN "reading" ELSE "done",
                              ![o].held = Nothing]
      /\ out' = out \/ DropInputs(o)
  BY DEF StreamSend, memoryVars
<1>2. TaskType' /\ \A q \in Ops \ {o} : task'[q] = task[q]
  <2> DEFINE a == IF rawOpen[o] THEN "reading" ELSE "done"
             t == [at |-> a, held |-> Nothing,
                   got |-> task[o].got, left |-> task[o].left]
  <2>1. IsTask(t) /\ t.at # "computing"
    BY ItemIs, TaskParts, TaskMade DEF TaskPlaces
  <2>4. task' = [task EXCEPT ![o].at = a, ![o].held = Nothing]
    BY <1>1
  <2> HIDE DEF a
  <2>5. task' = [task EXCEPT ![o] = [[task[o] EXCEPT !.at = a] EXCEPT !.held = Nothing]]
    BY <2>4, TaskParts
  <2>2. task' = [task EXCEPT ![o] = t]
    <3> DEFINE r1 == [task[o] EXCEPT !.at = a]
    <3>1. task' = [task EXCEPT ![o] = [r1 EXCEPT !.held = Nothing]]
      BY <2>5
    <3>2. r1 = [at |-> a, held |-> task[o].held, got |-> task[o].got, left |-> task[o].left]
      BY TaskEdit
    <3> HIDE DEF r1
    <3>3. [r1 EXCEPT !.held = Nothing] = t
      BY <3>2
    <3> HIDE DEF t
    <3>4. QED
      BY <3>1, <3>3, Zenon
  <2> HIDE DEF t
  <2>3. QED
    BY <1>1, <2>1, <2>2, SetTask
<1>3. RawType'
  BY <1>1, SendRawIs, TaskParts
<1>4. OutType' /\ out'[1] = out[1]
  BY <1>1, Frame, DropInputsIs
<1>5. Types'
  BY <1>1, <1>2, <1>3, <1>4, Frame DEF Types
<1>6. Memory'
  <2>1. \A q \in Ops : mem[q] # 0 => task'[q].at \in {"reading", "computing"}
    BY <1>1, <1>2 DEF Memory
  <2>2. QED
    BY <1>1, <2>1, MemoryFrame
<1>7. Prompt'
  BY <1>1, <1>4, PromptFrame
<1>8. QED
  BY <1>5, <1>6, <1>7

\* Its input has ended, or its limit is reached.
LEMMA StreamEndKeeps ==
  ASSUME Invariant, NEW o \in Ops, StreamEnd(o)
  PROVE  Invariant'
<1> USE DEF Invariant
<1>1. /\ plan' = plan /\ built' = built /\ scan' = scan /\ tracker' = tracker /\ raw' = raw
      /\ mem' = mem /\ reserved' = reserved /\ cancelled' = cancelled /\ late' = late
      /\ ~IsBlocking(o) /\ DropInputs(o)
      /\ task' = [task EXCEPT ![o].at = "done"]
  BY DEF StreamEnd, memoryVars
<1>2. TaskType' /\ \A q \in Ops \ {o} : task'[q] = task[q]
  <2> DEFINE t == [at |-> "done", held |-> task[o].held,
                   got |-> task[o].got, left |-> task[o].left]
  <2>1. IsTask(t) /\ t.at # "computing"
    BY TaskParts, TaskMade DEF TaskPlaces
  <2>2. task' = [task EXCEPT ![o] = t]
    BY <1>1, TaskEdit, Zenon
  <2> HIDE DEF t
  <2>3. QED
    BY <1>1, <2>1, <2>2, SetTask
<1>3. OutType' /\ out'[1] = out[1]
  BY <1>1, DropInputsIs
<1>4. Types'
  BY <1>1, <1>2, <1>3, Frame DEF Types
<1>5. Memory'
  <2>1. \A q \in Ops : mem[q] # 0 => task'[q].at \in {"reading", "computing"}
    BY <1>1, <1>2 DEF Memory
  <2>2. QED
    BY <1>1, <2>1, MemoryFrame
<1>6. Prompt'
  BY <1>1, <1>3, PromptFrame
<1>7. QED
  BY <1>4, <1>5, <1>6

-----------------------------------------------------------------------------
(* Blocking operators and their memory.                                    *)

\* reserve: what one more holds is added to the sum.
LEMMA ReservedKeeps ==
  ASSUME Types, Memory, plan' = plan, NEW x \in Ops \cup {0}, NEW bytes \in Nat,
         Fits(bytes), Reserved(x, bytes),
         x # 0 => IsBlocking(x) /\ task'[x].at \in {"reading", "computing"},
         \A q \in Ops \ {x} : task'[q] = task[q]
  PROVE  Memory'
<1>1. Ops' = Ops /\ (\A q : Kind(q)' = Kind(q)) /\ IsFiniteSet(Ops \cup {0}) /\ 0 \notin Ops
  BY Frame, PlanHas
<1>2. /\ mem \in [Ops \cup {0} -> Nat] /\ reserved = SumOf(mem, Ops \cup {0})
      /\ reserved + bytes <= MemoryLimit
      /\ mem' = [mem EXCEPT ![x] = @ + bytes] /\ reserved' = reserved + bytes
  BY DEF Memory, Fits, Reserved
<1>3. mem' \in [Ops \cup {0} -> Nat] /\ mem'[x] = mem[x] + bytes /\ mem[x] \in Nat
  BY <1>2
<1>4. \A y \in (Ops \cup {0}) \ {x} : mem'[y] = mem[y]
  BY <1>2
<1>5. SumOf(mem', Ops \cup {0}) = SumOf(mem, Ops \cup {0}) - mem[x] + mem'[x]
  <2>1. mem \in [Ops \cup {0} -> Int] /\ mem' \in [Ops \cup {0} -> Int]
    BY <1>2, <1>3
  <2>2. QED
    BY <1>1, <1>4, <2>1, SumOfUpdate
<1>6. SumOf(mem, Ops \cup {0}) \in Nat
  BY <1>1, <1>2, SumOfNat
<1>7. reserved' = SumOf(mem', Ops \cup {0})
  BY <1>2, <1>3, <1>5, <1>6
<1>8. ASSUME NEW q \in Ops, mem'[q] # 0
      PROVE  IsBlocking(q) /\ task'[q].at \in {"reading", "computing"}
  <2>1. CASE q = x
    BY <1>1, <2>1
  <2>2. CASE q # x
    <3>1. mem'[q] = mem[q] /\ task'[q] = task[q]
      BY <1>4, <2>2
    <3>2. QED
      BY <1>8, <3>1 DEF Memory
  <2>3. QED
    BY <2>1, <2>2
<1>9. QED
  BY <1>1, <1>2, <1>3, <1>7, <1>8 DEF Memory, IsBlocking

\* Drop of the reservations: what one held is taken off the sum.
LEMMA ReleasedKeeps ==
  ASSUME Types, Memory, plan' = plan, NEW x \in Ops \cup {0}, Released(x),
         \A q \in Ops \ {x} : task'[q] = task[q]
  PROVE  Memory' /\ (x = 0 \/ mem'[x] = 0)
<1>1. Ops' = Ops /\ (\A q : Kind(q)' = Kind(q)) /\ IsFiniteSet(Ops \cup {0}) /\ 0 \notin Ops
  BY Frame, PlanHas
<1>2. /\ mem \in [Ops \cup {0} -> Nat] /\ reserved = SumOf(mem, Ops \cup {0})
      /\ reserved <= MemoryLimit
      /\ mem' = [mem EXCEPT ![x] = 0] /\ reserved' = reserved - mem[x]
  BY DEF Memory, Released
<1>3. mem' \in [Ops \cup {0} -> Nat] /\ mem'[x] = 0 /\ mem[x] \in Nat
  BY <1>2
<1>4. \A y \in (Ops \cup {0}) \ {x} : mem'[y] = mem[y]
  BY <1>2
<1>5. SumOf(mem', Ops \cup {0}) = SumOf(mem, Ops \cup {0}) - mem[x] + mem'[x]
  <2>1. mem \in [Ops \cup {0} -> Int] /\ mem' \in [Ops \cup {0} -> Int]
    BY <1>2, <1>3
  <2>2. QED
    BY <1>1, <1>4, <2>1, SumOfUpdate
<1>6. SumOf(mem, Ops \cup {0}) \in Nat
  BY <1>1, <1>2, SumOfNat
<1>7. reserved' = SumOf(mem', Ops \cup {0}) /\ reserved' <= MemoryLimit
  BY <1>2, <1>3, <1>5, <1>6, CapacityAssumption
<1>8. ASSUME NEW q \in Ops, mem'[q] # 0
      PROVE  IsBlocking(q) /\ task'[q].at \in {"reading", "computing"}
  <2>1. q # x
    BY <1>3, <1>8
  <2>2. mem'[q] = mem[q] /\ task'[q] = task[q]
    BY <1>4, <2>1
  <2>3. QED
    BY <1>8, <2>2 DEF Memory
<1>9. QED
  BY <1>1, <1>2, <1>3, <1>7, <1>8 DEF Memory, IsBlocking

\* The operator ends with an error.
LEMMA AbortKeeps ==
  ASSUME Invariant, plan' = plan, NEW o \in Ops, NEW error, Abort(o, error)
  PROVE  TaskType' /\ OutType' /\ out'[1] = out[1] /\ Memory'
<1> USE DEF Invariant
<1>1. /\ task' = [task EXCEPT ![o] = Task("sending", Err(error))]
      /\ DropInputs(o) /\ Released(o)
  BY DEF Abort
<1>2. TaskType' /\ \A q \in Ops \ {o} : task'[q] = task[q]
  <2>1. IsTask(Task("sending", Err(error))) /\ Task("sending", Err(error)).at = "sending"
    BY ItemIs, TaskFresh DEF TaskPlaces
  <2>2. QED
    BY <1>1, <2>1, SetTask
<1>3. QED
  BY <1>1, <1>2, DropInputsIs, ReleasedKeeps

\* collect_with_memory: a batch is reserved for and kept.
LEMMA CollectRecvKeeps ==
  ASSUME Invariant, NEW o \in Ops, NEW n \in DOMAIN Inputs(o), CollectRecv(o, n)
  PROVE  Invariant'
<1> USE DEF Invariant
<1> DEFINE i == Inputs(o)[n]
           item == Head(out[i])
<1>1. /\ plan' = plan /\ built' = built /\ scan' = scan /\ tracker' = tracker /\ raw' = raw
      /\ cancelled' = cancelled /\ late' = late
      /\ task[o].at = "reading" /\ IsBlocking(o)
      /\ out[i] # << >>
      /\ \/ /\ item.ok /\ Fits(Len(item.rows))
            /\ task' = [task EXCEPT ![o].got[n] = @ \o item.rows]
            /\ Reserved(o, Len(item.rows))
            /\ out' = [out EXCEPT ![i] = Tail(@)]
         \/ Abort(o, "memory")
         \/ Abort(o, item.error)
  BY DEF CollectRecv
<1>2. i \in Ops /\ i # 1 /\ n \in 1 .. 2
  BY PlanHas
<1> HIDE DEF i
<1>3. IsChannel(out[i])
  BY <1>2 DEF Types, OutType
<1>4. IsItem(item) /\ IsChannel(Tail(out[i]))
  BY <1>1, <1>3, ChannelIs
<1>5. CASE /\ Fits(Len(item.rows))
           /\ task' = [task EXCEPT ![o].got[n] = @ \o item.rows]
           /\ Reserved(o, Len(item.rows))
           /\ out' = [out EXCEPT ![i] = Tail(out[i])]
  <2>1. OutType' /\ out'[1] = out[1]
    BY <1>1, <1>2, <1>4, <1>5, SetOut, PlanHas
  <2> HIDE DEF item
  <2> DEFINE rows == task[o].got[n] \o item.rows
  <2>2. IsSeq(item.rows) /\ Len(item.rows) \in Nat
    BY <1>4, SeqHas DEF IsItem
  <2>3. IsSeq(rows)
    <3>1. IsSeq(task[o].got[n])
      <4>1. n = 1 \/ n = 2
        BY <1>2
      <4>2. QED
        BY <4>1, TaskParts
    <3> DEFINE X == Range(task[o].got[n]) \cup Range(item.rows)
    <3>2. Range(task[o].got[n]) \subseteq X /\ Range(item.rows) \subseteq X
      OBVIOUS
    <3> HIDE DEF X
    <3>3. task[o].got[n] \in Seq(X) /\ item.rows \in Seq(X)
      BY <2>2, <3>1, <3>2, SeqMonotonic DEF IsSeq
    <3>4. rows \in Seq(X)
      BY <3>3
    <3> HIDE DEF rows
    <3>5. QED
      BY <3>4, SeqIs
  <2> HIDE DEF rows
  <2> DEFINE g == [task[o].got EXCEPT ![n] = rows]
             t == [at |-> "reading", held |-> task[o].held, got |-> g, left |-> task[o].left]
  <2>12. g = <<g[1], g[2]>> /\ IsSeq(g[1]) /\ IsSeq(g[2])
    <3>1. /\ task[o].got = <<task[o].got[1], task[o].got[2]>>
          /\ IsSeq(task[o].got[1]) /\ IsSeq(task[o].got[2])
      BY TaskParts
    <3>2. CASE n = 1
      <4>1. g = <<rows, task[o].got[2]>>
        BY <3>1, <3>2
      <4>2. QED
        BY <2>3, <3>1, <4>1
    <3>3. CASE n = 2
      <4>1. g = <<task[o].got[1], rows>>
        BY <3>1, <3>3
      <4>2. QED
        BY <2>3, <3>1, <4>1
    <3>4. QED
      BY <1>2, <3>2, <3>3
  <2>13. task' = [task EXCEPT ![o].got = g]
    BY <1>5, TaskParts DEF rows
  <2> HIDE DEF g
  <2>4. IsTask(t) /\ t.at # "computing"
    BY <2>12, TaskParts, TaskMade DEF TaskPlaces
  <2>14. t = [at |-> task[o].at, held |-> task[o].held, got |-> g, left |-> task[o].left]
    BY <1>1
  <2>6. t.at = "reading"
    OBVIOUS
  <2> HIDE DEF t
  <2>5. task' = [task EXCEPT ![o] = t]
    BY <2>13, <2>14, TaskEdit, Zenon
  <2>7. TaskType' /\ task'[o] = t /\ \A q \in Ops \ {o} : task'[q] = task[q]
    BY <1>1, <2>4, <2>5, SetTask
  <2>8. Types'
    BY <1>1, <2>1, <2>7, Frame DEF Types
  <2>9. Memory'
    BY <1>1, <1>5, <2>2, <2>6, <2>7, ReservedKeeps
  <2>10. Prompt'
    BY <1>1, <2>1, PromptFrame
  <2>11. QED
    BY <2>8, <2>9, <2>10
<1>6. CASE Abort(o, "memory") \/ Abort(o, item.error)
  <2>1. TaskType' /\ OutType' /\ out'[1] = out[1] /\ Memory'
    BY <1>1, <1>6, AbortKeeps
  <2>2. Types'
    BY <1>1, <2>1, Frame DEF Types
  <2>3. Prompt'
    BY <1>1, <2>1, PromptFrame
  <2>4. QED
    BY <2>1, <2>2, <2>3
<1>7. QED
  BY <1>1, <1>5, <1>6

\* The inputs have ended: the tables and copies are reserved for.
LEMMA CollectEndKeeps ==
  ASSUME Invariant, NEW o \in Ops, CollectEnd(o)
  PROVE  Invariant'
<1> USE DEF Invariant
<1>1. /\ plan' = plan /\ built' = built /\ scan' = scan /\ tracker' = tracker /\ raw' = raw
      /\ cancelled' = cancelled /\ late' = late
      /\ IsBlocking(o)
      /\ \/ /\ Fits(WorkBytes(o)) /\ Reserved(o, WorkBytes(o))
            /\ task' = [task EXCEPT ![o].at = "computing"]
            /\ DropInputs(o)
         \/ Abort(o, "memory")
  BY DEF CollectEnd
<1>2. CASE /\ Fits(WorkBytes(o)) /\ Reserved(o, WorkBytes(o))
           /\ task' = [task EXCEPT ![o].at = "computing"]
           /\ DropInputs(o)
  <2>1. OutType' /\ out'[1] = out[1]
    BY <1>1, <1>2, DropInputsIs
  <2>2. WorkBytes(o) \in Nat
    <3>1. Len(task[o].got[1]) \in Nat /\ Len(task[o].got[2]) \in Nat
      <4>1. IsSeq(task[o].got[1]) /\ IsSeq(task[o].got[2])
        BY TaskParts
      <4>2. QED
        BY <4>1, SeqHas
    <3>2. QED
      BY <3>1, Counting, Zenon DEF WorkBytes
  <2> DEFINE t == [at |-> "computing", held |-> task[o].held,
                   got |-> task[o].got, left |-> task[o].left]
  <2>3. IsTask(t) /\ t.at = "computing"
    BY TaskParts, TaskMade DEF TaskPlaces
  <2>4. task' = [task EXCEPT ![o] = t]
    BY <1>2, TaskEdit, Zenon
  <2> HIDE DEF t
  <2>5. TaskType' /\ task'[o] = t /\ \A q \in Ops \ {o} : task'[q] = task[q]
    BY <1>1, <2>3, <2>4, SetTask
  <2>6. Types'
    BY <1>1, <2>1, <2>5, Frame DEF Types
  <2>7. Memory'
    BY <1>1, <1>2, <2>2, <2>3, <2>5, ReservedKeeps
  <2>8. Prompt'
    BY <1>1, <2>1, PromptFrame
  <2>9. QED
    BY <2>6, <2>7, <2>8
<1>3. CASE Abort(o, "memory")
  <2>1. TaskType' /\ OutType' /\ out'[1] = out[1] /\ Memory'
    BY <1>1, <1>3, AbortKeeps
  <2>2. Types'
    BY <1>1, <2>1, Frame DEF Types
  <2>3. Prompt'
    BY <1>1, <2>1, PromptFrame
  <2>4. QED
    BY <2>1, <2>2, <2>3
<1>4. QED
  BY <1>1, <1>2, <1>3

\* The computation is over: its reservations are dropped.
LEMMA ComputeKeeps ==
  ASSUME Invariant, NEW o \in Ops, Compute(o)
  PROVE  Invariant'
<1> USE DEF Invariant
<1> DEFINE h == IF \E n \in 1 .. 2 : IsBad(o, task[o].got[n]) THEN Err("evaluation")
                ELSE Ok(Computed(o))
<1>1. /\ plan' = plan /\ built' = built /\ scan' = scan /\ tracker' = tracker /\ raw' = raw
      /\ out' = out /\ cancelled' = cancelled /\ late' = late
      /\ task[o].at = "computing" /\ Released(o)
      /\ task' = [task EXCEPT ![o] = Task("sending", h)]
  BY DEF Compute, channelVars
<1>2. IsItem(h)
  <2>1. IsBlocking(o)
    BY <1>1 DEF Types, TaskType
  <2>2. QED
    BY <2>1, MadeIs, ItemIs
<1> HIDE DEF h
<1>3. TaskType' /\ \A q \in Ops \ {o} : task'[q] = task[q]
  <2>1. IsTask(Task("sending", h)) /\ Task("sending", h).at = "sending"
    BY <1>2, TaskFresh DEF TaskPlaces
  <2>2. QED
    BY <1>1, <2>1, SetTask
<1>4. Types'
  BY <1>1, <1>3, Frame DEF Types
<1>5. Memory'
  BY <1>1, <1>3, ReleasedKeeps
<1>6. Prompt'
  BY <1>1, PromptFrame
<1>7. QED
  BY <1>4, <1>5, <1>6

\* The result or the error is sent; by then nothing is reserved any more.
LEMMA CollectSendKeeps ==
  ASSUME Invariant, NEW o \in Ops, CollectSend(o)
  PROVE  Invariant'
<1> USE DEF Invariant
<1>1. /\ plan' = plan /\ built' = built /\ scan' = scan /\ tracker' = tracker
      /\ out' = out /\ mem' = mem /\ reserved' = reserved
      /\ cancelled' = cancelled /\ late' = late
      /\ task[o].at = "sending" /\ SendRaw(o, task[o].held)
      /\ task' = [task EXCEPT ![o] = Task("done", Nothing)]
  BY DEF CollectSend, memoryVars
<1>2. TaskType' /\ \A q \in Ops \ {o} : task'[q] = task[q]
  <2>1. IsTask(Task("done", Nothing)) /\ Task("done", Nothing).at = "done"
    BY ItemIs, TaskFresh DEF TaskPlaces
  <2>2. QED
    BY <1>1, <2>1, SetTask
<1>3. RawType'
  BY <1>1, SendRawIs, TaskParts
<1>4. Types'
  BY <1>1, <1>2, <1>3, Frame DEF Types
<1>5. Memory'
  <2>1. \A q \in Ops : mem[q] # 0 => q # o /\ task[q].at \in {"reading", "computing"}
    BY <1>1 DEF Memory
  <2>2. \A q \in Ops : mem[q] # 0 => task'[q].at \in {"reading", "computing"}
    BY <1>2, <2>1
  <2>3. QED
    BY <1>1, <2>2, MemoryFrame
<1>6. Prompt'
  BY <1>1, PromptFrame
<1>7. QED
  BY <1>4, <1>5, <1>6

-----------------------------------------------------------------------------
(* track_operator_output.                                                  *)

\* What is ahead after a step.
LEMMA NextAhead == Ahead' = late' + Len(out'[1])
BY DEF Ahead

\* The root's channel is one.
LEMMA RootChannel ==
  ASSUME Types
  PROVE  /\ 1 \in Ops /\ IsChannel(out[1]) /\ Len(out[1]) \in Nat /\ late \in Nat
         /\ Ahead \in Nat /\ ChannelCapacity \in Nat \ {0}
<1>1. 1 \in Ops /\ IsChannel(out[1]) /\ late \in Nat
  BY PlanHas DEF Types, OutType
<1>2. Len(out[1]) \in Nat
  BY <1>1, ChannelIs
<1>3. QED
  BY <1>1, <1>2, CapacityAssumption DEF Ahead

\* A tracker ends.
LEMMA TrackerDoneIs ==
  ASSUME Types, plan' = plan, NEW o \in Ops, TrackerDone(o)
  PROVE  /\ TrackerType' /\ RawType'
         /\ tracker'[o].at = "done"
         /\ \A q \in Ops \ {o} : tracker'[q] = tracker[q]
<1>1. /\ tracker' = [tracker EXCEPT ![o] = Tracker("done", Nothing)]
      /\ raw' = [raw EXCEPT ![o] = << >>]
  BY DEF TrackerDone
<1>2. IsTracker(Tracker("done", Nothing)) /\ Tracker("done", Nothing).at = "done"
  BY ItemIs, TrackerIs
<1>3. RawType'
  BY <1>1, EmptyChannel, SetRaw
<1>4. QED
  BY <1>1, <1>2, <1>3, SetTracker

\* The tracker takes an item, or the operator has ended.
LEMMA TrackerRecvKeeps ==
  ASSUME Invariant, NEW o \in Ops, TrackerRecv(o)
  PROVE  Invariant'
<1> USE DEF Invariant
<1>1. /\ plan' = plan /\ built' = built /\ scan' = scan /\ task' = task
      /\ out' = out /\ mem' = mem /\ reserved' = reserved
      /\ cancelled' = cancelled /\ late' = late
      /\ tracker[o].at = "reading"
      /\ \/ /\ raw[o] # << >>
            /\ tracker' = [tracker EXCEPT ![o] = Tracker("sending", Head(raw[o]))]
            /\ raw' = [raw EXCEPT ![o] = Tail(raw[o])]
         \/ TrackerDone(o)
  BY DEF TrackerRecv, memoryVars
<1>2. /\ TrackerType' /\ RawType'
      /\ tracker'[o].at \in {"sending", "done"}
      /\ \A q \in Ops \ {o} : tracker'[q] = tracker[q]
  <2>1. CASE /\ raw[o] # << >>
             /\ tracker' = [tracker EXCEPT ![o] = Tracker("sending", Head(raw[o]))]
             /\ raw' = [raw EXCEPT ![o] = Tail(raw[o])]
    <3>1. IsChannel(raw[o])
      BY DEF Types, RawType
    <3>2. IsItem(Head(raw[o])) /\ IsChannel(Tail(raw[o]))
      BY <2>1, <3>1, ChannelIs
    <3>3. /\ IsTracker(Tracker("sending", Head(raw[o])))
          /\ Tracker("sending", Head(raw[o])).at = "sending"
      BY <3>2, TrackerIs
    <3>4. RawType'
      BY <1>1, <2>1, <3>2, SetRaw
    <3>5. QED
      BY <1>1, <2>1, <3>3, <3>4, SetTracker
  <2>2. CASE TrackerDone(o)
    BY <1>1, <2>2, TrackerDoneIs
  <2>3. QED
    BY <1>1, <2>1, <2>2
<1>3. Types'
  BY <1>1, <1>2, Frame DEF Types
<1>4. Memory'
  BY <1>1, MemoryFrame DEF Memory
<1>5. Prompt'
  <2>1. CASE o # 1
    BY <1>1, <1>2, <2>1, PlanHas, PromptFrame
  <2>2. CASE o = 1
    <3>1. built[1] \notin {"new", "entered"} /\ (cancelled => Ahead <= ChannelCapacity)
      BY <1>1, <2>2 DEF Prompt
    <3>2. Ahead' = Ahead /\ tracker'[1].at \in {"sending", "done"}
      BY <1>1, <1>2, <2>2 DEF Ahead
    <3>3. QED
      BY <1>1, <3>1, <3>2, RootChannel DEF Prompt
  <2>3. QED
    BY <2>1, <2>2
<1>6. QED
  BY <1>3, <1>4, <1>5

\* The tracker finds the token cancelled.
LEMMA TrackerCancelKeeps ==
  ASSUME Invariant, NEW o \in Ops, TrackerCancel(o)
  PROVE  Invariant'
<1> USE DEF Invariant
<1>1. /\ plan' = plan /\ built' = built /\ scan' = scan /\ task' = task
      /\ raw' = raw /\ out' = out /\ mem' = mem /\ reserved' = reserved
      /\ cancelled' = cancelled /\ late' = late
      /\ tracker[o].at = "reading"
      /\ tracker' = [tracker EXCEPT ![o] = Tracker("cancelling", Err("cancelled"))]
  BY DEF TrackerCancel, memoryVars, channelVars
<1>2. /\ TrackerType'
      /\ tracker'[o].at = "cancelling" /\ ~tracker'[o].held.ok
      /\ \A q \in Ops \ {o} : tracker'[q] = tracker[q]
  <2>1. /\ IsTracker(Tracker("cancelling", Err("cancelled")))
        /\ Tracker("cancelling", Err("cancelled")).at = "cancelling"
        /\ ~Tracker("cancelling", Err("cancelled")).held.ok
    BY ItemIs, TrackerIs
  <2>2. QED
    BY <1>1, <2>1, SetTracker
<1>3. Types'
  BY <1>1, <1>2, Frame DEF Types
<1>4. Memory'
  BY <1>1, MemoryFrame DEF Memory
<1>5. Prompt'
  <2>1. CASE o # 1
    BY <1>1, <1>2, <2>1, PlanHas, PromptFrame
  <2>2. CASE o = 1
    <3>1. built[1] \notin {"new", "entered"} /\ (cancelled => Ahead <= ChannelCapacity)
      BY <1>1, <2>2 DEF Prompt
    <3>2. Ahead' = Ahead /\ tracker'[1].at = "cancelling" /\ ~tracker'[1].held.ok
      BY <1>1, <1>2, <2>2 DEF Ahead
    <3>3. QED
      BY <1>1, <3>1, <3>2, RootChannel DEF Prompt
  <2>3. QED
    BY <2>1, <2>2
<1>6. QED
  BY <1>3, <1>4, <1>5

\* The tracker passes an item on, and checks the token; or its reader is gone.
LEMMA TrackerSendKeeps ==
  ASSUME Invariant, NEW o \in Ops, TrackerSend(o)
  PROVE  Invariant'
<1> USE DEF Invariant
<1> DEFINE item == tracker[o].held
           Passed == /\ Len(out[o]) < ChannelCapacity
                     /\ out' = [out EXCEPT ![o] = Append(out[o], item)]
<1>1. /\ plan' = plan /\ built' = built /\ scan' = scan /\ task' = task
      /\ mem' = mem /\ reserved' = reserved /\ cancelled' = cancelled /\ late' = late
      /\ tracker[o].at \in {"sending", "cancelling"}
      /\ \/ Passed /\ tracker[o].at = "cancelling" /\ TrackerDone(o)
         \/ /\ Passed /\ tracker[o].at = "sending"
            /\ tracker' = [tracker EXCEPT ![o] = NextRound(o)] /\ raw' = raw
         \/ TrackerDone(o) /\ out' = out
  BY DEF TrackerSend, memoryVars
<1>2. IsItem(item) /\ IsChannel(out[o])
  BY DEF Types, TrackerType, IsTracker, OutType
<1>3. Passed => OutType' /\ out'[o] = Append(out[o], item) /\ \A q \in Ops \ {o} : out'[q] = out[q]
  <2>1. IsChannel(Append(out[o], item))
    BY <1>2, ChannelIs
  <2>2. QED
    BY <1>1, <2>1, SetOut
<1>4. OutType' /\ (o # 1 => out'[1] = out[1])
  BY <1>1, <1>3, Frame, PlanHas
<1>5. /\ TrackerType' /\ RawType'
      /\ \A q \in Ops \ {o} : tracker'[q] = tracker[q]
  BY <1>1, TrackerDoneIs, SetTracker, TrackerIs, Frame
<1>6. Types'
  BY <1>1, <1>4, <1>5, Frame DEF Types
<1>7. Memory'
  BY <1>1, MemoryFrame DEF Memory
<1>8. Prompt'
  <2>1. CASE o # 1
    BY <1>1, <1>4, <1>5, <2>1, PlanHas, PromptFrame
  <2>2. CASE o = 1
    <3>1. built[1] \notin {"new", "entered"}
      BY <1>1, <2>2 DEF Prompt
    <3>2. Passed => /\ Len(out'[1]) = Len(out[1]) + 1 /\ Len(out'[1]) <= ChannelCapacity
                    /\ Ahead' = Ahead + 1
                    /\ out'[1] # << >> /\ out'[1][Len(out'[1])] = tracker[1].held
      <4>1. SUFFICES ASSUME Passed
                     PROVE  /\ Len(out'[1]) = Len(out[1]) + 1
                            /\ Len(out'[1]) <= ChannelCapacity
                            /\ Ahead' = Ahead + 1
                            /\ out'[1] # << >> /\ out'[1][Len(out'[1])] = tracker[1].held
        OBVIOUS
      <4>2. out'[1] = Append(out[1], item) /\ Len(out[1]) < ChannelCapacity
        BY <1>3, <2>2, <4>1
      <4>3. /\ Len(out'[1]) = Len(out[1]) + 1 /\ out'[1] # << >>
            /\ out'[1][Len(out[1]) + 1] = item
        BY <1>2, <2>2, <4>2, ChannelIs
      <4> HIDE DEF Passed
      <4>4. QED
        BY <1>1, <2>2, <4>2, <4>3, RootChannel DEF Ahead
    <3>3. CASE Passed /\ tracker[o].at = "cancelling" /\ TrackerDone(o)
      <4>1. tracker'[1].at = "done"
        BY <1>1, <2>2, <3>3, TrackerDoneIs
      <4>2. ~tracker[1].held.ok /\ (cancelled => Ahead <= ChannelCapacity + 1)
        BY <2>2, <3>3 DEF Prompt
      <4>3. /\ Len(out'[1]) <= ChannelCapacity /\ Ahead' = Ahead + 1
            /\ out'[1] # << >> /\ ~out'[1][Len(out'[1])].ok
        BY <3>2, <3>3, <4>2
      <4>4. cancelled => Ahead' <= ChannelCapacity + 2
        BY <4>2, <4>3, RootChannel
      <4>5. QED
        BY <1>1, <3>1, <4>1, <4>3, <4>4 DEF Prompt
    <3>4. CASE /\ Passed /\ tracker[o].at = "sending"
               /\ tracker' = [tracker EXCEPT ![o] = NextRound(o)] /\ raw' = raw
      <4>1. tracker'[1] = NextRound(1)
        <5>1. IsTracker(NextRound(o))
          BY TrackerIs
        <5>2. QED
          BY <1>1, <2>2, <3>4, <5>1, SetTracker
      <4>2. /\ cancelled => tracker'[1].at = "cancelling" /\ ~tracker'[1].held.ok
            /\ ~cancelled => tracker'[1].at = "reading"
        BY <4>1, TrackerIs
      <4>3. cancelled => Ahead <= ChannelCapacity
        BY <2>2, <3>4 DEF Prompt
      <4>4. Len(out'[1]) <= ChannelCapacity /\ Ahead' = Ahead + 1
        BY <3>2, <3>4
      <4>5. cancelled => Ahead' <= ChannelCapacity + 1
        BY <4>3, <4>4, RootChannel
      <4>6. late' = 0 \/ cancelled'
        BY <1>1 DEF Prompt
      <4>7. QED
        BY <1>1, <3>1, <4>2, <4>4, <4>5, <4>6 DEF Prompt
    <3>5. CASE TrackerDone(o) /\ out' = out
      <4>1. tracker'[1].at = "done"
        BY <1>1, <2>2, <3>5, TrackerDoneIs
      <4>2. Ahead' = Ahead /\ (cancelled => Ahead <= ChannelCapacity + 1)
        BY <1>1, <2>2, <3>5, RootChannel DEF Prompt, Ahead
      <4>3. QED
        BY <1>1, <3>1, <3>5, <4>1, <4>2 DEF Prompt
    <3>6. QED
      BY <1>1, <3>3, <3>4, <3>5
  <2>3. QED
    BY <2>1, <2>2
<1>9. QED
  BY <1>6, <1>7, <1>8

-----------------------------------------------------------------------------
(* The client.                                                             *)

\* The client is gone, and its channel with it.
LEMMA FinishIs ==
  ASSUME Types, plan' = plan, out' = [out EXCEPT ![1] = << >>]
  PROVE  OutType' /\ out'[1] = << >> /\ Len(out'[1]) = 0
BY EmptyChannel, SetOut, PlanHas

\* Once the channel is empty nothing is ahead but what came late.
LEMMA PromptGone ==
  ASSUME Types, Prompt, tracker'[1] = tracker[1], built'[1] = built[1],
         built[1] \notin {"new", "entered"},
         late' \in Nat, Len(out'[1]) = 0, cancelled' \in BOOLEAN, cancelled => cancelled',
         ~cancelled => late' = 0,
         late' = late \/ (out[1] # << >> /\ out[1][1].ok /\ late' = late + 1)
  PROVE  Prompt'
<1>1. /\ Len(out[1]) \in Nat /\ late \in Nat /\ ChannelCapacity \in Nat \ {0}
      /\ out[1] # << >> => Len(out[1]) >= 1
  <2>1. IsChannel(out[1])
    BY RootChannel
  <2>2. QED
    BY <2>1, RootChannel, ChannelIs
<1>2. Ahead' = late'
  BY Counting, NextAhead, Zenon
<1>3. CASE cancelled
  <2>1. late' <= Ahead
    BY <1>1 DEF Ahead
  <2>2. Ahead \in Nat
    BY RootChannel
  <2>3. tracker[1].at = "done" => late' <= ChannelCapacity + 1
    <3>1. SUFFICES ASSUME tracker[1].at = "done", Ahead = ChannelCapacity + 2,
                          out[1] # << >>, ~out[1][Len(out[1])].ok
                   PROVE  late' <= ChannelCapacity + 1
      BY <1>1, <1>3, <2>1, <2>2 DEF Prompt
    <3>2. CASE late' = late
      BY <1>1, <3>1, <3>2 DEF Ahead
    <3>3. CASE out[1][1].ok /\ late' = late + 1
      <4>1. Len(out[1]) # 1
        BY <3>1, <3>3
      <4>2. QED
        BY <1>1, <3>1, <3>3, <4>1 DEF Ahead
    <3>4. QED
      BY <3>2, <3>3
  <2>4. QED
    BY <1>1, <1>2, <1>3, <2>1, <2>2, <2>3 DEF Prompt
<1>4. CASE ~cancelled
  <2>1. late' = 0
    BY <1>4
  <2>2. QED
    BY <1>1, <1>2, <1>4, <2>1 DEF Prompt
<1>5. QED
  BY <1>3, <1>4

\* The client collects a batch, or fails on an error or for lack of memory.
LEMMA ClientRecvKeeps ==
  ASSUME Invariant, ClientRecv
  PROVE  Invariant'
<1> USE DEF Invariant
<1> DEFINE item == Head(out[1])
           charge == IF plan.inTask THEN Len(item.rows) ELSE 0
<1>1. /\ plan' = plan /\ built' = built /\ scan' = scan /\ task' = task
      /\ tracker' = tracker /\ raw' = raw
      /\ built[1] \in {"running", "refused"} /\ out[1] # << >>
      /\ late' = IF cancelled /\ item.ok THEN late + 1 ELSE late
      /\ \/ /\ item.ok /\ Fits(charge) /\ Reserved(0, charge)
            /\ out' = [out EXCEPT ![1] = Tail(out[1])]
            /\ cancelled' = cancelled
         \/ /\ Released(0)
            /\ out' = [out EXCEPT ![1] = << >>]
            /\ cancelled' = (cancelled \/ plan.inTask)
  BY DEF ClientRecv, Collecting, Fail, Finish, taskVars
<1>2. /\ 1 \in Ops /\ IsChannel(out[1]) /\ Len(out[1]) \in Nat /\ late \in Nat
      /\ ChannelCapacity \in Nat \ {0}
  BY RootChannel
<1>3. /\ IsItem(item) /\ item = out[1][1] /\ Len(out[1]) >= 1
      /\ IsChannel(Tail(out[1])) /\ Len(Tail(out[1])) = Len(out[1]) - 1
      /\ Len(out[1]) > 1 => Tail(out[1]) # << >> /\ Tail(out[1])[Len(out[1]) - 1] = out[1][Len(out[1])]
  BY <1>1, <1>2, ChannelIs
<1>4. item.ok \in BOOLEAN /\ Len(item.rows) \in Nat
  BY <1>3, SeqHas DEF IsItem
<1>5. charge \in Nat
  BY <1>4
<1> HIDE DEF item, charge
<1>6. late' \in Nat /\ cancelled' \in BOOLEAN
  BY <1>1, <1>2, PlanHas DEF Types
<1>7. CASE /\ item.ok /\ Fits(charge) /\ Reserved(0, charge)
           /\ out' = [out EXCEPT ![1] = Tail(out[1])]
           /\ cancelled' = cancelled
  <2>1. OutType' /\ out'[1] = Tail(out[1])
    BY <1>1, <1>2, <1>3, <1>7, SetOut
  <2>2. Types'
    BY <1>1, <1>6, <2>1, Frame DEF Types
  <2>3. Memory'
    <3>1. 0 \in Ops \cup {0} /\ 0 \notin Ops
      BY PlanHas
    <3>2. QED
      BY <1>1, <1>5, <1>7, <3>1, ReservedKeeps
  <2>4. Prompt'
    <3>1. CASE cancelled
      <4>4. late' = late + 1 /\ Len(out'[1]) = Len(out[1]) - 1
        BY <1>1, <1>3, <1>7, <2>1, <3>1
      <4>1. late' = late + 1 /\ Ahead' = Ahead /\ Len(out'[1]) = Len(out[1]) - 1
        <5>1. Ahead' = (late + 1) + (Len(out[1]) - 1)
          BY <4>4, NextAhead, Zenon
        <5>2. (late + 1) + (Len(out[1]) - 1) = late + Len(out[1])
          BY <1>2, Counting, Zenon
        <5>3. QED
          BY <4>4, <5>1, <5>2, Zenon DEF Ahead
      <4>2. ASSUME ~out[1][Len(out[1])].ok
            PROVE  out'[1] # << >> /\ ~out'[1][Len(out'[1])].ok
        <5>1. Len(out[1]) > 1
          BY <1>2, <1>3, <1>7, <4>2
        <5>2. QED
          BY <1>3, <2>1, <4>1, <4>2, <5>1
      <4>3. QED
        BY <1>1, <1>2, <1>7, <3>1, <4>1, <4>2 DEF Prompt
    <3>2. CASE ~cancelled
      <4>1. late' = late /\ Len(out'[1]) = Len(out[1]) - 1
        BY <1>1, <1>3, <2>1, <3>2
      <4>2. QED
        BY <1>1, <1>2, <1>7, <3>2, <4>1 DEF Prompt
    <3>3. QED
      BY <3>1, <3>2
  <2>5. QED
    BY <2>2, <2>3, <2>4
<1>8. CASE /\ Released(0)
           /\ out' = [out EXCEPT ![1] = << >>]
           /\ cancelled' = (cancelled \/ plan.inTask)
  <2>1. OutType' /\ Len(out'[1]) = 0
    BY <1>1, <1>8, FinishIs
  <2>2. Types'
    BY <1>1, <1>6, <2>1, Frame DEF Types
  <2>3. Memory'
    BY <1>1, <1>8, ReleasedKeeps
  <2>4. Prompt'
    <3>1. ~cancelled => late' = 0
      BY <1>1 DEF Prompt
    <3>2. late' = late \/ (out[1] # << >> /\ out[1][1].ok /\ late' = late + 1)
      BY <1>1, <1>3
    <3>3. QED
      BY <1>1, <1>6, <1>8, <2>1, <3>1, <3>2, PromptGone
  <2>5. QED
    BY <2>2, <2>3, <2>4
<1>9. QED
  BY <1>1, <1>7, <1>8

\* The client's stream ends, well or not; or the client gives up.
LEMMA ClientLeavesKeeps ==
  ASSUME Invariant, ClientEnd \/ ClientGivesUp
  PROVE  Invariant'
<1> USE DEF Invariant
<1>1. /\ plan' = plan /\ built' = built /\ scan' = scan /\ task' = task
      /\ tracker' = tracker /\ raw' = raw /\ late' = late
      /\ built[1] \in {"running", "refused"}
      /\ out' = [out EXCEPT ![1] = << >>]
      /\ \/ Released(0) /\ cancelled' = (cancelled \/ plan.inTask)
         \/ mem' = mem /\ reserved' = reserved /\ cancelled' = cancelled
  BY DEF ClientEnd, ClientGivesUp, Collecting, Fail, Finish, taskVars, memoryVars
<1>2. OutType' /\ Len(out'[1]) = 0
  BY <1>1, FinishIs
<1>3. late' \in Nat /\ cancelled' \in BOOLEAN
  BY <1>1, PlanHas DEF Types
<1>4. Types'
  BY <1>1, <1>2, <1>3, Frame DEF Types
<1>5. Memory'
  <2>1. CASE Released(0)
    BY <1>1, <2>1, ReleasedKeeps
  <2>2. CASE mem' = mem /\ reserved' = reserved
    BY <1>1, <2>2, MemoryFrame DEF Memory
  <2>3. QED
    BY <1>1, <2>1, <2>2
<1>6. Prompt'
  <2>1. ~cancelled => late' = 0
    BY <1>1 DEF Prompt
  <2>2. cancelled => cancelled'
    BY <1>1
  <2>3. QED
    BY <1>1, <1>2, <1>3, <2>1, <2>2, PromptGone
<1>7. QED
  BY <1>4, <1>5, <1>6

\* The token is cancelled: what is ahead is what the channel holds.
LEMMA CancelKeeps ==
  ASSUME Invariant, Cancel
  PROVE  Invariant'
<1> USE DEF Invariant
<1>1. /\ plan' = plan /\ built' = built /\ scan' = scan /\ task' = task
      /\ tracker' = tracker /\ raw' = raw /\ out' = out /\ late' = late
      /\ mem' = mem /\ reserved' = reserved /\ ~cancelled /\ cancelled' = TRUE
  BY DEF Cancel, taskVars, channelVars, memoryVars
<1>2. Types'
  BY <1>1, Frame DEF Types
<1>3. Memory'
  BY <1>1, MemoryFrame DEF Memory
<1>4. Prompt'
  <2>1. late = 0 /\ Len(out[1]) <= ChannelCapacity
    BY <1>1 DEF Prompt
  <2>2. Ahead' <= ChannelCapacity
    BY <1>1, <2>1, RootChannel DEF Ahead
  <2>3. Ahead' <= ChannelCapacity + 1
    BY <2>2, <1>1, RootChannel DEF Ahead
  <2>4. QED
    BY <1>1, <2>1, <2>2, <2>3 DEF Prompt
<1>5. QED
  BY <1>2, <1>3, <1>4

-----------------------------------------------------------------------------
(* The theorems.                                                           *)

\* The invariant holds before anything is built.
LEMMA InvariantInit ==
  ASSUME Init
  PROVE  Invariant
<1>1. /\ plan \in Plans /\ late = 0 /\ cancelled \in BOOLEAN /\ reserved = 0
      /\ built = [o \in Ops |-> "new"]
      /\ scan = [o \in Ops |-> [p \in DOMAIN Parts(o) |-> ScanTask("off", << >>)]]
      /\ task = [o \in Ops |-> [Task("off", Nothing) EXCEPT !.left = plan.ops[o].limit]]
      /\ tracker = [o \in Ops |-> Tracker("off", Nothing)]
      /\ raw = [o \in Ops |-> << >>] /\ out = raw
      /\ mem = [o \in Ops \cup {0} |-> 0]
  BY DEF Init
<1>2. ScanType
  <2>1. IsScanTask(ScanTask("off", << >>))
    BY EmptyChannel DEF IsScanTask, ScanTask
  <2>2. QED
    BY <1>1, <2>1 DEF ScanType
<1>3. TaskType
  <2>1. ASSUME NEW o \in Ops
        PROVE  IsTask(task[o]) /\ task[o].at = "off"
    <3>1. plan.ops[o].limit \in Nat
      BY <1>1, PlanAssumption DEF Ops
    <3>2. task[o] = [at |-> "off", held |-> Nothing, got |-> << << >>, << >> >>,
                     left |-> plan.ops[o].limit]
      BY <1>1 DEF Task
    <3>3. IsSeq(<< >>)
      BY ShortSeq
    <3>4. QED
      BY <3>1, <3>2, <3>3, ItemIs, TaskMade DEF TaskPlaces
  <2>2. task = [o \in Ops |-> task[o]]
    BY <1>1
  <2>3. QED
    BY <2>1, <2>2 DEF TaskType
<1>4. TrackerType
  <2>1. IsTracker(Tracker("off", Nothing))
    BY ItemIs, TrackerIs
  <2>2. QED
    BY <1>1, <2>1 DEF TrackerType
<1>5. RawType /\ OutType
  BY <1>1, EmptyChannel DEF RawType, OutType
<1>6. Types
  BY <1>1, <1>2, <1>3, <1>4, <1>5 DEF Types, BuiltType
<1>7. Memory
  <2>1. SumOf(mem, Ops \cup {0}) = 0
    BY <1>1, <1>6, SumOfZero, PlanHas
  <2>2. mem \in [Ops \cup {0} -> Nat] /\ \A o \in Ops : mem[o] = 0
    BY <1>1
  <2>3. QED
    BY <1>1, <2>1, <2>2, CapacityAssumption DEF Memory
<1>8. Prompt
  <2>1. 1 \in Ops /\ out[1] = << >> /\ Len(out[1]) = 0 /\ tracker[1].at = "off"
    BY <1>1, <1>6, PlanHas, EmptyChannel DEF Tracker
  <2>2. Ahead = 0
    BY <1>1, <2>1 DEF Ahead
  <2>3. QED
    BY <1>1, <2>1, <2>2, CapacityAssumption DEF Prompt
<1>9. QED
  BY <1>6, <1>7, <1>8 DEF Invariant

\* Every step of every task keeps it.
LEMMA InvariantStep ==
  ASSUME Invariant, [Next]_vars
  PROVE  Invariant'
<1>1. CASE BuildStep
  BY <1>1, EnterKeeps, SpawnPartitionKeeps, SpawnKeeps DEF BuildStep
<1>2. ASSUME NEW o \in Ops, TaskStep(o)  PROVE Invariant'
  BY <1>2, StreamRecvKeeps, StreamSendKeeps, StreamEndKeeps, CollectRecvKeeps,
     CollectEndKeeps, ComputeKeeps, CollectSendKeeps DEF TaskStep
<1>3. ASSUME NEW o \in Ops, TrackerStep(o)  PROVE Invariant'
  BY <1>3, TrackerRecvKeeps, TrackerCancelKeeps, TrackerSendKeeps DEF TrackerStep
<1>4. ASSUME NEW o \in Ops, NEW p \in DOMAIN Parts(o), ScanStep(o, p)  PROVE Invariant'
  BY <1>4, ScanReadKeeps, ScanSendKeeps DEF ScanStep
<1>5. CASE ClientStep \/ ClientGivesUp
  BY <1>5, ClientRecvKeeps, ClientLeavesKeeps DEF ClientStep
<1>6. CASE Cancel
  BY <1>6, CancelKeeps
<1>7. CASE UNCHANGED vars
  <2>1. /\ plan' = plan /\ built' = built /\ scan' = scan /\ task' = task
        /\ tracker' = tracker /\ raw' = raw /\ out' = out /\ late' = late
        /\ mem' = mem /\ reserved' = reserved /\ cancelled' = cancelled
    BY <1>7 DEF vars, taskVars, channelVars, memoryVars
  <2>2. Types' /\ Memory' /\ Prompt'
    BY <2>1, Frame, MemoryFrame, PromptFrame DEF Invariant, Types, Memory
  <2>3. QED
    BY <2>2 DEF Invariant
<1>8. QED
  BY <1>1, <1>2, <1>3, <1>4, <1>5, <1>6, <1>7 DEF Next, Terminated

\* The invariant of every run of the executor.
THEOREM PipelineInvariant == Spec => []Invariant
BY InvariantInit, InvariantStep, PTL DEF Spec

\* The reservations never exceed the limit, and when the last task has ended all of
\* them were returned but for the output a worker's task still holds
\* (collect_with_memory, MemoryReservation's Drop): for every plan and limit.
THEOREM MemoryComesBack == Spec => []MemoryReturned
<1>1. ASSUME Invariant  PROVE MemoryReturned
  <2>1. /\ mem \in [Ops \cup {0} -> Nat] /\ reserved = SumOf(mem, Ops \cup {0})
        /\ reserved <= MemoryLimit
        /\ \A o \in Ops : mem[o] # 0 => task[o].at \in {"reading", "computing"}
    BY <1>1 DEF Invariant, Memory
  <2>2. IsFiniteSet(Ops) /\ IsFiniteSet(Ops \cup {0}) /\ 0 \notin Ops
    BY <1>1, PlanHas DEF Invariant
  <2>3. ASSUME Ended  PROVE reserved = mem[0]
    <3>1. \A o \in Ops : mem[o] = 0
      BY <2>1, <2>3 DEF Ended
    <3>2. SumOf(mem, Ops) = SumOf([o \in Ops |-> 0], Ops)
      <4> DEFINE z == [o \in Ops |-> 0]
      <4>1. z \in [Ops -> Int] /\ \A o \in Ops : mem[o] = z[o]
        BY <3>1
      <4> HIDE DEF z
      <4>2. SumOf(mem, Ops) = SumOf(z, Ops)
        BY <2>2, <4>1, SumOfSame
      <4>3. QED
        BY <4>2 DEF z
    <3>3. SumOf(mem, Ops) = 0
      BY <2>2, <3>2, SumOfZero
    <3>4. mem \in [Ops \cup {0} -> Int] /\ mem[0] \in Nat
      BY <2>1
    <3>5. SumOf(mem, Ops \cup {0}) = mem[0] + SumOf(mem, Ops)
      BY <2>2, <3>4, SumOfAdd
    <3>6. QED
      BY <2>1, <3>3, <3>4, <3>5
  <2>4. QED
    BY <2>1, <2>3 DEF MemoryReturned
<1>2. QED
  BY <1>1, PipelineInvariant, PTL

\* After a cancellation the client gets no more batches than its channel and the
\* root's tracker held (the token check at the head of track_operator_output's
\* loop): for every plan and capacity.
THEOREM CancellationIsPrompt == Spec => []PromptCancellation
<1>1. ASSUME Invariant  PROVE PromptCancellation
  <2>1. /\ Types /\ Prompt
        /\ tracker[1].at \in {"off", "reading", "sending", "cancelling", "done"}
    BY <1>1, PlanHas DEF Invariant, Types, TrackerType, IsTracker
  <2>2. /\ 1 \in Ops /\ IsChannel(out[1]) /\ Len(out[1]) \in Nat /\ late \in Nat
        /\ ChannelCapacity \in Nat \ {0} /\ cancelled \in BOOLEAN
        /\ out[1] # << >> => Len(out[1]) >= 1
    BY <2>1, RootChannel, ChannelIs DEF Types
  <2>3. late <= ChannelCapacity + 1
    BY <2>1, <2>2 DEF Prompt, Ahead
  <2>4. QED
    BY <2>3 DEF PromptCancellation
<1>2. QED
  BY <1>1, PipelineInvariant, PTL
=============================================================================
