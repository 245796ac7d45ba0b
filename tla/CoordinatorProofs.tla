-------------------------- MODULE CoordinatorProofs --------------------------
(***************************************************************************)
(* Theorems about the coordinator for every set of workers, queries,       *)
(* stages and plans and every configuration.                               *)
(*                                                                         *)
(* Every handler first applies advance_time and then changes at most one   *)
(* worker and one partition.  The invariants are therefore stated over     *)
(* explicit arguments (W, P, S, C: workers, partitions, stages, cancelled  *)
(* queries), so that a lemma about advance_time composes with a lemma      *)
(* about the change that follows it.                                       *)
(***************************************************************************)
EXTENDS Coordinator, TLAPS, FiniteSetTheorems

TypeWP(W, P) ==
  /\ W \in [WorkerId -> WorkerRuntime]
  /\ P \in [PartitionKey -> PartitionRuntime]

-----------------------------------------------------------------------------
(* Types.                                                                  *)

\* Each partition value the coordinator writes is a PartitionRuntime.
LEMMA PartitionValues ==
  /\ Absent \in PartitionRuntime
  /\ Cancelled \in PartitionRuntime
  /\ \A a \in Nat : Pending(a) \in PartitionRuntime
  /\ \A a \in Nat, b \in BOOLEAN : Failed(a, b) \in PartitionRuntime
  /\ \A a \in Nat, b \in Seq(Nat) : Succeeded(a, b) \in PartitionRuntime
  /\ \A a \in Nat, w \in WorkerId, t \in Time :
       t + LeaseDuration <= TimeMax => Active(a, w, t) \in PartitionRuntime
  /\ \A p \in PartitionRuntime : Cancelling(p) \in PartitionRuntime
<1>0. << >> \in Seq(Nat) /\ TimeMax \in Nat /\ LeaseDuration \in Nat
  BY ConfigAssumption
<1>1. \A a \in Nat : Pending(a) \in PartitionRuntime
  BY <1>0 DEF Pending, Unleased, PartitionRuntime, Time
<1>2. \A a \in Nat, b \in BOOLEAN : Failed(a, b) \in PartitionRuntime
  BY <1>0 DEF Failed, Unleased, PartitionRuntime, Time
<1>3. \A a \in Nat, b \in Seq(Nat) : Succeeded(a, b) \in PartitionRuntime
  BY <1>0 DEF Succeeded, Unleased, PartitionRuntime, Time
<1>4. Absent \in PartitionRuntime /\ Cancelled \in PartitionRuntime
  BY <1>0 DEF Absent, Cancelled, Unleased, PartitionRuntime, Time
<1>5. ASSUME NEW a \in Nat, NEW w \in WorkerId, NEW t \in Time,
             t + LeaseDuration <= TimeMax
      PROVE  Active(a, w, t) \in PartitionRuntime
  BY <1>0, <1>5 DEF Active, PartitionRuntime, Time
<1>6. \A p \in PartitionRuntime : Cancelling(p) \in PartitionRuntime
  BY <1>0 DEF Cancelling, PartitionRuntime, Time
<1> QED BY <1>1, <1>2, <1>3, <1>4, <1>5, <1>6

\* A lease given up leaves a well-formed partition.
LEMMA RetiredType ==
  ASSUME NEW p \in PartitionRuntime
  PROVE  Retired(p) \in PartitionRuntime /\ RetryOrFail(p.attempt) \in PartitionRuntime
<1>1. p.attempt \in Nat /\ p.attempt + 1 \in Nat
  BY DEF PartitionRuntime
<1> QED BY <1>1, PartitionValues DEF Retired, RetryOrFail

\* A heartbeat reports a number of slots.
LEMMA FreeCountsNat == FreeCounts \subseteq Nat
BY InputAssumption DEF FreeCounts

\* Freeing slots keeps a worker record well-formed.
LEMMA ReleasedType ==
  ASSUME NEW r \in WorkerRuntime, NEW n \in Nat
  PROVE  Released(r, n) \in WorkerRuntime
BY DEF Released, Minimum, WorkerRuntime

\* The leases of a worker are finitely many, and so are those that expire.
LEMMA LeasesFinite ==
  ASSUME NEW W, NEW P, NEW w, NEW t
  PROVE  /\ IsFiniteSet(LeasesOf(P, w))
         /\ Cardinality(LeasesOf(P, w)) \in Nat
         /\ IsFiniteSet(ExpiredOf(W, P, t, w))
         /\ Cardinality(ExpiredOf(W, P, t, w)) \in Nat
<1>1. IsFiniteSet(PartitionKey)
  BY IdAssumption
<1>2. LeasesOf(P, w) \in SUBSET PartitionKey
  BY DEF LeasesOf
<1>3. ExpiredOf(W, P, t, w) \in SUBSET PartitionKey
  BY DEF ExpiredOf, Expired
<1> QED BY <1>1, <1>2, <1>3, FS_Subset, FS_CardinalityType

\* advance_time keeps workers and partitions well-formed.
LEMMA AdvanceType ==
  ASSUME NEW W, NEW P, TypeWP(W, P), NEW t \in Time
  PROVE  TypeWP(AdvancedWorkers(W, P, t), AdvancedParts(W, P, t))
<1>1. ASSUME NEW w \in WorkerId
      PROVE  AdvancedWorkers(W, P, t)[w] \in WorkerRuntime
  <2>1. W[w] \in WorkerRuntime
    BY DEF TypeWP
  <2>2. [W[w] EXCEPT !.status = "dead", !.available = 0] \in WorkerRuntime
    BY <2>1 DEF WorkerRuntime
  <2> DEFINE n == Cardinality(ExpiredOf(W, P, t, w))
  <2>3. Released(W[w], n) \in WorkerRuntime
    <3>1. n \in Nat
      BY LeasesFinite
    <3> QED BY <2>1, <3>1, ReleasedType
  <2>4. AdvancedWorkers(W, P, t)[w] =
          IF w \in TimedOut(W, t)
          THEN [W[w] EXCEPT !.status = "dead", !.available = 0]
          ELSE Released(W[w], n)
    BY DEF AdvancedWorkers
  <2> QED BY <2>2, <2>3, <2>4, Zenon
<1>2. ASSUME NEW k \in PartitionKey
      PROVE  AdvancedParts(W, P, t)[k] \in PartitionRuntime
  BY RetiredType DEF AdvancedParts, TypeWP
<1> QED BY <1>1, <1>2 DEF TypeWP, AdvancedWorkers, AdvancedParts

\* A task update leaves a well-formed partition.
LEMMA UpdatedType ==
  ASSUME NEW p \in PartitionRuntime, NEW s \in TaskState, Leased(p)
  PROVE  UpdatedPartition(p, s) \in PartitionRuntime
<1>1. p.attempt \in Nat /\ s.blocks \in Seq(Nat) /\ s.at \in Time
      /\ s.retryable \in BOOLEAN
      /\ s.kind \in {"running", "succeeded", "failed", "cancelled"}
  <2>1. p.attempt \in Nat
    BY DEF PartitionRuntime
  <2>2. << >> \in Seq(Nat) /\ Outputs \subseteq Seq(Nat)
    BY InputAssumption
  <2> QED BY <2>1, <2>2 DEF TaskState
<1>2. [p EXCEPT !.started = s.at] \in PartitionRuntime
  BY <1>1 DEF PartitionRuntime
<1>3. p.state \in {"active", "cancelling"}
  BY DEF Leased
<1>4. RetryOrFail(p.attempt) \in PartitionRuntime
  BY RetiredType
<1>5. CASE s.kind = "running"
  BY <1>2, <1>5 DEF UpdatedPartition
<1>6. CASE s.kind # "running" /\ p.state = "cancelling"
  BY <1>6, PartitionValues DEF UpdatedPartition
<1>7. CASE s.kind # "running" /\ p.state = "active"
  <2>1. UpdatedPartition(p, s) \in
          {Succeeded(p.attempt, s.blocks), RetryOrFail(p.attempt),
           Failed(p.attempt, FALSE), Cancelled}
    BY <1>1, <1>7 DEF UpdatedPartition
  <2> QED BY <1>1, <1>4, <2>1, PartitionValues
<1> QED BY <1>3, <1>5, <1>6, <1>7

\* The initial state is well-formed.
LEMMA TypeInit == Init => TypeOK
<1> SUFFICES ASSUME Init PROVE TypeOK
  OBVIOUS
<1>1. 0 \in Time
  BY ConfigAssumption DEF Time
<1>2. workers \in [WorkerId -> WorkerRuntime]
  BY <1>1 DEF Init, WorkerRuntime
<1>3. parts \in [PartitionKey -> PartitionRuntime]
  BY PartitionValues DEF Init
<1> QED BY <1>2, <1>3 DEF Init, TypeOK

\* Assigning a partition keeps the state well-formed.
LEMMA AssignType ==
  ASSUME NEW W, NEW P, TypeWP(W, P), NEW w \in WorkerId, NEW t \in Time,
         HasFreeSlot(W, w), Assign(W, P, w, t)
  PROVE  TypeWP(workers', parts')
<1>1. PICK k \in PartitionKey :
        /\ t + LeaseDuration <= TimeMax
        /\ parts' = [P EXCEPT ![k] = Active(P[k].attempt, w, t)]
        /\ workers' = [W EXCEPT ![w].available = W[w].available - 1]
  BY DEF Assign
<1>2. P[k].attempt \in Nat
  BY DEF TypeWP, PartitionRuntime
<1>3. Active(P[k].attempt, w, t) \in PartitionRuntime
  BY <1>1, <1>2, PartitionValues
<1>4. W[w] \in WorkerRuntime /\ W[w].available - 1 \in Nat
  BY DEF TypeWP, WorkerRuntime, HasFreeSlot
<1>5. [W[w] EXCEPT !.available = W[w].available - 1] \in WorkerRuntime
  BY <1>4 DEF WorkerRuntime
<1> QED BY <1>1, <1>3, <1>5 DEF TypeWP

\* Every call keeps the state well-formed.
LEMMA TypeStep == TypeOK /\ [Next]_vars => TypeOK'
<1> SUFFICES ASSUME TypeOK, [Next]_vars PROVE TypeOK'
  OBVIOUS
<1> DEFINE AW(t) == AdvancedWorkers(workers, parts, t)
           AP(t) == AdvancedParts(workers, parts, t)
<1>0. ASSUME NEW t \in Time PROVE TypeWP(AW(t), AP(t))
  BY AdvanceType DEF TypeOK, TypeWP
<1>1. ASSUME NEW plan \in StagePlans, SubmitStage(plan) PROVE TypeOK'
  <2>1. <<plan.query, plan.stage>> \in StageKey
    BY PlanAssumption DEF StagePlan, StageKey
  <2>2. stages' \in [StageKey -> StagePlans \cup {NoStage}]
    BY <1>1, <2>1 DEF SubmitStage, TypeOK
  <2>3. parts' \in [PartitionKey -> PartitionRuntime]
    BY <1>1, PartitionValues DEF SubmitStage, TypeOK
  <2> QED BY <1>1, <2>2, <2>3 DEF SubmitStage, TypeOK
<1>2. ASSUME NEW q \in QueryId, CancelQuery(q) PROVE TypeOK'
  <2>1. \A p \in PartitionRuntime : CancelledPartition(p) \in PartitionRuntime
    BY PartitionValues DEF CancelledPartition
  <2>2. parts' \in [PartitionKey -> PartitionRuntime]
    BY <1>2, <2>1 DEF CancelQuery, TypeOK
  <2> QED BY <1>2, <2>2 DEF CancelQuery, TypeOK
<1>3. ASSUME NEW t \in Time, AdvanceTime(t) PROVE TypeOK'
  BY <1>0, <1>3 DEF AdvanceTime, TypeOK, TypeWP
<1>4. ASSUME NEW t \in Time, NextAssignment(t) PROVE TypeOK'
  <2>1. PICK w \in WorkerId :
          HasFreeSlot(AW(t), w) /\ Assign(AW(t), AP(t), w, t)
    BY <1>4 DEF NextAssignment
  <2>2. TypeWP(workers', parts')
    BY <1>0, <2>1, AssignType
  <2> QED BY <1>4, <2>2 DEF NextAssignment, TypeOK, TypeWP
<1>5. ASSUME NEW t \in Time, NEW w \in WorkerId, NextAssignmentFor(w, t)
      PROVE  TypeOK'
  <2>1. TypeWP(workers', parts')
    BY <1>0, <1>5, AssignType DEF NextAssignmentFor
  <2> QED BY <1>5, <2>1 DEF NextAssignmentFor, TypeOK, TypeWP
<1>6. ASSUME NEW t \in Time, NEW w \in WorkerId, NEW slots \in SlotCounts,
             RegisterWorker(w, slots, t)
      PROVE  TypeOK'
  <2>1. [status |-> "alive", slots |-> slots, available |-> slots,
         observed |-> 0, received |-> t] \in WorkerRuntime
    BY InputAssumption, ConfigAssumption DEF WorkerRuntime, Time
  <2> QED BY <1>0, <1>6, <2>1 DEF RegisterWorker, TypeOK, TypeWP
<1>7. ASSUME NEW t \in Time, NEW w \in WorkerId, NEW observed \in Time,
             NEW available \in FreeCounts,
             RecordHeartbeat(w, observed, available, t)
      PROVE  TypeOK'
  <2>1. AW(t)[w].slots \in Nat
    BY <1>0 DEF TypeWP, WorkerRuntime
  <2>2. [status |-> "alive", slots |-> AW(t)[w].slots, available |-> available,
         observed |-> observed, received |-> t] \in WorkerRuntime
    BY <2>1, FreeCountsNat DEF WorkerRuntime
  <2> QED BY <1>0, <1>7, <2>2 DEF RecordHeartbeat, TypeOK, TypeWP
<1>8. ASSUME NEW t \in Time, NEW w \in WorkerId, NEW k \in PartitionKey,
             NEW attempt \in 0 .. MaxTaskAttempts - 1, NEW s \in TaskState,
             RecordTaskUpdate(w, k, attempt, s, t)
      PROVE  TypeOK'
  <2>1. Leased(AP(t)[k])
    BY <1>8 DEF RecordTaskUpdate, AcceptsUpdate
  <2>2. UpdatedPartition(AP(t)[k], s) \in PartitionRuntime
    BY <1>0, <2>1, UpdatedType DEF TypeWP
  <2>3. Released(AW(t)[w], 1) \in WorkerRuntime
    BY <1>0, ReleasedType DEF TypeWP
  <2> QED BY <1>0, <1>8, <2>2, <2>3 DEF RecordTaskUpdate, TypeOK, TypeWP
<1>9. CASE UNCHANGED vars
  BY <1>9 DEF vars, TypeOK
<1> QED BY <1>1, <1>2, <1>3, <1>4, <1>5, <1>6, <1>7, <1>8, <1>9 DEF Next

\* The coordinator's state always has the shape of its Rust types, whatever
\* sequence of calls is made (new, submit_stage, handle_worker_message,
\* next_assignment, cancel_query, advance_time).
THEOREM TypeCorrect == Spec => []TypeOK
BY TypeInit, TypeStep, PTL DEF Spec

-----------------------------------------------------------------------------
(* Slot accounting.                                                        *)

Slots(W, P) ==
  \A w \in WorkerId :
    /\ Cardinality(LeasesOf(P, w)) + W[w].available <= W[w].slots
    /\ W[w].status # "alive" => LeasesOf(P, w) = {} /\ W[w].available = 0

\* Fewer leases never overbook a worker whose record did not change.
LEMMA FewerLeases ==
  ASSUME NEW W, NEW P, NEW Q, TypeWP(W, P), Slots(W, P), NEW w \in WorkerId,
         LeasesOf(Q, w) \subseteq LeasesOf(P, w)
  PROVE  /\ Cardinality(LeasesOf(Q, w)) <= Cardinality(LeasesOf(P, w))
         /\ Cardinality(LeasesOf(Q, w)) + W[w].available <= W[w].slots
         /\ W[w].status # "alive" => LeasesOf(Q, w) = {} /\ W[w].available = 0
<1> DEFINE L == LeasesOf(P, w)
           M == LeasesOf(Q, w)
<1>1. IsFiniteSet(L) /\ Cardinality(L) \in Nat /\ Cardinality(M) \in Nat
  BY LeasesFinite
<1>2. Cardinality(M) <= Cardinality(L)
  BY <1>1, FS_Subset
<1>3. W[w].available \in Nat /\ W[w].slots \in Nat
  BY DEF TypeWP, WorkerRuntime
<1>4. Cardinality(L) + W[w].available <= W[w].slots
  BY DEF Slots
<1>5. W[w].status # "alive" => L = {} /\ W[w].available = 0
  BY DEF Slots
<1>6. Cardinality(M) + W[w].available <= W[w].slots
  <2> HIDE DEF L, M
  <2> QED BY <1>1, <1>2, <1>3, <1>4
<1> QED BY <1>2, <1>5, <1>6

\* What is left of a worker's leases after expiry.
LEMMA AdvancedLeases ==
  ASSUME NEW W, NEW P, TypeWP(W, P), NEW t \in Time, NEW w \in WorkerId
  PROVE  LET E == ExpiredOf(W, P, t, w)
         IN  /\ LeasesOf(AdvancedParts(W, P, t), w) = LeasesOf(P, w) \ E
             /\ E \subseteq LeasesOf(P, w)
             /\ w \in TimedOut(W, t) => E = LeasesOf(P, w)
<1> DEFINE E == ExpiredOf(W, P, t, w)
           Q == AdvancedParts(W, P, t)
<1>1. ASSUME NEW p PROVE ~ Leased(Retired(p))
  BY DEF Leased, Retired, RetryOrFail, Pending, Failed, Cancelled, Unleased
<1>2. ASSUME NEW k \in PartitionKey
      PROVE  Q[k] = IF k \in Expired(W, P, t) THEN Retired(P[k]) ELSE P[k]
  BY DEF AdvancedParts
<1>3. ASSUME NEW k \in PartitionKey
      PROVE  k \in LeasesOf(Q, w) <=> k \in LeasesOf(P, w) /\ k \notin E
  <2>1. CASE k \in Expired(W, P, t)
    <3>1. ~ Leased(Q[k])
      BY <1>1, <1>2, <2>1
    <3>2. k \in LeasesOf(P, w) => k \in E
      BY <2>1 DEF LeasesOf, ExpiredOf
    <3> QED BY <3>1, <3>2 DEF LeasesOf
  <2>2. CASE k \notin Expired(W, P, t)
    BY <1>2, <2>2 DEF LeasesOf, ExpiredOf
  <2> QED BY <2>1, <2>2
<1>4. LeasesOf(Q, w) = LeasesOf(P, w) \ E
  BY <1>3 DEF LeasesOf
<1>5. E \subseteq LeasesOf(P, w)
  BY DEF ExpiredOf, Expired, LeasesOf
<1>6. w \in TimedOut(W, t) => E = LeasesOf(P, w)
  BY <1>5 DEF ExpiredOf, Expired, LeasesOf
<1> QED BY <1>4, <1>5, <1>6

\* advance_time keeps the accounts: what it frees is what it expires.
LEMMA AdvanceSlots ==
  ASSUME NEW W, NEW P, TypeWP(W, P), Slots(W, P), NEW t \in Time
  PROVE  Slots(AdvancedWorkers(W, P, t), AdvancedParts(W, P, t))
<1> SUFFICES ASSUME NEW w \in WorkerId
             PROVE  LET r == AdvancedWorkers(W, P, t)[w]
                        M == LeasesOf(AdvancedParts(W, P, t), w)
                    IN  /\ Cardinality(M) + r.available <= r.slots
                        /\ r.status # "alive" => M = {} /\ r.available = 0
  BY DEF Slots
<1> DEFINE E == ExpiredOf(W, P, t, w)
           L == LeasesOf(P, w)
           M == LeasesOf(AdvancedParts(W, P, t), w)
           n == Cardinality(E)
           r == AdvancedWorkers(W, P, t)[w]
<1>1. M = L \ E /\ E \subseteq L /\ (w \in TimedOut(W, t) => E = L)
  BY AdvancedLeases
<1>2. IsFiniteSet(L) /\ Cardinality(L) \in Nat /\ n \in Nat
      /\ Cardinality(M) \in Nat
  <2>1. n \in Nat
    BY LeasesFinite
  <2>2. IsFiniteSet(L) /\ Cardinality(L) \in Nat
    BY LeasesFinite
  <2>3. Cardinality(M) \in Nat
    BY LeasesFinite
  <2> QED BY <2>1, <2>2, <2>3
<1>3. Cardinality(M) = Cardinality(L) - n
  <2>1. L \cap E = E
    BY <1>1
  <2>2. Cardinality(L \ E) = Cardinality(L) - Cardinality(L \cap E)
    BY <1>2, FS_Difference
  <2> QED BY <1>1, <2>1, <2>2
<1>4. /\ Cardinality(L) + W[w].available <= W[w].slots
      /\ W[w].status # "alive" => L = {} /\ W[w].available = 0
  BY DEF Slots
<1>5. W[w] \in WorkerRuntime
  BY DEF TypeWP
<1>6. r = IF w \in TimedOut(W, t)
          THEN [W[w] EXCEPT !.status = "dead", !.available = 0]
          ELSE Released(W[w], n)
  BY DEF AdvancedWorkers
<1>7. CASE w \in TimedOut(W, t)
  <2>1. M = {} /\ Cardinality(M) = 0
    BY <1>1, <1>7, FS_EmptySet
  <2>2. r.available = 0 /\ r.slots = W[w].slots /\ r.slots \in Nat
    BY <1>5, <1>6, <1>7 DEF WorkerRuntime
  <2> QED BY <2>1, <2>2
<1>8. CASE w \notin TimedOut(W, t)
  <2>1. r = Released(W[w], n)
    BY <1>6, <1>8
  <2>2. /\ r.status = W[w].status /\ r.slots = W[w].slots
        /\ r.available <= W[w].available + n /\ r.available \in Nat
        /\ r.status # "alive" => r.available = W[w].available
    BY <1>2, <1>5, <2>1 DEF Released, Minimum, WorkerRuntime
  <2>3. W[w].available \in Nat /\ W[w].slots \in Nat
    BY <1>5 DEF WorkerRuntime
  <2>4. Cardinality(M) + r.available <= r.slots
    <3> HIDE DEF L, M, n, r
    <3> QED BY <1>2, <1>3, <1>4, <2>2, <2>3
  <2>5. r.status # "alive" => M = {} /\ r.available = 0
    BY <1>1, <1>4, <2>2
  <2> QED BY <2>4, <2>5
<1> QED BY <1>7, <1>8

\* Leasing a partition that was not leased costs its worker one lease.
LEMMA AssignSlots ==
  ASSUME NEW W, NEW P, TypeWP(W, P), Slots(W, P), NEW w \in WorkerId,
         NEW t \in Time, HasFreeSlot(W, w), Assign(W, P, w, t)
  PROVE  Slots(workers', parts')
<1>1. PICK k \in PartitionKey :
        /\ P[k].state = "pending"
        /\ parts' = [P EXCEPT ![k] = Active(P[k].attempt, w, t)]
        /\ workers' = [W EXCEPT ![w].available = W[w].available - 1]
  BY DEF Assign, NextPending, Assignable
<1>2. P \in [PartitionKey -> PartitionRuntime] /\ W \in [WorkerId -> WorkerRuntime]
  BY DEF TypeWP
<1>3. ASSUME NEW v \in WorkerId
      PROVE  LeasesOf(parts', v) =
               IF v = w THEN LeasesOf(P, w) \cup {k} ELSE LeasesOf(P, v)
  <2>1. Leased(Active(P[k].attempt, w, t)) /\ Active(P[k].attempt, w, t).worker = w
    BY DEF Leased, Active
  <2>2. ~ Leased(P[k])
    BY <1>1 DEF Leased
  <2> QED BY <1>1, <1>2, <2>1, <2>2 DEF LeasesOf
<1> SUFFICES ASSUME NEW v \in WorkerId
             PROVE  /\ Cardinality(LeasesOf(parts', v)) + workers'[v].available
                         <= workers'[v].slots
                    /\ workers'[v].status # "alive" =>
                         LeasesOf(parts', v) = {} /\ workers'[v].available = 0
  BY DEF Slots
<1>4. CASE v # w
  <2>1. LeasesOf(parts', v) = LeasesOf(P, v) /\ workers'[v] = W[v]
    BY <1>1, <1>2, <1>3, <1>4
  <2> QED BY <2>1 DEF Slots
<1>5. CASE v = w
  <2>1. workers'[w] = [W[w] EXCEPT !.available = W[w].available - 1]
    BY <1>1, <1>2
  <2>2. W[w] \in WorkerRuntime
    BY <1>2
  <2>3. /\ workers'[w].available = W[w].available - 1
        /\ workers'[w].slots = W[w].slots
        /\ workers'[w].status = "alive"
        /\ W[w].available \in Nat /\ W[w].slots \in Nat
    BY <2>1, <2>2 DEF WorkerRuntime, HasFreeSlot
  <2>4. k \notin LeasesOf(P, w)
    BY <1>1 DEF LeasesOf, Leased
  <2>5. /\ Cardinality(LeasesOf(parts', w)) = Cardinality(LeasesOf(P, w)) + 1
        /\ Cardinality(LeasesOf(P, w)) \in Nat
    BY SMTT(30), <1>3, <2>4, LeasesFinite, FS_AddElement
  <2>6. Cardinality(LeasesOf(P, w)) + W[w].available <= W[w].slots
    BY DEF Slots
  <2> QED BY <1>5, <2>3, <2>5, <2>6
<1> QED BY <1>4, <1>5

\* An accepted update frees at most the lease it ends.
LEMMA UpdateSlots ==
  ASSUME NEW W, NEW P, TypeWP(W, P), Slots(W, P), NEW w \in WorkerId,
         NEW k \in PartitionKey, NEW s \in TaskState, Leased(P[k]),
         P[k].worker = w, NEW V, NEW Q,
         Q = [P EXCEPT ![k] = UpdatedPartition(P[k], s)],
         V = IF s.kind = "running" THEN W ELSE [W EXCEPT ![w] = Released(W[w], 1)]
  PROVE  Slots(V, Q)
<1>1. P \in [PartitionKey -> PartitionRuntime] /\ W \in [WorkerId -> WorkerRuntime]
  BY DEF TypeWP
<1>2. Q \in [PartitionKey -> PartitionRuntime]
  BY <1>1, UpdatedType
<1>3. CASE s.kind = "running"
  <2>1. Leased(UpdatedPartition(P[k], s)) /\ UpdatedPartition(P[k], s).worker = w
    BY <1>1, <1>3 DEF UpdatedPartition, Leased, PartitionRuntime
  <2>2. \A v \in WorkerId : LeasesOf(Q, v) = LeasesOf(P, v)
    BY <1>1, <2>1 DEF LeasesOf
  <2> QED BY <1>3, <2>2 DEF Slots
<1>4. CASE s.kind # "running"
  <2>1. ~ Leased(UpdatedPartition(P[k], s))
    <3>1. UpdatedPartition(P[k], s) \in
            {Succeeded(P[k].attempt, s.blocks), Pending(P[k].attempt + 1),
             Failed(P[k].attempt, TRUE), Failed(P[k].attempt, FALSE), Cancelled}
      <4>1. s.kind \in {"succeeded", "failed", "cancelled"}
        BY <1>4 DEF TaskState
      <4>2. P[k].state \in {"active", "cancelling"}
        BY DEF Leased
      <4> QED BY <4>1, <4>2 DEF UpdatedPartition, RetryOrFail
    <3> QED BY <3>1 DEF Succeeded, Pending, Failed, Cancelled, Unleased, Leased
  <2>2. \A v \in WorkerId : LeasesOf(Q, v) = LeasesOf(P, v) \ {k}
    BY <1>1, <2>1 DEF LeasesOf
  <2>3. \A v \in WorkerId : LeasesOf(Q, v) \subseteq LeasesOf(P, v)
    BY <2>2
  <2>4. V \in [WorkerId -> WorkerRuntime] /\ V[w] = Released(W[w], 1)
        /\ \A v \in WorkerId : v # w => V[v] = W[v]
    BY <1>1, <1>4, ReleasedType
  <2>5. ASSUME NEW v \in WorkerId, v # w
        PROVE  /\ Cardinality(LeasesOf(Q, v)) + V[v].available <= V[v].slots
               /\ V[v].status # "alive" =>
                    LeasesOf(Q, v) = {} /\ V[v].available = 0
    BY <2>3, <2>4, <2>5, FewerLeases
  <2>6. k \in LeasesOf(P, w) /\ W[w].status = "alive"
    BY DEF LeasesOf, Slots
  <2>7. /\ Cardinality(LeasesOf(Q, w)) = Cardinality(LeasesOf(P, w)) - 1
        /\ Cardinality(LeasesOf(P, w)) \in Nat
    <3>1. IsFiniteSet(LeasesOf(P, w)) /\ Cardinality(LeasesOf(P, w)) \in Nat
      BY LeasesFinite
    <3>2. Cardinality(LeasesOf(P, w) \ {k}) = Cardinality(LeasesOf(P, w)) - 1
      BY <2>6, <3>1, FS_RemoveElement
    <3> QED BY <2>2, <3>1, <3>2
  <2>8. /\ V[w].slots = W[w].slots /\ V[w].status = "alive"
        /\ V[w].available <= W[w].available + 1
        /\ V[w].available \in Nat /\ W[w].available \in Nat /\ W[w].slots \in Nat
    BY <1>1, <2>4, <2>6 DEF Released, Minimum, WorkerRuntime
  <2>9. Cardinality(LeasesOf(P, w)) + W[w].available <= W[w].slots
    BY DEF Slots
  <2>10. Cardinality(LeasesOf(Q, w)) + V[w].available <= V[w].slots
    BY <2>7, <2>8, <2>9
  <2> QED BY <2>5, <2>8, <2>10 DEF Slots
<1> QED BY <1>3, <1>4

\* Every call keeps the accounts of every worker.
LEMMA SlotsStep ==
  TypeOK /\ Slots(workers, parts) /\ [Next]_vars => Slots(workers', parts')
<1> SUFFICES ASSUME TypeOK, Slots(workers, parts), [Next]_vars
             PROVE  Slots(workers', parts')
  OBVIOUS
<1> DEFINE AW(t) == AdvancedWorkers(workers, parts, t)
           AP(t) == AdvancedParts(workers, parts, t)
<1>t. TypeWP(workers, parts)
  BY DEF TypeOK, TypeWP
<1>0. ASSUME NEW t \in Time
      PROVE  TypeWP(AW(t), AP(t)) /\ Slots(AW(t), AP(t))
  BY <1>t, AdvanceType, AdvanceSlots
<1>1. ASSUME NEW plan \in StagePlans, SubmitStage(plan)
      PROVE  Slots(workers', parts')
  <2>1. \A w \in WorkerId : LeasesOf(parts', w) \subseteq LeasesOf(parts, w)
    BY <1>1 DEF SubmitStage, LeasesOf, Leased, Pending, Unleased
  <2>2. workers' = workers
    BY <1>1 DEF SubmitStage
  <2> QED BY <1>t, <2>1, <2>2, FewerLeases DEF Slots
<1>2. ASSUME NEW q \in QueryId, CancelQuery(q) PROVE Slots(workers', parts')
  <2>1. ASSUME NEW p \in PartitionRuntime, Leased(CancelledPartition(p))
        PROVE  Leased(p) /\ CancelledPartition(p).worker = p.worker
    <3>1. CASE p.state = "active"
      BY <3>1 DEF CancelledPartition, Cancelling, Leased, PartitionRuntime
    <3>2. CASE p.state # "active"
      BY <2>1, <3>2 DEF CancelledPartition, Cancelled, Unleased, Leased
    <3> QED BY <3>1, <3>2
  <2>2. \A w \in WorkerId : LeasesOf(parts', w) \subseteq LeasesOf(parts, w)
    BY <1>2, <2>1 DEF CancelQuery, LeasesOf, TypeOK
  <2>3. workers' = workers
    BY <1>2 DEF CancelQuery
  <2> QED BY <1>t, <2>2, <2>3, FewerLeases DEF Slots
<1>3. ASSUME NEW t \in Time, AdvanceTime(t) PROVE Slots(workers', parts')
  BY <1>0, <1>3 DEF AdvanceTime
<1>4. ASSUME NEW t \in Time, NextAssignment(t) PROVE Slots(workers', parts')
  <2>1. PICK w \in WorkerId :
          HasFreeSlot(AW(t), w) /\ Assign(AW(t), AP(t), w, t)
    BY <1>4 DEF NextAssignment
  <2> QED BY <1>0, <2>1, AssignSlots
<1>5. ASSUME NEW t \in Time, NEW w \in WorkerId, NextAssignmentFor(w, t)
      PROVE  Slots(workers', parts')
  BY <1>0, <1>5, AssignSlots DEF NextAssignmentFor
<1>6. ASSUME NEW t \in Time, NEW w \in WorkerId, NEW slots \in SlotCounts,
             RegisterWorker(w, slots, t)
      PROVE  Slots(workers', parts')
  <2>1. AW(t)[w].status = "unknown" /\ parts' = AP(t)
    BY <1>6 DEF RegisterWorker
  <2>2. LeasesOf(parts', w) = {} /\ Cardinality(LeasesOf(parts', w)) = 0
    BY <1>0, <2>1, FS_EmptySet DEF Slots
  <2>3. slots \in Nat
    BY InputAssumption
  <2>4. \A v \in WorkerId : v # w => workers'[v] = AW(t)[v]
    BY <1>0, <1>6 DEF RegisterWorker, TypeWP
  <2>5. workers'[w].available = slots /\ workers'[w].slots = slots
        /\ workers'[w].status = "alive"
    BY <1>0, <1>6 DEF RegisterWorker, TypeWP
  <2>6. Cardinality(LeasesOf(parts', w)) + workers'[w].available
          <= workers'[w].slots
    BY <2>2, <2>3, <2>5
  <2> QED BY <1>0, <2>1, <2>4, <2>5, <2>6 DEF Slots
<1>7. ASSUME NEW t \in Time, NEW w \in WorkerId, NEW observed \in Time,
             NEW available \in FreeCounts,
             RecordHeartbeat(w, observed, available, t)
      PROVE  Slots(workers', parts')
  <2>1. parts' = AP(t)
    BY <1>7 DEF RecordHeartbeat
  <2>2. \A v \in WorkerId : v # w => workers'[v] = AW(t)[v]
    BY <1>0, <1>7 DEF RecordHeartbeat, TypeWP
  <2>3. workers'[w].available = available /\ workers'[w].slots = AW(t)[w].slots
        /\ workers'[w].status = "alive"
    BY <1>0, <1>7 DEF RecordHeartbeat, TypeWP
  <2>4. AW(t)[w].available \in Nat /\ AW(t)[w].slots \in Nat
    BY <1>0 DEF TypeWP, WorkerRuntime
  <2>5. Cardinality(LeasesOf(AP(t), w)) \in Nat
    BY LeasesFinite
  <2>6. Cardinality(LeasesOf(AP(t), w)) + AW(t)[w].available <= AW(t)[w].slots
    BY <1>0 DEF Slots
  <2>7. \/ available = 0
        \/ available + Cardinality(LeasesOf(AP(t), w)) <= AW(t)[w].slots
    BY <1>7 DEF RecordHeartbeat, AcceptsHeartbeat
  <2>8. available \in Nat
    BY FreeCountsNat
  <2>9. Cardinality(LeasesOf(AP(t), w)) + available <= AW(t)[w].slots
    <3> HIDE DEF AP, AW
    <3> QED BY <2>4, <2>5, <2>6, <2>7, <2>8
  <2> QED BY <1>0, <2>1, <2>2, <2>3, <2>9 DEF Slots
<1>8. ASSUME NEW t \in Time, NEW w \in WorkerId, NEW k \in PartitionKey,
             NEW attempt \in 0 .. MaxTaskAttempts - 1, NEW s \in TaskState,
             RecordTaskUpdate(w, k, attempt, s, t)
      PROVE  Slots(workers', parts')
  <2>1. Leased(AP(t)[k]) /\ AP(t)[k].worker = w
    BY <1>8 DEF RecordTaskUpdate, AcceptsUpdate
  <2>2. /\ parts' = [AP(t) EXCEPT ![k] = UpdatedPartition(AP(t)[k], s)]
        /\ workers' = IF s.kind = "running" THEN AW(t)
                      ELSE [AW(t) EXCEPT ![w] = Released(AW(t)[w], 1)]
    BY <1>8 DEF RecordTaskUpdate
  <2> HIDE DEF AP, AW
  <2> QED BY <1>0, <2>1, <2>2, UpdateSlots
<1>9. CASE UNCHANGED vars
  BY <1>9 DEF vars, Slots
<1> QED BY <1>1, <1>2, <1>3, <1>4, <1>5, <1>6, <1>7, <1>8, <1>9 DEF Next

\* No worker is ever overbooked and a worker considered dead holds no lease:
\* the slot accounting of assign_to_worker, release_worker_slot, advance_time
\* and record_heartbeat balances over every sequence of calls.
THEOREM SlotsAccounted == Spec => []SlotAccounting
<1>1. Init => Slots(workers, parts)
  <2> SUFFICES ASSUME Init PROVE Slots(workers, parts)
    OBVIOUS
  <2>1. \A w \in WorkerId : LeasesOf(parts, w) = {}
    BY DEF Init, LeasesOf, Leased, Absent, Unleased
  <2> QED BY <2>1, FS_EmptySet DEF Init, Slots
<1>2. Slots(workers, parts) => SlotAccounting
  BY DEF Slots, SlotAccounting
<1>3. Slots(workers, parts)' <=> Slots(workers', parts')
  BY DEF Slots, LeasesOf
<1> QED BY <1>1, <1>2, <1>3, TypeInit, TypeStep, SlotsStep, PTL DEF Spec

-----------------------------------------------------------------------------
(* What the coordinator commits: cancellation fences, dependency order,    *)
(* exchange completeness and immutability, and the refinement of           *)
(* OutputCommit.  A call advances time and then changes one partition, so  *)
(* a step of a partition is up to two moves, of the kinds Moved lists.     *)
(* Each invariant is shown once to survive any move, rather than once per  *)
(* handler.                                                                *)

\* DependenciesSucceeded over explicit stages.
DepsDone(S, P, key) ==
  \A d \in S[key].inputs :
    /\ S[<<key[1], d>>] # NoStage
    /\ \A j \in PartitionKey :
         KeyOf(j) = <<key[1], d>> /\ j[3] < S[<<key[1], d>>].partitions =>
           P[j].state = "succeeded"

Moved(S, C, P, Q, k) ==
  \/ Q[k] = P[k]
  \/ P[k].state = "active" /\ Q[k] = RetryOrFail(P[k].attempt)
  \/ P[k].state = "active" /\ Q[k] = Failed(P[k].attempt, FALSE)
  \/ Leased(P[k]) /\ Q[k] = Cancelled
  \/ /\ P[k].state = "active" /\ P[k].started = NoTime
     /\ \E at \in Time : Q[k] = [P[k] EXCEPT !.started = at]
  \/ /\ P[k].state = "active"
     /\ \E blocks \in Outputs :
          /\ OneBlockPerDestination(S[KeyOf(k)], blocks)
          /\ Q[k] = Succeeded(P[k].attempt, blocks)
  \/ /\ P[k].state = "pending" /\ k[1] \notin C
     /\ DepsDone(S, P, KeyOf(k))
     /\ \E w \in WorkerId, t \in Time : Q[k] = Active(P[k].attempt, w, t)

AllMoved(S, C, P, Q) == \A k \in PartitionKey : Moved(S, C, P, Q, k)

\* advance_time moves partitions.
LEMMA AdvanceMoves ==
  ASSUME NEW W, NEW P, NEW t, NEW S, NEW C
  PROVE  AllMoved(S, C, P, AdvancedParts(W, P, t))
<1> SUFFICES ASSUME NEW k \in PartitionKey
             PROVE  Moved(S, C, P, AdvancedParts(W, P, t), k)
  BY DEF AllMoved
<1>1. AdvancedParts(W, P, t)[k] =
        IF k \in Expired(W, P, t) THEN Retired(P[k]) ELSE P[k]
  BY DEF AdvancedParts
<1>2. k \in Expired(W, P, t) => Leased(P[k])
  BY DEF Expired
<1> QED BY <1>1, <1>2 DEF Moved, Retired, Leased

\* An assignment moves partitions.
LEMMA AssignMoves ==
  ASSUME NEW W, NEW P \in [PartitionKey -> PartitionRuntime],
         NEW w \in WorkerId, NEW t \in Time, Assign(W, P, w, t)
  PROVE  AllMoved(stages, cancelled, P, parts')
<1>1. PICK k \in PartitionKey :
        NextPending(P, k) /\ parts' = [P EXCEPT ![k] = Active(P[k].attempt, w, t)]
  BY DEF Assign
<1>2. P[k].state = "pending" /\ k[1] \notin cancelled
  BY <1>1 DEF NextPending, Assignable
<1>3. DepsDone(stages, P, KeyOf(k))
  BY <1>1 DEF NextPending, Assignable, DependenciesSucceeded, StageSucceeded,
              PartitionsOf, DepsDone
<1>4. Moved(stages, cancelled, P, parts', k)
  BY <1>1, <1>2, <1>3 DEF Moved
<1>5. \A j \in PartitionKey : j # k => parts'[j] = P[j]
  BY <1>1
<1> QED BY <1>4, <1>5 DEF AllMoved, Moved

\* An accepted task update moves partitions.
LEMMA UpdateMoves ==
  ASSUME NEW W, NEW P \in [PartitionKey -> PartitionRuntime], NEW w, NEW attempt,
         NEW k \in PartitionKey, NEW s \in TaskState, NEW t \in Time,
         AcceptsUpdate(W, P, w, k, attempt, s, t), NEW Q, NEW C,
         Q = [P EXCEPT ![k] = UpdatedPartition(P[k], s)]
  PROVE  AllMoved(stages, C, P, Q)
<1>1. Leased(P[k]) /\ P[k].state \in {"active", "cancelling"}
  BY DEF AcceptsUpdate, Leased
<1>2. Q[k] = UpdatedPartition(P[k], s) /\ P[k] \in PartitionRuntime
  OBVIOUS
<1>3. s.kind \in {"running", "succeeded", "failed", "cancelled"} /\ s.at \in Time
      /\ (s.kind = "succeeded" => s.blocks \in Outputs)
  BY DEF TaskState
<1>4. Moved(stages, C, P, Q, k)
  <2>1. CASE s.kind = "running" /\ P[k].state = "active"
    <3>1. Q[k] = [P[k] EXCEPT !.started = s.at]
      BY <1>2, <2>1 DEF UpdatedPartition
    <3>2. P[k].started \in {NoTime, s.at}
      BY <2>1 DEF AcceptsUpdate
    <3>3. P[k].started = s.at => Q[k] = P[k]
      BY <1>2, <3>1 DEF PartitionRuntime
    <3> QED BY <1>3, <2>1, <3>1, <3>2, <3>3 DEF Moved
  <2>2. CASE s.kind = "running" /\ P[k].state = "cancelling"
    BY <1>2, <2>2 DEF UpdatedPartition, Moved
  <2>3. CASE s.kind # "running" /\ P[k].state = "cancelling"
    BY <1>1, <1>2, <2>3 DEF UpdatedPartition, Moved
  <2>4. CASE s.kind = "succeeded" /\ P[k].state = "active"
    <3>1. Q[k] = Succeeded(P[k].attempt, s.blocks)
      BY <1>2, <2>4 DEF UpdatedPartition
    <3>2. OneBlockPerDestination(stages[KeyOf(k)], s.blocks)
      BY <2>4 DEF AcceptsUpdate
    <3> QED BY <1>3, <2>4, <3>1, <3>2 DEF Moved
  <2>5. CASE s.kind = "failed" /\ P[k].state = "active"
    BY <1>2, <2>5 DEF UpdatedPartition, Moved
  <2>6. CASE s.kind = "cancelled" /\ P[k].state = "active"
    BY <1>1, <1>2, <2>6 DEF UpdatedPartition, Moved
  <2> QED BY <1>1, <1>3, <2>1, <2>2, <2>3, <2>4, <2>5, <2>6
<1>5. \A j \in PartitionKey : j # k => Q[j] = P[j]
  OBVIOUS
<1> QED BY <1>4, <1>5 DEF AllMoved, Moved

\* Every call but a submission or a cancellation is two rounds of moves.
LEMMA TwoMoves ==
  ASSUME TypeOK, [Next]_vars,
         ~ \E plan \in StagePlans : SubmitStage(plan),
         ~ \E q \in QueryId : CancelQuery(q)
  PROVE  /\ UNCHANGED <<stages, cancelled>>
         /\ \E P \in [PartitionKey -> PartitionRuntime] :
              /\ AllMoved(stages, cancelled, parts, P)
              /\ AllMoved(stages, cancelled, P, parts')
<1> DEFINE AW(t) == AdvancedWorkers(workers, parts, t)
           AP(t) == AdvancedParts(workers, parts, t)
           Goal == /\ UNCHANGED <<stages, cancelled>>
                   /\ \E P \in [PartitionKey -> PartitionRuntime] :
                        /\ AllMoved(stages, cancelled, parts, P)
                        /\ AllMoved(stages, cancelled, P, parts')
<1>r. \A P : AllMoved(stages, cancelled, P, P)
  BY DEF AllMoved, Moved
<1>0. ASSUME NEW t \in Time
      PROVE  /\ AP(t) \in [PartitionKey -> PartitionRuntime]
             /\ AllMoved(stages, cancelled, parts, AP(t))
  BY AdvanceType, AdvanceMoves DEF TypeOK, TypeWP
<1>3. ASSUME NEW t \in Time, AdvanceTime(t) PROVE Goal
  BY <1>0, <1>3, <1>r DEF AdvanceTime
<1>4. ASSUME NEW t \in Time, NextAssignment(t) PROVE Goal
  <2>1. PICK w \in WorkerId : Assign(AW(t), AP(t), w, t)
    BY <1>4 DEF NextAssignment
  <2>2. AllMoved(stages, cancelled, AP(t), parts')
    BY <1>0, <2>1, AssignMoves
  <2> QED BY <1>0, <1>4, <2>2 DEF NextAssignment
<1>5. ASSUME NEW t \in Time, NEW w \in WorkerId, NextAssignmentFor(w, t)
      PROVE  Goal
  <2>1. AllMoved(stages, cancelled, AP(t), parts')
    BY <1>0, <1>5, AssignMoves DEF NextAssignmentFor
  <2> QED BY <1>0, <1>5, <2>1 DEF NextAssignmentFor
<1>6. ASSUME NEW t \in Time, NEW w \in WorkerId, NEW slots \in SlotCounts,
             RegisterWorker(w, slots, t)
      PROVE  Goal
  BY <1>0, <1>6, <1>r DEF RegisterWorker
<1>7. ASSUME NEW t \in Time, NEW w \in WorkerId, NEW observed \in Time,
             NEW available \in FreeCounts,
             RecordHeartbeat(w, observed, available, t)
      PROVE  Goal
  BY <1>0, <1>7, <1>r DEF RecordHeartbeat
<1>8. ASSUME NEW t \in Time, NEW w \in WorkerId, NEW k \in PartitionKey,
             NEW attempt \in 0 .. MaxTaskAttempts - 1, NEW s \in TaskState,
             RecordTaskUpdate(w, k, attempt, s, t)
      PROVE  Goal
  <2>1. AllMoved(stages, cancelled, AP(t), parts')
    BY <1>0, <1>8, UpdateMoves DEF RecordTaskUpdate
  <2> QED BY <1>0, <1>8, <2>1 DEF RecordTaskUpdate
<1>9. CASE UNCHANGED vars
  BY <1>9, <1>r DEF vars, TypeOK
<1> QED BY <1>3, <1>4, <1>5, <1>6, <1>7, <1>8, <1>9 DEF Next

-----------------------------------------------------------------------------
(* The inductive invariant.                                                *)

Quiesced == {"absent", "cancelling", "succeeded", "cancelled"}

\* CancellationFence.
Fence(C, P) ==
  \A k \in PartitionKey :
    /\ k[1] \in C => P[k].state \in Quiesced
    /\ P[k].state = "cancelling" => k[1] \in C

\* Exactly the partitions of submitted stages exist.
Shape(S, P) ==
  \A k \in PartitionKey :
    P[k].state # "absent" <=>
      S[KeyOf(k)] # NoStage /\ k[3] < S[KeyOf(k)].partitions

\* DependencyGate.
Gate(S, P) ==
  \A k \in PartitionKey : EverAssigned(P[k]) => DepsDone(S, P, KeyOf(k))

\* Committed manifests of exchange stages cover their destinations.
Manifests(S, P) ==
  \A k \in PartitionKey :
    P[k].state = "succeeded" =>
      P[k].blocks \in Outputs /\ OneBlockPerDestination(S[KeyOf(k)], P[k].blocks)

\* A stage with partitioned input reads exchanges of its own width.
Matched(S) ==
  \A key \in StageKey :
    S[key] # NoStage /\ S[key].partitioned =>
      \A d \in S[key].inputs :
        /\ S[<<key[1], d>>] # NoStage
        /\ S[<<key[1], d>>].exchange = S[key].partitions

\* retry_or_fail stops at the configured number of attempts.
Attempts(P) == \A k \in PartitionKey : P[k].attempt < MaxTaskAttempts

\* Cancelled carries nothing.
Plain(P) ==
  \A k \in PartitionKey : P[k].state = "cancelled" => P[k] = Cancelled

CInv(S, C, P) ==
  /\ Fence(C, P)
  /\ Shape(S, P)
  /\ Gate(S, P)
  /\ Manifests(S, P)
  /\ Matched(S)
  /\ Attempts(P)
  /\ Plain(P)

\* What any single move of a partition preserves.
LEMMA MoveFacts ==
  ASSUME NEW S, NEW C, NEW P \in [PartitionKey -> PartitionRuntime], NEW Q,
         NEW k \in PartitionKey, Moved(S, C, P, Q, k),
         P[k].attempt < MaxTaskAttempts
  PROVE  /\ Q[k].state = "absent" <=> P[k].state = "absent"
         /\ Q[k].state = "cancelling" => P[k].state = "cancelling"
         /\ P[k].state = "succeeded" => Q[k] = P[k]
         /\ k[1] \in C /\ P[k].state \in Quiesced => Q[k].state \in Quiesced
         /\ Q[k].state = "succeeded" =>
              \/ Q[k] = P[k]
              \/ /\ P[k].state = "active"
                 /\ Q[k].blocks \in Outputs
                 /\ OneBlockPerDestination(S[KeyOf(k)], Q[k].blocks)
         /\ EverAssigned(Q[k]) => EverAssigned(P[k]) \/ DepsDone(S, P, KeyOf(k))
         /\ Q[k].attempt < MaxTaskAttempts
         /\ Q[k].state = "cancelled" => Q[k] \in {P[k], Cancelled}
<1>0. P[k] \in PartitionRuntime /\ P[k].attempt \in Nat
      /\ MaxTaskAttempts \in Nat \ {0}
  BY ConfigAssumption DEF PartitionRuntime
<1>1. CASE Q[k] = P[k]
  BY <1>1
<1>2. CASE P[k].state = "active" /\ Q[k] = RetryOrFail(P[k].attempt)
  BY <1>0, <1>2 DEF RetryOrFail, Pending, Failed, Unleased, Quiesced, EverAssigned
<1>3. CASE P[k].state = "active" /\ Q[k] = Failed(P[k].attempt, FALSE)
  BY <1>0, <1>3 DEF Failed, Unleased, Quiesced, EverAssigned
<1>4. CASE Leased(P[k]) /\ Q[k] = Cancelled
  BY <1>0, <1>4 DEF Leased, Cancelled, Unleased, Quiesced, EverAssigned
<1>5. CASE /\ P[k].state = "active" /\ P[k].started = NoTime
           /\ \E at \in Time : Q[k] = [P[k] EXCEPT !.started = at]
  BY <1>0, <1>5 DEF PartitionRuntime, Quiesced, EverAssigned
<1>6. CASE /\ P[k].state = "active"
           /\ \E blocks \in Outputs :
                /\ OneBlockPerDestination(S[KeyOf(k)], blocks)
                /\ Q[k] = Succeeded(P[k].attempt, blocks)
  BY <1>0, <1>6 DEF Succeeded, Unleased, Quiesced, EverAssigned
<1>7. CASE /\ P[k].state = "pending" /\ k[1] \notin C
           /\ DepsDone(S, P, KeyOf(k))
           /\ \E w \in WorkerId, t \in Time : Q[k] = Active(P[k].attempt, w, t)
  BY <1>0, <1>7 DEF Active, Quiesced, EverAssigned
<1> QED BY <1>1, <1>2, <1>3, <1>4, <1>5, <1>6, <1>7 DEF Moved

\* Committed dependencies stay committed.
LEMMA DepsStay ==
  ASSUME NEW S, NEW P, NEW Q, NEW key,
         \A k \in PartitionKey : P[k].state = "succeeded" => Q[k] = P[k],
         DepsDone(S, P, key)
  PROVE  DepsDone(S, Q, key)
BY DEF DepsDone

\* A round of moves preserves the invariant.
LEMMA MovesKeep ==
  ASSUME NEW S, NEW C, NEW P \in [PartitionKey -> PartitionRuntime], NEW Q,
         CInv(S, C, P), AllMoved(S, C, P, Q)
  PROVE  CInv(S, C, Q)
<1>1. \A k \in PartitionKey : Moved(S, C, P, Q, k) /\ P[k].attempt < MaxTaskAttempts
  BY DEF AllMoved, CInv, Attempts
<1>2. Fence(C, Q)
  BY <1>1, MoveFacts DEF CInv, Fence
<1>3. Shape(S, Q)
  <2>1. \A k \in PartitionKey : Q[k].state = "absent" <=> P[k].state = "absent"
    BY <1>1, MoveFacts
  <2> QED BY <2>1 DEF CInv, Shape
<1>4. Gate(S, Q)
  <2>1. \A k \in PartitionKey : P[k].state = "succeeded" => Q[k] = P[k]
    BY <1>1, MoveFacts
  <2>2. ASSUME NEW k \in PartitionKey, EverAssigned(Q[k])
        PROVE  DepsDone(S, Q, KeyOf(k))
    <3>1. DepsDone(S, P, KeyOf(k))
      BY <1>1, <2>2, MoveFacts DEF CInv, Gate
    <3> QED BY <2>1, <3>1, DepsStay
  <2> QED BY <2>2 DEF Gate
<1>5. Manifests(S, Q)
  <2> SUFFICES ASSUME NEW k \in PartitionKey, Q[k].state = "succeeded"
               PROVE  /\ Q[k].blocks \in Outputs
                      /\ OneBlockPerDestination(S[KeyOf(k)], Q[k].blocks)
    BY DEF Manifests
  <2>1. \/ Q[k] = P[k]
        \/ /\ Q[k].blocks \in Outputs
           /\ OneBlockPerDestination(S[KeyOf(k)], Q[k].blocks)
    BY <1>1, MoveFacts
  <2> QED BY <2>1 DEF CInv, Manifests
<1>6. Attempts(Q)
  BY <1>1, MoveFacts DEF Attempts
<1>7. Plain(Q)
  <2>1. \A k \in PartitionKey :
          Q[k].state = "cancelled" => Q[k] \in {P[k], Cancelled}
    BY <1>1, MoveFacts
  <2> QED BY <2>1 DEF CInv, Plain
<1> QED BY <1>2, <1>3, <1>4, <1>5, <1>6, <1>7 DEF CInv

\* Submitting a stage preserves the invariant.
LEMMA SubmitKeeps ==
  ASSUME TypeOK, CInv(stages, cancelled, parts),
         NEW plan \in StagePlans, SubmitStage(plan)
  PROVE  CInv(stages', cancelled', parts')
<1> DEFINE key == <<plan.query, plan.stage>>
<1>1. /\ stages[key] = NoStage /\ plan.query \notin cancelled
      /\ stages' = [stages EXCEPT ![key] = plan]
      /\ parts' = [k \in PartitionKey |->
                     IF KeyOf(k) = key /\ k[3] < plan.partitions
                     THEN Pending(0) ELSE parts[k]]
      /\ cancelled' = cancelled
      /\ plan.partitioned =>
           \A d \in plan.inputs :
             stages[<<plan.query, d>>].exchange = plan.partitions
      /\ \A d \in plan.inputs : stages[<<plan.query, d>>] # NoStage
  BY DEF SubmitStage
<1>2. plan \in StagePlan /\ key \in StageKey
  BY PlanAssumption DEF StagePlan, StageKey
<1>3. plan # NoStage
  BY <1>2, IdAssumption DEF StagePlan, NoStage
<1>4. stages \in [StageKey -> StagePlans \cup {NoStage}]
  BY DEF TypeOK
<1>5. \A j \in StageKey : stages'[j] = IF j = key THEN plan ELSE stages[j]
  BY <1>1, <1>2, <1>4
<1>6. \A k \in PartitionKey : KeyOf(k) \in StageKey /\ k[1] = KeyOf(k)[1]
  BY DEF PartitionKey, KeyOf, StageKey
<1>7. \A k \in PartitionKey : KeyOf(k) = key => parts[k].state = "absent"
  BY <1>1 DEF CInv, Shape
<1>8. \A k \in PartitionKey : parts[k].state # "absent" =>
        parts'[k] = parts[k] /\ stages'[KeyOf(k)] = stages[KeyOf(k)]
  BY <1>1, <1>5, <1>6, <1>7
<1>9. \A k \in PartitionKey :
        \/ parts'[k] = parts[k]
        \/ parts'[k] = Pending(0) /\ KeyOf(k) = key
  BY <1>1
<1>10. Pending(0).state = "pending" /\ Pending(0).attempt = 0
  BY DEF Pending, Unleased
<1>11. Fence(cancelled', parts')
  <2>1. \A k \in PartitionKey : KeyOf(k) = key => k[1] \notin cancelled
    BY <1>1, <1>6
  <2> QED BY <1>1, <1>9, <1>10, <2>1 DEF CInv, Fence
<1>12. Shape(stages', parts')
  <2> SUFFICES ASSUME NEW k \in PartitionKey
               PROVE  parts'[k].state # "absent" <=>
                        /\ stages'[KeyOf(k)] # NoStage
                        /\ k[3] < stages'[KeyOf(k)].partitions
    BY DEF Shape
  <2>1. CASE KeyOf(k) = key
    BY <1>1, <1>3, <1>5, <1>6, <1>7, <1>10, <2>1
  <2>2. CASE KeyOf(k) # key
    <3>1. parts'[k] = parts[k] /\ stages'[KeyOf(k)] = stages[KeyOf(k)]
      BY <1>1, <1>5, <1>6, <2>2
    <3> QED BY <3>1 DEF CInv, Shape
  <2> QED BY <2>1, <2>2
<1>13. Gate(stages', parts')
  <2> SUFFICES ASSUME NEW k \in PartitionKey, EverAssigned(parts'[k])
               PROVE  DepsDone(stages', parts', KeyOf(k))
    BY DEF Gate
  <2>1. parts'[k] = parts[k]
    BY <1>9, <1>10 DEF EverAssigned
  <2>2. stages'[KeyOf(k)] = stages[KeyOf(k)]
    BY <1>8, <2>1 DEF EverAssigned
  <2>3. DepsDone(stages, parts, KeyOf(k))
    BY <2>1 DEF CInv, Gate
  <2> SUFFICES ASSUME NEW d \in stages[KeyOf(k)].inputs
               PROVE  /\ stages'[<<KeyOf(k)[1], d>>] # NoStage
                      /\ \A j \in PartitionKey :
                           /\ KeyOf(j) = <<KeyOf(k)[1], d>>
                           /\ j[3] < stages'[<<KeyOf(k)[1], d>>].partitions
                           => parts'[j].state = "succeeded"
    BY <2>2 DEF DepsDone
  <2> DEFINE e == <<KeyOf(k)[1], d>>
  <2>4. stages[e] # NoStage /\ e # key
    BY <1>1, <2>3 DEF DepsDone
  <2>5. stages'[e] = stages[e]
    BY <1>1, <1>4, <2>4
  <2>6. ASSUME NEW j \in PartitionKey, KeyOf(j) = e, j[3] < stages[e].partitions
        PROVE  parts'[j].state = "succeeded"
    <3>1. parts[j].state = "succeeded"
      BY <2>3, <2>6 DEF DepsDone
    <3> QED BY <1>8, <3>1
  <2> QED BY <2>4, <2>5, <2>6
<1>14. Manifests(stages', parts')
  <2>1. ASSUME NEW k \in PartitionKey, parts'[k].state = "succeeded"
        PROVE  parts'[k] = parts[k] /\ stages'[KeyOf(k)] = stages[KeyOf(k)]
    BY <1>8, <1>9, <1>10, <2>1
  <2> QED BY <2>1 DEF CInv, Manifests
<1>15. Matched(stages')
  <2> SUFFICES ASSUME NEW j \in StageKey, stages'[j] # NoStage,
                      stages'[j].partitioned, NEW d \in stages'[j].inputs
               PROVE  /\ stages'[<<j[1], d>>] # NoStage
                      /\ stages'[<<j[1], d>>].exchange = stages'[j].partitions
    BY DEF Matched
  <2>1. /\ stages[<<j[1], d>>] # NoStage
        /\ stages[<<j[1], d>>].exchange = stages'[j].partitions
    <3>1. CASE j = key
      BY <1>1, <1>5, <3>1
    <3>2. CASE j # key
      BY <1>5, <3>2 DEF CInv, Matched
    <3> QED BY <3>1, <3>2
  <2>2. stages'[<<j[1], d>>] = stages[<<j[1], d>>]
    BY <1>1, <1>4, <2>1
  <2> QED BY <2>1, <2>2
<1>16. Attempts(parts')
  BY <1>9, <1>10, ConfigAssumption DEF CInv, Attempts
<1>17. Plain(parts')
  BY <1>9, <1>10 DEF CInv, Plain
<1> QED BY <1>11, <1>12, <1>13, <1>14, <1>15, <1>16, <1>17 DEF CInv

\* Cancelling a query preserves the invariant.
LEMMA CancelKeeps ==
  ASSUME TypeOK, CInv(stages, cancelled, parts),
         NEW q \in QueryId, CancelQuery(q)
  PROVE  CInv(stages', cancelled', parts')
<1>1. /\ parts' = [k \in PartitionKey |->
                     IF k[1] = q THEN CancelledPartition(parts[k]) ELSE parts[k]]
      /\ cancelled' = cancelled \cup {q}
      /\ stages' = stages
  BY DEF CancelQuery
<1>2. ASSUME NEW p \in PartitionRuntime
      PROVE  /\ CancelledPartition(p).state \in Quiesced
             /\ CancelledPartition(p).state = "absent" <=> p.state = "absent"
             /\ p.state = "succeeded" => CancelledPartition(p) = p
             /\ CancelledPartition(p).state = "succeeded" => p.state = "succeeded"
             /\ EverAssigned(CancelledPartition(p)) => EverAssigned(p)
             /\ CancelledPartition(p).attempt \in {p.attempt, 0}
             /\ CancelledPartition(p).state = "cancelled" =>
                  CancelledPartition(p) = Cancelled
  <2>1. CASE p.state = "active"
    <3>1. CancelledPartition(p) = Cancelling(p)
      BY <2>1 DEF CancelledPartition
    <3>2. Cancelling(p).state = "cancelling" /\ Cancelling(p).attempt = p.attempt
      BY DEF Cancelling, PartitionRuntime
    <3> QED BY <2>1, <3>1, <3>2 DEF Quiesced, EverAssigned
  <2>2. CASE p.state \in {"absent", "succeeded"}
    BY <2>2 DEF CancelledPartition, Quiesced
  <2>3. CASE p.state \notin {"active", "absent", "succeeded"}
    BY <2>3 DEF CancelledPartition, Cancelled, Unleased, Quiesced, EverAssigned
  <2> QED BY <2>1, <2>2, <2>3
<1>3. ASSUME NEW k \in PartitionKey
      PROVE  /\ parts[k] \in PartitionRuntime
             /\ \/ parts'[k] = parts[k]
                \/ k[1] = q /\ parts'[k] = CancelledPartition(parts[k])
             /\ k[1] = q => parts'[k] = CancelledPartition(parts[k])
  BY <1>1 DEF TypeOK
<1>4. Fence(cancelled', parts')
  <2> SUFFICES ASSUME NEW k \in PartitionKey
               PROVE  /\ k[1] \in cancelled' => parts'[k].state \in Quiesced
                      /\ parts'[k].state = "cancelling" => k[1] \in cancelled'
    BY DEF Fence
  <2> QED BY <1>1, <1>2, <1>3 DEF CInv, Fence
<1>5. Shape(stages', parts')
  <2>1. \A k \in PartitionKey :
          parts'[k].state = "absent" <=> parts[k].state = "absent"
    BY <1>2, <1>3
  <2> QED BY <1>1, <2>1 DEF CInv, Shape
<1>6. \A k \in PartitionKey : parts[k].state = "succeeded" => parts'[k] = parts[k]
  BY <1>2, <1>3
<1>7. Gate(stages', parts')
  <2> SUFFICES ASSUME NEW k \in PartitionKey, EverAssigned(parts'[k])
               PROVE  DepsDone(stages, parts', KeyOf(k))
    BY <1>1 DEF Gate
  <2>1. DepsDone(stages, parts, KeyOf(k))
    BY <1>2, <1>3 DEF CInv, Gate
  <2> QED BY <1>6, <2>1, DepsStay
<1>8. Manifests(stages', parts')
  <2>1. \A k \in PartitionKey : parts'[k].state = "succeeded" => parts'[k] = parts[k]
    BY <1>2, <1>3
  <2> QED BY <1>1, <2>1 DEF CInv, Manifests
<1>9. Attempts(parts')
  BY <1>2, <1>3, ConfigAssumption DEF CInv, Attempts
<1>10. Plain(parts')
  BY <1>2, <1>3 DEF CInv, Plain
<1> QED BY <1>1, <1>4, <1>5, <1>7, <1>8, <1>9, <1>10 DEF CInv

\* The invariant holds initially and survives every step.
LEMMA CInvInit == Init => CInv(stages, cancelled, parts)
<1> SUFFICES ASSUME Init PROVE CInv(stages, cancelled, parts)
  OBVIOUS
<1>1. /\ \A k \in PartitionKey : parts[k].state = "absent" /\ parts[k].attempt = 0
      /\ \A key \in StageKey : stages[key] = NoStage
      /\ cancelled = {}
  BY DEF Init, Absent, Unleased
<1>2. \A k \in PartitionKey : KeyOf(k) \in StageKey
  BY DEF PartitionKey, KeyOf, StageKey
<1> QED BY <1>1, <1>2, ConfigAssumption
        DEF CInv, Fence, Shape, Gate, Manifests, Matched, Attempts, Plain, EverAssigned,
            Quiesced

\* CInv is kept when every partition makes one move.
LEMMA CInvStep ==
  TypeOK /\ CInv(stages, cancelled, parts) /\ [Next]_vars
    => CInv(stages', cancelled', parts')
<1> SUFFICES ASSUME TypeOK, CInv(stages, cancelled, parts), [Next]_vars
             PROVE  CInv(stages', cancelled', parts')
  OBVIOUS
<1>1. CASE \E plan \in StagePlans : SubmitStage(plan)
  BY <1>1, SubmitKeeps
<1>2. CASE \E q \in QueryId : CancelQuery(q)
  BY <1>2, CancelKeeps
<1>3. CASE /\ ~ \E plan \in StagePlans : SubmitStage(plan)
           /\ ~ \E q \in QueryId : CancelQuery(q)
  <2>1. stages' = stages /\ cancelled' = cancelled
    BY <1>3, TwoMoves
  <2>2. PICK P \in [PartitionKey -> PartitionRuntime] :
          /\ AllMoved(stages, cancelled, parts, P)
          /\ AllMoved(stages, cancelled, P, parts')
    BY <1>3, TwoMoves
  <2>3. CInv(stages, cancelled, P)
    BY <2>2, MovesKeep DEF TypeOK
  <2>4. CInv(stages, cancelled, parts')
    BY <2>2, <2>3, MovesKeep
  <2> QED BY <2>1, <2>4
<1> QED BY <1>1, <1>2, <1>3

\* The invariant of the commit path holds throughout.
LEMMA CInvAlways == Spec => [](TypeOK /\ CInv(stages, cancelled, parts))
<1>1. CInv(stages, cancelled, parts)' <=> CInv(stages', cancelled', parts')
  BY DEF CInv, Fence, Shape, Gate, Manifests, Matched, Attempts, Plain, DepsDone
<1> QED BY <1>1, TypeInit, TypeStep, CInvInit, CInvStep, PTL DEF Spec

-----------------------------------------------------------------------------
(* Safety.                                                                 *)

\* A cancelled query has no running, waiting or failed partition left, and
\* only cancelled queries have leases being wound down (cancel_query).
THEOREM CancellationFences == Spec => []CancellationFence
<1>1. CInv(stages, cancelled, parts) => CancellationFence
  BY DEF CInv, Fence, CancellationFence, Quiesced
<1> QED BY <1>1, CInvAlways, PTL

\* Work of a stage starts only once all its dependencies committed, and they
\* remain committed (dependencies_succeeded, next_pending_partition).
THEOREM DependenciesGated == Spec => []DependencyGate
<1>1. CInv(stages, cancelled, parts) => DependencyGate
  BY DEF CInv, Gate, DependencyGate, DepsDone, DependenciesSucceeded,
         StageSucceeded, PartitionsOf
<1> QED BY <1>1, CInvAlways, PTL

\* A manifest as long as its destinations and covering them all repeats none.
LEMMA OneBlockEach ==
  ASSUME NEW n \in Nat, NEW blocks \in Seq(Nat), Len(blocks) = n,
         \A d \in 0 .. n - 1 : \E i \in DOMAIN blocks : blocks[i] = d,
         NEW d \in 0 .. n - 1
  PROVE  \E i \in DOMAIN blocks : \A j \in DOMAIN blocks : blocks[j] = d <=> j = i
<1> DEFINE D == 0 .. n - 1
           I == {i \in 1 .. n : blocks[i] \in D}
           f == [i \in I |-> blocks[i]]
<1>1. DOMAIN blocks = 1 .. n
  OBVIOUS
<1>2. IsFiniteSet(1 .. n) /\ Cardinality(1 .. n) = n
  BY FS_Interval
<1>3. IsFiniteSet(I) /\ Cardinality(I) <= n
  <2>1. I \in SUBSET (1 .. n)
    OBVIOUS
  <2> QED BY <1>2, <2>1, FS_Subset
<1>4. Cardinality(D) = n
  BY FS_Interval
<1>5. f \in Surjection(I, D)
  BY <1>1 DEF Surjection
<1>6. f \in Injection(I, D)
  <2>1. Cardinality(D) <= Cardinality(I)
    BY <1>3, <1>5, FS_Surjection
  <2>2. Cardinality(I) \in Nat
    BY <1>3, FS_CardinalityType
  <2>3. Cardinality(I) = Cardinality(D)
    <3> HIDE DEF D, I
    <3> QED BY <1>3, <1>4, <2>1, <2>2
  <2> QED BY <1>3, <1>5, <2>3, FS_SurjSameCardinalityImpliesInj
<1>7. PICK i \in DOMAIN blocks : blocks[i] = d
  OBVIOUS
<1>8. ASSUME NEW j \in DOMAIN blocks, blocks[j] = d PROVE j = i
  <2>1. i \in I /\ j \in I /\ f[i] = f[j]
    BY <1>1, <1>7, <1>8
  <2> QED BY <1>6, <2>1 DEF Injection, IsInjective
<1> QED BY <1>7, <1>8

\* An accepted manifest has exactly one block for each destination.
LEMMA OnePerDestination ==
  ASSUME NEW plan \in StagePlan, NEW blocks \in Seq(Nat),
         OneBlockPerDestination(plan, blocks), NEW d \in 0 .. plan.exchange - 1
  PROVE  \E i \in DOMAIN blocks : \A j \in DOMAIN blocks : blocks[j] = d <=> j = i
<1>1. plan.exchange \in Nat
  BY DEF StagePlan
<1>2. plan.exchange > 0
  BY <1>1
<1>3. /\ Len(blocks) = plan.exchange
      /\ \A e \in 0 .. plan.exchange - 1 : \E n \in DOMAIN blocks : blocks[n] = e
  BY <1>2 DEF OneBlockPerDestination
<1> QED BY <1>1, <1>3, OneBlockEach

\* A running consumer of a hash exchange was given exactly one block of every
\* producer partition (submit_stage, record_task_update, assign_to_worker).
THEOREM InputsDelivered == Spec => []InputsExactlyOnce
<1>1. TypeOK /\ CInv(stages, cancelled, parts) => InputsExactlyOnce
  <2> SUFFICES ASSUME TypeOK, CInv(stages, cancelled, parts),
                      NEW k \in PartitionKey, parts[k].state = "active",
                      stages[KeyOf(k)].partitioned,
                      NEW d \in stages[KeyOf(k)].inputs,
                      NEW j \in PartitionsOf(<<k[1], d>>)
               PROVE  \E n \in DOMAIN parts[j].blocks :
                        InputBlocks(parts, k, j) = {n}
    BY DEF InputsExactlyOnce
  <2> DEFINE e == <<k[1], d>>
             blocks == parts[j].blocks
  <2>1. KeyOf(k) \in StageKey /\ k[3] \in Nat /\ KeyOf(k)[1] = k[1]
    BY IdAssumption DEF PartitionKey, KeyOf, StageKey
  <2>2. stages[KeyOf(k)] # NoStage /\ k[3] < stages[KeyOf(k)].partitions
    BY DEF CInv, Shape
  <2>3. stages[e] # NoStage /\ stages[e].exchange = stages[KeyOf(k)].partitions
    BY <2>1, <2>2 DEF CInv, Matched
  <2>4. j \in PartitionKey /\ KeyOf(j) = e /\ j[3] < stages[e].partitions
    BY DEF PartitionsOf
  <2>5. parts[j].state = "succeeded"
    <3>1. DepsDone(stages, parts, KeyOf(k))
      BY DEF CInv, Gate, EverAssigned
    <3> QED BY <2>1, <2>4, <3>1 DEF DepsDone
  <2>6. OneBlockPerDestination(stages[e], blocks) /\ blocks \in Seq(Nat)
    BY <2>4, <2>5 DEF CInv, Manifests, TypeOK, PartitionRuntime
  <2>11. stages[e] \in StagePlan
    <3>1. e \in StageKey
      BY <2>4 DEF KeyOf, PartitionKey, StageKey
    <3> QED BY <2>3, <3>1, PlanAssumption DEF TypeOK
  <2>7. stages[e].exchange \in Nat
    BY <2>11 DEF StagePlan
  <2>8. k[3] \in 0 .. stages[e].exchange - 1 /\ stages[e].exchange > 0
    BY <2>1, <2>2, <2>3, <2>7
  <2>9. PICK n \in DOMAIN blocks : \A m \in DOMAIN blocks : blocks[m] = k[3] <=> m = n
    <3>1. \A c \in 0 .. stages[e].exchange - 1 :
            \E i \in DOMAIN blocks : \A m \in DOMAIN blocks : blocks[m] = c <=> m = i
      BY <2>6, <2>11, OnePerDestination, Zenon
    <3> QED BY <2>8, <3>1
  <2>10. InputBlocks(parts, k, j) = {m \in DOMAIN blocks : blocks[m] = k[3]}
    BY DEF InputBlocks
  <2> QED BY <2>9, <2>10
<1> QED BY <1>1, CInvAlways, PTL

-----------------------------------------------------------------------------
(* What a step may never do.                                               *)

\* No step changes a committed partition.
LEMMA FinalStep ==
  ASSUME TypeOK, CInv(stages, cancelled, parts), [Next]_vars,
         NEW k \in PartitionKey, parts[k].state = "succeeded"
  PROVE  parts'[k] = parts[k]
<1>1. CASE \E plan \in StagePlans : SubmitStage(plan)
  <2>1. stages[KeyOf(k)] # NoStage
    BY DEF CInv, Shape
  <2> QED BY <1>1, <2>1 DEF SubmitStage
<1>2. CASE \E q \in QueryId : CancelQuery(q)
  BY <1>2 DEF CancelQuery, CancelledPartition
<1>3. CASE /\ ~ \E plan \in StagePlans : SubmitStage(plan)
           /\ ~ \E q \in QueryId : CancelQuery(q)
  <2>1. PICK P \in [PartitionKey -> PartitionRuntime] :
          /\ AllMoved(stages, cancelled, parts, P)
          /\ AllMoved(stages, cancelled, P, parts')
    BY <1>3, TwoMoves
  <2>2. CInv(stages, cancelled, P)
    BY <2>1, MovesKeep DEF TypeOK
  <2>3. P[k] = parts[k]
    BY <2>1, MoveFacts DEF AllMoved, CInv, Attempts, TypeOK
  <2>4. parts'[k] = P[k]
    BY <2>1, <2>2, <2>3, MoveFacts DEF AllMoved, CInv, Attempts
  <2> QED BY <2>3, <2>4
<1> QED BY <1>1, <1>2, <1>3

\* A committed attempt and its manifest are immutable: no late or duplicate
\* report, lease expiry, resubmission or cancellation changes them
\* (record_task_update, advance_time, cancel_query).
THEOREM CommittedOutputFinal == Spec => CommittedOutputIsFinal
<1>1. TypeOK /\ CInv(stages, cancelled, parts) /\ [Next]_vars =>
        [\A k \in PartitionKey :
           parts[k].state = "succeeded" => parts'[k] = parts[k]]_vars
  BY FinalStep
<1> QED BY <1>1, CInvAlways, PTL DEF Spec, CommittedOutputIsFinal

\* Short of a cancellation, no step revives a failed partition.
LEMMA FailedStays ==
  ASSUME TypeOK, CInv(stages, cancelled, parts), [Next]_vars,
         NEW k \in PartitionKey, parts[k].state = "failed", k[1] \notin cancelled'
  PROVE  parts'[k] = parts[k]
<1>m. ASSUME NEW S, NEW C, NEW P, NEW Q, Moved(S, C, P, Q, k), P[k].state = "failed"
      PROVE  Q[k] = P[k]
  BY <1>m DEF Moved, Leased
<1>1. CASE \E plan \in StagePlans : SubmitStage(plan)
  <2>1. stages[KeyOf(k)] # NoStage
    BY DEF CInv, Shape
  <2> QED BY <1>1, <2>1 DEF SubmitStage
<1>2. CASE \E q \in QueryId : CancelQuery(q)
  BY <1>2 DEF CancelQuery
<1>3. CASE /\ ~ \E plan \in StagePlans : SubmitStage(plan)
           /\ ~ \E q \in QueryId : CancelQuery(q)
  <2>1. PICK P \in [PartitionKey -> PartitionRuntime] :
          /\ AllMoved(stages, cancelled, parts, P)
          /\ AllMoved(stages, cancelled, P, parts')
    BY <1>3, TwoMoves
  <2>2. P[k] = parts[k]
    BY <1>m, <2>1 DEF AllMoved
  <2>3. parts'[k] = P[k]
    BY <1>m, <2>1, <2>2 DEF AllMoved
  <2> QED BY <2>2, <2>3
<1> QED BY <1>1, <1>2, <1>3

\* A submitted plan is never replaced, and a cancellation never undone.
LEMMA PlansStay ==
  ASSUME TypeOK, [Next]_vars, NEW key \in StageKey, stages[key] # NoStage
  PROVE  stages'[key] = stages[key] /\ cancelled \subseteq cancelled'
<1>1. CASE \E plan \in StagePlans : SubmitStage(plan)
  BY <1>1 DEF SubmitStage, TypeOK
<1>2. CASE \E q \in QueryId : CancelQuery(q)
  BY <1>2 DEF CancelQuery
<1>3. CASE /\ ~ \E plan \in StagePlans : SubmitStage(plan)
           /\ ~ \E q \in QueryId : CancelQuery(q)
  BY <1>3, TwoMoves
<1> QED BY <1>1, <1>2, <1>3

\* A step leaves the final status of a stage alone, or cancels its query.
LEMMA StatusStep ==
  ASSUME TypeOK, CInv(stages, cancelled, parts), [Next]_vars,
         NEW key \in StageKey, stages[key] # NoStage,
         StageStatus(key) \in {"Succeeded", "Failed", "Cancelled"}
  PROVE  StageStatus(key)' \in {StageStatus(key), "Cancelled"}
<1>1. stages'[key] = stages[key] /\ cancelled \subseteq cancelled'
  BY PlansStay
<1>2. PartitionsOf(key)' = PartitionsOf(key) /\ PartitionsOf(key) \subseteq PartitionKey
  BY <1>1 DEF PartitionsOf
<1>3. CASE key[1] \in cancelled'
  BY <1>3 DEF StageStatus
<1>4. CASE key[1] \notin cancelled'
  <2>0. key[1] \notin cancelled
    BY <1>1, <1>4
  <2> DEFINE states == {parts[k].state : k \in PartitionsOf(key)}
             after == {parts'[k].state : k \in PartitionsOf(key)}
  <2>1. StageStatus(key)' = IF "failed" \in after THEN "Failed"
                            ELSE IF after \subseteq {"succeeded"} THEN "Succeeded"
                            ELSE StageStatus(key)'
    BY <1>2, <1>4 DEF StageStatus
  <2>2. CASE "failed" \in states
    <3>1. PICK k \in PartitionsOf(key) : parts[k].state = "failed"
      BY <2>2
    <3>2. k \in PartitionKey /\ k[1] = key[1]
      BY <3>1 DEF PartitionsOf, KeyOf
    <3>3. parts'[k] = parts[k]
      BY <1>4, <3>1, <3>2, FailedStays
    <3>4. "failed" \in after
      BY <3>1, <3>3
    <3>5. StageStatus(key) = "Failed"
      BY <2>0, <2>2 DEF StageStatus
    <3> QED BY <2>1, <3>4, <3>5
  <2>3. CASE "failed" \notin states
    <3>1. states \subseteq {"succeeded"} /\ StageStatus(key) = "Succeeded"
      BY <2>0, <2>3 DEF StageStatus
    <3>2. \A k \in PartitionsOf(key) : parts'[k].state = "succeeded"
      BY <1>2, <3>1, FinalStep
    <3>3. after \subseteq {"succeeded"} /\ "failed" \notin after
      BY <3>2
    <3> QED BY <2>1, <3>1, <3>3
  <2> QED BY <2>2, <2>3
<1> QED BY <1>3, <1>4

\* A driver that has read a final status of a stage can rely on it: a stage
\* that succeeded or failed never looks unfinished, nor a cancelled one alive,
\* again (stage_status).
THEOREM StatusStable == Spec => StatusIsStable
<1>1. TypeOK /\ CInv(stages, cancelled, parts) /\ [Next]_vars =>
        [\A key \in StageKey :
           stages[key] # NoStage
             /\ StageStatus(key) \in {"Succeeded", "Failed", "Cancelled"}
             => StageStatus(key)' \in {StageStatus(key), "Cancelled"}]_vars
  BY StatusStep
<1> QED BY <1>1, CInvAlways, PTL DEF Spec, StatusIsStable

\* The possible ranks of a partition.
LEMMA RankType ==
  ASSUME NEW p \in PartitionRuntime, p.attempt < MaxTaskAttempts
  PROVE  Rank(p) \in Nat /\ Rank(p) <= 5 * MaxTaskAttempts + 1
<1>1. p.attempt \in Nat /\ MaxTaskAttempts \in Nat
      /\ p.state \in {"absent", "pending", "active", "cancelling", "succeeded",
                      "failed", "cancelled"}
  BY ConfigAssumption DEF PartitionRuntime
<1> DEFINE a == p.attempt
<1>2. /\ 5 * a + 1 \in Nat /\ 5 * a + 2 \in Nat /\ 5 * a + 3 \in Nat
      /\ 5 * a + 4 \in Nat /\ 5 * a + 5 \in Nat /\ 5 * a + 5 <= 5 * MaxTaskAttempts + 1
      /\ 5 * MaxTaskAttempts + 1 \in Nat
  BY <1>1
<1>3. Rank(p) \in {0, 5 * a + 1, 5 * a + 2, 5 * a + 3, 5 * a + 4, 5 * a + 5,
                   5 * MaxTaskAttempts + 1}
  BY <1>1 DEF Rank
<1> QED BY <1>1, <1>2, <1>3

\* A move that changes a partition raises its rank.
LEMMA MoveRank ==
  ASSUME NEW S, NEW C, NEW P \in [PartitionKey -> PartitionRuntime],
         NEW Q \in [PartitionKey -> PartitionRuntime],
         NEW k \in PartitionKey, Moved(S, C, P, Q, k), Q[k] # P[k],
         P[k].attempt < MaxTaskAttempts
  PROVE  Rank(Q[k]) > Rank(P[k])
<1>0. P[k] \in PartitionRuntime /\ P[k].attempt \in Nat /\ MaxTaskAttempts \in Nat
  BY ConfigAssumption DEF PartitionRuntime
<1> DEFINE a == P[k].attempt
<1>a. P[k].state = "active" =>
        Rank(P[k]) \in {5 * a + 2, 5 * a + 3}
  BY DEF Rank
<1>2. CASE P[k].state = "active" /\ Q[k] = RetryOrFail(P[k].attempt)
  <2>1. Q[k] = Pending(a + 1) \/ Q[k] = Failed(a, TRUE)
    BY <1>2 DEF RetryOrFail
  <2>2. \/ Q[k].state = "pending" /\ Q[k].attempt = a + 1
        \/ Q[k].state = "failed" /\ Q[k].attempt = a
    BY <2>1 DEF Pending, Failed, Unleased
  <2>3. Rank(Q[k]) = 5 * (a + 1) + 1 \/ Rank(Q[k]) = 5 * a + 5
    BY <2>2 DEF Rank
  <2> QED BY <1>0, <1>2, <1>a, <2>3
<1>3. CASE P[k].state = "active" /\ Q[k] = Failed(P[k].attempt, FALSE)
  <2>1. Q[k].state = "failed" /\ Q[k].attempt = a
    BY <1>3 DEF Failed, Unleased
  <2>2. Rank(Q[k]) = 5 * a + 5
    BY <2>1 DEF Rank
  <2>3. Rank(P[k]) \in {5 * a + 2, 5 * a + 3}
    BY <1>3, <1>a, Zenon
  <2> QED BY <1>0, <2>2, <2>3
<1>4. CASE Leased(P[k]) /\ Q[k] = Cancelled
  <2>1. Rank(Cancelled) = 5 * MaxTaskAttempts + 1
    BY DEF Rank, Cancelled, Unleased
  <2>2. Rank(P[k]) \in {5 * a + 2, 5 * a + 3, 5 * a + 4}
    BY <1>4 DEF Rank, Leased
  <2> QED BY <1>0, <1>4, <2>1, <2>2
<1>5. CASE /\ P[k].state = "active" /\ P[k].started = NoTime
           /\ \E at \in Time : Q[k] = [P[k] EXCEPT !.started = at]
  <2>1. PICK at \in Time : Q[k] = [P[k] EXCEPT !.started = at]
    BY <1>5
  <2>2. at # NoTime
    BY ConfigAssumption DEF Time, NoTime
  <2>3. Q[k].state = "active" /\ Q[k].attempt = a /\ Q[k].started = at
    BY <1>0, <1>5, <2>1 DEF PartitionRuntime
  <2>4. Rank(P[k]) = 5 * a + 2 /\ Rank(Q[k]) = 5 * a + 3
    BY <1>5, <2>2, <2>3 DEF Rank
  <2> QED BY <1>0, <2>4
<1>6. CASE /\ P[k].state = "active"
           /\ \E blocks \in Outputs : Q[k] = Succeeded(P[k].attempt, blocks)
  <2>1. Q[k].state = "succeeded"
    BY <1>6 DEF Succeeded, Unleased
  <2>2. Rank(Q[k]) = 5 * MaxTaskAttempts + 1
    BY <2>1 DEF Rank
  <2> QED BY <1>0, <1>6, <1>a, <2>2
<1>7. CASE /\ P[k].state = "pending"
           /\ \E w \in WorkerId, t \in Time : Q[k] = Active(P[k].attempt, w, t)
  <2>1. Q[k].state = "active" /\ Q[k].attempt = a /\ Q[k].started = NoTime
    BY <1>7 DEF Active
  <2>2. Rank(P[k]) = 5 * a + 1 /\ Rank(Q[k]) = 5 * a + 2
    BY <1>7, <2>1 DEF Rank
  <2> QED BY <1>0, <2>2
<1> QED BY <1>2, <1>3, <1>4, <1>5, <1>6, <1>7 DEF Moved

\* A step that changes a partition raises its rank.
LEMMA RankStep ==
  ASSUME TypeOK, CInv(stages, cancelled, parts), [Next]_vars,
         NEW k \in PartitionKey, parts'[k] # parts[k]
  PROVE  /\ Rank(parts'[k]) > Rank(parts[k])
         /\ Rank(parts'[k]) <= 5 * MaxTaskAttempts + 1
<1>0. TypeOK' /\ CInv(stages', cancelled', parts')
  BY TypeStep, CInvStep
<1>1. /\ parts[k] \in PartitionRuntime /\ parts'[k] \in PartitionRuntime
      /\ parts[k].attempt < MaxTaskAttempts /\ parts'[k].attempt < MaxTaskAttempts
  BY <1>0 DEF TypeOK, CInv, Attempts
<1>2. /\ Rank(parts[k]) \in Nat /\ Rank(parts'[k]) \in Nat
      /\ Rank(parts'[k]) <= 5 * MaxTaskAttempts + 1
  BY <1>1, RankType
<1>3. CASE \E plan \in StagePlans : SubmitStage(plan)
  <2>1. parts[k].state = "absent" /\ parts'[k] = Pending(0)
    BY <1>3 DEF SubmitStage, CInv, Shape
  <2>2. Rank(parts[k]) = 0
    BY <2>1 DEF Rank
  <2>3. Rank(parts'[k]) = 1
    BY <2>1 DEF Rank, Pending, Unleased
  <2> QED BY <1>2, <2>2, <2>3
<1>4. CASE \E q \in QueryId : CancelQuery(q)
  <2>1. parts'[k] = CancelledPartition(parts[k])
    BY <1>4 DEF CancelQuery
  <2>2. parts[k].attempt \in Nat /\ MaxTaskAttempts \in Nat
    BY <1>1, ConfigAssumption DEF PartitionRuntime
  <2>3. CASE parts[k].state = "active"
    <3>1. parts'[k] = Cancelling(parts[k])
      BY <2>1, <2>3 DEF CancelledPartition
    <3>2. parts'[k].state = "cancelling" /\ parts'[k].attempt = parts[k].attempt
      BY <1>1, <3>1 DEF Cancelling, PartitionRuntime
    <3>3. Rank(parts[k]) \in {5 * parts[k].attempt + 2, 5 * parts[k].attempt + 3}
      BY <2>3 DEF Rank
    <3>4. Rank(parts'[k]) = 5 * parts[k].attempt + 4
      BY <3>2 DEF Rank
    <3> QED BY <1>2, <2>2, <3>3, <3>4
  <2>4. CASE parts[k].state # "active"
    <3>1. parts'[k] = Cancelled /\ parts[k].state \in
            {"pending", "cancelling", "failed", "cancelled"}
      BY <1>1, <2>1, <2>4 DEF CancelledPartition, PartitionRuntime
    <3>2. parts'[k].state = "cancelled"
      BY <3>1 DEF Cancelled, Unleased
    <3>3. Rank(parts'[k]) = 5 * MaxTaskAttempts + 1
      BY <3>2 DEF Rank
    <3>4. parts[k].state # "cancelled"
      BY <3>1 DEF CInv, Plain
    <3>5. Rank(parts[k]) \in {5 * parts[k].attempt + 1, 5 * parts[k].attempt + 4,
                              5 * parts[k].attempt + 5}
      BY <3>1, <3>4 DEF Rank
    <3> QED BY <1>1, <1>2, <2>2, <3>3, <3>5
  <2> QED BY <2>3, <2>4
<1>5. CASE /\ ~ \E plan \in StagePlans : SubmitStage(plan)
           /\ ~ \E q \in QueryId : CancelQuery(q)
  <2>1. PICK P \in [PartitionKey -> PartitionRuntime] :
          /\ AllMoved(stages, cancelled, parts, P)
          /\ AllMoved(stages, cancelled, P, parts')
    BY <1>5, TwoMoves
  <2>2. CInv(stages, cancelled, P)
    BY <2>1, MovesKeep DEF TypeOK
  <2>3. P[k].attempt < MaxTaskAttempts /\ P[k] \in PartitionRuntime
    BY <2>2 DEF CInv, Attempts
  <2>4. P[k] # parts[k] => Rank(P[k]) > Rank(parts[k])
    BY <1>1, <2>1, MoveRank DEF AllMoved, TypeOK
  <2>5. parts'[k] # P[k] => Rank(parts'[k]) > Rank(P[k])
    BY <1>0, <2>1, <2>3, MoveRank DEF AllMoved, TypeOK
  <2>6. Rank(P[k]) \in Nat
    BY <2>3, RankType
  <2> QED BY <1>2, <2>4, <2>5, <2>6
<1> QED BY <1>3, <1>4, <1>5

\* A partition's life only moves forward and is bounded: an attempt number is
\* leased at most once and at most MaxTaskAttempts attempts are made
\* (retry_or_fail, the superseded checks of record_task_update).
THEOREM LifecycleForward == Spec => LifecycleProgress
<1>1. TypeOK /\ CInv(stages, cancelled, parts) /\ [Next]_vars =>
        [\A k \in PartitionKey :
           parts'[k] # parts[k] =>
             /\ Rank(parts'[k]) > Rank(parts[k])
             /\ Rank(parts'[k]) <= 5 * MaxTaskAttempts + 1]_vars
  BY RankStep
<1>2. \A k : Rank(parts[k])' = Rank(parts'[k])
  BY DEF Rank
<1> QED BY <1>1, CInvAlways, PTL DEF Spec, LifecycleProgress

-----------------------------------------------------------------------------
(* The promise to drivers.                                                 *)

\* A complete manifest in the coordinator's sense is one in OutputCommit's.
LEMMA CompleteManifest ==
  ASSUME NEW plan \in StagePlan, NEW blocks \in Seq(Nat),
         OneBlockPerDestination(plan, blocks)
  PROVE  Promise!Complete(plan, blocks)
<1> SUFFICES ASSUME NEW d \in 0 .. plan.exchange - 1
             PROVE  \E n \in DOMAIN blocks :
                      {m \in DOMAIN blocks : blocks[m] = d} = {n}
  BY DEF Promise!Complete
<1>4. PICK i \in DOMAIN blocks : \A j \in DOMAIN blocks : blocks[j] = d <=> j = i
  BY OnePerDestination
<1>5. {m \in DOMAIN blocks : blocks[m] = d} = {i}
  BY <1>4
<1> QED BY <1>5

Out(P) ==
  [k \in PartitionKey |->
     IF P[k].state = "succeeded"
     THEN [attempt |-> P[k].attempt, blocks |-> P[k].blocks] ELSE NoOutput]

Quiet(P, Q) ==
  \A k \in PartitionKey :
    P[k].state = "succeeded" \/ Q[k].state = "succeeded" => Q[k] = P[k]

\* Changes that commit nothing leave the visible output alone.
LEMMA QuietOut ==
  ASSUME NEW P, NEW Q, Quiet(P, Q)
  PROVE  Out(Q) = Out(P)
BY DEF Quiet, Out

\* advance_time commits nothing.
LEMMA AdvanceQuiet ==
  ASSUME NEW W, NEW P, NEW t
  PROVE  Quiet(P, AdvancedParts(W, P, t))
<1> SUFFICES ASSUME NEW k \in PartitionKey
             PROVE  LET Q == AdvancedParts(W, P, t)
                    IN  P[k].state = "succeeded" \/ Q[k].state = "succeeded"
                          => Q[k] = P[k]
  BY DEF Quiet
<1>1. AdvancedParts(W, P, t)[k] =
        IF k \in Expired(W, P, t) THEN Retired(P[k]) ELSE P[k]
  BY DEF AdvancedParts
<1>2. k \in Expired(W, P, t) => P[k].state # "succeeded"
  BY DEF Expired, Leased
<1>3. Retired(P[k]).state # "succeeded"
  BY DEF Retired, RetryOrFail, Pending, Failed, Cancelled, Unleased
<1> QED BY <1>1, <1>2, <1>3

\* An assignment commits nothing.
LEMMA AssignQuiet ==
  ASSUME NEW W, NEW P \in [PartitionKey -> PartitionRuntime], NEW w, NEW t,
         Assign(W, P, w, t)
  PROVE  Quiet(P, parts')
<1>1. PICK k \in PartitionKey :
        /\ P[k].state = "pending"
        /\ parts' = [P EXCEPT ![k] = Active(P[k].attempt, w, t)]
  BY DEF Assign, NextPending, Assignable
<1>2. parts'[k].state = "active"
  BY <1>1 DEF Active
<1> QED BY <1>1, <1>2 DEF Quiet

\* A success report on an active attempt is OutputCommit's Commit; any other
\* accepted update commits nothing.
LEMMA UpdateCommits ==
  ASSUME TypeOK, CInv(stages, cancelled, parts), NEW W,
         NEW P \in [PartitionKey -> PartitionRuntime],
         CInv(stages, cancelled, P), Quiet(parts, P),
         NEW w, NEW k \in PartitionKey, NEW attempt \in 0 .. MaxTaskAttempts - 1,
         NEW s \in TaskState, NEW t \in Time,
         AcceptsUpdate(W, P, w, k, attempt, s, t),
         parts' = [P EXCEPT ![k] = UpdatedPartition(P[k], s)],
         UNCHANGED <<stages, cancelled>>
  PROVE  \/ Out(parts') = Out(parts)
         \/ \E blocks \in Outputs : Promise!Commit(k, attempt, blocks)
<1>1. P[k].state \in {"active", "cancelling"} /\ P[k].attempt = attempt
      /\ parts'[k] = UpdatedPartition(P[k], s) /\ P[k] \in PartitionRuntime
  BY DEF AcceptsUpdate, Leased
<1>2. \A j \in PartitionKey : j # k => parts'[j] = P[j]
  OBVIOUS
<1>3. Out(P) = Out(parts)
  BY QuietOut
<1>4. s.kind \in {"running", "succeeded", "failed", "cancelled"}
      /\ (s.kind = "succeeded" => s.blocks \in Outputs)
  BY DEF TaskState
<1>5. CASE ~ (s.kind = "succeeded" /\ P[k].state = "active")
  <2>1. parts'[k].state # "succeeded"
    <3>1. CASE s.kind = "running"
      BY <1>1, <3>1 DEF UpdatedPartition, PartitionRuntime
    <3>2. CASE s.kind # "running" /\ P[k].state = "cancelling"
      BY <1>1, <3>2 DEF UpdatedPartition, Cancelled, Unleased
    <3>3. CASE s.kind \in {"failed", "cancelled"} /\ P[k].state = "active"
      BY <1>1, <3>3 DEF UpdatedPartition, RetryOrFail, Pending, Failed, Cancelled,
                        Unleased
    <3> QED BY <1>1, <1>4, <1>5, <3>1, <3>2, <3>3
  <2>2. Quiet(P, parts')
    BY <1>1, <1>2, <2>1 DEF Quiet
  <2> QED BY <1>3, <2>2, QuietOut
<1>6. CASE s.kind = "succeeded" /\ P[k].state = "active"
  <2>1. s.blocks \in Outputs /\ s.blocks \in Seq(Nat)
    BY <1>4, <1>6, InputAssumption
  <2>2. parts'[k] = Succeeded(attempt, s.blocks)
    BY <1>1, <1>6 DEF UpdatedPartition
  <2>3. KeyOf(k) \in StageKey /\ KeyOf(k) = <<k[1], k[2]>> /\ KeyOf(k)[1] = k[1]
    BY DEF PartitionKey, KeyOf, StageKey
  <2>4. stages[KeyOf(k)] # NoStage /\ k[3] < stages[KeyOf(k)].partitions
    BY <1>6 DEF CInv, Shape
  <2>5. k[1] \notin cancelled
    BY <1>6 DEF CInv, Fence, Quiesced
  <2>6. Out(parts)[k] = NoOutput
    <3>1. parts[k].state # "succeeded"
      BY <1>6 DEF Quiet
    <3> QED BY <3>1 DEF Out
  <2>7. Promise!Complete(stages[KeyOf(k)], s.blocks)
    <3>1. OneBlockPerDestination(stages[KeyOf(k)], s.blocks)
      BY <1>6 DEF AcceptsUpdate
    <3>2. stages[KeyOf(k)] \in StagePlan
      BY <2>3, <2>4, PlanAssumption DEF TypeOK
    <3> QED BY <2>1, <3>1, <3>2, CompleteManifest
  <2>8. ASSUME NEW d \in stages[KeyOf(k)].inputs
        PROVE  Promise!Finished(<<k[1], d>>)
    <3> DEFINE e == <<k[1], d>>
    <3>1. DepsDone(stages, P, KeyOf(k))
      BY <1>6 DEF CInv, Gate, EverAssigned
    <3>2. stages[e] # NoStage
      BY <2>3, <3>1 DEF DepsDone
    <3>3. ASSUME NEW j \in PartitionKey, KeyOf(j) = e,
                 j[3] < stages[e].partitions
          PROVE  CommittedOutput[j] # NoOutput
      <4>1. P[j].state = "succeeded"
        BY <2>3, <3>1, <3>3 DEF DepsDone
      <4>2. parts[j].state = "succeeded"
        BY <4>1 DEF Quiet
      <4>3. parts[j].attempt \in Nat
        BY DEF TypeOK, PartitionRuntime
      <4> QED BY <4>2, <4>3 DEF CommittedOutput, NoOutput
    <3> QED BY <3>2, <3>3 DEF Promise!Finished, Promise!Members, Promise!StageOf, KeyOf
  <2>9. Out(parts') =
          [Out(parts) EXCEPT ![k] = [attempt |-> attempt, blocks |-> s.blocks]]
    <3>1. Out(parts')[k] = [attempt |-> attempt, blocks |-> s.blocks]
      BY <2>2 DEF Out, Succeeded, Unleased
    <3>2. \A j \in PartitionKey : j # k => Out(parts')[j] = Out(P)[j]
      BY <1>2 DEF Out
    <3>3. Out(parts) \in [PartitionKey -> {Out(parts)[j] : j \in PartitionKey}]
      BY DEF Out
    <3> QED BY <1>3, <3>1, <3>2, <3>3 DEF Out
  <2>10. CommittedOutput = Out(parts) /\ CommittedOutput' = Out(parts')
    BY DEF CommittedOutput, Out
  <2>11. Promise!Commit(k, attempt, s.blocks)
    <3>1. Promise!StageOf(k) = KeyOf(k)
      BY DEF Promise!StageOf, KeyOf
    <3>2. k \in Promise!Members(KeyOf(k))
      BY <2>4, <3>1 DEF Promise!Members
    <3> QED BY <2>4, <2>5, <2>6, <2>7, <2>8, <2>9, <2>10, <3>1, <3>2
            DEF Promise!Commit
  <2> QED BY <2>1, <2>11
<1> QED BY <1>5, <1>6

\* Every call is a step of OutputCommit or invisible to it.
LEMMA PromiseStep ==
  ASSUME TypeOK, CInv(stages, cancelled, parts), [Next]_vars
  PROVE  [Promise!ONext]_(Promise!ovars)
<1> DEFINE AW(t) == AdvancedWorkers(workers, parts, t)
           AP(t) == AdvancedParts(workers, parts, t)
<1>o. CommittedOutput = Out(parts) /\ CommittedOutput' = Out(parts')
  BY DEF CommittedOutput, Out
<1>q. ASSUME stages' = stages, cancelled' = cancelled, Out(parts') = Out(parts)
      PROVE  UNCHANGED Promise!ovars
  BY <1>o, <1>q DEF Promise!ovars
<1>0. ASSUME NEW t \in Time
      PROVE  /\ AP(t) \in [PartitionKey -> PartitionRuntime]
             /\ CInv(stages, cancelled, AP(t))
             /\ Quiet(parts, AP(t))
             /\ Out(AP(t)) = Out(parts)
  <2>1. AP(t) \in [PartitionKey -> PartitionRuntime]
    BY AdvanceType DEF TypeOK, TypeWP
  <2>2. CInv(stages, cancelled, AP(t))
    BY AdvanceMoves, MovesKeep DEF TypeOK
  <2>3. Quiet(parts, AP(t))
    BY AdvanceQuiet
  <2> QED BY <2>1, <2>2, <2>3, QuietOut
<1>1. ASSUME NEW plan \in StagePlans, SubmitStage(plan)
      PROVE  [Promise!ONext]_(Promise!ovars)
  <2>1. \A k \in PartitionKey :
          KeyOf(k) = <<plan.query, plan.stage>> => parts[k].state = "absent"
    BY <1>1 DEF SubmitStage, CInv, Shape
  <2>2. Quiet(parts, parts')
    BY <1>1, <2>1 DEF SubmitStage, Quiet, Pending, Unleased
  <2>3. CommittedOutput' = CommittedOutput
    BY <1>o, <2>2, QuietOut
  <2>4. Promise!Publish(plan)
    BY <1>1, <2>3 DEF SubmitStage, Promise!Publish
  <2> QED BY <2>4 DEF Promise!ONext
<1>2. ASSUME NEW q \in QueryId, CancelQuery(q)
      PROVE  [Promise!ONext]_(Promise!ovars)
  <2>1. ASSUME NEW p \in PartitionRuntime
        PROVE  /\ p.state = "succeeded" => CancelledPartition(p) = p
               /\ p.state # "succeeded" => CancelledPartition(p).state # "succeeded"
    <3>1. p.state = "succeeded" => CancelledPartition(p) = p
      BY DEF CancelledPartition
    <3>2. CASE p.state = "active"
      BY <3>2 DEF CancelledPartition, Cancelling, PartitionRuntime
    <3>3. CASE p.state \notin {"active", "succeeded"}
      BY <3>3 DEF CancelledPartition, Cancelled, Unleased
    <3> QED BY <3>1, <3>2, <3>3
  <2>2. Quiet(parts, parts')
    BY <1>2, <2>1 DEF CancelQuery, Quiet, TypeOK
  <2>3. CommittedOutput' = CommittedOutput
    BY <1>o, <2>2, QuietOut
  <2>4. PICK key \in StageKey : key[1] = q
    BY <1>2 DEF CancelQuery
  <2>5. Promise!Close(key[1])
    BY <1>2, <2>3, <2>4 DEF CancelQuery, Promise!Close
  <2> QED BY <2>5 DEF Promise!ONext
<1>3. ASSUME NEW t \in Time, AdvanceTime(t) PROVE UNCHANGED Promise!ovars
  BY <1>0, <1>3, <1>q DEF AdvanceTime
<1>a. ASSUME NEW t \in Time, NEW w, Assign(AW(t), AP(t), w, t)
      PROVE  Out(parts') = Out(parts)
  <2>1. Quiet(AP(t), parts')
    BY <1>0, <1>a, AssignQuiet
  <2>2. Out(parts') = Out(AP(t))
    BY <2>1, QuietOut
  <2> QED BY <1>0, <2>2
<1>4. ASSUME NEW t \in Time, NextAssignment(t) PROVE UNCHANGED Promise!ovars
  BY <1>4, <1>a, <1>q DEF NextAssignment
<1>5. ASSUME NEW t \in Time, NEW w \in WorkerId, NextAssignmentFor(w, t)
      PROVE  UNCHANGED Promise!ovars
  BY <1>5, <1>a, <1>q DEF NextAssignmentFor
<1>6. ASSUME NEW t \in Time, NEW w \in WorkerId, NEW slots \in SlotCounts,
             RegisterWorker(w, slots, t)
      PROVE  UNCHANGED Promise!ovars
  BY <1>0, <1>6, <1>q DEF RegisterWorker
<1>7. ASSUME NEW t \in Time, NEW w \in WorkerId, NEW observed \in Time,
             NEW available \in FreeCounts,
             RecordHeartbeat(w, observed, available, t)
      PROVE  UNCHANGED Promise!ovars
  BY <1>0, <1>7, <1>q DEF RecordHeartbeat
<1>8. ASSUME NEW t \in Time, NEW w \in WorkerId, NEW k \in PartitionKey,
             NEW attempt \in 0 .. MaxTaskAttempts - 1, NEW s \in TaskState,
             RecordTaskUpdate(w, k, attempt, s, t)
      PROVE  [Promise!ONext]_(Promise!ovars)
  <2>1. /\ AcceptsUpdate(AW(t), AP(t), w, k, attempt, s, t)
        /\ parts' = [AP(t) EXCEPT ![k] = UpdatedPartition(AP(t)[k], s)]
        /\ UNCHANGED <<stages, cancelled>>
    BY <1>8 DEF RecordTaskUpdate
  <2>2. \/ Out(parts') = Out(parts)
        \/ \E blocks \in Outputs : Promise!Commit(k, attempt, blocks)
    <3> HIDE DEF AW, AP
    <3> QED BY <1>0, <2>1, UpdateCommits
  <2> QED BY <1>q, <2>1, <2>2 DEF Promise!ONext
<1>9. CASE UNCHANGED vars
  BY <1>9, <1>q DEF vars, Out
<1> QED BY <1>1, <1>2, <1>3, <1>4, <1>5, <1>6, <1>7, <1>8, <1>9 DEF Next

\* The coordinator implements OutputCommit: to drivers it looks like single,
\* complete, dependency-ordered commits with none after a cancellation,
\* whatever workers, clocks and retries do (the whole of coordinator.rs).
THEOREM CoordinatorImplementsOutputCommit == Spec => ImplementsOutputCommit
<1>1. Init => Promise!OInit
  BY DEF Init, Promise!OInit, CommittedOutput, Absent, Unleased
<1>2. TypeOK /\ CInv(stages, cancelled, parts) /\ [Next]_vars
        => [Promise!ONext]_(Promise!ovars)
  BY PromiseStep
<1> QED BY <1>1, <1>2, CInvAlways, PTL
        DEF Spec, ImplementsOutputCommit, Promise!OSpec
=============================================================================
