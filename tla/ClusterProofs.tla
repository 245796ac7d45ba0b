---------------------------- MODULE ClusterProofs ----------------------------
(***************************************************************************)
(* Theorems about the coordinator and the remote workers together: slots,  *)
(* refusals, cancellations on their way and committed blocks.              *)
(*                                                                         *)
(* A worker's part of the invariant is stated over explicit arguments: its *)
(* identity w and record r at the coordinator, its phase ph, the tasks act *)
(* it runs, its poll ask and the assignment st under way, the queries owed *)
(* it has still to hear of, and the attempts sto whose blocks it holds;    *)
(* P is the coordinator's partitions.  A lemma about advance_time then     *)
(* composes with one about the change that follows, and a step of one      *)
(* worker leaves the others' part alone by rewriting.                      *)
(***************************************************************************)
EXTENDS CoordinatorProofs, Cluster, SequenceTheorems

Phases == {"down", "up", "stopping", "left", "gone", "refused", "turnedAway"}
Lease == [key: PartitionKey, attempt: Nat, issued: Time]
Task == [key: PartitionKey, attempt: Nat, issued: Time, token: BOOLEAN,
         status: Statuses]

Up(ph) == ph \in {"up", "stopping"}

\* The tasks a worker runs and the one it is about to run.
All(act, st) == act \cup {NewTask(lease) : lease \in st}

\* The queries whose cancellation is queued for w or about to be.
Owed(w) == {q \in QueryId : w \in notifying[q]}
             \cup {inbox[w][n] : n \in DOMAIN inbox[w]}

ClusterType ==
  /\ clock \in Time
  /\ phase \in [WorkerId -> Phases]
  /\ active \in [WorkerId -> SUBSET Task]
  /\ asking \in [WorkerId -> BOOLEAN]
  /\ starting \in [WorkerId -> SUBSET Lease]
  /\ told \in [WorkerId -> SUBSET QueryId]
  /\ inbox \in [WorkerId -> Seq(QueryId)]
  /\ notifying \in [QueryId -> SUBSET WorkerId]
  /\ stored \in [WorkerId -> SUBSET (PartitionKey \X Nat)]
  /\ ranOn \subseteq PartitionKey \X Nat \X WorkerId
  /\ restarts \in [WorkerId -> Nat]

-----------------------------------------------------------------------------
(* A worker's part of the invariant.                                       *)

\* The event loop is at one place at a time, and only while it runs.
LoopOK(ph, act, ask, st) ==
  /\ IsFiniteSet(act)
  /\ ph # "up" => ~ask /\ st = {}
  /\ ph \in {"down", "gone"} => act = {}
  /\ ask => st = {}
  /\ st # {} => \E lease \in st : st = {lease}

\* A slot is kept free for the assignment that is asked for or under way.
RoomOK(r, ph, act, ask, st) ==
  Up(ph) =>
    /\ r.status # "unknown"
    /\ Cardinality(act) + (IF ask \/ st # {} THEN 1 ELSE 0) <= r.slots

\* x is the attempt that the lease on its partition is for.
Matches(w, P, x) ==
  /\ Leased(P[x.key])
  /\ P[x.key].attempt = x.attempt
  /\ P[x.key].worker = w
  /\ P[x.key].issued = x.issued

\* The coordinator holds the lease of every task, or will answer its report
\* with TaskSuperseded.
TaskOK(w, P, x) == Matches(w, P, x) \/ Superseded(P[x.key], x.attempt)

TasksOK(w, P, ph, all) == Up(ph) => \A x \in all : TaskOK(w, P, x)

\* A worker has an attempt at most once.
UniqueOK(ph, act, st) ==
  Up(ph) =>
    /\ \A x, y \in act : x.key = y.key /\ x.attempt = y.attempt => x = y
    /\ \A x \in act, lease \in st : ~(x.key = lease.key /\ x.attempt = lease.attempt)

\* A live worker knows of every lease the coordinator has given it.
HeldOK(w, P, ph, all) ==
  Up(ph) => \A k \in LeasesOf(P, w) :
              \E x \in all : x.key = k /\ x.attempt = P[k].attempt

Stops(w, P, x) ==
  P[x.key].state = "cancelling" /\ P[x.key].attempt = x.attempt /\ P[x.key].worker = w

\* CancellationReaches.
ReachOK(w, P, ph, all, owed) ==
  Up(ph) => \A x \in all :
              Stops(w, P, x) /\ x.status = "running" => x.token \/ x.key[1] \in owed

\* A task that ended well has uploaded its blocks.
UploadOK(ph, act, sto) ==
  Up(ph) => \A x \in act : x.status = "ok" => <<x.key, x.attempt>> \in sto

WorkerOK(w, r, P, ph, act, ask, st, owed, sto) ==
  /\ LoopOK(ph, act, ask, st)
  /\ RoomOK(r, ph, act, ask, st)
  /\ TasksOK(w, P, ph, All(act, st))
  /\ UniqueOK(ph, act, st)
  /\ HeldOK(w, P, ph, All(act, st))
  /\ ReachOK(w, P, ph, All(act, st), owed)
  /\ UploadOK(ph, act, sto)

-----------------------------------------------------------------------------
(* The coordinator's part, given that its clock does not step back.        *)

\* Registered slot counts are those advertised, and heartbeats are not from the
\* future.
SeenOK(W, c) ==
  \A w \in WorkerId :
    W[w].observed <= c /\ (W[w].status # "unknown" => W[w].slots \in SlotCounts)

\* A lease was issued in the past, and its start reported as of its issue.
LeasesOK(P, c) ==
  \A k \in PartitionKey :
    Leased(P[k]) =>
      /\ P[k].worker \in WorkerId
      /\ P[k].issued <= c
      /\ P[k].issued < P[k].expires
      /\ P[k].started \in {NoTime, P[k].issued}

\* The attempts of a partition that were ever leased.
Issued(p, a) ==
  Superseded(p, a) \/ (p.state \in {"active", "cancelling", "succeeded"} /\ a = p.attempt)

\* An attempt was leased to one worker, a registered one; H is ranOn.
HistoryOK(W, P, H) ==
  /\ \A e \in H : W[e[3]].status # "unknown" /\ Issued(P[e[1]], e[2])
  /\ \A e, f \in H : e[1] = f[1] /\ e[2] = f[2] => e[3] = f[3]
  /\ \A k \in PartitionKey :
       Leased(P[k]) => <<k, P[k].attempt, P[k].worker>> \in H

\* CommittedBlocksServed, for one worker.
ServedOK(w, P, ph, sto, H) ==
  Up(ph) => \A k \in PartitionKey :
    P[k].state = "succeeded" /\ <<k, P[k].attempt, w>> \in H
      => <<k, P[k].attempt>> \in sto

Everyone(W, P) ==
  \A w \in WorkerId :
    /\ WorkerOK(w, W[w], P, phase[w], active[w], asking[w], starting[w], Owed(w),
                stored[w])
    /\ ServedOK(w, P, phase[w], stored[w], ranOn)

KInv(W, P) ==
  /\ SeenOK(W, clock)
  /\ LeasesOK(P, clock)
  /\ HistoryOK(W, P, ranOn)
  /\ Everyone(W, P)

\* The inductive invariant.
ClusterInv ==
  /\ TypeOK
  /\ CInv(stages, cancelled, parts)
  /\ Slots(workers, parts)
  /\ ClusterType
  /\ KInv(workers, parts)

-----------------------------------------------------------------------------
(* Partitions that fade: no lease is given and nothing is committed.       *)

Fades(p, q) ==
  /\ Leased(q) =>
       /\ Leased(p)
       /\ q.attempt = p.attempt /\ q.worker = p.worker
       /\ q.issued = p.issued /\ q.expires = p.expires
       /\ q.started \in {NoTime, p.started, p.issued}
  /\ Leased(p) => Leased(q) \/ Superseded(q, p.attempt)
  /\ \A a \in Nat : Superseded(p, a) => Superseded(q, a)
  /\ p.state = "succeeded" => q = p
  /\ q.state = "succeeded" => q = p

AllFade(P, Q) == \A k \in PartitionKey : Fades(P[k], Q[k])

\* No lease is newly wound down.
Calm(P, Q) ==
  \A k \in PartitionKey : Q[k].state = "cancelling" => P[k].state = "cancelling"

\* Nothing happens to a partition.
LEMMA FadeSame ==
  ASSUME NEW p
  PROVE  Fades(p, p)
BY DEF Fades

\* A lease that expires is retried, given up or wound down.
LEMMA FadeRetired ==
  ASSUME NEW p \in PartitionRuntime, Leased(p)
  PROVE  Fades(p, Retired(p)) /\ Retired(p).state # "cancelling"
<1>0. p.attempt \in Nat /\ p.state \in {"active", "cancelling"}
  BY DEF PartitionRuntime, Leased
<1>1. CASE p.state = "cancelling"
  <2>1. Retired(p).state = "cancelled"
    BY <1>1 DEF Retired, Cancelled, Unleased
  <2> QED BY <1>0, <2>1 DEF Fades, Leased, Superseded
<1>2. CASE p.state = "active"
  <2>1. \/ Retired(p).state = "pending" /\ Retired(p).attempt = p.attempt + 1
        \/ Retired(p).state = "failed" /\ Retired(p).attempt = p.attempt
    BY <1>2 DEF Retired, RetryOrFail, Pending, Failed, Unleased
  <2> QED BY <1>0, <1>2, <2>1 DEF Fades, Leased, Superseded
<1> QED BY <1>0, <1>1, <1>2

\* advance_time only lets partitions fade, and forgets no worker.
LEMMA AdvanceFades ==
  ASSUME NEW W, NEW P, TypeWP(W, P), NEW t \in Time
  PROVE  /\ AllFade(P, AdvancedParts(W, P, t))
         /\ Calm(P, AdvancedParts(W, P, t))
         /\ \A w \in WorkerId :
              LET r == AdvancedWorkers(W, P, t)[w]
              IN  /\ r.slots = W[w].slots /\ r.observed = W[w].observed
                  /\ r.status = "unknown" <=> W[w].status = "unknown"
<1>1. ASSUME NEW k \in PartitionKey
      PROVE  LET Q == AdvancedParts(W, P, t)
             IN  Fades(P[k], Q[k])
                   /\ (Q[k].state = "cancelling" => P[k].state = "cancelling")
  <2>1. AdvancedParts(W, P, t)[k] =
          IF k \in Expired(W, P, t) THEN Retired(P[k]) ELSE P[k]
    BY DEF AdvancedParts
  <2>2. k \in Expired(W, P, t) => Leased(P[k])
    BY DEF Expired
  <2>3. P[k] \in PartitionRuntime
    BY DEF TypeWP
  <2> QED BY <2>1, <2>2, <2>3, FadeSame, FadeRetired
<1>2. ASSUME NEW w \in WorkerId
      PROVE  LET r == AdvancedWorkers(W, P, t)[w]
             IN  /\ r.slots = W[w].slots /\ r.observed = W[w].observed
                 /\ r.status = "unknown" <=> W[w].status = "unknown"
  <2>1. W[w] \in WorkerRuntime
    BY DEF TypeWP
  <2>2. \A n : /\ Released(W[w], n).slots = W[w].slots
               /\ Released(W[w], n).observed = W[w].observed
               /\ Released(W[w], n).status = W[w].status
    BY <2>1 DEF Released, WorkerRuntime
  <2>3. CASE w \in TimedOut(W, t)
    BY <2>1, <2>3 DEF AdvancedWorkers, TimedOut, WorkerRuntime
  <2>4. CASE w \notin TimedOut(W, t)
    BY <2>2, <2>4 DEF AdvancedWorkers
  <2> QED BY <2>3, <2>4
<1> QED BY <1>1, <1>2 DEF AllFade, Calm

\* A worker's tasks stay accounted for when partitions fade.
LEMMA FadeTasks ==
  ASSUME NEW P \in [PartitionKey -> PartitionRuntime], NEW Q, AllFade(P, Q),
         NEW w, NEW x \in Task, TaskOK(w, P, x)
  PROVE  TaskOK(w, Q, x)
<1>1. x.key \in PartitionKey /\ x.attempt \in Nat
  BY DEF Task
<1>2. Fades(P[x.key], Q[x.key])
  BY <1>1 DEF AllFade
<1>3. CASE Superseded(P[x.key], x.attempt)
  BY <1>1, <1>2, <1>3 DEF Fades, TaskOK
<1>4. CASE Matches(w, P, x)
  <2>1. Leased(P[x.key]) /\ P[x.key].attempt = x.attempt /\ P[x.key].worker = w
        /\ P[x.key].issued = x.issued
    BY <1>4 DEF Matches
  <2>2. CASE Leased(Q[x.key])
    BY <1>2, <2>1, <2>2 DEF Fades, TaskOK, Matches
  <2>3. CASE Superseded(Q[x.key], x.attempt)
    BY <2>3 DEF TaskOK
  <2> QED BY <1>2, <2>1, <2>2, <2>3 DEF Fades
<1> QED BY <1>3, <1>4 DEF TaskOK

\* The tasks at hand are tasks.
LEMMA AllTasks ==
  ASSUME NEW act \in SUBSET Task, NEW st \in SUBSET Lease
  PROVE  All(act, st) \subseteq Task
<1>1. \A lease \in Lease : NewTask(lease) \in Task
  BY DEF Lease, NewTask, Task, Statuses
<1> QED BY <1>1 DEF All

\* A worker's part of the invariant survives fading, its cancellations aside.
LEMMA FadeButReach ==
  ASSUME NEW P \in [PartitionKey -> PartitionRuntime], NEW Q, AllFade(P, Q),
         NEW w, NEW r, NEW s,
         s.slots = r.slots, r.status # "unknown" => s.status # "unknown",
         NEW ph, NEW act \in SUBSET Task, NEW ask, NEW st \in SUBSET Lease,
         NEW owed, NEW sto, NEW H,
         WorkerOK(w, r, P, ph, act, ask, st, owed, sto), ServedOK(w, P, ph, sto, H),
         NEW due, ReachOK(w, Q, ph, All(act, st), due)
  PROVE  /\ WorkerOK(w, s, Q, ph, act, ask, st, due, sto)
         /\ ServedOK(w, Q, ph, sto, H)
<1> DEFINE all == All(act, st)
<1>0. all \subseteq Task
  BY AllTasks
<1>1. RoomOK(s, ph, act, ask, st)
  BY DEF WorkerOK, RoomOK
<1>2. TasksOK(w, Q, ph, all)
  BY <1>0, FadeTasks DEF WorkerOK, TasksOK
<1>3. HeldOK(w, Q, ph, all)
  <2> SUFFICES ASSUME Up(ph), NEW k \in LeasesOf(Q, w)
               PROVE  \E x \in all : x.key = k /\ x.attempt = Q[k].attempt
    BY DEF HeldOK
  <2>1. k \in PartitionKey /\ Leased(Q[k]) /\ Q[k].worker = w
    BY DEF LeasesOf
  <2>2. Leased(P[k]) /\ Q[k].attempt = P[k].attempt /\ P[k].worker = w
    BY <2>1 DEF AllFade, Fades
  <2>3. k \in LeasesOf(P, w)
    BY <2>1, <2>2 DEF LeasesOf
  <2> QED BY <2>2, <2>3 DEF WorkerOK, HeldOK
<1>4. ServedOK(w, Q, ph, sto, H)
  BY DEF ServedOK, AllFade, Fades
<1> QED BY <1>1, <1>2, <1>3, <1>4 DEF WorkerOK

\* If no lease is newly wound down, these stay on their way.
LEMMA FadeWorker ==
  ASSUME NEW P \in [PartitionKey -> PartitionRuntime], NEW Q, AllFade(P, Q),
         Calm(P, Q), NEW w, NEW r, NEW s,
         s.slots = r.slots, r.status # "unknown" => s.status # "unknown",
         NEW ph, NEW act \in SUBSET Task, NEW ask, NEW st \in SUBSET Lease,
         NEW owed, NEW sto, NEW H,
         WorkerOK(w, r, P, ph, act, ask, st, owed, sto), ServedOK(w, P, ph, sto, H)
  PROVE  /\ WorkerOK(w, s, Q, ph, act, ask, st, owed, sto)
         /\ ServedOK(w, Q, ph, sto, H)
<1> DEFINE all == All(act, st)
<1>0. all \subseteq Task
  BY AllTasks
<1>1. ReachOK(w, Q, ph, all, owed)
  <2> SUFFICES ASSUME Up(ph), NEW x \in all, Stops(w, Q, x), x.status = "running"
               PROVE  x.token \/ x.key[1] \in owed
    BY DEF ReachOK
  <2>1. x.key \in PartitionKey /\ Q[x.key].state = "cancelling"
    BY <1>0 DEF Task, Stops
  <2>2. Stops(w, P, x)
    BY <2>1 DEF Stops, Calm, AllFade, Fades, Leased
  <2> QED BY <2>2 DEF WorkerOK, ReachOK
<1> QED BY <1>1, FadeButReach

\* So do the coordinator's leases and the history of attempts.
LEMMA FadeGlobal ==
  ASSUME NEW W, NEW V, NEW P \in [PartitionKey -> PartitionRuntime], NEW Q,
         AllFade(P, Q),
         \A w \in WorkerId : W[w].status # "unknown" => V[w].status # "unknown",
         NEW c, NEW H \in SUBSET (PartitionKey \X Nat \X WorkerId),
         LeasesOK(P, c), HistoryOK(W, P, H)
  PROVE  LeasesOK(Q, c) /\ HistoryOK(V, Q, H)
<1>1. LeasesOK(Q, c)
  BY DEF LeasesOK, AllFade, Fades
<1>2. ASSUME NEW k \in PartitionKey, NEW a \in Nat, Issued(P[k], a)
      PROVE  Issued(Q[k], a)
  <2>0. Fades(P[k], Q[k]) /\ P[k] \in PartitionRuntime
    BY DEF AllFade
  <2>1. CASE Superseded(P[k], a)
    BY <2>0, <2>1 DEF Fades, Issued
  <2>2. CASE P[k].state = "succeeded" /\ a = P[k].attempt
    BY <2>0, <2>2 DEF Fades, Issued
  <2>3. CASE Leased(P[k]) /\ a = P[k].attempt
    BY <2>0, <2>3 DEF Fades, Issued, Leased
  <2> QED BY <1>2, <2>1, <2>2, <2>3 DEF Issued, Leased
<1>3. ASSUME NEW e \in H
      PROVE  V[e[3]].status # "unknown" /\ Issued(Q[e[1]], e[2])
  <2>1. e[1] \in PartitionKey /\ e[2] \in Nat /\ e[3] \in WorkerId
    OBVIOUS
  <2> QED BY <1>2, <2>1 DEF HistoryOK
<1>4. ASSUME NEW k \in PartitionKey, Leased(Q[k])
      PROVE  <<k, Q[k].attempt, Q[k].worker>> \in H
  BY <1>4 DEF AllFade, Fades, HistoryOK
<1> QED BY <1>1, <1>3, <1>4 DEF HistoryOK

-----------------------------------------------------------------------------
(* Calls.  Each begins with advance_time at the coordinator's clock.       *)

\* The invariant holds of the state advance_time leaves.
LEMMA Advanced ==
  ASSUME ClusterInv
  PROVE  /\ TypeWP(W0, P0) /\ CInv(stages, cancelled, P0) /\ Slots(W0, P0)
         /\ KInv(W0, P0)
         /\ AllFade(parts, P0) /\ Calm(parts, P0)
         /\ \A w \in WorkerId :
              /\ W0[w].slots = workers[w].slots
              /\ W0[w].observed = workers[w].observed
              /\ W0[w].status = "unknown" <=> workers[w].status = "unknown"
<1>0. TypeWP(workers, parts) /\ clock \in Time
  BY DEF ClusterInv, TypeOK, TypeWP, ClusterType
<1>1. TypeWP(W0, P0)
  BY <1>0, AdvanceType DEF W0, P0
<1>2. CInv(stages, cancelled, P0)
  BY <1>0, AdvanceMoves, MovesKeep DEF ClusterInv, TypeWP, P0
<1>3. Slots(W0, P0)
  BY <1>0, AdvanceSlots DEF ClusterInv, W0, P0
<1>4. /\ AllFade(parts, P0) /\ Calm(parts, P0)
      /\ \A w \in WorkerId :
           /\ W0[w].slots = workers[w].slots
           /\ W0[w].observed = workers[w].observed
           /\ W0[w].status = "unknown" <=> workers[w].status = "unknown"
  BY <1>0, AdvanceFades DEF W0, P0
<1>5. SeenOK(W0, clock)
  BY <1>4 DEF ClusterInv, KInv, SeenOK
<1>6. LeasesOK(P0, clock) /\ HistoryOK(W0, P0, ranOn)
  <2>1. ranOn \in SUBSET (PartitionKey \X Nat \X WorkerId)
    BY DEF ClusterInv, ClusterType
  <2> QED BY <1>0, <1>4, <2>1, FadeGlobal DEF ClusterInv, KInv, TypeWP
<1>7. Everyone(W0, P0)
  <2> SUFFICES ASSUME NEW w \in WorkerId
               PROVE  /\ WorkerOK(w, W0[w], P0, phase[w], active[w], asking[w],
                                  starting[w], Owed(w), stored[w])
                      /\ ServedOK(w, P0, phase[w], stored[w], ranOn)
    BY DEF Everyone
  <2>1. active[w] \in SUBSET Task /\ starting[w] \in SUBSET Lease
    BY DEF ClusterInv, ClusterType
  <2>2. /\ WorkerOK(w, workers[w], parts, phase[w], active[w], asking[w],
                    starting[w], Owed(w), stored[w])
        /\ ServedOK(w, parts, phase[w], stored[w], ranOn)
    BY DEF ClusterInv, KInv, Everyone
  <2> QED BY <1>0, <1>4, <2>1, <2>2, FadeWorker DEF TypeWP
<1> QED BY <1>1, <1>2, <1>3, <1>4, <1>5, <1>6, <1>7 DEF KInv

\* A lease that survives advance_time has not run out.
LEMMA AdvancedExpiry ==
  ASSUME TypeOK, clock \in Time, NEW k \in PartitionKey, Leased(P0[k])
  PROVE  clock < P0[k].expires
<1>0. parts[k] \in PartitionRuntime
  BY DEF TypeOK
<1>1. P0[k] = IF k \in Expired(workers, parts, clock) THEN Retired(parts[k])
              ELSE parts[k]
  BY DEF P0, AdvancedParts
<1>2. k \notin Expired(workers, parts, clock)
  BY <1>1 DEF Retired, RetryOrFail, Pending, Failed, Cancelled, Unleased, Leased
<1>3. P0[k] = parts[k] /\ ~(parts[k].expires <= clock)
  BY <1>1, <1>2 DEF Expired
<1>4. parts[k].expires \in Int /\ clock \in Int
  BY <1>0, ConfigAssumption DEF PartitionRuntime, Time
<1> QED BY <1>3, <1>4

\* x, a task or an assignment, reports state s on time.
Reports(x, s) ==
  /\ x.key \in PartitionKey /\ x.attempt \in Nat
  /\ s.at = x.issued
  /\ s.kind = "succeeded" => OneBlockPerDestination(stages[KeyOf(x.key)], s.blocks)

\* The report on a lease is accepted.
LEMMA ReportAccepted ==
  ASSUME ClusterInv, NEW w \in WorkerId, W0[w].status # "unknown", NEW x, NEW s,
         Reports(x, s), Matches(w, P0, x)
  PROVE  AcceptsUpdate(W0, P0, w, x.key, x.attempt, s, clock)
<1> DEFINE p == P0[x.key]
<1>1. Leased(p) /\ p.attempt = x.attempt /\ p.worker = w /\ p.issued = x.issued
  BY DEF Matches
<1>2. p.issued <= clock /\ p.issued < p.expires /\ p.started \in {NoTime, p.issued}
  BY <1>1, Advanced DEF KInv, LeasesOK, Reports
<1>3. clock < p.expires
  BY <1>1, AdvancedExpiry DEF ClusterInv, ClusterType, Reports
<1>4. p.issued \in Int
  <2>1. p \in PartitionRuntime
    BY Advanced DEF TypeWP, Reports
  <2> QED BY <2>1, ConfigAssumption DEF PartitionRuntime, Time
<1>5. ReportedTimeOK(p, s.at, clock)
  BY <1>1, <1>2, <1>4 DEF ReportedTimeOK, Reports
<1> QED BY <1>1, <1>2, <1>3, <1>5 DEF AcceptsUpdate, Reports

\* Any other report is not, and is answered with TaskSuperseded.
LEMMA ReportSuperseded ==
  ASSUME ClusterInv, NEW w, NEW x, NEW s, x.key \in PartitionKey, x.attempt \in Nat,
         TaskOK(w, P0, x), ~Matches(w, P0, x)
  PROVE  /\ ~AcceptsUpdate(W0, P0, w, x.key, x.attempt, s, clock)
         /\ Superseded(P0[x.key], x.attempt)
<1>1. Superseded(P0[x.key], x.attempt)
  BY DEF TaskOK
<1>2. P0[x.key] \in PartitionRuntime
  BY Advanced DEF TypeWP
<1> QED BY <1>1, <1>2 DEF Superseded, AcceptsUpdate, Leased, PartitionRuntime

\* The worker's own state decides the reply: no report is refused.
LEMMA ReplyIs ==
  ASSUME ClusterInv, NEW w \in WorkerId, W0[w].status # "unknown", NEW x, NEW s,
         Reports(x, s), TaskOK(w, P0, x)
  PROVE  /\ Reply(w, x, s) = IF Matches(w, P0, x) THEN "ok" ELSE "superseded"
         /\ PhaseAfter(w, Reply(w, x, s)) = phase
         /\ Handle(w, x, s) =
              IF Matches(w, P0, x)
              THEN RecordTaskUpdate(w, x.key, x.attempt, s, clock)
              ELSE AdvanceTime(clock)
<1>1. CASE Matches(w, P0, x)
  <2>1. Reply(w, x, s) = "ok"
    BY <1>1, ReportAccepted DEF Reply
  <2> QED BY <1>1, <2>1 DEF PhaseAfter, Handle
<1>2. CASE ~Matches(w, P0, x)
  <2>1. Reply(w, x, s) = "superseded"
    BY <1>2, ReportSuperseded DEF Reply, Reports
  <2> QED BY <1>2, <2>1 DEF PhaseAfter, Handle
<1> QED BY <1>1, <1>2

\* A manifest names every destination once.
LEMMA ManifestComplete ==
  ASSUME NEW plan \in StagePlan, NEW n
  PROVE  OneBlockPerDestination(plan, Manifest(plan, n))
<1>0. plan.exchange \in Nat
  BY DEF StagePlan
<1>1. CASE plan.exchange = 0
  BY <1>1 DEF OneBlockPerDestination
<1>2. CASE plan.exchange > 0
  <2> DEFINE m == [i \in 1 .. plan.exchange |-> i - 1]
  <2>1. Manifest(plan, n) = m
    BY <1>0, <1>2 DEF Manifest
  <2>2. m \in Seq(Nat) /\ Len(m) = plan.exchange /\ DOMAIN m = 1 .. plan.exchange
    <3>1. \A i \in 1 .. plan.exchange : i - 1 \in Nat
      OBVIOUS
    <3>2. m \in [1 .. plan.exchange -> Nat]
      BY <3>1
    <3>3. m \in Seq(Nat)
      BY <1>0, <3>2, SeqDef
    <3>4. DOMAIN m = 1 .. plan.exchange
      OBVIOUS
    <3> QED BY <1>0, <3>3, <3>4, LenProperties
  <2>3. ASSUME NEW d \in 0 .. plan.exchange - 1
        PROVE  \E i \in DOMAIN m : m[i] = d
    <3>1. d + 1 \in 1 .. plan.exchange /\ m[d + 1] = d
      BY <1>0
    <3> QED BY <2>2, <3>1
  <2> QED BY <2>1, <2>2, <2>3 DEF OneBlockPerDestination
<1> QED BY <1>0, <1>1, <1>2

\* What a finished task that still has its lease reports.
LEMMA TerminalReport ==
  ASSUME ClusterInv, NEW w \in WorkerId, Live(w), NEW x \in Task,
         x.status # "running"
  PROVE  LET s == TerminalState(w, x)
         IN  /\ s.kind \in {"succeeded", "failed", "cancelled"}
             /\ s.at = x.issued
             /\ s.kind = "succeeded" =>
                  x.status = "ok" /\ s.blocks = ManifestOf(x.key)
             /\ s.kind # "succeeded" => s.blocks = << >>
             /\ s.retryable \in BOOLEAN /\ (s.kind # "failed" => s.retryable = FALSE)
<1>1. x.status \in {"ok", "cancelled", "retryable", "fatal"}
  BY DEF Task, Statuses
<1>2. phase[w] \in {"up", "stopping"}
  BY DEF Live
<1> QED BY <1>1, <1>2 DEF TerminalState, Update

-----------------------------------------------------------------------------
(* One step of the invariant.                                              *)

KInvNext ==
  /\ SeenOK(workers', clock')
  /\ LeasesOK(parts', clock')
  /\ HistoryOK(workers', parts', ranOn')
  /\ \A w \in WorkerId :
       /\ WorkerOK(w, workers'[w], parts', phase'[w], active'[w], asking'[w],
                   starting'[w], Owed(w)', stored'[w])
       /\ ServedOK(w, parts', phase'[w], stored'[w], ranOn')

\* KInv of the next state, from its parts over the primed variables.
LEMMA KInvPrimed == KInvNext => KInv(workers, parts)'
<1>1. SeenOK(workers', clock') => SeenOK(workers, clock)'
  BY DEF SeenOK
<1>2. LeasesOK(parts', clock') => LeasesOK(parts, clock)'
  BY DEF LeasesOK, Leased
<1>3. HistoryOK(workers', parts', ranOn') => HistoryOK(workers, parts, ranOn)'
  BY DEF HistoryOK, Leased, Issued, Superseded
<1>4. ASSUME NEW w \in WorkerId
      PROVE  WorkerOK(w, workers'[w], parts', phase'[w], active'[w], asking'[w],
                      starting'[w], Owed(w)', stored'[w])
             => WorkerOK(w, workers[w], parts, phase[w], active[w], asking[w],
                         starting[w], Owed(w), stored[w])'
  BY DEF WorkerOK, LoopOK, RoomOK, TasksOK, TaskOK, Matches, Superseded, UniqueOK,
         HeldOK, ReachOK, Stops, UploadOK, LeasesOf, Leased, All, Up, NewTask
<1>5. ASSUME NEW w \in WorkerId
      PROVE  ServedOK(w, parts', phase'[w], stored'[w], ranOn')
             => ServedOK(w, parts, phase[w], stored[w], ranOn)'
  BY DEF ServedOK, Up
<1>6. ASSUME KInvNext PROVE Everyone(workers, parts)'
  BY <1>4, <1>5, <1>6 DEF KInvNext, Everyone
<1> QED BY <1>1, <1>2, <1>3, <1>6 DEF KInvNext, KInv

\* A step does nothing to worker v.
Idle(v) ==
  /\ phase'[v] = phase[v] /\ active'[v] = active[v] /\ asking'[v] = asking[v]
  /\ starting'[v] = starting[v] /\ stored'[v] = stored[v] /\ Owed(v)' = Owed(v)

\* A step of worker w that gives no lease and commits nothing.
LEMMA OneWorkerStep ==
  ASSUME ClusterInv, NEW W, NEW P \in [PartitionKey -> PartitionRuntime],
         KInv(W, P), AllFade(P, parts'), Calm(P, parts'),
         SeenOK(workers', clock), clock' = clock, ranOn' = ranOn,
         \A v \in WorkerId : W[v].status # "unknown" => workers'[v].status # "unknown",
         NEW w \in WorkerId,
         \A v \in WorkerId \ {w} : Idle(v) /\ workers'[v].slots = W[v].slots,
         WorkerOK(w, workers'[w], parts', phase'[w], active'[w], asking'[w],
                  starting'[w], Owed(w)', stored'[w]),
         ServedOK(w, parts', phase'[w], stored'[w], ranOn)
  PROVE  KInvNext
<1>1. ranOn \in SUBSET (PartitionKey \X Nat \X WorkerId)
  BY DEF ClusterInv, ClusterType
<1>2. LeasesOK(parts', clock') /\ HistoryOK(workers', parts', ranOn')
  BY <1>1, FadeGlobal DEF KInv
<1>3. ASSUME NEW v \in WorkerId, v # w
      PROVE  /\ WorkerOK(v, workers'[v], parts', phase'[v], active'[v], asking'[v],
                         starting'[v], Owed(v)', stored'[v])
             /\ ServedOK(v, parts', phase'[v], stored'[v], ranOn')
  <2>1. active[v] \in SUBSET Task /\ starting[v] \in SUBSET Lease
    BY DEF ClusterInv, ClusterType
  <2>2. /\ WorkerOK(v, W[v], P, phase[v], active[v], asking[v], starting[v], Owed(v),
                    stored[v])
        /\ ServedOK(v, P, phase[v], stored[v], ranOn)
    BY DEF KInv, Everyone
  <2>3. /\ workers'[v].slots = W[v].slots
        /\ W[v].status # "unknown" => workers'[v].status # "unknown"
    BY <1>3
  <2>4. /\ WorkerOK(v, workers'[v], parts', phase[v], active[v], asking[v],
                    starting[v], Owed(v), stored[v])
        /\ ServedOK(v, parts', phase[v], stored[v], ranOn)
    BY <2>1, <2>2, <2>3, FadeWorker
  <2> QED BY <1>3, <2>4 DEF Idle
<1> QED BY <1>2, <1>3 DEF KInvNext

\* A step of worker w alone.
LEMMA LocalStep ==
  ASSUME ClusterInv, UNCHANGED <<vars, clock, ranOn>>, NEW w \in WorkerId,
         \A v \in WorkerId \ {w} : Idle(v),
         WorkerOK(w, workers[w], parts, phase'[w], active'[w], asking'[w],
                  starting'[w], Owed(w)', stored'[w]),
         ServedOK(w, parts, phase'[w], stored'[w], ranOn)
  PROVE  KInvNext
<1>1. workers' = workers /\ parts' = parts /\ clock' = clock /\ ranOn' = ranOn
  BY DEF vars
<1>2. AllFade(parts, parts') /\ Calm(parts, parts')
  BY <1>1, FadeSame DEF AllFade, Calm
<1>3. KInv(workers, parts) /\ parts \in [PartitionKey -> PartitionRuntime]
      /\ SeenOK(workers, clock)
  BY DEF ClusterInv, KInv, TypeOK
<1> QED BY <1>1, <1>2, <1>3, OneWorkerStep

\* A worker that does not run promises nothing.
LEMMA DownOK ==
  ASSUME NEW ph, ~Up(ph), NEW w, NEW r, NEW P, NEW owed, NEW sto, NEW H,
         NEW act, IsFiniteSet(act), ph \in {"down", "gone"} => act = {}
  PROVE  WorkerOK(w, r, P, ph, act, FALSE, {}, owed, sto) /\ ServedOK(w, P, ph, sto, H)
BY DEF WorkerOK, ServedOK, LoopOK, RoomOK, TasksOK, UniqueOK, HeldOK, ReachOK,
       UploadOK, Up

-----------------------------------------------------------------------------
(* What a worker does by itself.                                           *)

\* Worker w's part of the invariant.
LEMMA Mine ==
  ASSUME ClusterInv, NEW w \in WorkerId
  PROVE  /\ WorkerOK(w, workers[w], parts, phase[w], active[w], asking[w],
                     starting[w], Owed(w), stored[w])
         /\ ServedOK(w, parts, phase[w], stored[w], ranOn)
         /\ active[w] \in SUBSET Task /\ starting[w] \in SUBSET Lease
         /\ IsFiniteSet(active[w]) /\ Cardinality(active[w]) \in Nat
         /\ workers[w].slots \in Nat
<1>1. WorkerOK(w, workers[w], parts, phase[w], active[w], asking[w], starting[w],
               Owed(w), stored[w])
      /\ ServedOK(w, parts, phase[w], stored[w], ranOn)
  BY DEF ClusterInv, KInv, Everyone
<1>2. IsFiniteSet(active[w])
  BY <1>1 DEF WorkerOK, LoopOK
<1>3. workers[w].slots \in Nat
  BY DEF ClusterInv, TypeOK, WorkerRuntime
<1> QED BY <1>1, <1>2, <1>3, FS_CardinalityType DEF ClusterInv, ClusterType

\* Nothing is queued.
LEMMA OwedSame ==
  ASSUME UNCHANGED serviceVars, NEW v
  PROVE  Owed(v)' = Owed(v)
BY DEF serviceVars, Owed

IsImage(F, S, T) == T = {F[x] : x \in S}

\* The image of a finite set is no larger.
LEMMA ImageSize ==
  ASSUME NEW S, IsFiniteSet(S), NEW F, NEW T, IsImage(F, S, T)
  PROVE  /\ IsFiniteSet(T) /\ Cardinality(T) \in Nat /\ Cardinality(S) \in Nat
         /\ Cardinality(T) <= Cardinality(S)
<1> DEFINE G == [x \in S |-> F[x]]
<1>1. G \in Surjection(S, T)
  BY DEF Surjection, IsImage
<1> QED BY <1>1, FS_Surjection, FS_CardinalityType

\* F changes the token or the status of tasks.
Retouches(F, act, new) ==
  /\ F \in [act -> Task]
  /\ \A x \in act : /\ F[x].key = x.key /\ F[x].attempt = x.attempt
                    /\ F[x].issued = x.issued
  /\ IsImage(F, act, new)

\* Tasks whose token or status changes remain the same attempts.
LEMMA Rewritten ==
  ASSUME NEW w, NEW r, r.slots \in Nat, NEW P, NEW ph, NEW act \in SUBSET Task,
         NEW ask, NEW st, NEW owed, NEW sto,
         WorkerOK(w, r, P, ph, act, ask, st, owed, sto), Up(ph),
         NEW after, Up(after), LoopOK(after, act, ask, st),
         NEW F, NEW new, Retouches(F, act, new)
  PROVE  /\ LoopOK(after, new, ask, st)
         /\ RoomOK(r, after, new, ask, st)
         /\ TasksOK(w, P, after, All(new, st))
         /\ UniqueOK(after, new, st)
         /\ HeldOK(w, P, after, All(new, st))
<1>0. IsFiniteSet(act)
  BY DEF WorkerOK, LoopOK
<1>1. IsFiniteSet(new) /\ Cardinality(new) <= Cardinality(act)
      /\ Cardinality(new) \in Nat /\ Cardinality(act) \in Nat
  BY <1>0, ImageSize DEF Retouches
<1> USE DEF Retouches, IsImage
<1>2. LoopOK(after, new, ask, st)
  BY <1>1 DEF WorkerOK, LoopOK, Up
<1>3. RoomOK(r, after, new, ask, st)
  <2> DEFINE i == IF ask \/ st # {} THEN 1 ELSE 0
  <2>1. Cardinality(act) + i <= r.slots /\ r.status # "unknown"
    BY DEF WorkerOK, RoomOK
  <2>2. i \in Nat
    OBVIOUS
  <2> HIDE DEF i
  <2>3. Cardinality(new) + i <= r.slots
    BY <1>1, <2>1, <2>2
  <2> QED BY <2>1, <2>3 DEF RoomOK, i
<1>4. TasksOK(w, P, after, All(new, st))
  <2>1. \A x \in act : TaskOK(w, P, F[x])
    BY DEF WorkerOK, TasksOK, TaskOK, Matches, All
  <2>2. \A lease \in st : TaskOK(w, P, NewTask(lease))
    BY DEF WorkerOK, TasksOK, All
  <2> QED BY <2>1, <2>2 DEF TasksOK, All
<1>5. UniqueOK(after, new, st)
  BY DEF WorkerOK, UniqueOK
<1>6. HeldOK(w, P, after, All(new, st))
  <2> SUFFICES ASSUME NEW k \in LeasesOf(P, w)
               PROVE  \E x \in All(new, st) : x.key = k /\ x.attempt = P[k].attempt
    BY DEF HeldOK
  <2>1. PICK x \in All(act, st) : x.key = k /\ x.attempt = P[k].attempt
    BY DEF WorkerOK, HeldOK
  <2>2. CASE x \in act
    <3>1. F[x] \in All(new, st)
      BY <2>2 DEF All
    <3> QED BY <2>1, <2>2, <3>1
  <2>3. CASE x \notin act
    BY <2>1, <2>3 DEF All
  <2> QED BY <2>2, <2>3
<1> QED BY <1>2, <1>3, <1>4, <1>5, <1>6

\* The process dies.
LEMMA CrashStep ==
  ASSUME ClusterInv, NEW w \in WorkerId, Crash(w)
  PROVE  KInvNext
<1>1. \A v \in WorkerId : Owed(v)' = Owed(v)
  BY OwedSame DEF Crash
<1>2. \A v \in WorkerId \ {w} : Idle(v)
  BY <1>1 DEF Crash, Idle, ClusterInv, ClusterType
<1>3. /\ phase'[w] = "gone" /\ active'[w] = {} /\ asking'[w] = FALSE
      /\ starting'[w] = {} /\ stored'[w] = stored[w]
      /\ UNCHANGED <<vars, clock, ranOn>>
  BY DEF Crash, ClusterInv, ClusterType
<1>4. ~Up("gone")
  BY DEF Up
<1>6. /\ WorkerOK(w, workers[w], parts, "gone", {}, FALSE, {}, Owed(w)', stored[w])
      /\ ServedOK(w, parts, "gone", stored[w], ranOn)
  BY <1>4, DownOK, FS_EmptySet
<1> QED BY <1>2, <1>3, <1>6, LocalStep

\* The same worker is started again.
LEMMA RestartStep ==
  ASSUME ClusterInv, NEW w \in WorkerId, Restart(w)
  PROVE  KInvNext
<1>1. \A v \in WorkerId : Owed(v)' = Owed(v)
  BY OwedSame DEF Restart
<1>2. \A v \in WorkerId \ {w} : Idle(v)
  BY <1>1 DEF Restart, Idle, ClusterInv, ClusterType
<1>3. phase[w] = "gone" /\ phase'[w] = "down" /\ stored'[w] = stored[w]
      /\ UNCHANGED <<vars, clock, ranOn>>
  BY DEF Restart, ClusterInv, ClusterType
<1>4. active'[w] = {} /\ asking'[w] = FALSE /\ starting'[w] = {}
  BY <1>3, Mine DEF WorkerOK, LoopOK, Restart, ClusterInv, ClusterType
<1>5. ~Up("down")
  BY DEF Up
<1>6. /\ WorkerOK(w, workers[w], parts, "down", {}, FALSE, {}, Owed(w)', stored[w])
      /\ ServedOK(w, parts, "down", stored[w], ranOn)
  BY <1>5, DownOK, FS_EmptySet
<1> QED BY <1>2, <1>3, <1>4, <1>6, LocalStep

\* The loop ends.
LEMMA LeaveStep ==
  ASSUME ClusterInv, NEW w \in WorkerId, Leave(w)
  PROVE  KInvNext
<1>1. \A v \in WorkerId : Owed(v)' = Owed(v)
  BY OwedSame DEF Leave
<1>2. \A v \in WorkerId \ {w} : Idle(v)
  BY <1>1 DEF Leave, Idle, ClusterInv, ClusterType
<1>3. phase[w] = "stopping" /\ phase'[w] = "left" /\ stored'[w] = stored[w]
      /\ active'[w] = {} /\ UNCHANGED <<vars, clock, ranOn>>
  BY DEF Leave, ClusterInv, ClusterType
<1>4. asking'[w] = FALSE /\ starting'[w] = {}
  BY <1>3, Mine DEF WorkerOK, LoopOK, Leave, ClusterInv, ClusterType
<1>5. ~Up("left")
  BY DEF Up
<1>6. /\ WorkerOK(w, workers[w], parts, "left", {}, FALSE, {}, Owed(w)', stored[w])
      /\ ServedOK(w, parts, "left", stored[w], ranOn)
  BY <1>5, DownOK, FS_EmptySet
<1> QED BY <1>2, <1>3, <1>4, <1>6, LocalStep

\* Every token is cancelled at shutdown.
LEMMA ShutdownStep ==
  ASSUME ClusterInv, NEW w \in WorkerId, Shutdown(w)
  PROVE  KInvNext
<1>1. \A v \in WorkerId : Owed(v)' = Owed(v)
  BY OwedSame DEF Shutdown
<1>2. \A v \in WorkerId \ {w} : Idle(v)
  BY <1>1 DEF Shutdown, Idle, ClusterInv, ClusterType
<1>3. /\ phase[w] = "up" /\ phase'[w] = "stopping" /\ stored'[w] = stored[w]
      /\ active'[w] = CancelTokens(active[w]) /\ asking'[w] = asking[w]
      /\ starting'[w] = starting[w] /\ UNCHANGED <<vars, clock, ranOn>>
      /\ asking[w] = FALSE /\ starting[w] = {}
  BY DEF Shutdown, InLoop, ClusterInv, ClusterType
<1> DEFINE F == [x \in active[w] |-> [x EXCEPT !.token = TRUE]]
           new == {F[x] : x \in active[w]}
<1>4. /\ F \in [active[w] -> Task]
      /\ \A x \in active[w] : /\ F[x].key = x.key /\ F[x].attempt = x.attempt
                              /\ F[x].issued = x.issued /\ F[x].token = TRUE
                              /\ F[x].status = x.status
  BY Mine DEF Task
<1>5. active'[w] = new
  BY <1>3 DEF CancelTokens
<1>6. Up("up") /\ Up("stopping")
  BY DEF Up
<1>7. /\ LoopOK("stopping", new, asking[w], starting[w])
      /\ RoomOK(workers[w], "stopping", new, asking[w], starting[w])
      /\ TasksOK(w, parts, "stopping", All(new, starting[w]))
      /\ UniqueOK("stopping", new, starting[w])
      /\ HeldOK(w, parts, "stopping", All(new, starting[w]))
  <2>1. Retouches(F, active[w], new)
    BY <1>4, <1>6 DEF Retouches, IsImage
  <2>2. LoopOK(phase'[w], active[w], asking[w], starting[w])
    BY <1>3, Mine DEF WorkerOK, LoopOK
  <2>3. Up(phase[w]) /\ Up(phase'[w])
    BY <1>3, <1>6
  <2> HIDE DEF F, new
  <2>4. /\ LoopOK(phase'[w], new, asking[w], starting[w])
        /\ RoomOK(workers[w], phase'[w], new, asking[w], starting[w])
        /\ TasksOK(w, parts, phase'[w], All(new, starting[w]))
        /\ UniqueOK(phase'[w], new, starting[w])
        /\ HeldOK(w, parts, phase'[w], All(new, starting[w]))
    BY <2>1, <2>2, <2>3, Mine, Rewritten
  <2> QED BY <1>3, <2>4
<1>8. ReachOK(w, parts, "stopping", All(new, starting[w]), Owed(w))
  <2>1. All(new, starting[w]) = new
    BY <1>3 DEF All
  <2> HIDE DEF F
  <2>2. \A y \in new : y.token
    BY <1>4
  <2> QED BY <2>1, <2>2 DEF ReachOK
<1>9. UploadOK("stopping", new, stored[w])
  <2>1. \A x \in active[w] : x.status = "ok" => <<x.key, x.attempt>> \in stored[w]
    BY <1>3, <1>6, Mine DEF WorkerOK, UploadOK
  <2> HIDE DEF F
  <2> QED BY <1>4, <2>1 DEF UploadOK
<1>10. ServedOK(w, parts, "stopping", stored[w], ranOn)
  BY <1>3, <1>6, Mine DEF ServedOK
<1>11. WorkerOK(w, workers[w], parts, "stopping", new, asking[w], starting[w], Owed(w),
                stored[w])
  BY <1>7, <1>8, <1>9 DEF WorkerOK
<1> HIDE DEF new
<1> QED BY <1>1, <1>2, <1>3, <1>5, <1>10, <1>11, LocalStep

\* A queued cancellation is delivered.
LEMMA PollCancellationStep ==
  ASSUME ClusterInv, NEW w \in WorkerId, PollCancellation(w)
  PROVE  KInvNext
<1> DEFINE q == Head(inbox[w])
<1>0. inbox[w] \in Seq(QueryId) /\ inbox[w] # << >>
  BY DEF PollCancellation, ClusterInv, ClusterType
<1>1. \A v \in WorkerId \ {w} : Owed(v)' = Owed(v)
  BY DEF PollCancellation, Owed, ClusterInv, ClusterType
<1>2. \A v \in WorkerId \ {w} : Idle(v)
  BY <1>1 DEF PollCancellation, Idle, ClusterInv, ClusterType
<1>3. /\ phase[w] = "up" /\ phase'[w] = "up" /\ stored'[w] = stored[w]
      /\ asking'[w] = asking[w] /\ starting'[w] = starting[w]
      /\ UNCHANGED <<vars, clock, ranOn>>
      /\ asking[w] = FALSE /\ starting[w] = {}
      /\ inbox'[w] = Tail(inbox[w]) /\ notifying' = notifying
  BY DEF PollCancellation, InLoop, ClusterInv, ClusterType
<1> DEFINE F == [x \in active[w] |->
                   IF QueryOf(x) = q THEN [x EXCEPT !.token = TRUE] ELSE x]
           new == {F[x] : x \in active[w]}
<1>4. /\ F \in [active[w] -> Task]
      /\ \A x \in active[w] :
           /\ F[x].key = x.key /\ F[x].attempt = x.attempt
           /\ F[x].issued = x.issued /\ F[x].status = x.status
           /\ x.token => F[x].token
           /\ x.key[1] = q => F[x].token
  BY ZenonT(60), Mine DEF Task, QueryOf
<1>5. active'[w] = new
  BY DEF PollCancellation, ClusterInv, ClusterType
<1>6. Up("up")
  BY DEF Up
<1>7. /\ LoopOK("up", new, asking[w], starting[w])
      /\ RoomOK(workers[w], "up", new, asking[w], starting[w])
      /\ TasksOK(w, parts, "up", All(new, starting[w]))
      /\ UniqueOK("up", new, starting[w])
      /\ HeldOK(w, parts, "up", All(new, starting[w]))
  <2>1. Retouches(F, active[w], new)
    BY <1>4, <1>6 DEF Retouches, IsImage
  <2>2. LoopOK(phase'[w], active[w], asking[w], starting[w])
    BY <1>3, Mine DEF WorkerOK, LoopOK
  <2>3. Up(phase[w]) /\ Up(phase'[w])
    BY <1>3, <1>6
  <2> HIDE DEF F, new
  <2>4. /\ LoopOK(phase'[w], new, asking[w], starting[w])
        /\ RoomOK(workers[w], phase'[w], new, asking[w], starting[w])
        /\ TasksOK(w, parts, phase'[w], All(new, starting[w]))
        /\ UniqueOK(phase'[w], new, starting[w])
        /\ HeldOK(w, parts, phase'[w], All(new, starting[w]))
    BY <2>1, <2>2, <2>3, Mine, Rewritten
  <2> QED BY <1>3, <2>4
<1>8. Owed(w) \subseteq Owed(w)' \cup {q}
  <2>1. ASSUME NEW n \in DOMAIN inbox[w], inbox[w][n] # q
        PROVE  \E m \in DOMAIN Tail(inbox[w]) : Tail(inbox[w])[m] = inbox[w][n]
    <3>1. n \in 1 .. Len(inbox[w]) /\ q = inbox[w][1] /\ Len(inbox[w]) \in Nat
      BY <1>0, LenProperties
    <3>2. n - 1 \in 1 .. Len(Tail(inbox[w]))
      BY <1>0, <2>1, <3>1, HeadTailProperties
    <3>3. Tail(inbox[w])[n - 1] = inbox[w][n]
      BY <1>0, <3>1, <3>2, HeadTailProperties
    <3>4. n - 1 \in DOMAIN Tail(inbox[w])
      BY <1>0, <3>2, HeadTailProperties, LenProperties
    <3> QED BY <3>3, <3>4
  <2> QED BY <1>3, <2>1 DEF Owed
<1>9. ReachOK(w, parts, "up", All(new, starting[w]), Owed(w)')
  <2> SUFFICES ASSUME NEW x \in active[w], Stops(w, parts, F[x]),
                      F[x].status = "running"
               PROVE  F[x].token \/ F[x].key[1] \in Owed(w)'
    BY <1>3 DEF ReachOK, All
  <2> HIDE DEF F, q
  <2>1. Stops(w, parts, x) /\ x.status = "running"
    BY <1>4 DEF Stops
  <2>2. x.token \/ x.key[1] \in Owed(w)
    BY <1>3, <1>6, <2>1, Mine DEF WorkerOK, ReachOK, All
  <2> QED BY <1>4, <1>8, <2>2
<1>10. UploadOK("up", new, stored[w])
  <2>1. \A x \in active[w] : x.status = "ok" => <<x.key, x.attempt>> \in stored[w]
    BY <1>3, <1>6, Mine DEF WorkerOK, UploadOK
  <2> HIDE DEF F
  <2> QED BY <1>4, <2>1 DEF UploadOK
<1>11. ServedOK(w, parts, "up", stored[w], ranOn)
  BY <1>3, <1>6, Mine DEF ServedOK
<1>12. WorkerOK(w, workers[w], parts, "up", new, asking[w], starting[w], Owed(w)',
                stored[w])
  BY <1>7, <1>9, <1>10 DEF WorkerOK
<1> HIDE DEF new
<1> QED BY <1>2, <1>3, <1>5, <1>11, <1>12, LocalStep

\* The poll goes on to look for work: the worker has a slot to spare.
LEMMA PollFindsNoMessageStep ==
  ASSUME ClusterInv, NEW w \in WorkerId, PollFindsNoMessage(w)
  PROVE  KInvNext
<1>1. \A v \in WorkerId : Owed(v)' = Owed(v)
  BY OwedSame DEF PollFindsNoMessage
<1>2. \A v \in WorkerId \ {w} : Idle(v)
  BY <1>1 DEF PollFindsNoMessage, Idle, ClusterInv, ClusterType
<1>3. /\ phase[w] = "up" /\ phase'[w] = "up" /\ stored'[w] = stored[w]
      /\ active'[w] = active[w] /\ asking'[w] = TRUE
      /\ starting'[w] = {} /\ UNCHANGED <<vars, clock, ranOn>>
      /\ starting[w] = {} /\ Cardinality(active[w]) < workers[w].slots
  BY DEF PollFindsNoMessage, InLoop, HasRoom, ClusterInv, ClusterType
<1>4. RoomOK(workers[w], "up", active[w], TRUE, {})
  <2>1. Cardinality(active[w]) + 1 <= workers[w].slots
    BY <1>3, Mine
  <2> QED BY <1>3, <2>1, Mine DEF WorkerOK, RoomOK
<1>5. LoopOK("up", active[w], TRUE, {})
  BY Mine DEF LoopOK
<1>6. WorkerOK(w, workers[w], parts, "up", active[w], TRUE, {}, Owed(w), stored[w])
  BY <1>3, <1>4, <1>5, Mine DEF WorkerOK
<1>7. ServedOK(w, parts, "up", stored[w], ranOn)
  BY <1>3, Mine
<1> QED BY <1>1, <1>2, <1>3, <1>6, <1>7, LocalStep

\* A task ends.
LEMMA TaskEndsStep ==
  ASSUME ClusterInv, NEW w \in WorkerId, NEW x \in active[w],
         NEW status \in Statuses \ {"running"}, TaskEnds(w, x, status)
  PROVE  KInvNext
<1>1. \A v \in WorkerId : Owed(v)' = Owed(v)
  BY OwedSame DEF TaskEnds
<1>2. \A v \in WorkerId \ {w} : Idle(v)
  BY <1>1 DEF TaskEnds, Idle, ClusterInv, ClusterType
<1>3. /\ Up(phase[w]) /\ phase'[w] = phase[w]
      /\ active'[w] = (active[w] \ {x}) \cup {Ended(x, status)}
      /\ asking'[w] = asking[w] /\ starting'[w] = starting[w]
      /\ UNCHANGED <<vars, clock, ranOn>>
  BY DEF TaskEnds, Live, Up, ClusterInv, ClusterType
<1>4. stored[w] \subseteq stored'[w]
      /\ (status = "ok" => <<x.key, x.attempt>> \in stored'[w])
  BY DEF TaskEnds, ClusterInv, ClusterType
<1> DEFINE F == [y \in active[w] |-> IF y = x THEN Ended(x, status) ELSE y]
           new == {F[y] : y \in active[w]}
<1>5. Ended(x, status) \in Task /\ Ended(x, status).key = x.key
      /\ Ended(x, status).attempt = x.attempt /\ Ended(x, status).issued = x.issued
      /\ Ended(x, status).status = status
  <2>1. x \in Task
    BY Mine
  <2> QED BY <2>1 DEF Ended, Task
<1>6. /\ F \in [active[w] -> Task]
      /\ \A y \in active[w] : /\ F[y].key = y.key /\ F[y].attempt = y.attempt
                              /\ F[y].issued = y.issued
  BY <1>5, Mine
<1>7. active'[w] = new
  BY <1>3
<1>8. /\ LoopOK(phase[w], new, asking[w], starting[w])
      /\ RoomOK(workers[w], phase[w], new, asking[w], starting[w])
      /\ TasksOK(w, parts, phase[w], All(new, starting[w]))
      /\ UniqueOK(phase[w], new, starting[w])
      /\ HeldOK(w, parts, phase[w], All(new, starting[w]))
  <2>1. LoopOK(phase[w], active[w], asking[w], starting[w])
    BY Mine DEF WorkerOK
  <2>2. Retouches(F, active[w], new)
    BY <1>4, <1>6 DEF Retouches, IsImage
  <2> HIDE DEF F, new
  <2> QED BY <1>3, <2>1, <2>2, Mine, Rewritten
<1>9. ReachOK(w, parts, phase[w], All(new, starting[w]), Owed(w))
  <2> SUFFICES ASSUME NEW y \in All(new, starting[w]), Stops(w, parts, y),
                      y.status = "running"
               PROVE  y.token \/ y.key[1] \in Owed(w)
    BY DEF ReachOK
  <2>1. y \in All(active[w], starting[w])
    BY <1>5 DEF All
  <2> QED BY <1>3, <2>1, Mine DEF WorkerOK, ReachOK
<1>10. UploadOK(phase[w], new, stored'[w])
  <2> SUFFICES ASSUME NEW y \in new, y.status = "ok"
               PROVE  <<y.key, y.attempt>> \in stored'[w]
    BY DEF UploadOK
  <2>1. CASE y \in active[w]
    BY <1>3, <1>4, <2>1, Mine DEF WorkerOK, UploadOK
  <2>2. CASE y = Ended(x, status)
    BY <1>4, <1>5, <2>2
  <2> QED BY <2>1, <2>2
<1>11. ServedOK(w, parts, phase[w], stored'[w], ranOn)
  BY <1>4, Mine DEF ServedOK
<1>12. WorkerOK(w, workers[w], parts, phase[w], new, asking[w], starting[w], Owed(w),
                stored'[w])
  BY <1>8, <1>9, <1>10 DEF WorkerOK
<1> HIDE DEF new
<1> QED BY <1>1, <1>2, <1>3, <1>7, <1>11, <1>12, LocalStep

-----------------------------------------------------------------------------
(* Calls that give no lease and commit nothing.                            *)

\* Worker w's part after advance_time.
LEMMA MineAdvanced ==
  ASSUME ClusterInv, NEW w \in WorkerId
  PROVE  /\ WorkerOK(w, W0[w], P0, phase[w], active[w], asking[w], starting[w],
                     Owed(w), stored[w])
         /\ ServedOK(w, P0, phase[w], stored[w], ranOn)
         /\ P0 \in [PartitionKey -> PartitionRuntime]
BY Advanced DEF KInv, Everyone, TypeWP

\* A call of worker w.
LEMMA CallStep ==
  ASSUME ClusterInv, AllFade(P0, parts'), Calm(P0, parts'), SeenOK(workers', clock),
         clock' = clock, ranOn' = ranOn,
         \A v \in WorkerId : W0[v].status # "unknown" => workers'[v].status # "unknown",
         NEW w \in WorkerId,
         \A v \in WorkerId \ {w} : Idle(v) /\ workers'[v].slots = W0[v].slots,
         WorkerOK(w, workers'[w], parts', phase'[w], active'[w], asking'[w],
                  starting'[w], Owed(w)', stored'[w]),
         ServedOK(w, parts', phase'[w], stored'[w], ranOn)
  PROVE  KInvNext
BY Advanced, OneWorkerStep DEF TypeWP

\* A call of which only advance_time is left.
LEMMA AdvanceStep ==
  ASSUME ClusterInv, AdvanceTime(clock), clock' = clock, ranOn' = ranOn,
         NEW w \in WorkerId, \A v \in WorkerId \ {w} : Idle(v),
         WorkerOK(w, W0[w], P0, phase'[w], active'[w], asking'[w], starting'[w],
                  Owed(w)', stored'[w]),
         ServedOK(w, P0, phase'[w], stored'[w], ranOn)
  PROVE  KInvNext
<1>1. workers' = W0 /\ parts' = P0
  BY DEF AdvanceTime, W0, P0
<1>2. AllFade(P0, parts') /\ Calm(P0, parts')
  BY <1>1, FadeSame DEF AllFade, Calm
<1>3. SeenOK(workers', clock)
  BY <1>1, Advanced DEF KInv
<1> QED BY <1>1, <1>2, <1>3, CallStep

\* A registration, accepted or not.
LEMMA RegisterStep ==
  ASSUME ClusterInv, NEW w \in WorkerId, Register(w)
  PROVE  KInvNext
<1>1. \A v \in WorkerId : Owed(v)' = Owed(v)
  BY OwedSame DEF Register
<1>2. \A v \in WorkerId \ {w} : Idle(v)
  BY <1>1 DEF Register, Idle, ClusterInv, ClusterType
<1>3. /\ phase[w] = "down" /\ stored'[w] = stored[w] /\ active'[w] = active[w]
      /\ asking'[w] = asking[w] /\ starting'[w] = starting[w]
      /\ clock' = clock /\ ranOn' = ranOn
  BY DEF Register
<1>4. active[w] = {} /\ asking[w] = FALSE /\ starting[w] = {}
  BY <1>3, Mine DEF WorkerOK, LoopOK, ClusterInv, ClusterType
<1>5. CASE /\ AdvanceTime(clock)
           /\ phase' = [phase EXCEPT ![w] = "turnedAway"]
  <2>1. phase'[w] = "turnedAway"
    BY <1>5 DEF ClusterInv, ClusterType
  <2>2. ~Up("turnedAway")
    BY DEF Up
  <2>3. /\ WorkerOK(w, W0[w], P0, "turnedAway", {}, FALSE, {}, Owed(w), stored[w])
        /\ ServedOK(w, P0, "turnedAway", stored[w], ranOn)
    BY <2>2, DownOK, FS_EmptySet
  <2> QED BY <1>1, <1>2, <1>3, <1>4, <1>5, <2>1, <2>3, AdvanceStep
<1>6. ASSUME NEW slots \in SlotCounts, RegisterWorker(w, slots, clock),
             phase' = [phase EXCEPT ![w] = "up"]
      PROVE  KInvNext
  <2>1. /\ W0[w].status = "unknown" /\ parts' = P0
        /\ workers' = [W0 EXCEPT ![w] =
             [status |-> "alive", slots |-> slots, available |-> slots,
              observed |-> 0, received |-> clock]]
    BY <1>6 DEF RegisterWorker, W0, P0
  <2>2. W0 \in [WorkerId -> WorkerRuntime] /\ clock \in Nat /\ slots \in Nat
    BY Advanced, InputAssumption, ConfigAssumption
       DEF TypeWP, ClusterInv, ClusterType, Time
  <2>3. /\ workers'[w].status = "alive" /\ workers'[w].slots = slots
        /\ workers'[w].observed = 0
        /\ \A v \in WorkerId \ {w} : workers'[v] = W0[v]
    BY <2>1, <2>2
  <2>4. AllFade(P0, parts') /\ Calm(P0, parts')
    BY <2>1, FadeSame DEF AllFade, Calm
  <2>5. SeenOK(workers', clock)
    BY <2>2, <2>3, Advanced DEF KInv, SeenOK
  <2>6. phase'[w] = "up"
    BY <1>6 DEF ClusterInv, ClusterType
  <2>7. LeasesOf(P0, w) = {}
    BY <2>1, Advanced DEF Slots
  <2>8. WorkerOK(w, workers'[w], P0, "up", {}, FALSE, {}, Owed(w), stored[w])
    BY <2>2, <2>3, <2>7, FS_EmptySet
       DEF WorkerOK, LoopOK, RoomOK, TasksOK, UniqueOK, HeldOK, ReachOK, UploadOK, All
  <2>9. ServedOK(w, P0, "up", stored[w], ranOn)
    <3> SUFFICES ASSUME NEW k \in PartitionKey, <<k, P0[k].attempt, w>> \in ranOn
                 PROVE  FALSE
      BY DEF ServedOK
    <3>1. \A e \in ranOn : W0[e[3]].status # "unknown"
      BY Advanced DEF KInv, HistoryOK
    <3>2. <<k, P0[k].attempt, w>>[3] = w
      OBVIOUS
    <3> QED BY <2>1, <3>1, <3>2
  <2>10. \A v \in WorkerId : W0[v].status # "unknown" => workers'[v].status # "unknown"
    BY <2>3
  <2> QED BY ZenonT(60), <1>1, <1>2, <1>3, <1>4, <2>1, <2>3, <2>4, <2>5, <2>6, <2>8,
             <2>9, <2>10, CallStep
<1> QED BY <1>5, <1>6 DEF Register

\* A heartbeat never claims a slot the coordinator holds a lease for.
LEMMA HeartbeatAccepted ==
  ASSUME ClusterInv, NEW w \in WorkerId, InLoop(w)
  PROVE  /\ AcceptsHeartbeat(W0, P0, w, clock, AvailableSlots(w))
         /\ AvailableSlots(w) \in FreeCounts
<1> DEFINE F == [x \in active[w] |-> x.key]
           T == {F[x] : x \in active[w]}
           L == LeasesOf(P0, w)
           n == Cardinality(active[w])
           slots == workers[w].slots
<1>1. Up(phase[w]) /\ starting[w] = {} /\ All(active[w], starting[w]) = active[w]
  BY DEF InLoop, Live, Up, All
<1>2. IsFiniteSet(active[w]) /\ n \in Nat /\ slots \in Nat
  BY Mine
<1>3. IsFiniteSet(T) /\ Cardinality(T) <= n /\ Cardinality(T) \in Nat
  <2>1. IsImage(F, active[w], T)
    BY DEF IsImage
  <2> HIDE DEF F, T
  <2> QED BY <1>2, <2>1, ImageSize
<1>4. L \subseteq T
  <2> SUFFICES ASSUME NEW k \in L PROVE k \in T
    OBVIOUS
  <2>0. HeldOK(w, P0, phase[w], active[w])
    BY <1>1, MineAdvanced DEF WorkerOK
  <2>1. PICK x \in active[w] : x.key = k
    BY <1>1, <2>0 DEF HeldOK
  <2>2. F[x] = k
    BY <2>1
  <2> HIDE DEF F
  <2> QED BY <2>1, <2>2
<1>5. Cardinality(L) <= n /\ Cardinality(L) \in Nat
  <2>1. Cardinality(L) \in Nat
    BY LeasesFinite
  <2>2. Cardinality(L) <= Cardinality(T)
    BY <1>3, <1>4, FS_Subset
  <2> HIDE DEF L, T, n
  <2> QED BY <1>2, <1>3, <2>1, <2>2
<1>6. W0[w].status # "unknown" /\ workers[w].status # "unknown" /\ n <= slots
      /\ W0[w].slots = slots /\ W0[w].observed <= clock /\ slots \in SlotCounts
  <2>1. W0[w].status # "unknown"
    BY <1>1, MineAdvanced DEF WorkerOK, RoomOK
  <2>2. W0[w].observed <= clock /\ W0[w].slots \in SlotCounts
    BY <2>1, Advanced DEF KInv, SeenOK
  <2>3. asking[w] = FALSE
    BY DEF InLoop, ClusterInv, ClusterType
  <2>4. n + 0 <= slots
    BY <1>1, <2>3, Mine DEF WorkerOK, RoomOK
  <2> HIDE DEF n, slots
  <2>5. n <= slots
    BY <1>2, <2>4
  <2> QED BY <2>1, <2>2, <2>5, Advanced DEF slots
<1>7. AvailableSlots(w) = slots - n
  BY <1>2, <1>6 DEF AvailableSlots
<1> HIDE DEF n, slots, L
<1>8. slots - n \in 0 .. slots /\ (slots - n) + Cardinality(L) <= slots
  BY <1>2, <1>5, <1>6
<1>9. AvailableSlots(w) \in FreeCounts
  BY <1>6, <1>7, <1>8 DEF FreeCounts
<1>10. clock >= W0[w].observed
  <2>1. clock \in Int /\ W0[w].observed \in Int
    BY Advanced, ConfigAssumption
       DEF TypeWP, WorkerRuntime, ClusterInv, ClusterType, Time
  <2> QED BY <1>6, <2>1
<1> QED BY <1>6, <1>7, <1>8, <1>9, <1>10 DEF AcceptsHeartbeat, L

\* A heartbeat.
LEMMA HeartbeatStep ==
  ASSUME ClusterInv, NEW w \in WorkerId, Heartbeat(w)
  PROVE  KInvNext
<1>1. \A v \in WorkerId : Owed(v)' = Owed(v)
  BY OwedSame DEF Heartbeat
<1>0. InLoop(w)
  BY DEF Heartbeat
<1>2. RecordHeartbeat(w, clock, AvailableSlots(w), clock) /\ UNCHANGED phase
  BY <1>0, HeartbeatAccepted DEF Heartbeat
<1>3. /\ \A v \in WorkerId : Idle(v)
      /\ clock' = clock /\ ranOn' = ranOn
  BY <1>1, <1>2 DEF Heartbeat, Idle
<1>4. /\ parts' = P0
      /\ workers' = [W0 EXCEPT ![w] =
           [status |-> "alive", slots |-> W0[w].slots, available |-> AvailableSlots(w),
            observed |-> clock, received |-> clock]]
  BY <1>2 DEF RecordHeartbeat, W0, P0
<1>5. W0 \in [WorkerId -> WorkerRuntime] /\ clock \in Nat
  BY Advanced, ConfigAssumption DEF TypeWP, ClusterInv, ClusterType, Time
<1>6. /\ workers'[w].status = "alive" /\ workers'[w].slots = W0[w].slots
      /\ workers'[w].observed = clock
      /\ \A v \in WorkerId \ {w} : workers'[v] = W0[v]
  BY <1>4, <1>5
<1>7. AllFade(P0, parts') /\ Calm(P0, parts')
  BY <1>4, FadeSame DEF AllFade, Calm
<1>8. W0[w].status # "unknown"
  BY <1>0, MineAdvanced DEF WorkerOK, RoomOK, InLoop, Live, Up
<1>9. SeenOK(workers', clock)
  BY <1>5, <1>6, <1>8, Advanced DEF KInv, SeenOK
<1>10. WorkerOK(w, workers'[w], P0, phase[w], active[w], asking[w], starting[w],
                Owed(w), stored[w])
       /\ ServedOK(w, P0, phase[w], stored[w], ranOn)
  BY <1>6, MineAdvanced DEF WorkerOK, RoomOK
<1>11. \A v \in WorkerId : W0[v].status # "unknown" => workers'[v].status # "unknown"
  BY <1>6
<1>12. /\ WorkerOK(w, workers'[w], parts', phase'[w], active'[w], asking'[w],
                   starting'[w], Owed(w)', stored'[w])
       /\ ServedOK(w, parts', phase'[w], stored'[w], ranOn)
  BY <1>3, <1>4, <1>10 DEF Idle
<1> QED BY <1>3, <1>6, <1>7, <1>9, <1>11, <1>12, CallStep

-----------------------------------------------------------------------------
(* Task updates.                                                           *)

\* What a report on a lease does to its partition, short of committing it.
LEMMA UpdateFades ==
  ASSUME NEW p \in PartitionRuntime, Leased(p), NEW s \in TaskState,
         s.at = p.issued, ~(s.kind = "succeeded" /\ p.state = "active")
  PROVE  LET q == UpdatedPartition(p, s)
         IN  /\ Fades(p, q)
             /\ q.state = "cancelling" => p.state = "cancelling"
             /\ s.kind # "running" => ~Leased(q)
             /\ s.kind = "running" => Leased(q)
<1> DEFINE q == UpdatedPartition(p, s)
<1>0. p.attempt \in Nat /\ p.state \in {"active", "cancelling"}
      /\ s.kind \in {"running", "succeeded", "failed", "cancelled"}
  BY DEF PartitionRuntime, Leased, TaskState
<1>1. CASE s.kind = "running" /\ p.state = "active"
  <2>1. q = [p EXCEPT !.started = p.issued]
    BY <1>1 DEF UpdatedPartition
  <2>2. q.state = "active" /\ q.attempt = p.attempt /\ q.worker = p.worker
        /\ q.issued = p.issued /\ q.expires = p.expires /\ q.started = p.issued
    BY <1>1, <2>1 DEF PartitionRuntime
  <2> HIDE DEF q
  <2>3. Fades(p, q) /\ Leased(q) /\ q.state # "cancelling"
    BY <1>0, <1>1, <2>2 DEF Fades, Leased, Superseded
  <2> QED BY <1>1, <2>3 DEF q
<1>2. CASE s.kind = "running" /\ p.state = "cancelling"
  <2>1. q = p
    BY <1>2 DEF UpdatedPartition
  <2> QED BY <1>2, <2>1, FadeSame
<1>3. CASE s.kind # "running" /\ p.state = "cancelling"
  <2>1. q.state = "cancelled"
    BY <1>3 DEF UpdatedPartition, Cancelled, Unleased
  <2> HIDE DEF q
  <2>2. Fades(p, q) /\ ~Leased(q)
    BY <1>0, <1>3, <2>1 DEF Fades, Leased, Superseded
  <2> QED BY <1>3, <2>1, <2>2 DEF q
<1>4. CASE s.kind \in {"failed", "cancelled"} /\ p.state = "active"
  <2>1. \/ q.state = "cancelled"
        \/ q.state = "pending" /\ q.attempt = p.attempt + 1
        \/ q.state = "failed" /\ q.attempt = p.attempt
    BY <1>4 DEF UpdatedPartition, RetryOrFail, Pending, Failed, Cancelled, Unleased
  <2> HIDE DEF q
  <2>2. Fades(p, q) /\ ~Leased(q)
    BY <1>0, <1>4, <2>1 DEF Fades, Leased, Superseded
  <2> QED BY <1>4, <2>1, <2>2 DEF q
<1> QED BY <1>0, <1>1, <1>2, <1>3, <1>4

\* An accepted update touches one lease, and one slot at most.
LEMMA UpdateEffect ==
  ASSUME ClusterInv, NEW w \in WorkerId, NEW k \in PartitionKey, NEW attempt,
         NEW s \in TaskState, RecordTaskUpdate(w, k, attempt, s, clock)
  PROVE  /\ parts' = [P0 EXCEPT ![k] = UpdatedPartition(P0[k], s)]
         /\ parts'[k] = UpdatedPartition(P0[k], s)
         /\ \A j \in PartitionKey : j # k => parts'[j] = P0[j]
         /\ \A v \in WorkerId : /\ workers'[v].slots = W0[v].slots
                                /\ workers'[v].status = W0[v].status
         /\ SeenOK(workers', clock)
<1>0. TypeWP(W0, P0)
  BY Advanced
<1>1. /\ parts' = [P0 EXCEPT ![k] = UpdatedPartition(P0[k], s)]
      /\ workers' = IF s.kind = "running" THEN W0
                    ELSE [W0 EXCEPT ![w] = Released(W0[w], 1)]
  BY DEF RecordTaskUpdate, W0, P0
<1>2. \A v \in WorkerId : /\ workers'[v].slots = W0[v].slots
                          /\ workers'[v].status = W0[v].status
                          /\ workers'[v].observed = W0[v].observed
  <2>1. W0[w] \in WorkerRuntime
    BY <1>0 DEF TypeWP
  <2>2. /\ Released(W0[w], 1).slots = W0[w].slots
        /\ Released(W0[w], 1).status = W0[w].status
        /\ Released(W0[w], 1).observed = W0[w].observed
    BY <2>1 DEF Released, WorkerRuntime
  <2> QED BY <1>0, <1>1, <2>2 DEF TypeWP
<1>3. SeenOK(workers', clock)
  BY <1>2, Advanced DEF KInv, SeenOK
<1> QED BY <1>0, <1>1, <1>2, <1>3 DEF TypeWP

\* A report that commits nothing lets the partition fade.
LEMMA UpdateCalm ==
  ASSUME ClusterInv, NEW w \in WorkerId, NEW x, x.key \in PartitionKey,
         NEW s \in TaskState, s.at = x.issued, Matches(w, P0, x),
         RecordTaskUpdate(w, x.key, x.attempt, s, clock),
         ~(s.kind = "succeeded" /\ P0[x.key].state = "active")
  PROVE  /\ AllFade(P0, parts') /\ Calm(P0, parts')
         /\ s.kind # "running" => ~Leased(parts'[x.key])
         /\ s.kind = "running" => Leased(parts'[x.key])
<1>1. P0[x.key] \in PartitionRuntime /\ Leased(P0[x.key]) /\ P0[x.key].issued = x.issued
  BY Advanced DEF TypeWP, Matches
<1>2. /\ parts'[x.key] = UpdatedPartition(P0[x.key], s)
      /\ \A j \in PartitionKey : j # x.key => parts'[j] = P0[j]
  BY UpdateEffect
<1>3. /\ Fades(P0[x.key], parts'[x.key])
      /\ parts'[x.key].state = "cancelling" => P0[x.key].state = "cancelling"
      /\ s.kind # "running" => ~Leased(parts'[x.key])
      /\ s.kind = "running" => Leased(parts'[x.key])
  BY <1>1, <1>2, UpdateFades
<1> QED BY <1>2, <1>3, FadeSame DEF AllFade, Calm

\* A task that still has its lease, or is superseded, has a stage.
LEMMA StageOfTask ==
  ASSUME ClusterInv, NEW w, NEW x, x.key \in PartitionKey, TaskOK(w, P0, x)
  PROVE  /\ stages[KeyOf(x.key)] \in StagePlans /\ stages[KeyOf(x.key)] \in StagePlan
         /\ x.key[3] \in PartitionId
<1>1. P0[x.key].state # "absent"
  BY DEF TaskOK, Matches, Superseded, Leased
<1>2. stages[KeyOf(x.key)] # NoStage
  BY <1>1, Advanced DEF CInv, Shape
<1>3. KeyOf(x.key) \in StageKey /\ x.key[3] \in PartitionId
  BY DEF PartitionKey, KeyOf, StageKey
<1> QED BY <1>2, <1>3, PlanAssumption DEF ClusterInv, TypeOK

\* Final reports are well formed and on time.
LEMMA TerminalTyped ==
  ASSUME ClusterInv, NEW w \in WorkerId, Live(w), NEW x \in Task,
         x.status # "running", TaskOK(w, P0, x)
  PROVE  /\ TerminalState(w, x) \in TaskState
         /\ Reports(x, TerminalState(w, x))
<1> DEFINE s == TerminalState(w, x)
<1>0. x.key \in PartitionKey /\ x.attempt \in Nat /\ x.issued \in Time
  BY DEF Task
<1>1. ManifestOf(x.key) \in Outputs
      /\ OneBlockPerDestination(stages[KeyOf(x.key)], ManifestOf(x.key))
  BY <1>0, StageOfTask, ManifestAssumption, ManifestComplete DEF ManifestOf
<1>2. x.status \in {"ok", "cancelled", "retryable", "fatal"}
      /\ phase[w] \in {"up", "stopping"}
  BY DEF Task, Statuses, Live
<1>3. \/ s = Update("succeeded", x, ManifestOf(x.key), FALSE)
      \/ s = Update("cancelled", x, << >>, FALSE)
      \/ \E b \in BOOLEAN : s = Update("failed", x, << >>, b)
  BY <1>2 DEF TerminalState
<1>4. Update("succeeded", x, ManifestOf(x.key), FALSE) \in TaskState
  BY <1>0, <1>1 DEF Update, TaskState
<1>5. Update("cancelled", x, << >>, FALSE) \in TaskState
  BY <1>0 DEF Update, TaskState
<1>6. \A b \in BOOLEAN : Update("failed", x, << >>, b) \in TaskState
  BY <1>0 DEF Update, TaskState
<1>7. s \in TaskState
  BY <1>3, <1>4, <1>5, <1>6
<1>8. s.at = x.issued /\ (s.kind = "succeeded" => s.blocks = ManifestOf(x.key))
  BY <1>3 DEF Update
<1> QED BY <1>0, <1>1, <1>7, <1>8 DEF Reports

\* The start report is well formed and on time.
LEMMA RunningTyped ==
  ASSUME NEW x \in Lease
  PROVE  LET s == Update("running", x, << >>, FALSE)
         IN  s \in TaskState /\ Reports(x, s) /\ s.kind = "running"
BY DEF Lease, Update, TaskState, Reports

\* What the coordinator makes of a report is one of its steps.
LEMMA HandleNext ==
  ASSUME ClusterInv, NEW w \in WorkerId, W0[w].status # "unknown", NEW x,
         NEW s \in TaskState, Reports(x, s), TaskOK(w, P0, x), Handle(w, x, s)
  PROVE  Next
<1>0. clock \in Time
  BY DEF ClusterInv, ClusterType
<1>1. IF Matches(w, P0, x) THEN RecordTaskUpdate(w, x.key, x.attempt, s, clock)
      ELSE AdvanceTime(clock)
  BY ReplyIs
<1>2. CASE Matches(w, P0, x)
  <2>1. x.key \in PartitionKey /\ x.attempt \in Nat /\ x.attempt = P0[x.key].attempt
    BY <1>2 DEF Reports, Matches
  <2>2. P0[x.key].attempt < MaxTaskAttempts
    BY <2>1, Advanced DEF CInv, Attempts
  <2>3. x.attempt \in 0 .. MaxTaskAttempts - 1
    BY <2>1, <2>2, ConfigAssumption
  <2> QED BY <1>0, <1>1, <1>2, <2>1, <2>3 DEF Next
<1>3. CASE ~Matches(w, P0, x)
  BY <1>0, <1>1, <1>3 DEF Next
<1> QED BY <1>2, <1>3

\* The poll found no work: only the question is withdrawn.
LEMMA PollNothingStep ==
  ASSUME ClusterInv, NEW w \in WorkerId, PollAssignment(w), AdvanceTime(clock),
         UNCHANGED <<starting, ranOn>>
  PROVE  KInvNext
<1>1. \A v \in WorkerId : Owed(v)' = Owed(v)
  BY OwedSame DEF PollAssignment
<1>2. \A v \in WorkerId \ {w} : Idle(v)
  BY <1>1 DEF PollAssignment, Idle, ClusterInv, ClusterType
<1>3. /\ phase'[w] = phase[w] /\ stored'[w] = stored[w] /\ active'[w] = active[w]
      /\ asking[w] = TRUE /\ asking'[w] = FALSE /\ starting'[w] = starting[w]
      /\ clock' = clock /\ ranOn' = ranOn
  BY DEF PollAssignment, ClusterInv, ClusterType
<1>4. LoopOK(phase[w], active[w], FALSE, starting[w])
  BY <1>3, Mine DEF WorkerOK, LoopOK
<1>5. RoomOK(W0[w], phase[w], active[w], FALSE, starting[w])
  <2>1. Cardinality(active[w]) \in Nat /\ W0[w].slots \in Nat
    BY Mine, Advanced
  <2>2. Up(phase[w]) => W0[w].status # "unknown"
                        /\ Cardinality(active[w]) + 1 <= W0[w].slots
    BY <1>3, MineAdvanced DEF WorkerOK, RoomOK
  <2>3. starting[w] = {}
    BY <1>3, Mine DEF WorkerOK, LoopOK
  <2>4. Up(phase[w]) => Cardinality(active[w]) + 0 <= W0[w].slots
    BY <2>1, <2>2
  <2> QED BY <2>2, <2>3, <2>4 DEF RoomOK
<1>6. WorkerOK(w, W0[w], P0, phase[w], active[w], FALSE, starting[w], Owed(w), stored[w])
  BY <1>4, <1>5, MineAdvanced DEF WorkerOK
<1>7. ServedOK(w, P0, phase[w], stored[w], ranOn)
  BY MineAdvanced
<1>8. /\ WorkerOK(w, W0[w], P0, phase'[w], active'[w], asking'[w], starting'[w],
                  Owed(w)', stored'[w])
      /\ ServedOK(w, P0, phase'[w], stored'[w], ranOn)
  BY <1>1, <1>3, <1>6, <1>7
<1> QED BY <1>2, <1>3, <1>8, AdvanceStep

\* A worker's start report: the task runs, or the assignment is dropped.
LEMMA StartStep ==
  ASSUME ClusterInv, NEW w \in WorkerId, Start(w)
  PROVE  KInvNext /\ phase' = phase /\ Next
<1>1. \A v \in WorkerId : Owed(v)' = Owed(v)
  BY OwedSame DEF Start
<1>2. Up(phase[w]) /\ Live(w)
  BY DEF Start, Live, Up
<1>3. PICK lease \in starting[w] :
        LET s == Update("running", lease, << >>, FALSE)
        IN  /\ Handle(w, lease, s)
            /\ active' = [active EXCEPT ![w] =
                 IF Reply(w, lease, s) = "ok" THEN @ \cup {NewTask(lease)} ELSE @]
            /\ phase' = PhaseAfter(w, Reply(w, lease, s))
  BY DEF Start
<1> DEFINE s == Update("running", lease, << >>, FALSE)
           x == NewTask(lease)
<1>4. /\ starting[w] = {lease} /\ lease \in Lease /\ asking[w] = FALSE
      /\ phase[w] = "up"
  BY Mine DEF WorkerOK, LoopOK, ClusterInv, ClusterType
<1>5. /\ x.key = lease.key /\ x.attempt = lease.attempt /\ x.issued = lease.issued
      /\ x.status = "running" /\ x \in Task
      /\ lease.key \in PartitionKey /\ lease.attempt \in Nat
  BY <1>4 DEF NewTask, Lease, Task, Statuses
<1>6. s \in TaskState /\ Reports(lease, s) /\ s.kind = "running" /\ s.at = lease.issued
  BY <1>4, RunningTyped DEF Update
<1>7. TaskOK(w, P0, lease) /\ W0[w].status # "unknown"
  <2>1. TaskOK(w, P0, x)
    BY <1>2, MineAdvanced DEF WorkerOK, TasksOK, All
  <2>2. W0[w].status # "unknown"
    BY <1>2, MineAdvanced DEF WorkerOK, RoomOK
  <2> QED BY <1>5, <2>1, <2>2 DEF TaskOK, Matches
<1> HIDE DEF s
<1>8. /\ Reply(w, lease, s) = IF Matches(w, P0, lease) THEN "ok" ELSE "superseded"
      /\ phase' = phase
      /\ IF Matches(w, P0, lease)
         THEN RecordTaskUpdate(w, lease.key, lease.attempt, s, clock)
         ELSE AdvanceTime(clock)
  BY <1>3, <1>6, <1>7, ReplyIs DEF s
<1>13. Next
  BY <1>3, <1>5, <1>6, <1>7, HandleNext DEF s
<1>9. /\ active'[w] = IF Matches(w, P0, lease) THEN active[w] \cup {x} ELSE active[w]
      /\ starting'[w] = {} /\ phase'[w] = phase[w] /\ stored'[w] = stored[w]
      /\ asking'[w] = FALSE /\ clock' = clock /\ ranOn' = ranOn
  BY <1>3, <1>4, <1>8 DEF Start, ClusterInv, ClusterType, s
<1>10. \A v \in WorkerId \ {w} : Idle(v)
  BY <1>1, <1>3, <1>8 DEF Start, Idle, ClusterInv, ClusterType
<1>11. CASE ~Matches(w, P0, lease)
  <2>1. LoopOK("up", active[w], FALSE, {})
    BY Mine DEF LoopOK
  <2>2. RoomOK(W0[w], "up", active[w], FALSE, {})
    <3>1. Cardinality(active[w]) \in Nat /\ W0[w].slots \in Nat
      BY Mine, Advanced
    <3>2. Cardinality(active[w]) + 1 <= W0[w].slots
      BY <1>2, <1>4, MineAdvanced DEF WorkerOK, RoomOK
    <3>3. Cardinality(active[w]) + 0 <= W0[w].slots
      BY <3>1, <3>2
    <3> QED BY <1>7, <3>3 DEF RoomOK
  <2>3. HeldOK(w, P0, "up", All(active[w], {}))
    <3> SUFFICES ASSUME NEW k \in LeasesOf(P0, w)
                 PROVE  \E y \in active[w] : y.key = k /\ y.attempt = P0[k].attempt
      BY DEF HeldOK, All
    <3>0. HeldOK(w, P0, phase[w], All(active[w], {lease}))
      BY <1>4, MineAdvanced DEF WorkerOK
    <3>1. PICK y \in All(active[w], {lease}) : y.key = k /\ y.attempt = P0[k].attempt
      BY <1>2, <3>0 DEF HeldOK
    <3>2. k \in PartitionKey /\ Leased(P0[k]) /\ P0[k].worker = w
      BY DEF LeasesOf
    <3>3. y # x
      <4> SUFFICES ASSUME y = x PROVE FALSE
        OBVIOUS
      <4>1. lease.key = k /\ lease.attempt = P0[k].attempt
        BY <1>5, <3>1
      <4>2. Superseded(P0[k], P0[k].attempt)
        BY <1>7, <1>11, <4>1 DEF TaskOK
      <4>3. P0[k].attempt \in Nat
        BY <3>2, MineAdvanced DEF PartitionRuntime
      <4> QED BY <3>2, <4>2, <4>3 DEF Superseded, Leased
    <3> QED BY <3>1, <3>3 DEF All
  <2>4. /\ TasksOK(w, P0, "up", All(active[w], {}))
        /\ UniqueOK("up", active[w], {})
        /\ ReachOK(w, P0, "up", All(active[w], {}), Owed(w))
        /\ UploadOK("up", active[w], stored[w])
    BY <1>2, <1>4, MineAdvanced
       DEF WorkerOK, TasksOK, UniqueOK, ReachOK, UploadOK, All
  <2>5. WorkerOK(w, W0[w], P0, "up", active[w], FALSE, {}, Owed(w), stored[w])
    BY <2>1, <2>2, <2>3, <2>4 DEF WorkerOK
  <2>6. ServedOK(w, P0, "up", stored[w], ranOn)
    BY <1>4, MineAdvanced
  <2>7. /\ WorkerOK(w, W0[w], P0, phase'[w], active'[w], asking'[w], starting'[w],
                    Owed(w)', stored'[w])
        /\ ServedOK(w, P0, phase'[w], stored'[w], ranOn)
    BY <1>1, <1>4, <1>9, <1>11, <2>5, <2>6
  <2> QED BY <1>8, <1>9, <1>10, <1>11, <1>13, <2>7, AdvanceStep
<1>12. CASE Matches(w, P0, lease)
  <2>1. RecordTaskUpdate(w, lease.key, lease.attempt, s, clock)
    BY <1>8, <1>12
  <2>2. AllFade(P0, parts') /\ Calm(P0, parts')
    BY <1>5, <1>6, <1>12, <2>1, UpdateCalm
  <2>3. /\ \A v \in WorkerId : /\ workers'[v].slots = W0[v].slots
                               /\ workers'[v].status = W0[v].status
        /\ SeenOK(workers', clock)
    BY <1>5, <1>6, <2>1, UpdateEffect
  <2>4. /\ WorkerOK(w, workers'[w], parts', phase[w], active[w], asking[w], starting[w],
                    Owed(w), stored[w])
        /\ ServedOK(w, parts', phase[w], stored[w], ranOn)
    BY <2>2, <2>3, Mine, MineAdvanced, FadeWorker
  <2> DEFINE new == active[w] \cup {x}
  <2>5. All(new, {}) = All(active[w], starting[w])
    BY <1>4 DEF All
  <2>6. LoopOK("up", new, FALSE, {})
    BY Mine, FS_AddElement DEF LoopOK
  <2>7. RoomOK(workers'[w], "up", new, FALSE, {})
    <3>1. Cardinality(active[w]) \in Nat /\ workers'[w].slots \in Nat
      BY <2>3, Mine, Advanced
    <3>2. Cardinality(active[w]) + 1 <= workers'[w].slots
          /\ workers'[w].status # "unknown"
      BY <1>2, <1>4, <2>4 DEF WorkerOK, RoomOK
    <3>3. IsFiniteSet(active[w])
      BY Mine
    <3>4. Cardinality(new) \in {Cardinality(active[w]), Cardinality(active[w]) + 1}
      BY <3>3, FS_AddElement
    <3> HIDE DEF new
    <3>5. Cardinality(new) + 0 <= workers'[w].slots
      BY <3>1, <3>2, <3>4
    <3> QED BY <3>2, <3>5 DEF RoomOK
  <2>8. UniqueOK("up", new, {})
    BY <1>2, <1>4, <1>5, <2>4 DEF WorkerOK, UniqueOK
  <2>9. UploadOK("up", new, stored[w])
    <3>1. \A y \in active[w] : y.status = "ok" => <<y.key, y.attempt>> \in stored[w]
      BY <1>2, <2>4 DEF WorkerOK, UploadOK
    <3> QED BY <1>5, <3>1 DEF UploadOK
  <2>10. WorkerOK(w, workers'[w], parts', "up", new, FALSE, {}, Owed(w), stored[w])
    <3> HIDE DEF new
    <3> QED BY <1>4, <2>4, <2>5, <2>6, <2>7, <2>8, <2>9 DEF WorkerOK
  <2>11. /\ WorkerOK(w, workers'[w], parts', phase'[w], active'[w], asking'[w],
                     starting'[w], Owed(w)', stored'[w])
         /\ ServedOK(w, parts', phase'[w], stored'[w], ranOn)
    BY <1>1, <1>4, <1>9, <1>12, <2>4, <2>10
  <2> QED BY <1>8, <1>9, <1>10, <1>13, <2>2, <2>3, <2>11, CallStep
<1> QED BY <1>11, <1>12

-----------------------------------------------------------------------------
(* Final reports.                                                          *)

\* Q commits the attempt of the lease on k.
Commits(P, Q, k) ==
  /\ P[k].state = "active"
  /\ \E blocks : Q[k] = Succeeded(P[k].attempt, blocks)
  /\ \A j \in PartitionKey : j # k => Q[j] = P[j]

\* Only the task that held the lease could object to a commit.
LEMMA CommitTask ==
  ASSUME NEW P \in [PartitionKey -> PartitionRuntime], NEW Q,
         NEW k \in PartitionKey, Commits(P, Q, k), NEW v, NEW y,
         y.key \in PartitionKey, y.attempt \in Nat, TaskOK(v, P, y),
         ~(y.key = k /\ Matches(v, P, y))
  PROVE  TaskOK(v, Q, y)
<1>1. CASE y.key # k
  <2>1. Q[y.key] = P[y.key]
    BY <1>1 DEF Commits
  <2> QED BY <2>1 DEF TaskOK, Matches
<1>2. CASE y.key = k
  <2>1. Superseded(P[k], y.attempt) /\ P[k].state = "active"
    BY <1>2 DEF TaskOK, Commits
  <2>2. Q[k].state = "succeeded" /\ Q[k].attempt = P[k].attempt
    BY DEF Commits, Succeeded, Unleased
  <2>3. Superseded(Q[k], y.attempt)
    BY <2>1, <2>2 DEF Superseded
  <2> QED BY <1>2, <2>3 DEF TaskOK
<1> QED BY <1>1, <1>2

\* The leases that remain after a commit.
LEMMA CommitLeases ==
  ASSUME NEW P, NEW Q, NEW k \in PartitionKey, Commits(P, Q, k), NEW v
  PROVE  /\ ~Leased(Q[k]) /\ Calm(P, Q)
         /\ \A j \in LeasesOf(Q, v) : j # k /\ j \in LeasesOf(P, v) /\ Q[j] = P[j]
<1>1. Q[k].state = "succeeded"
  BY DEF Commits, Succeeded, Unleased
<1>2. ~Leased(Q[k])
  BY <1>1 DEF Leased
<1>3. Calm(P, Q)
  BY <1>1 DEF Commits, Calm
<1>4. \A j \in LeasesOf(Q, v) : j # k /\ j \in PartitionKey
  BY <1>2 DEF LeasesOf
<1>5. \A j \in LeasesOf(Q, v) : Q[j] = P[j]
  BY <1>4 DEF Commits
<1> QED BY <1>2, <1>3, <1>4, <1>5 DEF LeasesOf

\* The other workers' part of the invariant survives a commit.
LEMMA CommitOther ==
  ASSUME NEW P \in [PartitionKey -> PartitionRuntime], NEW Q,
         NEW k \in PartitionKey, Commits(P, Q, k), NEW v, P[k].worker # v,
         NEW r, NEW s, s.slots = r.slots, r.status # "unknown" => s.status # "unknown",
         NEW ph, NEW act \in SUBSET Task, NEW ask, NEW st \in SUBSET Lease,
         NEW owed, NEW sto, NEW H, <<k, P[k].attempt, v>> \notin H,
         WorkerOK(v, r, P, ph, act, ask, st, owed, sto), ServedOK(v, P, ph, sto, H)
  PROVE  /\ WorkerOK(v, s, Q, ph, act, ask, st, owed, sto)
         /\ ServedOK(v, Q, ph, sto, H)
<1> DEFINE all == All(act, st)
<1>0. all \subseteq Task
  BY AllTasks
<1>1. RoomOK(s, ph, act, ask, st)
  BY DEF WorkerOK, RoomOK
<1>2. TasksOK(v, Q, ph, all)
  <2> SUFFICES ASSUME Up(ph), NEW y \in all PROVE TaskOK(v, Q, y)
    BY DEF TasksOK
  <2>1. TaskOK(v, P, y)
    BY DEF WorkerOK, TasksOK
  <2>2. y.key \in PartitionKey /\ y.attempt \in Nat
    BY <1>0 DEF Task
  <2>3. ~(y.key = k /\ Matches(v, P, y))
    BY DEF Matches
  <2> QED BY <2>1, <2>2, <2>3, CommitTask
<1>3. HeldOK(v, Q, ph, all)
  <2> SUFFICES ASSUME Up(ph), NEW j \in LeasesOf(Q, v)
               PROVE  \E x \in all : x.key = j /\ x.attempt = Q[j].attempt
    BY DEF HeldOK
  <2>1. j \in LeasesOf(P, v) /\ Q[j] = P[j]
    BY CommitLeases
  <2> QED BY <2>1 DEF WorkerOK, HeldOK
<1>4. ReachOK(v, Q, ph, all, owed)
  <2> SUFFICES ASSUME Up(ph), NEW x \in all, Stops(v, Q, x), x.status = "running"
               PROVE  x.token \/ x.key[1] \in owed
    BY DEF ReachOK
  <2>1. x.key \in PartitionKey /\ Q[x.key].state = "cancelling"
    BY <1>0 DEF Task, Stops
  <2>2. Q[k].state = "succeeded"
    BY DEF Commits, Succeeded, Unleased
  <2>3. Q[x.key] = P[x.key]
    BY <2>1, <2>2 DEF Commits
  <2>4. Stops(v, P, x)
    BY <2>3 DEF Stops
  <2> QED BY <2>4 DEF WorkerOK, ReachOK
<1>5. ServedOK(v, Q, ph, sto, H)
  <2> SUFFICES ASSUME Up(ph), NEW j \in PartitionKey, Q[j].state = "succeeded",
                      <<j, Q[j].attempt, v>> \in H
               PROVE  <<j, Q[j].attempt>> \in sto
    BY DEF ServedOK
  <2>1. Q[k].attempt = P[k].attempt
    BY DEF Commits, Succeeded, Unleased
  <2>2. Q[j] = P[j]
    BY <2>1 DEF Commits
  <2> QED BY <2>2 DEF ServedOK
<1> QED BY <1>1, <1>2, <1>3, <1>4, <1>5 DEF WorkerOK

\* A call of worker w that commits the attempt of its lease on k.
LEMMA CommitStep ==
  ASSUME ClusterInv, NEW w \in WorkerId, NEW k \in PartitionKey,
         Commits(P0, parts', k), P0[k].worker = w,
         SeenOK(workers', clock), clock' = clock, ranOn' = ranOn,
         \A v \in WorkerId : /\ workers'[v].slots = W0[v].slots
                             /\ workers'[v].status = W0[v].status,
         \A v \in WorkerId \ {w} : Idle(v),
         WorkerOK(w, workers'[w], parts', phase'[w], active'[w], asking'[w],
                  starting'[w], Owed(w)', stored'[w]),
         ServedOK(w, parts', phase'[w], stored'[w], ranOn)
  PROVE  KInvNext
<1> DEFINE a == P0[k].attempt
<1>1. P0[k].state = "active" /\ Leased(P0[k]) /\ P0 \in [PartitionKey -> PartitionRuntime]
  BY Advanced DEF Commits, Leased, TypeWP
<1>2. LeasesOK(P0, clock) /\ HistoryOK(W0, P0, ranOn)
  BY Advanced DEF KInv
<1>3. parts'[k].state = "succeeded" /\ parts'[k].attempt = a
  BY DEF Commits, Succeeded, Unleased
<1>4. \A j \in PartitionKey : j # k => parts'[j] = P0[j]
  BY DEF Commits
<1>5. \A j \in PartitionKey : Leased(parts'[j]) => parts'[j] = P0[j]
  BY <1>3, <1>4 DEF Leased
<1>6. LeasesOK(parts', clock)
  BY <1>2, <1>5 DEF LeasesOK
<1>7. ranOn \in SUBSET (PartitionKey \X Nat \X WorkerId)
  BY DEF ClusterInv, ClusterType
<1>8. HistoryOK(workers', parts', ranOn)
  <2>1. ASSUME NEW e \in ranOn
        PROVE  workers'[e[3]].status # "unknown" /\ Issued(parts'[e[1]], e[2])
    <3>1. e[1] \in PartitionKey /\ e[2] \in Nat /\ e[3] \in WorkerId
      BY <1>7
    <3>2. W0[e[3]].status # "unknown" /\ Issued(P0[e[1]], e[2])
      BY <1>2 DEF HistoryOK
    <3>3. CASE e[1] = k
      BY <1>1, <1>3, <3>1, <3>2, <3>3 DEF Issued, Superseded
    <3>4. CASE e[1] # k
      BY <1>4, <3>1, <3>2, <3>4
    <3> QED BY <3>1, <3>2, <3>3, <3>4
  <2> QED BY <1>2, <1>5, <2>1 DEF HistoryOK
<1>9. ASSUME NEW v \in WorkerId, v # w
      PROVE  /\ WorkerOK(v, workers'[v], parts', phase'[v], active'[v], asking'[v],
                         starting'[v], Owed(v)', stored'[v])
             /\ ServedOK(v, parts', phase'[v], stored'[v], ranOn)
  <2>1. <<k, a, v>> \notin ranOn
    <3>1. <<k, a, w>> \in ranOn
      BY <1>1, <1>2 DEF HistoryOK
    <3>2. \A e, f \in ranOn : e[1] = f[1] /\ e[2] = f[2] => e[3] = f[3]
      BY <1>2 DEF HistoryOK
    <3> HIDE DEF a
    <3> QED BY <1>9, <3>1, <3>2
  <2>2. /\ WorkerOK(v, W0[v], P0, phase[v], active[v], asking[v], starting[v], Owed(v),
                    stored[v])
        /\ ServedOK(v, P0, phase[v], stored[v], ranOn)
    BY MineAdvanced
  <2>3. active[v] \in SUBSET Task /\ starting[v] \in SUBSET Lease
    BY Mine
  <2>4. workers'[v].slots = W0[v].slots /\ workers'[v].status = W0[v].status
    OBVIOUS
  <2>5. /\ WorkerOK(v, workers'[v], parts', phase[v], active[v], asking[v], starting[v],
                    Owed(v), stored[v])
        /\ ServedOK(v, parts', phase[v], stored[v], ranOn)
    BY <1>1, <1>9, <2>1, <2>2, <2>3, <2>4, CommitOther
  <2> QED BY <1>9, <2>5 DEF Idle
<1> QED BY <1>6, <1>8, <1>9 DEF KInvNext

\* What is left to do after the final report of x.
Rests(P, Q, w, act, x) ==
  /\ \A y \in act \ {x} : TaskOK(w, Q, y)
  /\ \A k \in LeasesOf(Q, w) :
       /\ k \in LeasesOf(P, w) /\ Q[k].attempt = P[k].attempt
       /\ ~(k = x.key /\ Q[k].attempt = x.attempt)
  /\ \A y \in act : Stops(w, Q, y) => Stops(w, P, y)

\* The worker's part of the invariant without the task it reported.
LEMMA Joined ==
  ASSUME NEW P, NEW Q, NEW w, NEW r, NEW s, r.slots \in Nat, s.slots = r.slots,
         s.status = r.status, NEW ph, Up(ph), NEW act \in SUBSET Task, NEW x \in act,
         NEW owed, NEW sto, NEW left, sto \ {<<x.key, x.attempt>>} \subseteq left,
         WorkerOK(w, r, P, ph, act, FALSE, {}, owed, sto), Rests(P, Q, w, act, x)
  PROVE  WorkerOK(w, s, Q, ph, act \ {x}, FALSE, {}, owed, left)
<1> DEFINE new == act \ {x}
<1>0. IsFiniteSet(act) /\ IsFiniteSet(new) /\ Cardinality(act) \in Nat
      /\ Cardinality(new) = Cardinality(act) - 1
  <2>1. IsFiniteSet(act)
    BY DEF WorkerOK, LoopOK
  <2> QED BY <2>1, FS_CardinalityType, FS_RemoveElement
<1>a. All(act, {}) = act /\ All(new, {}) = new
  BY DEF All
<1>1. LoopOK(ph, new, FALSE, {})
  BY <1>0 DEF LoopOK, Up
<1>2. RoomOK(s, ph, new, FALSE, {})
  <2>1. Cardinality(act) + 0 <= r.slots /\ r.status # "unknown"
    BY DEF WorkerOK, RoomOK
  <2> HIDE DEF new
  <2>2. Cardinality(new) + 0 <= s.slots
    BY <1>0, <2>1
  <2> QED BY <2>1, <2>2 DEF RoomOK
<1>3. TasksOK(w, Q, ph, new)
  BY DEF TasksOK, Rests
<1>4. UniqueOK(ph, new, {})
  BY DEF WorkerOK, UniqueOK
<1>5. HeldOK(w, Q, ph, new)
  <2> SUFFICES ASSUME NEW k \in LeasesOf(Q, w)
               PROVE  \E y \in new : y.key = k /\ y.attempt = Q[k].attempt
    BY DEF HeldOK
  <2>1. /\ k \in LeasesOf(P, w) /\ Q[k].attempt = P[k].attempt
        /\ ~(k = x.key /\ Q[k].attempt = x.attempt)
    BY DEF Rests
  <2>2. HeldOK(w, P, ph, act)
    BY <1>a DEF WorkerOK
  <2>3. PICK y \in act : y.key = k /\ y.attempt = P[k].attempt
    BY <2>1, <2>2 DEF HeldOK
  <2> QED BY <2>1, <2>3
<1>6. ReachOK(w, Q, ph, new, owed)
  <2>1. ReachOK(w, P, ph, act, owed)
    BY <1>a DEF WorkerOK
  <2> QED BY <2>1 DEF ReachOK, Rests
<1>7. UploadOK(ph, new, left)
  <2> SUFFICES ASSUME NEW y \in new, y.status = "ok"
               PROVE  <<y.key, y.attempt>> \in left
    BY DEF UploadOK
  <2>1. <<y.key, y.attempt>> \in sto
    BY DEF WorkerOK, UploadOK
  <2>2. ~(y.key = x.key /\ y.attempt = x.attempt)
    BY DEF WorkerOK, UniqueOK
  <2> QED BY <2>1, <2>2
<1> HIDE DEF new
<1> QED BY <1>a, <1>1, <1>2, <1>3, <1>4, <1>5, <1>6, <1>7 DEF WorkerOK, new

\* Fading, with the lease of x given up.
LEMMA FadeRests ==
  ASSUME NEW P \in [PartitionKey -> PartitionRuntime], NEW Q, AllFade(P, Q),
         Calm(P, Q), NEW w, NEW act \in SUBSET Task, NEW x \in act,
         \A y \in act : TaskOK(w, P, y),
         ~(Leased(Q[x.key]) /\ Q[x.key].attempt = x.attempt /\ Q[x.key].worker = w)
  PROVE  Rests(P, Q, w, act, x)
<1>1. \A y \in act : TaskOK(w, Q, y)
  BY FadeTasks
<1>2. ASSUME NEW k \in LeasesOf(Q, w)
      PROVE  /\ k \in LeasesOf(P, w) /\ Q[k].attempt = P[k].attempt
             /\ ~(k = x.key /\ Q[k].attempt = x.attempt)
  <2>1. k \in PartitionKey /\ Leased(Q[k]) /\ Q[k].worker = w
    BY DEF LeasesOf
  <2>2. Leased(P[k]) /\ Q[k].attempt = P[k].attempt /\ P[k].worker = w
    BY <2>1 DEF AllFade, Fades
  <2> QED BY <2>1, <2>2 DEF LeasesOf
<1>3. ASSUME NEW y \in act, Stops(w, Q, y)
      PROVE  Stops(w, P, y)
  <2>1. y.key \in PartitionKey
    BY DEF Task
  <2> QED BY <1>3, <2>1 DEF Stops, Calm, AllFade, Fades, Leased
<1> QED BY <1>1, <1>2, <1>3 DEF Rests

\* A commit of x, which the worker has once.
LEMMA CommitRests ==
  ASSUME NEW P \in [PartitionKey -> PartitionRuntime], NEW Q, NEW w,
         NEW act \in SUBSET Task, NEW x \in act, Commits(P, Q, x.key),
         Matches(w, P, x), \A y \in act : TaskOK(w, P, y),
         \A y, z \in act : y.key = z.key /\ y.attempt = z.attempt => y = z
  PROVE  Rests(P, Q, w, act, x)
<1>0. x.key \in PartitionKey
  BY DEF Task
<1>1. ASSUME NEW y \in act \ {x} PROVE TaskOK(w, Q, y)
  <2>1. y.key \in PartitionKey /\ y.attempt \in Nat
    BY DEF Task
  <2>2. ~(y.key = x.key /\ Matches(w, P, y))
    BY DEF Matches
  <2> QED BY <1>0, <2>1, <2>2, CommitTask
<1>2. ASSUME NEW k \in LeasesOf(Q, w)
      PROVE  /\ k \in LeasesOf(P, w) /\ Q[k].attempt = P[k].attempt
             /\ ~(k = x.key /\ Q[k].attempt = x.attempt)
  BY <1>0, CommitLeases
<1>3. ASSUME NEW y \in act, Stops(w, Q, y)
      PROVE  Stops(w, P, y)
  <2>1. y.key \in PartitionKey
    BY DEF Task
  <2>2. Q[x.key].state = "succeeded"
    BY DEF Commits, Succeeded, Unleased
  <2>3. Q[y.key] = P[y.key]
    BY <1>3, <2>1, <2>2 DEF Stops, Commits
  <2> QED BY <1>3, <2>3 DEF Stops
<1> QED BY <1>1, <1>2, <1>3 DEF Rests

\* The three outcomes of a final report: too late, noted or committed.
LEMMA FinalReport ==
  ASSUME ClusterInv, NEW w \in WorkerId, NEW x \in active[w], InLoop(w),
         x.status # "running", Handle(w, x, TerminalState(w, x))
  PROVE  /\ Up(phase[w]) /\ asking[w] = FALSE /\ starting[w] = {}
         /\ x \in Task /\ TaskOK(w, P0, x)
         /\ PhaseAfter(w, Reply(w, x, TerminalState(w, x))) = phase
         /\ Rests(P0, parts', w, active[w], x)
         /\ SeenOK(workers', clock)
         /\ \A v \in WorkerId : /\ workers'[v].slots = W0[v].slots
                                /\ workers'[v].status = W0[v].status
         /\ \/ AllFade(P0, parts') /\ Calm(P0, parts')
            \/ /\ Commits(P0, parts', x.key) /\ Matches(w, P0, x)
               /\ KeepsBlocks(w, x) /\ x.status = "ok"
<1> DEFINE s == TerminalState(w, x)
<1>1. Up(phase[w]) /\ Live(w) /\ asking[w] = FALSE /\ starting[w] = {}
  BY DEF InLoop, Live, Up, ClusterInv, ClusterType
<1>2. x \in Task /\ active[w] \in SUBSET Task /\ x.key \in PartitionKey
      /\ x.attempt \in Nat
  BY Mine DEF Task
<1>3. \A y \in active[w] : TaskOK(w, P0, y)
  BY <1>1, MineAdvanced DEF WorkerOK, TasksOK, All
<1>4. s \in TaskState /\ Reports(x, s) /\ s.kind # "running" /\ s.at = x.issued
      /\ (s.kind = "succeeded" => x.status = "ok")
  BY <1>1, <1>2, <1>3, TerminalTyped, TerminalReport
<1>5. W0[w].status # "unknown"
  BY <1>1, MineAdvanced DEF WorkerOK, RoomOK
<1>6. P0 \in [PartitionKey -> PartitionRuntime]
  BY MineAdvanced
<1> HIDE DEF s
<1>7. /\ Reply(w, x, s) = IF Matches(w, P0, x) THEN "ok" ELSE "superseded"
      /\ PhaseAfter(w, Reply(w, x, s)) = phase
      /\ IF Matches(w, P0, x) THEN RecordTaskUpdate(w, x.key, x.attempt, s, clock)
         ELSE AdvanceTime(clock)
  BY <1>3, <1>4, <1>5, ReplyIs DEF s
<1>8. CASE ~Matches(w, P0, x)
  <2>1. workers' = W0 /\ parts' = P0
    BY <1>7, <1>8 DEF AdvanceTime, W0, P0
  <2>2. AllFade(P0, parts') /\ Calm(P0, parts')
    BY <2>1, FadeSame DEF AllFade, Calm
  <2>3. SeenOK(workers', clock)
    BY <2>1, Advanced DEF KInv
  <2>4. Superseded(P0[x.key], x.attempt)
    BY <1>3, <1>8 DEF TaskOK
  <2>5. ~(Leased(P0[x.key]) /\ P0[x.key].attempt = x.attempt)
    BY <1>2, <2>4 DEF Superseded, Leased
  <2>6. Rests(P0, parts', w, active[w], x)
    BY <1>2, <1>3, <1>6, <2>1, <2>2, <2>5, FadeRests
  <2> QED BY <1>1, <1>2, <1>3, <1>7, <2>1, <2>2, <2>3, <2>6 DEF s
<1>9. CASE Matches(w, P0, x)
  <2>1. RecordTaskUpdate(w, x.key, x.attempt, s, clock)
    BY <1>7, <1>9
  <2>2. /\ parts'[x.key] = UpdatedPartition(P0[x.key], s)
        /\ \A j \in PartitionKey : j # x.key => parts'[j] = P0[j]
        /\ \A v \in WorkerId : /\ workers'[v].slots = W0[v].slots
                               /\ workers'[v].status = W0[v].status
        /\ SeenOK(workers', clock)
    BY <1>2, <1>4, <2>1, UpdateEffect
  <2>3. CASE ~(s.kind = "succeeded" /\ P0[x.key].state = "active")
    <3>1. AllFade(P0, parts') /\ Calm(P0, parts') /\ ~Leased(parts'[x.key])
      BY <1>2, <1>4, <1>9, <2>1, <2>3, UpdateCalm
    <3>2. Rests(P0, parts', w, active[w], x)
      BY <1>2, <1>3, <1>6, <3>1, FadeRests
    <3> QED BY <1>1, <1>2, <1>3, <1>7, <2>2, <3>1, <3>2 DEF s
  <2>4. CASE s.kind = "succeeded" /\ P0[x.key].state = "active"
    <3>1. Commits(P0, parts', x.key)
      BY <2>2, <2>4 DEF Commits, UpdatedPartition
    <3>2. \A y, z \in active[w] : y.key = z.key /\ y.attempt = z.attempt => y = z
      BY <1>1, Mine DEF WorkerOK, UniqueOK
    <3>3. Rests(P0, parts', w, active[w], x)
      BY <1>2, <1>3, <1>6, <1>9, <3>1, <3>2, CommitRests
    <3>4. KeepsBlocks(w, x)
      BY <1>7, <1>9, <2>4 DEF KeepsBlocks, s
    <3> QED BY <1>1, <1>2, <1>3, <1>4, <1>7, <1>9, <2>2, <2>4, <3>1, <3>3, <3>4 DEF s
  <2> QED BY <2>3, <2>4
<1> QED BY <1>8, <1>9

\* It is a step of the coordinator.
LEMMA FinalNext ==
  ASSUME ClusterInv, NEW w \in WorkerId, NEW x \in active[w], InLoop(w),
         x.status # "running", Handle(w, x, TerminalState(w, x))
  PROVE  Next
<1>1. Live(w) /\ Up(phase[w])
  BY DEF InLoop, Live, Up
<1>2. x \in Task /\ TaskOK(w, P0, x)
  BY FinalReport
<1>3. TerminalState(w, x) \in TaskState /\ Reports(x, TerminalState(w, x))
  BY <1>1, <1>2, TerminalTyped
<1>4. W0[w].status # "unknown"
  BY <1>1, MineAdvanced DEF WorkerOK, RoomOK
<1> QED BY <1>2, <1>3, <1>4, HandleNext

\* The blocks a worker deletes after a report are not those of committed output.
LEMMA JoinedServed ==
  ASSUME ClusterInv, NEW w \in WorkerId, NEW x \in active[w], Up(phase[w]),
         x \in Task, TaskOK(w, P0, x), NEW left,
         stored[w] \ {<<x.key, x.attempt>>} \subseteq left,
         \/ AllFade(P0, parts') /\ Calm(P0, parts')
         \/ /\ Commits(P0, parts', x.key) /\ Matches(w, P0, x)
            /\ left = stored[w] /\ x.status = "ok"
  PROVE  ServedOK(w, parts', phase[w], left, ranOn)
<1> SUFFICES ASSUME NEW k \in PartitionKey, parts'[k].state = "succeeded",
                    <<k, parts'[k].attempt, w>> \in ranOn
             PROVE  <<k, parts'[k].attempt>> \in left
  BY DEF ServedOK
<1>0. ServedOK(w, P0, phase[w], stored[w], ranOn)
  BY MineAdvanced
<1>1. x.attempt \in Nat /\ x.key \in PartitionKey
  BY DEF Task
<1>2. CASE AllFade(P0, parts')
  <2>1. parts'[k] = P0[k]
    BY <1>2 DEF AllFade, Fades
  <2>2. <<k, P0[k].attempt>> \in stored[w]
    BY <1>0, <2>1 DEF ServedOK
  <2>3. ~(k = x.key /\ P0[k].attempt = x.attempt)
    BY <1>1, <2>1 DEF TaskOK, Matches, Leased, Superseded
  <2> QED BY <2>1, <2>2, <2>3
<1>3. CASE /\ Commits(P0, parts', x.key) /\ Matches(w, P0, x)
           /\ left = stored[w] /\ x.status = "ok"
  <2>1. CASE k = x.key
    <3>1. parts'[k].attempt = x.attempt
      BY <1>3, <2>1 DEF Commits, Matches, Succeeded, Unleased
    <3>2. <<x.key, x.attempt>> \in stored[w]
      BY <1>3, Mine DEF WorkerOK, UploadOK
    <3> QED BY <1>3, <2>1, <3>1, <3>2
  <2>2. CASE k # x.key
    <3>1. parts'[k] = P0[k]
      BY <1>3, <2>2 DEF Commits
    <3> QED BY <1>0, <1>3, <3>1 DEF ServedOK
  <2> QED BY <2>1, <2>2
<1> QED BY <1>2, <1>3

\* After a final report, whatever became of the worker that made it.
LEMMA ReportedStep ==
  ASSUME ClusterInv, NEW w \in WorkerId, NEW x \in active[w], InLoop(w),
         x.status # "running", Handle(w, x, TerminalState(w, x)),
         clock' = clock, ranOn' = ranOn, \A v \in WorkerId \ {w} : Idle(v),
         WorkerOK(w, workers'[w], parts', phase'[w], active'[w], asking'[w],
                  starting'[w], Owed(w)', stored'[w]),
         ServedOK(w, parts', phase'[w], stored'[w], ranOn)
  PROVE  KInvNext
<1>1. /\ x \in Task /\ SeenOK(workers', clock)
      /\ \A v \in WorkerId : /\ workers'[v].slots = W0[v].slots
                             /\ workers'[v].status = W0[v].status
      /\ \/ AllFade(P0, parts') /\ Calm(P0, parts')
         \/ /\ Commits(P0, parts', x.key) /\ Matches(w, P0, x)
            /\ KeepsBlocks(w, x) /\ x.status = "ok"
  BY FinalReport
<1>2. CASE AllFade(P0, parts') /\ Calm(P0, parts')
  BY <1>1, <1>2, CallStep
<1>3. CASE Commits(P0, parts', x.key) /\ Matches(w, P0, x)
  <2>1. x.key \in PartitionKey /\ P0[x.key].worker = w
    BY <1>1, <1>3 DEF Task, Matches
  <2> QED BY <1>1, <1>3, <2>1, CommitStep
<1> QED BY <1>1, <1>2, <1>3

\* A finished task is reported and removed.
LEMMA JoinStep ==
  ASSUME ClusterInv, NEW w \in WorkerId, NEW x \in active[w], Join(w, x)
  PROVE  KInvNext /\ phase' = phase
<1>1. \A v \in WorkerId : Owed(v)' = Owed(v)
  BY OwedSame DEF Join
<1>2. InLoop(w) /\ x.status # "running" /\ Handle(w, x, TerminalState(w, x))
  BY DEF Join
<1>3. /\ Up(phase[w]) /\ asking[w] = FALSE /\ starting[w] = {}
      /\ x \in Task /\ TaskOK(w, P0, x)
      /\ PhaseAfter(w, Reply(w, x, TerminalState(w, x))) = phase
      /\ Rests(P0, parts', w, active[w], x)
      /\ \A v \in WorkerId : /\ workers'[v].slots = W0[v].slots
                             /\ workers'[v].status = W0[v].status
      /\ \/ AllFade(P0, parts') /\ Calm(P0, parts')
         \/ /\ Commits(P0, parts', x.key) /\ Matches(w, P0, x)
            /\ KeepsBlocks(w, x) /\ x.status = "ok"
  BY <1>2, FinalReport
<1>4. phase' = phase
  BY <1>3 DEF Join
<1>5. /\ active'[w] = active[w] \ {x} /\ asking'[w] = FALSE /\ starting'[w] = {}
      /\ clock' = clock /\ ranOn' = ranOn
      /\ stored[w] \ {<<x.key, x.attempt>>} \subseteq stored'[w]
      /\ KeepsBlocks(w, x) => stored'[w] = stored[w]
  BY <1>3 DEF Join, ClusterInv, ClusterType
<1>6. \A v \in WorkerId \ {w} : Idle(v)
  BY <1>1, <1>4 DEF Join, Idle, ClusterInv, ClusterType
<1>7. WorkerOK(w, workers'[w], parts', phase[w], active[w] \ {x}, FALSE, {}, Owed(w),
               stored'[w])
  <2>1. WorkerOK(w, W0[w], P0, phase[w], active[w], FALSE, {}, Owed(w), stored[w])
    BY <1>3, MineAdvanced
  <2>2. W0[w].slots \in Nat /\ active[w] \in SUBSET Task
    BY Mine, Advanced
  <2> QED BY <1>3, <1>5, <2>1, <2>2, Joined
<1>8. ServedOK(w, parts', phase[w], stored'[w], ranOn)
  BY <1>3, <1>5, JoinedServed
<1> QED BY <1>1, <1>2, <1>4, <1>5, <1>6, <1>7, <1>8, ReportedStep

\* A finished task is reported and the worker does not learn what became of it.
LEMMA JoinAnswerLostStep ==
  ASSUME ClusterInv, NEW w \in WorkerId, NEW x \in active[w], JoinAnswerLost(w, x)
  PROVE  KInvNext
<1>1. \A v \in WorkerId : Owed(v)' = Owed(v)
  BY OwedSame DEF JoinAnswerLost
<1>2. InLoop(w) /\ x.status # "running" /\ Handle(w, x, TerminalState(w, x))
  BY DEF JoinAnswerLost
<1>3. asking[w] = FALSE /\ starting[w] = {}
  BY <1>2, FinalReport
<1>4. /\ phase'[w] = "gone" /\ active'[w] = {} /\ asking'[w] = FALSE /\ starting'[w] = {}
      /\ clock' = clock /\ ranOn' = ranOn
  BY <1>3 DEF JoinAnswerLost, ClusterInv, ClusterType
<1>5. \A v \in WorkerId \ {w} : Idle(v)
  BY <1>1 DEF JoinAnswerLost, Idle, ClusterInv, ClusterType
<1>6. ~Up("gone")
  BY DEF Up
<1>7. /\ WorkerOK(w, workers'[w], parts', "gone", {}, FALSE, {}, Owed(w)', stored'[w])
      /\ ServedOK(w, parts', "gone", stored'[w], ranOn)
  BY <1>6, DownOK, FS_EmptySet
<1> QED BY <1>2, <1>4, <1>5, <1>7, ReportedStep

-----------------------------------------------------------------------------
(* Assignments.                                                            *)

\* Q gives w a lease on k.
Gives(P, Q, k, w, t) ==
  /\ P[k].state = "pending"
  /\ Q[k] = Active(P[k].attempt, w, t)
  /\ \A j \in PartitionKey : j # k => Q[j] = P[j]

\* The tasks of earlier attempts stay superseded.
LEMMA GivenTask ==
  ASSUME NEW P, NEW Q, NEW k \in PartitionKey, NEW w, NEW t, Gives(P, Q, k, w, t),
         NEW v, NEW y, y.key \in PartitionKey, y.attempt \in Nat, TaskOK(v, P, y)
  PROVE  /\ TaskOK(v, Q, y)
         /\ y.key = k => y.attempt < P[k].attempt
<1>1. CASE y.key # k
  <2>1. Q[y.key] = P[y.key]
    BY <1>1 DEF Gives
  <2> QED BY <1>1, <2>1 DEF TaskOK, Matches
<1>2. CASE y.key = k
  <2>1. y.attempt < P[k].attempt
    BY <1>2 DEF TaskOK, Gives, Matches, Leased, Superseded
  <2>2. Q[k].state = "active" /\ Q[k].attempt = P[k].attempt
    BY DEF Gives, Active
  <2> QED BY <1>2, <2>1, <2>2 DEF TaskOK, Superseded
<1> QED BY <1>1, <1>2

\* What every worker keeps when a lease is given.
LEMMA GivenParts ==
  ASSUME NEW P, NEW Q, NEW k \in PartitionKey, NEW w, NEW t, Gives(P, Q, k, w, t),
         NEW v, NEW r, NEW s, s.slots = r.slots, s.status = r.status,
         NEW ph, NEW act \in SUBSET Task, NEW ask, NEW st \in SUBSET Lease,
         NEW owed, NEW sto, NEW H,
         WorkerOK(v, r, P, ph, act, ask, st, owed, sto), ServedOK(v, P, ph, sto, H)
  PROVE  /\ RoomOK(s, ph, act, ask, st)
         /\ TasksOK(v, Q, ph, All(act, st))
         /\ ReachOK(v, Q, ph, All(act, st), owed)
         /\ ServedOK(v, Q, ph, sto, H \cup {<<k, P[k].attempt, w>>})
<1> DEFINE all == All(act, st)
<1>0. all \subseteq Task
  BY AllTasks
<1>1. RoomOK(s, ph, act, ask, st)
  BY DEF WorkerOK, RoomOK
<1>2. TasksOK(v, Q, ph, all)
  <2> SUFFICES ASSUME Up(ph), NEW y \in all PROVE TaskOK(v, Q, y)
    BY DEF TasksOK
  <2>1. TaskOK(v, P, y)
    BY DEF WorkerOK, TasksOK
  <2>2. y.key \in PartitionKey /\ y.attempt \in Nat
    BY <1>0 DEF Task
  <2> QED BY <2>1, <2>2, GivenTask
<1>3. Q[k].state = "active" /\ Q[k].worker = w
  BY DEF Gives, Active
<1>4. ReachOK(v, Q, ph, all, owed)
  <2> SUFFICES ASSUME Up(ph), NEW x \in all, Stops(v, Q, x), x.status = "running"
               PROVE  x.token \/ x.key[1] \in owed
    BY DEF ReachOK
  <2>1. x.key \in PartitionKey /\ Q[x.key].state = "cancelling"
    BY <1>0 DEF Task, Stops
  <2>2. Q[x.key] = P[x.key]
    BY <1>3, <2>1 DEF Gives
  <2>3. Stops(v, P, x)
    BY <2>2 DEF Stops
  <2> QED BY <2>3 DEF WorkerOK, ReachOK
<1>5. ServedOK(v, Q, ph, sto, H \cup {<<k, P[k].attempt, w>>})
  <2> SUFFICES ASSUME Up(ph), NEW j \in PartitionKey, Q[j].state = "succeeded",
                      <<j, Q[j].attempt, v>> \in H \cup {<<k, P[k].attempt, w>>}
               PROVE  <<j, Q[j].attempt>> \in sto
    BY DEF ServedOK
  <2>1. j # k
    BY <1>3
  <2>2. Q[j] = P[j] /\ <<j, Q[j].attempt, v>> \in H
    BY <2>1 DEF Gives
  <2> QED BY <2>2 DEF ServedOK
<1> QED BY <1>1, <1>2, <1>4, <1>5

\* The other workers' part of the invariant survives it.
LEMMA GivenOther ==
  ASSUME NEW P, NEW Q, NEW k \in PartitionKey, NEW w, NEW t, Gives(P, Q, k, w, t),
         NEW v, v # w, NEW r, NEW s, s.slots = r.slots, s.status = r.status,
         NEW ph, NEW act \in SUBSET Task, NEW ask, NEW st \in SUBSET Lease,
         NEW owed, NEW sto, NEW H,
         WorkerOK(v, r, P, ph, act, ask, st, owed, sto), ServedOK(v, P, ph, sto, H)
  PROVE  WorkerOK(v, s, Q, ph, act, ask, st, owed, sto)
<1> DEFINE all == All(act, st)
<1>0. Q[k].state = "active" /\ Q[k].worker = w
  BY DEF Gives, Active
<1>1. /\ RoomOK(s, ph, act, ask, st)
      /\ TasksOK(v, Q, ph, All(act, st))
      /\ ReachOK(v, Q, ph, All(act, st), owed)
  BY GivenParts
<1>2. HeldOK(v, Q, ph, all)
  <2> SUFFICES ASSUME Up(ph), NEW j \in LeasesOf(Q, v)
               PROVE  \E x \in all : x.key = j /\ x.attempt = Q[j].attempt
    BY DEF HeldOK
  <2>1. j \in PartitionKey /\ j # k /\ Leased(Q[j]) /\ Q[j].worker = v
    BY <1>0 DEF LeasesOf
  <2>2. Q[j] = P[j] /\ j \in LeasesOf(P, v)
    BY <2>1 DEF Gives, LeasesOf
  <2> QED BY <2>2 DEF WorkerOK, HeldOK
<1> QED BY <1>1, <1>2 DEF WorkerOK

\* The worker that asked takes the lease into the slot it kept free.
LEMMA GivenTaken ==
  ASSUME NEW P, NEW Q, NEW k \in PartitionKey, NEW w, NEW t, Gives(P, Q, k, w, t),
         P[k].attempt \in Nat, NEW r, NEW s, s.slots = r.slots, s.status = r.status,
         NEW act \in SUBSET Task, NEW owed, NEW sto, NEW H,
         WorkerOK(w, r, P, "up", act, TRUE, {}, owed, sto), ServedOK(w, P, "up", sto, H),
         NEW lease, lease = [key |-> k, attempt |-> P[k].attempt, issued |-> t]
  PROVE  WorkerOK(w, s, Q, "up", act, FALSE, {lease}, owed, sto)
<1> DEFINE x == NewTask(lease)
           all == All(act, {lease})
<1>0. Up("up") /\ {} \in SUBSET Lease
  BY DEF Up
<1>1. /\ RoomOK(s, "up", act, TRUE, {})
      /\ TasksOK(w, Q, "up", All(act, {}))
      /\ ReachOK(w, Q, "up", All(act, {}), owed)
  BY <1>0, GivenParts
<1>2. x.key = k /\ x.attempt = P[k].attempt /\ x.issued = t /\ lease.key = k
      /\ lease.attempt = P[k].attempt
  BY DEF NewTask
<1>3. All(act, {}) = act /\ all = act \cup {x}
  BY DEF All
<1>4. Q[k].state = "active" /\ Q[k].worker = w /\ Q[k].attempt = P[k].attempt
      /\ Q[k].issued = t
  BY DEF Gives, Active
<1> HIDE DEF x, all
<1>5. TasksOK(w, Q, "up", all)
  <2>1. Matches(w, Q, x)
    BY <1>2, <1>4 DEF Matches, Leased
  <2> QED BY <1>1, <1>3, <2>1 DEF TasksOK, TaskOK
<1>6. ReachOK(w, Q, "up", all, owed)
  <2>1. ~Stops(w, Q, x)
    BY <1>2, <1>4 DEF Stops
  <2> QED BY <1>1, <1>3, <2>1 DEF ReachOK
<1>7. UniqueOK("up", act, {lease})
  <2>1. ASSUME NEW y \in act PROVE ~(y.key = lease.key /\ y.attempt = lease.attempt)
    <3>1. y.key \in PartitionKey /\ y.attempt \in Nat
      BY DEF Task
    <3>2. TaskOK(w, P, y)
      BY <1>0, <1>3 DEF WorkerOK, TasksOK
    <3>3. y.key = k => y.attempt < P[k].attempt
      BY <3>1, <3>2, GivenTask
    <3> QED BY <1>2, <3>1, <3>3
  <2> QED BY <1>0, <2>1 DEF WorkerOK, UniqueOK
<1>8. HeldOK(w, Q, "up", all)
  <2> SUFFICES ASSUME NEW j \in LeasesOf(Q, w)
               PROVE  \E y \in all : y.key = j /\ y.attempt = Q[j].attempt
    BY DEF HeldOK
  <2>1. CASE j = k
    BY <1>2, <1>3, <1>4, <2>1
  <2>2. CASE j # k
    <3>1. Q[j] = P[j] /\ j \in LeasesOf(P, w)
      BY <2>2 DEF Gives, LeasesOf
    <3>2. HeldOK(w, P, "up", act)
      BY <1>3 DEF WorkerOK
    <3> QED BY <1>0, <1>3, <3>1, <3>2 DEF HeldOK
  <2> QED BY <2>1, <2>2
<1>9. LoopOK("up", act, FALSE, {lease})
  BY DEF WorkerOK, LoopOK
<1>10. RoomOK(s, "up", act, FALSE, {lease})
  BY <1>1 DEF RoomOK
<1>11. UploadOK("up", act, sto)
  BY DEF WorkerOK
<1> QED BY <1>5, <1>6, <1>7, <1>8, <1>9, <1>10, <1>11 DEF WorkerOK, all

\* next_assignment_for gives one lease.
LEMMA AssignmentGives ==
  ASSUME ClusterInv, NEW w \in WorkerId, NextAssignmentFor(w, clock),
         NEW k \in PartitionKey, P0[k].state = "pending", parts'[k].state = "active"
  PROVE  /\ Gives(P0, parts', k, w, clock)
         /\ W0[w].status = "alive"
         /\ \A v \in WorkerId : /\ workers'[v].slots = W0[v].slots
                                /\ workers'[v].status = W0[v].status
         /\ SeenOK(workers', clock)
         /\ clock + LeaseDuration <= TimeMax
<1>0. W0 \in [WorkerId -> WorkerRuntime] /\ P0 \in [PartitionKey -> PartitionRuntime]
  BY Advanced DEF TypeWP
<1>1. PICK j \in PartitionKey :
        /\ NextPending(P0, j)
        /\ clock + LeaseDuration <= TimeMax
        /\ parts' = [P0 EXCEPT ![j] = Active(P0[j].attempt, w, clock)]
        /\ workers' = [W0 EXCEPT ![w].available = W0[w].available - 1]
  BY DEF NextAssignmentFor, Assign, W0, P0
<1>2. j = k
  BY <1>0, <1>1
<1>3. Gives(P0, parts', k, w, clock)
  BY <1>0, <1>1, <1>2 DEF Gives
<1>4. \A v \in WorkerId : /\ workers'[v].slots = W0[v].slots
                          /\ workers'[v].status = W0[v].status
                          /\ workers'[v].observed = W0[v].observed
  BY <1>0, <1>1 DEF WorkerRuntime
<1>5. SeenOK(workers', clock)
  BY <1>4, Advanced DEF KInv, SeenOK
<1>6. W0[w].status = "alive"
  BY DEF NextAssignmentFor, HasFreeSlot, W0
<1> QED BY <1>1, <1>3, <1>4, <1>5, <1>6

\* The lease given is a new one.
LEMMA GivenGlobal ==
  ASSUME NEW W, NEW V, NEW P \in [PartitionKey -> PartitionRuntime], NEW Q,
         NEW k \in PartitionKey, NEW w \in WorkerId, NEW t \in Nat,
         Gives(P, Q, k, w, t),
         W[w].status # "unknown", \A v \in WorkerId : V[v].status = W[v].status,
         NEW H \in SUBSET (PartitionKey \X Nat \X WorkerId),
         LeasesOK(P, t), HistoryOK(W, P, H)
  PROVE  LeasesOK(Q, t) /\ HistoryOK(V, Q, H \cup {<<k, P[k].attempt, w>>})
<1> DEFINE a == P[k].attempt
           new == <<k, a, w>>
<1>0. a \in Nat
  BY DEF PartitionRuntime
<1>1. /\ Q[k].state = "active" /\ Q[k].worker = w /\ Q[k].attempt = a
      /\ Q[k].issued = t /\ Q[k].expires = t + LeaseDuration /\ Q[k].started = NoTime
  BY DEF Gives, Active
<1>2. \A j \in PartitionKey : j # k => Q[j] = P[j]
  BY DEF Gives
<1>3. LeasesOK(Q, t)
  <2>1. t < t + LeaseDuration
    BY ConfigAssumption
  <2> QED BY <1>1, <1>2, <2>1 DEF LeasesOK
<1>4. ASSUME NEW e \in H
      PROVE  /\ V[e[3]].status # "unknown" /\ Issued(Q[e[1]], e[2])
             /\ ~(e[1] = k /\ e[2] = a)
  <2>1. e[1] \in PartitionKey /\ e[2] \in Nat /\ e[3] \in WorkerId
    OBVIOUS
  <2>2. W[e[3]].status # "unknown" /\ Issued(P[e[1]], e[2])
    BY DEF HistoryOK
  <2>3. CASE e[1] = k
    <3>1. e[2] < a
      BY <2>2, <2>3 DEF Issued, Superseded, Gives
    <3> HIDE DEF a
    <3>2. Issued(Q[k], e[2])
      BY <1>1, <3>1 DEF Issued, Superseded
    <3>3. e[2] # a
      BY <1>0, <2>1, <3>1
    <3> QED BY <2>1, <2>2, <2>3, <3>2, <3>3
  <2>4. CASE e[1] # k
    BY <1>2, <2>1, <2>2, <2>4
  <2> QED BY <2>3, <2>4
<1>5. new[1] = k /\ new[2] = a /\ new[3] = w
  OBVIOUS
<1>6. Issued(Q[k], a) /\ V[w].status # "unknown"
  BY <1>1 DEF Issued
<1> HIDE DEF new, a
<1> DEFINE K == H \cup {new}
<1>7. \A e \in K : V[e[3]].status # "unknown" /\ Issued(Q[e[1]], e[2])
  BY <1>4, <1>5, <1>6
<1>8. \A e, f \in K : e[1] = f[1] /\ e[2] = f[2] => e[3] = f[3]
  <2>1. \A e, f \in H : e[1] = f[1] /\ e[2] = f[2] => e[3] = f[3]
    BY DEF HistoryOK
  <2> QED BY <1>4, <1>5, <2>1
<1>9. \A j \in PartitionKey : Leased(Q[j]) => <<j, Q[j].attempt, Q[j].worker>> \in K
  <2>1. <<k, Q[k].attempt, Q[k].worker>> \in K
    BY <1>1 DEF new
  <2>2. ASSUME NEW j \in PartitionKey, j # k, Leased(Q[j])
        PROVE  <<j, Q[j].attempt, Q[j].worker>> \in K
    BY <1>2, <2>2 DEF HistoryOK
  <2> QED BY <2>1, <2>2
<1> QED BY <1>3, <1>7, <1>8, <1>9 DEF HistoryOK, new, a

\* The poll comes back with an assignment.
LEMMA PollWorkStep ==
  ASSUME ClusterInv, NEW w \in WorkerId, PollAssignment(w),
         NextAssignmentFor(w, clock), NEW k \in PartitionKey,
         P0[k].state = "pending", parts'[k].state = "active",
         starting' = [starting EXCEPT ![w] =
           {[key |-> k, attempt |-> P0[k].attempt, issued |-> clock]}],
         ranOn' = ranOn \cup {<<k, P0[k].attempt, w>>}
  PROVE  KInvNext
<1> DEFINE lease == [key |-> k, attempt |-> P0[k].attempt, issued |-> clock]
<1>1. \A v \in WorkerId : Owed(v)' = Owed(v)
  BY OwedSame DEF PollAssignment
<1>2. \A v \in WorkerId \ {w} : Idle(v)
  BY <1>1 DEF PollAssignment, Idle, ClusterInv, ClusterType
<1>3. asking[w] = TRUE
  BY DEF PollAssignment, ClusterInv, ClusterType
<1>4. phase[w] = "up" /\ starting[w] = {}
  BY <1>3, Mine DEF WorkerOK, LoopOK
<1>5. /\ phase'[w] = "up" /\ active'[w] = active[w] /\ asking'[w] = FALSE
      /\ starting'[w] = {lease} /\ stored'[w] = stored[w] /\ clock' = clock
  BY <1>4 DEF PollAssignment, ClusterInv, ClusterType
<1>6. /\ Gives(P0, parts', k, w, clock)
      /\ W0[w].status = "alive"
      /\ \A v \in WorkerId : /\ workers'[v].slots = W0[v].slots
                             /\ workers'[v].status = W0[v].status
      /\ SeenOK(workers', clock)
  BY AssignmentGives
<1>7. /\ P0 \in [PartitionKey -> PartitionRuntime] /\ P0[k].attempt \in Nat
      /\ LeasesOK(P0, clock) /\ HistoryOK(W0, P0, ranOn)
      /\ ranOn \in SUBSET (PartitionKey \X Nat \X WorkerId) /\ clock \in Nat
  BY SMTT(30), Advanced, ConfigAssumption
     DEF TypeWP, PartitionRuntime, KInv, ClusterInv, ClusterType, Time
<1>8. LeasesOK(parts', clock) /\ HistoryOK(workers', parts', ranOn')
  BY <1>6, <1>7, GivenGlobal
<1>9. ASSUME NEW v \in WorkerId, v # w
      PROVE  /\ WorkerOK(v, workers'[v], parts', phase'[v], active'[v], asking'[v],
                         starting'[v], Owed(v)', stored'[v])
             /\ ServedOK(v, parts', phase'[v], stored'[v], ranOn')
  <2>1. /\ WorkerOK(v, W0[v], P0, phase[v], active[v], asking[v], starting[v], Owed(v),
                    stored[v])
        /\ ServedOK(v, P0, phase[v], stored[v], ranOn)
        /\ active[v] \in SUBSET Task /\ starting[v] \in SUBSET Lease
    BY Mine, MineAdvanced
  <2>2. workers'[v].slots = W0[v].slots /\ workers'[v].status = W0[v].status
    BY <1>6
  <2>3. /\ WorkerOK(v, workers'[v], parts', phase[v], active[v], asking[v], starting[v],
                    Owed(v), stored[v])
        /\ ServedOK(v, parts', phase[v], stored[v],
                    ranOn \cup {<<k, P0[k].attempt, w>>})
    <3>1. Gives(P0, parts', k, w, clock)
      BY <1>6
    <3>2. WorkerOK(v, workers'[v], parts', phase[v], active[v], asking[v], starting[v],
                   Owed(v), stored[v])
      BY <1>9, <2>1, <2>2, <3>1, GivenOther
    <3> QED BY <2>1, <2>2, <3>1, <3>2, GivenParts
  <2> QED BY <1>2, <1>9, <2>3 DEF Idle
<1>10. /\ WorkerOK(w, workers'[w], parts', "up", active[w], FALSE, {lease}, Owed(w),
                   stored[w])
       /\ ServedOK(w, parts', "up", stored[w], ranOn')
  <2>1. /\ WorkerOK(w, W0[w], P0, "up", active[w], TRUE, {}, Owed(w), stored[w])
        /\ ServedOK(w, P0, "up", stored[w], ranOn)
        /\ active[w] \in SUBSET Task /\ {} \in SUBSET Lease
    BY <1>3, <1>4, Mine, MineAdvanced
  <2>2. workers'[w].slots = W0[w].slots /\ workers'[w].status = W0[w].status
    BY <1>6
  <2>3. ServedOK(w, parts', "up", stored[w], ranOn')
    BY <1>6, <2>1, <2>2, GivenParts
  <2>4. WorkerOK(w, workers'[w], parts', "up", active[w], FALSE, {lease}, Owed(w),
                 stored[w])
    BY <1>6, <1>7, <2>1, <2>2, GivenTaken
  <2> QED BY <2>3, <2>4
<1>11. /\ WorkerOK(w, workers'[w], parts', phase'[w], active'[w], asking'[w],
                   starting'[w], Owed(w)', stored'[w])
       /\ ServedOK(w, parts', phase'[w], stored'[w], ranOn')
  BY <1>1, <1>5, <1>10
<1> QED BY <1>5, <1>6, <1>8, <1>9, <1>11 DEF KInvNext

-----------------------------------------------------------------------------
(* Clients and time.                                                       *)

\* A step of no worker: partitions fade, and cancellations are on their way.
LEMMA ClientStep ==
  ASSUME ClusterInv, workers' = workers, UNCHANGED workerVars, ranOn' = ranOn,
         clock' \in Int, clock <= clock', AllFade(parts, parts'),
         \A w \in WorkerId :
           ReachOK(w, parts', phase[w], All(active[w], starting[w]), Owed(w)')
  PROVE  KInvNext
<1>0. /\ parts \in [PartitionKey -> PartitionRuntime]
      /\ ranOn \in SUBSET (PartitionKey \X Nat \X WorkerId)
      /\ clock \in Int
      /\ \A w \in WorkerId : workers[w].observed \in Int
      /\ \A k \in PartitionKey : parts[k].issued \in Int
  BY ConfigAssumption
     DEF ClusterInv, TypeOK, ClusterType, Time, WorkerRuntime, PartitionRuntime
<1>1. SeenOK(workers', clock')
  BY <1>0 DEF ClusterInv, KInv, SeenOK
<1>2. LeasesOK(parts, clock')
  BY <1>0 DEF ClusterInv, KInv, LeasesOK
<1>3. HistoryOK(workers, parts, ranOn)
  BY DEF ClusterInv, KInv
<1>4. LeasesOK(parts', clock') /\ HistoryOK(workers', parts', ranOn')
  BY <1>0, <1>2, <1>3, FadeGlobal
<1>5. ASSUME NEW w \in WorkerId
      PROVE  /\ WorkerOK(w, workers'[w], parts', phase'[w], active'[w], asking'[w],
                         starting'[w], Owed(w)', stored'[w])
             /\ ServedOK(w, parts', phase'[w], stored'[w], ranOn')
  <2>1. /\ phase' = phase /\ active' = active /\ asking' = asking
        /\ starting' = starting /\ stored' = stored
    BY DEF workerVars
  <2>2. ReachOK(w, parts', phase[w], All(active[w], starting[w]), Owed(w)')
    OBVIOUS
  <2>3. /\ WorkerOK(w, workers[w], parts', phase[w], active[w], asking[w], starting[w],
                    Owed(w)', stored[w])
        /\ ServedOK(w, parts', phase[w], stored[w], ranOn)
    BY <1>0, <2>2, Mine, FadeButReach
  <2> QED BY <2>1, <2>3
<1> QED BY <1>1, <1>4, <1>5 DEF KInvNext

\* Nothing newly to be stopped.
LEMMA CalmReach ==
  ASSUME ClusterInv, AllFade(parts, parts'), Calm(parts, parts'),
         NEW w \in WorkerId, Owed(w)' = Owed(w)
  PROVE  ReachOK(w, parts', phase[w], All(active[w], starting[w]), Owed(w)')
<1>1. parts \in [PartitionKey -> PartitionRuntime]
  BY DEF ClusterInv, TypeOK
<1>2. WorkerOK(w, workers[w], parts', phase[w], active[w], asking[w], starting[w],
               Owed(w), stored[w])
  BY <1>1, Mine, FadeWorker
<1> QED BY <1>2 DEF WorkerOK

\* A submission queues the partitions of a new stage.
LEMMA SubmitClientStep ==
  ASSUME ClusterInv, NEW plan \in StagePlans, Submit(plan)
  PROVE  KInvNext
<1>1. /\ workers' = workers /\ UNCHANGED workerVars /\ ranOn' = ranOn
      /\ clock' = clock /\ UNCHANGED serviceVars
  BY DEF Submit, SubmitStage
<1>2. ASSUME NEW k \in PartitionKey
      PROVE  /\ Fades(parts[k], parts'[k])
             /\ parts'[k].state = "cancelling" => parts[k].state = "cancelling"
  <2> DEFINE key == <<plan.query, plan.stage>>
  <2>1. /\ stages[key] = NoStage
        /\ parts'[k] = IF KeyOf(k) = key /\ k[3] < plan.partitions
                       THEN Pending(0) ELSE parts[k]
    BY DEF Submit, SubmitStage
  <2>2. CASE KeyOf(k) = key
    <3>1. parts[k].state = "absent"
      BY <2>1, <2>2 DEF ClusterInv, CInv, Shape
    <3>2. Pending(0).state = "pending"
      BY DEF Pending, Unleased
    <3>3. Fades(parts[k], Pending(0))
      BY <3>1, <3>2 DEF Fades, Leased, Superseded
    <3> QED BY <2>1, <3>2, <3>3, FadeSame
  <2>3. CASE KeyOf(k) # key
    BY <2>1, <2>3, FadeSame
  <2> QED BY <2>2, <2>3
<1>3. AllFade(parts, parts') /\ Calm(parts, parts')
  BY <1>2 DEF AllFade, Calm
<1>4. clock' \in Int /\ clock <= clock'
  BY <1>1, ConfigAssumption DEF ClusterInv, ClusterType, Time
<1>5. \A w \in WorkerId : Owed(w)' = Owed(w)
  BY <1>1, OwedSame
<1> QED BY <1>1, <1>3, <1>4, <1>5, CalmReach, ClientStep

\* A cancelled query's partitions.
LEMMA FadeCancelled ==
  ASSUME NEW p \in PartitionRuntime
  PROVE  /\ Fades(p, CancelledPartition(p))
         /\ CancelledPartition(p).state = "cancelling" =>
              p.state = "active" /\ CancelledPartition(p).worker = p.worker
<1> DEFINE q == CancelledPartition(p)
<1>0. p.state \in {"absent", "pending", "active", "cancelling", "succeeded", "failed",
                   "cancelled"} /\ p.attempt \in Nat
  BY DEF PartitionRuntime
<1>1. CASE p.state = "active"
  <2>1. q.state = "cancelling" /\ q.attempt = p.attempt /\ q.worker = p.worker
        /\ q.issued = p.issued /\ q.expires = p.expires /\ q.started = NoTime
    BY <1>1 DEF CancelledPartition, Cancelling, PartitionRuntime
  <2> HIDE DEF q
  <2>2. Fades(p, q)
    BY <1>0, <1>1, <2>1 DEF Fades, Leased, Superseded
  <2> QED BY <1>1, <2>1, <2>2 DEF q
<1>2. CASE p.state \in {"absent", "succeeded"}
  <2>1. q = p
    BY <1>2 DEF CancelledPartition
  <2> QED BY <1>2, <2>1, FadeSame
<1>3. CASE p.state \in {"pending", "cancelling", "failed", "cancelled"}
  <2>1. q.state = "cancelled"
    BY <1>3 DEF CancelledPartition, Cancelled, Unleased
  <2> HIDE DEF q
  <2>2. Fades(p, q)
    BY <1>0, <1>3, <2>1 DEF Fades, Leased, Superseded
  <2> QED BY <2>1, <2>2 DEF q
<1> QED BY <1>0, <1>1, <1>2, <1>3

\* A cancellation: whoever holds a lease of the query is to be notified.
LEMMA CancelStep ==
  ASSUME ClusterInv, NEW q \in QueryId, Cancel(q)
  PROVE  KInvNext
<1>1. /\ workers' = workers /\ UNCHANGED workerVars /\ ranOn' = ranOn
      /\ clock' = clock /\ inbox' = inbox /\ q \notin cancelled
      /\ \A k \in PartitionKey :
           parts'[k] = IF k[1] = q THEN CancelledPartition(parts[k]) ELSE parts[k]
  BY DEF Cancel, CancelQuery
<1>2. /\ \A p \in QueryId : p # q => notifying'[p] = notifying[p]
      /\ \A w \in WorkerId, k \in PartitionKey :
           k[1] = q /\ parts[k].state = "active" /\ parts[k].worker = w
             => w \in notifying'[q]
  BY DEF Cancel, ClusterInv, ClusterType
<1>3. parts \in [PartitionKey -> PartitionRuntime]
  BY DEF ClusterInv, TypeOK
<1>4. AllFade(parts, parts')
  BY <1>1, <1>3, FadeCancelled, FadeSame DEF AllFade
<1>5. ASSUME NEW w \in WorkerId
      PROVE  ReachOK(w, parts', phase[w], All(active[w], starting[w]), Owed(w)')
  <2> SUFFICES ASSUME Up(phase[w]), NEW x \in All(active[w], starting[w]),
                      Stops(w, parts', x), x.status = "running"
               PROVE  x.token \/ x.key[1] \in Owed(w)'
    BY DEF ReachOK
  <2>1. x \in Task
    BY Mine, AllTasks
  <2>2. x.key \in PartitionKey /\ x.key[1] \in QueryId
    BY <2>1 DEF Task, PartitionKey
  <2>3. CASE x.key[1] = q
    <3>1. parts'[x.key] = CancelledPartition(parts[x.key])
      BY <1>1, <2>2, <2>3
    <3>2. parts[x.key].state = "active" /\ parts[x.key].worker = w
      BY <1>3, <2>2, <3>1, FadeCancelled DEF Stops
    <3>3. w \in notifying'[q]
      BY <1>2, <2>2, <2>3, <3>2
    <3> QED BY <2>3, <3>3 DEF Owed
  <2>4. CASE x.key[1] # q
    <3>1. parts'[x.key] = parts[x.key]
      BY <1>1, <2>2, <2>4
    <3>2. Stops(w, parts, x)
      BY <3>1 DEF Stops
    <3>3. x.token \/ x.key[1] \in Owed(w)
      BY <3>2, Mine DEF WorkerOK, ReachOK
    <3>4. x.key[1] \in Owed(w) => x.key[1] \in Owed(w)'
      BY <1>1, <1>2, <2>2, <2>4 DEF Owed
    <3> QED BY <3>3, <3>4
  <2> QED BY <2>3, <2>4
<1>6. clock' \in Int /\ clock <= clock'
  BY <1>1, ConfigAssumption DEF ClusterInv, ClusterType, Time
<1> QED BY <1>1, <1>4, <1>5, <1>6, ClientStep

\* Queueing the message changes who holds it, not that it is on its way.
LEMMA NotifyStep ==
  ASSUME ClusterInv, NEW q \in QueryId, Notify(q)
  PROVE  KInvNext
<1>1. /\ workers' = workers /\ parts' = parts /\ UNCHANGED workerVars
      /\ ranOn' = ranOn /\ clock' = clock
  BY DEF Notify, vars
<1>2. AllFade(parts, parts') /\ Calm(parts, parts')
  BY <1>1, FadeSame DEF AllFade, Calm
<1>3. ASSUME NEW w \in WorkerId PROVE Owed(w)' = Owed(w)
  <2>0. /\ inbox[w] \in Seq(QueryId) /\ notifying \in [QueryId -> SUBSET WorkerId]
        /\ inbox'[w] = IF w \in notifying[q] THEN Append(inbox[w], q) ELSE inbox[w]
        /\ \A p \in QueryId : notifying'[p] = IF p = q THEN {} ELSE notifying[p]
    BY DEF Notify, ClusterInv, ClusterType
  <2>1. CASE w \in notifying[q]
    <3>1. inbox'[w] = Append(inbox[w], q)
      BY <2>0, <2>1
    <3>2. {inbox'[w][n] : n \in DOMAIN inbox'[w]}
            = {inbox[w][n] : n \in DOMAIN inbox[w]} \cup {q}
      <4>1. Len(inbox[w]) \in Nat /\ DOMAIN inbox[w] = 1 .. Len(inbox[w])
        BY <2>0, LenProperties
      <4>2. DOMAIN inbox'[w] = 1 .. Len(inbox[w]) + 1
        BY <2>0, <3>1, AppendProperties, LenProperties
      <4>3. inbox'[w][Len(inbox[w]) + 1] = q
        BY <2>0, <3>1, AppendProperties
      <4>4. \A n \in 1 .. Len(inbox[w]) : inbox'[w][n] = inbox[w][n]
        BY <2>0, <3>1, AppendProperties
      <4>5. DOMAIN inbox'[w] = (DOMAIN inbox[w]) \cup {Len(inbox[w]) + 1}
        BY <4>1, <4>2
      <4> QED BY <4>1, <4>3, <4>4, <4>5
    <3> QED BY <2>0, <2>1, <3>2 DEF Owed
  <2>2. CASE w \notin notifying[q]
    BY <2>0, <2>2 DEF Owed
  <2> QED BY <2>1, <2>2
<1>4. clock' \in Int /\ clock <= clock'
  BY <1>1, ConfigAssumption DEF ClusterInv, ClusterType, Time
<1> QED BY <1>1, <1>2, <1>3, <1>4, CalmReach, ClientStep

\* Time passes; also for a step that changes nothing.
LEMMA TickStep ==
  ASSUME ClusterInv, Tick \/ UNCHANGED cvars
  PROVE  KInvNext
<1>1. /\ workers' = workers /\ parts' = parts /\ UNCHANGED workerVars
      /\ ranOn' = ranOn /\ UNCHANGED serviceVars
  BY DEF Tick, cvars, vars
<1>2. AllFade(parts, parts') /\ Calm(parts, parts')
  BY <1>1, FadeSame DEF AllFade, Calm
<1>3. clock' \in Int /\ clock <= clock'
  BY ConfigAssumption DEF Tick, cvars, ClusterInv, ClusterType, Time
<1>4. \A w \in WorkerId : Owed(w)' = Owed(w)
  BY <1>1, OwedSame
<1> QED BY <1>1, <1>2, <1>3, <1>4, CalmReach, ClientStep

-----------------------------------------------------------------------------
(* The whole cluster.                                                      *)

\* Every step of the cluster is one of the coordinator or leaves it alone.
LEMMA ClusterSteps ==
  ASSUME ClusterInv, [CNext]_cvars
  PROVE  [Next]_vars
<1>0. clock \in Time
  BY DEF ClusterInv, ClusterType
<1>1. ASSUME NEW w \in WorkerId, Register(w) PROVE [Next]_vars
  BY <1>0, <1>1 DEF Register, Next
<1>2. ASSUME NEW w \in WorkerId, Heartbeat(w) PROVE [Next]_vars
  <2>1. AvailableSlots(w) \in FreeCounts
    BY <1>2, HeartbeatAccepted DEF Heartbeat
  <2> QED BY <1>0, <1>2, <2>1 DEF Heartbeat, Next
<1>3. ASSUME NEW w \in WorkerId, PollAssignment(w) PROVE [Next]_vars
  BY <1>0, <1>3 DEF PollAssignment, Next
<1>4. ASSUME NEW w \in WorkerId, Start(w) PROVE [Next]_vars
  BY <1>4, StartStep
<1>5. ASSUME NEW w \in WorkerId, NEW x \in active[w], Join(w, x) \/ JoinAnswerLost(w, x)
      PROVE  [Next]_vars
  <2>1. InLoop(w) /\ x.status # "running" /\ Handle(w, x, TerminalState(w, x))
    BY <1>5 DEF Join, JoinAnswerLost
  <2> QED BY <2>1, FinalNext
<1>6. ASSUME NEW w \in WorkerId,
             \/ Crash(w) \/ Restart(w) \/ Shutdown(w) \/ Leave(w)
             \/ PollCancellation(w) \/ PollFindsNoMessage(w)
             \/ \E x \in active[w], status \in Statuses \ {"running"} :
                  TaskEnds(w, x, status)
      PROVE  UNCHANGED vars
  BY <1>6 DEF Crash, Restart, Shutdown, Leave, PollCancellation, PollFindsNoMessage,
              TaskEnds
<1>7. ASSUME NEW plan \in StagePlans, Submit(plan) PROVE [Next]_vars
  BY <1>7 DEF Submit, Next
<1>8. ASSUME NEW q \in QueryId, Cancel(q) PROVE [Next]_vars
  BY <1>8 DEF Cancel, Next
<1>9. ASSUME (\E q \in QueryId : Notify(q)) \/ Tick \/ UNCHANGED cvars
      PROVE  UNCHANGED vars
  BY <1>9 DEF Notify, Tick, cvars
<1> QED BY <1>1, <1>2, <1>3, <1>4, <1>5, <1>6, <1>7, <1>8, <1>9 DEF CNext, Worker

\* Every step keeps the workers' part of the invariant.
LEMMA KInvStep ==
  ASSUME ClusterInv, [CNext]_cvars
  PROVE  KInvNext
<1>1. ASSUME NEW w \in WorkerId, Worker(w) PROVE KInvNext
  <2>1. ASSUME PollAssignment(w) PROVE KInvNext
    <3>1. CASE AdvanceTime(clock) /\ UNCHANGED <<starting, ranOn>>
      BY <2>1, <3>1, PollNothingStep
    <3>2. CASE /\ NextAssignmentFor(w, clock)
               /\ \E k \in PartitionKey :
                    /\ P0[k].state = "pending" /\ parts'[k].state = "active"
                    /\ starting' = [starting EXCEPT ![w] =
                         {[key |-> k, attempt |-> P0[k].attempt, issued |-> clock]}]
                    /\ ranOn' = ranOn \cup {<<k, P0[k].attempt, w>>}
      BY <2>1, <3>2, PollWorkStep
    <3> QED BY <2>1, <3>1, <3>2 DEF PollAssignment
  <2> QED
    BY <1>1, <2>1, RegisterStep, CrashStep, RestartStep, ShutdownStep, LeaveStep,
       HeartbeatStep, PollCancellationStep, PollFindsNoMessageStep, StartStep, JoinStep,
       JoinAnswerLostStep, TaskEndsStep DEF Worker
<1> QED BY <1>1, SubmitClientStep, CancelStep, NotifyStep, TickStep DEF CNext

\* The state of workers and service keeps its type: what workers do.
LEMMA WorkerTypes ==
  ASSUME ClusterInv, NEW w \in WorkerId, Worker(w)
  PROVE  ClusterType'
<1>0. ClusterType
  BY DEF ClusterInv
<1>1. active[w] \in SUBSET Task /\ starting[w] \in SUBSET Lease
  BY Mine
<1>2. CASE Register(w) \/ Heartbeat(w)
  BY <1>0, <1>2 DEF ClusterType, Phases, Register, Heartbeat, serviceVars
<1>a. CASE Restart(w)
  BY <1>0, <1>a DEF ClusterType, Phases, Restart, serviceVars
<1>b. CASE Leave(w)
  BY <1>0, <1>b DEF ClusterType, Phases, Leave, serviceVars
<1>c. CASE PollFindsNoMessage(w)
  BY <1>0, <1>c DEF ClusterType, PollFindsNoMessage, serviceVars
<1>3. CASE Crash(w)
  BY <1>0, <1>3 DEF ClusterType, Phases, Crash, serviceVars
<1>4. CASE Shutdown(w)
  <2>1. CancelTokens(active[w]) \in SUBSET Task
    BY <1>1 DEF CancelTokens, Task
  <2> QED BY <1>0, <1>4, <2>1 DEF ClusterType, Phases, Shutdown, serviceVars
<1>5. CASE PollCancellation(w)
  <2>1. inbox[w] \in Seq(QueryId) /\ inbox[w] # << >>
    BY <1>0, <1>5 DEF ClusterType, PollCancellation
  <2>2. Head(inbox[w]) \in QueryId /\ Tail(inbox[w]) \in Seq(QueryId)
    BY <2>1, HeadTailProperties
  <2> DEFINE new == {IF QueryOf(x) = Head(inbox[w]) THEN [x EXCEPT !.token = TRUE]
                     ELSE x : x \in active[w]}
  <2>3. new \in SUBSET Task
    <3>1. \A x \in Task : [x EXCEPT !.token = TRUE] \in Task
      BY DEF Task
    <3> QED BY <1>1, <3>1
  <2> HIDE DEF new
  <2>4. active' = [active EXCEPT ![w] = new]
    BY <1>5 DEF PollCancellation, new
  <2> QED BY <1>0, <1>5, <2>2, <2>3, <2>4 DEF ClusterType, PollCancellation
<1>6. CASE PollAssignment(w)
  <2>1. \A k \in PartitionKey :
          /\ [key |-> k, attempt |-> P0[k].attempt, issued |-> clock] \in Lease
          /\ <<k, P0[k].attempt, w>> \in PartitionKey \X Nat \X WorkerId
    BY <1>0, MineAdvanced DEF PartitionRuntime, Lease, ClusterType
  <2>2. starting' \in [WorkerId -> SUBSET Lease]
        /\ ranOn' \subseteq PartitionKey \X Nat \X WorkerId
    <3>1. CASE UNCHANGED <<starting, ranOn>>
      BY <1>0, <3>1 DEF ClusterType
    <3>2. ASSUME NEW k \in PartitionKey,
                 starting' = [starting EXCEPT ![w] =
                   {[key |-> k, attempt |-> P0[k].attempt, issued |-> clock]}],
                 ranOn' = ranOn \cup {<<k, P0[k].attempt, w>>}
          PROVE  starting' \in [WorkerId -> SUBSET Lease]
                 /\ ranOn' \subseteq PartitionKey \X Nat \X WorkerId
      <4> DEFINE lease == [key |-> k, attempt |-> P0[k].attempt, issued |-> clock]
      <4>1. lease \in Lease
        BY <2>1
      <4> HIDE DEF lease
      <4>2. starting' = [starting EXCEPT ![w] = {lease}]
        BY <3>2 DEF lease
      <4> QED BY <1>0, <2>1, <3>2, <4>1, <4>2 DEF ClusterType
    <3> QED BY <1>6, <3>1, <3>2 DEF PollAssignment
  <2> QED BY <1>0, <1>6, <2>2 DEF ClusterType, PollAssignment, serviceVars
<1>7. CASE Start(w)
  <2>1. phase' = phase
    BY <1>7, StartStep
  <2>2. active' \in [WorkerId -> SUBSET Task]
    <3>1. PICK lease \in starting[w] :
            \/ active' = [active EXCEPT ![w] = active[w]]
            \/ active' = [active EXCEPT ![w] = active[w] \cup {NewTask(lease)}]
      BY <1>7 DEF Start
    <3>2. NewTask(lease) \in Task
      BY <1>1 DEF NewTask, Lease, Task, Statuses
    <3>3. active[w] \cup {NewTask(lease)} \in SUBSET Task
      BY <1>1, <3>2
    <3>4. active \in [WorkerId -> SUBSET Task]
      BY <1>0 DEF ClusterType
    <3>5. CASE active' = [active EXCEPT ![w] = active[w]]
      BY <1>1, <3>4, <3>5
    <3>6. CASE active' = [active EXCEPT ![w] = active[w] \cup {NewTask(lease)}]
      BY <3>3, <3>4, <3>6
    <3> QED BY <3>1, <3>5, <3>6
  <2> QED BY <1>0, <1>7, <2>1, <2>2 DEF ClusterType, Start, serviceVars
<1>8. ASSUME NEW x \in active[w], Join(w, x) PROVE ClusterType'
  <2>1. phase' = phase
    BY <1>8, JoinStep
  <2> QED BY <1>0, <1>8, <2>1 DEF ClusterType, Join, serviceVars
<1>9. ASSUME NEW x \in active[w], JoinAnswerLost(w, x) PROVE ClusterType'
  BY <1>0, <1>9 DEF ClusterType, Phases, JoinAnswerLost, serviceVars
<1>10. ASSUME NEW x \in active[w], NEW status \in Statuses \ {"running"},
              TaskEnds(w, x, status)
       PROVE  ClusterType'
  <2>1. x \in Task
    BY <1>1
  <2>2. Ended(x, status) \in Task /\ x.key \in PartitionKey /\ x.attempt \in Nat
    BY <2>1 DEF Ended, Task
  <2>3. active' \in [WorkerId -> SUBSET Task]
    BY <1>0, <1>10, <2>2 DEF ClusterType, TaskEnds
  <2>4. stored' \in [WorkerId -> SUBSET (PartitionKey \X Nat)]
    BY <1>0, <1>10, <2>2 DEF ClusterType, TaskEnds
  <2> QED BY <1>0, <1>10, <2>3, <2>4 DEF ClusterType, TaskEnds, serviceVars
<1> QED BY <1>2, <1>a, <1>b, <1>c, <1>3, <1>4, <1>5, <1>6, <1>7, <1>8, <1>9, <1>10
       DEF Worker

\* What clients and time do.
LEMMA ClientTypes ==
  ASSUME ClusterInv, [CNext]_cvars, ~\E w \in WorkerId : Worker(w)
  PROVE  ClusterType'
<1>0. ClusterType
  BY DEF ClusterInv
<1>1. ASSUME NEW plan \in StagePlans, Submit(plan) PROVE ClusterType'
  BY <1>0, <1>1 DEF ClusterType, Submit, workerVars, serviceVars
<1>2. ASSUME NEW q \in QueryId, Cancel(q) PROVE ClusterType'
  BY <1>0, <1>2 DEF ClusterType, Cancel, workerVars
<1>3. ASSUME NEW q \in QueryId, Notify(q) PROVE ClusterType'
  <2>1. \A w \in WorkerId : inbox[w] \in Seq(QueryId)
                            /\ Append(inbox[w], q) \in Seq(QueryId)
    BY <1>0, AppendProperties DEF ClusterType
  <2>2. inbox' \in [WorkerId -> Seq(QueryId)]
    BY <1>3, <2>1 DEF Notify
  <2> QED BY <1>0, <1>3, <2>2 DEF ClusterType, Notify, workerVars
<1>4. CASE Tick
  <2>1. clock' \in Time
    BY <1>0, <1>4, ConfigAssumption DEF ClusterType, Tick, Time
  <2> QED BY <1>0, <1>4, <2>1 DEF ClusterType, Tick, workerVars, serviceVars
<1>5. CASE UNCHANGED cvars
  BY <1>0, <1>5 DEF ClusterType, cvars, workerVars, serviceVars
<1> QED BY <1>1, <1>2, <1>3, <1>4, <1>5 DEF CNext

\* One step of the invariant.
LEMMA ClusterStep == ClusterInv /\ [CNext]_cvars => ClusterInv'
<1> SUFFICES ASSUME ClusterInv, [CNext]_cvars PROVE ClusterInv'
  OBVIOUS
<1>1. [Next]_vars
  BY ClusterSteps
<1>2. TypeOK'
  BY <1>1, TypeStep DEF ClusterInv
<1>3. CInv(stages', cancelled', parts')
  BY <1>1, CInvStep DEF ClusterInv
<1>4. CInv(stages', cancelled', parts') => CInv(stages, cancelled, parts)'
  BY DEF CInv, Fence, Shape, Gate, Manifests, Matched, Attempts, Plain, DepsDone
<1>5. Slots(workers', parts')
  BY <1>1, SlotsStep DEF ClusterInv
<1>6. Slots(workers', parts') => Slots(workers, parts)'
  BY DEF Slots, LeasesOf, Leased
<1>7. ClusterType'
  BY WorkerTypes, ClientTypes
<1>8. KInv(workers, parts)'
  BY KInvStep, KInvPrimed
<1> QED BY <1>2, <1>3, <1>4, <1>5, <1>6, <1>7, <1>8 DEF ClusterInv

\* The invariant holds before anything happened.
LEMMA ClusterStart == CInit => ClusterInv
<1> SUFFICES ASSUME CInit PROVE ClusterInv
  OBVIOUS
<1>0. Init
  BY DEF CInit
<1>1. TypeOK /\ CInv(stages, cancelled, parts)
  BY <1>0, TypeInit, CInvInit
<1>2. \A k \in PartitionKey : parts[k].state = "absent"
  BY <1>0 DEF Init, Absent, Unleased
<1>3. \A w : LeasesOf(parts, w) = {}
  BY <1>2 DEF LeasesOf, Leased
<1>4. \A w \in WorkerId : /\ workers[w].available = 0 /\ workers[w].slots = 0
                          /\ workers[w].observed = 0 /\ workers[w].status = "unknown"
  BY <1>0 DEF Init
<1>5. Slots(workers, parts)
  BY <1>3, <1>4, FS_EmptySet DEF Slots
<1>6. ClusterType
  <2>1. << >> \in Seq(QueryId)
    BY EmptySeq
  <2> QED BY <2>1, ConfigAssumption DEF CInit, ClusterType, Phases, Time
<1>7. SeenOK(workers, clock)
  BY <1>4 DEF SeenOK, CInit
<1>8. LeasesOK(parts, clock) /\ HistoryOK(workers, parts, ranOn)
  BY <1>2 DEF LeasesOK, HistoryOK, Leased, CInit
<1>9. Everyone(workers, parts)
  <2> SUFFICES ASSUME NEW w \in WorkerId
               PROVE  /\ WorkerOK(w, workers[w], parts, phase[w], active[w], asking[w],
                                  starting[w], Owed(w), stored[w])
                      /\ ServedOK(w, parts, phase[w], stored[w], ranOn)
    BY DEF Everyone
  <2>1. /\ phase[w] = "down" /\ active[w] = {} /\ asking[w] = FALSE
        /\ starting[w] = {}
    BY DEF CInit
  <2>2. ~Up("down")
    BY DEF Up
  <2>3. /\ WorkerOK(w, workers[w], parts, "down", {}, FALSE, {}, Owed(w), stored[w])
        /\ ServedOK(w, parts, "down", stored[w], ranOn)
    BY <2>2, DownOK, FS_EmptySet
  <2> QED BY <2>1, <2>3
<1> QED BY <1>1, <1>5, <1>6, <1>7, <1>8, <1>9 DEF ClusterInv, KInv

-----------------------------------------------------------------------------
(* Theorems.                                                               *)

\* The inductive invariant, for every number of workers, queries, stages and
\* partitions, every configuration of the coordinator, every clock and every
\* number of restarts.
THEOREM ClusterInvariant == CSpec => []ClusterInv
<1>1. CInit => ClusterInv
  BY ClusterStart
<1>2. ClusterInv /\ [CNext]_cvars => ClusterInv'
  BY ClusterStep
<1> QED BY <1>1, <1>2, PTL DEF CSpec

\* No step refuses a worker that was not refused before.
LEMMA PhaseStep ==
  ASSUME ClusterInv, NoWorkerRefused, [CNext]_cvars
  PROVE  NoWorkerRefused'
<1>0. phase \in [WorkerId -> Phases] /\ \A v \in WorkerId : phase[v] # "refused"
  BY DEF ClusterInv, ClusterType, NoWorkerRefused
<1>1. ASSUME NEW w \in WorkerId, Worker(w) PROVE NoWorkerRefused'
  <2>1. CASE Heartbeat(w)
    <3>1. UNCHANGED phase
      BY <2>1, HeartbeatAccepted DEF Heartbeat
    <3> QED BY <1>0, <3>1 DEF NoWorkerRefused
  <2>2. CASE Start(w) \/ \E x \in active[w] : Join(w, x)
    <3>1. phase' = phase
      BY <2>2, StartStep, JoinStep
    <3> QED BY <1>0, <3>1 DEF NoWorkerRefused
  <2>3. CASE Register(w)
    <3>1. \E ph \in {"up", "turnedAway"} : phase' = [phase EXCEPT ![w] = ph]
      BY <2>3 DEF Register
    <3> QED BY <1>0, <3>1 DEF NoWorkerRefused
  <2>4. CASE Crash(w) \/ Restart(w) \/ Shutdown(w) \/ Leave(w)
             \/ \E x \in active[w] : JoinAnswerLost(w, x)
    <3>1. \E ph \in {"gone", "down", "stopping", "left"} :
            phase' = [phase EXCEPT ![w] = ph]
      BY <2>4 DEF Crash, Restart, Shutdown, Leave, JoinAnswerLost
    <3> QED BY <1>0, <3>1 DEF NoWorkerRefused
  <2>5. CASE PollCancellation(w) \/ PollFindsNoMessage(w) \/ PollAssignment(w)
             \/ \E x \in active[w], status \in Statuses \ {"running"} :
                  TaskEnds(w, x, status)
    <3>1. phase' = phase
      BY <2>5 DEF PollCancellation, PollFindsNoMessage, PollAssignment, TaskEnds
    <3> QED BY <1>0, <3>1 DEF NoWorkerRefused
  <2> QED BY <1>1, <2>1, <2>2, <2>3, <2>4, <2>5 DEF Worker
<1>2. CASE ~\E w \in WorkerId : Worker(w)
  <2>1. phase' = phase
    BY <1>2 DEF CNext, Submit, Cancel, Notify, Tick, cvars, workerVars
  <2> QED BY <1>0, <2>1 DEF NoWorkerRefused
<1> QED BY <1>1, <1>2

\* No worker ever gets an error it does not survive: every heartbeat is
\* accepted and every report accepted or recognised as superseded, because the
\* worker knows every lease it holds and the coordinator every attempt it runs.
THEOREM NobodyRefused == CSpec => []NoWorkerRefused
<1>1. CInit => NoWorkerRefused
  BY DEF CInit, NoWorkerRefused
<1>2. ClusterInv /\ NoWorkerRefused /\ [CNext]_cvars => NoWorkerRefused'
  BY PhaseStep
<1> QED BY <1>1, <1>2, ClusterInvariant, PTL DEF CSpec

\* A worker never has more tasks than slots, although the coordinator counts
\* expired tasks out of them while they still run.
THEOREM NeverOverbooked == CSpec => []NoOverbooking
<1>1. ASSUME ClusterInv PROVE NoOverbooking
  <2> SUFFICES ASSUME NEW w \in WorkerId, Live(w)
               PROVE  Cardinality(active[w]) + Cardinality(starting[w])
                        <= workers[w].slots
    BY DEF NoOverbooking
  <2>0. Up(phase[w])
    BY DEF Live, Up
  <2>1. /\ Cardinality(active[w]) + (IF asking[w] \/ starting[w] # {} THEN 1 ELSE 0)
             <= workers[w].slots
        /\ starting[w] # {} => \E lease \in starting[w] : starting[w] = {lease}
    BY <1>1, <2>0, Mine DEF WorkerOK, RoomOK, LoopOK
  <2>2. Cardinality(active[w]) \in Nat /\ workers[w].slots \in Nat
    BY <1>1, Mine
  <2>3. CASE starting[w] = {}
    <3>1. Cardinality(starting[w]) = 0
      BY <2>3, FS_EmptySet
    <3> QED BY <2>1, <2>2, <3>1
  <2>4. CASE starting[w] # {}
    <3>1. Cardinality(starting[w]) = 1
      BY <2>1, <2>4, FS_Singleton
    <3> QED BY <2>1, <2>2, <2>4, <3>1
  <2> QED BY <2>3, <2>4
<1> QED BY <1>1, ClusterInvariant, PTL

\* No cancellation is lost between the coordinator's table and the task.
THEOREM CancellationsReach == CSpec => []CancellationReaches
<1>1. ASSUME ClusterInv PROVE CancellationReaches
  <2> SUFFICES ASSUME NEW w \in WorkerId, Live(w),
                      NEW x \in active[w] \cup {NewTask(lease) : lease \in starting[w]},
                      MustStop(w, x), x.status = "running", ~x.token
               PROVE  \/ w \in notifying[QueryOf(x)]
                      \/ \E n \in DOMAIN inbox[w] : inbox[w][n] = QueryOf(x)
    BY DEF CancellationReaches
  <2>1. Up(phase[w]) /\ Stops(w, parts, x) /\ x \in All(active[w], starting[w])
    BY DEF Live, Up, MustStop, Stops, All
  <2>2. x.key[1] \in Owed(w)
    BY <1>1, <2>1, Mine DEF WorkerOK, ReachOK
  <2> QED BY <2>2 DEF Owed, QueryOf
<1> QED BY <1>1, ClusterInvariant, PTL

\* Committed output stays served while the worker that produced it lives.
THEOREM CommittedServed == CSpec => []CommittedBlocksServed
<1>1. ASSUME ClusterInv PROVE CommittedBlocksServed
  BY <1>1, Mine DEF CommittedBlocksServed, ServedOK, Live, Up
<1> QED BY <1>1, ClusterInvariant, PTL

\* What is proved of the coordinator under arbitrary messages holds in the
\* cluster: the workers and the service only make it take its own steps.
THEOREM ClusterRunsCoordinator == CSpec => Spec
<1>1. CInit => Init
  BY DEF CInit
<1>2. ClusterInv /\ [CNext]_cvars => [Next]_vars
  BY ClusterSteps
<1> QED BY <1>1, <1>2, ClusterInvariant, PTL DEF CSpec, Spec

\* So a cluster of any size keeps the promise to its drivers.
THEOREM ClusterKeepsPromise == CSpec => ImplementsOutputCommit
BY ClusterRunsCoordinator, CoordinatorImplementsOutputCommit, PTL
=============================================================================
