---------------------------- MODULE QueryRuntime ----------------------------
(***************************************************************************)
(* The two primitives every task of a query shares, at the grain of their  *)
(* atomic operations: the byte counter QueryMemory with its RAII           *)
(* reservations (src/src/runtime/memory.rs) and the CancellationToken      *)
(* (src/src/runtime/cancellation.rs).                                      *)
(*                                                                         *)
(* A task is an operator of runtime/execution.rs: it waits in a select for *)
(* its input or the cancellation, asks for memory for what it received,    *)
(* gives some back, and drops its reservation when it ends.                *)
(***************************************************************************)
EXTENDS Integers, FiniteSets, Sums

CONSTANTS
  Task,          \* the tasks of a query
  Canceller,     \* the threads that may call cancel
  LimitBytes,    \* QueryMemory's limit
  Amounts,       \* the sizes a task asks for
  MaxBytes       \* the largest value of the counters' type, u64 in the code

ASSUME BytesAssumption ==
  /\ MaxBytes \in Nat
  /\ LimitBytes \in 1 .. MaxBytes
  /\ Amounts \subseteq 0 .. MaxBytes

ASSUME TaskAssumption == IsFiniteSet(Task)

VARIABLES
  reservedBytes,  \* MemoryState.reserved_bytes
  peakBytes,      \* MemoryState.peak_bytes
  held,           \* task -> its MemoryReservation's bytes
  asked,          \* task -> the bytes of the reserve call it is in
  current,        \* task -> reserve's local `current`
  cancelled,      \* CancellationState.cancelled
  calls,          \* whether Notify's notify_waiters ran (it runs at most once)
  seen,           \* task -> `calls` when its Notified future was created
  at,             \* task -> where it is
  cancelling,     \* canceller -> where it is in cancel
  highest         \* history: the largest value reserved_bytes had

memoryVars == <<reservedBytes, peakBytes, held, asked, current, highest>>
tokenVars == <<cancelled, calls, seen, cancelling>>
vars == <<memoryVars, tokenVars, at>>

\* "enter" is the top of the select; "checked", "created" and "waiting" are the
\* lines of cancelled(), "reserving" and "reserved" those of reserve.
Places == {"enter", "checked", "created", "waiting", "working", "reserving",
           "reserved", "done"}

Goto(t, place) == at' = [at EXCEPT ![t] = place]

-----------------------------------------------------------------------------
(* reserve: a load, then rounds of check and compare_exchange_weak.        *)

\* Mutant: neither the overflow nor the limit is looked at.
FitsAlways(t) == TRUE

Fits(t) ==
  /\ current[t] + asked[t] <= MaxBytes
  /\ current[t] + asked[t] <= LimitBytes

\* release: fetch_sub on the unsigned counter.
Released(bytes) == (reservedBytes - bytes) % (MaxBytes + 1)

\* Mutant: the reservation outlives its task.
EndsHolding(t) ==
  /\ Goto(t, "done")
  /\ UNCHANGED <<memoryVars, tokenVars>>

\* The task ends and its reservation is dropped.
Ends(t) ==
  /\ reservedBytes' = Released(held[t])
  /\ held' = [held EXCEPT ![t] = 0]
  /\ Goto(t, "done")
  /\ UNCHANGED <<peakBytes, asked, current, highest, tokenVars>>

\* try_reserve of the first bytes, try_grow of more: the reservation's own size
\* is added up first, and an overflow there is an error.
BeginReserve(t, bytes) ==
  /\ at[t] = "working"
  /\ IF held[t] + bytes > MaxBytes THEN Ends(t)
     ELSE /\ asked' = [asked EXCEPT ![t] = bytes]
          /\ current' = [current EXCEPT ![t] = reservedBytes]
          /\ Goto(t, "reserving")
          /\ UNCHANGED <<reservedBytes, peakBytes, held, highest, tokenVars>>

\* Mutant: a plain store of the sum, whatever the counter is by now.
StoreReserved(t) ==
  /\ at[t] = "reserving"
  /\ Fits(t)
  /\ reservedBytes' = current[t] + asked[t]
  /\ highest' = IF reservedBytes' > highest THEN reservedBytes' ELSE highest
  /\ Goto(t, "reserved")
  /\ UNCHANGED <<peakBytes, held, asked, current, tokenVars>>

SwapReserved(t) ==
  /\ at[t] = "reserving"
  /\ Fits(t)
  /\ reservedBytes = current[t]
  /\ reservedBytes' = current[t] + asked[t]
  /\ highest' = IF reservedBytes' > highest THEN reservedBytes' ELSE highest
  /\ Goto(t, "reserved")
  /\ UNCHANGED <<peakBytes, held, asked, current, tokenVars>>

\* The exchange fails, as a weak one may although the values are equal.
SwapFails(t) ==
  /\ at[t] = "reserving"
  /\ Fits(t)
  /\ current' = [current EXCEPT ![t] = reservedBytes]
  /\ UNCHANGED <<reservedBytes, peakBytes, held, asked, highest, tokenVars, at>>

\* Mutant: the peak is stored, not compared.
StorePeak(t) ==
  /\ at[t] = "reserved"
  /\ peakBytes' = current[t] + asked[t]
  /\ held' = [held EXCEPT ![t] = @ + asked[t]]
  /\ Goto(t, "working")
  /\ UNCHANGED <<reservedBytes, asked, current, highest, tokenVars>>

\* fetch_max, then the bytes are the caller's.
RaisePeak(t) ==
  /\ at[t] = "reserved"
  /\ peakBytes' = IF current[t] + asked[t] > peakBytes
                  THEN current[t] + asked[t] ELSE peakBytes
  /\ held' = [held EXCEPT ![t] = @ + asked[t]]
  /\ Goto(t, "working")
  /\ UNCHANGED <<reservedBytes, asked, current, highest, tokenVars>>

\* The request overflows or exceeds the limit: ResourceExhausted, and the
\* operator returns the error.
Refused(t) ==
  /\ at[t] = "reserving"
  /\ ~Fits(t)
  /\ Ends(t)

\* Mutant: what is given back is not capped by what is held.
ShrinkUncapped(t, bytes) ==
  /\ at[t] = "working"
  /\ held' = [held EXCEPT ![t] = IF bytes > @ THEN 0 ELSE @ - bytes]
  /\ reservedBytes' = Released(bytes)
  /\ UNCHANGED <<peakBytes, asked, current, highest, tokenVars, at>>

Shrink(t, bytes) ==
  LET released == IF bytes > held[t] THEN held[t] ELSE bytes
  IN  /\ at[t] = "working"
      /\ held' = [held EXCEPT ![t] = @ - released]
      /\ reservedBytes' = Released(released)
      /\ UNCHANGED <<peakBytes, asked, current, highest, tokenVars, at>>

-----------------------------------------------------------------------------
(* cancel and cancelled.                                                   *)

\* The swap tells the first caller from the others.
Cancel(c) ==
  /\ cancelling[c] = "idle"
  /\ cancelled' = TRUE
  /\ cancelling' = [cancelling EXCEPT ![c] = IF cancelled THEN "done" ELSE "notify"]
  /\ UNCHANGED <<memoryVars, calls, seen, at>>

NotifyWaiters(c) ==
  /\ cancelling[c] = "notify"
  /\ calls' = TRUE
  /\ cancelling' = [cancelling EXCEPT ![c] = "done"]
  /\ UNCHANGED <<memoryVars, cancelled, seen, at>>

\* The select of a task polls cancelled(): the first check of the flag.
FirstCheck(t) ==
  /\ at[t] = "enter"
  /\ IF cancelled THEN Ends(t)
     ELSE Goto(t, "checked") /\ UNCHANGED <<memoryVars, tokenVars>>

\* notified(): the future hears every notify_waiters from here on.
CreateNotified(t) ==
  /\ at[t] = "checked"
  /\ seen' = [seen EXCEPT ![t] = calls]
  /\ Goto(t, "created")
  /\ UNCHANGED <<memoryVars, cancelled, calls, cancelling>>

\* Mutant: the flag is not looked at again.
SecondCheckSkipped(t) ==
  /\ at[t] = "created"
  /\ Goto(t, "waiting")
  /\ UNCHANGED <<memoryVars, tokenVars>>

SecondCheck(t) ==
  /\ at[t] = "created"
  /\ IF cancelled THEN Ends(t)
     ELSE Goto(t, "waiting") /\ UNCHANGED <<memoryVars, tokenVars>>

Woken(t) ==
  /\ at[t] = "waiting"
  /\ calls # seen[t]
  /\ Ends(t)

\* The other branch of the select: a batch, or the end of the input.
Input(t) ==
  /\ at[t] = "waiting"
  /\ Goto(t, "working")
  /\ UNCHANGED <<memoryVars, tokenVars>>

InputEnds(t) ==
  /\ at[t] = "waiting"
  /\ Ends(t)

\* The batch is done with.
Loop(t) ==
  /\ at[t] = "working"
  /\ Goto(t, "enter")
  /\ UNCHANGED <<memoryVars, tokenVars>>

-----------------------------------------------------------------------------
Init ==
  /\ reservedBytes = 0
  /\ peakBytes = 0
  /\ held = [t \in Task |-> 0]
  /\ asked = [t \in Task |-> 0]
  /\ current = [t \in Task |-> 0]
  /\ cancelled = FALSE
  /\ calls = FALSE
  /\ seen = [t \in Task |-> FALSE]
  /\ at = [t \in Task |-> "enter"]
  /\ cancelling = [c \in Canceller |-> "idle"]
  /\ highest = 0

TaskStep(t) ==
  \/ \E bytes \in Amounts : BeginReserve(t, bytes) \/ Shrink(t, bytes)
  \/ SwapReserved(t) \/ SwapFails(t) \/ RaisePeak(t) \/ Refused(t)
  \/ FirstCheck(t) \/ CreateNotified(t) \/ SecondCheck(t) \/ Woken(t)
  \/ Input(t) \/ InputEnds(t) \/ Loop(t)

Next ==
  \/ \E t \in Task : TaskStep(t)
  \/ \E c \in Canceller : Cancel(c) \/ NotifyWaiters(c)

Spec == Init /\ [][Next]_vars

\* A runnable task is polled, a call of cancel runs to its end.  Nothing makes
\* anybody call cancel or input arrive.  A task's work on a batch is finite, and a
\* weak exchange does not fail for ever.
Fairness ==
  /\ \A c \in Canceller : WF_vars(NotifyWaiters(c))
  /\ \A t \in Task :
       /\ WF_vars(FirstCheck(t) \/ CreateNotified(t) \/ SecondCheck(t))
       /\ WF_vars(Woken(t))
       /\ WF_vars(SwapReserved(t) \/ SwapFails(t) \/ RaisePeak(t) \/ Refused(t))
       /\ SF_vars(SwapReserved(t))
       /\ SF_vars(Loop(t))

FairSpec == Spec /\ Fairness

-----------------------------------------------------------------------------
(* Properties.                                                             *)

\* The bytes a task has taken from the counter.
Claim(t) == held[t] + IF at[t] = "reserved" THEN asked[t] ELSE 0

\* Types, for every interleaving.
TypeOK ==
  /\ reservedBytes \in 0 .. MaxBytes /\ peakBytes \in 0 .. MaxBytes
  /\ highest \in 0 .. MaxBytes
  /\ held \in [Task -> Nat] /\ asked \in [Task -> Amounts \cup {0}]
  /\ current \in [Task -> 0 .. MaxBytes]
  /\ cancelled \in BOOLEAN /\ calls \in BOOLEAN
  /\ seen \in [Task -> BOOLEAN]
  /\ at \in [Task -> Places]
  /\ cancelling \in [Canceller -> {"idle", "notify", "done"}]

\* The counter is exactly what the tasks hold and never exceeds the limit,
\* however loads, exchanges and releases of different tasks interleave (reserve,
\* release, shrink, Drop); in particular release never wraps below zero, which
\* its debug_assert states.
ReservedIsExact ==
  /\ reservedBytes = SumOf([t \in Task |-> Claim(t)], Task)
  /\ reservedBytes <= LimitBytes

\* The reported peak is the largest total the query ever had reserved, but for
\* reservations that are between their exchange and their fetch_max.
PeakIsExact ==
  /\ peakBytes <= highest
  /\ (\A t \in Task : at[t] # "reserved") => peakBytes = highest

\* No wake-up is lost: a task that waits on the token of a cancelled query has
\* been notified or is about to be (cancel's swap before notify_waiters,
\* cancelled's check after the future is created).
WakeUpPending ==
  cancelled =>
    \A t \in Task : at[t] = "waiting" =>
      calls # seen[t] \/ \E c \in Canceller : cancelling[c] = "notify"

\* A cancelled query comes to rest: every task ends and gives its memory back,
\* even if no input ever arrives again.
CancellationReleases ==
  cancelled ~> /\ \A t \in Task : at[t] = "done"
               /\ reservedBytes = 0
=============================================================================
