------------------------- MODULE QueryRuntimeProofs -------------------------
(***************************************************************************)
(* For any number of tasks, cancelling threads and byte sizes: the types,  *)
(* no lost wake-up of the cancellation token, an exact counter and peak.   *)
(***************************************************************************)
EXTENDS QueryRuntime, SumProofs

\* The types, and that an exchange that succeeded stored a value of the type.
TypeInv ==
  /\ TypeOK
  /\ \A t \in Task : at[t] = "reserved" => current[t] + asked[t] \in 0 .. MaxBytes

\* The flag is set before the waiters are notified, nobody heard a notification
\* that was not sent, and whoever went to sleep saw the flag down.
TokenInv ==
  /\ ~cancelled => ~calls /\ \A c \in Canceller : cancelling[c] # "notify"
  /\ cancelled => calls \/ \E c \in Canceller : cancelling[c] = "notify"
  /\ \A t \in Task : seen[t] => calls
  /\ \A t \in Task : at[t] = "waiting" => ~seen[t]

\* Every total that was swapped in is below the highest, and the highest is the
\* peak unless the task that reached it is about to raise it.
PeakInv ==
  /\ peakBytes <= highest
  /\ \A t \in Task : at[t] = "reserved" => current[t] + asked[t] <= highest
  /\ \/ peakBytes = highest
     \/ \E t \in Task : at[t] = "reserved" /\ current[t] + asked[t] = highest


-----------------------------------------------------------------------------
(* Types.                                                                  *)

\* Releasing keeps the counter in its type, whatever is released.
LEMMA ReleasedType ==
  ASSUME NEW bytes \in Int, reservedBytes \in 0 .. MaxBytes
  PROVE  Released(bytes) \in 0 .. MaxBytes
BY BytesAssumption DEF Released

\* The operands of reserve's addition.
LEMMA OperandType ==
  ASSUME TypeInv, NEW t \in Task
  PROVE  asked[t] \in 0 .. MaxBytes /\ current[t] \in 0 .. MaxBytes /\ held[t] \in Nat
<1>1. asked[t] \in Amounts \cup {0}
  BY DEF TypeInv, TypeOK
<1>2. 0 \in 0 .. MaxBytes /\ Amounts \subseteq 0 .. MaxBytes
  BY BytesAssumption
<1>3. asked[t] \in 0 .. MaxBytes
  BY <1>1, <1>2, Zenon
<1> QED
  BY <1>3 DEF TypeInv, TypeOK

\* A task that ends keeps the types.
LEMMA EndsType ==
  ASSUME TypeInv, NEW t \in Task, Ends(t)
  PROVE  TypeInv'
<1>1. Released(held[t]) \in 0 .. MaxBytes
  BY ReleasedType, BytesAssumption DEF TypeInv, TypeOK
<1>2. TypeOK'
  BY <1>1 DEF TypeInv, TypeOK, Ends, Goto, Places, tokenVars
<1>3. \A u \in Task : at'[u] = "reserved" => at[u] = "reserved"
  BY DEF TypeInv, TypeOK, Ends, Goto
<1> QED
  BY <1>2, <1>3 DEF TypeInv, Ends

\* A step of a task keeps the types.
LEMMA TaskStepType ==
  ASSUME TypeInv, NEW t \in Task, TaskStep(t)
  PROVE  TypeInv'
<1>1. ASSUME NEW bytes \in Amounts, BeginReserve(t, bytes)
      PROVE  TypeInv'
  BY <1>1, EndsType DEF TypeInv, TypeOK, BeginReserve, Goto, Places, tokenVars
<1>2. ASSUME NEW bytes \in Amounts, Shrink(t, bytes)
      PROVE  TypeInv'
  <2> DEFINE released == IF bytes > held[t] THEN held[t] ELSE bytes
  <2>1. bytes \in Nat /\ held[t] \in Nat
    BY BytesAssumption DEF TypeInv, TypeOK
  <2>2. released \in Nat /\ held[t] - released \in Nat
    BY <2>1
  <2>3. Released(released) \in 0 .. MaxBytes
    BY <2>2, ReleasedType DEF TypeInv, TypeOK
  <2>4. /\ held' = [held EXCEPT ![t] = @ - released]
        /\ reservedBytes' = Released(released)
        /\ UNCHANGED <<peakBytes, asked, current, highest, tokenVars, at>>
    BY <1>2 DEF Shrink
  <2> HIDE DEF released
  <2> QED
    BY <2>2, <2>3, <2>4 DEF TypeInv, TypeOK, tokenVars
<1>3. CASE SwapReserved(t)
  <2>1. current[t] + asked[t] \in 0 .. MaxBytes
    BY <1>3, OperandType, BytesAssumption DEF SwapReserved, Fits
  <2> QED
    BY <1>3, <2>1 DEF TypeInv, TypeOK, SwapReserved, Goto, Places, tokenVars
<1>4. CASE SwapFails(t)
  BY <1>4 DEF TypeInv, TypeOK, SwapFails, tokenVars
<1>5. CASE RaisePeak(t)
  <2>1. asked[t] \in Nat
    BY OperandType, BytesAssumption
  <2>2. held' \in [Task -> Nat]
    BY <1>5, <2>1 DEF TypeInv, TypeOK, RaisePeak
  <2>3. peakBytes' \in 0 .. MaxBytes
    BY <1>5 DEF TypeInv, TypeOK, RaisePeak
  <2> QED
    BY <1>5, <2>2, <2>3 DEF TypeInv, TypeOK, RaisePeak, Goto, Places, tokenVars
<1>6. CASE Ends(t)
  BY <1>6, EndsType
<1>7. CASE /\ UNCHANGED memoryVars
           /\ \/ at[t] = "enter" /\ Goto(t, "checked") /\ UNCHANGED tokenVars
              \/ CreateNotified(t)
              \/ at[t] = "created" /\ Goto(t, "waiting") /\ UNCHANGED tokenVars
              \/ Input(t)
              \/ Loop(t)
  BY <1>7 DEF TypeInv, TypeOK, Goto, Places, tokenVars, memoryVars,
              CreateNotified, Input, Loop
<1> QED
  BY <1>1, <1>2, <1>3, <1>4, <1>5, <1>6, <1>7
     DEF TaskStep, Refused, FirstCheck, SecondCheck, Woken, InputEnds,
         CreateNotified, Input, Loop

\* Every step keeps the types.
LEMMA NextType == TypeInv /\ [Next]_vars => TypeInv'
<1> SUFFICES ASSUME TypeInv, [Next]_vars
             PROVE  TypeInv'
  OBVIOUS
<1>1. ASSUME NEW t \in Task, TaskStep(t)
      PROVE  TypeInv'
  BY <1>1, TaskStepType
<1>2. ASSUME NEW c \in Canceller, Cancel(c) \/ NotifyWaiters(c)
      PROVE  TypeInv'
  BY <1>2 DEF TypeInv, TypeOK, Cancel, NotifyWaiters, memoryVars
<1>3. CASE UNCHANGED vars
  BY <1>3 DEF TypeInv, TypeOK, vars, memoryVars, tokenVars
<1> QED
  BY <1>1, <1>2, <1>3 DEF Next

\* The initial state has its types.
LEMMA RuntimeInit == Init => TypeInv
<1> SUFFICES ASSUME Init PROVE TypeInv
  OBVIOUS
<1>1. 0 \in 0 .. MaxBytes
  BY BytesAssumption
<1>2. /\ asked \in [Task -> Amounts \cup {0}] /\ seen \in [Task -> BOOLEAN]
      /\ at \in [Task -> Places]
      /\ cancelling \in [Canceller -> {"idle", "notify", "done"}]
      /\ cancelled \in BOOLEAN /\ calls \in BOOLEAN
  BY Zenon DEF Init, Places
<1>3. held \in [Task -> Nat] /\ current \in [Task -> 0 .. MaxBytes]
  BY <1>1 DEF Init
<1>4. \A t \in Task : at[t] # "reserved"
  BY DEF Init
<1> QED
  BY <1>1, <1>2, <1>3, <1>4 DEF Init, TypeInv, TypeOK

\* The counters keep their type: reserve's checked addition, release's
\* subtraction and the atomics of the token, in every interleaving.
THEOREM RuntimeTypes == Spec => []TypeOK
<1>1. Init => TypeInv
  BY RuntimeInit
<1>2. TypeInv => TypeOK
  BY DEF TypeInv
<1> QED
  BY <1>1, <1>2, NextType, PTL DEF Spec
-----------------------------------------------------------------------------
(* The token.                                                              *)

\* Steps that leave the token alone and put no task to sleep.
LEMMA TokenUntouched ==
  ASSUME TypeInv, TokenInv, UNCHANGED tokenVars,
         \A t \in Task : at'[t] = "waiting" => at[t] = "waiting"
  PROVE  TokenInv'
BY DEF TokenInv, tokenVars

\* Every step keeps the token's invariant.
LEMMA NextToken == TypeInv /\ TokenInv /\ [Next]_vars => TokenInv'
<1> SUFFICES ASSUME TypeInv, TokenInv, [Next]_vars
             PROVE  TokenInv'
  OBVIOUS
<1>0. at \in [Task -> Places] /\ seen \in [Task -> BOOLEAN]
      /\ cancelling \in [Canceller -> {"idle", "notify", "done"}]
  BY DEF TypeInv, TypeOK
<1>1. ASSUME NEW t \in Task, TaskStep(t)
      PROVE  TokenInv'
  <2>1. CASE CreateNotified(t)
    BY <1>0, <2>1 DEF TokenInv, CreateNotified, Goto
  <2>2. CASE at[t] = "created" /\ ~cancelled /\ Goto(t, "waiting") /\ UNCHANGED tokenVars
    BY <1>0, <2>2 DEF TokenInv, Goto, tokenVars
  <2>3. CASE /\ UNCHANGED tokenVars
             /\ \/ UNCHANGED at
                \/ \E place \in Places \ {"waiting"} : Goto(t, place)
    <3>1. \A u \in Task : at'[u] = "waiting" => at[u] = "waiting"
      BY <1>0, <2>3 DEF Goto
    <3> QED
      BY <2>3, <3>1, TokenUntouched
  <2> QED
    BY <1>1, <2>1, <2>2, <2>3
       DEF TaskStep, BeginReserve, Shrink, SwapReserved, SwapFails, RaisePeak,
           Refused, Ends, FirstCheck, SecondCheck, Woken, Input, InputEnds, Loop,
           Places
<1>2. ASSUME NEW c \in Canceller, Cancel(c)
      PROVE  TokenInv'
  BY <1>0, <1>2 DEF TokenInv, Cancel, memoryVars
<1>3. ASSUME NEW c \in Canceller, NotifyWaiters(c)
      PROVE  TokenInv'
  BY <1>0, <1>3 DEF TokenInv, NotifyWaiters, memoryVars
<1>4. CASE UNCHANGED vars
  BY <1>4, TokenUntouched DEF vars
<1> QED
  BY <1>1, <1>2, <1>3, <1>4 DEF Next

\* No wake-up is lost, for any number of waiting tasks and cancelling threads:
\* cancelled() may only sleep if the notification is still to come or was heard.
THEOREM NoLostWakeUp == Spec => []WakeUpPending
<1>1. Init => TypeInv
  BY RuntimeInit
<1>2. Init => TokenInv
  BY DEF Init, TokenInv
<1>3. TypeInv /\ TokenInv => WakeUpPending
  <2> SUFFICES ASSUME TypeInv, TokenInv, cancelled, NEW t \in Task, at[t] = "waiting",
                      \A c \in Canceller : cancelling[c] # "notify"
               PROVE  calls # seen[t]
    BY DEF WakeUpPending
  <2>1. calls /\ ~seen[t]
    BY DEF TokenInv
  <2> QED
    BY <2>1
<1> QED
  BY <1>1, <1>2, <1>3, NextType, NextToken, PTL DEF Spec

-----------------------------------------------------------------------------
(* The peak.                                                               *)

\* Steps that leave the totals alone and are not between exchange and peak.
LEMMA PeakUntouched ==
  ASSUME TypeInv, PeakInv, UNCHANGED <<peakBytes, highest>>,
         \A t \in Task : at[t] = "reserved" <=> at'[t] = "reserved",
         \A t \in Task : at[t] = "reserved" =>
                           current'[t] = current[t] /\ asked'[t] = asked[t]
  PROVE  PeakInv'
BY DEF PeakInv

\* Every step keeps the peak's invariant.
LEMMA NextPeak == TypeInv /\ PeakInv /\ [Next]_vars => PeakInv'
<1> SUFFICES ASSUME TypeInv, PeakInv, [Next]_vars
             PROVE  PeakInv'
  OBVIOUS
<1>0. /\ at \in [Task -> Places] /\ DOMAIN current = Task /\ DOMAIN asked = Task
      /\ highest \in Nat /\ peakBytes \in Nat
      /\ \A u \in Task : current[u] \in Nat /\ asked[u] \in Nat
  <2>1. \A u \in Task : current[u] \in Nat /\ asked[u] \in Nat
    BY OperandType, BytesAssumption
  <2> QED
    BY <2>1, BytesAssumption DEF TypeInv, TypeOK
<1>1. ASSUME NEW t \in Task, TaskStep(t)
      PROVE  PeakInv'
  <2>1. CASE SwapReserved(t)
    <3>1. /\ at'[t] = "reserved" /\ current' = current /\ asked' = asked
          /\ peakBytes' = peakBytes
          /\ highest' = IF current[t] + asked[t] > highest
                        THEN current[t] + asked[t] ELSE highest
          /\ \A u \in Task : u # t => at'[u] = at[u]
          /\ at[t] # "reserved"
      BY <1>0, <2>1 DEF SwapReserved, Goto
    <3>2. CASE current[t] + asked[t] > highest
      BY <1>0, <3>1, <3>2 DEF PeakInv
    <3>3. CASE ~(current[t] + asked[t] > highest)
      BY <1>0, <3>1, <3>3 DEF PeakInv
    <3> QED
      BY <3>2, <3>3
  <2>2. CASE RaisePeak(t)
    <3>1. /\ at[t] = "reserved" /\ at'[t] # "reserved"
          /\ current' = current /\ asked' = asked /\ highest' = highest
          /\ peakBytes' = IF current[t] + asked[t] > peakBytes
                          THEN current[t] + asked[t] ELSE peakBytes
          /\ \A u \in Task : u # t => at'[u] = at[u]
      BY <1>0, <2>2 DEF RaisePeak, Goto
    <3>2. current[t] + asked[t] <= highest
      BY <3>1 DEF PeakInv
    <3>3. CASE current[t] + asked[t] > peakBytes
      BY <1>0, <3>1, <3>2, <3>3 DEF PeakInv
    <3>4. CASE ~(current[t] + asked[t] > peakBytes)
      BY <1>0, <3>1, <3>2, <3>4 DEF PeakInv
    <3> QED
      BY <3>3, <3>4
  <2>3. CASE /\ at[t] # "reserved" /\ UNCHANGED <<peakBytes, highest>>
             /\ \A u \in Task : u # t => current'[u] = current[u] /\ asked'[u] = asked[u]
             /\ \/ UNCHANGED at
                \/ \E place \in Places \ {"reserved"} : Goto(t, place)
    <3>1. \A u \in Task : at[u] = "reserved" <=> at'[u] = "reserved"
      BY <1>0, <2>3 DEF Goto
    <3>2. \A u \in Task : at[u] = "reserved" =>
                            current'[u] = current[u] /\ asked'[u] = asked[u]
      BY <2>3
    <3> QED
      BY <2>3, <3>1, <3>2, PeakUntouched
  <2> QED
    BY <1>0, <1>1, <2>1, <2>2, <2>3
       DEF TaskStep, BeginReserve, Shrink, SwapFails, Refused, Ends, FirstCheck,
           CreateNotified, SecondCheck, Woken, Input, InputEnds, Loop, Places,
           memoryVars
<1>2. ASSUME NEW c \in Canceller, Cancel(c) \/ NotifyWaiters(c)
      PROVE  PeakInv'
  BY <1>2, PeakUntouched DEF Cancel, NotifyWaiters, memoryVars
<1>3. CASE UNCHANGED vars
  BY <1>3, PeakUntouched DEF vars, memoryVars
<1> QED
  BY <1>1, <1>2, <1>3 DEF Next

\* The peak a query reports is the largest total it ever had reserved, up to
\* reservations that have not reached fetch_max yet.
THEOREM PeakExact == Spec => []PeakIsExact
<1>1. Init => PeakInv
  BY DEF Init, PeakInv
<1>2. PeakInv => PeakIsExact
  BY DEF PeakInv, PeakIsExact
<1> QED
  BY <1>1, <1>2, RuntimeInit, NextType, NextPeak, PTL DEF Spec

-----------------------------------------------------------------------------
(* The counter.                                                            *)

\* What every task has taken from the counter.
Claims == [t \in Task |-> Claim(t)]

\* A claim is a natural number: a reservation, and bytes exchanged and not yet added
\* to it.
LEMMA ClaimsType ==
  ASSUME TypeInv
  PROVE  Claims \in [Task -> Nat] /\ Claims \in [Task -> Int]
<1>1. \A t \in Task : held[t] \in Nat /\ asked[t] \in Nat
  BY OperandType, BytesAssumption
<1>2. \A t \in Task : Claim(t) \in Nat
  BY <1>1 DEF Claim
<1> QED
  BY <1>2 DEF Claims

\* A step of one task keeps the counter exact if it moves the counter by as much as
\* the task's claim and not above the limit.
LEMMA ClaimMoves ==
  ASSUME TypeInv, TypeInv', ReservedIsExact, NEW t \in Task,
         \A u \in Task \ {t} : held'[u] = held[u] /\ asked'[u] = asked[u] /\ at'[u] = at[u],
         reservedBytes' = reservedBytes - Claim(t) + Claim(t)',
         reservedBytes' <= LimitBytes
  PROVE  ReservedIsExact'
<1>1. Claims \in [Task -> Int] /\ Claims' \in [Task -> Int]
  <2>1. \A u \in Task : held'[u] \in Nat /\ asked'[u] \in Amounts \cup {0}
    BY DEF TypeInv, TypeOK
  <2>2. \A n \in Amounts \cup {0} : n \in Nat
    BY BytesAssumption
  <2>3. \A u \in Task : held'[u] \in Int /\ asked'[u] \in Int
    BY <2>1, <2>2
  <2>4. \A u \in Task : Claim(u)' \in Int
    BY <2>3 DEF Claim
  <2> QED
    BY <2>4, ClaimsType DEF Claims
<1>2. \A u \in Task \ {t} : Claims'[u] = Claims[u]
  BY DEF Claims, Claim
<1>3. SumOf(Claims', Task) = SumOf(Claims, Task) - Claims[t] + Claims'[t]
  BY <1>1, <1>2, TaskAssumption, SumOfUpdate
<1>4. Claims[t] = Claim(t) /\ Claims'[t] = Claim(t)'
  BY DEF Claims
<1>5. reservedBytes = SumOf(Claims, Task)
  BY DEF ReservedIsExact, Claims
<1> QED
  BY <1>3, <1>4, <1>5 DEF ReservedIsExact, Claims

\* A step that leaves counter, reservations and exchanges alone.
LEMMA ClaimsUntouched ==
  ASSUME TypeInv, ReservedIsExact, reservedBytes' = reservedBytes,
         \A t \in Task : Claim(t)' = Claim(t)
  PROVE  ReservedIsExact'
<1>1. Claims' = Claims
  BY DEF Claims
<1>2. reservedBytes = SumOf(Claims, Task)
  BY DEF ReservedIsExact, Claims
<1> QED
  BY <1>1, <1>2 DEF ReservedIsExact, Claims

\* release subtracts what is there: fetch_sub does not wrap.
LEMMA ReleaseIsExact ==
  ASSUME TypeInv, ReservedIsExact, NEW t \in Task, NEW bytes \in Nat, bytes <= Claim(t)
  PROVE  Released(bytes) = reservedBytes - bytes /\ reservedBytes - bytes \in Nat
<1>1. SumOf(Claims, Task) - Claims[t] \in Nat
  BY ClaimsType, TaskAssumption, SumOfAtLeast
<1>2. reservedBytes = SumOf(Claims, Task) /\ Claims[t] = Claim(t) /\ Claims[t] \in Nat
  BY ClaimsType DEF ReservedIsExact, Claims
<1>3. reservedBytes \in 0 .. MaxBytes /\ MaxBytes \in Nat
  BY BytesAssumption DEF TypeInv, TypeOK
<1>4. reservedBytes - bytes \in 0 .. MaxBytes
  BY <1>1, <1>2, <1>3
<1>5. (reservedBytes - bytes) % (MaxBytes + 1) = reservedBytes - bytes
  BY <1>3, <1>4
<1> QED
  BY <1>4, <1>5 DEF Released

\* A task that ends, between two exchanges, returns exactly its reservation (Drop).
LEMMA EndsReturns ==
  ASSUME TypeInv, TypeInv', ReservedIsExact, NEW t \in Task, Ends(t), at[t] # "reserved"
  PROVE  ReservedIsExact'
<1>1. held[t] \in Nat /\ Claim(t) = held[t]
  BY OperandType DEF Claim
<1>2. Released(held[t]) = reservedBytes - held[t] /\ reservedBytes - held[t] \in Nat
  BY <1>1, ReleaseIsExact
<1>3. Claim(t)' = 0
  BY DEF Ends, Goto, Claim, TypeInv, TypeOK
<1>4. reservedBytes' = reservedBytes - Claim(t) + Claim(t)'
  BY <1>1, <1>2, <1>3 DEF Ends
<1>5. reservedBytes' <= LimitBytes
  BY <1>1, <1>2, BytesAssumption DEF Ends, ReservedIsExact, TypeInv, TypeOK
<1>6. \A u \in Task \ {t} : held'[u] = held[u] /\ asked'[u] = asked[u] /\ at'[u] = at[u]
  BY DEF Ends, Goto, TypeInv, TypeOK
<1> QED
  BY <1>4, <1>5, <1>6, ClaimMoves

\* Every step keeps the counter exact.
LEMMA NextReserved == TypeInv /\ ReservedIsExact /\ [Next]_vars => ReservedIsExact'
<1> SUFFICES ASSUME TypeInv, ReservedIsExact, [Next]_vars
             PROVE  ReservedIsExact'
  OBVIOUS
<1>0. TypeInv'
  BY NextType
<1>1. /\ at \in [Task -> Places] /\ held \in [Task -> Nat] /\ DOMAIN asked = Task
      /\ reservedBytes \in Nat /\ reservedBytes <= LimitBytes /\ LimitBytes \in Nat
  BY BytesAssumption DEF TypeInv, TypeOK, ReservedIsExact
<1>2. ASSUME NEW t \in Task, TaskStep(t)
      PROVE  ReservedIsExact'
  <2>0. held[t] \in Nat /\ asked[t] \in Nat /\ current[t] \in Nat
    BY OperandType, BytesAssumption
  <2>1. CASE SwapReserved(t)
    <3>1. /\ reservedBytes' = reservedBytes + asked[t] /\ reservedBytes' <= LimitBytes
          /\ held' = held /\ asked' = asked /\ at[t] = "reserving"
          /\ at' = [at EXCEPT ![t] = "reserved"]
      BY <2>1 DEF SwapReserved, Fits, Goto
    <3>2. Claim(t) = held[t] /\ Claim(t)' = held[t] + asked[t]
      BY <1>1, <2>0, <3>1 DEF Claim
    <3>3. reservedBytes' = reservedBytes - Claim(t) + Claim(t)'
      BY <1>1, <2>0, <3>1, <3>2
    <3>4. \A u \in Task \ {t} : at'[u] = at[u]
      BY <1>1, <3>1
    <3> QED
      BY <1>0, <3>1, <3>3, <3>4, ClaimMoves
  <2>2. CASE RaisePeak(t)
    <3>1. /\ reservedBytes' = reservedBytes /\ asked' = asked /\ at[t] = "reserved"
          /\ held' = [held EXCEPT ![t] = @ + asked[t]]
          /\ at' = [at EXCEPT ![t] = "working"]
      BY <2>2 DEF RaisePeak, Goto
    <3>2. \A u \in Task : Claim(u)' = Claim(u)
      BY <1>1, <2>0, <3>1 DEF Claim
    <3> QED
      BY <3>1, <3>2, ClaimsUntouched
  <2>3. ASSUME NEW bytes \in Amounts, Shrink(t, bytes)
        PROVE  ReservedIsExact'
    <3> DEFINE released == IF bytes > held[t] THEN held[t] ELSE bytes
    <3>1. bytes \in Nat /\ released \in Nat /\ released <= held[t]
      BY <2>0, BytesAssumption
    <3>2. /\ held' = [held EXCEPT ![t] = @ - released] /\ at[t] = "working"
          /\ reservedBytes' = Released(released) /\ asked' = asked /\ at' = at
      BY <2>3 DEF Shrink
    <3> HIDE DEF released
    <3>3. Claim(t) = held[t] /\ Claim(t)' = held[t] - released
      <4>1. held'[t] = held[t] - released /\ held[t] - released \in Int
        BY <1>1, <2>0, <3>1, <3>2
      <4> QED
        BY <2>0, <3>2, <4>1 DEF Claim
    <3>4. reservedBytes' = reservedBytes - released /\ reservedBytes' \in Nat
      BY <3>1, <3>2, <3>3, ReleaseIsExact
    <3>5. /\ reservedBytes' = reservedBytes - Claim(t) + Claim(t)'
          /\ reservedBytes' <= LimitBytes
      BY <1>1, <2>0, <3>1, <3>3, <3>4
    <3>6. \A u \in Task \ {t} : held'[u] = held[u]
      BY <1>1, <3>2
    <3> QED
      BY <1>0, <3>2, <3>5, <3>6, ClaimMoves
  <2>4. CASE Ends(t) /\ at[t] # "reserved"
    BY <1>0, <2>4, EndsReturns
  <2>5. CASE /\ at[t] # "reserved" /\ UNCHANGED <<reservedBytes, held>>
             /\ \A u \in Task : u # t => asked'[u] = asked[u]
             /\ \/ UNCHANGED at
                \/ \E place \in Places \ {"reserved"} : Goto(t, place)
    <3>1. \A u \in Task : Claim(u)' = Claim(u)
      BY <1>1, <2>5 DEF Claim, Goto
    <3> QED
      BY <2>5, <3>1, ClaimsUntouched
  <2> QED
    BY <1>1, <1>2, <2>1, <2>2, <2>3, <2>4, <2>5
       DEF TaskStep, BeginReserve, SwapFails, Refused, FirstCheck,
           CreateNotified, SecondCheck, Woken, Input, InputEnds, Loop, Places,
           memoryVars
<1>3. ASSUME NEW c \in Canceller, Cancel(c) \/ NotifyWaiters(c)
      PROVE  ReservedIsExact'
  BY <1>3, ClaimsUntouched DEF Cancel, NotifyWaiters, memoryVars, Claim
<1>4. CASE UNCHANGED vars
  BY <1>4, ClaimsUntouched DEF vars, memoryVars, Claim
<1> QED
  BY <1>2, <1>3, <1>4 DEF Next

\* The counter a query's tasks share is exactly what they hold, never above the
\* limit, and release never wraps below zero, for any number of tasks and sizes and
\* every interleaving of loads, exchanges and releases.
THEOREM ReservedExact == Spec => []ReservedIsExact
<1>1. Init => ReservedIsExact
  <2> SUFFICES ASSUME Init PROVE ReservedIsExact
    OBVIOUS
  <2>1. Claims = [t \in Task |-> 0] /\ reservedBytes = 0
    BY DEF Init, Claims, Claim
  <2>2. SumOf(Claims, Task) = 0
    BY <2>1, TaskAssumption, SumOfZero
  <2> QED
    BY <2>1, <2>2, BytesAssumption DEF ReservedIsExact, Claims
<1> QED
  BY <1>1, RuntimeInit, NextType, NextReserved, PTL DEF Spec
=============================================================================
