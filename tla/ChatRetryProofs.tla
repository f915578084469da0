--------------------------- MODULE ChatRetryProofs ---------------------------
(* The safety of ChatRetry for any number of loop tasks and any caps.      *)
EXTENDS ChatRetry, TLAPS

USE DEF Alive, Pending

\* Each property is inductive beside the types.
Inv == TypeOK /\ LoopRegistered /\ NetworkCapped
-----------------------------------------------------------------------------
(* What the operations do to the types.                                    *)

LEMMA Bounds ==
  /\ NetworkCap \in Nat /\ MaxFires \in Nat /\ MaxArms \in Nat /\ MaxTurns \in Nat
  BY RetryAssumption

LEMMA KindsApart == \A k \in AutoKinds : k # "none" /\ k # "network"
  BY RetryAssumption

LEMMA ClearedTypes ==
  ASSUME RetryTypes, NEW s \in {"none", "stopped"}, Cleared(s)
  PROVE  RetryTypes'
  BY DEF RetryTypes, Cleared

LEMMA CancelledTypes ==
  ASSUME LoopTypes, Cancelled
  PROVE  LoopTypes'
  BY DEF LoopTypes, Cancelled

LEMMA SetTypes ==
  ASSUME LoopTypes, Set
  PROVE  LoopTypes' /\ status' = "pending" /\ due' = FALSE
  BY DEF LoopTypes, Set, Rescheduled, Ensured

LEMMA StartsTypes ==
  ASSUME StreamTypes, NEW by \in Tasks \cup {NoTask},
         NEW what \in {"user", "run", "retry", "compact", "background"},
         Starts(what, by), UNCHANGED draining
  PROVE  StreamTypes'
  BY DEF StreamTypes, Starts

-----------------------------------------------------------------------------
(* What the operations on loops do to LoopRegistered.                      *)

\* A cancelled registry has no loop that is not doomed.
LEMMA CancelledRegistered ==
  ASSUME LoopTypes, LoopRegistered, Cancelled
  PROVE  LoopRegistered'
  BY RetryAssumption DEF LoopTypes, LoopRegistered, Cancelled

\* A new loop is made only when the registry names no live one.
LEMMA SetRegistered ==
  ASSUME LoopTypes, LoopRegistered, Set
  PROVE  LoopRegistered'
<1>1. status' = "pending" /\ doomed' = doomed
  BY DEF Set
<1>2. CASE reg # NoTask /\ Alive(reg)
  BY <1>1, <1>2 DEF Set, Ensured, LoopRegistered
<1>3. CASE ~(reg # NoTask /\ Alive(reg))
  <2>1. PICK t \in Tasks : ~Alive(t) /\ reg' = t /\ loop' = [loop EXCEPT ![t] = "top"]
    BY <1>3 DEF Set, Ensured
  <2>2. \A u \in Tasks : ~Alive(u) \/ u \in doomed
    BY <1>3, RetryAssumption DEF LoopRegistered
  <2> QED BY <1>1, <2>1, <2>2 DEF LoopRegistered, LoopTypes
<1> QED BY <1>2, <1>3

\* A loop that ends leaves the registry, unless another has taken its place.
LEMMA ExitRegistered ==
  ASSUME LoopTypes, LoopRegistered, NEW t \in Tasks, Exit(t),
         doomed' \in {doomed, doomed \ {t}}, status' = status
  PROVE  LoopRegistered'
  BY DEF LoopTypes, LoopRegistered, Exit

\* A loop that goes on stays the one it was.
LEMMA MoveRegistered ==
  ASSUME LoopTypes, LoopRegistered, UNCHANGED <<reg, doomed, status>>,
         \A t \in Tasks : loop[t] = "off" => loop'[t] = "off"
  PROVE  LoopRegistered'
  BY DEF LoopTypes, LoopRegistered

\* Counting an attempt keeps the cap, which was looked at first.
LEMMA FiredTypes ==
  ASSUME RetryTypes, NetworkCapped, ~Exhausted, attempts' = attempts + 1, due' = FALSE,
         UNCHANGED <<status, kind>>
  PROVE  RetryTypes' /\ NetworkCapped'
<1>1. attempts' \in Nat
  BY DEF RetryTypes
<1>2. due' \in BOOLEAN /\ ~due'
  OBVIOUS
<1>3. RetryTypes'
  BY <1>1, <1>2 DEF RetryTypes
<1>4. NetworkCapped'
  BY Bounds DEF RetryTypes, NetworkCapped, Exhausted
<1> QED BY <1>3, <1>4

\* A retry that is cleared and its loop cancelled.
LEMMA EndedRetry ==
  ASSUME RetryTypes, LoopTypes, LoopRegistered, NEW s \in {"none", "stopped"},
         Cleared(s), Cancelled
  PROVE  RetryTypes' /\ LoopTypes' /\ LoopRegistered' /\ NetworkCapped'
  BY ClearedTypes, CancelledTypes, CancelledRegistered DEF Cleared, NetworkCapped

LEMMA SameRetry ==
  ASSUME RetryTypes, LoopTypes, LoopRegistered, NetworkCapped,
         UNCHANGED <<retryVars, loopVars>>
  PROVE  RetryTypes' /\ LoopTypes' /\ LoopRegistered' /\ NetworkCapped'
  BY DEF retryVars, loopVars, RetryTypes, LoopTypes, LoopRegistered, NetworkCapped

-----------------------------------------------------------------------------
LEMMA InitInv == Init => Inv
<1> SUFFICES ASSUME Init PROVE Inv
  OBVIOUS
<1>0. OtherTypes
  BY Bounds DEF Init, OtherTypes
<1>1. RetryTypes
  BY Bounds DEF Init, RetryTypes
<1>2. LoopTypes /\ StreamTypes
  BY DEF Init, LoopTypes, StreamTypes
<1>3. LoopRegistered /\ NetworkCapped
  BY DEF Init, LoopRegistered, NetworkCapped
<1> QED BY <1>0, <1>1, <1>2, <1>3 DEF Inv, TypeOK

\* The loop task's own steps.
LEMMA LoopStepInv ==
  ASSUME Inv, NEW t \in Tasks, LoopStep(t)
  PROVE  Inv'
<1>0. TypeOK /\ RetryTypes /\ LoopTypes /\ StreamTypes /\ OtherTypes /\ LoopRegistered
      /\ NetworkCapped
  BY DEF Inv, TypeOK
<1>a. ASSUME Awake(t) PROVE t \notin doomed /\ loop[t] # "off"
  BY <1>a DEF Awake
<1>1. CASE LoopSleeps(t)
  <2>1. TypeOK'
    BY <1>0, <1>1
    DEF LoopSleeps, TypeOK, RetryTypes, LoopTypes, StreamTypes, OtherTypes, vars,
        retryVars, streamVars, counters
  <2>2. LoopRegistered'
    BY <1>0, <1>1, <1>a, MoveRegistered DEF LoopSleeps, retryVars, LoopTypes
  <2>3. NetworkCapped'
    BY <1>0, <1>1 DEF LoopSleeps, retryVars, NetworkCapped
  <2> QED BY <2>1, <2>2, <2>3 DEF Inv
<1>2. CASE LoopDefers(t)
  <2>1. TypeOK'
    BY <1>0, <1>2
    DEF LoopDefers, TypeOK, RetryTypes, LoopTypes, StreamTypes, OtherTypes,
        streamVars, counters
  <2>2. LoopRegistered'
    BY <1>0, <1>2, <1>a, MoveRegistered DEF LoopDefers, Acts, LoopTypes
  <2>3. NetworkCapped'
    BY <1>0, <1>2 DEF LoopDefers, NetworkCapped
  <2> QED BY <2>1, <2>2, <2>3 DEF Inv
<1>3. CASE LoopExhausts(t)
  <2>1. RetryTypes'
    BY <1>0, <1>3, ClearedTypes DEF LoopExhausts, Exhaust
  <2>2. LoopTypes' /\ StreamTypes' /\ OtherTypes'
    BY <1>0, <1>3
    DEF LoopExhausts, Exhaust, Settled, LoopTypes, StreamTypes, OtherTypes, streamVars
  <2>3. LoopRegistered'
    BY <1>0, <1>3, <1>a DEF LoopExhausts, Acts, LoopRegistered, LoopTypes
  <2>4. NetworkCapped'
    BY <1>3 DEF LoopExhausts, Exhaust, Cleared, NetworkCapped
  <2> QED BY <2>1, <2>2, <2>3, <2>4 DEF Inv, TypeOK
<1>4. CASE LoopFires(t)
  <2>0. /\ fires < MaxFires /\ fires' = fires + 1 /\ attempts' = attempts + 1
        /\ due' = FALSE /\ ~Exhausted
        /\ UNCHANGED <<status, kind, row, draining, arms, turns>>
    BY <1>4 DEF LoopFires, Fires, Rescheduled, Capped
  <2>1. RetryTypes' /\ NetworkCapped'
    BY <1>0, <2>0, FiredTypes
  <2>6. OtherTypes'
    BY <1>0, <2>0, Bounds DEF OtherTypes
  <2>2. LoopTypes'
    BY <1>0, <1>4 DEF LoopFires, Rescheduled, Exit, LoopTypes
  <2>3. StreamTypes'
    BY <1>0, <1>4, StartsTypes DEF LoopFires, Fires, StreamTypes, streamVars
  <2>4. LoopRegistered'
    BY <1>0, <1>4, <1>a, MoveRegistered, ExitRegistered
    DEF LoopFires, Fires, Acts, LoopTypes
  <2> QED BY <2>1, <2>2, <2>3, <2>4, <2>6 DEF Inv, TypeOK
<1>5. CASE LoopDies(t)
  <2>1. TypeOK'
    BY <1>0, <1>5
    DEF LoopDies, Exit, TypeOK, RetryTypes, LoopTypes, StreamTypes, OtherTypes,
        retryVars, streamVars, counters
  <2>2. LoopRegistered'
    BY <1>0, <1>5, ExitRegistered DEF LoopDies, retryVars
  <2>3. NetworkCapped'
    BY <1>0, <1>5 DEF LoopDies, retryVars, NetworkCapped
  <2> QED BY <2>1, <2>2, <2>3 DEF Inv
<1> QED BY <1>1, <1>2, <1>3, <1>4, <1>5 DEF LoopStep

\* What people, agents and the schedule dispatcher do.
LEMMA PeopleInv ==
  ASSUME Inv, People
  PROVE  Inv'
<1>0. TypeOK /\ RetryTypes /\ LoopTypes /\ StreamTypes /\ OtherTypes /\ LoopRegistered
      /\ NetworkCapped
  BY DEF Inv, TypeOK
<1>1. CASE TryNow
  <2>0. arms' \in 0..MaxArms /\ UNCHANGED <<draining, turns>>
    BY <1>0, <1>1, Bounds DEF TryNow, OtherTypes
  <2>1. CASE Capped /\ Exhaust /\ Cancelled
    <3>1. RetryTypes' /\ LoopTypes' /\ LoopRegistered' /\ NetworkCapped'
      BY <1>0, <2>1, EndedRetry DEF Exhaust
    <3>3. StreamTypes' /\ OtherTypes'
      BY <1>0, <2>0, <2>1 DEF Exhaust, Settled, StreamTypes, OtherTypes, streamVars
    <3> QED BY <3>1, <3>3 DEF Inv, TypeOK
  <2>2. CASE ~Capped /\ Fires(NoTask) /\ Rescheduled /\ UNCHANGED <<reg, loop, doomed>>
    <3>1. /\ fires < MaxFires /\ fires' = fires + 1 /\ attempts' = attempts + 1
          /\ due' = FALSE /\ ~Exhausted
          /\ UNCHANGED <<status, kind, row>>
      BY <2>2 DEF Fires, Rescheduled, Capped
    <3>2. RetryTypes' /\ NetworkCapped'
      BY <1>0, <3>1, FiredTypes
    <3>3. LoopTypes'
      BY <1>0, <2>2 DEF Rescheduled, LoopTypes
    <3>4. LoopRegistered'
      BY <1>0, <2>2, <3>1, MoveRegistered
    <3>5. StreamTypes'
      BY <1>0, <2>0, <2>2, StartsTypes DEF Fires, StreamTypes, streamVars
    <3>6. OtherTypes'
      BY <1>0, <2>0, <3>1, Bounds DEF OtherTypes
    <3> QED BY <3>2, <3>3, <3>4, <3>5, <3>6 DEF Inv, TypeOK
  <2> QED BY <1>1, <2>1, <2>2 DEF TryNow
<1>2. CASE SetByHand
  <2>1. LoopTypes' /\ status' = "pending" /\ due' = FALSE /\ LoopRegistered'
    BY <1>0, <1>2, SetTypes, SetRegistered DEF SetByHand
  <2>2. RetryTypes' /\ NetworkCapped'
    BY <1>0, <1>2, <2>1 DEF SetByHand, RetryTypes, NetworkCapped
  <2>3. StreamTypes'
    BY <1>0, <1>2 DEF SetByHand, StreamTypes, streamVars
  <2>4. OtherTypes'
    BY <1>0, <1>2, Bounds DEF SetByHand, OtherTypes
  <2> QED BY <2>1, <2>2, <2>3, <2>4 DEF Inv, TypeOK
<1>3. CASE ArmNetwork
  <2>0. arms' \in 0..MaxArms /\ UNCHANGED <<draining, turns>>
    BY <1>0, <1>3, Bounds DEF ArmNetwork, OtherTypes
  <2>1. CASE Exhausted
    <3>0. Exhaust /\ Cancelled
      BY <1>3, <2>1 DEF ArmNetwork
    <3>1. RetryTypes' /\ LoopTypes' /\ LoopRegistered' /\ NetworkCapped'
      BY <1>0, <3>0, EndedRetry DEF Exhaust
    <3>3. StreamTypes' /\ OtherTypes'
      BY <1>0, <2>0, <3>0 DEF Exhaust, Settled, StreamTypes, OtherTypes, streamVars
    <3> QED BY <3>1, <3>3 DEF Inv, TypeOK
  <2>2. CASE ~Exhausted
    <3>0. /\ kind' = "network" /\ attempts' = IF kind = "network" THEN attempts ELSE 0
          /\ Set /\ netArmed' = (stream # "none")
          /\ UNCHANGED <<stream, phase, firedBy, failed, good, stopAsked, netTurn, row,
                         fires>>
      BY <1>3, <2>2 DEF ArmNetwork
    <3>1. LoopTypes' /\ status' = "pending" /\ due' = FALSE /\ LoopRegistered'
      BY <1>0, <3>0, SetTypes, SetRegistered
    <3>2. RetryTypes'
      BY <1>0, <3>0, <3>1 DEF RetryTypes
    <3>3. NetworkCapped'
      BY <1>0, <2>2, <3>0, Bounds DEF NetworkCapped, Exhausted, RetryTypes
    <3>4. StreamTypes'
      BY <1>0, <2>0, <3>0 DEF StreamTypes
    <3>5. OtherTypes'
      BY <1>0, <2>0, <3>0 DEF OtherTypes
    <3> QED BY <3>1, <3>2, <3>3, <3>4, <3>5 DEF Inv, TypeOK
  <2> QED BY <2>1, <2>2
<1>4. CASE Stop
  <2>1. StreamTypes' /\ OtherTypes'
    BY <1>0, <1>4 DEF Stop, Settled, StreamTypes, OtherTypes, counters
  <2>2. RetryTypes' /\ LoopTypes' /\ LoopRegistered' /\ NetworkCapped'
    BY <1>0, <1>4, EndedRetry, SameRetry DEF Stop
  <2> QED BY <2>1, <2>2 DEF Inv, TypeOK
<1>5. CASE NewSession
  <2>1. StreamTypes' /\ OtherTypes'
    BY <1>0, <1>5 DEF NewSession, StreamTypes, OtherTypes, counters
  <2>2. RetryTypes' /\ LoopTypes' /\ LoopRegistered' /\ NetworkCapped'
    BY <1>0, <1>5, EndedRetry DEF NewSession
  <2> QED BY <2>1, <2>2 DEF Inv, TypeOK
<1>6. ASSUME NEW what \in {"user", "run"}, StartTurn(what) PROVE Inv'
  <2>1. StreamTypes'
    BY <1>0, <1>6, StartsTypes DEF StartTurn
  <2>2. OtherTypes'
    BY <1>0, <1>6, Bounds DEF StartTurn, OtherTypes
  <2>3. RetryTypes' /\ LoopTypes' /\ LoopRegistered' /\ NetworkCapped'
    BY <1>0, <1>6, EndedRetry, SameRetry DEF StartTurn
  <2> QED BY <2>1, <2>2, <2>3 DEF Inv, TypeOK
<1>7. ASSUME NEW what \in {"compact", "background"}, StartOther(what) PROVE Inv'
  <2>1. StreamTypes'
    BY <1>0, <1>7, StartsTypes DEF StartOther
  <2>2. OtherTypes'
    BY <1>0, <1>7, Bounds DEF StartOther, OtherTypes
  <2>3. RetryTypes' /\ LoopTypes' /\ LoopRegistered' /\ NetworkCapped'
    BY <1>0, <1>7, SameRetry DEF StartOther
  <2> QED BY <2>1, <2>2, <2>3 DEF Inv, TypeOK
<1> QED BY <1>1, <1>2, <1>3, <1>4, <1>5, <1>6, <1>7 DEF People

\* The turn, its end, and what happens around it.
LEMMA TurnInv ==
  ASSUME Inv,
         \/ \E k \in AutoKinds : TurnFails(k)
         \/ TurnFailsOtherwise \/ TurnStep \/ BackgroundEnds \/ Stamp
         \/ TimePasses \/ Drain \/ Restart
  PROVE  Inv'
<1>0. TypeOK /\ RetryTypes /\ LoopTypes /\ StreamTypes /\ OtherTypes /\ LoopRegistered
      /\ NetworkCapped
  BY DEF Inv, TypeOK
<1>1. ASSUME NEW k \in AutoKinds, TurnFails(k) PROVE Inv'
  <2>1. StreamTypes' /\ OtherTypes'
    BY <1>0, <1>1 DEF TurnFails, StreamTypes, OtherTypes, counters
  <2> DEFINE spent == IF kind = k THEN attempts ELSE 0
  <2>2. spent \in Nat /\ k # "network"
    BY <1>0, KindsApart DEF RetryTypes
  <2>3. CASE Cleared("stopped") /\ Cancelled
    BY <1>0, <2>1, <2>3, EndedRetry DEF Inv, TypeOK
  <2>4. CASE kind' = k /\ attempts' = spent /\ UNCHANGED <<status, due, loopVars>>
    <3>1. RetryTypes' /\ NetworkCapped'
      BY <1>0, <2>2, <2>4 DEF RetryTypes, NetworkCapped
    <3>2. LoopTypes' /\ LoopRegistered'
      BY <1>0, <2>4 DEF LoopTypes, LoopRegistered, loopVars
    <3> QED BY <2>1, <3>1, <3>2 DEF Inv, TypeOK
  <2>5. CASE kind' = k /\ attempts' = spent /\ Set
    <3>1. LoopTypes' /\ status' = "pending" /\ due' = FALSE /\ LoopRegistered'
      BY <1>0, <2>5, SetTypes, SetRegistered
    <3>2. RetryTypes' /\ NetworkCapped'
      BY <1>0, <2>2, <2>5, <3>1 DEF RetryTypes, NetworkCapped
    <3> QED BY <2>1, <3>1, <3>2 DEF Inv, TypeOK
  <2> HIDE DEF spent
  <2>6. ArmAuto(k)
    BY <1>1 DEF TurnFails
  <2> QED BY <2>3, <2>4, <2>5, <2>6 DEF ArmAuto, spent
<1>2. CASE TurnFailsOtherwise
  BY <1>0, <1>2, SameRetry
  DEF TurnFailsOtherwise, Inv, TypeOK, StreamTypes, OtherTypes, counters
<1>3. CASE Teardown
  <2>1. StreamTypes' /\ OtherTypes'
    BY <1>0, <1>3 DEF Teardown, Settled, StreamTypes, OtherTypes, counters
  <2>2. RetryTypes' /\ LoopTypes' /\ LoopRegistered' /\ NetworkCapped'
    BY <1>0, <1>3, EndedRetry, SameRetry DEF Teardown
  <2> QED BY <2>1, <2>2 DEF Inv, TypeOK
<1>4. ASSUME NEW answer \in BOOLEAN, TurnEnds(answer) PROVE Inv'
  BY <1>0, <1>4, SameRetry
  DEF TurnEnds, Inv, TypeOK, StreamTypes, OtherTypes, counters
<1>5. CASE BackgroundEnds
  BY <1>0, <1>5, SameRetry
  DEF BackgroundEnds, Inv, TypeOK, StreamTypes, OtherTypes, counters
<1>6. CASE Stamp
  BY <1>0, <1>6, SameRetry
  DEF Stamp, Inv, TypeOK, StreamTypes, OtherTypes, streamVars, counters
<1>7. CASE TimePasses
  <2>1. StreamTypes' /\ OtherTypes' /\ LoopTypes' /\ LoopRegistered'
    BY <1>0, <1>7
    DEF TimePasses, StreamTypes, OtherTypes, LoopTypes, LoopRegistered, streamVars,
        loopVars, counters
  <2>2. RetryTypes' /\ NetworkCapped'
    BY <1>0, <1>7 DEF TimePasses, RetryTypes, NetworkCapped
  <2> QED BY <2>1, <2>2 DEF Inv, TypeOK
<1>8. CASE Drain
  BY <1>0, <1>8, SameRetry
  DEF Drain, Inv, TypeOK, StreamTypes, OtherTypes, streamVars, counters
<1>9. CASE Restart
  <2>1. StreamTypes' /\ OtherTypes' /\ RetryTypes' /\ NetworkCapped'
    BY <1>0, <1>9
    DEF Restart, StreamTypes, OtherTypes, RetryTypes, NetworkCapped, retryVars, counters
  <2>2. LoopTypes' /\ LoopRegistered'
    BY <1>0, <1>9 DEF Restart, LoopTypes, LoopRegistered, retryVars
  <2> QED BY <2>1, <2>2 DEF Inv, TypeOK
<1> QED BY <1>1, <1>2, <1>3, <1>4, <1>5, <1>6, <1>7, <1>8, <1>9 DEF TurnStep
-----------------------------------------------------------------------------
\* The three properties together hold in every state.
THEOREM Invariant == Spec => []Inv
<1>1. Inv /\ [Next]_vars => Inv'
  <2> SUFFICES ASSUME Inv, [Next]_vars PROVE Inv'
    OBVIOUS
  <2>1. CASE Next
    BY <2>1, LoopStepInv, PeopleInv, TurnInv DEF Next
  <2>2. CASE UNCHANGED vars
    BY <2>2, SameRetry
    DEF vars, Inv, TypeOK, StreamTypes, OtherTypes, streamVars, counters
  <2> QED BY <2>1, <2>2
<1> QED BY InitInv, <1>1, PTL DEF Spec

\* Every variable keeps its type, and only a pending retry is due.
THEOREM TypeCorrect == Spec => []TypeOK
<1>1. Inv => TypeOK
  BY DEF Inv
<1> QED BY Invariant, <1>1, PTL

\* However cancelled loops, new loops, drains and restarts overlap, a loop that is
\* not on its way out is the registered one and has a pending retry.
THEOREM LoopAlwaysRegistered == Spec => []LoopRegistered
<1>1. Inv => LoopRegistered
  BY DEF Inv
<1> QED BY Invariant, <1>1, PTL

\* No chat attempts a network retry more often than its cap, for any cap.
THEOREM NetworkAlwaysCapped == Spec => []NetworkCapped
<1>1. Inv => NetworkCapped
  BY DEF Inv
<1> QED BY Invariant, <1>1, PTL
-----------------------------------------------------------------------------
(* Without a drain                                                         *)

\* The registered loop is alive and not cancelled, what is cancelled is still to
\* unwind, and a pending retry is registered.
Looped ==
  /\ reg # NoTask => Alive(reg) /\ reg \notin doomed
  /\ \A t \in doomed : Alive(t)
  /\ Pending => reg # NoTask

LEMMA ClearedLooped ==
  ASSUME LoopTypes, Looped, NEW s \in {"none", "stopped"}, Cleared(s), Cancelled
  PROVE  Looped'
  BY DEF LoopTypes, Looped, Cleared, Cancelled

LEMMA SetLooped ==
  ASSUME LoopTypes, Looped, Set
  PROVE  Looped'
<1>1. status' = "pending" /\ doomed' = doomed
  BY DEF Set
<1>2. CASE reg # NoTask
  <2>1. UNCHANGED <<reg, loop>>
    BY <1>2 DEF Looped, Set, Ensured
  <2> QED BY <1>1, <1>2, <2>1 DEF Looped
<1>3. CASE reg = NoTask
  <2>1. PICK t \in Tasks : ~Alive(t) /\ reg' = t /\ loop' = [loop EXCEPT ![t] = "top"]
    BY <1>3 DEF Set, Ensured
  <2>2. t # NoTask /\ t \notin doomed
    BY <2>1, RetryAssumption DEF Looped
  <2> QED BY <1>1, <2>1, <2>2 DEF LoopTypes, Looped
<1> QED BY <1>2, <1>3

\* A step that leaves the registry and the retry, or moves a loop that lives on.
LEMMA MoveLooped ==
  ASSUME LoopTypes, Looped, UNCHANGED <<reg, doomed, status>>,
         \A t \in Tasks : loop[t] # "off" => loop'[t] # "off"
  PROVE  Looped'
  BY DEF LoopTypes, Looped

LEMMA LoopStepLooped ==
  ASSUME Inv, Looped, ~draining, NEW t \in Tasks, LoopStep(t)
  PROVE  Looped'
<1>1. LoopTypes /\ LoopRegistered
  BY DEF Inv, TypeOK
<1>2. CASE LoopSleeps(t) \/ LoopDefers(t) \/ LoopFires(t)
  <2>1. UNCHANGED <<reg, doomed, status>>
    BY <1>2 DEF LoopSleeps, LoopDefers, LoopFires, Fires, retryVars
  <2>2. \A u \in Tasks : loop[u] # "off" => loop'[u] # "off"
    BY <1>1, <1>2 DEF LoopTypes, LoopSleeps, LoopDefers, LoopFires
  <2> QED BY <1>1, <2>1, <2>2, MoveLooped
<1>3. CASE LoopExhausts(t)
  <2>1. t \notin doomed /\ status' # "pending" /\ reg' = NoTask /\ doomed' = doomed
        /\ loop' = [loop EXCEPT ![t] = "off"]
    BY <1>3 DEF LoopExhausts, Acts, Awake, Exhaust, Cleared
  <2> QED BY <1>1, <2>1 DEF LoopTypes, Looped
<1>4. CASE LoopDies(t)
  <2>1. t \in doomed /\ doomed' = doomed \ {t} /\ loop' = [loop EXCEPT ![t] = "off"]
        /\ reg' = (IF reg = t THEN NoTask ELSE reg) /\ status' = status
    BY <1>4 DEF LoopDies, Exit, retryVars
  <2> QED BY <1>1, <2>1 DEF LoopTypes, Looped
<1> QED BY <1>2, <1>3, <1>4 DEF LoopStep

LEMMA PeopleLooped ==
  ASSUME Inv, Looped, People
  PROVE  Looped'
<1>1. LoopTypes
  BY DEF Inv, TypeOK
<1>2. ASSUME UNCHANGED <<retryVars, loopVars>> PROVE Looped'
  BY <1>2, <1>1, MoveLooped DEF retryVars, loopVars
<1>3. CASE TryNow
  <2>1. CASE Exhaust /\ Cancelled
    BY <1>1, <2>1, ClearedLooped DEF Exhaust
  <2>2. CASE Fires(NoTask) /\ UNCHANGED <<reg, loop, doomed>>
    BY <1>1, <2>2, MoveLooped DEF Fires
  <2> QED BY <1>3, <2>1, <2>2 DEF TryNow
<1>4. CASE SetByHand
  BY <1>1, <1>4, SetLooped DEF SetByHand
<1>5. CASE ArmNetwork
  <2>1. CASE Exhaust /\ Cancelled
    BY <1>1, <2>1, ClearedLooped DEF Exhaust
  <2>2. CASE Set
    BY <1>1, <2>2, SetLooped
  <2> QED BY <1>5, <2>1, <2>2 DEF ArmNetwork
<1>6. CASE Stop
  BY <1>1, <1>2, <1>6, ClearedLooped DEF Stop
<1>7. CASE NewSession
  BY <1>1, <1>7, ClearedLooped DEF NewSession
<1>8. ASSUME NEW what \in {"user", "run"}, StartTurn(what) PROVE Looped'
  BY <1>1, <1>2, <1>8, ClearedLooped DEF StartTurn
<1>9. ASSUME NEW what \in {"compact", "background"}, StartOther(what) PROVE Looped'
  BY <1>2, <1>9 DEF StartOther
<1> QED BY <1>3, <1>4, <1>5, <1>6, <1>7, <1>8, <1>9 DEF People

LEMMA TurnLooped ==
  ASSUME Inv, Looped,
         \/ \E k \in AutoKinds : TurnFails(k)
         \/ TurnFailsOtherwise \/ TurnStep \/ BackgroundEnds \/ Stamp
         \/ TimePasses \/ Drain \/ Restart
  PROVE  Looped'
<1>1. LoopTypes
  BY DEF Inv, TypeOK
<1>2. ASSUME UNCHANGED <<status, loopVars>> PROVE Looped'
  BY <1>2, <1>1, MoveLooped DEF loopVars
<1>3. ASSUME NEW k \in AutoKinds, TurnFails(k) PROVE Looped'
  <2>1. ArmAuto(k)
    BY <1>3 DEF TurnFails
  <2>2. \/ Cleared("stopped") /\ Cancelled
        \/ UNCHANGED <<status, loopVars>>
        \/ Set
    BY <2>1 DEF ArmAuto
  <2> QED BY <1>1, <1>2, <2>2, ClearedLooped, SetLooped
<1>4. CASE Teardown
  BY <1>1, <1>2, <1>4, ClearedLooped DEF Teardown, retryVars
<1>5. CASE Restart
  BY <1>5, RetryAssumption DEF Restart, Looped, retryVars
<1>6. CASE TurnFailsOtherwise \/ BackgroundEnds \/ Stamp \/ TimePasses \/ Drain
  BY <1>2, <1>6 DEF TurnFailsOtherwise, BackgroundEnds, Stamp, TimePasses, Drain, retryVars
<1>7. ASSUME NEW answer \in BOOLEAN, TurnEnds(answer) PROVE Looped'
  BY <1>2, <1>7 DEF TurnEnds, retryVars
<1> QED BY <1>3, <1>4, <1>5, <1>6, <1>7 DEF TurnStep

\* A pending retry has a loop that will fire it as long as the server does not
\* drain: nothing but a drain leaves one behind.
THEOREM UndrainedHasLoop == Spec => ([]~draining => []PendingHasLoop)
<1>1. Init => Looped
  BY DEF Init, Looped
<1>2. Inv /\ Looped /\ ~draining /\ [Next]_vars => Looped'
  <2> SUFFICES ASSUME Inv, Looped, ~draining, [Next]_vars PROVE Looped'
    OBVIOUS
  <2>1. CASE Next
    BY <2>1, LoopStepLooped, PeopleLooped, TurnLooped DEF Next
  <2>2. CASE UNCHANGED vars
    BY <2>2 DEF vars, retryVars, loopVars, Looped
  <2> QED BY <2>1, <2>2
<1>3. Looped => PendingHasLoop
  BY DEF Looped, PendingHasLoop
<1> QED BY <1>1, <1>2, <1>3, Invariant, PTL DEF Spec
=============================================================================
