------------------------ MODULE WebhookDispatchProofs ------------------------
(* The safety of WebhookDispatch for any receipts, tasks and bounds.       *)
EXTENDS WebhookDispatch, FiniteSetTheorems, TLAPS

Holds(t) == at[t] \notin {"idle", "claim"}

\* A task past its claim has its receipt for itself.
Alone == \A t, u \in Tasks : t # u /\ Holds(t) /\ Holds(u) => job[t] # job[u]

\* What a task at a step knows of its receipt, whatever the sweep and the other
\* tasks have done since: the receipt's state and the turns it had.
Fits(step, s, n) ==
  /\ step \in {"check", "launch"} => s = "accepted"
  /\ step = "start" => s \in {"launching", "interrupted"} /\ n = 0
  /\ step = "settle" => s \in {"launching", "interrupted"} /\ n = 1
  /\ step = "fail" => s \in {"accepted", "launching", "interrupted"} /\ n = 0

Knows(t) == Fits(at[t], status[job[t]], turns[job[t]])

\* AtMostOneTurn and OutcomeMatchesTurn of one receipt.
Honest(s, n) ==
  /\ n \in Nat /\ n <= 1
  /\ s = "launched" => n = 1
  /\ s \in {"none", "accepted", "failed"} => n = 0

\* A dead receipt has no task that could still start its turn.
Buried ==
  /\ trigger # "gone" => dead = {}
  /\ \A t \in Tasks : at[t] \in {"launch", "start"} => job[t] \notin dead

Bounded == IsFiniteSet(OpenReceipts) /\ PendingBounded

Truth ==
  /\ Alone
  /\ \A t \in Tasks : Knows(t)
  /\ AtMostOneTurn
  /\ OutcomeMatchesTurn
  /\ Buried
  /\ DeletedStaysDead

Inv == TypeOK /\ Truth /\ Bounded
-----------------------------------------------------------------------------
(* The claims.                                                             *)

Claims(a, j) == {j[t] : t \in {u \in Tasks : a[u] \notin {"idle", "claim"}}}

\* A step between two steps of the same side of the claim.
LEMMA GoClaims ==
  ASSUME TypeOK, NEW t \in Tasks, NEW step, Go(t, step),
         Holds(t) <=> step \notin {"idle", "claim"}
  PROVE  Claims(at', job') = claimed
  BY DEF TypeOK, Go, Claims, Holds

LEMMA BeginClaims ==
  ASSUME TypeOK, NEW t \in Tasks, NEW r \in Receipts, Begin(t, r)
  PROVE  Claims(at', job') = claimed
  BY DEF TypeOK, Begin, Claims

LEMMA IdleClaims ==
  ASSUME TypeOK, NEW t \in Tasks, at[t] = "claim", Idle(t)
  PROVE  Claims(at', job') = claimed
  BY DEF TypeOK, Idle, Claims

\* A task that finishes gives up its own claim and no other.
LEMMA FinishClaims ==
  ASSUME TypeOK, Alone, NEW t \in Tasks, Holds(t), Finish(t)
  PROVE  Claims(at', job') = claimed'
<1>1. /\ at' = [at EXCEPT ![t] = "idle"] /\ job' = [job EXCEPT ![t] = NoReceipt]
      /\ claimed' = claimed \ {job[t]}
      /\ claimed = {job[u] : u \in {v \in Tasks : Holds(v)}}
      /\ at \in [Tasks -> Steps] /\ job \in [Tasks -> Receipts \cup {NoReceipt}]
  BY DEF Finish, Idle, TypeOK, Holds
<1>2. \A u \in Tasks : Holds(u)' => u # t /\ Holds(u) /\ job'[u] = job[u]
  BY <1>1 DEF Holds, Steps
<1>3. \A u \in Tasks : u # t /\ Holds(u) => Holds(u)' /\ job'[u] = job[u] /\ job[u] # job[t]
  BY <1>1 DEF Holds, Alone, Steps
<1>4. Claims(at', job') = {job'[u] : u \in {v \in Tasks : Holds(v)'}}
  BY DEF Claims, Holds
<1>5. \A c : c \in Claims(at', job') <=> c \in claimed'
  BY <1>1, <1>2, <1>3, <1>4
<1> QED BY <1>5

-----------------------------------------------------------------------------
(* Type correctness; Alone is what makes the claims exact.                 *)

\* The part of TypeOK that does not speak of the claims.
Types ==
  /\ trigger \in {"on", "off", "gone"}
  /\ status \in [Receipts -> {"none"} \cup Opened \cup Terminal]
  /\ asked \subseteq Receipts /\ due \subseteq Receipts
  /\ at \in [Tasks -> Steps]
  /\ job \in [Tasks -> Receipts \cup {NoReceipt}]
  /\ \A t \in Tasks : at[t] = "idle" <=> job[t] = NoReceipt
  /\ sweep \in {"down", "recover", "list", "each", "done"}
  /\ left \subseteq Receipts
  /\ failures \in 0..MaxFailures /\ crashes \in 0..MaxCrashes
  /\ turns \in [Receipts -> Nat]
  /\ dead \subseteq Receipts /\ hurt \subseteq Receipts

LEMMA TypeParts == TypeOK <=> Types /\ claimed = Claims(at, job)
  BY DEF TypeOK, Types, Claims

LEMMA TypePartsNext == TypeOK' <=> Types' /\ claimed' = Claims(at', job')
  BY DEF TypeOK, Types, Claims

LEMMA InitType == Init => TypeOK
  BY DispatchAssumption DEF Init, TypeOK, Opened, Terminal, Steps

LEMMA RequestType ==
  ASSUME TypeOK, Request
  PROVE  Types'
<1>1. ASSUME NEW s \in {"on", "off", "gone"}, SetTrigger(s) PROVE Types'
  BY <1>1 DEF SetTrigger, TypeOK, Types
<1>2. ASSUME NEW r \in Receipts, Authenticate(r) PROVE Types'
  BY <1>2 DEF Authenticate, TypeOK, Types
<1>3. ASSUME NEW r \in Receipts, Receive(r) PROVE Types'
  BY <1>3 DEF Receive, Write, TypeOK, Types, Opened
<1>4. ASSUME NEW r \in Receipts, ReceiveFails(r) PROVE Types'
  BY <1>4, DispatchAssumption DEF ReceiveFails, Fail, Write, TypeOK, Types, Opened
<1>5. ASSUME NEW r \in Receipts, Schedule(r) PROVE Types'
  BY <1>5, DispatchAssumption DEF Schedule, Begin, TypeOK, Types, Steps
<1> QED BY <1>1, <1>2, <1>3, <1>4, <1>5 DEF Request

LEMMA TaskType ==
  ASSUME TypeOK, NEW t \in Tasks, TaskStep(t) \/ TaskFails(t)
  PROVE  Types'
<1>1. CASE ClaimStep(t)
  BY <1>1, DispatchAssumption DEF ClaimStep, Claim, Idle, Go, TypeOK, Types, Steps
<1>2. CASE ReadReceipt(t)
  BY <1>2, DispatchAssumption DEF ReadReceipt, Finish, Idle, Go, TypeOK, Types, Steps
<1>3. ASSUME NEW refused \in BOOLEAN, CheckTarget(t, refused) PROVE Types'
  BY <1>3, DispatchAssumption DEF CheckTarget, Go, TypeOK, Types, Steps
<1>4. CASE BeginLaunch(t)
  BY <1>4 DEF BeginLaunch, Write, Go, TypeOK, Types, Steps, Opened
<1>5. CASE StartTurn(t)
  BY <1>5 DEF StartTurn, Go, TypeOK, Types, Steps
<1>6. CASE StartRefused(t)
  BY <1>6 DEF StartRefused, Go, TypeOK, Types, Steps
<1>7. CASE SettleLaunched(t)
  BY <1>7, DispatchAssumption
     DEF SettleLaunched, Write, Finish, Idle, TypeOK, Types, Steps, Terminal
<1>8. CASE SettleFailed(t)
  BY <1>8, DispatchAssumption
     DEF SettleFailed, Write, Finish, Idle, TypeOK, Types, Steps, Terminal
<1>9. CASE ReadFails(t)
  BY <1>9, DispatchAssumption DEF ReadFails, Fail, Finish, Idle, TypeOK, Types, Steps
<1>10. ASSUME NEW onDisk \in BOOLEAN, BeginLaunchFails(t, onDisk) PROVE Types'
  BY <1>10, DispatchAssumption
     DEF BeginLaunchFails, Fail, Write, Go, TypeOK, Types, Steps, Opened
<1>11. ASSUME NEW onDisk \in BOOLEAN, SettleFails(t, onDisk) PROVE Types'
  BY <1>11, DispatchAssumption
     DEF SettleFails, Fail, Write, Finish, Idle, TypeOK, Types, Steps, Terminal
<1> QED
  BY <1>1, <1>2, <1>3, <1>4, <1>5, <1>6, <1>7, <1>8, <1>9, <1>10, <1>11
     DEF TaskStep, TaskFails

LEMMA ProcessType ==
  ASSUME TypeOK, Sweep \/ Boot \/ Crash \/ \E S \in SUBSET Receipts : RecoverFails(S)
  PROVE  Types'
<1>1. CASE Recover
  BY <1>1 DEF Recover, Recovered, TypeOK, Types, Terminal
<1>2. ASSUME NEW S \in SUBSET Receipts, ListAccepted(S) PROVE Types'
  BY <1>2 DEF ListAccepted, With, TypeOK, Types
<1>3. ASSUME NEW r \in Receipts, SweepNext(r) PROVE Types'
  BY <1>3, DispatchAssumption DEF SweepNext, Begin, TypeOK, Types, Steps
<1>4. CASE SweepEnds
  BY <1>4 DEF SweepEnds, TypeOK, Types
<1>5. CASE Boot
  BY <1>5 DEF Boot, TypeOK, Types
<1>6. CASE Crash
  BY <1>6, DispatchAssumption DEF Crash, TypeOK, Types, Steps
<1>7. ASSUME NEW S \in SUBSET Receipts, RecoverFails(S) PROVE Types'
  BY <1>7, DispatchAssumption
     DEF RecoverFails, Fail, Recovered, OpenReceipts, TypeOK, Types, Terminal
<1> QED BY <1>1, <1>2, <1>3, <1>4, <1>5, <1>6, <1>7 DEF Sweep

LEMMA TaskClaims ==
  ASSUME TypeOK, Alone, NEW t \in Tasks, TaskStep(t) \/ TaskFails(t)
  PROVE  claimed' = Claims(at', job')
<1>1. CASE ClaimStep(t)
  <2>1. CASE Idle(t) /\ UNCHANGED claimed
    BY <1>1, <2>1, IdleClaims DEF ClaimStep, Claim
  <2>2. CASE claimed' = claimed \cup {job[t]} /\ Go(t, "read")
    <3>1. /\ at' = [at EXCEPT ![t] = "read"] /\ job' = job
          /\ claimed' = claimed \cup {job[t]} /\ at[t] = "claim"
          /\ claimed = Claims(at, job) /\ at \in [Tasks -> Steps]
      BY <1>1, <2>2, TypeParts DEF ClaimStep, Claim, Go, TypeOK
    <3> QED BY <3>1 DEF Claims, Steps
  <2> QED BY <1>1, <2>1, <2>2 DEF ClaimStep, Claim
<1>2. ASSUME Finish(t), Holds(t) PROVE claimed' = Claims(at', job')
  BY <1>2, FinishClaims
<1>3. ASSUME NEW step \in Steps \ {"idle", "claim"}, Go(t, step), Holds(t),
             UNCHANGED claimed
      PROVE  claimed' = Claims(at', job')
  BY <1>3, GoClaims
<1>4. CASE ReadReceipt(t)
  BY <1>2, <1>3, <1>4 DEF ReadReceipt, Holds, Steps
<1>5. ASSUME NEW refused \in BOOLEAN, CheckTarget(t, refused)
      PROVE  claimed' = Claims(at', job')
  BY <1>3, <1>5 DEF CheckTarget, Holds, Steps
<1>6. CASE BeginLaunch(t)
  BY <1>3, <1>6 DEF BeginLaunch, Holds, Steps
<1>7. CASE StartTurn(t) \/ StartRefused(t)
  BY <1>3, <1>7 DEF StartTurn, StartRefused, Holds, Steps
<1>8. CASE SettleLaunched(t) \/ SettleFailed(t) \/ ReadFails(t)
  BY <1>2, <1>8 DEF SettleLaunched, SettleFailed, ReadFails, Holds
<1>9. ASSUME NEW onDisk \in BOOLEAN, BeginLaunchFails(t, onDisk)
      PROVE  claimed' = Claims(at', job')
  BY <1>3, <1>9 DEF BeginLaunchFails, Holds, Steps
<1>10. ASSUME NEW onDisk \in BOOLEAN, SettleFails(t, onDisk)
       PROVE  claimed' = Claims(at', job')
  BY <1>2, <1>10 DEF SettleFails, Holds
<1> QED
  BY <1>1, <1>4, <1>5, <1>6, <1>7, <1>8, <1>9, <1>10 DEF TaskStep, TaskFails

\* Neither a request nor the sweep moves a task across its claim.
LEMMA OtherClaims ==
  ASSUME TypeOK,
         \/ Request \/ Sweep \/ Boot \/ Crash
         \/ \E S \in SUBSET Receipts : RecoverFails(S)
  PROVE  claimed' = Claims(at', job')
<1>1. ASSUME NEW r \in Receipts, Schedule(r) PROVE claimed' = Claims(at', job')
  <2>1. PICK t \in Tasks \ {Sweeper} : Begin(t, r)
    BY <1>1 DEF Schedule
  <2>2. claimed' = claimed
    BY <1>1 DEF Schedule
  <2> QED BY <2>1, <2>2, BeginClaims
<1>2. ASSUME NEW r \in Receipts, SweepNext(r) PROVE claimed' = Claims(at', job')
  <2>1. Begin(Sweeper, r) /\ claimed' = claimed
    BY <1>2 DEF SweepNext
  <2> QED BY <2>1, BeginClaims, DispatchAssumption
<1>3. CASE Crash
  BY <1>3 DEF Crash, Claims
<1>4. ASSUME UNCHANGED <<at, job, claimed>> PROVE claimed' = Claims(at', job')
  BY <1>4, TypeParts DEF Claims
<1>5. ASSUME NEW r \in Receipts, Authenticate(r) \/ Receive(r) \/ ReceiveFails(r)
      PROVE  claimed' = Claims(at', job')
  BY <1>4, <1>5 DEF Authenticate, Receive, ReceiveFails
<1>6. ASSUME NEW s \in {"on", "off", "gone"}, SetTrigger(s)
      PROVE  claimed' = Claims(at', job')
  BY <1>4, <1>6 DEF SetTrigger
<1>7. ASSUME NEW S \in SUBSET Receipts, ListAccepted(S) \/ RecoverFails(S)
      PROVE  claimed' = Claims(at', job')
  BY <1>4, <1>7 DEF ListAccepted, RecoverFails
<1>8. CASE Recover \/ SweepEnds \/ Boot
  BY <1>4, <1>8 DEF Recover, SweepEnds, Boot
<1> QED
  BY <1>1, <1>2, <1>3, <1>5, <1>6, <1>7, <1>8 DEF Request, Sweep

LEMMA NextType ==
  ASSUME TypeOK, Alone, [Next]_vars
  PROVE  TypeOK'
<1>1. CASE UNCHANGED vars
  BY <1>1 DEF vars, TypeOK
<1>2. ASSUME NEW t \in Tasks, TaskStep(t) \/ TaskFails(t) PROVE TypeOK'
  BY <1>2, TaskType, TaskClaims, TypePartsNext
<1>3. CASE Request
  BY <1>3, RequestType, OtherClaims, TypePartsNext
<1>4. CASE Sweep \/ Boot \/ Crash \/ \E S \in SUBSET Receipts : RecoverFails(S)
  BY <1>4, ProcessType, OtherClaims, TypePartsNext
<1> QED BY <1>1, <1>2, <1>3, <1>4 DEF Next

-----------------------------------------------------------------------------
(* One task per receipt, and what the tasks and the journal know.          *)

LEMMA HonestAll ==
  ASSUME TypeOK
  PROVE  (\A r \in Receipts : Honest(status[r], turns[r]))
           <=> AtMostOneTurn /\ OutcomeMatchesTurn
  BY DEF TypeOK, Honest, AtMostOneTurn, OutcomeMatchesTurn

\* A step of a task that holds its receipt leaves the truth about everything
\* else alone; s and n are the state and the turns it leaves for the receipt.
LEMMA OwnStep ==
  ASSUME TypeOK, TypeOK', Truth, NEW t \in Tasks, Holds(t),
         NEW step \in Steps, NEW s, NEW n,
         at' = [at EXCEPT ![t] = step],
         \/ step # "idle" /\ job' = job
         \/ step = "idle" /\ job' = [job EXCEPT ![t] = NoReceipt],
         status' = [status EXCEPT ![job[t]] = s],
         turns' = [turns EXCEPT ![job[t]] = n],
         dead' = dead, trigger' = trigger,
         Fits(step, s, n), Honest(s, n),
         step \in {"launch", "start"} => job[t] \notin dead,
         job[t] \in dead => n = 0
  PROVE  Truth'
<1>1. /\ job[t] \in Receipts
      /\ at \in [Tasks -> Steps] /\ job \in [Tasks -> Receipts \cup {NoReceipt}]
      /\ status \in [Receipts -> {"none"} \cup Opened \cup Terminal]
      /\ turns \in [Receipts -> Nat] /\ dead \subseteq Receipts
  BY DEF TypeOK, Holds
<1>2. /\ at'[t] = step /\ status'[job[t]] = s /\ turns'[job[t]] = n
      /\ \A u \in Tasks : u # t => at'[u] = at[u] /\ job'[u] = job[u]
      /\ \A r \in Receipts : r # job[t] => status'[r] = status[r] /\ turns'[r] = turns[r]
  BY <1>1
<1>3. Alone'
  BY <1>1, <1>2 DEF Truth, Alone, Holds
<1>4. ASSUME NEW u \in Tasks PROVE Knows(u)'
  <2>1. CASE u = t
    BY <1>1, <1>2, <2>1 DEF Knows, Fits
  <2>2. CASE u # t /\ at[u] \in {"idle", "claim", "read"}
    BY <1>2, <2>2 DEF Fits, Knows
  <2>3. CASE u # t /\ at[u] \notin {"idle", "claim", "read"}
    <3>1. job[u] # job[t] /\ job[u] \in Receipts
      BY <2>3 DEF TypeOK, Truth, Alone, Holds
    <3>2. /\ at'[u] = at[u] /\ job'[u] = job[u]
          /\ status'[job[u]] = status[job[u]] /\ turns'[job[u]] = turns[job[u]]
      BY <1>2, <2>3, <3>1
    <3> QED BY <3>2 DEF Knows, Truth
  <2> QED BY <2>1, <2>2, <2>3
<1>5. ASSUME NEW r \in Receipts PROVE Honest(status'[r], turns'[r])
  BY <1>2, HonestAll DEF Truth
<1>6. AtMostOneTurn' /\ OutcomeMatchesTurn'
  BY <1>5 DEF Honest, AtMostOneTurn, OutcomeMatchesTurn
<1>7. Buried'
  BY <1>1, <1>2 DEF Buried, Truth
<1>8. DeletedStaysDead'
  BY <1>1, <1>2 DEF DeletedStaysDead, Truth
<1> QED BY <1>3, <1>4, <1>6, <1>7, <1>8 DEF Truth

LEMMA TaskTruth ==
  ASSUME TypeOK, TypeOK', Truth, NEW t \in Tasks, TaskStep(t) \/ TaskFails(t)
  PROVE  Truth'
<1> DEFINE r == job[t]
           s == status[r]
           n == turns[r]
<1>1. /\ at[t] # "idle" => r \in Receipts
      /\ status \in [Receipts -> {"none"} \cup Opened \cup Terminal]
      /\ turns \in [Receipts -> Nat]
      /\ at \in [Tasks -> Steps] /\ job \in [Tasks -> Receipts \cup {NoReceipt}]
      /\ Fits(at[t], s, n)
      /\ r \in Receipts => Honest(s, n)
      /\ r \in dead => n = 0
      /\ at[t] \in {"launch", "start"} => r \notin dead
      /\ trigger # "gone" => dead = {}
  BY HonestAll, DispatchAssumption DEF TypeOK, Truth, Buried, DeletedStaysDead, Knows
<1>2. CASE ClaimStep(t) /\ Idle(t)
  <2>1. /\ at' = [at EXCEPT ![t] = "idle"]
        /\ UNCHANGED <<status, turns, dead, trigger>>
        /\ \A u \in Tasks : u # t => job'[u] = job[u]
    BY <1>1, <1>2 DEF ClaimStep, Idle
  <2>2. \A u \in Tasks : Knows(u)'
    BY <1>1, <2>1 DEF Knows, Fits, Truth, Steps
  <2> QED
    BY <1>1, <2>1, <2>2
       DEF Truth, Alone, Holds, AtMostOneTurn, OutcomeMatchesTurn, Buried,
           DeletedStaysDead, Steps
<1>3. CASE ClaimStep(t) /\ r \notin claimed /\ Go(t, "read")
  <2>1. /\ at' = [at EXCEPT ![t] = "read"] /\ job' = job
        /\ UNCHANGED <<status, turns, dead, trigger>>
    BY <1>3 DEF ClaimStep, Go
  <2>2. \A u \in Tasks : Knows(u)'
    BY <1>1, <2>1 DEF Knows, Fits, Truth, Steps
  <2>3. \A u \in Tasks : Holds(u) => job[u] # r
    BY <1>3 DEF TypeOK, Holds
  <2>4. Alone'
    BY <1>1, <2>1, <2>3 DEF Truth, Alone, Holds, Steps
  <2> QED
    BY <1>1, <2>1, <2>2, <2>4
       DEF Truth, AtMostOneTurn, OutcomeMatchesTurn, Buried, DeletedStaysDead, Steps
<1>4. ASSUME Holds(t), NEW step \in Steps \ {"idle"}, Go(t, step), NEW s2, NEW n2,
             status' = [status EXCEPT ![r] = s2], turns' = [turns EXCEPT ![r] = n2],
             dead' = dead, trigger' = trigger,
             Fits(step, s2, n2), Honest(s2, n2),
             step \in {"launch", "start"} => r \notin dead, r \in dead => n2 = 0
      PROVE  Truth'
  BY <1>4, OwnStep DEF Go
<1>5. ASSUME Holds(t), Idle(t), NEW s2, status' = [status EXCEPT ![r] = s2],
             turns' = turns, dead' = dead, trigger' = trigger, Honest(s2, n)
      PROVE  Truth'
  <2>1. Fits("idle", s2, n)
    BY DEF Fits
  <2>2. turns' = [turns EXCEPT ![r] = n]
    BY <1>1, <1>5
  <2> QED BY <1>1, <1>5, <2>1, <2>2, OwnStep DEF Idle, Steps
<1>6. at[t] # "idle" => status = [status EXCEPT ![r] = s] /\ turns = [turns EXCEPT ![r] = n]
  BY <1>1
<1>7. CASE ReadReceipt(t)
  <2>1. /\ Holds(t) /\ status' = [status EXCEPT ![r] = s]
        /\ turns' = [turns EXCEPT ![r] = n] /\ dead' = dead /\ trigger' = trigger
        /\ Honest(s, n)
    BY <1>1, <1>6, <1>7 DEF ReadReceipt, Holds
  <2>2. CASE s = "accepted" /\ Go(t, "check")
    <3>1. Fits("check", s, n)
      BY <2>2 DEF Fits
    <3> QED BY <1>1, <1>4, <2>1, <2>2, <3>1 DEF Steps
  <2>3. CASE Idle(t)
    BY <1>5, <1>7, <2>1, <2>3 DEF ReadReceipt
  <2> QED BY <1>7, <2>2, <2>3 DEF ReadReceipt, Finish
<1>8. ASSUME NEW refused \in BOOLEAN, CheckTarget(t, refused) PROVE Truth'
  <2>1. /\ Holds(t) /\ status' = [status EXCEPT ![r] = s]
        /\ turns' = [turns EXCEPT ![r] = n] /\ dead' = dead /\ trigger' = trigger
        /\ Honest(s, n) /\ s = "accepted" /\ n = 0
    BY <1>1, <1>6, <1>8 DEF CheckTarget, Holds, Fits, Honest
  <2>2. CASE Ready /\ Go(t, "launch")
    <3>1. Fits("launch", s, n) /\ r \notin dead
      BY <1>1, <2>1, <2>2 DEF Fits, Ready
    <3> QED BY <1>1, <1>4, <2>1, <2>2, <3>1 DEF Steps
  <2>3. CASE Go(t, "fail")
    <3>1. Fits("fail", s, n)
      BY <2>1 DEF Fits
    <3> QED BY <1>1, <1>4, <2>1, <2>3, <3>1 DEF Steps
  <2> QED BY <1>8, <2>2, <2>3 DEF CheckTarget
<1>9. ASSUME NEW step \in {"start", "fail"}, at[t] = "launch", Go(t, step),
             step = "start" => status' = [status EXCEPT ![r] = "launching"],
             status' \in {status, [status EXCEPT ![r] = "launching"]},
             turns' = turns, dead' = dead, trigger' = trigger
      PROVE  Truth'
  <2>1. /\ Holds(t) /\ turns' = [turns EXCEPT ![r] = n] /\ s = "accepted" /\ n = 0
        /\ r \notin dead /\ Honest(s, n)
    BY <1>1, <1>6, <1>9 DEF Holds, Fits, Honest
  <2>2. PICK s2 \in {s, "launching"} : /\ status' = [status EXCEPT ![r] = s2]
                                       /\ step = "start" => s2 = "launching"
    BY <1>6, <1>9
  <2>3. Fits(step, s2, n) /\ Honest(s2, n)
    BY <2>1, <2>2 DEF Fits, Honest
  <2> QED BY <1>4, <1>9, <2>1, <2>2, <2>3 DEF Steps
<1>10. CASE BeginLaunch(t)
  BY <1>1, <1>9, <1>10 DEF BeginLaunch, Write, Fits, Opened
<1>11. ASSUME NEW onDisk \in BOOLEAN, BeginLaunchFails(t, onDisk) PROVE Truth'
  BY <1>9, <1>11 DEF BeginLaunchFails, Write
<1>12. CASE StartTurn(t)
  <2>1. /\ Holds(t) /\ status' = [status EXCEPT ![r] = s]
        /\ turns' = [turns EXCEPT ![r] = 1] /\ dead' = dead /\ trigger' = trigger
        /\ s \in {"launching", "interrupted"} /\ r \notin dead /\ Go(t, "settle")
    BY <1>1, <1>6, <1>12 DEF StartTurn, Holds, Fits
  <2>2. Fits("settle", s, 1) /\ Honest(s, 1)
    BY <2>1 DEF Fits, Honest
  <2> QED BY <1>4, <2>1, <2>2 DEF Steps
<1>13. CASE StartRefused(t)
  <2>1. /\ Holds(t) /\ status' = [status EXCEPT ![r] = s]
        /\ turns' = [turns EXCEPT ![r] = n] /\ dead' = dead /\ trigger' = trigger
        /\ Honest(s, n) /\ Fits("fail", s, n) /\ Go(t, "fail")
        /\ r \in dead => n = 0
    BY <1>1, <1>6, <1>13 DEF StartRefused, Holds, Fits
  <2> QED BY <1>4, <2>1 DEF Steps
<1>14. CASE SettleLaunched(t)
  <2>1. PICK s2 \in {s, "launched"} : status' = [status EXCEPT ![r] = s2]
    BY <1>6, <1>14 DEF SettleLaunched, Write
  <2>2. /\ Holds(t) /\ Idle(t) /\ turns' = turns /\ dead' = dead /\ trigger' = trigger
        /\ n = 1 /\ Honest(s, n)
    BY <1>1, <1>14 DEF SettleLaunched, Finish, Holds, Fits
  <2>3. Honest(s2, n)
    BY <2>1, <2>2 DEF Honest
  <2> QED BY <1>5, <2>1, <2>2, <2>3
<1>15. CASE SettleFailed(t)
  <2>1. PICK s2 \in {s, "failed"} : status' = [status EXCEPT ![r] = s2]
    BY <1>6, <1>15 DEF SettleFailed, Write
  <2>2. /\ Holds(t) /\ Idle(t) /\ turns' = turns /\ dead' = dead /\ trigger' = trigger
        /\ n = 0 /\ Honest(s, n)
    BY <1>1, <1>15 DEF SettleFailed, Finish, Holds, Fits
  <2>3. Honest(s2, n)
    BY <2>1, <2>2 DEF Honest
  <2> QED BY <1>5, <2>1, <2>2, <2>3
<1>16. CASE ReadFails(t)
  <2>1. /\ Holds(t) /\ Idle(t) /\ status' = [status EXCEPT ![r] = s]
        /\ turns' = turns /\ dead' = dead /\ trigger' = trigger /\ Honest(s, n)
    BY <1>1, <1>6, <1>16 DEF ReadFails, Finish, Holds
  <2> QED BY <1>5, <2>1
<1>17. ASSUME NEW onDisk \in BOOLEAN, SettleFails(t, onDisk) PROVE Truth'
  <2>1. PICK s2 \in {s, IF at[t] = "settle" THEN "launched" ELSE "failed"} :
          status' = [status EXCEPT ![r] = s2]
    BY <1>6, <1>17 DEF SettleFails, Write
  <2>2. /\ Holds(t) /\ Idle(t) /\ turns' = turns /\ dead' = dead /\ trigger' = trigger
        /\ at[t] \in {"settle", "fail"} /\ Honest(s, n)
        /\ n = IF at[t] = "settle" THEN 1 ELSE 0
    BY <1>1, <1>17 DEF SettleFails, Finish, Holds, Fits
  <2>3. Honest(s2, n)
    BY <2>1, <2>2 DEF Honest
  <2> QED BY <1>5, <2>1, <2>2, <2>3
<1> QED
  BY <1>2, <1>3, <1>7, <1>8, <1>10, <1>11, <1>12, <1>13, <1>14, <1>15, <1>16, <1>17
     DEF TaskStep, TaskFails, ClaimStep, Claim

\* What the rest of the process may do to a receipt: record it, or interrupt its
\* launch; nothing else but the history of a trigger's deletion changes.
LEMMA OtherTruth ==
  ASSUME TypeOK, TypeOK', Truth,
         \/ Request \/ Sweep \/ Boot \/ Crash
         \/ \E S \in SUBSET Receipts : RecoverFails(S)
  PROVE  Truth'
<1>1. /\ status \in [Receipts -> {"none"} \cup Opened \cup Terminal]
      /\ at \in [Tasks -> Steps] /\ job \in [Tasks -> Receipts \cup {NoReceipt}]
      /\ \A t \in Tasks : at[t] # "idle" => job[t] \in Receipts
      /\ turns \in [Receipts -> Nat] /\ dead \subseteq Receipts
  BY DEF TypeOK
<1>2. ASSUME UNCHANGED <<at, job, turns, dead, trigger>>,
             \A r \in Receipts :
               \/ status'[r] = status[r]
               \/ status[r] = "none" /\ status'[r] = "accepted"
               \/ status[r] = "launching" /\ status'[r] = "interrupted"
      PROVE  Truth'
  <2>1. ASSUME NEW t \in Tasks PROVE Knows(t)'
    <3>1. Knows(t) /\ at'[t] = at[t] /\ job'[t] = job[t]
      BY <1>2 DEF Truth
    <3>2. CASE at[t] = "idle"
      BY <3>1, <3>2 DEF Knows, Fits
    <3>3. CASE at[t] # "idle"
      BY <1>1, <1>2, <3>1, <3>3 DEF Knows, Fits
    <3> QED BY <3>2, <3>3
  <2>2. AtMostOneTurn' /\ OutcomeMatchesTurn'
    BY <1>2 DEF Truth, AtMostOneTurn, OutcomeMatchesTurn
  <2>3. Alone' /\ Buried' /\ DeletedStaysDead'
    BY <1>2 DEF Truth, Alone, Holds, Buried, DeletedStaysDead
  <2> QED BY <2>1, <2>2, <2>3 DEF Truth
<1>3. ASSUME UNCHANGED <<status, turns, dead, trigger>>,
             \A t \in Tasks : \/ at'[t] = at[t] /\ job'[t] = job[t]
                              \/ at'[t] \in {"idle", "claim"}
      PROVE  Truth'
  <2>1. \A t \in Tasks : Knows(t)'
    BY <1>3 DEF Truth, Knows, Fits
  <2>2. Alone'
    BY <1>3 DEF Truth, Alone, Holds
  <2>3. Buried'
    BY <1>3 DEF Truth, Buried
  <2>4. AtMostOneTurn' /\ OutcomeMatchesTurn' /\ DeletedStaysDead'
    BY <1>3 DEF Truth, AtMostOneTurn, OutcomeMatchesTurn, DeletedStaysDead
  <2> QED BY <2>1, <2>2, <2>3, <2>4 DEF Truth
<1>4. ASSUME NEW x \in {"on", "off", "gone"}, SetTrigger(x) PROVE Truth'
  <2>1. /\ UNCHANGED <<status, at, job, turns>> /\ trigger # "gone"
        /\ trigger' # "gone" => dead' = dead
        /\ \A r \in dead' : turns[r] = 0 \/ r \in dead
        /\ \A t \in Tasks : at[t] \in {"launch", "start"} => job[t] \notin dead' \ dead
    BY <1>4 DEF SetTrigger
  <2>2. (\A t \in Tasks : Knows(t)') /\ Alone'
    BY <2>1 DEF Truth, Knows, Alone, Holds
  <2>3. Buried' /\ DeletedStaysDead'
    BY <2>1 DEF Truth, Buried, DeletedStaysDead
  <2>4. AtMostOneTurn' /\ OutcomeMatchesTurn'
    BY <2>1 DEF Truth, AtMostOneTurn, OutcomeMatchesTurn
  <2> QED BY <2>2, <2>3, <2>4 DEF Truth
<1>5. ASSUME NEW r \in Receipts, Authenticate(r) \/ Receive(r) \/ ReceiveFails(r)
      PROVE  Truth'
  <2>1. CASE Authenticate(r)
    BY <1>2, <2>1 DEF Authenticate
  <2>2. CASE Receive(r)
    BY <1>1, <1>2, <2>2 DEF Receive, Admits, Write
  <2>3. CASE ReceiveFails(r)
    BY <1>1, <1>2, <2>3 DEF ReceiveFails, Admits, Write
  <2> QED BY <1>5, <2>1, <2>2, <2>3
<1>6. ASSUME NEW r \in Receipts, Schedule(r) PROVE Truth'
  BY <1>1, <1>3, <1>6 DEF Schedule, Begin
<1>7. ASSUME NEW r \in Receipts, SweepNext(r) PROVE Truth'
  BY <1>1, <1>3, <1>7 DEF SweepNext, Begin
<1>8. ASSUME NEW S \in SUBSET Receipts, RecoverFails(S) PROVE Truth'
  BY <1>1, <1>2, <1>8 DEF RecoverFails, Recovered, With
<1>9. CASE Recover
  BY <1>1, <1>2, <1>9 DEF Recover, Recovered, With
<1>10. ASSUME NEW S \in SUBSET Receipts, ListAccepted(S) PROVE Truth'
  BY <1>2, <1>10 DEF ListAccepted
<1>11. CASE SweepEnds \/ Boot
  BY <1>2, <1>11 DEF SweepEnds, Boot
<1>12. CASE Crash
  BY <1>1, <1>3, <1>12 DEF Crash
<1> QED
  BY <1>4, <1>5, <1>6, <1>7, <1>8, <1>9, <1>10, <1>11, <1>12 DEF Request, Sweep

LEMMA NextTruth ==
  ASSUME TypeOK, TypeOK', Truth, [Next]_vars
  PROVE  Truth'
<1>1. CASE UNCHANGED vars
  BY <1>1 DEF vars, Truth, Alone, Holds, Knows, AtMostOneTurn, OutcomeMatchesTurn,
              Buried, DeletedStaysDead
<1>2. ASSUME NEW t \in Tasks, TaskStep(t) \/ TaskFails(t) PROVE Truth'
  BY <1>2, TaskTruth
<1> QED BY <1>1, <1>2, OtherTruth DEF Next

-----------------------------------------------------------------------------
(* What a step does to the journal: the bound and the final states.        *)

Arrival == \E r \in Receipts : Admits(r) /\ Write(r, "accepted")

\* Only open receipts change otherwise.
Progress == \A r \in Receipts : status'[r] = status[r] \/ status[r] \in Opened

LEMMA JournalStep ==
  ASSUME TypeOK, Truth, [Next]_vars
  PROVE  Arrival \/ Progress
<1>1. /\ status \in [Receipts -> {"none"} \cup Opened \cup Terminal]
      /\ job \in [Tasks -> Receipts \cup {NoReceipt}]
      /\ \A t \in Tasks : at[t] = "idle" <=> job[t] = NoReceipt
  BY DEF TypeOK
<1>2. ASSUME status' = status PROVE Progress
  BY <1>2 DEF Progress
<1>3. ASSUME NEW t \in Tasks, TaskStep(t) \/ TaskFails(t) PROVE Progress
  <2>1. CASE UNCHANGED status
    BY <1>2, <2>1
  <2>2. ASSUME at[t] # "idle", status[job[t]] \in Opened, NEW s, Write(job[t], s)
        PROVE  Progress
    BY <1>1, <2>2 DEF Progress, Write
  <2>3. CASE BeginLaunch(t)
    BY <2>1, <2>2, <2>3 DEF BeginLaunch
  <2>4. ASSUME NEW onDisk \in BOOLEAN, BeginLaunchFails(t, onDisk) PROVE Progress
    <3>1. status[job[t]] \in Opened
      BY <2>4 DEF BeginLaunchFails, Truth, Knows, Fits, Opened
    <3> QED BY <2>1, <2>2, <2>4, <3>1 DEF BeginLaunchFails
  <2>5. CASE SettleLaunched(t)
    BY <2>1, <2>2, <2>5 DEF SettleLaunched, Opened
  <2>6. CASE SettleFailed(t)
    <3>1. Unsettled(job[t]) => status[job[t]] \in Opened
      BY <2>6 DEF SettleFailed, Unsettled, Truth, Knows, Fits, Opened, Terminal
    <3> QED BY <2>1, <2>2, <2>6, <3>1 DEF SettleFailed
  <2>7. ASSUME NEW onDisk \in BOOLEAN, SettleFails(t, onDisk) PROVE Progress
    <3>1. at[t] # "idle" /\ status[job[t]] \in Opened
      BY <2>7 DEF SettleFails, Opened
    <3> QED BY <2>1, <2>2, <2>7, <3>1 DEF SettleFails
  <2>8. CASE ClaimStep(t) \/ ReadReceipt(t) \/ ReadFails(t)
    BY <2>1, <2>8 DEF ClaimStep, ReadReceipt, ReadFails
  <2>9. CASE StartTurn(t) \/ StartRefused(t)
    BY <2>1, <2>9 DEF StartTurn, StartRefused
  <2>10. ASSUME NEW refused \in BOOLEAN, CheckTarget(t, refused) PROVE Progress
    BY <2>1, <2>10 DEF CheckTarget
  <2> QED
    BY <1>3, <2>3, <2>4, <2>5, <2>6, <2>7, <2>8, <2>9, <2>10 DEF TaskStep, TaskFails
<1>4. ASSUME NEW r \in Receipts, Receive(r) \/ ReceiveFails(r)
      PROVE  Arrival \/ Progress
  BY <1>2, <1>4 DEF Receive, ReceiveFails, Arrival
<1>5. ASSUME NEW S, S \subseteq With("launching"), Recovered(S) PROVE Progress
  BY <1>1, <1>5 DEF Recovered, With, Progress, Opened
<1>6. CASE Recover
  BY <1>5, <1>6 DEF Recover
<1>7. ASSUME NEW S \in SUBSET Receipts, RecoverFails(S) PROVE Progress
  BY <1>5, <1>7 DEF RecoverFails
<1>8. CASE Request
  BY <1>2, <1>4, <1>8 DEF Request, SetTrigger, Authenticate, Schedule
<1>9. CASE Sweep \/ Boot \/ Crash \/ UNCHANGED vars
  BY <1>2, <1>6, <1>9 DEF Sweep, ListAccepted, SweepNext, SweepEnds, Boot, Crash, vars
<1> QED BY <1>3, <1>7, <1>8, <1>9 DEF Next

LEMMA NextBounded ==
  ASSUME TypeOK, TypeOK', Truth, Bounded, [Next]_vars
  PROVE  Bounded'
<1>1. MaxPending \in Nat /\ Cardinality(OpenReceipts) \in Nat
  BY FS_CardinalityType, DispatchAssumption DEF Bounded
<1>2. CASE Arrival
  <2>1. PICK r \in Receipts : Admits(r) /\ status' = [status EXCEPT ![r] = "accepted"]
    BY <1>2 DEF Arrival, Write
  <2>2. OpenReceipts' = OpenReceipts \cup {r} /\ r \notin OpenReceipts
    BY <2>1 DEF OpenReceipts, Opened, Admits, TypeOK
  <2>3. /\ IsFiniteSet(OpenReceipts')
        /\ Cardinality(OpenReceipts') = Cardinality(OpenReceipts) + 1
    BY <2>2, FS_AddElement DEF Bounded
  <2>4. Cardinality(OpenReceipts) < MaxPending
    BY <2>1 DEF Admits
  <2> QED BY <1>1, <2>3, <2>4 DEF Bounded, PendingBounded
<1>3. CASE Progress
  <2>1. OpenReceipts' \subseteq OpenReceipts
    BY <1>3 DEF Progress, OpenReceipts
  <2>2. /\ IsFiniteSet(OpenReceipts')
        /\ Cardinality(OpenReceipts') \in Nat
        /\ Cardinality(OpenReceipts') <= Cardinality(OpenReceipts)
    BY <2>1, FS_Subset, FS_CardinalityType DEF Bounded
  <2> QED BY <1>1, <2>2 DEF Bounded, PendingBounded
<1> QED BY <1>2, <1>3, JournalStep

LEMMA StaysStep ==
  ASSUME TypeOK, Truth, [Next]_vars
  PROVE  \A r \in Receipts : status[r] \in Terminal => status'[r] = status[r]
<1>1. CASE Arrival
  BY <1>1 DEF Arrival, Admits, Write, Terminal, TypeOK
<1>2. CASE Progress
  BY <1>2 DEF Progress, Opened, Terminal
<1> QED BY <1>1, <1>2, JournalStep

-----------------------------------------------------------------------------
LEMMA InitInv == Init => Inv
<1> SUFFICES ASSUME Init PROVE Inv
  OBVIOUS
<1>1. Truth
  BY DEF Init, Truth, Alone, Holds, Knows, Fits, AtMostOneTurn, OutcomeMatchesTurn,
         Buried, DeletedStaysDead
<1>2. OpenReceipts = {}
  BY DEF Init, OpenReceipts, Opened
<1>3. Bounded
  BY <1>2, FS_EmptySet, DispatchAssumption DEF Bounded, PendingBounded
<1> QED BY <1>1, <1>3, InitType DEF Inv

LEMMA NextInv == Inv /\ [Next]_vars => Inv'
  BY NextType, NextTruth, NextBounded DEF Inv, Truth

\* The inductive invariant: types, one task per receipt, what each task knows of
\* its receipt at each step, and the bound.
THEOREM Invariant == Spec => []Inv
  BY InitInv, NextInv, PTL DEF Spec

\* The claims and every other variable keep their types for any number of
\* receipts, tasks, failures and crashes.
THEOREM TypeCorrect == Spec => []TypeOK
<1>1. Inv => TypeOK
  BY DEF Inv
<1> QED BY Invariant, <1>1, PTL

\* No event becomes two turns of a chat.
THEOREM OneTurnAlways == Spec => []AtMostOneTurn
<1>1. Inv => AtMostOneTurn
  BY DEF Inv, Truth
<1> QED BY Invariant, <1>1, PTL

\* The journal's last word on an event and the turn it had agree.
THEOREM OutcomeAlways == Spec => []OutcomeMatchesTurn
<1>1. Inv => OutcomeMatchesTurn
  BY DEF Inv, Truth
<1> QED BY Invariant, <1>1, PTL

\* The backlog of a trigger stays within its bound, whatever fails or crashes.
THEOREM PendingAlways == Spec => []PendingBounded
<1>1. Inv => PendingBounded
  BY DEF Inv, Bounded
<1> QED BY Invariant, <1>1, PTL

\* Nothing a deleted trigger left behind is launched later.
THEOREM DeadAlways == Spec => []DeletedStaysDead
<1>1. Inv => DeletedStaysDead
  BY DEF Inv, Truth
<1> QED BY Invariant, <1>1, PTL

\* An outcome is written once.
THEOREM SettledForGood == Spec => SettledStays
<1>1. Inv /\ [Next]_vars
        => [\A r \in Receipts : status[r] \in Terminal => status'[r] = status[r]]_vars
  BY StaysStep DEF Inv
<1> QED BY Invariant, <1>1, PTL DEF Spec, SettledStays
-----------------------------------------------------------------------------
(* What an interrupted receipt says of its launch.                         *)

LEMMA TaskTellsCrash ==
  ASSUME TypeOK, InterruptedMeansCrash, NEW t \in Tasks, TaskStep(t) \/ TaskFails(t)
  PROVE  InterruptedMeansCrash'
<1>1. PICK step \in Steps :
        /\ at' = [at EXCEPT ![t] = step]
        /\ step # "idle" => job' = job
        /\ \A u \in Tasks : u # t => job'[u] = job[u]
        /\ step = "start" => status' = [status EXCEPT ![job[t]] = "launching"]
        /\ step = "settle" => at[t] = "start" /\ status' = status
        /\ \E s \in Opened \cup {"launched", "failed"} :
             status' = status \/ status' = [status EXCEPT ![job[t]] = s]
  <2>1. CASE ClaimStep(t) \/ ReadReceipt(t) \/ ReadFails(t)
    BY <2>1 DEF TypeOK, ClaimStep, Claim, ReadReceipt, ReadFails, Finish, Idle, Go, Steps, Opened
  <2>2. CASE \E refused \in BOOLEAN : CheckTarget(t, refused)
    BY <2>2 DEF TypeOK, CheckTarget, Go, Steps, Opened
  <2>3. CASE BeginLaunch(t) \/ \E onDisk \in BOOLEAN : BeginLaunchFails(t, onDisk)
    BY <2>3 DEF TypeOK, BeginLaunch, BeginLaunchFails, Write, Go, Steps, Opened
  <2>4. CASE StartTurn(t) \/ StartRefused(t)
    BY <2>4 DEF TypeOK, StartTurn, StartRefused, Go, Steps, Opened
  <2>5. CASE SettleLaunched(t) \/ SettleFailed(t) \/ \E onDisk \in BOOLEAN : SettleFails(t, onDisk)
    BY <2>5 DEF TypeOK, SettleLaunched, SettleFailed, SettleFails, Write, Finish, Idle, Steps, Opened
  <2> QED BY <2>1, <2>2, <2>3, <2>4, <2>5 DEF TaskStep, TaskFails
<1>2. at[t] # "idle"
  BY DEF TaskStep, TaskFails, ClaimStep, Claim, ReadReceipt, CheckTarget, BeginLaunch, StartTurn,
         StartRefused, SettleLaunched, SettleFailed, ReadFails, BeginLaunchFails, SettleFails
<1>3. ASSUME NEW u \in Tasks, at'[u] \in {"start", "settle"}
      PROVE  status'[job'[u]] # "interrupted"
  <2>1. CASE u = t
    BY <1>1, <1>2, <1>3, <2>1 DEF TypeOK, InterruptedMeansCrash
  <2>2. CASE u # t
    BY <1>1, <1>3, <2>2 DEF TypeOK, InterruptedMeansCrash, Opened
  <2> QED BY <2>1, <2>2
<1> QED BY <1>3 DEF InterruptedMeansCrash

LEMMA OtherTellsCrash ==
  ASSUME TypeOK, InterruptedMeansCrash, Request \/ Sweep \/ Boot \/ Crash, ~Recover
  PROVE  InterruptedMeansCrash'
<1>1. ASSUME NEW r \in Receipts, Schedule(r) PROVE InterruptedMeansCrash'
  BY <1>1 DEF Schedule, Begin, InterruptedMeansCrash, TypeOK
<1>2. ASSUME NEW r \in Receipts, SweepNext(r) PROVE InterruptedMeansCrash'
  BY <1>2, DispatchAssumption DEF SweepNext, Begin, InterruptedMeansCrash, TypeOK
<1>3. CASE Crash
  BY <1>3 DEF Crash, InterruptedMeansCrash
<1>4. ASSUME NEW r \in Receipts, Receive(r) \/ ReceiveFails(r) PROVE InterruptedMeansCrash'
  BY <1>4 DEF Receive, ReceiveFails, Write, InterruptedMeansCrash, TypeOK
<1>5. ASSUME NEW r \in Receipts, Authenticate(r) PROVE InterruptedMeansCrash'
  BY <1>5 DEF Authenticate, InterruptedMeansCrash
<1>6. ASSUME NEW s \in {"on", "off", "gone"}, SetTrigger(s) PROVE InterruptedMeansCrash'
  BY <1>6 DEF SetTrigger, InterruptedMeansCrash
<1>7. CASE SweepEnds \/ Boot \/ \E S \in SUBSET Receipts : ListAccepted(S)
  BY <1>7 DEF SweepEnds, Boot, ListAccepted, InterruptedMeansCrash
<1> QED BY <1>1, <1>2, <1>3, <1>4, <1>5, <1>6, <1>7 DEF Request, Sweep

\* ``A launching receipt with no terminal row means a process died'': whatever
\* requests, tasks, failures and crashes do, no step but the start-up recovery can
\* leave a task between its allocation and its outcome with a receipt recorded as
\* interrupted.
THEOREM RecoveryAloneMistakes == Spec => OnlyRecoveryMistakes
<1> DEFINE Recovery == Recover \/ \E S \in SUBSET Receipts : RecoverFails(S)
<1>1. Inv /\ [Next]_vars
        => [InterruptedMeansCrash /\ ~InterruptedMeansCrash' => Recovery]_vars
  <2> SUFFICES ASSUME Inv, Next, InterruptedMeansCrash, ~Recovery
               PROVE  InterruptedMeansCrash'
    OBVIOUS
  <2>1. ASSUME NEW t \in Tasks, TaskStep(t) \/ TaskFails(t) PROVE InterruptedMeansCrash'
    BY <2>1, TaskTellsCrash DEF Inv
  <2>2. CASE Request \/ Sweep \/ Boot \/ Crash
    BY <2>2, OtherTellsCrash DEF Inv
  <2> QED BY <2>1, <2>2 DEF Next
<1> QED BY <1>1, Invariant, PTL DEF Spec, OnlyRecoveryMistakes
=============================================================================
