--------------------------- MODULE WebhookDispatch ---------------------------
(***************************************************************************)
(* The delivery of webhook events for one trigger: requests that record a  *)
(* receipt in the journal, the dispatch tasks that turn receipts into chat *)
(* turns, the sweep of start-up, and the crashes between any two of their  *)
(* steps.  A journal write is one step of its thread under the journal     *)
(* lock; what follows on the event loop is the next step of the task.      *)
(* The file under the journal is another module; here it is the map        *)
(* status, as which a file reads that no trim has cut.                     *)
(***************************************************************************)
EXTENDS Naturals, FiniteSets

CONSTANTS Receipts,     \* the events: one idempotency key each
          Tasks,        \* dispatch tasks of a process, the bound on concurrency
          Sweeper,      \* the one that the start-up sweep awaits
          NoReceipt,    \* the job of an idle task
          MaxPending,   \* MAX_PENDING_RECEIPTS
          SweepLimit,   \* MAX_RESUMED_LAUNCHES
          MaxFailures,  \* bound: journal reads and writes that fail
          MaxCrashes    \* bound: crashes of the process

ASSUME DispatchAssumption ==
  /\ Sweeper \in Tasks
  /\ NoReceipt \notin Receipts
  /\ MaxPending \in Nat /\ SweepLimit \in Nat
  /\ MaxFailures \in Nat /\ MaxCrashes \in Nat

Terminal == {"launched", "failed", "interrupted"}
Opened == {"accepted", "launching"}
Steps == {"idle", "claim", "read", "check", "launch", "start", "settle", "fail"}

VARIABLES
  trigger,   \* the trigger record: on, off (disabled or revoked), gone
  status,    \* the last journal row of each receipt, none without one
  asked,     \* requests that have authenticated and wait for their body
  due,       \* requests whose receipt is accepted and not yet scheduled
  at, job,   \* the next step of each dispatch task and its receipt
  claimed,   \* _IN_FLIGHT
  sweep,     \* the process: down, or how far its sweep is
  left,      \* receipts of the sweep's list still to dispatch
  failures,  \* journal failures so far
  crashes,   \* crashes so far
  turns,     \* history: turns started for each receipt
  dead,      \* history: receipts a deleted trigger leaves behind
  hurt       \* history: receipts a journal failure or the limit left open

vars == <<trigger, status, asked, due, at, job, claimed, sweep, left, failures,
          crashes, turns, dead, hurt>>

Up == sweep # "down"
With(s) == {r \in Receipts : status[r] = s}
OpenReceipts == {r \in Receipts : status[r] \in Opened}

-----------------------------------------------------------------------------
(* Tasks.                                                                  *)

Go(t, step) == at' = [at EXCEPT ![t] = step] /\ UNCHANGED job

Begin(t, r) ==
  /\ at[t] = "idle"
  /\ at' = [at EXCEPT ![t] = "claim"]
  /\ job' = [job EXCEPT ![t] = r]

\* The task ends.
Idle(t) ==
  /\ at' = [at EXCEPT ![t] = "idle"]
  /\ job' = [job EXCEPT ![t] = NoReceipt]

\* The finally of dispatch_receipt.
Finish(t) ==
  /\ Idle(t)
  /\ claimed' = claimed \ {job[t]}

Write(r, s) == status' = [status EXCEPT ![r] = s]

\* A journal write or read fails.
Fail ==
  /\ failures < MaxFailures
  /\ failures' = failures + 1

-----------------------------------------------------------------------------
(* The operator and the sender.                                            *)

\* Disabling, enabling, deleting; deletion is final, a new trigger gets a new
\* id.  A receipt whose dispatch has read the trigger may still launch.
SetTrigger(s) ==
  /\ trigger # "gone" /\ trigger # s
  /\ trigger' = s
  /\ dead' = IF s = "gone"
             THEN {r \in Receipts : /\ turns[r] = 0
                                    /\ \A t \in Tasks : job[t] = r
                                         => at[t] \notin {"launch", "start"}}
             ELSE dead
  /\ UNCHANGED <<status, asked, due, at, job, claimed, sweep, left, failures,
                 crashes, turns, hurt>>

\* webhook_receive: the secret is checked, then the body is read.
Authenticate(r) ==
  /\ Up
  /\ trigger = "on"
  /\ asked' = asked \cup {r}
  /\ UNCHANGED <<trigger, status, due, at, job, claimed, sweep, left, failures,
                 crashes, turns, dead, hurt>>

\* Mutant of Admits: only accepted receipts count as pending.
AdmitsLaunching(r) == status[r] = "none" /\ Cardinality(With("accepted")) < MaxPending

\* A new event is recorded while the trigger has fewer open receipts than the
\* bound.
Admits(r) == status[r] = "none" /\ Cardinality(OpenReceipts) < MaxPending

\* receive in its thread, and its answer: an accepted receipt, new or not, is
\* to be scheduled.
Receive(r) ==
  /\ r \in asked
  /\ asked' = asked \ {r}
  /\ IF Admits(r)
     THEN Write(r, "accepted") /\ due' = due \cup {r}
     ELSE /\ UNCHANGED status
          /\ due' = IF status[r] = "accepted" THEN due \cup {r} ELSE due
  /\ UNCHANGED <<trigger, at, job, claimed, sweep, left, failures, crashes, turns,
                 dead, hurt>>

\* The append fails after its row reached the disk: the sender gets an error
\* and nobody schedules the receipt.
ReceiveFails(r) ==
  /\ r \in asked
  /\ Admits(r)
  /\ Fail
  /\ asked' = asked \ {r}
  /\ Write(r, "accepted")
  /\ hurt' = hurt \cup {r}
  /\ UNCHANGED <<trigger, due, at, job, claimed, sweep, left, crashes, turns, dead>>

\* schedule_webhook_dispatch.
Schedule(r) ==
  /\ r \in due
  /\ due' = due \ {r}
  /\ \E t \in Tasks \ {Sweeper} : Begin(t, r)
  /\ UNCHANGED <<trigger, status, asked, claimed, sweep, left, failures, crashes,
                 turns, dead, hurt>>

-----------------------------------------------------------------------------
(* dispatch_receipt.                                                       *)

\* Mutant of Claim: the receipt's state alone decides.
ClaimAlways(t) ==
  /\ at[t] = "claim"
  /\ claimed' = claimed \cup {job[t]}
  /\ Go(t, "read")

\* The claim: one task per receipt.
Claim(t) ==
  /\ at[t] = "claim"
  /\ IF job[t] \in claimed
     THEN Idle(t) /\ UNCHANGED claimed
     ELSE claimed' = claimed \cup {job[t]} /\ Go(t, "read")

ClaimStep(t) ==
  /\ Claim(t)
  /\ UNCHANGED <<trigger, status, asked, due, sweep, left, failures, crashes,
                 turns, dead, hurt>>

\* The receipt is read: only an accepted one goes on.
ReadReceipt(t) ==
  /\ at[t] = "read"
  /\ IF status[job[t]] = "accepted"
     THEN Go(t, "check") /\ UNCHANGED claimed
     ELSE Finish(t)
  /\ UNCHANGED <<trigger, status, asked, due, sweep, left, failures, crashes,
                 turns, dead, hurt>>

ReadFails(t) ==
  /\ at[t] = "read"
  /\ Fail
  /\ Finish(t)
  /\ hurt' = hurt \cup {job[t]}
  /\ UNCHANGED <<trigger, status, asked, due, sweep, left, crashes, turns, dead>>

\* Mutant of Ready: the trigger's switch is checked at authentication only.
ReadyUnchecked == TRUE

\* The trigger is still there and enabled.
Ready == trigger = "on"

\* The trigger is read, its project resolved and the chat created, or one of
\* them refuses.
CheckTarget(t, refused) ==
  /\ at[t] = "check"
  /\ IF Ready /\ ~refused THEN Go(t, "launch") ELSE Go(t, "fail")
  /\ UNCHANGED <<trigger, status, asked, due, claimed, sweep, left, failures,
                 crashes, turns, dead, hurt>>

\* begin_launch: an allocation is recorded, or was before; an outcome refuses.
BeginLaunch(t) ==
  /\ at[t] = "launch"
  /\ IF status[job[t]] \in Opened
     THEN Write(job[t], "launching") /\ Go(t, "start")
     ELSE UNCHANGED status /\ Go(t, "fail")
  /\ UNCHANGED <<trigger, asked, due, claimed, sweep, left, failures, crashes,
                 turns, dead, hurt>>

\* Its append fails, with or without its row on the disk.
BeginLaunchFails(t, onDisk) ==
  /\ at[t] = "launch"
  /\ Fail
  /\ IF onDisk THEN Write(job[t], "launching") ELSE UNCHANGED status
  /\ Go(t, "fail")
  /\ UNCHANGED <<trigger, asked, due, claimed, sweep, left, crashes, turns, dead,
                 hurt>>

\* start_stream on the event loop.
StartTurn(t) ==
  /\ at[t] = "start"
  /\ turns' = [turns EXCEPT ![job[t]] = @ + 1]
  /\ Go(t, "settle")
  /\ UNCHANGED <<trigger, status, asked, due, claimed, sweep, left, failures,
                 crashes, dead, hurt>>

StartRefused(t) ==
  /\ at[t] = "start"
  /\ Go(t, "fail")
  /\ UNCHANGED <<trigger, status, asked, due, claimed, sweep, left, failures,
                 crashes, turns, dead, hurt>>

\* settle_launched; a receipt that is not launching any more refuses.
SettleLaunched(t) ==
  /\ at[t] = "settle"
  /\ IF status[job[t]] = "launching"
     THEN Write(job[t], "launched") ELSE UNCHANGED status
  /\ Finish(t)
  /\ UNCHANGED <<trigger, asked, due, sweep, left, failures, crashes, turns, dead,
                 hurt>>

\* Mutant of Unsettled: an outcome may be overwritten.
UnsettledAny(r) == status[r] # "none"

Unsettled(r) == status[r] \notin Terminal

\* settle_failed; an outcome that is there stays.
SettleFailed(t) ==
  /\ at[t] = "fail"
  /\ IF Unsettled(job[t]) THEN Write(job[t], "failed") ELSE UNCHANGED status
  /\ Finish(t)
  /\ UNCHANGED <<trigger, asked, due, sweep, left, failures, crashes, turns, dead,
                 hurt>>

\* The outcome's append fails; without its row the receipt stays open.
SettleFails(t, onDisk) ==
  /\ at[t] \in {"settle", "fail"}
  /\ status[job[t]] \in (IF at[t] = "settle" THEN {"launching"} ELSE Opened)
  /\ Fail
  /\ IF onDisk
     THEN Write(job[t], IF at[t] = "settle" THEN "launched" ELSE "failed")
     ELSE UNCHANGED status
  /\ Finish(t)
  /\ hurt' = hurt \cup {job[t]}
  /\ UNCHANGED <<trigger, asked, due, sweep, left, crashes, turns, dead>>

-----------------------------------------------------------------------------
(* The process: start-up, resume_pending and crashes.                      *)

Boot ==
  /\ sweep = "down"
  /\ sweep' = "recover"
  /\ UNCHANGED <<trigger, status, asked, due, at, job, claimed, left, failures,
                 crashes, turns, dead, hurt>>

\* Mutant of Recovered: the ambiguous receipts are open for another launch.
RecoveredOpen(S) ==
  status' = [r \in Receipts |-> IF r \in S THEN "accepted" ELSE status[r]]

Recovered(S) ==
  status' = [r \in Receipts |-> IF r \in S THEN "interrupted" ELSE status[r]]

\* recover_interrupted, under the journal lock.
Recover ==
  /\ sweep = "recover"
  /\ Recovered(With("launching"))
  /\ sweep' = "list"
  /\ UNCHANGED <<trigger, asked, due, at, job, claimed, left, failures, crashes,
                 turns, dead, hurt>>

\* It fails on the way: what it wrote stays and the sweep ends.
RecoverFails(S) ==
  /\ sweep = "recover"
  /\ S \subseteq With("launching")
  /\ Fail
  /\ Recovered(S)
  /\ sweep' = "done"
  /\ hurt' = hurt \cup OpenReceipts
  /\ UNCHANGED <<trigger, asked, due, at, job, claimed, left, crashes, turns, dead>>

\* Mutant of Listed: the list stops one receipt short of the limit.
ListedShort(S) ==
  /\ S \subseteq With("accepted")
  /\ Cardinality(S) < SweepLimit
  /\ S = With("accepted") \/ Cardinality(S) + 1 = SweepLimit

\* The oldest accepted receipts up to the limit; which ones they are depends on
\* the journal's order.
Listed(S) ==
  /\ S \subseteq With("accepted")
  /\ Cardinality(S) <= SweepLimit
  /\ S = With("accepted") \/ Cardinality(S) = SweepLimit

ListAccepted(S) ==
  /\ sweep = "list"
  /\ Listed(S)
  /\ left' = S
  /\ sweep' = "each"
  /\ hurt' = IF Cardinality(S) = SweepLimit
             THEN hurt \cup (With("accepted") \ S) ELSE hurt
  /\ UNCHANGED <<trigger, status, asked, due, at, job, claimed, failures, crashes,
                 turns, dead>>

SweepNext(r) ==
  /\ sweep = "each"
  /\ r \in left
  /\ Begin(Sweeper, r)
  /\ left' = left \ {r}
  /\ UNCHANGED <<trigger, status, asked, due, claimed, sweep, failures, crashes,
                 turns, dead, hurt>>

SweepEnds ==
  /\ sweep = "each" /\ left = {} /\ at[Sweeper] = "idle"
  /\ sweep' = "done"
  /\ UNCHANGED <<trigger, status, asked, due, at, job, claimed, left, failures,
                 crashes, turns, dead, hurt>>

\* The process dies: only the journal and the trigger record survive.
Crash ==
  /\ Up
  /\ crashes < MaxCrashes
  /\ crashes' = crashes + 1
  /\ sweep' = "down"
  /\ asked' = {} /\ due' = {} /\ claimed' = {} /\ left' = {}
  /\ at' = [t \in Tasks |-> "idle"]
  /\ job' = [t \in Tasks |-> NoReceipt]
  /\ UNCHANGED <<trigger, status, failures, turns, dead, hurt>>

-----------------------------------------------------------------------------
Init ==
  /\ trigger = "on"
  /\ status = [r \in Receipts |-> "none"]
  /\ asked = {} /\ due = {} /\ claimed = {} /\ left = {}
  /\ at = [t \in Tasks |-> "idle"]
  /\ job = [t \in Tasks |-> NoReceipt]
  /\ sweep = "down"
  /\ failures = 0 /\ crashes = 0
  /\ turns = [r \in Receipts |-> 0]
  /\ dead = {} /\ hurt = {}

Request ==
  \/ \E s \in {"on", "off", "gone"} : SetTrigger(s)
  \/ \E r \in Receipts : Authenticate(r)
  \/ \E r \in Receipts : Receive(r)
  \/ \E r \in Receipts : ReceiveFails(r)
  \/ \E r \in Receipts : Schedule(r)

TaskStep(t) ==
  \/ ClaimStep(t)
  \/ ReadReceipt(t)
  \/ \E refused \in BOOLEAN : CheckTarget(t, refused)
  \/ BeginLaunch(t)
  \/ StartTurn(t) \/ StartRefused(t)
  \/ SettleLaunched(t) \/ SettleFailed(t)

TaskFails(t) ==
  \/ ReadFails(t)
  \/ \E onDisk \in BOOLEAN : BeginLaunchFails(t, onDisk)
  \/ \E onDisk \in BOOLEAN : SettleFails(t, onDisk)

Sweep ==
  \/ Recover
  \/ \E S \in SUBSET Receipts : ListAccepted(S)
  \/ \E r \in Receipts : SweepNext(r)
  \/ SweepEnds

Next ==
  \/ Request
  \/ \E t \in Tasks : TaskStep(t) \/ TaskFails(t)
  \/ Sweep
  \/ \E S \in SUBSET Receipts : RecoverFails(S)
  \/ Boot
  \/ Crash

Spec == Init /\ [][Next]_vars

\* A started request and every task run on; the service manager restarts the
\* process; the sweep is a task.  Requests arrive and crashes happen as they
\* like.
Fairness ==
  /\ \A r \in Receipts : WF_vars(Schedule(r))
  /\ \A t \in Tasks : WF_vars(TaskStep(t))
  /\ WF_vars(Sweep)
  /\ WF_vars(Boot)

FairSpec == Spec /\ Fairness

-----------------------------------------------------------------------------
(* Properties.                                                             *)

\* Every variable has its type, an idle task has no receipt, and the claims are
\* exactly the receipts of the tasks that made one.
TypeOK ==
  /\ trigger \in {"on", "off", "gone"}
  /\ status \in [Receipts -> {"none"} \cup Opened \cup Terminal]
  /\ asked \subseteq Receipts /\ due \subseteq Receipts
  /\ at \in [Tasks -> Steps]
  /\ job \in [Tasks -> Receipts \cup {NoReceipt}]
  /\ \A t \in Tasks : at[t] = "idle" <=> job[t] = NoReceipt
  /\ claimed = {job[t] : t \in {u \in Tasks : at[u] \notin {"idle", "claim"}}}
  /\ sweep \in {"down", "recover", "list", "each", "done"}
  /\ left \subseteq Receipts
  /\ failures \in 0..MaxFailures /\ crashes \in 0..MaxCrashes
  /\ turns \in [Receipts -> Nat]
  /\ dead \subseteq Receipts /\ hurt \subseteq Receipts

\* One receipt, one turn: whatever requests, retries, sweeps, journal failures
\* and crashes do, an event never becomes two chat turns.
AtMostOneTurn == \A r \in Receipts : turns[r] <= 1

\* The journal tells the truth about turns: what is recorded as launched ran,
\* what is failed or still waits did not.
OutcomeMatchesTurn ==
  \A r \in Receipts :
    /\ status[r] = "launched" => turns[r] = 1
    /\ status[r] \in {"none", "accepted", "failed"} => turns[r] = 0

\* ``The states a receipt never leaves.''
SettledStays ==
  [][\A r \in Receipts : status[r] \in Terminal => status'[r] = status[r]]_vars

\* A sender cannot have more than the bound open, failures and crashes included.
PendingBounded == Cardinality(OpenReceipts) <= MaxPending

\* A deleted trigger launches nothing that had not passed the check of its
\* switch, the requests still on their way and what a crash left included.
DeletedStaysDead == \A r \in dead : turns[r] = 0

\* ``A launching receipt with no terminal row means a process died'': no
\* receipt is recorded as interrupted while a task of the running process is
\* between its allocation and its outcome.
InterruptedMeansCrash ==
  \A t \in Tasks : at[t] \in {"start", "settle"} => status[job[t]] # "interrupted"

\* Only the start-up recovery breaks the claim, by settling a launch that a task
\* of its own process has in hand.
OnlyRecoveryMistakes ==
  [][InterruptedMeansCrash /\ ~InterruptedMeansCrash'
       => Recover \/ \E S \in SUBSET Receipts : RecoverFails(S)]_vars

\* An accepted event is settled, unless the journal refused or the sweep's limit
\* left it for the next start-up.
OpenSettles ==
  \A r \in Receipts : status[r] \in Opened ~> status[r] \in Terminal \/ r \in hurt
=============================================================================
