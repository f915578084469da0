------------------------------ MODULE ChatRetry ------------------------------
(***************************************************************************)
(* Deferred retries of one chat: what arms, fires, defers, stops and       *)
(* settles them, the retry loop's task and the registry that names it, the *)
(* streams they compete with, and the schedule row that waits for a        *)
(* network retry.  Time is whether retry_next_at has passed; a loop that   *)
(* sleeps towards a time that has since been changed may wake at any       *)
(* moment.                                                                 *)
(***************************************************************************)
EXTENDS Naturals

CONSTANTS Tasks,       \* asyncio tasks of retry loops, the bound on those alive
          NoTask,
          AutoKinds,   \* the kinds that a failed turn arms
          Cap,         \* the cap of each of them
          NetworkCap,  \* _MAX_NETWORK_RETRIES
          Events,      \* which of "drain", "other", "reset", "restart" happen
          MaxFires,    \* bound: retry turns
          MaxArms,     \* bound: retries armed by a user or an agent
          MaxTurns     \* bound: turns and streams started otherwise

ASSUME RetryAssumption ==
  /\ NoTask \notin Tasks
  /\ AutoKinds \cap {"none", "network"} = {}
  /\ Cap \in [AutoKinds -> Nat]
  /\ {NetworkCap, MaxFires, MaxArms, MaxTurns} \subseteq Nat

VARIABLES
  status,    \* retry_status, "none" for ""
  kind,      \* retry_kind, likewise
  attempts,  \* retry_attempts
  due,       \* retry_next_at has passed
  reg,       \* _retry_tasks of the chat
  loop,      \* where each loop task is suspended
  aimed,     \* its sleep ends at the current retry_next_at
  doomed,    \* loop tasks that were cancelled and have not run since
  stream,    \* the stream in the broker: none, or what it is
  phase,     \* its turn runs, or its teardown awaits the repo location
  firedBy,   \* the loop that polls it
  failed,    \* had_error
  good,      \* the turn ended with an answer and no error
  stopAsked, \* Stop was pressed on it
  netTurn,   \* network_retry_turn
  netArmed,  \* network_retry_armed
  row,       \* the schedule row of the chat's run
  draining,  \* _restart_draining
  fires, arms, turns

retryVars == <<status, kind, attempts, due>>
loopVars == <<reg, loop, aimed, doomed>>
streamVars == <<stream, phase, firedBy, failed, good, stopAsked, netTurn, netArmed>>
counters == <<fires, arms, turns>>
vars == <<retryVars, loopVars, streamVars, row, draining, counters>>

Pending == status = "pending"
Alive(t) == loop[t] # "off"
Exhausted == kind = "network" /\ attempts >= NetworkCap

-----------------------------------------------------------------------------
(* The retry state and its loop.                                           *)

\* _clear_chat_retry, its fields.
Cleared(s) ==
  /\ status' = s
  /\ kind' = "none"
  /\ attempts' = 0
  /\ due' = FALSE

\* ... and its task, called from elsewhere.
Cancelled ==
  /\ reg' = NoTask
  /\ doomed' = doomed \cup ({reg} \ {NoTask})
  /\ UNCHANGED <<loop, aimed>>

\* _settle_schedule_retry once the retry is not pending any more.
Settled == row' = IF row = "retrying" THEN "done" ELSE row

\* A new retry_next_at: no sleep ends at it.
Rescheduled == due' = FALSE /\ aimed' = [t \in Tasks |-> FALSE]

\* _ensure_retry_task.
Ensured ==
  IF reg # NoTask /\ Alive(reg)
  THEN UNCHANGED <<reg, loop>>
  ELSE \E t \in Tasks : ~Alive(t) /\ reg' = t /\ loop' = [loop EXCEPT ![t] = "top"]

\* Mutant of Set: the loops are left to those the start-up makes.
SetQuiet ==
  status' = "pending" /\ Rescheduled /\ UNCHANGED <<reg, loop, doomed>>

\* set_chat_retry.
Set == status' = "pending" /\ Rescheduled /\ Ensured /\ UNCHANGED doomed

\* Mutant of Exit: whatever is registered goes.
ExitAny(t) ==
  /\ loop' = [loop EXCEPT ![t] = "off"]
  /\ reg' = NoTask

\* The loop's finally: it leaves the registry if it is the one in it.
Exit(t) ==
  /\ loop' = [loop EXCEPT ![t] = "off"]
  /\ reg' = IF reg = t THEN NoTask ELSE reg

\* start_stream of a retry; the stream is new and nobody has stopped it.
Starts(what, by) ==
  /\ stream' = what /\ phase' = "turn" /\ firedBy' = by
  /\ failed' = FALSE /\ good' = FALSE /\ stopAsked' = FALSE /\ netArmed' = FALSE
  /\ netTurn' = (Pending /\ kind = "network" /\ what # "compact")

\* Mutant of Capped: the cap is left to the arming.
CappedNever == FALSE

\* try_chat_retry_now refuses a network retry past its cap.
Capped == Exhausted

\* _exhaust_network_retry.
Exhaust ==
  /\ Cleared("stopped")
  /\ Settled
  /\ UNCHANGED <<streamVars, fires>>

\* Otherwise it counts the attempt, moves the time and starts the turn, which
\* a draining server refuses with an exception.
Fires(by) ==
  /\ fires < MaxFires
  /\ fires' = fires + 1
  /\ attempts' = attempts + 1
  /\ IF draining THEN UNCHANGED streamVars ELSE Starts("retry", by)
  /\ UNCHANGED <<status, kind, row>>

\* The loop task is running again: it starts, its sleep is over, or the stream
\* it polls is gone.
Awake(t) ==
  /\ t \notin doomed
  /\ \/ loop[t] = "top"
     \/ loop[t] = "sleep" /\ (aimed[t] => due)
     \/ loop[t] = "poll" /\ ~(stream # "none" /\ firedBy = t)

LoopSleeps(t) ==
  /\ Awake(t) /\ Pending
  /\ loop[t] # "sleep" /\ ~due
  /\ loop' = [loop EXCEPT ![t] = "sleep"]
  /\ aimed' = [aimed EXCEPT ![t] = TRUE]
  /\ UNCHANGED <<retryVars, reg, doomed, streamVars, row, draining, counters>>

\* It is taken for due: at the start or after a poll if it is, after a sleep
\* without another look at the time.
Acts(t) == Awake(t) /\ Pending /\ (loop[t] = "sleep" \/ due)

\* The chat is busy: look again later.
LoopDefers(t) ==
  /\ Acts(t) /\ stream # "none"
  /\ due' = FALSE
  /\ loop' = [loop EXCEPT ![t] = "sleep"]
  /\ aimed' = [u \in Tasks |-> u = t]
  /\ UNCHANGED <<status, kind, attempts, reg, doomed, streamVars, row, draining,
                 counters>>

LoopExhausts(t) ==
  /\ Acts(t) /\ stream = "none" /\ Capped
  /\ Exhaust
  /\ loop' = [loop EXCEPT ![t] = "off"]
  /\ reg' = NoTask
  /\ UNCHANGED <<aimed, doomed, draining, arms, turns>>

\* The exception of a refused start ends the task.
LoopFires(t) ==
  /\ Acts(t) /\ stream = "none" /\ ~Capped
  /\ Fires(t)
  /\ Rescheduled
  /\ IF draining THEN Exit(t) ELSE loop' = [loop EXCEPT ![t] = "poll"] /\ UNCHANGED reg
  /\ UNCHANGED <<doomed, draining, arms, turns>>

\* A cancelled task runs its finally.
LoopDies(t) ==
  /\ t \in doomed
  /\ Exit(t)
  /\ doomed' = doomed \ {t}
  /\ UNCHANGED <<retryVars, aimed, streamVars, row, draining, counters>>

-----------------------------------------------------------------------------
(* Users, agents and the schedule dispatcher.                              *)

\* Try now.
TryNow ==
  /\ Pending /\ stream = "none"
  /\ arms < MaxArms /\ arms' = arms + 1
  /\ \/ Capped /\ Exhaust /\ Cancelled
     \/ ~Capped /\ Fires(NoTask) /\ Rescheduled /\ UNCHANGED <<reg, loop, doomed>>
  /\ UNCHANGED <<draining, turns>>

\* A retry set by hand keeps the kind that was there.
SetByHand ==
  /\ arms < MaxArms /\ arms' = arms + 1
  /\ Set
  /\ UNCHANGED <<kind, attempts, streamVars, row, draining, fires, turns>>

\* arm_network_retry: of the pending network retry or of the turn in flight.
ArmNetwork ==
  /\ arms < MaxArms /\ arms' = arms + 1
  /\ (Pending /\ kind = "network") \/ stream \notin {"none", "background"}
  /\ IF Exhausted
     THEN Exhaust /\ Cancelled
     ELSE /\ kind' = "network"
          /\ attempts' = IF kind = "network" THEN attempts ELSE 0
          /\ Set
          /\ netArmed' = (stream # "none")
          /\ UNCHANGED <<stream, phase, firedBy, failed, good, stopAsked, netTurn,
                         row, fires>>
  /\ UNCHANGED <<draining, turns>>

\* start_stream of a user's message or of a scheduled run: it supersedes a
\* pending retry.
StartTurn(what) ==
  /\ stream \in {"none", "background"} /\ ~draining
  /\ turns < MaxTurns /\ turns' = turns + 1
  /\ what = "run" => row \notin {"running", "ended"}
  /\ row' = IF what = "run" THEN "running" ELSE row
  /\ Starts(what, NoTask)
  /\ IF Pending THEN Cleared("none") /\ Cancelled ELSE UNCHANGED <<retryVars, loopVars>>
  /\ UNCHANGED <<draining, fires, arms>>

\* A compaction or a follow-up of the agent's own.
StartOther(what) ==
  /\ stream = "none"
  /\ what = "compact" => ~draining
  /\ turns < MaxTurns /\ turns' = turns + 1
  /\ Starts(what, NoTask)
  /\ UNCHANGED <<retryVars, loopVars, row, draining, fires, arms>>

\* stop_chat, up to where it has told the stream.
Stop ==
  /\ IF Pending
     THEN Cleared("stopped") /\ Cancelled /\ Settled
     ELSE UNCHANGED <<retryVars, loopVars, row>>
  /\ stopAsked' = (stream # "none")
  /\ stream' = IF stream = "background" THEN "none" ELSE stream
  /\ UNCHANGED <<phase, firedBy, failed, good, netTurn, netArmed, draining, counters>>

\* new_session, whatever the chat is doing; the row is not looked at.
NewSession ==
  /\ "reset" \in Events
  /\ status # "none"
  /\ Cleared("none") /\ Cancelled
  /\ stream' = IF stream = "background" THEN "none" ELSE stream
  /\ UNCHANGED <<phase, firedBy, failed, good, stopAsked, netTurn, netArmed, row,
                 draining, counters>>

-----------------------------------------------------------------------------
(* The turn.                                                               *)

IsTurn == stream \notin {"none", "background"} /\ phase = "turn"

\* _arm_retry.
ArmAuto(k) ==
  LET spent == IF kind = k THEN attempts ELSE 0
  IN  IF spent >= Cap[k]
      THEN IF Pending
           THEN Cleared("stopped") /\ Cancelled
           ELSE kind' = k /\ attempts' = spent /\ UNCHANGED <<status, due, loopVars>>
      ELSE kind' = k /\ attempts' = spent /\ Set

\* An error result of the stream's turn or of a follow-up it went on to, after a
\* compaction too; nothing asks whether a Stop came first.
TurnFails(k) ==
  /\ IsTurn
  /\ failed' = TRUE
  /\ ArmAuto(k)
  /\ UNCHANGED <<stream, phase, firedBy, good, stopAsked, netTurn, netArmed, row,
                 draining, counters>>

\* An error of another kind, and any of a compaction, arms nothing.
TurnFailsOtherwise ==
  /\ "other" \in Events \/ stream = "compact"
  /\ IsTurn /\ ~failed
  /\ failed' = TRUE
  /\ UNCHANGED <<retryVars, loopVars, stream, phase, firedBy, good, stopAsked,
                 netTurn, netArmed, row, draining, counters>>

\* The turn is over, with or without an answer.
TurnEnds(answer) ==
  /\ IsTurn
  /\ phase' = "ending"
  /\ good' = (answer /\ ~failed)
  /\ UNCHANGED <<retryVars, loopVars, stream, firedBy, failed, stopAsked, netTurn,
                 netArmed, row, draining, counters>>

\* The finally of drive: a retry that answered is done, unless it asked for
\* another network retry; a turn that a network retry became settles the row.
Teardown ==
  /\ stream \notin {"none", "background"} /\ phase = "ending"
  /\ stream' = "none"
  /\ LET done == good /\ Pending /\ stream = "retry" /\ ~netArmed
     IN  /\ IF done THEN Cleared("none") /\ Cancelled ELSE UNCHANGED <<retryVars, loopVars>>
         /\ \/ stream = "run" /\ row' = "ended"
            \/ /\ stream # "run"
               /\ IF (netTurn \/ stream = "retry") /\ (done \/ ~Pending)
                  THEN Settled ELSE UNCHANGED row
  /\ UNCHANGED <<phase, firedBy, failed, good, stopAsked, netTurn, netArmed, draining,
                 counters>>

BackgroundEnds ==
  /\ stream = "background"
  /\ stream' = "none"
  /\ UNCHANGED <<retryVars, loopVars, phase, firedBy, failed, good, stopAsked, netTurn,
                 netArmed, row, draining, counters>>

\* dispatch_schedule takes the run's outcome; with a retry pending nothing is
\* awaited between that and the stamp, without one the stamp settles the row.
Stamp ==
  /\ row = "ended"
  /\ row' = IF Pending /\ kind = "network" THEN "retrying" ELSE "done"
  /\ UNCHANGED <<retryVars, loopVars, streamVars, draining, counters>>

TimePasses ==
  /\ Pending /\ ~due
  /\ due' = TRUE
  /\ UNCHANGED <<status, kind, attempts, loopVars, streamVars, row, draining, counters>>

Drain ==
  /\ "drain" \in Events
  /\ draining' = ~draining
  /\ UNCHANGED <<retryVars, loopVars, streamVars, row, counters>>

\* The process is replaced: the retry state survives and gets a loop.
Restart ==
  /\ "restart" \in Events
  /\ draining' = FALSE
  /\ stream' = "none" /\ phase' = "turn" /\ firedBy' = NoTask
  /\ failed' = FALSE /\ good' = FALSE /\ stopAsked' = FALSE
  /\ netTurn' = FALSE /\ netArmed' = FALSE
  /\ row' = IF row \in {"running", "ended"} THEN "done" ELSE row
  /\ doomed' = {} /\ aimed' = [t \in Tasks |-> FALSE]
  /\ \E first \in Tasks :
       /\ reg' = IF Pending THEN first ELSE NoTask
       /\ loop' = [t \in Tasks |-> IF Pending /\ t = first THEN "top" ELSE "off"]
  /\ UNCHANGED <<retryVars, counters>>

-----------------------------------------------------------------------------
Init ==
  /\ status = "none" /\ kind = "none" /\ attempts = 0 /\ due = FALSE
  /\ reg = NoTask /\ doomed = {}
  /\ loop = [t \in Tasks |-> "off"] /\ aimed = [t \in Tasks |-> FALSE]
  /\ stream = "none" /\ phase = "turn" /\ firedBy = NoTask
  /\ failed = FALSE /\ good = FALSE /\ stopAsked = FALSE
  /\ netTurn = FALSE /\ netArmed = FALSE
  /\ row = "none" /\ draining = FALSE
  /\ fires = 0 /\ arms = 0 /\ turns = 0

LoopStep(t) ==
  LoopSleeps(t) \/ LoopDefers(t) \/ LoopExhausts(t) \/ LoopFires(t)
    \/ LoopDies(t)

TurnStep == Teardown \/ \E answer \in BOOLEAN : TurnEnds(answer)

People ==
  \/ TryNow \/ SetByHand \/ ArmNetwork \/ Stop \/ NewSession
  \/ \E what \in {"user", "run"} : StartTurn(what)
  \/ \E what \in {"compact", "background"} : StartOther(what)

Next ==
  \/ \E t \in Tasks : LoopStep(t)
  \/ People
  \/ \E k \in AutoKinds : TurnFails(k)
  \/ TurnFailsOtherwise
  \/ TurnStep \/ BackgroundEnds
  \/ Stamp \/ TimePasses \/ Drain \/ Restart

Spec == Init /\ [][Next]_vars

\* The event loop runs its tasks, time passes, and every stream ends.
Fairness ==
  /\ \A t \in Tasks : WF_vars(LoopStep(t))
  /\ WF_vars(TurnStep) /\ WF_vars(BackgroundEnds) /\ WF_vars(TimePasses)

FairSpec == Spec /\ Fairness

-----------------------------------------------------------------------------
(* Properties.                                                             *)

RetryTypes ==
  /\ status \in {"none", "pending", "stopped"}
  /\ kind \in AutoKinds \cup {"none", "network"}
  /\ attempts \in Nat /\ due \in BOOLEAN /\ (due => Pending)

LoopTypes ==
  /\ reg \in Tasks \cup {NoTask} /\ doomed \subseteq Tasks
  /\ loop \in [Tasks -> {"off", "top", "sleep", "poll"}]
  /\ aimed \in [Tasks -> BOOLEAN]

StreamTypes ==
  /\ stream \in {"none", "user", "run", "retry", "compact", "background"}
  /\ phase \in {"turn", "ending"}
  /\ firedBy \in Tasks \cup {NoTask}
  /\ {failed, good, stopAsked, netTurn, netArmed, draining} \subseteq BOOLEAN

OtherTypes ==
  /\ row \in {"none", "running", "ended", "retrying", "done"}
  /\ fires \in 0..MaxFires /\ arms \in 0..MaxArms /\ turns \in 0..MaxTurns

\* Every variable has its type; only a pending retry can be due.
TypeOK == RetryTypes /\ LoopTypes /\ StreamTypes /\ OtherTypes

\* Every live loop is the registered one, so a clear can always cancel it and no
\* second loop fires beside it; and it has a retry to fire, so the loop's own
\* looks at retry_status never end it (no action stands for them).
LoopRegistered ==
  \A t \in Tasks : Alive(t) /\ t \notin doomed => reg = t /\ Pending

\* A pending retry has a loop that will fire it.
PendingHasLoop == Pending => reg # NoTask /\ Alive(reg) /\ reg \notin doomed

\* A network retry is attempted no more often than its cap, whoever fires it and
\* however its turns end.
NetworkCapped == kind = "network" => attempts <= NetworkCap

\* A row that waits for a network retry has something that will settle it.
RowSettles ==
  row = "retrying" => \/ Pending
                      \/ stream \notin {"none", "run"} /\ (netTurn \/ stream = "retry")

\* ``... until they succeed, hit the kind's cap, ...''
AutoCapped == kind \in AutoKinds => attempts <= Cap[kind]

\* ``A Stop must also cancel any retry armed for this chat.''
StopCancels == stopAsked /\ stream # "none" => ~Pending

\* ``Pending retries are replayed on their kind's schedule'': a loop starts a
\* retry turn only when its time has come.
FiresOnTime ==
  [][stream' = "retry" /\ stream = "none" /\ firedBy' # NoTask => due]_vars

\* A pending retry is replayed, or somebody ends it, unless a drain catches it or
\* restarts never stop; MaxFires only bounds the run.
PendingFires ==
  []~draining /\ <>[][~Restart]_vars
  => (Pending ~> stream = "retry" \/ ~Pending \/ fires = MaxFires)
=============================================================================
