---------------------------- MODULE BetweenTurns ----------------------------
(***************************************************************************)
(* One Claude chat at the end of a turn and between turns: the stream it   *)
(* has in the broker, the drives of its turns, the drains that read what   *)
(* its CLI does by itself, the watchers of its background agents, and the  *)
(* announce of a turn that ended on ``I'll report back''.                  *)
(*                                                                         *)
(* Turns, drains and watchers are tasks.  A cancelled one is `doomed' until*)
(* it has unwound.  The ids are those of the tasks alive, and are taken    *)
(* again.                                                                  *)
(***************************************************************************)
EXTENDS Naturals

CONSTANTS Turns, Drains, Watchers, None,
          MaxWork     \* bound on the agents that run or have to be answered

ASSUME BetweenAssumption ==
  /\ Turns \cap Drains = {} /\ None \notin Turns \cup Drains \cup Watchers
  /\ MaxWork \in Nat

VARIABLES slot,     \* whose stream the broker has
          turn,     \* the drives
          waits,    \* the drain that a drive waits for
          drain,    \* the drains, and whether each has a stream open
          reg,      \* _between_turn_drains
          watch,    \* the watchers
          wreg,     \* _pending_subagent_watchers
          stop,     \* the drain that a stop_chat waits for
          park,     \* _parked_result_announce holds one
          shown,    \* the clients show agents at work
          cli,      \* the CLI is alive and connected
          work,     \* agents at work
          lost,     \* agents that died with their CLI and still read as running
          owed,     \* ended agents that the CLI has yet to answer with a turn
          faults    \* history: the faults that there have been

tasks == <<turn, waits, drain, reg, watch, wreg, stop>>
agents == <<cli, work, lost, owed>>
vars == <<slot, tasks, park, shown, agents, faults>>

Faults == {"bad message", "no file", "lost agents"}

Drain == [pc : {"off", "created", "idle", "ready", "doomed"}, wake : BOOLEAN]
NoDrain == [pc |-> "off", wake |-> FALSE]

Init ==
  /\ slot = None /\ reg = None /\ wreg = None /\ stop = None
  /\ turn = [t \in Turns |-> "off"] /\ waits = [t \in Turns |-> None]
  /\ drain = [d \in Drains |-> NoDrain]
  /\ watch = [w \in Watchers |-> "off"]
  /\ park = FALSE /\ shown = FALSE
  /\ cli = FALSE /\ work = 0 /\ lost = 0 /\ owed = 0
  /\ faults = {}

-----------------------------------------------------------------------------
(* The tasks *)

Reads(d) == drain[d].pc \in {"created", "idle", "ready"}

\* has_live_drain: a cancelled drain is not done before it has unwound.
LiveDrain == reg # None /\ drain[reg].pc # "off"

\* current_count: what the session's files say.
Count == work + lost

Watching == wreg # None /\ watch[wreg] # "off"

\* cancel_between_turns_drain
Cancelled == IF LiveDrain THEN [drain EXCEPT ![reg].pc = "doomed"] ELSE drain

\* start_between_turns_drain
StartDrain(d) ==
  /\ drain[d].pc = "off" /\ d # stop /\ \A t \in Turns : waits[t] # d
  /\ drain' = [Cancelled EXCEPT ![d] = [pc |-> "created", wake |-> FALSE]]
  /\ reg' = d

\* Mutant of StartWatcher: the watcher before it is not cancelled.
StartWatcherBeside(w) ==
  /\ watch[w] = "off"
  /\ watch' = [watch EXCEPT ![w] = "created"]
  /\ wreg' = w

\* The watcher before it is cancelled: one that has not begun never will.
StartWatcher(w) ==
  /\ watch[w] = "off"
  /\ watch' = [v \in Watchers |-> IF v = w THEN "created"
                                  ELSE IF v # wreg THEN watch[v]
                                  ELSE IF watch[v] = "poll" THEN "doomed" ELSE "off"]
  /\ wreg' = w

\* _flush_result_announce, once the broker has s.
Flush(s) == park' = (park /\ s \in Turns)

\* Mutant of Closed: the stream is finished and stays in the broker.
ClosedKept(d) == slot

\* close_stream
Closed(d) == IF drain[d].wake /\ slot = d THEN None ELSE slot

-----------------------------------------------------------------------------
(* Turns *)

\* start_stream
Send(t) ==
  /\ turn[t] = "off" /\ slot \notin Turns
  /\ turn' = [turn EXCEPT ![t] = "created"]
  /\ slot' = t
  /\ drain' = IF slot \in Drains THEN Cancelled ELSE drain
  /\ UNCHANGED <<waits, reg, watch, wreg, stop, park, shown, agents, faults>>

\* drive, which waits for the drain it finds in the registry.
TurnBegins(t) ==
  /\ turn[t] = "created"
  /\ turn' = [turn EXCEPT ![t] = IF LiveDrain THEN "unwinds" ELSE "runs"]
  /\ waits' = [waits EXCEPT ![t] = IF LiveDrain THEN reg ELSE None]
  /\ drain' = Cancelled
  /\ reg' = None
  /\ cli' = (cli \/ ~LiveDrain)
  /\ UNCHANGED <<slot, watch, wreg, stop, park, shown, work, lost, owed, faults>>

TurnGoesOn(t) ==
  /\ turn[t] = "unwinds" /\ drain[waits[t]].pc = "off"
  /\ turn' = [turn EXCEPT ![t] = "runs"]
  /\ waits' = [waits EXCEPT ![t] = None]
  /\ cli' = TRUE
  /\ UNCHANGED <<slot, drain, reg, watch, wreg, stop, park, shown, work, lost, owed, faults>>

\* The end of drive; an interim answer is held for the follow-up.
TurnEnds(t, interim) ==
  /\ turn[t] = "runs"
  /\ turn' = [turn EXCEPT ![t] = "off"]
  /\ slot' = IF slot = t THEN None ELSE slot
  /\ \E w \in Watchers : StartWatcher(w)
  /\ IF cli THEN \E d \in Drains : StartDrain(d) ELSE UNCHANGED <<drain, reg>>
  /\ park' = interim
  /\ UNCHANGED <<waits, stop, shown, agents, faults>>

-----------------------------------------------------------------------------
(* Drains *)

DrainBegins(d) ==
  /\ drain[d].pc = "created" /\ cli
  /\ drain' = [drain EXCEPT ![d].pc = "idle"]
  /\ UNCHANGED <<slot, turn, waits, reg, watch, wreg, stop, park, shown, agents, faults>>

\* The CLI speaks: the drain's next step is scheduled.
EventComes(d) ==
  /\ drain[d].pc = "idle" /\ cli /\ (owed > 0 \/ drain[d].wake)
  /\ drain' = [drain EXCEPT ![d].pc = "ready"]
  /\ UNCHANGED <<slot, turn, waits, reg, watch, wreg, stop, park, shown, agents, faults>>

WakeText(d) ==
  /\ drain[d].pc = "ready"
  /\ drain' = [drain EXCEPT ![d] = [pc |-> "idle", wake |-> TRUE]]
  /\ slot' = IF drain[d].wake THEN slot ELSE d
  /\ UNCHANGED <<turn, waits, reg, watch, wreg, stop, park, shown, agents, faults>>

\* Mutant of Settles: a last follow-up that says nothing releases nothing.
SettlesWorthy(worth, s) == IF worth THEN park' = (Count > 0) ELSE UNCHANGED park

\* A follow-up's result; worth: it says something.
Settles(worth, s) ==
  IF worth THEN park' = (Count > 0)
  ELSE IF Count = 0 THEN Flush(s) ELSE UNCHANGED park

WakeResult(d, worth) ==
  /\ drain[d].pc = "ready"
  /\ drain' = [drain EXCEPT ![d] = [pc |-> "idle", wake |-> FALSE]]
  /\ slot' = IF drain[d].wake THEN Closed(d) ELSE None
  /\ IF work > 0 THEN \E w \in Watchers : StartWatcher(w) ELSE UNCHANGED <<watch, wreg>>
  /\ Settles(worth, slot')
  /\ owed' = IF owed > 0 THEN owed - 1 ELSE 0
  /\ UNCHANGED <<turn, waits, reg, stop, shown, cli, work, lost, faults>>

\* The drain ends by itself: the CLI has exited, or sent what cannot be read.
DrainEnds(d) ==
  /\ \/ drain[d].pc \in {"created", "idle"} /\ ~cli /\ UNCHANGED faults
     \/ drain[d].pc = "idle" /\ cli /\ faults' = faults \cup {"bad message"}
  /\ drain' = [drain EXCEPT ![d] = NoDrain]
  /\ slot' = Closed(d)
  /\ Flush(slot')
  /\ UNCHANGED <<turn, waits, reg, watch, wreg, stop, shown, agents>>

DrainUnwinds(d) ==
  /\ drain[d].pc = "doomed"
  /\ drain' = [drain EXCEPT ![d] = NoDrain]
  /\ slot' = Closed(d)
  /\ UNCHANGED <<turn, waits, reg, watch, wreg, stop, park, shown, agents, faults>>

-----------------------------------------------------------------------------
(* Watchers *)

\* Mutant of Leaves: the watcher that saw no work leaves the announce too.
LeavesAny(saw) == IF LiveDrain THEN UNCHANGED park ELSE Flush(slot)

\* watch's finally: a watcher that saw work leaves the announce to a live drain.
Leaves(saw) == IF saw /\ LiveDrain THEN UNCHANGED park ELSE Flush(slot)

WatchSees(w) ==
  /\ watch[w] \in {"created", "poll"} /\ Count > 0
  /\ watch' = [watch EXCEPT ![w] = "poll"]
  /\ shown' = TRUE
  /\ UNCHANGED <<slot, turn, waits, drain, reg, wreg, stop, park, agents, faults>>

\* Mutant of WatchEnds: a deadline leaves the count as it was shown.
WatchEndsQuiet(w) ==
  /\ \/ watch[w] = "created" /\ Count = 0
     \/ watch[w] = "poll"
  /\ watch' = [watch EXCEPT ![w] = "off"]
  /\ wreg' = IF wreg = w THEN None ELSE wreg
  /\ shown' = (Count > 0)
  /\ Leaves(watch[w] = "poll")
  /\ UNCHANGED <<slot, turn, waits, drain, reg, stop, agents, faults>>

WatchEnds(w) ==
  /\ \/ watch[w] = "created" /\ Count = 0
     \/ watch[w] = "poll"                \* Count = 0, or the deadline has come
  /\ watch' = [watch EXCEPT ![w] = "off"]
  /\ wreg' = IF wreg = w THEN None ELSE wreg
  /\ shown' = FALSE
  /\ Leaves(watch[w] = "poll")
  /\ UNCHANGED <<slot, turn, waits, drain, reg, stop, agents, faults>>

\* watch_inner's return without the session's file.
WatchFinds(w) ==
  /\ watch[w] = "created"
  /\ faults' = faults \cup {"no file"}
  /\ watch' = [watch EXCEPT ![w] = "off"]
  /\ Leaves(FALSE)
  /\ UNCHANGED <<slot, turn, waits, drain, reg, wreg, stop, shown, agents>>

WatchUnwinds(w) ==
  /\ watch[w] = "doomed"
  /\ watch' = [watch EXCEPT ![w] = "off"]
  /\ IF wreg = None THEN Leaves(TRUE) ELSE UNCHANGED park
  /\ UNCHANGED <<slot, turn, waits, drain, reg, wreg, stop, shown, agents, faults>>

-----------------------------------------------------------------------------
(* Stop, the idle sweep, and the CLI with its agents *)

\* stop_chat while a follow-up streams
StopWake ==
  /\ slot \in Drains
  /\ IF LiveDrain THEN stop = None /\ stop' = reg /\ UNCHANGED park
                  ELSE Flush(slot) /\ UNCHANGED stop
  /\ drain' = Cancelled
  /\ reg' = None
  /\ UNCHANGED <<slot, turn, waits, watch, wreg, shown, agents, faults>>

StopReturns ==
  /\ stop # None /\ drain[stop].pc = "off"
  /\ stop' = None
  /\ Flush(slot)
  /\ UNCHANGED <<slot, turn, waits, drain, reg, watch, wreg, shown, agents, faults>>

\* reap_idle_providers.  The idle time is far longer than the CLI needs to answer
\* an agent that has ended.
Reap ==
  /\ cli /\ slot = None /\ ~shown /\ ~Watching /\ work = 0 /\ owed = 0
  /\ cli' = FALSE
  /\ drain' = Cancelled
  /\ UNCHANGED <<slot, turn, waits, reg, watch, wreg, stop, park, shown, work, lost, owed, faults>>

Running == \E t \in Turns : turn[t] = "runs"
Streaming == \E d \in Drains : drain[d].wake

AgentStarts ==
  /\ cli /\ (Running \/ Streaming) /\ Count + owed < MaxWork
  /\ work' = work + 1
  /\ UNCHANGED <<slot, tasks, park, shown, cli, lost, owed, faults>>

AgentEnds ==
  /\ work > 0
  /\ work' = work - 1 /\ owed' = owed + 1
  /\ UNCHANGED <<slot, tasks, park, shown, cli, lost, faults>>

\* The transcript of a lost agent has been silent for long enough.
LostEnds ==
  /\ lost > 0
  /\ lost' = lost - 1
  /\ UNCHANGED <<slot, tasks, park, shown, cli, work, owed, faults>>

\* An agent that ends during a turn or a follow-up may be answered in it.
Folds ==
  /\ \/ Running /\ owed > 0
     \/ Streaming /\ owed > 1
  /\ owed' = owed - 1
  /\ UNCHANGED <<slot, tasks, park, shown, cli, work, lost, faults>>

CliExits ==
  /\ cli
  /\ cli' = FALSE /\ owed' = 0
  /\ work' = 0 /\ lost' = lost + work
  /\ faults' = IF work > 0 THEN faults \cup {"lost agents"} ELSE faults
  /\ UNCHANGED <<slot, tasks, park, shown>>

DrainStep(d) == DrainBegins(d) \/ EventComes(d) \/ WakeText(d)
                \/ (\E worth \in BOOLEAN : WakeResult(d, worth)) \/ DrainEnds(d) \/ DrainUnwinds(d)

Next ==
  \/ \E t \in Turns : Send(t) \/ TurnBegins(t) \/ TurnGoesOn(t)
                      \/ \E interim \in BOOLEAN : TurnEnds(t, interim)
  \/ \E d \in Drains : DrainStep(d)
  \/ \E w \in Watchers : WatchSees(w) \/ WatchEnds(w) \/ WatchFinds(w) \/ WatchUnwinds(w)
  \/ StopWake \/ StopReturns \/ Reap
  \/ AgentStarts \/ AgentEnds \/ LostEnds \/ Folds \/ CliExits

Spec == Init /\ [][Next]_vars

\* Tasks run, turns end, agents come to an end, and the CLI answers those that
\* it owes an answer, each answer coming to its result.
FairSpec ==
  /\ Spec
  /\ \A t \in Turns : /\ WF_vars(TurnBegins(t) \/ TurnGoesOn(t))
                      /\ WF_vars(\E interim \in BOOLEAN : TurnEnds(t, interim))
  /\ \A d \in Drains : /\ WF_vars(DrainBegins(d)) /\ WF_vars(EventComes(d))
                       /\ SF_vars(\E worth \in BOOLEAN : WakeResult(d, worth))
                       /\ WF_vars(~cli /\ DrainEnds(d)) /\ WF_vars(DrainUnwinds(d))
  /\ \A w \in Watchers : WF_vars(WatchSees(w)) /\ WF_vars(Count = 0 /\ WatchEnds(w)) /\ WF_vars(WatchUnwinds(w))
  /\ WF_vars(StopReturns) /\ WF_vars(AgentEnds \/ LostEnds)

-----------------------------------------------------------------------------
TypeOK ==
  /\ slot \in Turns \cup Drains \cup {None}
  /\ turn \in [Turns -> {"off", "created", "unwinds", "runs"}]
  /\ waits \in [Turns -> Drains \cup {None}]
  /\ drain \in [Drains -> Drain]
  /\ watch \in [Watchers -> {"off", "created", "poll", "doomed"}]
  /\ reg \in Drains \cup {None} /\ stop \in Drains \cup {None}
  /\ wreg \in Watchers \cup {None}
  /\ park \in BOOLEAN /\ shown \in BOOLEAN /\ cli \in BOOLEAN
  /\ work \in Nat /\ lost \in Nat /\ owed \in Nat
  /\ faults \subseteq Faults

\* One drain reads the CLI's pipe and one watcher polls the session, whatever
\* turns, stops and follow-ups start them in whatever order.
OnePerChat ==
  /\ \A d \in Drains : Reads(d) => d = reg
  /\ \A w \in Watchers : watch[w] \in {"created", "poll"} => w = wreg

\* The stream in the broker has a task that will finish it, so no client waits
\* on a stream that nobody ends and no send is turned away by a turn that is over.
SlotOwned ==
  /\ slot \in Turns => turn[slot] # "off"
  /\ slot \in Drains => drain[slot].wake

\* A held announce is somebody's to release: of a turn, which discards it, of a
\* watcher, a Stop, or a drain to which the CLI will still speak.
ParkOwned ==
  park /\ "lost agents" \notin faults =>
    \/ \E t \in Turns : turn[t] # "off"
    \/ Watching
    \/ stop # None
    \/ reg # None /\ Reads(reg) /\ (cli => work + owed > 0)

\* A badge that says agents are at work has a watcher that will clear it.
BadgeWatched == shown => Watching \/ "no file" \in faults

\* The announce of an interim result is not held for ever, once the user and the
\* agents start nothing new.
Calm == <>[][~AgentStarts /\ \A t \in Turns : ~Send(t)]_vars
ParkReleased == Calm => (park ~> ~park \/ "lost agents" \in faults)

-----------------------------------------------------------------------------
(* What the docs say and the code does not do *)

\* The broker's stream is the turn's while one runs (drain_between_turns:
\* ``events that arrive while no user turn is active'').
TurnKeepsSlot == \A t \in Turns : turn[t] # "off" => slot = t

\* A turn does not read beside a drain (drain_events: ``must not run
\* concurrently''; await_between_turns_drain: ``has fully unwound'').
TurnReadsAlone == Running => \A d \in Drains : drain[d].pc = "off"

\* Between turns the pipe is read (drain_events: ``keeps the pipe drained'').
PipeDrained ==
  /\ cli /\ owed > 0 /\ faults = {}
  /\ \A t \in Turns : turn[t] = "off"
  /\ stop = None
  => LiveDrain

\* No announce is held with nobody left to release it (_flush_result_announce's
\* comment: ``Every other exit releases it here'').
NoneStranded ==
  park /\ cli => Watching \/ stop # None \/ work + owed > 0 \/ \E t \in Turns : turn[t] # "off"

\* A badge always comes down (watch_inner: not ``a badge that can never clear'').
BadgeClears == shown => Watching
=============================================================================
