-------------------------- MODULE BetweenTurnsProofs --------------------------
(***************************************************************************)
(* Proofs about BetweenTurns, for any turns, drains, watchers and agents.  *)
(***************************************************************************)
EXTENDS BetweenTurns, TLAPS

Quiet == \A t \in Turns : turn[t] = "off"

\* A drain that is off has no stream open.
NoStream == \A d \in Drains : drain[d].pc = "off" => ~drain[d].wake

\* The registered watcher is never a cancelled one.
WatcherKept == wreg # None => watch[wreg] # "doomed"

\* Agents work under a live CLI, and only a fault leaves dead ones that count.
AgentsAlive == (~cli => work = 0) /\ ("lost agents" \notin faults => lost = 0)

\* A cancelled drain still registered between turns has no agents behind it and
\* no watcher that saw any.
DoomedIdle ==
  Quiet /\ reg # None /\ drain[reg].pc = "doomed" /\ "lost agents" \notin faults =>
    /\ ~cli
    /\ \A w \in Watchers : watch[w] # "poll"

\* While a watcher that saw work polls between turns, the announce is held for a
\* drain to which the CLI will still speak.
PollHeard ==
  /\ Quiet /\ park /\ "lost agents" \notin faults
  /\ reg # None /\ Reads(reg) /\ cli
  /\ \E w \in Watchers : watch[w] = "poll"
  => work + owed > 0

Inv ==
  /\ TypeOK /\ NoStream /\ WatcherKept /\ AgentsAlive /\ DoomedIdle /\ PollHeard
  /\ OnePerChat /\ SlotOwned /\ ParkOwned /\ BadgeWatched

-----------------------------------------------------------------------------
(* What starting and cancelling tasks do *)

LEMMA Apart ==
  /\ Turns \cap Drains = {} /\ None \notin Turns /\ None \notin Drains
  /\ None \notin Watchers /\ MaxWork \in Nat
  BY BetweenAssumption

\* Cancelling dooms the registered drain and nothing else.
LEMMA CancelledDrains ==
  ASSUME TypeOK
  PROVE  /\ Cancelled \in [Drains -> Drain]
         /\ \A d \in Drains : /\ Cancelled[d].wake = drain[d].wake
                              /\ (Cancelled[d].pc = "off") <=> (drain[d].pc = "off")
                              /\ d # reg => Cancelled[d] = drain[d]
                              /\ d = reg => Cancelled[d].pc \in {"off", "doomed"}
<1>1. drain \in [Drains -> Drain] /\ reg \in Drains \cup {None} /\ None \notin Drains
  BY Apart DEF TypeOK
<1>2. CASE ~LiveDrain
  <2>1. Cancelled = drain
    BY <1>2 DEF Cancelled
  <2>2. \A d \in Drains : d = reg => drain[d].pc = "off"
    BY <1>1, <1>2 DEF LiveDrain
  <2> QED BY <1>1, <2>1, <2>2
<1>3. CASE LiveDrain
  <2>1. reg \in Drains /\ drain[reg].pc # "off"
    BY <1>1, <1>3 DEF LiveDrain
  <2>2. Cancelled = [drain EXCEPT ![reg] = [drain[reg] EXCEPT !.pc = "doomed"]]
    BY <1>3 DEF Cancelled
  <2>3. /\ [drain[reg] EXCEPT !.pc = "doomed"] \in Drain
        /\ [drain[reg] EXCEPT !.pc = "doomed"].wake = drain[reg].wake
        /\ [drain[reg] EXCEPT !.pc = "doomed"].pc = "doomed"
    BY <1>1, <2>1 DEF Drain
  <2> QED BY <1>1, <2>1, <2>2, <2>3
<1> QED BY <1>2, <1>3

\* A drain starts as the only one that reads.
LEMMA DrainStarts ==
  ASSUME TypeOK, OnePerChat, NEW d \in Drains, StartDrain(d)
  PROVE  /\ drain' \in [Drains -> Drain] /\ reg' = d
         /\ drain[d].pc = "off" /\ drain'[d] = [pc |-> "created", wake |-> FALSE]
         /\ \A e \in Drains \ {d} : /\ drain'[e].wake = drain[e].wake
                                    /\ (drain'[e].pc = "off") <=> (drain[e].pc = "off")
                                    /\ drain'[e].pc \in {"off", "doomed"}
<1> DEFINE C == Cancelled
<1>1. /\ drain' = [C EXCEPT ![d] = [pc |-> "created", wake |-> FALSE]]
      /\ drain[d].pc = "off" /\ reg' = d
  BY DEF StartDrain
<1>2. [pc |-> "created", wake |-> FALSE] \in Drain
  BY DEF Drain
<1>3. \A e \in Drains : e # reg => drain[e].pc \in {"off", "doomed"}
  BY DEF OnePerChat, Reads, TypeOK, Drain
<1>4. /\ C \in [Drains -> Drain]
      /\ \A e \in Drains : /\ C[e].wake = drain[e].wake
                           /\ (C[e].pc = "off") <=> (drain[e].pc = "off")
                           /\ e # reg => C[e] = drain[e]
                           /\ e = reg => C[e].pc \in {"off", "doomed"}
  BY CancelledDrains
<1> HIDE DEF C
<1>5. /\ drain' \in [Drains -> Drain]
      /\ drain'[d] = [pc |-> "created", wake |-> FALSE]
      /\ \A e \in Drains \ {d} : drain'[e] = C[e]
  BY <1>1, <1>2, <1>4
<1>6. \A e \in Drains : C[e].pc \in {"off", "doomed"}
  BY <1>3, <1>4
<1> QED BY <1>1, <1>4, <1>5, <1>6

\* A watcher starts as the only one that polls.
LEMMA WatcherStarts ==
  ASSUME TypeOK, OnePerChat, NEW w \in Watchers, StartWatcher(w)
  PROVE  /\ watch' \in [Watchers -> {"off", "created", "poll", "doomed"}]
         /\ wreg' = w /\ watch'[w] = "created"
         /\ \A v \in Watchers \ {w} : watch'[v] \in {"off", "doomed"}
  BY DEF StartWatcher, OnePerChat, TypeOK

-----------------------------------------------------------------------------
(* Types *)

\* A step of one drain.
LEMMA DrainMoves ==
  ASSUME TypeOK, NEW d \in Drains, NEW p \in {"idle", "ready"}
  PROVE  /\ [drain EXCEPT ![d].pc = p] \in [Drains -> Drain]
         /\ \A b \in BOOLEAN : [drain EXCEPT ![d] = [pc |-> p, wake |-> b]] \in [Drains -> Drain]
         /\ [drain EXCEPT ![d] = NoDrain] \in [Drains -> Drain]
<1>1. drain \in [Drains -> Drain]
  BY DEF TypeOK
<1>2. [drain[d] EXCEPT !.pc = p] \in Drain /\ NoDrain \in Drain
  BY <1>1 DEF Drain, NoDrain
<1>3. \A b \in BOOLEAN : [pc |-> p, wake |-> b] \in Drain
  BY DEF Drain
<1>4. [drain EXCEPT ![d].pc = p] = [drain EXCEPT ![d] = [drain[d] EXCEPT !.pc = p]]
  OBVIOUS
<1> QED BY <1>1, <1>2, <1>3, <1>4

\* Every step keeps the types.
LEMMA TypeStep ==
  ASSUME TypeOK, OnePerChat, [Next]_vars
  PROVE  TypeOK'
<1>1. ASSUME NEW t \in Turns, Send(t) PROVE TypeOK'
  BY <1>1, CancelledDrains DEF Send, TypeOK, agents
<1>2. ASSUME NEW t \in Turns, TurnBegins(t) PROVE TypeOK'
  BY <1>2, CancelledDrains DEF TurnBegins, TypeOK
<1>3. ASSUME NEW t \in Turns, TurnGoesOn(t) PROVE TypeOK'
  BY <1>3 DEF TurnGoesOn, TypeOK, tasks, agents
<1>4. ASSUME NEW t \in Turns, NEW interim \in BOOLEAN, TurnEnds(t, interim) PROVE TypeOK'
  <2>1. PICK w \in Watchers : StartWatcher(w)
    BY <1>4 DEF TurnEnds
  <2>2. /\ watch' \in [Watchers -> {"off", "created", "poll", "doomed"}]
        /\ wreg' \in Watchers
    BY <2>1, WatcherStarts
  <2>3. drain' \in [Drains -> Drain] /\ reg' \in Drains \cup {None}
    BY <1>4, DrainStarts DEF TurnEnds, TypeOK
  <2> QED BY <1>4, <2>2, <2>3 DEF TurnEnds, TypeOK, agents
<1>5. ASSUME NEW d \in Drains, DrainBegins(d) PROVE TypeOK'
  BY <1>5, DrainMoves DEF DrainBegins, TypeOK, agents
<1>6. ASSUME NEW d \in Drains, EventComes(d) PROVE TypeOK'
  BY <1>6, DrainMoves DEF EventComes, TypeOK, agents
<1>7. ASSUME NEW d \in Drains, WakeText(d) PROVE TypeOK'
  BY <1>7, DrainMoves DEF WakeText, TypeOK, agents
<1>8. ASSUME NEW d \in Drains, NEW worth \in BOOLEAN, WakeResult(d, worth) PROVE TypeOK'
  <2>1. /\ watch' \in [Watchers -> {"off", "created", "poll", "doomed"}]
        /\ wreg' \in Watchers \cup {None}
    BY <1>8, WatcherStarts DEF WakeResult, TypeOK
  <2>2. drain' \in [Drains -> Drain]
    BY <1>8, DrainMoves DEF WakeResult
  <2>3. slot' \in Turns \cup Drains \cup {None}
    BY <1>8 DEF WakeResult, Closed, TypeOK
  <2>4. park' \in BOOLEAN
    <3> DEFINE some == Count > 0
    <3>1. park' = some \/ park' = (park /\ slot' \in Turns) \/ park' = park
      BY <1>8 DEF WakeResult, Settles, Flush
    <3> HIDE DEF some
    <3>2. some \in BOOLEAN
      BY DEF some
    <3> QED BY <3>1, <3>2 DEF TypeOK
  <2>5. owed' \in Nat
    BY <1>8 DEF WakeResult, TypeOK
  <2> QED BY <1>8, <2>1, <2>2, <2>3, <2>4, <2>5 DEF WakeResult, TypeOK
<1>9. ASSUME NEW d \in Drains, DrainEnds(d) PROVE TypeOK'
  <2>1. drain' \in [Drains -> Drain]
    BY <1>9, DrainMoves DEF DrainEnds
  <2>2. slot' \in Turns \cup Drains \cup {None}
    BY <1>9 DEF DrainEnds, Closed, TypeOK
  <2> QED BY <1>9, <2>1, <2>2 DEF DrainEnds, Flush, TypeOK, agents, Faults
<1>10. ASSUME NEW d \in Drains, DrainUnwinds(d) PROVE TypeOK'
  <2>1. drain' \in [Drains -> Drain]
    BY <1>10, DrainMoves DEF DrainUnwinds
  <2>2. slot' \in Turns \cup Drains \cup {None}
    BY <1>10 DEF DrainUnwinds, Closed, TypeOK
  <2> QED BY <1>10, <2>1, <2>2 DEF DrainUnwinds, Flush, TypeOK, agents
<1>11. ASSUME NEW w \in Watchers, WatchSees(w) PROVE TypeOK'
  BY <1>11 DEF WatchSees, TypeOK, tasks, agents
<1>12. ASSUME NEW w \in Watchers, WatchEnds(w) PROVE TypeOK'
  BY <1>12 DEF WatchEnds, Leaves, Flush, TypeOK, agents, Faults
<1>13. ASSUME NEW w \in Watchers, WatchFinds(w) PROVE TypeOK'
  BY <1>13 DEF WatchFinds, Leaves, Flush, TypeOK, agents, Faults
<1>14. ASSUME NEW w \in Watchers, WatchUnwinds(w) PROVE TypeOK'
  BY <1>14 DEF WatchUnwinds, Leaves, Flush, TypeOK, agents, Faults
<1>15. CASE StopWake
  BY <1>15, CancelledDrains DEF StopWake, LiveDrain, Flush, TypeOK, agents
<1>16. CASE StopReturns
  BY <1>16 DEF StopReturns, Flush, TypeOK, agents
<1>17. CASE Reap
  BY <1>17, CancelledDrains DEF Reap, TypeOK
<1>18. CASE AgentStarts
  BY <1>18 DEF AgentStarts, TypeOK, tasks, agents
<1>19. CASE AgentEnds
  BY <1>19 DEF AgentEnds, TypeOK, tasks, agents
<1>20. CASE LostEnds
  BY <1>20 DEF LostEnds, TypeOK, tasks, agents
<1>21. CASE Folds
  BY <1>21 DEF Folds, TypeOK, tasks, agents
<1>22. CASE CliExits
  <2>1. faults' \subseteq Faults
    BY <1>22 DEF CliExits, TypeOK, Faults
  <2>2. work' = 0 /\ lost' = lost + work /\ owed' = 0 /\ cli' = FALSE
    BY <1>22 DEF CliExits
  <2>3. lost' \in Nat
    BY <2>2 DEF TypeOK
  <2>4. UNCHANGED <<slot, tasks, park, shown>>
    BY <1>22 DEF CliExits
  <2> QED BY <2>1, <2>2, <2>3, <2>4 DEF TypeOK, tasks
<1>23. CASE UNCHANGED vars
  BY <1>23 DEF vars, TypeOK, tasks, agents
<1> QED BY <1>1, <1>2, <1>3, <1>4, <1>5, <1>6, <1>7, <1>8, <1>9, <1>10, <1>11, <1>12, <1>13, <1>14, <1>15, <1>16, <1>17, <1>18, <1>19, <1>20, <1>21, <1>22, <1>23 DEF Next, DrainStep

-----------------------------------------------------------------------------
(* Tasks and streams *)

\* One drain and one watcher, in every step.
LEMMA OneStep ==
  ASSUME TypeOK, OnePerChat, [Next]_vars
  PROVE  OnePerChat'
<1>1. ASSUME NEW t \in Turns, Send(t) PROVE OnePerChat'
  BY <1>1, CancelledDrains DEF Send, OnePerChat, Reads
<1>2. ASSUME NEW t \in Turns, TurnBegins(t) PROVE OnePerChat'
  BY <1>2, CancelledDrains DEF TurnBegins, OnePerChat, Reads
<1>3. ASSUME NEW t \in Turns, TurnGoesOn(t) PROVE OnePerChat'
  BY <1>3 DEF TurnGoesOn, OnePerChat, Reads
<1>4. ASSUME NEW t \in Turns, NEW interim \in BOOLEAN, TurnEnds(t, interim) PROVE OnePerChat'
  <2>1. PICK w \in Watchers : StartWatcher(w)
    BY <1>4 DEF TurnEnds
  <2>2. \A v \in Watchers : watch'[v] \in {"created", "poll"} => v = wreg'
    BY <2>1, WatcherStarts
  <2>3. CASE cli
    <3>1. PICK d \in Drains : StartDrain(d)
      BY <1>4, <2>3 DEF TurnEnds
    <3>2. \A e \in Drains : Reads(e)' => e = reg'
      BY <3>1, DrainStarts DEF Reads
    <3> QED BY <2>2, <3>2 DEF OnePerChat
  <2>4. CASE ~cli
    BY <1>4, <2>2, <2>4 DEF TurnEnds, OnePerChat, Reads
  <2> QED BY <2>3, <2>4
<1>5. ASSUME NEW d \in Drains, DrainBegins(d) PROVE OnePerChat'
  BY <1>5 DEF DrainBegins, TypeOK, Drain, NoDrain, OnePerChat, Reads
<1>6. ASSUME NEW d \in Drains, EventComes(d) PROVE OnePerChat'
  BY <1>6 DEF EventComes, TypeOK, Drain, NoDrain, OnePerChat, Reads
<1>7. ASSUME NEW d \in Drains, WakeText(d) PROVE OnePerChat'
  BY <1>7 DEF WakeText, TypeOK, Drain, NoDrain, OnePerChat, Reads
<1>8. ASSUME NEW d \in Drains, NEW worth \in BOOLEAN, WakeResult(d, worth) PROVE OnePerChat'
  <2>1. \A v \in Watchers : watch'[v] \in {"created", "poll"} => v = wreg'
    BY <1>8, WatcherStarts DEF WakeResult, OnePerChat
  <2>2. \A e \in Drains : Reads(e)' => e = reg'
    BY <1>8 DEF WakeResult, TypeOK, OnePerChat, Reads
  <2> QED BY <2>1, <2>2 DEF OnePerChat
<1>9. ASSUME NEW d \in Drains, DrainEnds(d) PROVE OnePerChat'
  BY <1>9 DEF DrainEnds, TypeOK, Drain, NoDrain, OnePerChat, Reads
<1>10. ASSUME NEW d \in Drains, DrainUnwinds(d) PROVE OnePerChat'
  BY <1>10 DEF DrainUnwinds, TypeOK, Drain, NoDrain, OnePerChat, Reads
<1>11. ASSUME NEW w \in Watchers, WatchSees(w) PROVE OnePerChat'
  BY <1>11 DEF WatchSees, TypeOK, OnePerChat, Reads
<1>12. ASSUME NEW w \in Watchers, WatchEnds(w) PROVE OnePerChat'
  BY <1>12 DEF WatchEnds, TypeOK, OnePerChat, Reads
<1>13. ASSUME NEW w \in Watchers, WatchFinds(w) PROVE OnePerChat'
  BY <1>13 DEF WatchFinds, TypeOK, OnePerChat, Reads
<1>14. ASSUME NEW w \in Watchers, WatchUnwinds(w) PROVE OnePerChat'
  BY <1>14 DEF WatchUnwinds, TypeOK, OnePerChat, Reads
<1>15. CASE StopWake
  BY <1>15, CancelledDrains DEF StopWake, LiveDrain, TypeOK, OnePerChat, Reads
<1>16. CASE StopReturns
  BY <1>16 DEF StopReturns, OnePerChat, Reads, tasks
<1>17. CASE Reap
  BY <1>17, CancelledDrains DEF Reap, OnePerChat, Reads
<1>18. CASE AgentStarts
  BY <1>18 DEF AgentStarts, OnePerChat, Reads, tasks
<1>19. CASE AgentEnds
  BY <1>19 DEF AgentEnds, OnePerChat, Reads, tasks
<1>20. CASE LostEnds
  BY <1>20 DEF LostEnds, OnePerChat, Reads, tasks
<1>21. CASE Folds
  BY <1>21 DEF Folds, OnePerChat, Reads, tasks
<1>22. CASE CliExits
  BY <1>22 DEF CliExits, OnePerChat, Reads, tasks
<1>23. CASE UNCHANGED vars
  BY <1>23 DEF vars, OnePerChat, Reads, tasks
<1> QED BY <1>1, <1>2, <1>3, <1>4, <1>5, <1>6, <1>7, <1>8, <1>9, <1>10, <1>11, <1>12, <1>13, <1>14, <1>15, <1>16, <1>17, <1>18, <1>19, <1>20, <1>21, <1>22, <1>23 DEF Next, DrainStep

\* The registered watcher is not cancelled.
LEMMA KeptStep ==
  ASSUME TypeOK, OnePerChat, WatcherKept, [Next]_vars
  PROVE  WatcherKept'
<1>1. ASSUME NEW t \in Turns, Send(t) PROVE WatcherKept'
  BY <1>1 DEF Send, WatcherKept, tasks
<1>2. ASSUME NEW t \in Turns, TurnBegins(t) PROVE WatcherKept'
  BY <1>2 DEF TurnBegins, WatcherKept, tasks
<1>3. ASSUME NEW t \in Turns, TurnGoesOn(t) PROVE WatcherKept'
  BY <1>3 DEF TurnGoesOn, WatcherKept, tasks
<1>4. ASSUME NEW t \in Turns, NEW interim \in BOOLEAN, TurnEnds(t, interim) PROVE WatcherKept'
  BY <1>4, WatcherStarts, Apart DEF TurnEnds, WatcherKept
<1>5. ASSUME NEW d \in Drains, DrainBegins(d) PROVE WatcherKept'
  BY <1>5 DEF DrainBegins, WatcherKept, tasks
<1>6. ASSUME NEW d \in Drains, EventComes(d) PROVE WatcherKept'
  BY <1>6 DEF EventComes, WatcherKept, tasks
<1>7. ASSUME NEW d \in Drains, WakeText(d) PROVE WatcherKept'
  BY <1>7 DEF WakeText, WatcherKept, tasks
<1>8. ASSUME NEW d \in Drains, NEW worth \in BOOLEAN, WakeResult(d, worth) PROVE WatcherKept'
  BY <1>8, WatcherStarts, Apart DEF WakeResult, WatcherKept
<1>9. ASSUME NEW d \in Drains, DrainEnds(d) PROVE WatcherKept'
  BY <1>9 DEF DrainEnds, WatcherKept, tasks
<1>10. ASSUME NEW d \in Drains, DrainUnwinds(d) PROVE WatcherKept'
  BY <1>10 DEF DrainUnwinds, WatcherKept, tasks
<1>11. ASSUME NEW w \in Watchers, WatchSees(w) PROVE WatcherKept'
  BY <1>11 DEF WatchSees, TypeOK, WatcherKept
<1>12. ASSUME NEW w \in Watchers, WatchEnds(w) PROVE WatcherKept'
  BY <1>12 DEF WatchEnds, TypeOK, WatcherKept
<1>13. ASSUME NEW w \in Watchers, WatchFinds(w) PROVE WatcherKept'
  BY <1>13 DEF WatchFinds, TypeOK, WatcherKept
<1>14. ASSUME NEW w \in Watchers, WatchUnwinds(w) PROVE WatcherKept'
  BY <1>14 DEF WatchUnwinds, TypeOK, WatcherKept
<1>15. CASE StopWake
  BY <1>15 DEF StopWake, WatcherKept, tasks
<1>16. CASE StopReturns
  BY <1>16 DEF StopReturns, WatcherKept, tasks
<1>17. CASE Reap
  BY <1>17 DEF Reap, WatcherKept, tasks
<1>18. CASE AgentStarts
  BY <1>18 DEF AgentStarts, WatcherKept, tasks
<1>19. CASE AgentEnds
  BY <1>19 DEF AgentEnds, WatcherKept, tasks
<1>20. CASE LostEnds
  BY <1>20 DEF LostEnds, WatcherKept, tasks
<1>21. CASE Folds
  BY <1>21 DEF Folds, WatcherKept, tasks
<1>22. CASE CliExits
  BY <1>22 DEF CliExits, WatcherKept, tasks
<1>23. CASE UNCHANGED vars
  BY <1>23 DEF vars, WatcherKept, tasks
<1> QED BY <1>1, <1>2, <1>3, <1>4, <1>5, <1>6, <1>7, <1>8, <1>9, <1>10, <1>11, <1>12, <1>13, <1>14, <1>15, <1>16, <1>17, <1>18, <1>19, <1>20, <1>21, <1>22, <1>23 DEF Next, DrainStep

\* A badge keeps its watcher.
LEMMA BadgeStep ==
  ASSUME TypeOK, OnePerChat, WatcherKept, BadgeWatched, [Next]_vars
  PROVE  BadgeWatched'
<1>1. ASSUME NEW t \in Turns, Send(t) PROVE BadgeWatched'
  BY <1>1 DEF Send, BadgeWatched, Watching, tasks
<1>2. ASSUME NEW t \in Turns, TurnBegins(t) PROVE BadgeWatched'
  BY <1>2 DEF TurnBegins, BadgeWatched, Watching, tasks
<1>3. ASSUME NEW t \in Turns, TurnGoesOn(t) PROVE BadgeWatched'
  BY <1>3 DEF TurnGoesOn, BadgeWatched, Watching, tasks
<1>4. ASSUME NEW t \in Turns, NEW interim \in BOOLEAN, TurnEnds(t, interim) PROVE BadgeWatched'
  BY <1>4, WatcherStarts, Apart DEF TurnEnds, agents, BadgeWatched, Watching
<1>5. ASSUME NEW d \in Drains, DrainBegins(d) PROVE BadgeWatched'
  BY <1>5 DEF DrainBegins, BadgeWatched, Watching, tasks
<1>6. ASSUME NEW d \in Drains, EventComes(d) PROVE BadgeWatched'
  BY <1>6 DEF EventComes, BadgeWatched, Watching, tasks
<1>7. ASSUME NEW d \in Drains, WakeText(d) PROVE BadgeWatched'
  BY <1>7 DEF WakeText, BadgeWatched, Watching, tasks
<1>8. ASSUME NEW d \in Drains, NEW worth \in BOOLEAN, WakeResult(d, worth) PROVE BadgeWatched'
  BY <1>8, WatcherStarts, Apart DEF WakeResult, BadgeWatched, Watching
<1>9. ASSUME NEW d \in Drains, DrainEnds(d) PROVE BadgeWatched'
  BY <1>9 DEF DrainEnds, BadgeWatched, Watching, tasks
<1>10. ASSUME NEW d \in Drains, DrainUnwinds(d) PROVE BadgeWatched'
  BY <1>10 DEF DrainUnwinds, BadgeWatched, Watching, tasks
<1>11. ASSUME NEW w \in Watchers, WatchSees(w) PROVE BadgeWatched'
  BY <1>11, Apart DEF WatchSees, TypeOK, OnePerChat, BadgeWatched, Watching
<1>12. ASSUME NEW w \in Watchers, WatchEnds(w) PROVE BadgeWatched'
  BY <1>12, Apart DEF WatchEnds, TypeOK, OnePerChat, BadgeWatched, Watching
<1>13. ASSUME NEW w \in Watchers, WatchFinds(w) PROVE BadgeWatched'
  BY <1>13, Apart DEF WatchFinds, TypeOK, OnePerChat, BadgeWatched, Watching
<1>14. ASSUME NEW w \in Watchers, WatchUnwinds(w) PROVE BadgeWatched'
  BY <1>14 DEF WatchUnwinds, TypeOK, WatcherKept, BadgeWatched, Watching
<1>15. CASE StopWake
  BY <1>15 DEF StopWake, BadgeWatched, Watching, tasks
<1>16. CASE StopReturns
  BY <1>16 DEF StopReturns, BadgeWatched, Watching, tasks
<1>17. CASE Reap
  BY <1>17 DEF Reap, BadgeWatched, Watching, tasks
<1>18. CASE AgentStarts
  BY <1>18 DEF AgentStarts, BadgeWatched, Watching, tasks
<1>19. CASE AgentEnds
  BY <1>19 DEF AgentEnds, BadgeWatched, Watching, tasks
<1>20. CASE LostEnds
  BY <1>20 DEF LostEnds, BadgeWatched, Watching, tasks
<1>21. CASE Folds
  BY <1>21 DEF Folds, BadgeWatched, Watching, tasks
<1>22. CASE CliExits
  BY <1>22 DEF CliExits, BadgeWatched, Watching, tasks
<1>23. CASE UNCHANGED vars
  BY <1>23 DEF vars, BadgeWatched, Watching, tasks
<1> QED BY <1>1, <1>2, <1>3, <1>4, <1>5, <1>6, <1>7, <1>8, <1>9, <1>10, <1>11, <1>12, <1>13, <1>14, <1>15, <1>16, <1>17, <1>18, <1>19, <1>20, <1>21, <1>22, <1>23 DEF Next, DrainStep

StreamsOwned == NoStream /\ SlotOwned

\* The stream in the broker has its task.
LEMMA StreamStep ==
  ASSUME TypeOK, OnePerChat, StreamsOwned, [Next]_vars
  PROVE  StreamsOwned'
<1>1. ASSUME NEW t \in Turns, Send(t) PROVE StreamsOwned'
  BY <1>1, CancelledDrains, Apart DEF Send, TypeOK, StreamsOwned, NoStream, SlotOwned
<1>2. ASSUME NEW t \in Turns, TurnBegins(t) PROVE StreamsOwned'
  BY <1>2, CancelledDrains, Apart DEF TurnBegins, TypeOK, StreamsOwned, NoStream, SlotOwned
<1>3. ASSUME NEW t \in Turns, TurnGoesOn(t) PROVE StreamsOwned'
  BY <1>3 DEF TurnGoesOn, TypeOK, StreamsOwned, NoStream, SlotOwned
<1>4. ASSUME NEW t \in Turns, NEW interim \in BOOLEAN, TurnEnds(t, interim) PROVE StreamsOwned'
  <2>1. slot' \in Turns => turn'[slot'] # "off"
    BY <1>4, Apart DEF TurnEnds, TypeOK, SlotOwned, StreamsOwned
  <2>2. /\ \A d \in Drains : drain'[d].pc = "off" => ~drain'[d].wake
        /\ \A d \in Drains : drain[d].wake => drain'[d].wake
    <3>1. CASE ~cli
      BY <1>4, <3>1 DEF TurnEnds, StreamsOwned, NoStream, SlotOwned
    <3>2. CASE cli
      <4>1. PICK d \in Drains : StartDrain(d)
        BY <1>4, <3>2 DEF TurnEnds
      <4> QED BY <4>1, DrainStarts DEF StreamsOwned, NoStream, SlotOwned
    <3> QED BY <3>1, <3>2
  <2> QED BY <1>4, <2>1, <2>2, Apart DEF TurnEnds, StreamsOwned, NoStream, SlotOwned
<1>5. ASSUME NEW d \in Drains, DrainBegins(d) PROVE StreamsOwned'
  BY <1>5, Apart DEF DrainBegins, TypeOK, Drain, StreamsOwned, NoStream, SlotOwned
<1>6. ASSUME NEW d \in Drains, EventComes(d) PROVE StreamsOwned'
  BY <1>6, Apart DEF EventComes, TypeOK, Drain, StreamsOwned, NoStream, SlotOwned
<1>7. ASSUME NEW d \in Drains, WakeText(d) PROVE StreamsOwned'
  BY <1>7, Apart DEF WakeText, TypeOK, Drain, StreamsOwned, NoStream, SlotOwned
<1>8. ASSUME NEW d \in Drains, NEW worth \in BOOLEAN, WakeResult(d, worth) PROVE StreamsOwned'
  BY <1>8, Apart DEF WakeResult, TypeOK, Closed, NoDrain, StreamsOwned, NoStream, SlotOwned
<1>9. ASSUME NEW d \in Drains, DrainEnds(d) PROVE StreamsOwned'
  BY <1>9, Apart DEF DrainEnds, TypeOK, Closed, NoDrain, StreamsOwned, NoStream, SlotOwned
<1>10. ASSUME NEW d \in Drains, DrainUnwinds(d) PROVE StreamsOwned'
  BY <1>10, Apart DEF DrainUnwinds, TypeOK, Closed, NoDrain, StreamsOwned, NoStream, SlotOwned
<1>11. ASSUME NEW w \in Watchers, WatchSees(w) PROVE StreamsOwned'
  BY <1>11 DEF WatchSees, StreamsOwned, NoStream, SlotOwned, tasks
<1>12. ASSUME NEW w \in Watchers, WatchEnds(w) PROVE StreamsOwned'
  BY <1>12 DEF WatchEnds, StreamsOwned, NoStream, SlotOwned, tasks
<1>13. ASSUME NEW w \in Watchers, WatchFinds(w) PROVE StreamsOwned'
  BY <1>13 DEF WatchFinds, StreamsOwned, NoStream, SlotOwned, tasks
<1>14. ASSUME NEW w \in Watchers, WatchUnwinds(w) PROVE StreamsOwned'
  BY <1>14 DEF WatchUnwinds, StreamsOwned, NoStream, SlotOwned, tasks
<1>15. CASE StopWake
  BY <1>15, CancelledDrains, Apart DEF StopWake, TypeOK, StreamsOwned, NoStream, SlotOwned
<1>16. CASE StopReturns
  BY <1>16 DEF StopReturns, StreamsOwned, NoStream, SlotOwned, tasks
<1>17. CASE Reap
  BY <1>17, CancelledDrains, Apart DEF Reap, TypeOK, StreamsOwned, NoStream, SlotOwned
<1>18. CASE AgentStarts
  BY <1>18 DEF AgentStarts, StreamsOwned, NoStream, SlotOwned, tasks
<1>19. CASE AgentEnds
  BY <1>19 DEF AgentEnds, StreamsOwned, NoStream, SlotOwned, tasks
<1>20. CASE LostEnds
  BY <1>20 DEF LostEnds, StreamsOwned, NoStream, SlotOwned, tasks
<1>21. CASE Folds
  BY <1>21 DEF Folds, StreamsOwned, NoStream, SlotOwned, tasks
<1>22. CASE CliExits
  BY <1>22 DEF CliExits, StreamsOwned, NoStream, SlotOwned, tasks
<1>23. CASE UNCHANGED vars
  BY <1>23 DEF vars, StreamsOwned, NoStream, SlotOwned, tasks
<1> QED BY <1>1, <1>2, <1>3, <1>4, <1>5, <1>6, <1>7, <1>8, <1>9, <1>10, <1>11, <1>12, <1>13, <1>14, <1>15, <1>16, <1>17, <1>18, <1>19, <1>20, <1>21, <1>22, <1>23 DEF Next, DrainStep

\* Agents live with their CLI.
LEMMA AgentStep ==
  ASSUME TypeOK, AgentsAlive, [Next]_vars
  PROVE  AgentsAlive'
<1>1. ASSUME NEW t \in Turns, Send(t) PROVE AgentsAlive'
  BY <1>1 DEF Send, AgentsAlive, agents
<1>2. ASSUME NEW t \in Turns, TurnBegins(t) PROVE AgentsAlive'
  BY <1>2 DEF TurnBegins, TypeOK, AgentsAlive
<1>3. ASSUME NEW t \in Turns, TurnGoesOn(t) PROVE AgentsAlive'
  BY <1>3 DEF TurnGoesOn, TypeOK, AgentsAlive
<1>4. ASSUME NEW t \in Turns, NEW interim \in BOOLEAN, TurnEnds(t, interim) PROVE AgentsAlive'
  BY <1>4 DEF TurnEnds, AgentsAlive, agents
<1>5. ASSUME NEW d \in Drains, DrainBegins(d) PROVE AgentsAlive'
  BY <1>5 DEF DrainBegins, AgentsAlive, agents
<1>6. ASSUME NEW d \in Drains, EventComes(d) PROVE AgentsAlive'
  BY <1>6 DEF EventComes, AgentsAlive, agents
<1>7. ASSUME NEW d \in Drains, WakeText(d) PROVE AgentsAlive'
  BY <1>7 DEF WakeText, AgentsAlive, agents
<1>8. ASSUME NEW d \in Drains, NEW worth \in BOOLEAN, WakeResult(d, worth) PROVE AgentsAlive'
  BY <1>8 DEF WakeResult, TypeOK, AgentsAlive
<1>9. ASSUME NEW d \in Drains, DrainEnds(d) PROVE AgentsAlive'
  BY <1>9 DEF DrainEnds, agents, AgentsAlive
<1>10. ASSUME NEW d \in Drains, DrainUnwinds(d) PROVE AgentsAlive'
  BY <1>10 DEF DrainUnwinds, AgentsAlive, agents
<1>11. ASSUME NEW w \in Watchers, WatchSees(w) PROVE AgentsAlive'
  BY <1>11 DEF WatchSees, AgentsAlive, agents
<1>12. ASSUME NEW w \in Watchers, WatchEnds(w) PROVE AgentsAlive'
  BY <1>12 DEF WatchEnds, AgentsAlive, agents
<1>13. ASSUME NEW w \in Watchers, WatchFinds(w) PROVE AgentsAlive'
  BY <1>13 DEF WatchFinds, agents, AgentsAlive
<1>14. ASSUME NEW w \in Watchers, WatchUnwinds(w) PROVE AgentsAlive'
  BY <1>14 DEF WatchUnwinds, AgentsAlive, agents
<1>15. CASE StopWake
  BY <1>15 DEF StopWake, AgentsAlive, agents
<1>16. CASE StopReturns
  BY <1>16 DEF StopReturns, AgentsAlive, agents
<1>17. CASE Reap
  BY <1>17 DEF Reap, TypeOK, AgentsAlive
<1>18. CASE AgentStarts
  BY <1>18 DEF AgentStarts, TypeOK, AgentsAlive
<1>19. CASE AgentEnds
  <2>1. work # 0
    BY <1>19 DEF AgentEnds, TypeOK
  <2>2. UNCHANGED <<cli, lost, faults>>
    BY <1>19 DEF AgentEnds
  <2> QED BY <2>1, <2>2 DEF AgentsAlive
<1>20. CASE LostEnds
  <2>1. lost # 0
    BY <1>20 DEF LostEnds, TypeOK
  <2>2. UNCHANGED <<cli, work, faults>>
    BY <1>20 DEF LostEnds
  <2> QED BY <2>1, <2>2 DEF AgentsAlive
<1>21. CASE Folds
  BY <1>21 DEF Folds, AgentsAlive, agents
<1>22. CASE CliExits
  <2>1. work' = 0
    BY <1>22 DEF CliExits
  <2>2. CASE work > 0
    BY <1>22, <2>1, <2>2 DEF CliExits, AgentsAlive
  <2>3. CASE work = 0
    <3>1. lost' = lost
      BY <1>22, <2>3 DEF CliExits, TypeOK
    <3>2. faults' = faults
      BY <1>22, <2>3 DEF CliExits
    <3> QED BY <2>1, <3>1, <3>2 DEF AgentsAlive
  <2>4. work > 0 \/ work = 0
    BY DEF TypeOK
  <2> QED BY <2>2, <2>3, <2>4
<1>23. CASE UNCHANGED vars
  BY <1>23 DEF vars, AgentsAlive, agents
<1> QED BY <1>1, <1>2, <1>3, <1>4, <1>5, <1>6, <1>7, <1>8, <1>9, <1>10, <1>11, <1>12, <1>13, <1>14, <1>15, <1>16, <1>17, <1>18, <1>19, <1>20, <1>21, <1>22, <1>23 DEF Next, DrainStep


-----------------------------------------------------------------------------
(* The announce *)

LEMMA SomeLeft ==
  ASSUME NEW a \in Nat, NEW b \in Nat, a > 0
  PROVE  a + b > 0
  OBVIOUS

LEMMA NoTurnStream ==
  ASSUME SlotOwned, Quiet
  PROVE  slot \notin Turns
  BY DEF SlotOwned, Quiet

\* The drain that reads is the registered one.
LEMMA ReadsRegistered ==
  ASSUME OnePerChat, NEW d \in Drains, drain[d].pc \in {"created", "idle", "ready"}
  PROVE  d = reg
  BY DEF OnePerChat, Reads

\* A fault is not forgotten.
LEMMA SoundBefore ==
  ASSUME [Next]_vars, "lost agents" \notin faults'
  PROVE  "lost agents" \notin faults
<1>1. faults \subseteq faults'
  BY DEF Next, DrainStep, Send, TurnBegins, TurnGoesOn, TurnEnds, DrainBegins, EventComes,
         WakeText, WakeResult, DrainEnds, DrainUnwinds, WatchSees, WatchEnds, WatchFinds,
         WatchUnwinds, StopWake, StopReturns, Reap, AgentStarts, AgentEnds, LostEnds, Folds,
         CliExits, vars
<1> QED BY <1>1

\* A drain that is cancelled between turns has nothing behind it.
LEMMA IdleStep ==
  ASSUME TypeOK, OnePerChat, AgentsAlive, DoomedIdle, [Next]_vars
  PROVE  DoomedIdle'
<1>1. ASSUME NEW t \in Turns, Send(t) PROVE DoomedIdle'
  BY <1>1 DEF Send, TypeOK, DoomedIdle, Quiet
<1>2. ASSUME NEW t \in Turns, TurnBegins(t) PROVE DoomedIdle'
  BY <1>2 DEF TurnBegins, DoomedIdle, Quiet
<1>3. ASSUME NEW t \in Turns, TurnGoesOn(t) PROVE DoomedIdle'
  BY <1>3 DEF TurnGoesOn, TypeOK, DoomedIdle, Quiet
<1>4. ASSUME NEW t \in Turns, NEW interim \in BOOLEAN, TurnEnds(t, interim) PROVE DoomedIdle'
  <2>1. PICK w \in Watchers : StartWatcher(w)
    BY <1>4 DEF TurnEnds
  <2>2. \A v \in Watchers : watch'[v] # "poll"
    BY <2>1, WatcherStarts
  <2>3. CASE cli
    <3>1. PICK d \in Drains : StartDrain(d)
      BY <1>4, <2>3 DEF TurnEnds
    <3>2. reg' = d /\ drain'[d].pc = "created"
      BY <3>1, DrainStarts
    <3> QED BY <3>2 DEF DoomedIdle
  <2>4. CASE ~cli
    BY <1>4, <2>2, <2>4 DEF TurnEnds, DoomedIdle, agents
  <2> QED BY <2>3, <2>4
<1>5. ASSUME NEW d \in Drains, DrainBegins(d) PROVE DoomedIdle'
  <2>1. d = reg
    BY <1>5, ReadsRegistered DEF DrainBegins
  <2>2. drain'[d].pc # "doomed" /\ reg' = reg
    BY <1>5 DEF DrainBegins, TypeOK, Drain, NoDrain
  <2> QED BY <2>1, <2>2 DEF DoomedIdle
<1>6. ASSUME NEW d \in Drains, EventComes(d) PROVE DoomedIdle'
  <2>1. d = reg
    BY <1>6, ReadsRegistered DEF EventComes
  <2>2. drain'[d].pc # "doomed" /\ reg' = reg
    BY <1>6 DEF EventComes, TypeOK, Drain, NoDrain
  <2> QED BY <2>1, <2>2 DEF DoomedIdle
<1>7. ASSUME NEW d \in Drains, WakeText(d) PROVE DoomedIdle'
  <2>1. d = reg
    BY <1>7, ReadsRegistered DEF WakeText
  <2>2. drain'[d].pc # "doomed" /\ reg' = reg
    BY <1>7 DEF WakeText, TypeOK, Drain, NoDrain
  <2> QED BY <2>1, <2>2 DEF DoomedIdle
<1>8. ASSUME NEW d \in Drains, NEW worth \in BOOLEAN, WakeResult(d, worth) PROVE DoomedIdle'
  <2>1. d = reg
    BY <1>8, ReadsRegistered DEF WakeResult
  <2>2. drain'[d].pc # "doomed" /\ reg' = reg
    BY <1>8 DEF WakeResult, TypeOK, Drain, NoDrain
  <2> QED BY <2>1, <2>2 DEF DoomedIdle
<1>9. ASSUME NEW d \in Drains, DrainEnds(d) PROVE DoomedIdle'
  <2>1. d = reg
    BY <1>9, ReadsRegistered DEF DrainEnds
  <2>2. drain'[d].pc # "doomed" /\ reg' = reg
    BY <1>9 DEF DrainEnds, TypeOK, Drain, NoDrain
  <2> QED BY <2>1, <2>2 DEF DoomedIdle
<1>10. ASSUME NEW d \in Drains, DrainUnwinds(d) PROVE DoomedIdle'
  BY <1>10 DEF DrainUnwinds, TypeOK, NoDrain, agents, DoomedIdle, Quiet
<1>11. ASSUME NEW w \in Watchers, WatchSees(w) PROVE DoomedIdle'
  <2>1. CASE DoomedIdle /\ Quiet /\ reg # None /\ drain[reg].pc = "doomed" /\ "lost agents" \notin faults
    <3>1. ~cli
      BY <2>1 DEF DoomedIdle
    <3>2. work = 0 /\ lost = 0
      BY <2>1, <3>1 DEF AgentsAlive
    <3>3. Count = 0
      BY <3>2 DEF Count
    <3> QED BY <1>11, <3>3 DEF WatchSees
  <2> QED BY <1>11, <2>1 DEF WatchSees, agents, DoomedIdle, Quiet
<1>12. ASSUME NEW w \in Watchers, WatchEnds(w) PROVE DoomedIdle'
  <2>1. \A v \in Watchers : watch'[v] = "poll" => watch[v] = "poll"
    BY <1>12 DEF WatchEnds, TypeOK
  <2> QED BY <1>12, <2>1, SoundBefore DEF WatchEnds, agents, DoomedIdle, Quiet
<1>13. ASSUME NEW w \in Watchers, WatchFinds(w) PROVE DoomedIdle'
  <2>1. \A v \in Watchers : watch'[v] = "poll" => watch[v] = "poll"
    BY <1>13 DEF WatchFinds, TypeOK
  <2> QED BY <1>13, <2>1, SoundBefore DEF WatchFinds, agents, DoomedIdle, Quiet
<1>14. ASSUME NEW w \in Watchers, WatchUnwinds(w) PROVE DoomedIdle'
  <2>1. \A v \in Watchers : watch'[v] = "poll" => watch[v] = "poll"
    BY <1>14 DEF WatchUnwinds, TypeOK
  <2> QED BY <1>14, <2>1, SoundBefore DEF WatchUnwinds, agents, DoomedIdle, Quiet
<1>15. CASE StopWake
  BY <1>15 DEF StopWake, DoomedIdle, Quiet
<1>16. CASE StopReturns
  BY <1>16 DEF StopReturns, DoomedIdle, Quiet, tasks, agents
<1>17. CASE Reap
  <2>1. \A v \in Watchers : watch[v] # "poll"
    BY <1>17, Apart DEF Reap, Watching, OnePerChat
  <2> QED BY <1>17, <2>1 DEF Reap, DoomedIdle
<1>18. CASE AgentStarts
  BY <1>18 DEF AgentStarts, DoomedIdle, Quiet, tasks, agents
<1>19. CASE AgentEnds
  BY <1>19 DEF AgentEnds, DoomedIdle, Quiet, tasks, agents
<1>20. CASE LostEnds
  BY <1>20 DEF LostEnds, DoomedIdle, Quiet, tasks, agents
<1>21. CASE Folds
  BY <1>21 DEF Folds, DoomedIdle, Quiet, tasks, agents
<1>22. CASE CliExits
  BY <1>22, SoundBefore DEF CliExits, tasks, DoomedIdle, Quiet
<1>23. CASE UNCHANGED vars
  BY <1>23 DEF vars, DoomedIdle, Quiet, tasks, agents
<1> QED BY <1>1, <1>2, <1>3, <1>4, <1>5, <1>6, <1>7, <1>8, <1>9, <1>10, <1>11, <1>12, <1>13, <1>14, <1>15, <1>16, <1>17, <1>18, <1>19, <1>20, <1>21, <1>22, <1>23 DEF Next, DrainStep

\* The result of a follow-up with no agents left behind it releases the announce.
LEMMA LastSpoken ==
  ASSUME TypeOK, SlotOwned, AgentsAlive, NEW d \in Drains, NEW worth \in BOOLEAN,
         WakeResult(d, worth), work = 0, Quiet', "lost agents" \notin faults'
  PROVE  ~park'
<1>1. Count = 0
  <2>1. lost = 0
    BY DEF WakeResult, AgentsAlive
  <2>2. work = 0
    OBVIOUS
  <2> QED BY ONLY <2>1, <2>2 DEF Count
<1>2. slot' \notin Turns
  <2>1. slot \notin Turns
    BY NoTurnStream DEF WakeResult, Quiet
  <2> QED BY <2>1, Apart DEF WakeResult, Closed
<1>3. park' = (Count > 0) \/ park' = (park /\ slot' \in Turns)
  BY <1>1 DEF WakeResult, Settles, Flush
<1>4. ~(Count > 0)
  BY ONLY <1>1
<1> QED BY <1>2, <1>3, <1>4

\* A poll that saw work leaves it to a drain that the CLI will speak to.
LEMMA HeardStep ==
  ASSUME TypeOK, OnePerChat, SlotOwned, AgentsAlive, PollHeard, [Next]_vars
  PROVE  PollHeard'
<1>1. ASSUME NEW t \in Turns, Send(t) PROVE PollHeard'
  BY <1>1 DEF Send, TypeOK, PollHeard, Quiet, Reads
<1>2. ASSUME NEW t \in Turns, TurnBegins(t) PROVE PollHeard'
  BY <1>2 DEF TurnBegins, PollHeard, Quiet, Reads
<1>3. ASSUME NEW t \in Turns, TurnGoesOn(t) PROVE PollHeard'
  BY <1>3 DEF TurnGoesOn, TypeOK, PollHeard, Quiet, Reads
<1>4. ASSUME NEW t \in Turns, NEW interim \in BOOLEAN, TurnEnds(t, interim) PROVE PollHeard'
  BY <1>4, WatcherStarts DEF TurnEnds, PollHeard
<1>5. ASSUME NEW d \in Drains, DrainBegins(d) PROVE PollHeard'
  <2>1. d = reg /\ Reads(reg)
    BY <1>5, ReadsRegistered DEF DrainBegins, Reads
  <2> QED BY <1>5, <2>1 DEF DrainBegins, agents, PollHeard, Quiet
<1>6. ASSUME NEW d \in Drains, EventComes(d) PROVE PollHeard'
  <2>1. d = reg /\ Reads(reg)
    BY <1>6, ReadsRegistered DEF EventComes, Reads
  <2> QED BY <1>6, <2>1 DEF EventComes, agents, PollHeard, Quiet
<1>7. ASSUME NEW d \in Drains, WakeText(d) PROVE PollHeard'
  <2>1. d = reg /\ Reads(reg)
    BY <1>7, ReadsRegistered DEF WakeText, Reads
  <2> QED BY <1>7, <2>1 DEF WakeText, agents, PollHeard, Quiet
<1>8. ASSUME NEW d \in Drains, NEW worth \in BOOLEAN, WakeResult(d, worth) PROVE PollHeard'
  <2>1. CASE work > 0
    <3>1. work' = work /\ owed' \in Nat /\ work \in Nat
      BY <1>8 DEF WakeResult, TypeOK
    <3>2. work + owed' > 0
      BY ONLY <2>1, <3>1, SomeLeft
    <3>3. work' + owed' > 0
      BY ONLY <3>1, <3>2
    <3> QED BY <3>3 DEF PollHeard
  <2>2. CASE work = 0
    BY <1>8, <2>2, LastSpoken DEF PollHeard
  <2>3. work > 0 \/ work = 0
    BY DEF TypeOK
  <2> QED BY <2>1, <2>2, <2>3
<1>9. ASSUME NEW d \in Drains, DrainEnds(d) PROVE PollHeard'
  <2>1. d = reg
    BY <1>9, ReadsRegistered DEF DrainEnds
  <2> QED BY <1>9, <2>1 DEF DrainEnds, TypeOK, NoDrain, PollHeard, Reads
<1>10. ASSUME NEW d \in Drains, DrainUnwinds(d) PROVE PollHeard'
  BY <1>10 DEF DrainUnwinds, TypeOK, NoDrain, agents, PollHeard, Quiet, Reads
<1>11. ASSUME NEW w \in Watchers, WatchSees(w) PROVE PollHeard'
  <2>1. CASE "lost agents" \notin faults
    <3>1. lost = 0
      BY <2>1 DEF AgentsAlive
    <3>2. Count > 0 /\ work' = work /\ owed' = owed
      BY <1>11 DEF WatchSees, agents
    <3>3. work + owed > 0
      BY <3>1, <3>2 DEF TypeOK, Count
    <3> QED BY <3>2, <3>3 DEF PollHeard
  <2>2. CASE "lost agents" \in faults
    BY <1>11, <2>2 DEF WatchSees, PollHeard
  <2> QED BY <2>1, <2>2
<1>12. ASSUME NEW w \in Watchers, WatchEnds(w) PROVE PollHeard'
  <2>1. \A v \in Watchers : watch'[v] # "poll"
    BY <1>12 DEF WatchEnds, TypeOK, OnePerChat
  <2> QED BY <2>1 DEF PollHeard
<1>13. ASSUME NEW w \in Watchers, WatchFinds(w) PROVE PollHeard'
  <2>1. \A v \in Watchers : watch'[v] = "poll" => watch[v] = "poll"
    BY <1>13 DEF WatchFinds, TypeOK
  <2>2. park' => park
    BY <1>13 DEF WatchFinds, Leaves, Flush
  <2> QED BY <1>13, <2>1, <2>2, SoundBefore DEF WatchFinds, agents, PollHeard, Quiet, Reads
<1>14. ASSUME NEW w \in Watchers, WatchUnwinds(w) PROVE PollHeard'
  <2>1. \A v \in Watchers : watch'[v] = "poll" => watch[v] = "poll"
    BY <1>14 DEF WatchUnwinds, TypeOK
  <2>2. park' => park
    BY <1>14 DEF WatchUnwinds, Leaves, Flush
  <2> QED BY <1>14, <2>1, <2>2, SoundBefore DEF WatchUnwinds, agents, PollHeard, Quiet, Reads
<1>15. CASE StopWake
  BY <1>15 DEF StopWake, PollHeard
<1>16. CASE StopReturns
  BY <1>16 DEF StopReturns, Flush, agents, PollHeard, Quiet, Reads
<1>17. CASE Reap
  BY <1>17 DEF Reap, PollHeard
<1>18. CASE AgentStarts
  <2>1. work' + owed' > 0
    BY <1>18 DEF AgentStarts, TypeOK
  <2> QED BY <2>1 DEF PollHeard
<1>19. CASE AgentEnds
  <2>1. work' + owed' > 0
    BY <1>19 DEF AgentEnds, TypeOK
  <2> QED BY <2>1 DEF PollHeard
<1>20. CASE LostEnds
  BY <1>20 DEF LostEnds, tasks, PollHeard, Quiet, Reads
<1>21. CASE Folds
  <2>1. CASE Running
    BY <1>21, <2>1 DEF Folds, Running, tasks, PollHeard, Quiet
  <2>2. CASE owed > 1
    <3>1. work' + owed' > 0
      BY <1>21, <2>2 DEF Folds, TypeOK
    <3> QED BY <3>1 DEF PollHeard
  <2> QED BY <1>21, <2>1, <2>2 DEF Folds
<1>22. CASE CliExits
  BY <1>22 DEF CliExits, PollHeard
<1>23. CASE UNCHANGED vars
  BY <1>23 DEF vars, PollHeard, Quiet, Reads, tasks, agents
<1> QED BY <1>1, <1>2, <1>3, <1>4, <1>5, <1>6, <1>7, <1>8, <1>9, <1>10, <1>11, <1>12, <1>13, <1>14, <1>15, <1>16, <1>17, <1>18, <1>19, <1>20, <1>21, <1>22, <1>23 DEF Next, DrainStep

\* An announce that survives a release is a live turn's to discard.
LEMMA Released ==
  ASSUME SlotOwned, Flush(slot), park', turn' = turn
  PROVE  ~Quiet'
<1>1. slot \in Turns
  BY DEF Flush
<1>2. turn[slot] # "off"
  BY <1>1 DEF SlotOwned
<1> QED BY <1>1, <1>2 DEF Quiet

\* The announce keeps an owner.
LEMMA ParkStep ==
  ASSUME TypeOK, OnePerChat, SlotOwned, WatcherKept, AgentsAlive, DoomedIdle, PollHeard,
         ParkOwned, [Next]_vars
  PROVE  ParkOwned'
<1>1. ASSUME NEW t \in Turns, Send(t) PROVE ParkOwned'
  BY <1>1 DEF Send, TypeOK, ParkOwned
<1>2. ASSUME NEW t \in Turns, TurnBegins(t) PROVE ParkOwned'
  BY <1>2 DEF TurnBegins, TypeOK, ParkOwned
<1>3. ASSUME NEW t \in Turns, TurnGoesOn(t) PROVE ParkOwned'
  BY <1>3 DEF TurnGoesOn, TypeOK, ParkOwned
<1>4. ASSUME NEW t \in Turns, NEW interim \in BOOLEAN, TurnEnds(t, interim) PROVE ParkOwned'
  <2>1. Watching'
    BY <1>4, WatcherStarts, Apart DEF TurnEnds, Watching
  <2> QED BY <2>1 DEF ParkOwned
<1>5. ASSUME NEW d \in Drains, DrainBegins(d) PROVE ParkOwned'
  <2>1. d = reg /\ reg' = reg
    BY <1>5, ReadsRegistered DEF DrainBegins
  <2>2. drain'[d].pc \in {"created", "idle", "ready"}
    BY <1>5 DEF DrainBegins, TypeOK, Drain
  <2> QED BY <1>5, <2>1, <2>2 DEF DrainBegins, agents, ParkOwned, Watching, Reads
<1>6. ASSUME NEW d \in Drains, EventComes(d) PROVE ParkOwned'
  <2>1. d = reg /\ reg' = reg
    BY <1>6, ReadsRegistered DEF EventComes
  <2>2. drain'[d].pc \in {"created", "idle", "ready"}
    BY <1>6 DEF EventComes, TypeOK, Drain
  <2> QED BY <1>6, <2>1, <2>2 DEF EventComes, agents, ParkOwned, Watching, Reads
<1>7. ASSUME NEW d \in Drains, WakeText(d) PROVE ParkOwned'
  <2>1. d = reg /\ reg' = reg
    BY <1>7, ReadsRegistered DEF WakeText
  <2>2. drain'[d].pc \in {"created", "idle", "ready"}
    BY <1>7 DEF WakeText, TypeOK, Drain
  <2> QED BY <1>7, <2>1, <2>2 DEF WakeText, agents, ParkOwned, Watching, Reads
<1>8. ASSUME NEW d \in Drains, NEW worth \in BOOLEAN, WakeResult(d, worth) PROVE ParkOwned'
  <2>1. CASE work > 0
    <3>1. Watching'
      BY <1>8, <2>1, WatcherStarts, Apart DEF WakeResult, Watching
    <3> QED BY <3>1 DEF ParkOwned
  <2>2. CASE work = 0
    BY <1>8, <2>2, LastSpoken DEF ParkOwned, Quiet
  <2>3. work > 0 \/ work = 0
    BY DEF TypeOK
  <2> QED BY <2>1, <2>2, <2>3
<1>9. ASSUME NEW d \in Drains, DrainEnds(d) PROVE ParkOwned'
  <2>1. park' => slot \in Turns
    BY <1>9, Apart DEF DrainEnds, Flush, Closed
  <2>2. slot \in Turns => turn[slot] # "off"
    BY DEF SlotOwned
  <2> QED BY <1>9, <2>1, <2>2 DEF DrainEnds, ParkOwned
<1>10. ASSUME NEW d \in Drains, DrainUnwinds(d) PROVE ParkOwned'
  <2>1. reg # None /\ Reads(reg) => drain'[reg] = drain[reg]
    BY <1>10 DEF DrainUnwinds, Reads
  <2> QED BY <1>10, <2>1 DEF DrainUnwinds, agents, ParkOwned, Watching, Reads
<1>11. ASSUME NEW w \in Watchers, WatchSees(w) PROVE ParkOwned'
  <2>1. Watching => Watching'
    BY <1>11 DEF WatchSees, TypeOK, Watching
  <2> QED BY <1>11, <2>1 DEF WatchSees, agents, ParkOwned, Reads
<1>12. ASSUME NEW w \in Watchers, WatchEnds(w) PROVE ParkOwned'
  <2>1. CASE Flush(slot)
    BY <1>12, <2>1, Released DEF WatchEnds, ParkOwned, Quiet
  <2>2. CASE watch[w] = "poll" /\ LiveDrain /\ UNCHANGED park
    <3> SUFFICES ASSUME park', "lost agents" \notin faults', Quiet'
                 PROVE  reg' # None /\ Reads(reg)' /\ (cli' => work' + owed' > 0)
      BY DEF ParkOwned, Quiet
    <3>1. /\ Quiet /\ park /\ "lost agents" \notin faults
          /\ UNCHANGED <<drain, reg, cli, work, owed>>
      BY <1>12, <2>2 DEF WatchEnds, agents, Quiet
    <3>2. reg # None /\ drain[reg].pc # "doomed"
      BY <2>2, <3>1 DEF DoomedIdle, LiveDrain
    <3>3. Reads(reg)
      BY <2>2, <3>2 DEF TypeOK, Drain, LiveDrain, Reads
    <3>4. cli => work + owed > 0
      BY <2>2, <3>1, <3>2, <3>3 DEF PollHeard
    <3> QED BY <3>1, <3>2, <3>3, <3>4 DEF Reads
  <2> QED BY <1>12, <2>1, <2>2 DEF WatchEnds, Leaves
<1>13. ASSUME NEW w \in Watchers, WatchFinds(w) PROVE ParkOwned'
  BY <1>13, Released DEF WatchFinds, Leaves, ParkOwned, Quiet
<1>14. ASSUME NEW w \in Watchers, WatchUnwinds(w) PROVE ParkOwned'
  <2>1. Watching => Watching'
    BY <1>14 DEF WatchUnwinds, TypeOK, Watching, WatcherKept
  <2>2. park' => park
    BY <1>14 DEF WatchUnwinds, Leaves, Flush
  <2> QED BY <1>14, <2>1, <2>2 DEF WatchUnwinds, agents, ParkOwned, Reads
<1>15. CASE StopWake
  <2>1. CASE LiveDrain
    BY <1>15, <2>1 DEF StopWake, LiveDrain, ParkOwned
  <2>2. CASE ~LiveDrain
    BY <1>15, <2>2, Released DEF StopWake, ParkOwned, Quiet
  <2> QED BY <2>1, <2>2
<1>16. CASE StopReturns
  BY <1>16, Released DEF StopReturns, ParkOwned, Quiet
<1>17. CASE Reap
  <2>1. ~(work + owed > 0) /\ cli
    BY <1>17 DEF Reap
  <2> QED BY <1>17, <2>1 DEF Reap, ParkOwned
<1>18. CASE AgentStarts
  <2>1. work' + owed' > 0
    BY <1>18 DEF AgentStarts, TypeOK
  <2> QED BY <1>18, <2>1 DEF AgentStarts, tasks, ParkOwned, Watching, Reads
<1>19. CASE AgentEnds
  <2>1. work' + owed' > 0
    BY <1>19 DEF AgentEnds, TypeOK
  <2> QED BY <1>19, <2>1 DEF AgentEnds, tasks, ParkOwned, Watching, Reads
<1>20. CASE LostEnds
  BY <1>20 DEF LostEnds, tasks, ParkOwned, Watching, Reads
<1>21. CASE Folds
  <2>1. CASE Running
    BY <1>21, <2>1 DEF Folds, Running, tasks, ParkOwned
  <2>2. CASE owed > 1
    <3>1. work' + owed' > 0
      BY <1>21, <2>2 DEF Folds, TypeOK
    <3> QED BY <1>21, <3>1 DEF Folds, tasks, ParkOwned, Watching, Reads
  <2> QED BY <1>21, <2>1, <2>2 DEF Folds
<1>22. CASE CliExits
  BY <1>22, SoundBefore DEF CliExits, tasks, ParkOwned, Watching, Reads
<1>23. CASE UNCHANGED vars
  BY <1>23 DEF vars, ParkOwned, Watching, Reads, tasks, agents
<1> QED BY <1>1, <1>2, <1>3, <1>4, <1>5, <1>6, <1>7, <1>8, <1>9, <1>10, <1>11, <1>12, <1>13, <1>14, <1>15, <1>16, <1>17, <1>18, <1>19, <1>20, <1>21, <1>22, <1>23 DEF Next, DrainStep

-----------------------------------------------------------------------------
(* Theorems *)

LEMMA InvInit == Init => Inv
<1> SUFFICES ASSUME Init PROVE Inv
  OBVIOUS
<1>1. TypeOK
  BY DEF Init, TypeOK, Drain, NoDrain
<1>2. NoStream /\ WatcherKept /\ AgentsAlive
  BY DEF Init, NoStream, NoDrain, WatcherKept, AgentsAlive
<1>3. DoomedIdle /\ PollHeard
  BY DEF Init, DoomedIdle, PollHeard
<1>4. OnePerChat /\ SlotOwned /\ ParkOwned /\ BadgeWatched
  BY Apart DEF Init, OnePerChat, Reads, NoDrain, SlotOwned, ParkOwned, BadgeWatched
<1> QED BY <1>1, <1>2, <1>3, <1>4 DEF Inv

LEMMA InvStep == Inv /\ [Next]_vars => Inv'
  BY TypeStep, OneStep, KeptStep, BadgeStep, StreamStep, AgentStep, IdleStep, HeardStep, ParkStep
     DEF Inv, StreamsOwned

\* The invariant holds in every behaviour of the chat.
THEOREM Invariant == Spec => []Inv
  BY InvInit, InvStep, PTL DEF Spec

\* Every variable keeps its type, for any turns, drains, watchers and agents.
THEOREM TypeCorrect == Spec => []TypeOK
<1>1. Inv => TypeOK
  BY DEF Inv
<1> QED BY <1>1, Invariant, PTL

\* One drain reads the pipe and one watcher polls, however many turns overlap.
THEOREM OneDrainOneWatcher == Spec => []OnePerChat
<1>1. Inv => OnePerChat
  BY DEF Inv
<1> QED BY <1>1, Invariant, PTL

\* The broker's stream always has a task that finishes it.
THEOREM SlotAlwaysOwned == Spec => []SlotOwned
<1>1. Inv => SlotOwned
  BY DEF Inv
<1> QED BY <1>1, Invariant, PTL

\* A held announce always has somebody to release it, unless agents died with
\* their CLI.
THEOREM ParkAlwaysOwned == Spec => []ParkOwned
<1>1. Inv => ParkOwned
  BY DEF Inv
<1> QED BY <1>1, Invariant, PTL

\* A badge always has its watcher, unless a watcher found no session file.
THEOREM BadgeAlwaysWatched == Spec => []BadgeWatched
<1>1. Inv => BadgeWatched
  BY DEF Inv
<1> QED BY <1>1, Invariant, PTL
=============================================================================
