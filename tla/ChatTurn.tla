------------------------------ MODULE ChatTurn ------------------------------
(***************************************************************************)
(* One chat of the server: the message frames of its clients, the live     *)
(* queue of the running stream, the drive task that runs one turn after    *)
(* another, Stop, steering, the provider reload and the turn-end teardown. *)
(*                                                                         *)
(* The server is one asyncio loop, so a handler is atomic between two      *)
(* awaits; `pc' is the await the drive task is suspended at.  A message is *)
(* a client send with a send id of its own.  The order inside the queues   *)
(* is left out: a queue is a set of entries and the next one is any of     *)
(* them, so what holds here holds for every order the user can produce.    *)
(* Retries, the between-turns drain and restarts are other modules.        *)
(***************************************************************************)
EXTENDS Naturals, FiniteSets

CONSTANTS Msgs,         \* the client sends (their send ids)
          NoSteer,      \* the empty steer_id
          Dispatching,  \* STEER_DISPATCHING, the placeholder of a dispatch
          MaxSteers     \* bound: steer dispatches of a behaviour

ASSUME SteerIdAssumption ==
  /\ NoSteer # Dispatching
  /\ MaxSteers \in Nat
  /\ {NoSteer, Dispatching} \cap Nat = {}

SteerNos == 1..MaxSteers
SteerIds == SteerNos \cup {NoSteer, Dispatching}
Group == SUBSET Msgs           \* the send ids one queue entry or turn owns
Entry == [ids: Group, delivery: {"queue", "steer"}, sid: SteerIds]
Dispatch == [no: SteerNos, ids: Group]

VARIABLES
  pc,           \* await the drive is at: off prelude spawned turn reload refresh
  cur,          \* send ids of the running prompt; {} for a hidden continuation
  accepting,    \* stream.accepting_queue
  userStopped,  \* stream.user_stopped
  codeReq,      \* stream.code_mode_continue
  reloadReq,    \* stream.reload_continue
  err,          \* had_error of the drive
  question,     \* chat.pending_question is an open native form
  provider,     \* the chat has a provider in _providers
  pending,      \* stream._pending
  draining,     \* stream._draining, the groups of the drain window
  parked,       \* chat.pending_queue
  owned,        \* the send ids in chat.user_turn_send_ids
  stopCall,     \* stop_chat: idle, asked (its sleep(0)), waiting for the turn
                \* with the grace timer, cleanup: waiting for the drive only
  steerWant,    \* a steer_queue call waits for the steer lock
  steerLock,    \* the dispatch that holds the chat's steer lock, 0 if free
  steerCalls,   \* dispatches whose steer_turn call has not returned
  staleCalls,   \* the ones whose stream has ended meanwhile
  inflight,     \* stream.steer_inflight
  steerNo,      \* the last dispatch
  early,        \* stream.early_steer_deliveries
  cli,          \* dispatches the provider holds and has not echoed
  acked,        \* history: sends answered as accepted and not withdrawn
  dropped,      \* history: sends answered as accepted that nothing took
  held,         \* history: sends queued at a Stop, untouched by the user since
  heard         \* history: sends the provider has consumed

drive == <<pc, cur, accepting, err, provider>>
flags == <<userStopped, codeReq, reloadReq, question>>
queues == <<pending, draining, parked, owned>>
calls == <<steerLock, steerCalls, staleCalls, inflight>>
steering == <<steerWant, calls, steerNo, early, cli>>
history == <<acked, dropped, held, heard>>
vars == <<drive, flags, queues, stopCall, steering, history>>

-----------------------------------------------------------------------------
(* The queue helpers.                                                      *)

NewEntry(ids, delivery) == [ids |-> ids, delivery |-> delivery, sid |-> NoSteer]

\* Mutant of Reverted: the mode is reset and the lock forgotten.
RevertedLocked(Q) == {[e EXCEPT !.delivery = "queue"] : e \in Q}

\* revert_steers: every steer-mode entry is an unlocked follow-up again.
Reverted(Q) ==
  {IF e.delivery = "steer" THEN NewEntry(e.ids, "queue") ELSE e : e \in Q}

\* _flushed_entry: an entry leaves the live queue as a plain follow-up.
Flushed(Q) == {e.ids : e \in Q}

Locked(e) == e.sid # NoSteer

QueuedIds == UNION (Flushed(pending) \cup draining \cup parked)

\* Mutant of Duplicate: has_pending_send forgets the drain window.
DuplicateUndrained(m) == m \in owned \cup UNION (Flushed(pending) \cup parked)

\* The route's duplicate test: find_turn_by_send_id and has_pending_send.
Duplicate(m) == m \in owned \cup QueuedIds

\* start_stream refuses while a live provider holds an open native form.
FormOpen == question /\ provider

-----------------------------------------------------------------------------
(* Starting a stream.                                                      *)

\* start_stream with no stream in the broker: a new ChatStream and its drive.
Open(ids) ==
  /\ pc = "off"
  /\ ~FormOpen
  /\ pc' = "prelude"
  /\ cur' = ids
  /\ owned' = owned \cup ids
  /\ accepting' = TRUE
  /\ err' = FALSE
  /\ userStopped' = FALSE
  /\ codeReq' = FALSE
  /\ reloadReq' = FALSE
  /\ question' = FALSE
  /\ early' = {}
  /\ inflight' = FALSE
  /\ UNCHANGED <<provider, pending, draining, stopCall, steerWant, steerLock,
                 steerCalls, staleCalls, steerNo, cli, heard>>

Accept(m) ==
  /\ acked' = acked \cup {m}
  /\ dropped' = dropped \ {m}

\* A message frame with no stream in the broker: the route starts a turn.
SendStarts(m) ==
  /\ ~Duplicate(m)
  /\ Open({m})
  /\ Accept(m)
  /\ UNCHANGED <<parked, held>>

\* A message frame during a turn: queue_message, and steer_queue for a steer.
SendQueues(m, delivery) ==
  /\ pc # "off"
  /\ accepting
  /\ ~Duplicate(m)
  /\ pending' = pending \cup {NewEntry({m}, delivery)}
  /\ steerWant' = (steerWant \/ delivery = "steer")
  /\ Accept(m)
  /\ UNCHANGED <<drive, flags, draining, parked, owned, stopCall, calls,
                 steerNo, early, cli, held, heard>>

\* A message frame after accepting_queue fell and before the broker is clear:
\* queue_message refuses, start_stream returns the stream that is ending, and
\* the client is answered as if its turn had begun.
SendFallsThrough(m) ==
  /\ pc # "off"
  /\ ~accepting
  /\ ~Duplicate(m)
  /\ acked' = acked \cup {m}
  /\ dropped' = dropped \cup {m}
  /\ UNCHANGED <<drive, flags, queues, stopCall, steering, held, heard>>

\* set_queue_delivery("steer") with nothing running: the selected parked
\* entries leave as one new turn.
SendNow(G) ==
  /\ G # {}
  /\ G \subseteq parked
  /\ Open(UNION G)
  /\ parked' = parked \ G
  /\ held' = held \ UNION G
  /\ UNCHANGED <<acked, dropped>>

-----------------------------------------------------------------------------
(* The queue chips.                                                        *)

\* remove_queue and take_queue_for_edit; an entry in flight is locked.
Remove(g) ==
  /\ \/ \E e \in pending : /\ ~Locked(e)
                           /\ e.ids = g
                           /\ pending' = pending \ {e}
                           /\ UNCHANGED parked
     \/ /\ g \in parked
        /\ parked' = parked \ {g}
        /\ UNCHANGED pending
  /\ acked' = acked \ g
  /\ held' = held \ g
  /\ UNCHANGED <<drive, flags, draining, owned, stopCall, steering, dropped,
                 heard>>

\* set_queue_delivery on an entry of the live queue.
SetDelivery(e, delivery) ==
  /\ e \in pending
  /\ ~Locked(e)
  /\ e.delivery # delivery
  /\ pending' = (pending \ {e}) \cup {[e EXCEPT !.delivery = delivery]}
  /\ steerWant' = (steerWant \/ delivery = "steer")
  /\ held' = held \ e.ids
  /\ UNCHANGED <<drive, flags, draining, parked, owned, stopCall, calls,
                 steerNo, early, cli, acked, dropped, heard>>

\* set_queue_delivery("steer") on a parked entry while a stream is live.
Adopt(g) ==
  /\ pc # "off"
  /\ g \in parked
  /\ parked' = parked \ {g}
  /\ pending' = pending \cup {NewEntry(g, "steer")}
  /\ steerWant' = TRUE
  /\ held' = held \ g
  /\ UNCHANGED <<drive, flags, draining, owned, stopCall, calls, steerNo,
                 early, cli, acked, dropped, heard>>

-----------------------------------------------------------------------------
(* The end of a turn and the start of the next.  The operators fix the     *)
(* drive, flags, pending, draining, parked, owned and cur'; P is the live  *)
(* queue they start from, e whether the drive has failed.                  *)

EndAccepting(parkedNow) ==
  /\ accepting' = FALSE
  /\ pc' = "refresh"
  /\ parked' = parkedNow
  /\ pending' = {}
  /\ draining' = {}
  /\ userStopped' = FALSE
  /\ UNCHANGED <<cur, owned, question>>

\* Mutant of FollowUp: the flushed turn does not record its send ids.
FollowUpUnrecorded(g, rest) ==
  /\ pc' = "spawned"
  /\ cur' = g
  /\ pending' = rest
  /\ draining' = {}
  /\ question' = FALSE
  /\ UNCHANGED <<accepting, parked, userStopped, owned>>

FollowUp(g, rest) ==
  /\ pc' = "spawned"
  /\ cur' = g
  /\ owned' = owned \cup g
  /\ pending' = rest
  /\ draining' = {}
  /\ question' = FALSE
  /\ UNCHANGED <<accepting, parked, userStopped>>

\* Mutant of FormHolds: only the drained entry goes back.
FormHoldsOne(next, rest) ==
  /\ pc' = "refresh"
  /\ parked' = parked \cup next
  /\ pending' = {}
  /\ draining' = {}
  /\ UNCHANGED <<cur, accepting, userStopped, owned, question>>

\* A native form owns the turn: the follow-up goes back to the parked queue.
FormHolds(next, rest) ==
  /\ pc' = "refresh"
  /\ parked' = parked \cup next \cup Flushed(rest)
  /\ pending' = {}
  /\ draining' = {}
  /\ UNCHANGED <<cur, accepting, userStopped, owned, question>>

\* Mutant of Decide: Stop is not read again after the reload's await.
DecideUnstopped(next, rest, failed) ==
  IF next = {} \/ failed
  THEN EndAccepting(parked \cup Flushed(rest) \cup next)
  ELSE IF question THEN FormHolds(next, rest)
  ELSE \E g \in next : FollowUp(g, rest)

\* From `if next_pending is None or had_error or park_rest' to the end of the
\* loop body; next is the drained entry, if any.
Decide(next, rest, failed) ==
  IF next = {} \/ failed \/ userStopped
  THEN EndAccepting(parked \cup Flushed(rest) \cup next)
  ELSE IF question THEN FormHolds(next, rest)
  ELSE \E g \in next : FollowUp(g, rest)

HiddenTurn ==
  /\ pc' = "spawned"
  /\ cur' = {}
  /\ draining' = {}
  /\ UNCHANGED <<accepting, parked, userStopped, owned, question>>

\* drain_one: any entry of the queue, or nothing.
Drained(Q) == IF Q = {} THEN {{}} ELSE {{q} : q \in Q}

\* The loop bottom, once the steers have fallen back: drain one entry, hold
\* the queue after a Stop, continue hidden, reload the provider, or decide.
Bottom(P, failed) ==
  /\ codeReq' = FALSE
  /\ reloadReq' = FALSE
  /\ \E one \in Drained(P) :
       LET next == Flushed(one)
           rest == P \ one
       IN  \/ \* code mode is still on: one hidden continuation
              /\ codeReq /\ next = {} /\ ~failed /\ ~userStopped
              /\ HiddenTurn
              /\ pending' = {}
              /\ UNCHANGED <<provider, steerLock>>
           \/ \* reload_provider: _pop_provider drops the steer lock too
              /\ reloadReq /\ ~userStopped /\ ~question
              /\ pc' = "reload"
              /\ provider' = FALSE
              /\ steerLock' = 0
              /\ draining' = next
              /\ pending' = rest
              /\ UNCHANGED <<cur, accepting, parked, userStopped, owned,
                             question>>
           \/ \* neither asked for, or code mode is off again, or background
              \* work blocks the reload
              /\ Decide(next, rest, failed)
              /\ UNCHANGED <<provider, steerLock>>

\* on every end of the turn task the provider forgets the steers it holds
TurnEnds ==
  /\ pc = "turn"
  /\ cli' = {}
  /\ UNCHANGED <<stopCall, steerWant, steerCalls, staleCalls, inflight, steerNo,
                 early, acked, dropped, held>>

-----------------------------------------------------------------------------
(* The drive task.                                                         *)

\* Mutant of LoopTop: a Stop during start-up is not seen (issue 1109).
LoopTopUnstopped ==
  /\ pc = "prelude"
  /\ pc' = "spawned"
  /\ UNCHANGED <<cur, accepting, provider, err, flags, queues, stopCall,
                 steering, history>>

\* The prelude's await is over: a Stop that landed meanwhile skips the turn.
LoopTop ==
  /\ pc = "prelude"
  /\ IF userStopped
     THEN /\ Bottom(Reverted(pending), err)
     ELSE /\ pc' = "spawned"
          /\ UNCHANGED <<cur, accepting, provider, flags, queues, steerLock>>
  /\ UNCHANGED <<err, stopCall, steerWant, steerCalls, staleCalls, inflight,
                 steerNo, early, cli, history>>

\* The turn task's first step: stream_chat gets or builds the provider.
BeginTurn ==
  /\ pc = "spawned"
  /\ pc' = "turn"
  /\ provider' = TRUE
  /\ UNCHANGED <<cur, accepting, err, flags, queues, stopCall, steering,
                 history>>

\* A native form opens during the turn, which goes on.
AskNative ==
  /\ pc = "turn"
  /\ question' = TRUE
  /\ UNCHANGED <<drive, userStopped, codeReq, reloadReq, queues, stopCall,
                 steering, history>>

\* An error result: had_error, and the queue is parked when a retry is armed.
ErrorResult(armed) ==
  /\ pc = "turn"
  /\ ~err
  /\ err' = TRUE
  /\ IF armed
     THEN /\ parked' = parked \cup Flushed(pending)
          /\ pending' = {}
     ELSE UNCHANGED <<parked, pending>>
  /\ UNCHANGED <<pc, cur, accepting, provider, flags, draining, owned,
                 stopCall, steering, history>>

\* Stop cancelled a prompt the provider had not run: it waits, parked.
PromptCancelled ==
  /\ pc = "turn"
  /\ stopCall = "waiting"
  /\ cur # {}
  /\ cur \cap heard = {}
  /\ owned' = owned \ cur
  /\ parked' = parked \cup {cur}
  /\ cur' = {}
  /\ held' = held \cup cur
  /\ UNCHANGED <<pc, accepting, err, provider, flags, pending, draining,
                 stopCall, steering, acked, dropped, heard>>

\* The turn task returned, or Stop's force close cancelled it.
TurnReturns ==
  /\ TurnEnds
  /\ heard' = heard \cup cur
  /\ Bottom(Reverted(pending), err)
  /\ UNCHANGED err

ForceClose == stopCall = "waiting" /\ TurnReturns

\* The turn task raised.  After a Stop that is the stopped result; otherwise
\* the queue is parked and the drive leaves its loop still accepting.
TurnRaises ==
  /\ TurnEnds
  /\ heard' = heard \cup cur
  /\ ~userStopped
  /\ pc' = "refresh"
  /\ err' = TRUE
  /\ parked' = parked \cup Flushed(pending)
  /\ pending' = {}
  /\ UNCHANGED <<cur, accepting, provider, flags, draining, owned,
                 steerLock>>

\* A legacy question pauses the turn: same parking, no error.
QuestionPauses ==
  /\ TurnEnds
  /\ heard' = heard \cup cur
  /\ pc' = "refresh"
  /\ parked' = parked \cup Flushed(pending)
  /\ pending' = {}
  /\ UNCHANGED <<cur, accepting, err, provider, flags, draining, owned,
                 steerLock>>

\* reload_provider returned.  Success with nothing drained runs the hidden
\* continuation, whose loop top honours a Stop; otherwise the drained entry
\* runs or parks.
ReloadReturns(reloaded) ==
  /\ pc = "reload"
  /\ IF reloaded /\ draining = {} /\ ~err
     THEN IF userStopped
          THEN EndAccepting(parked \cup Flushed(pending))
          ELSE HiddenTurn /\ UNCHANGED pending
     ELSE Decide(draining, pending, err)
  /\ UNCHANGED <<err, provider, codeReq, reloadReq, stopCall, steering,
                 history>>

\* An exception or a cancellation leaves the loop out of the reload's await.
ReloadInterrupted ==
  /\ pc = "reload"
  /\ pc' = "refresh"
  /\ UNCHANGED <<cur, accepting, err, provider, flags, queues, stopCall,
                 steering, history>>

\* The finally block after refresh_repo_location: whatever is left in the
\* drain window and the live queue is parked, and the stream is gone.
Teardown ==
  /\ pc = "refresh"
  /\ pc' = "off"
  /\ cur' = {}
  /\ parked' = parked \cup draining \cup Flushed(pending)
  /\ pending' = {}
  /\ draining' = {}
  /\ stopCall' = "idle"
  /\ staleCalls' = steerCalls
  /\ UNCHANGED <<accepting, err, provider, flags, owned, steerWant, steerLock,
                 steerCalls, inflight, steerNo, early, cli, history>>

-----------------------------------------------------------------------------
(* Requests of the running agent and of the other clients.                 *)

ArmCode ==
  /\ pc # "off" /\ accepting /\ ~codeReq
  /\ codeReq' = TRUE
  /\ UNCHANGED <<drive, userStopped, reloadReq, question, queues, stopCall,
                 steering, history>>

ArmReload ==
  /\ pc # "off" /\ accepting /\ ~reloadReq
  /\ reloadReq' = TRUE
  /\ UNCHANGED <<drive, userStopped, codeReq, question, queues, stopCall,
                 steering, history>>

\* The open form is answered or found stale.
AnswerQuestion ==
  /\ question
  /\ question' = FALSE
  /\ UNCHANGED <<drive, userStopped, codeReq, reloadReq, queues, stopCall,
                 steering, history>>

\* The idle sweep releases a provider nothing holds.
ReapProvider ==
  /\ pc = "off" /\ provider /\ ~question
  /\ provider' = FALSE
  /\ steerLock' = 0
  /\ UNCHANGED <<pc, cur, accepting, err, flags, queues, stopCall, steerWant,
                 steerCalls, staleCalls, inflight, steerNo, early, cli, history>>

-----------------------------------------------------------------------------
(* Stop.                                                                   *)

\* stop_chat up to its first await.  Without a provider it returns at once;
\* with no turn task it reverts the steers and waits for the drive.
StopRequest ==
  /\ pc # "off"
  /\ stopCall = "idle"
  /\ userStopped' = TRUE
  /\ held' = held \cup UNION (Flushed(pending) \cup draining)
  /\ \/ /\ ~provider
        /\ UNCHANGED <<stopCall, pending>>
     \/ /\ provider
        /\ pc \in {"spawned", "turn"}
        /\ stopCall' = "asked"
        /\ UNCHANGED pending
     \/ /\ provider
        /\ pc \notin {"spawned", "turn"}
        /\ stopCall' = "cleanup"
        /\ pending' = Reverted(pending)
  /\ UNCHANGED <<drive, codeReq, reloadReq, question, draining, parked, owned,
                 steering, acked, dropped, heard>>

\* stop_chat after its sleep(0): the provider stop has begun, so the provider
\* has dropped the steers it holds, and the entries are follow-ups again.
StopReverts ==
  /\ stopCall = "asked"
  /\ stopCall' = "waiting"
  /\ cli' = {}
  /\ pending' = Reverted(pending)
  /\ UNCHANGED <<drive, flags, draining, parked, owned, steerWant, calls,
                 steerNo, early, history>>

-----------------------------------------------------------------------------
(* Steering: steer_queue under the chat's steer lock.                      *)

SteerCandidates == {e \in pending : e.delivery = "steer" /\ ~Locked(e)}

\* steer_queue gets the lock and no turn can take a steer, or steer_turn
\* returns nothing at once: every steer falls back.  With no candidate in a
\* live turn there is nothing to do.
SteerRefused ==
  /\ steerWant /\ steerLock = 0
  /\ steerWant' = FALSE
  /\ pending' = IF accepting /\ provider /\ SteerCandidates = {}
                THEN pending ELSE Reverted(pending)
  /\ UNCHANGED <<drive, flags, draining, parked, owned, stopCall, calls,
                 steerNo, early, cli, history>>

\* The provider's turn is open: the candidates are locked and go out as one.
SteerDispatch ==
  /\ steerWant /\ steerLock = 0
  /\ pc = "turn" /\ accepting /\ stopCall # "waiting"
  /\ SteerCandidates # {}
  /\ steerNo < MaxSteers
  /\ steerWant' = FALSE
  /\ steerNo' = steerNo + 1
  /\ steerLock' = steerNo + 1
  /\ steerCalls' = steerCalls \cup {steerNo + 1}
  /\ inflight' = TRUE
  /\ pending' = (pending \ SteerCandidates)
                \cup {[e EXCEPT !.sid = Dispatching] : e \in SteerCandidates}
  /\ cli' = cli \cup {[no |-> steerNo + 1,
                       ids |-> UNION Flushed(SteerCandidates)]}
  /\ UNCHANGED <<drive, flags, draining, parked, owned, stopCall, staleCalls,
                 early, history>>

\* on_steer_delivered with entries to take: they are user turns now.
Deliver(E, Q) ==
  /\ pending' = Q \ E
  /\ owned' = owned \cup UNION Flushed(E)

\* The call returns: the lock it holds is free again, unless a reload has
\* replaced the lock, and the stream it captured is no longer in flight.
CallReturns(n) ==
  /\ n \in steerCalls
  /\ steerCalls' = steerCalls \ {n}
  /\ staleCalls' = staleCalls \ {n}
  /\ steerLock' = IF steerLock = n THEN 0 ELSE steerLock
  /\ UNCHANGED <<drive, flags, draining, parked, stopCall, steerWant, steerNo,
                 history>>

\* steer_turn returned its delivery id: confirm_steering swaps the placeholder
\* of whatever waits on it, and the echo that came first, if it did, is
\* claimed.
SteerReturns(n) ==
  /\ CallReturns(n)
  /\ n \notin staleCalls
  /\ inflight' = FALSE
  /\ LET waiting == {e \in pending : e.sid = Dispatching}
         confirmed == {[e EXCEPT !.sid = n] : e \in waiting}
     IN  IF waiting # {} /\ n \in early
         THEN /\ early' = early \ {n}
              /\ Deliver(waiting, pending)
         ELSE /\ pending' = (pending \ waiting) \cup confirmed
              /\ UNCHANGED <<early, owned>>
  /\ UNCHANGED cli

\* steer_turn failed, timed out or returned nothing: every steer falls back.
SteerFails(n) ==
  /\ CallReturns(n)
  /\ n \notin staleCalls
  /\ inflight' = FALSE
  /\ cli' = {d \in cli : d.no # n}
  /\ pending' = Reverted(pending)
  /\ UNCHANGED <<owned, early>>

\* The call of a stream that has ended returns: it finds nothing of its own.
SteerStale(n) ==
  /\ CallReturns(n)
  /\ n \in staleCalls
  /\ UNCHANGED <<inflight, pending, owned, early, cli>>

\* The turn reads the provider's echo: on_steer_delivered.
SteerEcho(d) ==
  /\ pc = "turn"
  /\ d \in cli
  /\ cli' = cli \ {d}
  /\ heard' = heard \cup d.ids
  /\ LET E == {e \in pending : e.sid = d.no}
     IN  /\ Deliver(E, pending)
         /\ early' = IF E = {} /\ inflight THEN early \cup {d.no} ELSE early
  /\ UNCHANGED <<drive, flags, draining, parked, stopCall, steerWant, calls,
                 steerNo, acked, dropped, held>>

-----------------------------------------------------------------------------
Init ==
  /\ pc = "off" /\ cur = {} /\ accepting = FALSE /\ err = FALSE
  /\ provider = FALSE
  /\ userStopped = FALSE /\ codeReq = FALSE /\ reloadReq = FALSE
  /\ question = FALSE
  /\ pending = {} /\ draining = {} /\ parked = {} /\ owned = {}
  /\ stopCall = "idle"
  /\ steerWant = FALSE /\ steerNo = 0 /\ early = {}
  /\ steerLock = 0 /\ steerCalls = {} /\ staleCalls = {} /\ inflight = FALSE
  /\ cli = {}
  /\ acked = {} /\ dropped = {} /\ held = {} /\ heard = {}

Send(m) ==
  \/ SendStarts(m)
  \/ \E delivery \in {"queue", "steer"} : SendQueues(m, delivery)
  \/ SendFallsThrough(m)

Chips ==
  \/ \E G \in SUBSET parked : SendNow(G)
  \/ \E g \in parked \cup Flushed(pending) : Remove(g)
  \/ \E e \in pending, delivery \in {"queue", "steer"} : SetDelivery(e, delivery)
  \/ \E g \in parked : Adopt(g)

Drive ==
  \/ LoopTop \/ BeginTurn \/ AskNative \/ \E armed \in BOOLEAN : ErrorResult(armed)
  \/ PromptCancelled \/ TurnReturns \/ ForceClose \/ TurnRaises
  \/ QuestionPauses \/ \E reloaded \in BOOLEAN : ReloadReturns(reloaded)
  \/ ReloadInterrupted \/ Teardown

Steer ==
  \/ SteerRefused \/ SteerDispatch
  \/ \E n \in steerCalls : SteerReturns(n) \/ SteerFails(n) \/ SteerStale(n)
  \/ \E d \in cli : SteerEcho(d)

Next ==
  \/ \E m \in Msgs : Send(m)
  \/ Chips
  \/ Drive
  \/ ArmCode \/ ArmReload \/ AnswerQuestion \/ ReapProvider
  \/ StopRequest \/ StopReverts
  \/ Steer

Spec == Init /\ [][Next]_vars

\* The event loop runs every ready task: the drive's steps between awaits and
\* stop_chat after its sleep(0); Stop's grace timer fires; refresh_repo_location
\* is bounded by its timeout; a provider's disconnect returns.  A turn itself
\* need never end, and no client need ever act.
Fairness ==
  /\ WF_vars(LoopTop)
  /\ WF_vars(BeginTurn)
  /\ WF_vars(StopReverts)
  /\ WF_vars(ForceClose)
  /\ WF_vars(ReloadReturns(TRUE) \/ ReloadReturns(FALSE))
  /\ WF_vars(Teardown)

FairSpec == Spec /\ Fairness

-----------------------------------------------------------------------------
(* Properties.                                                             *)

\* Every variable has its type.
TypeOK ==
  /\ pc \in {"off", "prelude", "spawned", "turn", "reload", "refresh"}
  /\ accepting \in BOOLEAN /\ err \in BOOLEAN /\ provider \in BOOLEAN
  /\ userStopped \in BOOLEAN /\ codeReq \in BOOLEAN /\ reloadReq \in BOOLEAN
  /\ question \in BOOLEAN /\ steerWant \in BOOLEAN /\ inflight \in BOOLEAN
  /\ cur \in Group /\ owned \in Group
  /\ pending \subseteq Entry /\ draining \subseteq Group /\ parked \subseteq Group
  /\ stopCall \in {"idle", "asked", "waiting", "cleanup"}
  /\ steerNo \in 0..MaxSteers /\ steerLock \in 0..MaxSteers
  /\ steerCalls \subseteq SteerNos /\ staleCalls \subseteq SteerNos
  /\ early \subseteq SteerNos /\ cli \subseteq Dispatch
  /\ acked \in Group /\ dropped \in Group /\ held \in Group /\ heard \in Group

\* A send id has one owner: a recorded turn, or one entry of the live queue,
\* the drain window or the parked queue.  Two owners would run it twice, and
\* the duplicate test of the message route reads exactly these places.
OneOwner ==
  /\ owned \cap QueuedIds = {}
  /\ \A e, f \in pending : e = f \/ e.ids \cap f.ids = {}
  /\ \A g, h \in draining \cup parked : g = h \/ g \cap h = {}
  /\ \A e \in pending, g \in draining \cup parked : e.ids \cap g = {}
  /\ draining \cap parked = {}

\* A send the server queued or started is never lost: until its client takes
\* it back it belongs to a turn or waits in a queue, through every end of a
\* turn, Stop, error park, reload and teardown.
AcceptedKept == acked \ dropped \subseteq owned \cup QueuedIds

\* The same for every send the client was told is under way, the ones that
\* start_stream answered with a stream already past its queue included:
\* queue_message returns False ``so the caller starts a real turn instead''.
AckedTaken == acked \subseteq owned \cup QueuedIds

\* Stop holds the whole queue: a message queued when Stop landed never becomes
\* the prompt of a turn until its user touches it again.
StopHolds == cur \cap held = {}

\* A chip locked as steering is unlocked by the end of the turn at the latest,
\* also when a reload has let two dispatches overlap.
LockedOnlyInTurn == pc # "turn" => \A e \in pending : ~Locked(e)

\* A steer the provider has accepted stays locked until its echo, as long as
\* the turn goes on without a Stop or an error (steer_queue: the entries stay
\* ``locked and marked steering until the provider confirms delivery'').
ConfirmedStaysLocked ==
  [][\A e \in pending :
       /\ e.sid \in SteerNos
       /\ pc = "turn" /\ pc' = "turn" /\ stopCall' = "idle" /\ ~err'
       => e \in pending' \/ e.ids \subseteq owned']_vars

\* Stop does not return to the queue a steer whose echo has landed (stop_chat:
\* ``an echo that lands first is still delivered rather than sent again'').
StopKeepsEarlyEcho ==
  [][\A e \in pending :
       /\ stopCall = "asked" /\ stopCall' = "waiting"
       /\ Locked(e) /\ e.ids \subseteq heard
       => e.ids \subseteq owned']_vars

\* A Stop that found the provider ends the drive, however stuck the turn is.
StopSettles == stopCall # "idle" ~> pc = "off"

\* Every Stop ends the drive (stop_chat: ``Stop works with every provider and
\* never hangs'').
EveryStopSettles == userStopped /\ pc # "off" ~> pc = "off"

\* Each message follows MessageLifecycle.
Standing ==
  [m \in Msgs |-> IF m \in cur THEN "running"
                  ELSE IF m \in QueuedIds THEN "waiting"
                  ELSE IF m \in owned THEN "done" ELSE "unsent"]
Lifecycle == INSTANCE MessageLifecycle WITH status <- Standing
ImplementsLifecycle == Lifecycle!Spec
=============================================================================
