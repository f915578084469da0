--------------------------- MODULE ChatTurnProofs ---------------------------
(* The safety of ChatTurn for every set of sends and any number of steers. *)
EXTENDS ChatTurn, TLAPS

\* OneOwner and the ids somebody owns, as predicates of the four containers,
\* so that the lemmas can speak of the containers an action leaves behind.
Ownership(P, D, K, O) ==
  /\ P \subseteq Entry /\ D \subseteq Group /\ K \subseteq Group /\ O \in Group
  /\ \A e \in P : e.ids \cap O = {}
  /\ \A g \in D \cup K : g \cap O = {}
  /\ \A e, f \in P : e = f \/ e.ids \cap f.ids = {}
  /\ \A g, h \in D \cup K : g = h \/ g \cap h = {}
  /\ \A e \in P, g \in D \cup K : e.ids \cap g = {}
  /\ D \cap K = {}
  /\ \A e \in P : e.ids # {}
  /\ {} \notin D \cup K

Live(P, D) == UNION (Flushed(P) \cup D)
Known(P, D, K, O) == O \cup UNION (Flushed(P) \cup D \cup K)

\* The drain window is used only across the reload's await, by one entry, and
\* a chat without a stream has no live queue and no stop call.
Window ==
  /\ pc \notin {"reload", "refresh"} => draining = {}
  /\ \A g, h \in draining : g = h
  /\ pc = "off" => pending = {} /\ stopCall = "idle"

\* A Stop stays visible to the drive until the loop has ended.
StopSeen == stopCall # "idle" => userStopped \/ pc = "refresh"

\* What a Stop held is known, and while no Stop is in force none of it is
\* where the loop takes its next prompt from.
HeldParked ==
  /\ held \subseteq Known(pending, draining, parked, owned)
  /\ ~userStopped => Live(pending, draining) \cap held = {}

Core ==
  /\ Ownership(pending, draining, parked, owned)
  /\ cur \subseteq owned
  /\ Window
  /\ StopSeen
  /\ HeldParked
  /\ AcceptedKept
  /\ StopHolds

Inv == TypeOK /\ Core

-----------------------------------------------------------------------------
(* What the queue operations do to ownership.                              *)

\* Rewriting the delivery state of entries keeps every owner.
LEMMA Relabel ==
  ASSUME NEW P, NEW D, NEW K, NEW O, Ownership(P, D, K, O),
         NEW f \in [P -> Entry], \A e \in P : f[e].ids = e.ids
  PROVE  /\ Ownership({f[e] : e \in P}, D, K, O)
         /\ Flushed({f[e] : e \in P}) = Flushed(P)
  BY DEF Ownership, Flushed, Entry, Group

LEMMA RevertedOwned ==
  ASSUME NEW P, NEW D, NEW K, NEW O, Ownership(P, D, K, O)
  PROVE  /\ Ownership(Reverted(P), D, K, O)
         /\ Flushed(Reverted(P)) = Flushed(P)
<1> DEFINE f == [e \in P |-> IF e.delivery = "steer"
                             THEN NewEntry(e.ids, "queue") ELSE e]
<1>1. f \in [P -> Entry]
  BY DEF Ownership, Entry, NewEntry, SteerIds
<1>2. \A e \in P : f[e].ids = e.ids
  BY DEF NewEntry
<1>3. Reverted(P) = {f[e] : e \in P}
  BY DEF Reverted
<1> HIDE DEF f
<1>4. /\ Ownership({f[e] : e \in P}, D, K, O)
      /\ Flushed({f[e] : e \in P}) = Flushed(P)
  BY <1>1, <1>2, Relabel
<1> QED BY <1>3, <1>4

\* The end of a drive parks the live queue and the drain window.
LEMMA ParkAll ==
  ASSUME NEW P, NEW D, NEW K, NEW O, Ownership(P, D, K, O),
         NEW K2, K2 = K \cup D \cup Flushed(P)
  PROVE  /\ Ownership({}, {}, K2, O)
         /\ Known({}, {}, K2, O) = Known(P, D, K, O)
  BY DEF Ownership, Known, Flushed, Entry, Group

\* An error or a pause parks the live queue alone.
LEMMA ParkLive ==
  ASSUME NEW P, NEW D, NEW K, NEW O, Ownership(P, D, K, O),
         NEW K2, K2 = K \cup Flushed(P)
  PROVE  /\ Ownership({}, D, K2, O)
         /\ Known({}, D, K2, O) = Known(P, D, K, O)
  BY DEF Ownership, Known, Flushed, Entry, Group

\* drain_one moves an entry into the empty drain window.
LEMMA Drain ==
  ASSUME NEW P, NEW K, NEW O, Ownership(P, {}, K, O), NEW q \in P
  PROVE  /\ Ownership(P \ {q}, {q.ids}, K, O)
         /\ Known(P \ {q}, {q.ids}, K, O) = Known(P, {}, K, O)
         /\ Live(P \ {q}, {q.ids}) = Live(P, {})
  BY DEF Ownership, Known, Live, Flushed, Entry, Group

\* The drained entry becomes the prompt of the next turn.
LEMMA Take ==
  ASSUME NEW P, NEW K, NEW O, NEW g, Ownership(P, {g}, K, O)
  PROVE  /\ Ownership(P, {}, K, O \cup g)
         /\ Known(P, {}, K, O \cup g) = Known(P, {g}, K, O)
  BY DEF Ownership, Known, Flushed, Entry, Group

\* A delivered steer moves entries of the live queue to the turn.
LEMMA Delivered ==
  ASSUME NEW P, NEW D, NEW K, NEW O, Ownership(P, D, K, O), NEW E \in SUBSET P
  PROVE  /\ Ownership(P \ E, D, K, O \cup UNION Flushed(E))
         /\ Known(P \ E, D, K, O \cup UNION Flushed(E)) = Known(P, D, K, O)
         /\ Live(P \ E, D) \subseteq Live(P, D)
  BY DEF Ownership, Known, Live, Flushed, Entry, Group

\* An id nobody owns may be queued.
LEMMA Enqueue ==
  ASSUME NEW P, NEW D, NEW K, NEW O, Ownership(P, D, K, O),
         NEW e \in Entry, e.ids # {},
         e.ids \cap Known(P, D, K, O) = {}
  PROVE  /\ Ownership(P \cup {e}, D, K, O)
         /\ Known(P \cup {e}, D, K, O) = Known(P, D, K, O) \cup e.ids
         /\ Live(P \cup {e}, D) = Live(P, D) \cup e.ids
  BY DEF Ownership, Known, Live, Flushed, Entry, Group

-----------------------------------------------------------------------------
(* Type correctness.                                                       *)

LEMMA FlushedType ==
  ASSUME NEW P \in SUBSET Entry
  PROVE  Flushed(P) \subseteq Group /\ UNION Flushed(P) \in Group
  BY DEF Flushed, Entry, Group

LEMMA RevertedType ==
  ASSUME NEW P \in SUBSET Entry
  PROVE  Reverted(P) \subseteq Entry
  BY DEF Reverted, NewEntry, Entry, SteerIds

\* Locking entries of the live queue under a steer id.
LEMMA LabelType ==
  ASSUME NEW P \in SUBSET Entry, NEW S \in SUBSET P, NEW x \in SteerIds
  PROVE  (P \ S) \cup {[e EXCEPT !.sid = x] : e \in S} \subseteq Entry
<1>1. \A e \in S : [e EXCEPT !.sid = x] \in Entry
  BY DEF Entry
<1> QED BY <1>1

LEMMA SteerBound == MaxSteers \in Nat /\ 0 \in 0..MaxSteers
<1>1. MaxSteers \in Nat
  BY ONLY SteerIdAssumption
<1> QED BY <1>1

LEMMA DecideType ==
  ASSUME TypeOK, NEW next \in SUBSET Group, NEW rest \in SUBSET Entry,
         NEW failed, Decide(next, rest, failed)
  PROVE  /\ pc' \in {"spawned", "refresh"}
         /\ accepting' \in BOOLEAN /\ userStopped' \in BOOLEAN
         /\ question' \in BOOLEAN
         /\ cur' \in Group /\ owned' \in Group
         /\ pending' \subseteq Entry /\ draining' \subseteq Group
         /\ parked' \subseteq Group
<1>1. Flushed(rest) \subseteq Group
  BY FlushedType
<1>2. CASE EndAccepting(parked \cup Flushed(rest) \cup next)
  BY <1>1, <1>2 DEF EndAccepting, TypeOK
<1>3. CASE FormHolds(next, rest)
  BY <1>1, <1>3 DEF FormHolds, TypeOK
<1>4. ASSUME NEW g \in next, FollowUp(g, rest)
      PROVE  owned' \in Group /\ cur' \in Group /\ pending' \subseteq Entry
  BY <1>4 DEF FollowUp, TypeOK, Group
<1>5. CASE \E g \in next : FollowUp(g, rest)
  BY <1>4, <1>5 DEF FollowUp, TypeOK
<1> QED BY <1>2, <1>3, <1>5 DEF Decide

LEMMA BottomType ==
  ASSUME TypeOK, Bottom(Reverted(pending), err)
  PROVE  /\ pc' \in {"spawned", "reload", "refresh"}
         /\ accepting' \in BOOLEAN /\ userStopped' \in BOOLEAN
         /\ question' \in BOOLEAN /\ provider' \in BOOLEAN
         /\ codeReq' \in BOOLEAN /\ reloadReq' \in BOOLEAN
         /\ steerLock' \in 0..MaxSteers
         /\ cur' \in Group /\ owned' \in Group
         /\ pending' \subseteq Entry /\ draining' \subseteq Group
         /\ parked' \subseteq Group
<1> DEFINE P == Reverted(pending)
<1>1. P \subseteq Entry
  BY RevertedType DEF TypeOK
<1> HIDE DEF P
<1>2. PICK one \in Drained(P) :
        LET next == Flushed(one)
            rest == P \ one
        IN \/ /\ codeReq /\ next = {} /\ ~err /\ ~userStopped
              /\ HiddenTurn
              /\ pending' = {}
              /\ UNCHANGED <<provider, steerLock>>
           \/ /\ reloadReq /\ ~userStopped /\ ~question
              /\ pc' = "reload"
              /\ provider' = FALSE
              /\ steerLock' = 0
              /\ draining' = next
              /\ pending' = rest
              /\ UNCHANGED <<cur, accepting, parked, userStopped, owned,
                             question>>
           \/ /\ Decide(next, rest, err)
              /\ UNCHANGED <<provider, steerLock>>
  BY DEF Bottom, P
<1>3. one \subseteq P /\ P \ one \subseteq Entry /\ Flushed(one) \subseteq Group
  BY <1>1, FlushedType DEF Drained
<1>4. codeReq' \in BOOLEAN /\ reloadReq' \in BOOLEAN
  BY DEF Bottom
<1>5. CASE HiddenTurn /\ pending' = {} /\ UNCHANGED <<provider, steerLock>>
  BY <1>4, <1>5 DEF HiddenTurn, TypeOK, Group
<1>6. CASE /\ pc' = "reload"
           /\ provider' = FALSE
           /\ steerLock' = 0
           /\ draining' = Flushed(one)
           /\ pending' = P \ one
           /\ UNCHANGED <<cur, accepting, parked, userStopped, owned, question>>
  BY <1>3, <1>4, <1>6, SteerBound DEF TypeOK
<1>7. CASE Decide(Flushed(one), P \ one, err) /\ UNCHANGED <<provider, steerLock>>
  BY <1>3, <1>4, <1>7, DecideType DEF TypeOK
<1> QED BY <1>2, <1>5, <1>6, <1>7

LEMMA TypeStep == TypeOK /\ [Next]_vars => TypeOK'
<1> SUFFICES ASSUME TypeOK, [Next]_vars PROVE TypeOK'
  OBVIOUS
<1> USE DEF TypeOK, drive, flags, queues, calls, steering, history
<1>1. ASSUME NEW m \in Msgs, Send(m) PROVE TypeOK'
  <2>1. CASE SendStarts(m)
    BY <1>1, <2>1 DEF SendStarts, Open, Accept, Group
  <2>2. ASSUME NEW d \in {"queue", "steer"}, SendQueues(m, d) PROVE TypeOK'
    BY <1>1, <2>2 DEF SendQueues, Accept, Group, NewEntry, Entry, SteerIds
  <2>3. CASE SendFallsThrough(m)
    BY <1>1, <2>3 DEF SendFallsThrough, Group
  <2> QED BY <1>1, <2>1, <2>2, <2>3 DEF Send
<1>2. CASE Chips
  <2>1. ASSUME NEW G \in SUBSET parked, SendNow(G) PROVE TypeOK'
    BY <2>1 DEF SendNow, Open, Group
  <2>2. ASSUME NEW g, Remove(g) PROVE TypeOK'
    BY <2>2 DEF Remove, Group
  <2>3. ASSUME NEW e, NEW d \in {"queue", "steer"}, SetDelivery(e, d)
        PROVE TypeOK'
    <3>1. [e EXCEPT !.delivery = d] \in Entry
      BY <2>3 DEF SetDelivery, Entry
    <3> QED BY <2>3, <3>1 DEF SetDelivery, Group
  <2>4. ASSUME NEW g, Adopt(g) PROVE TypeOK'
    BY <2>4 DEF Adopt, Group, NewEntry, Entry, SteerIds
  <2> QED BY <1>2, <2>1, <2>2, <2>3, <2>4 DEF Chips
<1>3. CASE Drive
  <2>1. CASE LoopTop
    <3>1. CASE userStopped
      BY <2>1, <3>1, BottomType DEF LoopTop
    <3>2. CASE ~userStopped
      BY <2>1, <3>2 DEF LoopTop
    <3> QED BY <3>1, <3>2
  <2>2. CASE BeginTurn
    BY <2>2 DEF BeginTurn
  <2>3. CASE AskNative
    BY <2>3 DEF AskNative
  <2>4. ASSUME NEW armed \in BOOLEAN, ErrorResult(armed) PROVE TypeOK'
    BY <2>4, FlushedType DEF ErrorResult
  <2>5. CASE PromptCancelled
    BY <2>5 DEF PromptCancelled, Group
  <2>6. CASE TurnReturns
    <3>1. heard' \in Group
      BY <2>6 DEF TurnReturns, Group
    <3> QED BY <2>6, <3>1, BottomType DEF TurnReturns, TurnEnds
  <2>7. CASE ForceClose
    BY <2>6, <2>7 DEF ForceClose
  <2>8. CASE TurnRaises
    <3>1. heard' \in Group
      BY <2>8 DEF TurnRaises, Group
    <3> QED BY <2>8, <3>1, FlushedType DEF TurnRaises, TurnEnds
  <2>9. CASE QuestionPauses
    <3>1. heard' \in Group
      BY <2>9 DEF QuestionPauses, Group
    <3> QED BY <2>9, <3>1, FlushedType DEF QuestionPauses, TurnEnds
  <2>10. ASSUME NEW r \in BOOLEAN, ReloadReturns(r) PROVE TypeOK'
    <3>1. CASE Decide(draining, pending, err)
      BY <2>10, <3>1, DecideType DEF ReloadReturns
    <3>2. CASE EndAccepting(parked \cup Flushed(pending))
      BY <2>10, <3>2, FlushedType DEF ReloadReturns, EndAccepting
    <3>3. CASE HiddenTurn /\ UNCHANGED pending
      BY <2>10, <3>3 DEF ReloadReturns, HiddenTurn, Group
    <3> QED BY <2>10, <3>1, <3>2, <3>3 DEF ReloadReturns
  <2>11. CASE ReloadInterrupted
    BY <2>11 DEF ReloadInterrupted
  <2>12. CASE Teardown
    BY <2>12, FlushedType DEF Teardown, Group
  <2> QED BY <1>3, <2>1, <2>2, <2>3, <2>4, <2>5, <2>6, <2>7, <2>8, <2>9, <2>10,
             <2>11, <2>12 DEF Drive
<1>4. CASE ArmCode \/ ArmReload \/ AnswerQuestion
  <2>1. CASE ArmCode
    BY <2>1 DEF ArmCode
  <2>2. CASE ArmReload
    BY <2>2 DEF ArmReload
  <2>3. CASE AnswerQuestion
    <3>1. UNCHANGED <<drive, userStopped, codeReq, reloadReq, queues, stopCall,
                      steering, history>> /\ question' \in BOOLEAN
      BY <2>3 DEF AnswerQuestion
    <3> QED BY <3>1
  <2> QED BY <1>4, <2>1, <2>2, <2>3
<1>5. CASE ReapProvider
  BY <1>5, SteerBound DEF ReapProvider
<1>6. CASE StopRequest
  <2>1. Live(pending, draining) \in Group
    BY DEF Live, Flushed, Entry, Group
  <2> QED BY <1>6, <2>1, RevertedType DEF StopRequest, Live, Group
<1>7. CASE StopReverts
  BY <1>7, RevertedType DEF StopReverts
<1>8. CASE Steer
  <2>1. CASE SteerRefused
    <3>1. pending' \subseteq Entry
      BY <2>1, RevertedType DEF SteerRefused
    <3>2. UNCHANGED <<drive, flags, draining, parked, owned, stopCall, calls,
                      steerNo, early, cli, history>> /\ steerWant' \in BOOLEAN
      BY <2>1 DEF SteerRefused
    <3> QED BY <3>1, <3>2
  <2>2. CASE SteerDispatch
    <3>1. steerNo + 1 \in SteerNos /\ steerNo + 1 \in 0..MaxSteers
      BY <2>2, SteerBound DEF SteerDispatch, SteerNos
    <3>2. SteerCandidates \subseteq pending /\ Dispatching \in SteerIds
      BY DEF SteerCandidates, SteerIds
    <3>3. UNION Flushed(SteerCandidates) \in Group
      BY FlushedType DEF SteerCandidates
    <3> DEFINE S == SteerCandidates
               Q == (pending \ S) \cup {[e EXCEPT !.sid = Dispatching] : e \in S}
    <3>7. pending' = Q
      BY <2>2 DEF SteerDispatch
    <3>10. Q \subseteq Entry
      <4> HIDE DEF S
      <4>1. pending \in SUBSET Entry /\ S \in SUBSET pending
        BY <3>2 DEF S
      <4> QED BY ONLY <4>1, <3>2, LabelType
    <3> HIDE DEF Q
    <3> DEFINE d == [no |-> steerNo + 1, ids |-> UNION Flushed(SteerCandidates)]
    <3>8. d \in Dispatch
      BY ONLY <3>1, <3>3 DEF Dispatch
    <3> HIDE DEF d
    <3>9. cli' \subseteq Dispatch
      <4>1. cli' = cli \cup {d}
        BY <2>2 DEF SteerDispatch, d
      <4> QED BY <3>8, <4>1
    <3>4. pending' \subseteq Entry
      BY <3>7, <3>10
    <3>5. /\ steerNo' \in 0..MaxSteers /\ steerLock' \in 0..MaxSteers
          /\ steerCalls' \subseteq SteerNos
          /\ steerWant' \in BOOLEAN /\ inflight' \in BOOLEAN
      BY <2>2, <3>1 DEF SteerDispatch
    <3>6. UNCHANGED <<drive, flags, draining, parked, owned, stopCall,
                      staleCalls, early, history>>
      BY <2>2 DEF SteerDispatch
    <3> QED BY <3>4, <3>5, <3>6, <3>9
  <2>3. ASSUME NEW n \in steerCalls, CallReturns(n)
        PROVE  /\ steerCalls' \subseteq SteerNos /\ staleCalls' \subseteq SteerNos
               /\ steerLock' \in 0..MaxSteers
               /\ UNCHANGED <<drive, flags, draining, parked, stopCall, steerWant,
                              steerNo, history>>
    BY <2>3, SteerBound DEF CallReturns
  <2>4. ASSUME NEW n \in steerCalls, SteerReturns(n) PROVE TypeOK'
    <3> DEFINE waiting == {e \in pending : e.sid = Dispatching}
    <3>1. \A e \in waiting : [e EXCEPT !.sid = n] \in Entry
      BY DEF Entry, SteerIds
    <3>2. UNION Flushed(waiting) \in Group
      BY FlushedType
    <3>3. owned' \in Group /\ pending' \subseteq Entry /\ early' \subseteq SteerNos
      BY <2>4, <3>1, <3>2 DEF SteerReturns, Deliver, Group
    <3>4. CallReturns(n) /\ inflight' \in BOOLEAN /\ UNCHANGED cli
      BY <2>4 DEF SteerReturns
    <3> QED BY <2>3, <3>3, <3>4
  <2>5. ASSUME NEW n \in steerCalls, SteerFails(n) PROVE TypeOK'
    <3>1. pending' \subseteq Entry /\ cli' \subseteq Dispatch
      BY <2>5, RevertedType DEF SteerFails
    <3>2. CallReturns(n) /\ inflight' \in BOOLEAN /\ UNCHANGED <<owned, early>>
      BY <2>5 DEF SteerFails
    <3> QED BY <2>3, <3>1, <3>2
  <2>6. ASSUME NEW n \in steerCalls, SteerStale(n) PROVE TypeOK'
    BY <2>3, <2>6 DEF SteerStale, CallReturns
  <2>7. ASSUME NEW d \in cli, SteerEcho(d) PROVE TypeOK'
    <3> DEFINE E == {e \in pending : e.sid = d.no}
    <3>1. UNION Flushed(E) \in Group
      BY FlushedType
    <3>2. owned' \in Group /\ pending' \subseteq Entry
      BY <2>7, <3>1 DEF SteerEcho, Deliver, Group
    <3>3. heard' \in Group /\ early' \subseteq SteerNos
      BY <2>7 DEF SteerEcho, Dispatch, Group
    <3> QED BY <2>7, <3>2, <3>3 DEF SteerEcho
  <2> QED BY <1>8, <2>1, <2>2, <2>4, <2>5, <2>6, <2>7 DEF Steer
<1>9. CASE UNCHANGED vars
  BY <1>9 DEF vars
<1> QED BY <1>1, <1>2, <1>3, <1>4, <1>5, <1>6, <1>7, <1>8, <1>9 DEF Next

\* Every variable of the chat keeps its type in every behaviour.
THEOREM TypeCorrect == Spec => []TypeOK
<1>1. Init => TypeOK
  BY SteerBound DEF Init, TypeOK, Group
<1> QED BY <1>1, TypeStep, PTL DEF Spec

-----------------------------------------------------------------------------
(* The invariant is inductive.  Each lemma is one shape of step; the steps  *)
(* of the drive that decide what runs next come last.                       *)

\* An id nobody owns may start a turn.
LEMMA Begin ==
  ASSUME NEW P, NEW D, NEW K, NEW O, Ownership(P, D, K, O),
         NEW g \in Group, g \cap Known(P, D, K, O) = {}
  PROVE  /\ Ownership(P, D, K, O \cup g)
         /\ Known(P, D, K, O \cup g) = Known(P, D, K, O) \cup g
  BY DEF Ownership, Known, Flushed, Entry, Group

\* Parked entries leave as one turn.
LEMMA TakeParked ==
  ASSUME NEW P, NEW D, NEW K, NEW O, Ownership(P, D, K, O), NEW G \in SUBSET K
  PROVE  /\ Ownership(P, D, K \ G, O \cup UNION G)
         /\ Known(P, D, K \ G, O \cup UNION G) = Known(P, D, K, O)
  BY DEF Ownership, Known, Flushed, Entry, Group

\* A parked entry joins the live queue.
LEMMA Unpark ==
  ASSUME NEW P, NEW D, NEW K, NEW O, Ownership(P, D, K, O), NEW g \in K
  PROVE  /\ Ownership(P, D, K \ {g}, O)
         /\ Known(P, D, K \ {g}, O) = Known(P, D, K, O) \ g
         /\ g \in Group /\ g # {} /\ g \subseteq Known(P, D, K, O)
<1>1. Ownership(P, D, K \ {g}, O)
  BY DEF Ownership
<1>2. /\ g \cap O = {}
      /\ \A h \in Flushed(P) \cup D \cup (K \ {g}) : g \cap h = {}
  BY DEF Ownership, Flushed
<1>3. Known(P, D, K \ {g}, O) = Known(P, D, K, O) \ g
  BY <1>2 DEF Known
<1>4. g \in Group /\ g # {} /\ g \subseteq Known(P, D, K, O)
  BY DEF Ownership, Known
<1> QED BY <1>1, <1>3, <1>4

\* An entry leaves the live queue.
LEMMA Unqueue ==
  ASSUME NEW P, NEW D, NEW K, NEW O, Ownership(P, D, K, O), NEW e \in P
  PROVE  /\ Ownership(P \ {e}, D, K, O)
         /\ Known(P \ {e}, D, K, O) = Known(P, D, K, O) \ e.ids
         /\ Live(P \ {e}, D) \subseteq Live(P, D)
  BY DEF Ownership, Known, Live, Flushed, Entry, Group

\* A cancelled prompt goes back to the parked queue.
LEMMA GiveBack ==
  ASSUME NEW P, NEW D, NEW K, NEW O, Ownership(P, D, K, O),
         NEW c \in SUBSET O, c # {}
  PROVE  /\ Ownership(P, D, K \cup {c}, O \ c)
         /\ Known(P, D, K \cup {c}, O \ c) = Known(P, D, K, O)
<1>1. /\ \A e \in P : e.ids \cap c = {}
      /\ \A g \in D \cup K : g \cap c = {} /\ g # c
  BY DEF Ownership
<1>2. c \in Group /\ O \ c \in Group
  BY DEF Ownership, Group
<1>3. \A g, h \in D \cup (K \cup {c}) : g = h \/ g \cap h = {}
  BY <1>1 DEF Ownership
<1>4. \A e \in P, g \in D \cup (K \cup {c}) : e.ids \cap g = {}
  BY <1>1 DEF Ownership
<1>5. Ownership(P, D, K \cup {c}, O \ c)
  BY <1>1, <1>2, <1>3, <1>4 DEF Ownership
<1>6. Known(P, D, K \cup {c}, O \ c) = Known(P, D, K, O)
  BY DEF Known
<1> QED BY <1>5, <1>6

LEMMA Disjoint ==
  ASSUME NEW P, NEW D, NEW K, NEW O, Ownership(P, D, K, O)
  PROVE  /\ Live(P, D) \cap O = {}
         /\ Live(P, D) \subseteq Known(P, D, K, O)
  BY DEF Ownership, Known, Live, Flushed, Entry, Group

\* The steps that leave every owner where it is.
LEMMA Frame ==
  ASSUME Core, UNCHANGED <<cur, queues, held>>,
         acked' \ dropped' \subseteq acked \ dropped,
         userStopped => userStopped', Window', StopSeen'
  PROVE  Core'
  BY DEF Core, HeldParked, AcceptedKept, StopHolds, QueuedIds, queues

\* The steps that only relabel entries of the live queue.
LEMMA QueueKept ==
  ASSUME Core, Ownership(pending', draining, parked, owned),
         Flushed(pending') = Flushed(pending),
         UNCHANGED <<pc, cur, draining, parked, owned, acked, dropped,
                     userStopped>>,
         stopCall' # "idle" => stopCall # "idle",
         held' \subseteq held
  PROVE  Core'
<1>1. pending = {} => pending' = {}
  BY DEF Flushed
<1>2. Window'
  BY <1>1 DEF Core, Window
<1>3. HeldParked'
  BY DEF Core, HeldParked, Known, Live
<1>4. AcceptedKept'
  BY DEF Core, AcceptedKept, QueuedIds
<1> QED BY <1>2, <1>3, <1>4 DEF Core, StopSeen, StopHolds

\* The steps that move ids between owners and lose none.
LEMMA Moved ==
  ASSUME Core,
         Ownership(pending', draining', parked', owned'),
         Known(pending, draining, parked, owned)
           \subseteq Known(pending', draining', parked', owned'),
         UNCHANGED <<acked, dropped>>,
         held' \subseteq held,
         cur' \subseteq owned', cur' \cap held' = {},
         Window', StopSeen',
         ~userStopped' => Live(pending', draining') \cap held' = {}
  PROVE  Core'
<1>1. HeldParked'
  BY DEF Core, HeldParked
<1>2. AcceptedKept'
  BY DEF Core, AcceptedKept, QueuedIds, Known
<1> QED BY <1>1, <1>2 DEF Core, StopHolds

\* The decision at the loop bottom: the drained entry runs only when no Stop is
\* in force, and otherwise everything is parked.
LEMMA DecideStep ==
  ASSUME Inv, NEW next, NEW rest, NEW failed,
         pc \in {"prelude", "turn", "reload"},
         Ownership(rest, next, parked, owned),
         \A g, h \in next : g = h,
         Known(rest, next, parked, owned)
           = Known(pending, draining, parked, owned),
         ~userStopped => Live(rest, next) \cap held = {},
         Decide(next, rest, failed),
         UNCHANGED <<stopCall, acked, dropped, held>>
  PROVE  Core'
<1> USE DEF Inv
<1>1. stopCall # "idle" => userStopped
  BY DEF Core, StopSeen
<1>2. CASE EndAccepting(parked \cup Flushed(rest) \cup next)
  <2>1. parked' = parked \cup next \cup Flushed(rest)
    BY <1>2 DEF EndAccepting
  <2>2. /\ Ownership({}, {}, parked', owned)
        /\ Known({}, {}, parked', owned) = Known(pending, draining, parked, owned)
    BY <2>1, ParkAll
  <2>3. /\ pc' = "refresh" /\ cur' = cur /\ owned' = owned
        /\ pending' = {} /\ draining' = {}
    BY <1>2 DEF EndAccepting
  <2>4. Live({}, {}) = {}
    BY DEF Live, Flushed
  <2> QED BY <2>2, <2>3, <2>4, Moved DEF Core, Window, StopSeen, StopHolds
<1>3. CASE FormHolds(next, rest)
  <2>1. parked' = parked \cup next \cup Flushed(rest)
    BY <1>3 DEF FormHolds
  <2>2. /\ Ownership({}, {}, parked', owned)
        /\ Known({}, {}, parked', owned) = Known(pending, draining, parked, owned)
    BY <2>1, ParkAll
  <2>3. /\ pc' = "refresh" /\ cur' = cur /\ owned' = owned
        /\ pending' = {} /\ draining' = {}
    BY <1>3 DEF FormHolds
  <2>4. Live({}, {}) = {}
    BY DEF Live, Flushed
  <2> QED BY <2>2, <2>3, <2>4, Moved DEF Core, Window, StopSeen, StopHolds
<1>4. ASSUME ~userStopped, NEW g \in next, FollowUp(g, rest) PROVE Core'
  <2>1. next = {g}
    OBVIOUS
  <2>2. /\ Ownership(rest, {}, parked, owned \cup g)
        /\ Known(rest, {}, parked, owned \cup g)
             = Known(pending, draining, parked, owned)
    BY <2>1, Take
  <2>3. /\ pc' = "spawned" /\ cur' = g /\ owned' = owned \cup g
        /\ pending' = rest /\ draining' = {} /\ parked' = parked
        /\ userStopped' = userStopped
    BY <1>4 DEF FollowUp
  <2>4. g \cap held = {} /\ Live(rest, {}) \cap held = {}
    BY <1>4, <2>1 DEF Live
  <2>5. Window' /\ StopSeen'
    BY <1>1, <1>4, <2>3 DEF Window, StopSeen
  <2> QED BY <2>2, <2>3, <2>4, <2>5, Moved
<1> QED BY <1>2, <1>3, <1>4 DEF Decide

\* One hidden continuation with an empty drain window.
LEMMA HiddenStep ==
  ASSUME Inv, pc \in {"prelude", "turn", "reload"}, ~userStopped, HiddenTurn,
         draining = {} , Flushed(pending') = Flushed(pending),
         Ownership(pending', {}, parked, owned),
         UNCHANGED <<stopCall, acked, dropped, held>>
  PROVE  Core'
<1>1. /\ pc' = "spawned" /\ cur' = {} /\ owned' = owned
      /\ draining' = {} /\ parked' = parked /\ userStopped' = userStopped
  BY DEF HiddenTurn
<1>2. /\ Known(pending', draining', parked', owned')
           = Known(pending, draining, parked, owned)
      /\ Live(pending', draining') = Live(pending, draining)
  BY <1>1 DEF Known, Live
<1>3. Window' /\ StopSeen'
  BY <1>1 DEF Inv, Core, Window, StopSeen
<1>4. Live(pending', draining') \cap held = {}
  BY <1>2 DEF Inv, Core, HeldParked
<1> QED BY <1>1, <1>2, <1>3, <1>4, Moved DEF Inv

\* The loop bottom, from the live queue as the fallen-back steers leave it.
LEMMA BottomStep ==
  ASSUME Inv, pc \in {"prelude", "turn"}, Bottom(Reverted(pending), err),
         UNCHANGED <<stopCall, acked, dropped, held>>
  PROVE  Core'
<1> DEFINE P == Reverted(pending)
<1>1. /\ draining = {}
      /\ Ownership(pending, {}, parked, owned)
  BY DEF Inv, Core, Window
<1>2. Ownership(P, {}, parked, owned) /\ Flushed(P) = Flushed(pending)
  BY <1>1, RevertedOwned
<1>3. /\ Known(P, {}, parked, owned) = Known(pending, draining, parked, owned)
      /\ Live(P, {}) = Live(pending, draining)
  BY <1>1, <1>2 DEF Known, Live
<1>4. ~userStopped => Live(P, {}) \cap held = {}
  BY <1>3 DEF Inv, Core, HeldParked
<1> HIDE DEF P
<1>5. PICK one \in Drained(P) :
        \/ /\ Flushed(one) = {} /\ ~userStopped /\ HiddenTurn /\ pending' = {}
        \/ /\ ~userStopped
           /\ pc' = "reload"
           /\ draining' = Flushed(one)
           /\ pending' = P \ one
           /\ UNCHANGED <<cur, accepting, parked, userStopped, owned, question>>
        \/ Decide(Flushed(one), P \ one, err)
  BY DEF Bottom, P
<1>6. /\ Ownership(P \ one, Flushed(one), parked, owned)
      /\ Known(P \ one, Flushed(one), parked, owned)
           = Known(pending, draining, parked, owned)
      /\ Live(P \ one, Flushed(one)) = Live(P, {})
      /\ \A g, h \in Flushed(one) : g = h
      /\ Flushed(one) = {} => P = {}
  <2>1. CASE P = {}
    <3>1. one = {} /\ Flushed(one) = {} /\ P \ one = P
      BY <2>1 DEF Drained, Flushed
    <3> QED BY <1>2, <1>3, <2>1, <3>1
  <2>2. CASE P # {}
    <3>1. PICK q \in P : one = {q}
      BY <2>2 DEF Drained
    <3>2. Flushed(one) = {q.ids}
      BY <3>1 DEF Flushed
    <3> QED BY <1>2, <1>3, <3>1, <3>2, Drain
  <2> QED BY <2>1, <2>2
<1>7. CASE /\ Flushed(one) = {} /\ ~userStopped /\ HiddenTurn /\ pending' = {}
  <2>1. P = {}
    BY <1>6, <1>7
  <2>2. Ownership(pending', {}, parked, owned) /\ Flushed(pending') = Flushed(pending)
    BY <1>2, <1>7, <2>1
  <2> QED BY <1>1, <1>7, <2>2, HiddenStep
<1>8. CASE /\ ~userStopped
           /\ pc' = "reload"
           /\ draining' = Flushed(one)
           /\ pending' = P \ one
           /\ UNCHANGED <<cur, accepting, parked, userStopped, owned, question>>
  <2>1. Window' /\ StopSeen'
    BY <1>6, <1>8 DEF Inv, Core, Window, StopSeen
  <2>2. Live(pending', draining') \cap held = {}
    BY <1>4, <1>6, <1>8
  <2> QED BY <1>6, <1>8, <2>1, <2>2, Moved DEF Inv, Core, StopHolds
<1>9. CASE Decide(Flushed(one), P \ one, err)
  BY <1>3, <1>4, <1>6, <1>9, DecideStep
<1> QED BY <1>5, <1>7, <1>8, <1>9

LEMMA SendStep ==
  ASSUME Inv, NEW m \in Msgs, Send(m)
  PROVE  Core'
<1> DEFINE Ids == Known(pending, draining, parked, owned)
<1>1. {m} \in Group /\ {m} # {}
  BY DEF Group
<1>2. Duplicate(m) <=> m \in Ids
  BY DEF Duplicate, QueuedIds, Known
<1>3. held \subseteq Ids /\ acked \ dropped \subseteq Ids
  BY DEF Inv, Core, HeldParked, AcceptedKept, QueuedIds, Known
<1> HIDE DEF Ids
<1>4. CASE SendStarts(m)
  <2>1. /\ pc = "off" /\ pc' = "prelude" /\ cur' = {m} /\ owned' = owned \cup {m}
        /\ UNCHANGED <<pending, draining, parked, held, stopCall>>
        /\ m \notin Ids
    BY <1>2, <1>4 DEF SendStarts, Open
  <2>2. /\ Ownership(pending', draining', parked', owned')
        /\ Known(pending', draining', parked', owned') = Ids \cup {m}
    BY <1>1, <2>1, Begin DEF Inv, Core, Ids
  <2>3. acked' = acked \cup {m} /\ dropped' \subseteq dropped
        /\ dropped \ {m} \subseteq dropped'
    BY <1>4 DEF SendStarts, Accept
  <2>4. Window' /\ StopSeen' /\ pending' = {} /\ draining' = {}
    BY <2>1 DEF Inv, Core, Window, StopSeen
  <2>5. Live(pending', draining') = {}
    BY <2>4 DEF Live, Flushed
  <2>6. HeldParked' /\ cur' \subseteq owned' /\ cur' \cap held' = {}
    BY <1>3, <2>1, <2>2, <2>5 DEF HeldParked
  <2>7. AcceptedKept'
    BY <1>3, <2>2, <2>3 DEF AcceptedKept, QueuedIds, Known
  <2> QED BY <2>2, <2>4, <2>6, <2>7 DEF Core, StopHolds
<1>5. ASSUME NEW d \in {"queue", "steer"}, SendQueues(m, d) PROVE Core'
  <2> DEFINE e == NewEntry({m}, d)
  <2>1. e \in Entry /\ e.ids = {m}
    BY <1>1 DEF NewEntry, Entry, SteerIds
  <2> HIDE DEF e
  <2>2. /\ pc # "off" /\ pending' = pending \cup {e}
        /\ UNCHANGED <<pc, cur, userStopped, draining, parked, owned, held, stopCall>>
        /\ m \notin Ids
    BY <1>2, <1>5 DEF SendQueues, e, drive, flags
  <2>3. /\ Ownership(pending', draining, parked, owned)
        /\ Known(pending', draining, parked, owned) = Ids \cup {m}
        /\ Live(pending', draining) = Live(pending, draining) \cup {m}
    <3>1. e.ids # {} /\ e.ids \cap Known(pending, draining, parked, owned) = {}
      BY <2>1, <2>2 DEF Ids
    <3> QED BY <2>1, <2>2, <3>1, Enqueue DEF Inv, Core, Ids
  <2>4. acked' = acked \cup {m} /\ dropped \ {m} \subseteq dropped'
    BY <1>5 DEF SendQueues, Accept
  <2>5. Window' /\ StopSeen'
    BY <2>2 DEF Inv, Core, Window, StopSeen
  <2>6. HeldParked'
    BY <1>3, <2>2, <2>3 DEF Inv, Core, HeldParked
  <2>7. AcceptedKept'
    BY <1>3, <2>2, <2>3, <2>4 DEF AcceptedKept, QueuedIds, Known
  <2> QED BY <2>2, <2>3, <2>5, <2>6, <2>7 DEF Inv, Core, StopHolds
<1>6. CASE SendFallsThrough(m)
  <2>1. UNCHANGED <<pc, cur, queues, held, userStopped, stopCall>>
        /\ acked' \ dropped' \subseteq acked \ dropped
    BY <1>6 DEF SendFallsThrough, drive, flags
  <2>2. Window' /\ StopSeen'
    BY <2>1 DEF Inv, Core, Window, StopSeen, queues
  <2> QED BY <2>1, <2>2, Frame DEF Inv
<1> QED BY <1>4, <1>5, <1>6 DEF Send

LEMMA ChipStep ==
  ASSUME Inv, Chips
  PROVE  Core'
<1> DEFINE Ids == Known(pending, draining, parked, owned)
<1>1. held \subseteq Ids /\ acked \ dropped \subseteq Ids
  BY DEF Inv, Core, HeldParked, AcceptedKept, QueuedIds, Known
<1>2. Ownership(pending, draining, parked, owned)
  BY DEF Inv, Core
<1> HIDE DEF Ids
<1>3. ASSUME NEW G \in SUBSET parked, SendNow(G) PROVE Core'
  <2>1. /\ pc = "off" /\ pc' = "prelude" /\ cur' = UNION G
        /\ owned' = owned \cup UNION G /\ parked' = parked \ G
        /\ held' = held \ UNION G
        /\ UNCHANGED <<pending, draining, acked, dropped, stopCall>>
    BY <1>3 DEF SendNow, Open
  <2>2. /\ Ownership(pending', draining', parked', owned')
        /\ Known(pending', draining', parked', owned') = Ids
    BY <1>2, <2>1, TakeParked DEF Ids
  <2>3. Window' /\ StopSeen' /\ pending' = {} /\ draining' = {}
    BY <2>1 DEF Inv, Core, Window, StopSeen
  <2>4. Live(pending', draining') = {}
    BY <2>3 DEF Live, Flushed
  <2> QED BY <2>1, <2>2, <2>3, <2>4, Moved DEF Inv, Ids
<1>4. ASSUME NEW g, Remove(g) PROVE Core'
  <2>1. /\ UNCHANGED <<pc, cur, userStopped, draining, owned, dropped, stopCall>>
        /\ acked' = acked \ g /\ held' = held \ g
    BY <1>4 DEF Remove, drive, flags
  <2>2. /\ Ownership(pending', draining, parked', owned)
        /\ Known(pending', draining, parked', owned) = Ids \ g
        /\ Live(pending', draining) \subseteq Live(pending, draining)
        /\ pending' \subseteq pending
    <3>1. ASSUME NEW e \in pending, e.ids = g, pending' = pending \ {e},
                 parked' = parked
          PROVE  /\ Ownership(pending', draining, parked', owned)
                 /\ Known(pending', draining, parked', owned) = Ids \ g
                 /\ Live(pending', draining) \subseteq Live(pending, draining)
                 /\ pending' \subseteq pending
      BY <1>2, <3>1, Unqueue DEF Ids
    <3>2. CASE g \in parked /\ parked' = parked \ {g} /\ pending' = pending
      <4>1. ASSUME NEW h \in parked
            PROVE  /\ Ownership(pending, draining, parked \ {h}, owned)
                   /\ Known(pending, draining, parked \ {h}, owned) = Ids \ h
                   /\ h \in Group /\ h # {} /\ h \subseteq Ids
        BY <1>2, Unpark DEF Ids
      <4> QED BY <3>2, <4>1
    <3> QED BY <1>4, <3>1, <3>2 DEF Remove
  <2>3. Window' /\ StopSeen'
    BY <2>1, <2>2 DEF Inv, Core, Window, StopSeen
  <2>4. HeldParked'
    BY <1>1, <2>1, <2>2 DEF Inv, Core, HeldParked
  <2>5. AcceptedKept'
    BY <1>1, <2>1, <2>2 DEF AcceptedKept, QueuedIds, Known
  <2> QED BY <2>1, <2>2, <2>3, <2>4, <2>5 DEF Inv, Core, StopHolds
<1>5. ASSUME NEW e, NEW d \in {"queue", "steer"}, SetDelivery(e, d) PROVE Core'
  <2> DEFINE f == [x \in pending |-> IF x = e THEN [x EXCEPT !.delivery = d] ELSE x]
  <2>1. f \in [pending -> Entry] /\ \A x \in pending : f[x].ids = x.ids
    BY <1>2 DEF Ownership, Entry
  <2>2. pending' = {f[x] : x \in pending}
    BY <1>5 DEF SetDelivery
  <2> HIDE DEF f
  <2>3. /\ Ownership(pending', draining, parked, owned)
        /\ Flushed(pending') = Flushed(pending)
    BY <1>2, <2>1, <2>2, Relabel
  <2>4. /\ UNCHANGED <<pc, cur, userStopped, draining, parked, owned, acked,
                       dropped, stopCall>>
        /\ held' \subseteq held
    BY <1>5 DEF SetDelivery, drive, flags
  <2> QED BY <2>3, <2>4, QueueKept DEF Inv
<1>6. ASSUME NEW g \in parked, Adopt(g) PROVE Core'
  <2> DEFINE e == NewEntry(g, "steer")
  <2>1. /\ Ownership(pending, draining, parked \ {g}, owned)
        /\ Known(pending, draining, parked \ {g}, owned) = Ids \ g
        /\ g \in Group /\ g # {} /\ g \subseteq Ids
    BY <1>2, Unpark DEF Ids
  <2>2. e \in Entry /\ e.ids = g
    BY <2>1 DEF NewEntry, Entry, SteerIds
  <2>3. /\ pc # "off" /\ pending' = pending \cup {e} /\ parked' = parked \ {g}
        /\ held' = held \ g
        /\ UNCHANGED <<pc, cur, userStopped, draining, owned, acked, dropped,
                       stopCall>>
    BY <1>6 DEF Adopt, drive, flags
  <2> HIDE DEF e
  <2>4. /\ Ownership(pending', draining, parked', owned)
        /\ Known(pending', draining, parked', owned) = (Ids \ g) \cup g
        /\ Live(pending', draining) = Live(pending, draining) \cup g
    <3>1. e.ids # {} /\ e.ids \cap Known(pending, draining, parked \ {g}, owned) = {}
      BY <2>1, <2>2
    <3>2. /\ Ownership(pending \cup {e}, draining, parked \ {g}, owned)
          /\ Known(pending \cup {e}, draining, parked \ {g}, owned)
               = Known(pending, draining, parked \ {g}, owned) \cup e.ids
          /\ Live(pending \cup {e}, draining) = Live(pending, draining) \cup e.ids
      BY ONLY <2>1, <2>2, <3>1, Enqueue
    <3> QED BY <2>1, <2>2, <2>3, <3>2
  <2>5. Window' /\ StopSeen'
    BY <2>3 DEF Inv, Core, Window, StopSeen
  <2>6. ~userStopped' => Live(pending', draining') \cap held' = {}
    BY <2>3, <2>4 DEF Inv, Core, HeldParked
  <2>7. cur' \subseteq owned' /\ cur' \cap held' = {}
    BY <2>3 DEF Inv, Core, StopHolds
  <2> QED BY <2>1, <2>3, <2>4, <2>5, <2>6, <2>7, Moved DEF Inv, Ids
<1> QED BY <1>3, <1>4, <1>5, <1>6 DEF Chips

\* The drive leaves its loop on an error or a pause: the live queue is parked.
LEMMA LeaveLoop ==
  ASSUME Inv, pc' = "refresh",
         parked' = parked \cup Flushed(pending), pending' = {},
         UNCHANGED <<cur, draining, owned, userStopped, stopCall, acked, dropped,
                     held>>,
         draining = {}
  PROVE  Core'
<1>1. /\ Ownership(pending', draining', parked', owned')
      /\ Known(pending', draining', parked', owned')
           = Known(pending, draining, parked, owned)
  BY ParkLive DEF Inv, Core
<1>2. Live(pending', draining') = {}
  BY DEF Live, Flushed
<1>3. Window' /\ StopSeen'
  BY DEF Window, StopSeen
<1> QED BY <1>1, <1>2, <1>3, Moved DEF Inv, Core, StopHolds

LEMMA DriveStep ==
  ASSUME Inv, Drive
  PROVE  Core'
<1>1. Ownership(pending, draining, parked, owned)
  BY DEF Inv, Core
<1>2. pc \notin {"reload", "refresh"} => draining = {}
  BY DEF Inv, Core, Window
<1>3. CASE LoopTop
  <2>1. CASE userStopped
    BY <1>3, <2>1, BottomStep DEF LoopTop, history
  <2>2. CASE ~userStopped
    <3>1. /\ UNCHANGED <<cur, queues, held, acked, dropped, userStopped, stopCall>>
          /\ pc = "prelude" /\ pc' = "spawned"
      BY <1>3, <2>2 DEF LoopTop, history, flags
    <3>2. Window' /\ StopSeen'
      BY <3>1 DEF Inv, Core, Window, StopSeen, queues
    <3> QED BY <3>1, <3>2, Frame DEF Inv
  <2> QED BY <2>1, <2>2
<1>4. CASE BeginTurn
  <2>1. /\ UNCHANGED <<cur, queues, held, acked, dropped, userStopped, stopCall>>
        /\ pc = "spawned" /\ pc' = "turn"
    BY <1>4 DEF BeginTurn, history, flags
  <2>2. Window' /\ StopSeen'
    BY <2>1 DEF Inv, Core, Window, StopSeen, queues
  <2> QED BY <2>1, <2>2, Frame DEF Inv
<1>5. CASE AskNative
  <2>1. UNCHANGED <<pc, cur, queues, held, acked, dropped, userStopped, stopCall>>
    BY <1>5 DEF AskNative, history, drive
  <2>2. Window' /\ StopSeen'
    BY <2>1 DEF Inv, Core, Window, StopSeen, queues
  <2> QED BY <2>1, <2>2, Frame DEF Inv
<1>6. ASSUME NEW armed \in BOOLEAN, ErrorResult(armed) PROVE Core'
  <2>1. /\ UNCHANGED <<pc, cur, held, acked, dropped, draining, owned, userStopped,
                       stopCall>>
        /\ pc = "turn" /\ draining = {}
    BY <1>2, <1>6 DEF ErrorResult, history, flags
  <2>2. CASE UNCHANGED <<parked, pending>>
    <3>1. Window' /\ StopSeen'
      BY <2>1, <2>2 DEF Inv, Core, Window, StopSeen
    <3> QED BY <2>1, <2>2, <3>1, Frame DEF Inv, queues
  <2>3. CASE parked' = parked \cup Flushed(pending) /\ pending' = {}
    <3>1. /\ Ownership(pending', draining', parked', owned')
          /\ Known(pending', draining', parked', owned')
               = Known(pending, draining, parked, owned)
      BY <1>1, <2>1, <2>3, ParkLive
    <3>2. Live(pending', draining') = {}
      BY <2>1, <2>3 DEF Live, Flushed
    <3>3. Window' /\ StopSeen'
      BY <2>1, <2>3 DEF Inv, Core, Window, StopSeen
    <3> QED BY <2>1, <3>1, <3>2, <3>3, Moved DEF Inv, Core, StopHolds
  <2> QED BY <1>6, <2>2, <2>3 DEF ErrorResult
<1>7. CASE PromptCancelled
  <2>1. /\ pc = "turn" /\ pc' = pc /\ stopCall = "waiting" /\ stopCall' = stopCall
        /\ cur # {} /\ cur' = {} /\ owned' = owned \ cur
        /\ parked' = parked \cup {cur} /\ held' = held \cup cur
        /\ UNCHANGED <<pending, draining, acked, dropped, userStopped>>
    BY <1>7 DEF PromptCancelled, flags
  <2>2. cur \subseteq owned /\ userStopped /\ userStopped'
    BY <2>1 DEF Inv, Core, StopSeen
  <2>3. /\ Ownership(pending', draining', parked', owned')
        /\ Known(pending', draining', parked', owned')
             = Known(pending, draining, parked, owned)
    BY <1>1, <2>1, <2>2, GiveBack
  <2>4. Window' /\ StopSeen'
    BY <2>1, <2>2 DEF Inv, Core, Window, StopSeen
  <2>5. HeldParked'
    <3>1. cur \subseteq Known(pending, draining, parked, owned)
      BY <2>2 DEF Known
    <3> QED BY <2>1, <2>2, <2>3, <3>1 DEF Inv, Core, HeldParked
  <2>6. AcceptedKept'
    BY <2>1, <2>3 DEF Inv, Core, AcceptedKept, QueuedIds, Known
  <2> QED BY <2>1, <2>3, <2>4, <2>5, <2>6 DEF Core, StopHolds
<1>8. CASE TurnReturns
  BY <1>8, BottomStep DEF TurnReturns, TurnEnds
<1>9. CASE TurnRaises
  <2>1. /\ draining = {} /\ pc' = "refresh"
        /\ parked' = parked \cup Flushed(pending) /\ pending' = {}
        /\ UNCHANGED <<cur, draining, owned, userStopped, stopCall, acked, dropped,
                       held>>
    BY <1>2, <1>9 DEF TurnRaises, TurnEnds, flags
  <2> QED BY <2>1, LeaveLoop
<1>10. CASE QuestionPauses
  <2>1. /\ draining = {} /\ pc' = "refresh"
        /\ parked' = parked \cup Flushed(pending) /\ pending' = {}
        /\ UNCHANGED <<cur, draining, owned, userStopped, stopCall, acked, dropped,
                       held>>
    BY <1>2, <1>10 DEF QuestionPauses, TurnEnds, flags
  <2> QED BY <2>1, LeaveLoop
<1>11. ASSUME NEW r \in BOOLEAN, ReloadReturns(r) PROVE Core'
  <2>1. pc = "reload" /\ UNCHANGED <<stopCall, acked, dropped, held>>
    BY <1>11 DEF ReloadReturns, history
  <2>2. CASE Decide(draining, pending, err)
    <3>1. /\ \A g, h \in draining : g = h
          /\ ~userStopped => Live(pending, draining) \cap held = {}
      BY DEF Inv, Core, Window, HeldParked
    <3> QED BY <1>1, <2>1, <2>2, <3>1, DecideStep
  <2>3. CASE draining = {} /\ EndAccepting(parked \cup Flushed(pending))
    <3>1. /\ pc' = "refresh" /\ pending' = {} /\ draining' = {}
          /\ parked' = parked \cup Flushed(pending)
          /\ UNCHANGED <<cur, owned>>
      BY <2>3 DEF EndAccepting
    <3>2. /\ Ownership(pending', draining', parked', owned')
          /\ Known(pending', draining', parked', owned')
               = Known(pending, draining, parked, owned)
      BY <1>1, <2>3, <3>1, ParkLive
    <3>3. Live(pending', draining') = {}
      BY <3>1 DEF Live, Flushed
    <3>4. Window' /\ StopSeen'
      BY <3>1 DEF Window, StopSeen
    <3> QED BY <2>1, <3>1, <3>2, <3>3, <3>4, Moved DEF Inv, Core, StopHolds
  <2>4. CASE draining = {} /\ ~userStopped /\ HiddenTurn /\ UNCHANGED pending
    BY <1>1, <2>1, <2>4, HiddenStep
  <2> QED BY <1>11, <2>2, <2>3, <2>4 DEF ReloadReturns
<1>12. CASE ReloadInterrupted
  <2>1. UNCHANGED <<cur, queues, held, acked, dropped, userStopped, stopCall>>
        /\ pc' = "refresh"
    BY <1>12 DEF ReloadInterrupted, history, flags
  <2>2. Window' /\ StopSeen'
    BY <2>1 DEF Inv, Core, Window, StopSeen, queues
  <2> QED BY <2>1, <2>2, Frame DEF Inv
<1>13. CASE Teardown
  <2>1. /\ cur' = {} /\ pending' = {} /\ draining' = {} /\ stopCall' = "idle"
        /\ parked' = parked \cup draining \cup Flushed(pending)
        /\ UNCHANGED <<owned, acked, dropped, held>>
    BY <1>13 DEF Teardown, history
  <2>3. /\ Ownership(pending', draining', parked', owned')
        /\ Known(pending', draining', parked', owned')
             = Known(pending, draining, parked, owned)
    BY <1>1, <2>1, ParkAll
  <2>4. Live(pending', draining') = {}
    BY <2>1 DEF Live, Flushed
  <2>5. Window' /\ StopSeen'
    BY <2>1 DEF Window, StopSeen
  <2> QED BY <2>1, <2>3, <2>4, <2>5, Moved DEF Inv
<1>14. CASE ForceClose
  BY <1>8, <1>14 DEF ForceClose
<1> QED BY <1>3, <1>4, <1>5, <1>6, <1>7, <1>8, <1>9, <1>10, <1>11, <1>12, <1>13,
           <1>14 DEF Drive

LEMMA StopStep ==
  ASSUME Inv, StopRequest \/ StopReverts
  PROVE  Core'
<1>1. Ownership(pending, draining, parked, owned)
  BY DEF Inv, Core
<1>2. /\ Ownership(Reverted(pending), draining, parked, owned)
      /\ Flushed(Reverted(pending)) = Flushed(pending)
  BY <1>1, RevertedOwned
<1>3. CASE StopRequest
  <2>1. /\ pc # "off" /\ userStopped'
        /\ held' = held \cup UNION (Flushed(pending) \cup draining)
        /\ pending' = pending \/ pending' = Reverted(pending)
        /\ UNCHANGED <<pc, cur, draining, parked, owned, acked, dropped>>
    BY <1>3 DEF StopRequest, drive
  <2>2. held' = held \cup Live(pending, draining)
    BY <2>1 DEF Live
  <2>3. /\ Ownership(pending', draining, parked, owned)
        /\ Flushed(pending') = Flushed(pending)
    BY <1>1, <1>2, <2>1
  <2>4. Live(pending, draining) \cap owned = {}
        /\ Live(pending, draining) \subseteq Known(pending, draining, parked, owned)
    BY <1>1, Disjoint
  <2>5. Known(pending', draining', parked', owned')
          = Known(pending, draining, parked, owned)
    BY <2>1, <2>3 DEF Known
  <2>6. Window' /\ StopSeen'
    BY <2>1 DEF Inv, Core, Window, StopSeen
  <2>7. HeldParked'
    BY <2>1, <2>2, <2>4, <2>5 DEF Inv, Core, HeldParked
  <2>8. AcceptedKept'
    BY <2>1, <2>5 DEF Inv, Core, AcceptedKept, QueuedIds, Known
  <2>9. cur' \subseteq owned' /\ StopHolds'
    BY <2>1, <2>2, <2>4 DEF Inv, Core, StopHolds
  <2> QED BY <2>1, <2>3, <2>6, <2>7, <2>8, <2>9 DEF Core
<1>4. CASE StopReverts
  <2>1. /\ pending' = Reverted(pending) /\ stopCall = "asked"
        /\ UNCHANGED <<pc, cur, draining, parked, owned, acked, dropped, userStopped,
                       held>>
    BY <1>4 DEF StopReverts, drive, flags, history
  <2> QED BY <1>2, <2>1, QueueKept DEF Inv
<1> QED BY <1>3, <1>4

\* Entries of the live queue become user turns of the running prompt.
LEMMA DeliverStep ==
  ASSUME Inv, NEW E \in SUBSET pending, Deliver(E, pending),
         UNCHANGED <<pc, cur, draining, parked, acked, dropped, held, userStopped,
                     stopCall>>
  PROVE  Core'
<1>1. Ownership(pending, draining, parked, owned)
  BY DEF Inv, Core
<1>2. pending' = pending \ E /\ owned' = owned \cup UNION Flushed(E)
  BY DEF Deliver
<1>3. /\ Ownership(pending', draining', parked', owned')
      /\ Known(pending', draining', parked', owned')
           = Known(pending, draining, parked, owned)
      /\ Live(pending', draining') \subseteq Live(pending, draining)
  <2>1. /\ Ownership(pending \ E, draining, parked, owned \cup UNION Flushed(E))
        /\ Known(pending \ E, draining, parked, owned \cup UNION Flushed(E))
             = Known(pending, draining, parked, owned)
        /\ Live(pending \ E, draining) \subseteq Live(pending, draining)
    BY ONLY <1>1, E \in SUBSET pending, Delivered
  <2> QED BY <1>2, <2>1
<1>4. Window' /\ StopSeen'
  BY <1>2 DEF Inv, Core, Window, StopSeen
<1>5. cur' \subseteq owned' /\ cur' \cap held' = {}
  BY <1>2 DEF Inv, Core, StopHolds
<1>6. ~userStopped' => Live(pending', draining') \cap held' = {}
  BY <1>3 DEF Inv, Core, HeldParked
<1> QED BY <1>3, <1>4, <1>5, <1>6, Moved DEF Inv

LEMMA SteerStep ==
  ASSUME Inv, Steer
  PROVE  Core'
<1>1. Ownership(pending, draining, parked, owned)
  BY DEF Inv, Core
<1>2. /\ Ownership(Reverted(pending), draining, parked, owned)
      /\ Flushed(Reverted(pending)) = Flushed(pending)
  BY <1>1, RevertedOwned
<1>3. CASE SteerRefused
  <2>1. /\ pending' = pending \/ pending' = Reverted(pending)
        /\ UNCHANGED <<pc, cur, draining, parked, owned, acked, dropped, userStopped,
                       held, stopCall>>
    BY <1>3 DEF SteerRefused, drive, flags, history
  <2> QED BY <1>1, <1>2, <2>1, QueueKept DEF Inv
<1>4. CASE SteerDispatch
  <2> DEFINE f == [x \in pending |-> IF x \in SteerCandidates
                                    THEN [x EXCEPT !.sid = Dispatching] ELSE x]
  <2>1. f \in [pending -> Entry] /\ \A x \in pending : f[x].ids = x.ids
    BY <1>1 DEF Ownership, Entry, SteerIds
  <2>2. pending' = {f[x] : x \in pending}
    BY <1>4 DEF SteerDispatch, SteerCandidates
  <2> HIDE DEF f
  <2>3. /\ Ownership(pending', draining, parked, owned)
        /\ Flushed(pending') = Flushed(pending)
    BY <1>1, <2>1, <2>2, Relabel
  <2>4. UNCHANGED <<pc, cur, draining, parked, owned, acked, dropped, userStopped,
                    held, stopCall>>
    BY <1>4 DEF SteerDispatch, drive, flags, history
  <2> QED BY <2>3, <2>4, QueueKept DEF Inv
<1>5. ASSUME NEW n \in steerCalls, CallReturns(n)
      PROVE  UNCHANGED <<pc, cur, draining, parked, acked, dropped, userStopped,
                         held, stopCall>>
  BY <1>5 DEF CallReturns, drive, flags, history
<1>6. ASSUME NEW n \in steerCalls, SteerReturns(n) PROVE Core'
  <2> DEFINE waiting == {e \in pending : e.sid = Dispatching}
             f == [x \in pending |-> IF x \in waiting
                                    THEN [x EXCEPT !.sid = n] ELSE x]
  <2>1. CallReturns(n) /\ n \in SteerNos
    BY <1>6 DEF SteerReturns, Inv, TypeOK
  <2>2. CASE Deliver(waiting, pending)
    BY <1>5, <2>1, <2>2, DeliverStep
  <2>3. CASE /\ pending' = (pending \ waiting) \cup {[e EXCEPT !.sid = n] : e \in waiting}
             /\ UNCHANGED owned
    <3>1. f \in [pending -> Entry] /\ \A x \in pending : f[x].ids = x.ids
      BY <1>1, <2>1 DEF Ownership, Entry, SteerIds
    <3>2. pending' = {f[x] : x \in pending}
      BY <2>3
    <3> HIDE DEF f, waiting
    <3>3. /\ Ownership(pending', draining, parked, owned)
          /\ Flushed(pending') = Flushed(pending)
      BY <1>1, <3>1, <3>2, Relabel
    <3> QED BY <1>5, <2>1, <2>3, <3>3, QueueKept DEF Inv
  <2> QED BY <1>6, <2>2, <2>3 DEF SteerReturns
<1>7. ASSUME NEW n \in steerCalls, SteerFails(n) PROVE Core'
  <2>1. CallReturns(n) /\ pending' = Reverted(pending) /\ UNCHANGED owned
    BY <1>7 DEF SteerFails
  <2> QED BY <1>2, <1>5, <2>1, QueueKept DEF Inv
<1>8. ASSUME NEW n \in steerCalls, SteerStale(n) PROVE Core'
  <2>1. CallReturns(n) /\ UNCHANGED <<pending, owned>>
    BY <1>8 DEF SteerStale
  <2> QED BY <1>1, <1>5, <2>1, QueueKept DEF Inv
<1>9. ASSUME NEW d \in cli, SteerEcho(d) PROVE Core'
  <2> DEFINE E == {e \in pending : e.sid = d.no}
  <2>1. /\ Deliver(E, pending)
        /\ UNCHANGED <<pc, cur, draining, parked, acked, dropped, held, userStopped,
                       stopCall>>
    BY <1>9 DEF SteerEcho, drive, flags
  <2>2. E \in SUBSET pending
    OBVIOUS
  <2> HIDE DEF E
  <2> QED BY <2>1, <2>2, DeliverStep
<1> QED BY <1>3, <1>4, <1>6, <1>7, <1>8, <1>9 DEF Steer

LEMMA InvStep == Inv /\ [Next]_vars => Inv'
<1> SUFFICES ASSUME Inv, [Next]_vars PROVE Core'
  BY TypeStep DEF Inv
<1>1. ASSUME UNCHANGED <<pc, cur, queues, held, acked, dropped, userStopped, stopCall>>
      PROVE  Core'
  <2>1. Window' /\ StopSeen'
    BY <1>1 DEF Inv, Core, Window, StopSeen, queues
  <2> QED BY <1>1, <2>1, Frame DEF Inv
<1>2. CASE ArmCode
  BY <1>1, <1>2 DEF ArmCode, drive, history
<1>3. CASE ArmReload
  BY <1>1, <1>3 DEF ArmReload, drive, history
<1>4. CASE AnswerQuestion
  BY <1>1, <1>4 DEF AnswerQuestion, drive, history
<1>5. CASE ReapProvider
  BY <1>1, <1>5 DEF ReapProvider, flags, history
<1>6. CASE UNCHANGED vars
  BY <1>1, <1>6 DEF vars, drive, flags, history
<1> QED BY <1>2, <1>3, <1>4, <1>5, <1>6, SendStep, ChipStep, DriveStep, StopStep,
           SteerStep DEF Next

LEMMA InvInit == Init => Inv
<1> SUFFICES ASSUME Init PROVE Inv
  OBVIOUS
<1>1. TypeOK
  BY SteerBound DEF Init, TypeOK, Group
<1>2. Core
  BY DEF Init, Core, Ownership, Group, Window, StopSeen, HeldParked, AcceptedKept,
         StopHolds, Known, Live, Flushed
<1> QED BY <1>1, <1>2 DEF Inv

\* The invariant holds in every behaviour of every chat.
THEOREM Invariant == Spec => []Inv
  BY InvInit, InvStep, PTL DEF Spec

\* A send id never has two owners, so no send can run twice, whatever the
\* order of turns, Stop, steers, reloads and clicks.
THEOREM OneOwnerAlways == Spec => []OneOwner
<1>1. Inv => OneOwner
  BY DEF Inv, Core, Ownership, OneOwner, QueuedIds, Flushed
<1> QED BY <1>1, Invariant, PTL

\* A send the server queued or started is never lost.
THEOREM AcceptedKeptAlways == Spec => []AcceptedKept
<1>1. Inv => AcceptedKept
  BY DEF Inv, Core
<1> QED BY <1>1, Invariant, PTL

\* What a Stop held never runs before its user touches it again.
THEOREM StopHoldsAlways == Spec => []StopHolds
<1>1. Inv => StopHolds
  BY DEF Inv, Core
<1> QED BY <1>1, Invariant, PTL

-----------------------------------------------------------------------------
(* The chips.  An entry of the live queue is locked only in steer mode, so *)
(* what reverts the steers unlocks every entry.                            *)

Free(Q) == \A e \in Q : e.sid = NoSteer

LockedSteers == \A e \in pending : Locked(e) => e.delivery = "steer"

Locks == LockedSteers /\ LockedOnlyInTurn

LEMMA RevertedFree ==
  ASSUME LockedSteers
  PROVE  Free(Reverted(pending))
  BY DEF LockedSteers, Free, Reverted, NewEntry, Locked

LEMMA DecideFree ==
  ASSUME NEW next, NEW rest, NEW failed, Free(rest), Decide(next, rest, failed)
  PROVE  Free(pending')
<1>1. pending' = {} \/ pending' = rest
  BY DEF Decide, EndAccepting, FormHolds, FollowUp
<1> QED BY <1>1 DEF Free

LEMMA BottomFree ==
  ASSUME LockedSteers, Bottom(Reverted(pending), err)
  PROVE  Free(pending')
<1> DEFINE P == Reverted(pending)
<1>1. Free(P)
  BY RevertedFree
<1> HIDE DEF P
<1>2. PICK one \in Drained(P) :
        \/ pending' = {}
        \/ pending' = P \ one
        \/ Decide(Flushed(one), P \ one, err)
  BY DEF Bottom, P
<1>3. Free(P \ one)
  BY <1>1 DEF Free
<1> QED BY <1>1, <1>2, <1>3, DecideFree DEF Free

\* Steps that add no lock where they leave the drive.
LEMMA FreeStep ==
  ASSUME Free(pending')
  PROVE  Locks'
  BY DEF Free, Locks, LockedSteers, LockedOnlyInTurn, Locked

LEMMA FewerStep ==
  ASSUME Locks, pending' \subseteq pending, pc' # "turn" => pc # "turn"
  PROVE  Locks'
  BY DEF Locks, LockedSteers, LockedOnlyInTurn, Locked

LEMMA LockDrive ==
  ASSUME Locks, Drive
  PROVE  Locks'
<1>1. CASE LoopTop
  <2>1. CASE userStopped
    BY <1>1, <2>1, BottomFree, FreeStep DEF LoopTop, Locks
  <2>2. CASE ~userStopped
    BY <1>1, <2>2, FewerStep DEF LoopTop, queues
  <2> QED BY <2>1, <2>2
<1>2. CASE BeginTurn \/ AskNative \/ PromptCancelled \/ ReloadInterrupted
  BY <1>2, FewerStep DEF BeginTurn, AskNative, PromptCancelled, ReloadInterrupted, queues, drive
<1>3. ASSUME NEW armed \in BOOLEAN, ErrorResult(armed) PROVE Locks'
  BY <1>3, FewerStep DEF ErrorResult
<1>4. CASE TurnReturns
  BY <1>4, BottomFree, FreeStep DEF TurnReturns, Locks
<1>5. CASE TurnRaises \/ QuestionPauses \/ Teardown
  BY <1>5, FreeStep DEF TurnRaises, QuestionPauses, Teardown, Free
<1>6. ASSUME NEW r \in BOOLEAN, ReloadReturns(r) PROVE Locks'
  <2>1. Free(pending)
    BY <1>6 DEF ReloadReturns, Locks, LockedOnlyInTurn, Locked, Free
  <2>2. \/ Decide(draining, pending, err)
        \/ pending' = {}
        \/ pending' = pending
    BY <1>6 DEF ReloadReturns, EndAccepting
  <2>3. Free(pending')
    BY <2>1, <2>2, DecideFree DEF Free
  <2> QED BY <2>3, FreeStep
<1>7. CASE ForceClose
  BY <1>4, <1>7 DEF ForceClose
<1> QED BY <1>1, <1>2, <1>3, <1>4, <1>5, <1>6, <1>7 DEF Drive

LEMMA LockSteer ==
  ASSUME TypeOK, Locks, Steer
  PROVE  Locks'
<1>1. CASE SteerRefused
  <2>1. pc' = pc /\ (pending' = pending \/ pending' = Reverted(pending))
    BY <1>1 DEF SteerRefused, drive
  <2> QED BY <2>1, RevertedFree, FreeStep, FewerStep DEF Locks
<1>2. CASE SteerDispatch
  <2>1. pc' = "turn"
    BY <1>2 DEF SteerDispatch, drive
  <2>2. \A e \in SteerCandidates : e \in Entry /\ e.delivery = "steer"
    BY DEF SteerCandidates, TypeOK
  <2>3. \A e \in SteerCandidates : [e EXCEPT !.sid = Dispatching].delivery = "steer"
    BY <2>2 DEF Entry
  <2>4. pending' = (pending \ SteerCandidates)
                   \cup {[e EXCEPT !.sid = Dispatching] : e \in SteerCandidates}
    BY <1>2 DEF SteerDispatch
  <2> QED BY <2>1, <2>3, <2>4 DEF Locks, LockedSteers, LockedOnlyInTurn
<1>3. ASSUME NEW n \in steerCalls, SteerReturns(n) PROVE Locks'
  <2> DEFINE W == {e \in pending : e.sid = Dispatching}
  <2>1. pc' = pc
    BY <1>3 DEF SteerReturns, CallReturns, drive
  <2>2. \/ pending' = pending \ W
        \/ pending' = (pending \ W) \cup {[e EXCEPT !.sid = n] : e \in W}
    BY <1>3 DEF SteerReturns, Deliver
  <2>3. \A e \in W : Locked(e) /\ e \in Entry
    BY SteerIdAssumption DEF Locked, TypeOK
  <2>4. \A e \in W : [e EXCEPT !.sid = n].delivery = "steer"
    BY <2>3 DEF Locks, LockedSteers, Entry
  <2>5. pc # "turn" => W = {}
    BY <2>3 DEF Locks, LockedOnlyInTurn
  <2> HIDE DEF W
  <2> QED BY <2>1, <2>2, <2>4, <2>5 DEF Locks, LockedSteers, LockedOnlyInTurn
<1>4. ASSUME NEW n \in steerCalls, SteerFails(n) PROVE Locks'
  BY <1>4, RevertedFree, FreeStep DEF SteerFails, Locks
<1>5. ASSUME NEW n \in steerCalls, SteerStale(n) PROVE Locks'
  BY <1>5, FewerStep DEF SteerStale, CallReturns, drive
<1>6. ASSUME NEW d \in cli, SteerEcho(d) PROVE Locks'
  BY <1>6, FewerStep DEF SteerEcho, Deliver, drive
<1> QED BY <1>1, <1>2, <1>3, <1>4, <1>5, <1>6 DEF Steer

\* Sends, chips, Stop and the rest.
LEMMA LockRest ==
  ASSUME Locks, Next, ~Drive, ~Steer
  PROVE  Locks'
<1>1. ASSUME NEW m \in Msgs, Send(m) PROVE Locks'
  <2>1. CASE SendStarts(m)
    BY <2>1, FewerStep DEF SendStarts, Open
  <2>2. ASSUME NEW delivery \in {"queue", "steer"}, SendQueues(m, delivery) PROVE Locks'
    BY <2>2 DEF SendQueues, drive, NewEntry, Locks, LockedSteers, LockedOnlyInTurn, Locked
  <2>3. CASE SendFallsThrough(m)
    BY <2>3, FewerStep DEF SendFallsThrough, queues, drive
  <2> QED BY <1>1, <2>1, <2>2, <2>3 DEF Send
<1>2. ASSUME NEW G \in SUBSET parked, SendNow(G) PROVE Locks'
  BY <1>2, FewerStep DEF SendNow, Open
<1>3. ASSUME NEW g, Remove(g) PROVE Locks'
  BY <1>3, FewerStep DEF Remove, drive
<1>4. ASSUME NEW e \in pending, NEW delivery \in {"queue", "steer"}, SetDelivery(e, delivery)
      PROVE Locks'
  <2>1. pending' = (pending \ {e}) \cup {[e EXCEPT !.delivery = delivery]} /\ pc' = pc
    BY <1>4 DEF SetDelivery, drive
  <2>2. ~Locked([e EXCEPT !.delivery = delivery])
    BY <1>4 DEF SetDelivery, Locked
  <2> QED BY <2>1, <2>2 DEF Locks, LockedSteers, LockedOnlyInTurn
<1>5. ASSUME NEW g \in parked, Adopt(g) PROVE Locks'
  BY <1>5 DEF Adopt, drive, NewEntry, Locks, LockedSteers, LockedOnlyInTurn, Locked
<1>6. CASE ArmCode \/ ArmReload \/ AnswerQuestion \/ ReapProvider
  BY <1>6, FewerStep DEF ArmCode, ArmReload, AnswerQuestion, ReapProvider, drive, queues
<1>7. CASE StopRequest
  <2>1. pc' = pc /\ (pending' = pending \/ pending' = Reverted(pending))
    BY <1>7 DEF StopRequest, drive
  <2> QED BY <2>1, RevertedFree, FreeStep, FewerStep DEF Locks
<1>8. CASE StopReverts
  BY <1>8, RevertedFree, FreeStep DEF StopReverts, Locks
<1> QED BY <1>1, <1>2, <1>3, <1>4, <1>5, <1>6, <1>7, <1>8 DEF Next, Chips

\* A chip that shows as steering is unlocked by the end of the turn at the
\* latest, however many dispatches overlap and whatever stops, fails or reloads.
THEOREM LockedOnlyInTurnAlways == Spec => []LockedOnlyInTurn
<1>1. Init => Locks
  BY DEF Init, Locks, LockedSteers, LockedOnlyInTurn
<1>2. TypeOK /\ Locks /\ [Next]_vars => Locks'
  <2> SUFFICES ASSUME TypeOK, Locks, [Next]_vars PROVE Locks'
    OBVIOUS
  <2>1. CASE UNCHANGED vars
    BY <2>1, FewerStep DEF vars, drive, queues
  <2> QED BY <2>1, LockDrive, LockSteer, LockRest
<1>3. Locks => LockedOnlyInTurn
  BY DEF Locks
<1> QED BY <1>1, <1>2, <1>3, TypeCorrect, PTL DEF Spec

-----------------------------------------------------------------------------
(* ChatTurn implements MessageLifecycle.  Where a send stands depends on   *)
(* the running prompt, the ids somebody owns and the ids of the turns; each*)
(* step moves them in one of the ways of Flow.                             *)

Ids == Known(pending, draining, parked, owned)

Keep == Ids' = Ids /\ UNCHANGED <<cur, owned>>
Come ==
  \E m \in Msgs \ Ids :
    /\ Ids' = Ids \cup {m}
    /\ \/ UNCHANGED <<cur, owned>>
       \/ cur = {} /\ cur' = {m} /\ owned' = owned \cup {m}
TakeBack == \E S \in SUBSET (Ids \ owned) : Ids' = Ids \ S /\ UNCHANGED <<cur, owned>>
TakeUp ==
  \E S \in SUBSET (Ids \ owned) :
    Ids' = Ids /\ owned' = owned \cup S /\ cur' \in {cur, S}
PutBack == Ids' = Ids /\ owned' = owned \ cur /\ cur' = {}

Flow == Keep \/ Come \/ TakeBack \/ TakeUp \/ PutBack

\* Without a stream nothing runs.
Resting == pc = "off" => cur = {}

LEMMA RestingStep == Resting /\ [Next]_vars => Resting'
<1> SUFFICES ASSUME Resting, [Next]_vars PROVE Resting'
  OBVIOUS
<1> USE DEF Resting
<1>1. ASSUME NEW m \in Msgs, Send(m) PROVE Resting'
  BY <1>1 DEF Send, SendStarts, Open, SendQueues, SendFallsThrough, drive
<1>2. CASE Chips
  BY <1>2 DEF Chips, SendNow, Open, Remove, SetDelivery, Adopt, drive
<1>3. ASSUME NEW P, NEW failed, Bottom(P, failed) PROVE pc' # "off"
  BY <1>3 DEF Bottom, HiddenTurn, Decide, EndAccepting, FormHolds, FollowUp
<1>4. CASE Drive
  <2>1. CASE LoopTop
    BY <1>3, <2>1 DEF LoopTop
  <2>2. CASE TurnReturns \/ ForceClose
    BY <1>3, <2>2 DEF TurnReturns, ForceClose
  <2>3. ASSUME NEW r \in BOOLEAN, ReloadReturns(r) PROVE Resting'
    BY <2>3 DEF ReloadReturns, HiddenTurn, Decide, EndAccepting, FormHolds, FollowUp
  <2> QED BY <1>4, <2>1, <2>2, <2>3 DEF Drive, BeginTurn, AskNative, ErrorResult,
             PromptCancelled, TurnRaises, QuestionPauses, ReloadInterrupted, Teardown, drive
<1>5. CASE ArmCode \/ ArmReload \/ AnswerQuestion \/ ReapProvider \/ StopRequest \/ StopReverts
  BY <1>5 DEF ArmCode, ArmReload, AnswerQuestion, ReapProvider, StopRequest, StopReverts, drive
<1>6. CASE Steer
  BY <1>6 DEF Steer, SteerRefused, SteerDispatch, SteerReturns, SteerFails, SteerStale,
              SteerEcho, CallReturns, drive
<1>7. CASE UNCHANGED vars
  BY <1>7 DEF vars, drive
<1> QED BY <1>1, <1>2, <1>4, <1>5, <1>6, <1>7 DEF Next

\* Where a send stands, by the ids alone.
Where(m, c, o, i) == IF m \in c THEN "running" ELSE IF m \in o THEN "done"
                     ELSE IF m \in i THEN "waiting" ELSE "unsent"
Placed ==
  /\ Standing = [m \in Msgs |-> Where(m, cur, owned, Ids)]
  /\ cur \subseteq owned /\ owned \subseteq Ids /\ Ids \subseteq Msgs

LEMMA Stands == Inv => Placed
<1> SUFFICES ASSUME Inv PROVE Placed
  OBVIOUS
<1>1. QueuedIds \cap owned = {} /\ Ids = owned \cup QueuedIds /\ cur \subseteq owned
  BY DEF Inv, Core, Ownership, QueuedIds, Flushed, Ids, Known
<1>2. Ids \subseteq Msgs
  BY DEF Inv, Core, Ownership, Ids, Known, Flushed, Entry, Group
<1>3. \A m \in Msgs : Standing[m] = Where(m, cur, owned, Ids)
  BY <1>1 DEF Standing, Where
<1> QED BY <1>1, <1>2, <1>3 DEF Standing, Placed

LEMMA StandsNext == Inv' => Placed'
  BY Stands, PTL

LEMMA FlowMaps ==
  ASSUME Inv, Inv', Flow
  PROVE  [Lifecycle!Next]_Standing
<1>1. /\ \A m \in Msgs : Standing[m] = Where(m, cur, owned, Ids)
      /\ cur \subseteq owned /\ owned \subseteq Ids /\ Ids \subseteq Msgs
  BY Stands DEF Placed
<1>2. /\ Standing' = [m \in Msgs |-> Where(m, cur', owned', Ids')]
      /\ cur' \subseteq owned' /\ owned' \subseteq Ids' /\ Ids' \subseteq Msgs
  BY StandsNext DEF Placed
<1>3. Standing = [m \in Msgs |-> Where(m, cur, owned, Ids)]
  BY Stands DEF Placed
<1> USE DEF Where
<1>4. /\ Lifecycle!In("waiting") = Ids \ owned
      /\ Lifecycle!In("running") = cur
  BY <1>1 DEF Lifecycle!In
<1>6. CASE Keep
  BY <1>2, <1>3, <1>6 DEF Keep
<1>7. CASE Come
  <2>1. PICK m \in Msgs \ Ids :
          /\ Ids' = Ids \cup {m}
          /\ \/ UNCHANGED <<cur, owned>>
             \/ cur = {} /\ cur' = {m} /\ owned' = owned \cup {m}
    BY <1>7 DEF Come
  <2>2. Standing[m] = "unsent"
    BY <1>1, <2>1
  <2>3. CASE UNCHANGED <<cur, owned>>
    <3>1. Standing' = Lifecycle!Move({m}, "waiting")
      BY <1>1, <1>2, <2>1, <2>3 DEF Lifecycle!Move
    <3> QED BY <2>2, <3>1 DEF Lifecycle!Submit, Lifecycle!Next
  <2>4. CASE cur = {} /\ cur' = {m} /\ owned' = owned \cup {m}
    <3>1. Standing' = Lifecycle!Move({m}, "running")
      BY <1>1, <1>2, <2>1, <2>4 DEF Lifecycle!Move
    <3> QED BY <1>4, <2>2, <2>4, <3>1 DEF Lifecycle!Submit, Lifecycle!Next
  <2> QED BY <2>1, <2>3, <2>4
<1>8. CASE TakeBack
  <2>1. PICK S \in SUBSET (Ids \ owned) : Ids' = Ids \ S /\ UNCHANGED <<cur, owned>>
    BY <1>8 DEF TakeBack
  <2>2. Standing' = Lifecycle!Move(S, "unsent")
    BY <1>1, <1>2, <2>1 DEF Lifecycle!Move
  <2>3. S \in SUBSET Msgs /\ S \subseteq Lifecycle!In("waiting")
    BY <1>1, <1>4
  <2> QED BY <2>2, <2>3 DEF Lifecycle!Withdraw, Lifecycle!Next
<1>9. CASE TakeUp
  <2>1. PICK S \in SUBSET (Ids \ owned) :
          Ids' = Ids /\ owned' = owned \cup S /\ cur' \in {cur, S}
    BY <1>9 DEF TakeUp
  <2>2. S \in SUBSET Msgs /\ S \subseteq Lifecycle!In("waiting")
    BY <1>1, <1>4
  <2>3. CASE cur' = cur
    <3>1. Standing' = Lifecycle!Move(S, "done")
      BY <1>1, <1>2, <2>1, <2>3 DEF Lifecycle!Move
    <3> QED BY <2>2, <3>1 DEF Lifecycle!Absorb, Lifecycle!Next
  <2>4. CASE cur' = S
    <3>1. Standing' = [m \in Msgs |-> IF m \in Lifecycle!In("running") THEN "done"
                                     ELSE IF m \in S THEN "running" ELSE Standing[m]]
      BY <1>1, <1>2, <1>4, <2>1, <2>4
    <3> QED BY <2>2, <3>1 DEF Lifecycle!Advance, Lifecycle!Next
  <2> QED BY <2>1, <2>3, <2>4
<1>10. CASE PutBack
  <2>1. Standing' = Lifecycle!Move(Lifecycle!In("running"), "waiting")
    BY <1>1, <1>2, <1>4, <1>10 DEF PutBack, Lifecycle!Move
  <2> QED BY <2>1 DEF Lifecycle!Requeue, Lifecycle!Next
<1> QED BY <1>6, <1>7, <1>8, <1>9, <1>10 DEF Flow

\* Each step moves the ids in one of these ways.
LEMMA SameFlow ==
  ASSUME Flushed(pending') = Flushed(pending), UNCHANGED <<cur, draining, parked, owned>>
  PROVE  Flow
  BY DEF Flow, Keep, Ids, Known

LEMMA StillFlow ==
  ASSUME UNCHANGED <<cur, queues>>
  PROVE  Flow
  BY SameFlow DEF queues

LEMMA DecideFlow ==
  ASSUME Inv, NEW next, NEW rest, NEW failed,
         Ownership(rest, next, parked, owned), Known(rest, next, parked, owned) = Ids,
         \A g, h \in next : g = h,
         Decide(next, rest, failed)
  PROVE  Flow
<1>1. CASE EndAccepting(parked \cup Flushed(rest) \cup next) \/ FormHolds(next, rest)
  <2>1. /\ parked' = parked \cup next \cup Flushed(rest) /\ pending' = {} /\ draining' = {}
        /\ UNCHANGED <<cur, owned>>
    BY <1>1 DEF EndAccepting, FormHolds
  <2>2. Ids' = Ids
    BY <2>1, ParkAll DEF Ids
  <2> QED BY <2>1, <2>2 DEF Flow, Keep
<1>2. ASSUME NEW g \in next, FollowUp(g, rest) PROVE Flow
  <2>1. next = {g}
    OBVIOUS
  <2>2. Known(rest, {}, parked, owned \cup g) = Ids
    BY <2>1, Take
  <2>3. /\ cur' = g /\ owned' = owned \cup g
        /\ pending' = rest /\ draining' = {} /\ parked' = parked
    BY <1>2 DEF FollowUp
  <2>4. g \subseteq Ids \ owned
    <3>1. g \subseteq Known(rest, next, parked, owned)
      BY DEF Known
    <3>2. g \cap owned = {}
      BY DEF Ownership
    <3> QED BY <3>1, <3>2
  <2>5. Ids' = Ids
    BY <2>2, <2>3 DEF Ids
  <2> QED BY <2>3, <2>4, <2>5 DEF Flow, TakeUp
<1> QED BY <1>1, <1>2 DEF Decide

LEMMA HiddenFlow ==
  ASSUME HiddenTurn, draining = {}, Flushed(pending') = Flushed(pending)
  PROVE  Flow
<1>1. cur' = {} /\ UNCHANGED <<draining, parked, owned>>
  BY DEF HiddenTurn
<1>2. Ids' = Ids
  BY <1>1 DEF Ids, Known
<1>3. owned' = owned \cup {} /\ {} \in SUBSET (Ids \ owned)
  BY <1>1
<1> QED BY <1>1, <1>2, <1>3 DEF Flow, TakeUp

LEMMA BottomFlow ==
  ASSUME Inv, draining = {}, Bottom(Reverted(pending), err)
  PROVE  Flow
<1> DEFINE P == Reverted(pending)
<1>1. Ownership(pending, {}, parked, owned)
  BY DEF Inv, Core
<1>2. Ownership(P, {}, parked, owned) /\ Flushed(P) = Flushed(pending)
  BY <1>1, RevertedOwned
<1>3. Known(P, {}, parked, owned) = Ids
  BY <1>2 DEF Known, Ids
<1> HIDE DEF P
<1>4. PICK one \in Drained(P) :
        \/ Flushed(one) = {} /\ HiddenTurn /\ pending' = {}
        \/ /\ draining' = Flushed(one) /\ pending' = P \ one
           /\ UNCHANGED <<cur, parked, owned>>
        \/ Decide(Flushed(one), P \ one, err)
  BY DEF Bottom, P
<1>5. /\ Ownership(P \ one, Flushed(one), parked, owned)
      /\ Known(P \ one, Flushed(one), parked, owned) = Ids
      /\ \A g, h \in Flushed(one) : g = h
      /\ Flushed(one) = {} => P = {}
  <2>1. CASE P = {}
    <3>1. one = {} /\ Flushed(one) = {} /\ P \ one = P
      BY <2>1 DEF Drained, Flushed
    <3> QED BY <1>2, <1>3, <2>1, <3>1
  <2>2. CASE P # {}
    <3>1. PICK q \in P : one = {q}
      BY <2>2 DEF Drained
    <3>2. Flushed(one) = {q.ids}
      BY <3>1 DEF Flushed
    <3> QED BY <1>2, <1>3, <3>1, <3>2, Drain
  <2> QED BY <2>1, <2>2
<1>6. CASE Flushed(one) = {} /\ HiddenTurn /\ pending' = {}
  <2>1. Flushed(pending') = Flushed(pending)
    BY <1>2, <1>5, <1>6
  <2> QED BY <1>6, <2>1, HiddenFlow
<1>7. CASE /\ draining' = Flushed(one) /\ pending' = P \ one
           /\ UNCHANGED <<cur, parked, owned>>
  BY <1>5, <1>7 DEF Flow, Keep, Ids
<1>8. CASE Decide(Flushed(one), P \ one, err)
  BY <1>5, <1>8, DecideFlow
<1> QED BY <1>4, <1>6, <1>7, <1>8

LEMMA SendFlow ==
  ASSUME Inv, Resting, NEW m \in Msgs, Send(m)
  PROVE  Flow
<1>1. Duplicate(m) <=> m \in Ids
  BY DEF Duplicate, QueuedIds, Ids, Known
<1>2. Ownership(pending, draining, parked, owned)
  BY DEF Inv, Core
<1>3. CASE SendStarts(m)
  <2>1. /\ cur = {} /\ cur' = {m} /\ owned' = owned \cup {m} /\ m \notin Ids
        /\ UNCHANGED <<pending, draining, parked>>
    BY <1>1, <1>3 DEF SendStarts, Open, Resting
  <2>2. Ids' = Ids \cup {m}
    BY <2>1 DEF Ids, Known
  <2> QED BY <2>1, <2>2 DEF Flow, Come
<1>4. ASSUME NEW d \in {"queue", "steer"}, SendQueues(m, d) PROVE Flow
  <2> DEFINE e == NewEntry({m}, d)
  <2>1. /\ pending' = pending \cup {e} /\ m \notin Ids
        /\ UNCHANGED <<cur, draining, parked, owned>>
    BY <1>1, <1>4 DEF SendQueues, drive
  <2>2. e.ids = {m}
    BY DEF NewEntry
  <2>4. e \in Entry /\ e.ids # {}
    BY <2>2 DEF NewEntry, Entry, SteerIds, Group
  <2> HIDE DEF e
  <2>3. Ids' = Ids \cup {m}
    <3>1. e.ids \cap Known(pending, draining, parked, owned) = {}
      BY <2>1, <2>2 DEF Ids
    <3>2. /\ Ownership(pending \cup {e}, draining, parked, owned)
          /\ Known(pending \cup {e}, draining, parked, owned)
               = Known(pending, draining, parked, owned) \cup e.ids
          /\ Live(pending \cup {e}, draining) = Live(pending, draining) \cup e.ids
      BY ONLY <1>2, <2>4, <3>1, Enqueue
    <3> QED BY <2>1, <2>2, <3>2 DEF Ids
  <2> QED BY <2>1, <2>3 DEF Flow, Come
<1>5. CASE SendFallsThrough(m)
  BY <1>5, StillFlow DEF SendFallsThrough, drive
<1> QED BY <1>3, <1>4, <1>5 DEF Send

LEMMA ChipFlow ==
  ASSUME Inv, Chips
  PROVE  Flow
<1>1. Ownership(pending, draining, parked, owned)
  BY DEF Inv, Core
<1>2. ASSUME NEW G \in SUBSET parked, SendNow(G) PROVE Flow
  <2>1. /\ cur' = UNION G /\ owned' = owned \cup UNION G /\ parked' = parked \ G
        /\ UNCHANGED <<pending, draining>>
    BY <1>2 DEF SendNow, Open
  <2>2. Ids' = Ids
    BY <1>1, <2>1, TakeParked DEF Ids
  <2>3. UNION G \subseteq Ids \ owned
    BY <1>1 DEF Ownership, Ids, Known
  <2> QED BY <2>1, <2>2, <2>3 DEF Flow, TakeUp
<1>3. ASSUME NEW g, Remove(g) PROVE Flow
  <2>1. UNCHANGED <<cur, draining, owned>>
    BY <1>3 DEF Remove, drive
  <2>2. Ids' = Ids \ g /\ g \subseteq Ids /\ g \cap owned = {}
    <3>1. ASSUME NEW e \in pending, e.ids = g, pending' = pending \ {e}, parked' = parked
          PROVE  Ids' = Ids \ g /\ g \subseteq Ids /\ g \cap owned = {}
      <4>1. Known(pending \ {e}, draining, parked, owned)
              = Known(pending, draining, parked, owned) \ e.ids
        BY ONLY <1>1, <3>1, Unqueue
      <4>2. g \subseteq Ids /\ g \cap owned = {}
        BY <1>1, <3>1 DEF Ownership, Ids, Known, Flushed
      <4> QED BY <2>1, <3>1, <4>1, <4>2 DEF Ids
    <3>2. CASE g \in parked /\ parked' = parked \ {g} /\ pending' = pending
      <4>1. ASSUME NEW h \in parked
            PROVE  /\ Known(pending, draining, parked \ {h}, owned) = Ids \ h
                   /\ h \subseteq Ids
        BY <1>1, Unpark DEF Ids
      <4>2. g \cap owned = {}
        BY <1>1, <3>2 DEF Ownership
      <4> QED BY <2>1, <3>2, <4>1, <4>2 DEF Ids
    <3> QED BY <1>3, <3>1, <3>2 DEF Remove
  <2> QED BY <2>1, <2>2 DEF Flow, TakeBack
<1>4. ASSUME NEW e, NEW d \in {"queue", "steer"}, SetDelivery(e, d) PROVE Flow
  <2> DEFINE f == [x \in pending |-> IF x = e THEN [x EXCEPT !.delivery = d] ELSE x]
  <2>1. f \in [pending -> Entry] /\ \A x \in pending : f[x].ids = x.ids
    BY <1>1 DEF Ownership, Entry
  <2>2. pending' = {f[x] : x \in pending}
    BY <1>4 DEF SetDelivery
  <2> HIDE DEF f
  <2>3. Flushed(pending') = Flushed(pending)
    BY <1>1, <2>1, <2>2, Relabel
  <2> QED BY <1>4, <2>3, SameFlow DEF SetDelivery, drive
<1>5. ASSUME NEW g \in parked, Adopt(g) PROVE Flow
  <2> DEFINE e == NewEntry(g, "steer")
  <2>1. /\ pending' = pending \cup {e} /\ parked' = parked \ {g}
        /\ UNCHANGED <<cur, draining, owned>>
    BY <1>5 DEF Adopt, drive
  <2>2. /\ Ownership(pending, draining, parked \ {g}, owned)
        /\ Known(pending, draining, parked \ {g}, owned)
             = Known(pending, draining, parked, owned) \ g
        /\ g \in Group /\ g # {} /\ g \subseteq Known(pending, draining, parked, owned)
    BY <1>1, Unpark
  <2>4. e \in Entry /\ e.ids = g /\ e.ids # {}
    BY <2>2 DEF NewEntry, Entry, SteerIds
  <2> HIDE DEF e
  <2>3. Ids' = Ids
    <3>1. e.ids \cap Known(pending, draining, parked \ {g}, owned) = {}
      BY <2>2, <2>4
    <3>2. /\ Ownership(pending \cup {e}, draining, parked \ {g}, owned)
          /\ Known(pending \cup {e}, draining, parked \ {g}, owned)
               = Known(pending, draining, parked \ {g}, owned) \cup e.ids
          /\ Live(pending \cup {e}, draining) = Live(pending, draining) \cup e.ids
      BY ONLY <2>2, <2>4, <3>1, Enqueue
    <3> QED BY <2>1, <2>2, <2>4, <3>2 DEF Ids
  <2> QED BY <2>1, <2>3 DEF Flow, Keep
<1> QED BY <1>2, <1>3, <1>4, <1>5 DEF Chips

LEMMA DriveFlow ==
  ASSUME Inv, Drive
  PROVE  Flow
<1>1. Ownership(pending, draining, parked, owned)
  BY DEF Inv, Core
<1>2. pc \notin {"reload", "refresh"} => draining = {}
  BY DEF Inv, Core, Window
<1>3. CASE LoopTop
  <2>1. CASE userStopped
    BY <1>2, <1>3, <2>1, BottomFlow DEF LoopTop
  <2>2. CASE ~userStopped
    BY <1>3, <2>2, StillFlow DEF LoopTop
  <2> QED BY <2>1, <2>2
<1>4. CASE TurnReturns \/ ForceClose
  BY <1>2, <1>4, BottomFlow DEF TurnReturns, ForceClose, TurnEnds
<1>5. CASE BeginTurn \/ AskNative \/ ReloadInterrupted
  BY <1>5, StillFlow DEF BeginTurn, AskNative, ReloadInterrupted, drive
<1>6. ASSUME UNCHANGED <<cur, draining, owned>>,
             parked' = parked \cup Flushed(pending) /\ pending' = {}
      PROVE  Flow
  <2>1. Ids' = Ids
    BY <1>1, <1>6, ParkLive DEF Ids
  <2> QED BY <1>6, <2>1 DEF Flow, Keep
<1>7. ASSUME NEW armed \in BOOLEAN, ErrorResult(armed) PROVE Flow
  BY <1>6, <1>7, StillFlow DEF ErrorResult, queues
<1>8. CASE TurnRaises \/ QuestionPauses
  BY <1>6, <1>8 DEF TurnRaises, QuestionPauses
<1>9. CASE PromptCancelled
  <2>1. /\ cur # {} /\ cur' = {} /\ owned' = owned \ cur /\ parked' = parked \cup {cur}
        /\ UNCHANGED <<pending, draining>>
    BY <1>9 DEF PromptCancelled
  <2>2. Ids' = Ids
    <3>1. cur \subseteq owned
      BY DEF Inv, Core
    <3> QED BY <1>1, <2>1, <3>1, GiveBack DEF Ids
  <2> QED BY <2>1, <2>2 DEF Flow, PutBack
<1>10. ASSUME NEW r \in BOOLEAN, ReloadReturns(r) PROVE Flow
  <2>1. CASE Decide(draining, pending, err)
    BY <1>1, <2>1, DecideFlow DEF Inv, Core, Window, Ids
  <2>2. CASE draining = {} /\ EndAccepting(parked \cup Flushed(pending))
    BY <1>6, <2>2 DEF EndAccepting
  <2>3. CASE draining = {} /\ HiddenTurn /\ UNCHANGED pending
    BY <2>3, HiddenFlow
  <2> QED BY <1>10, <2>1, <2>2, <2>3 DEF ReloadReturns
<1>11. CASE Teardown
  <2>1. /\ cur' = {} /\ pending' = {} /\ draining' = {}
        /\ parked' = parked \cup draining \cup Flushed(pending) /\ owned' = owned
    BY <1>11 DEF Teardown
  <2>2. Ids' = Ids
    BY <1>1, <2>1, ParkAll DEF Ids
  <2>3. owned' = owned \cup {} /\ {} \in SUBSET (Ids \ owned)
    BY <2>1
  <2> QED BY <2>1, <2>2, <2>3 DEF Flow, TakeUp
<1> QED BY <1>3, <1>4, <1>5, <1>7, <1>8, <1>9, <1>10, <1>11 DEF Drive

LEMMA DeliverFlow ==
  ASSUME Inv, NEW E \in SUBSET pending, Deliver(E, pending),
         UNCHANGED <<cur, draining, parked>>
  PROVE  Flow
<1>1. Ownership(pending, draining, parked, owned)
  BY DEF Inv, Core
<1>2. pending' = pending \ E /\ owned' = owned \cup UNION Flushed(E)
  BY DEF Deliver
<1>3. /\ Ownership(pending \ E, draining, parked, owned \cup UNION Flushed(E))
      /\ Known(pending \ E, draining, parked, owned \cup UNION Flushed(E))
           = Known(pending, draining, parked, owned)
      /\ Live(pending \ E, draining) \subseteq Live(pending, draining)
  BY ONLY <1>1, E \in SUBSET pending, Delivered
<1>4. UNION Flushed(E) \subseteq Ids \ owned
  BY <1>1 DEF Ownership, Ids, Known, Flushed
<1> QED BY <1>2, <1>3, <1>4 DEF Flow, TakeUp, Ids

LEMMA SteerFlow ==
  ASSUME Inv, Steer
  PROVE  Flow
<1>1. Ownership(pending, draining, parked, owned)
  BY DEF Inv, Core
<1>2. Flushed(Reverted(pending)) = Flushed(pending)
  BY <1>1, RevertedOwned
<1>3. CASE SteerRefused
  BY <1>2, <1>3, SameFlow DEF SteerRefused, drive
<1>4. CASE SteerDispatch
  <2> DEFINE f == [x \in pending |-> IF x \in SteerCandidates
                                    THEN [x EXCEPT !.sid = Dispatching] ELSE x]
  <2>1. f \in [pending -> Entry] /\ \A x \in pending : f[x].ids = x.ids
    BY <1>1 DEF Ownership, Entry, SteerIds
  <2>2. pending' = {f[x] : x \in pending}
    BY <1>4 DEF SteerDispatch, SteerCandidates
  <2> HIDE DEF f
  <2>3. Flushed(pending') = Flushed(pending)
    BY <1>1, <2>1, <2>2, Relabel
  <2> QED BY <1>4, <2>3, SameFlow DEF SteerDispatch, drive
<1>5. ASSUME NEW n \in steerCalls, CallReturns(n) PROVE UNCHANGED <<cur, draining, parked>>
  BY <1>5 DEF CallReturns, drive
<1>6. ASSUME NEW n \in steerCalls, SteerReturns(n) PROVE Flow
  <2> DEFINE waiting == {e \in pending : e.sid = Dispatching}
             f == [x \in pending |-> IF x \in waiting
                                    THEN [x EXCEPT !.sid = n] ELSE x]
  <2>1. CallReturns(n) /\ n \in SteerNos
    BY <1>6 DEF SteerReturns, Inv, TypeOK
  <2>2. CASE Deliver(waiting, pending)
    BY <1>5, <2>1, <2>2, DeliverFlow
  <2>3. CASE /\ pending' = (pending \ waiting) \cup {[e EXCEPT !.sid = n] : e \in waiting}
             /\ UNCHANGED owned
    <3>1. f \in [pending -> Entry] /\ \A x \in pending : f[x].ids = x.ids
      BY <1>1, <2>1 DEF Ownership, Entry, SteerIds
    <3>2. pending' = {f[x] : x \in pending}
      BY <2>3
    <3> HIDE DEF f, waiting
    <3>3. Flushed(pending') = Flushed(pending)
      BY <1>1, <3>1, <3>2, Relabel
    <3> QED BY <1>5, <2>1, <2>3, <3>3, SameFlow
  <2> QED BY <1>6, <2>2, <2>3 DEF SteerReturns
<1>7. ASSUME NEW n \in steerCalls, SteerFails(n) PROVE Flow
  BY <1>2, <1>5, <1>7, SameFlow DEF SteerFails
<1>8. ASSUME NEW n \in steerCalls, SteerStale(n) PROVE Flow
  BY <1>5, <1>8, SameFlow DEF SteerStale
<1>9. ASSUME NEW d \in cli, SteerEcho(d) PROVE Flow
  <2> DEFINE E == {e \in pending : e.sid = d.no}
  <2>1. Deliver(E, pending) /\ UNCHANGED <<cur, draining, parked>>
    BY <1>9 DEF SteerEcho, drive
  <2>2. E \in SUBSET pending
    OBVIOUS
  <2> HIDE DEF E
  <2> QED BY <2>1, <2>2, DeliverFlow
<1> QED BY <1>3, <1>4, <1>6, <1>7, <1>8, <1>9 DEF Steer

LEMMA FlowStep == Inv /\ Resting /\ [Next]_vars => Flow
<1> SUFFICES ASSUME Inv, Resting, [Next]_vars PROVE Flow
  OBVIOUS
<1>1. CASE ArmCode \/ ArmReload \/ AnswerQuestion \/ ReapProvider
  BY <1>1, StillFlow DEF ArmCode, ArmReload, AnswerQuestion, ReapProvider, drive
<1>2. CASE StopRequest \/ StopReverts
  <2>1. Flushed(Reverted(pending)) = Flushed(pending)
    BY RevertedOwned DEF Inv, Core
  <2> QED BY <1>2, <2>1, SameFlow DEF StopRequest, StopReverts, drive
<1>3. CASE UNCHANGED vars
  BY <1>3, StillFlow DEF vars, drive
<1> QED BY <1>1, <1>2, <1>3, SendFlow, ChipFlow, DriveFlow, SteerFlow DEF Next

\* Every chat keeps what MessageLifecycle promises about each message: it
\* waits, runs in the one turn or is absorbed by it, and is then done for good.
THEOREM KeepsLifecycle == Spec => ImplementsLifecycle
<1>1. Init => Lifecycle!Init /\ Resting
  BY DEF Init, Lifecycle!Init, Standing, QueuedIds, Flushed, Resting
<1>2. Inv /\ Inv' /\ Resting /\ [Next]_vars => [Lifecycle!Next]_Standing
  BY FlowStep, FlowMaps
<1> QED BY <1>1, <1>2, Invariant, RestingStep, PTL DEF Spec, ImplementsLifecycle, Lifecycle!Spec
=============================================================================
