------------------------ MODULE TaskDelegationProofs ------------------------
(***************************************************************************)
(* TaskDelegation keeps its types, OneLive, CardNamesHolder and            *)
(* DoneUnlinked, and implements DelegationContract, for every set of       *)
(* attempts and requests.                                                  *)
(***************************************************************************)
EXTENDS TaskDelegation, TLAPS

Made == {a \in Attempts : att[a].state # "none"}
InHand == {call[c].for : c \in {d \in Clients : call[d].do = "link"}}

\* A request is about an attempt that exists.
CallsMade ==
  \A c \in Clients : call[c] # Idle => call[c].do \in Steps /\ call[c].for \in Made

\* An attempt between its start and its link is running, has no turn yet, and
\* nobody else knows of it.
HandAlone ==
  \A c \in Clients : call[c].do = "link" =>
    /\ att[call[c].for].state = "running"
    /\ ~att[call[c].for].released
    /\ ~att[call[c].for].turn
    /\ card.link # call[c].for
    /\ \A d \in Clients \ {c} : call[d].for # call[c].for

LinkMade == card.link \in Made \cup {NoAttempt}

\* What an approval that is not stale knows: before the unlink the card names
\* its attempt; after it the card is free and open, and only an attempt in hand
\* can have come to live since.
Approving ==
  \A c \in Clients : call[c].fresh =>
    /\ call[c].do = "unlink" => card.link = call[c].for
    /\ call[c].do \in {"complete", "relink"} =>
         /\ card.link = NoAttempt
         /\ card.column # "done"
         /\ Holders \subseteq InHand \cup {call[c].for}

Inv == /\ TypeOK /\ OneLive /\ CardNamesHolder /\ DoneUnlinked
       /\ CallsMade /\ HandAlone /\ LinkMade /\ Approving

\* How a client's entry may change beside its attempts: not at all, by going
\* stale, by coming to its end, or by the next step of a request.
Kept(c) ==
  \/ call'[c] = call[c]
  \/ call'[c] = [call[c] EXCEPT !.fresh = FALSE]
  \/ call[c].do # "link" /\ call'[c] = Idle
  \/ /\ call[c].do # "link"
     /\ call'[c] \in [do : Steps \ {"link"}, for : Made \ InHand, fresh : BOOLEAN]

\* ... and what an entry knows beside an unchanged card: what it knew, nothing
\* an approval depends on, what an approval begins with, or what the completion
\* that is refused knew.
Aware(c) ==
  call'[c].fresh =>
    \/ call'[c] = call[c]
    \/ call'[c].do \notin {"unlink", "complete", "relink"}
    \/ call'[c].do = "unlink" /\ card.link = call'[c].for
    \/ /\ call'[c].do = "relink" /\ call[c].do = "complete"
       /\ call[c].fresh /\ call'[c].for = call[c].for

-----------------------------------------------------------------------------
LEMMA InitInv == Init => Inv
  BY AttemptAssumption DEF Init, Inv, TypeOK, OneLive, CardNamesHolder, DoneUnlinked,
     CallsMade, HandAlone, LinkMade, Approving, Holders, Live, Unmade, Idle, Attempt,
     Columns, LiveStates, Resumable, Ends, Steps

\* A step that gives nobody the task.
LEMMA Moves ==
  ASSUME Inv,
         att' \in [Attempts -> Attempt],
         Holders' \subseteq Holders,
         Made \subseteq Made',
         \A a \in InHand : att'[a] = att[a],
         card' \in [column : Columns, link : Attempts \cup {NoAttempt}],
         card'.link \notin InHand,
         call' \in [Clients -> [do : Steps \cup {"idle"}, for : Attempts \cup {NoAttempt},
                                fresh : BOOLEAN]],
         \A c \in Clients : Kept(c),
         CardNamesHolder', DoneUnlinked', LinkMade', Approving'
  PROVE  Inv'
<1>1. \A c \in Clients : call'[c].do = "link" => call[c].do = "link" /\ call'[c].for = call[c].for
  BY DEF Kept, Idle, Inv, TypeOK
<1>2. TypeOK'
  BY DEF TypeOK
<1>3. OneLive'
  BY DEF Inv, OneLive
<1>4. CallsMade'
  BY DEF Inv, CallsMade, Kept, Idle, TypeOK
<1>5. HandAlone'
  <2> SUFFICES ASSUME NEW c \in Clients, call'[c].do = "link"
               PROVE  /\ att'[call'[c].for].state = "running"
                      /\ ~att'[call'[c].for].released
                      /\ ~att'[call'[c].for].turn
                      /\ card'.link # call'[c].for
                      /\ \A d \in Clients \ {c} : call'[d].for # call'[c].for
    BY DEF HandAlone
  <2>1. call[c].do = "link" /\ call'[c].for = call[c].for /\ call[c].for \in InHand
    BY <1>1 DEF InHand
  <2>2. call[c].for \in Attempts
    BY <2>1, AttemptAssumption DEF Inv, CallsMade, Idle, Made, TypeOK
  <2>3. ASSUME NEW d \in Clients \ {c} PROVE call'[d].for # call'[c].for
    BY <2>1, <2>2, <2>3, AttemptAssumption DEF Inv, HandAlone, Kept, Idle, TypeOK, InHand
  <2> QED BY <2>1, <2>2, <2>3 DEF Inv, HandAlone
<1> QED BY <1>2, <1>3, <1>4, <1>5 DEF Inv

\* The attempts in hand stay the same.
LEMMA HandKept ==
  ASSUME Inv,
         call' \in [Clients -> [do : Steps \cup {"idle"}, for : Attempts \cup {NoAttempt},
                                fresh : BOOLEAN]],
         \A c \in Clients : Kept(c)
  PROVE  InHand' = InHand
<1>1. \A c \in Clients : call'[c].do = "link" => call[c].do = "link" /\ call'[c].for = call[c].for
  BY DEF Kept, Idle, Inv, TypeOK
<1>2. \A c \in Clients : call[c].do = "link" => call'[c].do = "link" /\ call'[c].for = call[c].for
  BY DEF Kept, Idle, Inv, TypeOK
<1> QED BY <1>1, <1>2 DEF InHand

\* A step that gives nobody the task and leaves the link alone.
LEMMA Quiet ==
  ASSUME Inv,
         att' \in [Attempts -> Attempt],
         Holders' \subseteq Holders,
         Made \subseteq Made',
         \A a \in InHand : att'[a] = att[a],
         card' \in [column : Columns, link : Attempts \cup {NoAttempt}],
         card'.link = card.link,
         card'.column = "done" => card.column = "done",
         call' \in [Clients -> [do : Steps \cup {"idle"}, for : Attempts \cup {NoAttempt},
                                fresh : BOOLEAN]],
         \A c \in Clients : Kept(c) /\ Aware(c),
         card' = card \/ \A c \in Clients : ~call'[c].fresh
  PROVE  Inv'
<1>1. InHand' = InHand
  BY HandKept
<1>2. CardNamesHolder'
  <2>1. \A c \in Clients : call[c].do = "link" => call'[c].do = "link" /\ call'[c].for = call[c].for
    BY DEF Kept, Idle, Inv, TypeOK
  <2> QED BY <2>1 DEF Inv, CardNamesHolder
<1>3. DoneUnlinked' /\ LinkMade'
  BY DEF Inv, DoneUnlinked, LinkMade
<1>4. card'.link \notin InHand
  BY DEF Inv, HandAlone, InHand
<1>5. Approving'
  <2> SUFFICES ASSUME NEW c \in Clients, call'[c].fresh
               PROVE  /\ call'[c].do = "unlink" => card'.link = call'[c].for
                      /\ call'[c].do \in {"complete", "relink"} =>
                           /\ card'.link = NoAttempt
                           /\ card'.column # "done"
                           /\ Holders' \subseteq InHand' \cup {call'[c].for}
    BY DEF Approving
  <2>1. card' = card
    OBVIOUS
  <2>2. CASE call'[c] = call[c]
    BY <2>1, <2>2, <1>1 DEF Inv, Approving
  <2>3. CASE call'[c] # call[c]
    <3>1. /\ call'[c].do # "complete"
          /\ call'[c].do = "unlink" => card.link = call'[c].for
          /\ call'[c].do = "relink" => /\ call[c].do = "complete" /\ call[c].fresh
                                       /\ call'[c].for = call[c].for
      BY <2>3 DEF Aware
    <3> QED BY <3>1, <2>1, <1>1 DEF Inv, Approving
  <2> QED BY <2>2, <2>3
<1> QED BY <1>2, <1>3, <1>4, <1>5, Moves

\* A step that gives nobody the task and takes the link off the card.
LEMMA Freed ==
  ASSUME Inv,
         att' \in [Attempts -> Attempt],
         Holders' \subseteq Holders,
         Made \subseteq Made',
         \A a \in InHand : att'[a] = att[a],
         card' \in [column : Columns, link : {NoAttempt}],
         call' \in [Clients -> [do : Steps \cup {"idle"}, for : Attempts \cup {NoAttempt},
                                fresh : BOOLEAN]],
         \A c \in Clients : Kept(c) /\ ~call'[c].fresh
  PROVE  Inv'
<1>1. CardNamesHolder' /\ DoneUnlinked' /\ LinkMade'
  BY DEF CardNamesHolder, DoneUnlinked, LinkMade
<1>2. card'.link \notin InHand
  BY AttemptAssumption DEF Inv, CallsMade, InHand, Idle, Made
<1>3. Approving'
  BY DEF Approving
<1> QED BY <1>1, <1>2, <1>3, Moves

\* The same for a step about one attempt that is not in hand.
LEMMA QuietOne ==
  ASSUME Inv,
         NEW a \in Attempts \ InHand,
         NEW r \in Attempt,
         r.state = "none" => att[a].state = "none",
         Live(r) => Live(att[a]),
         att' = [att EXCEPT ![a] = r],
         card' \in [column : Columns, link : Attempts \cup {NoAttempt}],
         card'.link = card.link,
         card'.column = "done" => card.column = "done",
         call' \in [Clients -> [do : Steps \cup {"idle"}, for : Attempts \cup {NoAttempt},
                                fresh : BOOLEAN]],
         \A c \in Clients : Kept(c) /\ Aware(c),
         card' = card \/ \A c \in Clients : ~call'[c].fresh
  PROVE  Inv'
<1>2. att' \in [Attempts -> Attempt]
  BY DEF Inv, TypeOK
<1>3. Holders' \subseteq Holders
  BY DEF Inv, TypeOK, Holders, Live
<1>4. Made \subseteq Made'
  BY DEF Inv, TypeOK, Made
<1>5. \A b \in InHand : att'[b] = att[b]
  BY AttemptAssumption DEF Inv, TypeOK, CallsMade, InHand, Made, Idle
<1> QED BY <1>2, <1>3, <1>4, <1>5, Quiet

\* The ways the requests go on beside a step.
LEMMA StaleKept ==
  ASSUME Inv, call' = Stale(call)
  PROVE  /\ call' \in [Clients -> [do : Steps \cup {"idle"}, for : Attempts \cup {NoAttempt},
                                   fresh : BOOLEAN]]
         /\ \A c \in Clients : Kept(c) /\ Aware(c) /\ ~call'[c].fresh
  BY DEF Inv, TypeOK, Stale, Kept, Aware

LEMMA SameKept ==
  ASSUME Inv, call' = call
  PROVE  /\ call' \in [Clients -> [do : Steps \cup {"idle"}, for : Attempts \cup {NoAttempt},
                                   fresh : BOOLEAN]]
         /\ \A c \in Clients : Kept(c) /\ Aware(c)
  BY DEF Inv, TypeOK, Kept, Aware

LEMMA DoneKept ==
  ASSUME Inv, NEW c \in Clients, call[c].do # "link", call' = Done(c)
  PROVE  /\ call' \in [Clients -> [do : Steps \cup {"idle"}, for : Attempts \cup {NoAttempt},
                                   fresh : BOOLEAN]]
         /\ \A d \in Clients : Kept(d) /\ Aware(d)
  BY DEF Inv, TypeOK, Done, Kept, Aware, Idle

LEMMA GoneKept ==
  ASSUME Inv, NEW c \in Clients, call[c].do # "link", call' = Writes(c, Idle)
  PROVE  /\ call' \in [Clients -> [do : Steps \cup {"idle"}, for : Attempts \cup {NoAttempt},
                                   fresh : BOOLEAN]]
         /\ \A d \in Clients : Kept(d) /\ Aware(d) /\ ~call'[d].fresh
  BY DEF Inv, TypeOK, Writes, Stale, Kept, Aware, Idle

LEMMA StepKept ==
  ASSUME Inv, NEW c \in Clients, NEW step \in Steps \ {"link"}, NEW a \in Made \ InHand,
         NEW fresh \in BOOLEAN,
         call[c].do # "link",
         call' = [call EXCEPT ![c] = Doing(step, a, fresh)],
         fresh => \/ step \notin {"unlink", "complete", "relink"}
                  \/ step = "unlink" /\ card.link = a
                  \/ step = "relink" /\ call[c].do = "complete" /\ call[c].fresh /\ call[c].for = a
  PROVE  /\ call' \in [Clients -> [do : Steps \cup {"idle"}, for : Attempts \cup {NoAttempt},
                                   fresh : BOOLEAN]]
         /\ \A d \in Clients : Kept(d) /\ Aware(d)
  BY DEF Inv, TypeOK, Doing, Kept, Aware, Made

LEMMA NextKept ==
  ASSUME Inv, NEW c \in Clients, NEW step \in Steps \ {"link", "complete", "unlink"},
         call[c].for \in Made \ InHand,
         call[c].do # "link",
         call' = [call EXCEPT ![c].do = step],
         step = "relink" => call[c].do = "complete"
  PROVE  /\ call' \in [Clients -> [do : Steps \cup {"idle"}, for : Attempts \cup {NoAttempt},
                                   fresh : BOOLEAN]]
         /\ \A d \in Clients : Kept(d) /\ Aware(d)
<1>1. /\ call'[c] \in [do : Steps \ {"link"}, for : Made \ InHand, fresh : BOOLEAN]
      /\ call'[c].do = step /\ call'[c].for = call[c].for /\ call'[c].fresh = call[c].fresh
  BY DEF Inv, TypeOK
<1>2. Kept(c) /\ Aware(c)
  BY <1>1 DEF Kept, Aware
<1> QED BY <1>2 DEF Inv, TypeOK, Kept, Aware

\* Between its start and its link a delegation has the loop for itself.
LEMMA HandEmpty == ASSUME LoopFree PROVE InHand = {}
  BY DEF LoopFree, InHand

\* The attempt of any other request is not in hand.
LEMMA OutOfHand ==
  ASSUME Inv, NEW c \in Clients, call[c] # Idle, call[c].do # "link"
  PROVE  call[c].for \in Made \ InHand /\ call[c].for \in Attempts
  BY DEF Inv, HandAlone, InHand, CallsMade, Made

\* Finished keeps an attempt's type, and gives no task to one that has none.
LEMMA FinishedQuiet ==
  ASSUME NEW r \in Attempt,
         NEW state \in (LiveStates \ {"running"}) \cup Resumable
  PROVE  /\ Finished(r, state) \in Attempt
         /\ Finished(r, state).state = "none" => r.state = "none"
         /\ Live(Finished(r, state)) => Live(r)
         /\ Finished(r, state).released = r.released
         /\ Finished(r, state).watch = r.watch
  BY DEF Attempt, Finished, Admits, Live, LiveStates, Resumable

LEMMA WatchedQuiet ==
  ASSUME Inv, NEW a \in Attempts, NEW r \in Attempt, r.state # "none"
  PROVE  /\ Watched(a, r) \in Attempt
         /\ Watched(a, r).state # "none"
         /\ Live(Watched(a, r)) = Live(r)
  BY DEF Watched, Followed, Attempt, Live, LiveStates

-----------------------------------------------------------------------------
(* Steps that give nobody the task and leave the link alone *)

LEMMA SendInv == ASSUME Inv, LoopFree, NEW a \in Attempts, Send(a) PROVE Inv'
<1> DEFINE r == [Watched(a, att[a]) EXCEPT !.turn = TRUE]
<1>1. att[a] \in Attempt /\ att[a].state # "none" /\ a \notin InHand
  BY HandEmpty DEF Send, Inv, TypeOK
<1>2. r \in Attempt /\ r.state # "none" /\ (Live(r) => Live(att[a]))
  <2>1. /\ Watched(a, att[a]) \in Attempt /\ Watched(a, att[a]).state # "none"
        /\ Live(Watched(a, att[a])) = Live(att[a])
    BY <1>1, WatchedQuiet
  <2>2. /\ r \in Attempt /\ r.state = Watched(a, att[a]).state
        /\ r.released = Watched(a, att[a]).released
    BY <2>1 DEF Attempt
  <2> QED BY <2>1, <2>2 DEF Live
<1>3. att' = [att EXCEPT ![a] = r]
  BY DEF Send
<1>4. CASE Reviewed(a, att[a])
  <2>1. card' = [card EXCEPT !.column = "open"] /\ call' = Stale(call)
    BY <1>4 DEF Send
  <2>2. /\ card' \in [column : Columns, link : Attempts \cup {NoAttempt}]
        /\ card'.link = card.link /\ card'.column # "done"
    BY <2>1 DEF Inv, TypeOK, Columns
  <2> QED BY <1>1, <1>2, <1>3, <2>1, <2>2, StaleKept, QuietOne
<1>5. CASE ~Reviewed(a, att[a])
  <2>1. card' = card /\ call' = call
    BY <1>5 DEF Send
  <2> QED BY <1>1, <1>2, <1>3, <2>1, SameKept, QuietOne DEF Inv, TypeOK
<1> QED BY <1>4, <1>5

LEMMA TurnEndsInv ==
  ASSUME Inv, LoopFree, NEW a \in Attempts, NEW end \in EndKinds, TurnEnds(a, end) PROVE Inv'
<1> DEFINE r == [att[a] EXCEPT !.turn = FALSE,
                               !.chat = IF end = "asking" /\ @ = "open" THEN "native" ELSE @,
                               !.watch = IF @ = "on" THEN end ELSE @]
<1>1. att[a] \in Attempt /\ end \in Ends
  BY AttemptAssumption DEF Inv, TypeOK
<1>2. r \in Attempt /\ r.state = att[a].state /\ r.released = att[a].released
  BY <1>1 DEF Attempt
<1>3. att' = [att EXCEPT ![a] = r]
  BY DEF TurnEnds
<1>4. Holders' \subseteq Holders /\ Made \subseteq Made'
  BY <1>2, <1>3 DEF Holders, Made, Live, Inv, TypeOK
<1> QED BY <1>2, <1>3, <1>4, Quiet, SameKept, HandEmpty DEF TurnEnds, Inv, TypeOK

LEMMA SettleInv == ASSUME Inv, LoopFree, NEW a \in Attempts, Settle(a) PROVE Inv'
<1> DEFINE off == [att[a] EXCEPT !.watch = "off"]
           to == Verdict(att[a])
<1>1. att[a] \in Attempt
  BY DEF Inv, TypeOK
<1>2. off \in Attempt /\ off.state = att[a].state /\ off.released = att[a].released
  BY <1>1 DEF Attempt
<1>3. to \in (LiveStates \ {"running"}) \cup Resumable
  BY DEF Verdict, LiveStates, Resumable
<1>4. a \notin InHand
  BY HandEmpty
<1>5. CASE (Live(att[a]) \/ to = "interrupted") /\ Admits(att[a], to)
  <2>1. /\ att' = [att EXCEPT ![a] = Finished(off, to)]
        /\ call' = Stale(call)
        /\ card' = IF MarksReview(a, to) THEN [card EXCEPT !.column = "in_review"] ELSE card
    BY <1>5 DEF Settle
  <2>2. /\ card' \in [column : Columns, link : Attempts \cup {NoAttempt}]
        /\ card'.link = card.link
        /\ card'.column = "done" => card.column = "done"
    BY <2>1 DEF Inv, TypeOK, Columns
  <2>3. /\ Finished(off, to) \in Attempt
        /\ Finished(off, to).state = "none" => att[a].state = "none"
        /\ Live(Finished(off, to)) => Live(att[a])
    BY <1>2, <1>3, FinishedQuiet DEF Live
  <2> QED BY <1>4, <2>1, <2>2, <2>3, StaleKept, QuietOne
<1>6. CASE ~((Live(att[a]) \/ to = "interrupted") /\ Admits(att[a], to))
  <2>1. att' = [att EXCEPT ![a] = off] /\ card' = card /\ call' = call
    BY <1>6 DEF Settle
  <2> QED BY <1>2, <1>4, <2>1, SameKept, QuietOne DEF Inv, TypeOK, Live
<1> QED BY <1>5, <1>6

LEMMA ChatEndsInv == ASSUME Inv, LoopFree, NEW a \in Attempts, ChatEnds(a) PROVE Inv'
<1> DEFINE r == [att[a] EXCEPT !.chat = "gone"]
           s == IF Live(r) /\ r.state # "ready_for_review" THEN Finished(r, "interrupted") ELSE r
<1>1. r \in Attempt /\ r.state = att[a].state /\ r.released = att[a].released
  BY DEF Inv, TypeOK, Attempt
<1>2. s \in Attempt /\ (s.state = "none" => att[a].state = "none") /\ (Live(s) => Live(att[a]))
  BY <1>1, FinishedQuiet DEF Live, Resumable
<1>3. att' = [att EXCEPT ![a] = s] /\ card' = card /\ a \notin InHand
  BY HandEmpty DEF ChatEnds
<1>4. call' = Stale(call) \/ call' = call
  BY DEF ChatEnds
<1> QED BY <1>2, <1>3, <1>4, StaleKept, SameKept, QuietOne DEF Inv, TypeOK

\* Stopping a live attempt, whatever became of it in between.
LEMMA FinishInv ==
  ASSUME Inv, NEW a \in Attempts \ InHand, NEW state \in (LiveStates \ {"running"}) \cup Resumable,
         att' = [att EXCEPT ![a] = Finished(@, state)],
         card' = card,
         call' \in [Clients -> [do : Steps \cup {"idle"}, for : Attempts \cup {NoAttempt},
                                fresh : BOOLEAN]],
         \A c \in Clients : Kept(c) /\ Aware(c)
  PROVE  Inv'
<1>1. /\ Finished(att[a], state) \in Attempt
      /\ Finished(att[a], state).state = "none" => att[a].state = "none"
      /\ Live(Finished(att[a], state)) => Live(att[a])
  BY FinishedQuiet DEF Inv, TypeOK
<1> QED BY <1>1, QuietOne DEF Inv, TypeOK

\* A request that only takes its next step.
LEMMA SkipInv ==
  ASSUME Inv, UNCHANGED <<att, card>>,
         call' \in [Clients -> [do : Steps \cup {"idle"}, for : Attempts \cup {NoAttempt},
                                fresh : BOOLEAN]],
         \A c \in Clients : Kept(c) /\ Aware(c)
  PROVE  Inv'
<1>1. Holders' = Holders /\ Made' = Made
  BY DEF Holders, Live, Made
<1> QED BY <1>1, Quiet DEF Inv, TypeOK

LEMMA StopInv ==
  ASSUME Inv, LoopFree, NEW c \in Clients, NEW a \in Attempts, Stop(c, a) PROVE Inv'
<1>1. call[c].do # "link" /\ a \in Made \ InHand
  BY HandEmpty DEF Stop, Idle, Made, Live, LiveStates
<1>2. CASE att[a].state = "running"
  <2>1. call' = [call EXCEPT ![c] = Doing("stop", a, FALSE)] /\ UNCHANGED <<att, card>>
    BY <1>2 DEF Stop
  <2>2. "stop" \in Steps \ {"link"}
    BY DEF Steps
  <2> QED BY <1>1, <2>1, <2>2, StepKept, SkipInv
<1>3. CASE att[a].state # "running"
  <2>1. att' = [att EXCEPT ![a] = Finished(@, "stopped")] /\ call' = call /\ card' = card
    BY <1>3 DEF Stop
  <2> QED BY <1>1, <2>1, SameKept, FinishInv DEF Made, Resumable
<1> QED BY <1>2, <1>3

LEMMA StoppedInv == ASSUME Inv, NEW c \in Clients, Stopped(c) PROVE Inv'
<1>1. call[c].for \in Attempts \ InHand /\ call[c].do # "link"
  BY OutOfHand DEF Stopped, Idle
<1> QED BY <1>1, DoneKept, FinishInv DEF Stopped, Resumable

LEMMA DetachInv ==
  ASSUME Inv, LoopFree, NEW c \in Clients, NEW a \in Attempts, Detach(c, a) PROVE Inv'
<1>1. call[c].do # "link" /\ a \in Made \ InHand
  BY HandEmpty DEF Detach, Idle, Made
<1>2. CASE att[a].state = "running"
  <2>1. /\ \/ call' = [call EXCEPT ![c] = Doing("detach", a, TRUE)]
           \/ call' = [call EXCEPT ![c] = Doing("leave", a, FALSE)]
        /\ UNCHANGED <<att, card>>
    BY <1>2 DEF Detach
  <2>2. {"detach", "leave"} \subseteq Steps \ {"link"}
    BY DEF Steps
  <2> QED BY <1>1, <2>1, <2>2, StepKept, SkipInv
<1>3. CASE att[a].state # "running"
  <2> DEFINE r == IF att[a].state = "needs_you" THEN Finished(att[a], "stopped") ELSE att[a]
             s == [r EXCEPT !.released = @ \/ Live(r)]
  <2>1. /\ att' = [att EXCEPT ![a] = s]
        /\ \/ card.link = a /\ card' = Unlinked /\ call' = Stale(call)
           \/ card' = card /\ call' = call
    BY <1>3 DEF Detach
  <2>2. r \in Attempt /\ (r.state = "none" => att[a].state = "none") /\ (Live(r) => Live(att[a]))
    BY FinishedQuiet DEF Inv, TypeOK, Resumable
  <2>3. s \in Attempt /\ s.state = r.state /\ (Live(s) => Live(r))
    BY <2>2 DEF Attempt, Live
  <2>4. CASE card.link = a /\ card' = Unlinked /\ call' = Stale(call)
    <3>1. card' \in [column : Columns, link : {NoAttempt}]
      BY <2>4 DEF Unlinked, Inv, TypeOK, Columns
    <3>2. /\ att' \in [Attempts -> Attempt] /\ Holders' \subseteq Holders /\ Made \subseteq Made'
          /\ \A b \in InHand : att'[b] = att[b]
      BY <2>1, <2>2, <2>3, HandEmpty DEF Inv, TypeOK, Holders, Live, Made
    <3> QED BY <2>4, <3>1, <3>2, StaleKept, Freed
  <2>5. CASE card' = card /\ call' = call
    BY <1>1, <2>1, <2>2, <2>3, <2>5, SameKept, QuietOne DEF Inv, TypeOK
  <2> QED BY <2>1, <2>4, <2>5
<1> QED BY <1>2, <1>3

LEMMA DetachedInv == ASSUME Inv, NEW c \in Clients, Detached(c) PROVE Inv'
<1> DEFINE a == call[c].for
<1>1. a \in Attempts \ InHand /\ call[c].do # "link"
  BY OutOfHand DEF Detached, Idle
<1>2. att' = [att EXCEPT ![a] = Finished(@, "stopped")]
  BY DEF Detached
<1>3. CASE call[c].fresh
  <2>1. card' = Unlinked /\ call' = Writes(c, Idle)
    BY <1>3 DEF Detached
  <2>2. card' \in [column : Columns, link : {NoAttempt}]
    BY <2>1 DEF Unlinked, Inv, TypeOK, Columns
  <2>3. /\ Finished(att[a], "stopped") \in Attempt
        /\ Finished(att[a], "stopped").state = "none" => att[a].state = "none"
        /\ Live(Finished(att[a], "stopped")) => Live(att[a])
    BY <1>1, FinishedQuiet DEF Inv, TypeOK, Resumable
  <2>4. /\ att' \in [Attempts -> Attempt] /\ Holders' \subseteq Holders /\ Made \subseteq Made'
        /\ \A b \in InHand : att'[b] = att[b]
    BY <1>1, <1>2, <2>3, AttemptAssumption
       DEF Inv, TypeOK, Holders, Live, Made, CallsMade, InHand, Idle
  <2> QED BY <1>1, <2>1, <2>2, <2>4, GoneKept, Freed
<1>4. CASE ~call[c].fresh
  <2>1. card' = card /\ call' = Done(c)
    BY <1>4 DEF Detached
  <2> QED BY <1>1, <1>2, <2>1, DoneKept, FinishInv DEF Resumable
<1> QED BY <1>3, <1>4

-----------------------------------------------------------------------------
(* Steps in worker threads: an attempt in hand is none of theirs *)

LEMMA ApproveInv ==
  ASSUME Inv, NEW c \in Clients, NEW a \in Attempts, Approve(c, a) PROVE Inv'
<1>1. a \in Made \ InHand /\ call[c].do # "link"
  BY DEF Approve, Made, Inv, HandAlone, InHand, Idle
<1>2. "unlink" \in Steps \ {"link"}
  BY DEF Steps
<1> QED BY <1>1, <1>2, StepKept, SkipInv DEF Approve

\* A step of a thread that wrote the card.
LEMMA WritesType ==
  ASSUME TypeOK, NEW c \in Clients, NEW step \in Steps, NEW a \in Attempts, NEW fresh \in BOOLEAN
  PROVE  Writes(c, Doing(step, a, fresh))
           \in [Clients -> [do : Steps \cup {"idle"}, for : Attempts \cup {NoAttempt},
                            fresh : BOOLEAN]]
<1> DEFINE Calls == [do : Steps \cup {"idle"}, for : Attempts \cup {NoAttempt}, fresh : BOOLEAN]
<1>1. Stale(call) \in [Clients -> Calls]
  BY DEF TypeOK, Stale
<1>2. Doing(step, a, fresh) \in Calls
  BY DEF Doing
<1> QED BY <1>1, <1>2 DEF Writes

LEMMA UnlinkInv == ASSUME Inv, NEW c \in Clients, Unlink(c) PROVE Inv'
<1> DEFINE a == call[c].for
<1>1. a \in Made \ InHand /\ a \in Attempts /\ call[c].do # "link"
  BY OutOfHand DEF Unlink, Idle
<1>2. CASE ~call[c].fresh
  BY <1>1, <1>2, DoneKept, SkipInv DEF Unlink
<1>3. CASE call[c].fresh
  <2>1. /\ card' = [card EXCEPT !.link = NoAttempt]
        /\ call' = Writes(c, Doing("complete", a, TRUE))
        /\ att' = att
    BY <1>3 DEF Unlink
  <2>2. call' \in [Clients -> [do : Steps \cup {"idle"}, for : Attempts \cup {NoAttempt},
                               fresh : BOOLEAN]]
    <3>1. "complete" \in Steps
      BY DEF Steps
    <3> QED BY <1>1, <2>1, <3>1, WritesType DEF Inv
  <2>3. \A d \in Clients : Kept(d) /\ (d # c => ~call'[d].fresh)
    BY <1>1, <2>1 DEF Inv, TypeOK, Writes, Stale, Doing, Kept, Steps
  <2>4. card.link = a /\ card.column # "done"
    BY <1>1, <1>3, AttemptAssumption DEF Unlink, Inv, Approving, DoneUnlinked
  <2>5. Holders \subseteq InHand \cup {a}
    BY <1>1, <2>4, AttemptAssumption DEF Inv, CardNamesHolder, InHand, Holders
  <2>6. Holders' = Holders /\ Made' = Made
    BY <2>1 DEF Holders, Live, Made
  <2>7. InHand' = InHand
    BY <2>2, <2>3, HandKept
  <2>8. /\ card' \in [column : Columns, link : {NoAttempt}]
        /\ card'.column = card.column
    BY <2>1 DEF Inv, TypeOK
  <2>9. CardNamesHolder' /\ DoneUnlinked' /\ LinkMade'
    BY <2>8 DEF CardNamesHolder, DoneUnlinked, LinkMade
  <2>10. card'.link \notin InHand
    BY <2>8, AttemptAssumption DEF Inv, CallsMade, InHand, Idle, Made
  <2>11. call'[c] = Doing("complete", a, TRUE)
    BY <2>1 DEF Writes, Stale
  <2>12. Approving'
    BY <2>3, <2>4, <2>5, <2>6, <2>7, <2>8, <2>11 DEF Approving, Doing
  <2> QED BY <2>1, <2>2, <2>3, <2>6, <2>8, <2>9, <2>10, <2>12, Moves DEF Inv, TypeOK
<1> QED BY <1>2, <1>3

LEMMA CompleteInv == ASSUME Inv, NEW c \in Clients, Complete(c) PROVE Inv'
<1> DEFINE a == call[c].for
<1>1. a \in Made \ InHand /\ a \in Attempts /\ call[c].do = "complete"
  BY OutOfHand DEF Complete, Idle
<1>2. CASE /\ call[c].fresh
           /\ card' = [card EXCEPT !.column = "done"]
           /\ call' = Writes(c, Doing("release", a, FALSE))
  <2>1. call' \in [Clients -> [do : Steps \cup {"idle"}, for : Attempts \cup {NoAttempt},
                               fresh : BOOLEAN]]
    <3>1. "release" \in Steps
      BY DEF Steps
    <3> QED BY <1>1, <1>2, <3>1, WritesType DEF Inv
  <2>2. \A d \in Clients : Kept(d) /\ ~call'[d].fresh
    BY <1>1, <1>2 DEF Inv, TypeOK, Writes, Stale, Doing, Kept, Steps
  <2>3. card.link = NoAttempt
    BY <1>1, <1>2 DEF Inv, Approving
  <2>4. card' \in [column : Columns, link : {NoAttempt}]
    BY <1>2, <2>3 DEF Inv, TypeOK, Columns
  <2>5. Holders' = Holders /\ Made' = Made /\ att' = att
    BY DEF Complete, Holders, Live, Made
  <2> QED BY <2>1, <2>2, <2>4, <2>5, Freed DEF Inv, TypeOK
<1>3. CASE call' = [call EXCEPT ![c].do = "relink"] /\ card' = card
  <2>1. "relink" \in Steps \ {"link", "complete", "unlink"}
    BY DEF Steps
  <2>2. att' = att
    BY DEF Complete
  <2> QED BY <1>1, <1>3, <2>1, <2>2, NextKept, SkipInv
<1> QED BY <1>2, <1>3 DEF Complete

LEMMA RelinkInv == ASSUME Inv, NEW c \in Clients, Relink(c) PROVE Inv'
<1> DEFINE a == call[c].for
<1>1. a \in Made \ InHand /\ a \in Attempts /\ call[c].do = "relink"
  BY OutOfHand DEF Relink, Idle
<1>2. CASE ~call[c].fresh
  BY <1>1, <1>2, DoneKept, SkipInv DEF Relink
<1>3. CASE call[c].fresh
  <2>1. card' = [card EXCEPT !.link = a] /\ call' = Writes(c, Idle) /\ att' = att
    BY <1>3 DEF Relink
  <2>2. card.column # "done" /\ Holders \subseteq InHand \cup {a}
    BY <1>1, <1>3 DEF Inv, Approving
  <2>3. /\ call' \in [Clients -> [do : Steps \cup {"idle"}, for : Attempts \cup {NoAttempt},
                                  fresh : BOOLEAN]]
        /\ \A d \in Clients : Kept(d) /\ ~call'[d].fresh
    BY <1>1, <2>1, GoneKept
  <2>4. Holders' = Holders /\ Made' = Made /\ att' \in [Attempts -> Attempt]
    BY <2>1 DEF Holders, Live, Made, Inv, TypeOK
  <2>5. /\ card' \in [column : Columns, link : Attempts \cup {NoAttempt}]
        /\ card'.link = a /\ card'.column = card.column
    BY <1>1, <2>1 DEF Inv, TypeOK
  <2>6. \A d \in Clients : call[d].do = "link" => call'[d].do = "link" /\ call'[d].for = call[d].for
    BY <2>3 DEF Kept, Idle, Inv, TypeOK
  <2>7. CardNamesHolder'
    BY <2>2, <2>4, <2>5, <2>6 DEF CardNamesHolder, InHand
  <2>8. DoneUnlinked' /\ LinkMade' /\ Approving'
    BY <1>1, <2>2, <2>3, <2>4, <2>5 DEF DoneUnlinked, LinkMade, Approving
  <2> QED BY <1>1, <2>1, <2>3, <2>4, <2>5, <2>7, <2>8, Moves
<1> QED BY <1>2, <1>3

LEMMA ReleaseInv == ASSUME Inv, NEW c \in Clients, Release(c) PROVE Inv'
<1> DEFINE a == call[c].for
           r == [att[a] EXCEPT !.released = @ \/ Live(att[a])]
<1>1. a \in Attempts \ InHand /\ call[c].do # "link"
  BY OutOfHand DEF Release, Idle
<1>2. att[a] \in Attempt /\ (att[a].released \/ Live(att[a])) \in BOOLEAN
  BY <1>1 DEF Inv, TypeOK, Attempt, Live
<1>3. r \in Attempt /\ r.state = att[a].state /\ (Live(r) => Live(att[a]))
  BY <1>2 DEF Attempt, Live
<1>4. att' = [att EXCEPT ![a] = r] /\ card' = card /\ call' = Done(c)
  BY <1>1 DEF Release, Inv, TypeOK
<1> QED BY <1>1, <1>3, <1>4, DoneKept, QuietOne DEF Inv, TypeOK

LEMMA AnswerInv ==
  ASSUME Inv, LoopFree, NEW c \in Clients, NEW a \in Attempts, Answer(c, a)
  PROVE Inv'
<1> DEFINE r == [att[a] EXCEPT !.chat = "open"]
<1>1. a \in Made \ InHand /\ call[c].do # "link"
  BY HandEmpty DEF Answer, Made, Idle
<1>2. r \in Attempt /\ r.state = att[a].state /\ r.released = att[a].released
  BY DEF Inv, TypeOK, Attempt
<1>3. att' = [att EXCEPT ![a] = r] /\ card' = card
  BY DEF Answer, Inv, TypeOK
<1>4. "check" \in Steps \ {"link"} /\ call' = [call EXCEPT ![c] = Doing("check", a, FALSE)]
  BY DEF Steps, Answer
<1> QED BY <1>1, <1>2, <1>3, <1>4, StepKept, QuietOne DEF Inv, TypeOK, Live

LEMMA CheckInv == ASSUME Inv, NEW c \in Clients, Check(c) PROVE Inv'
<1> DEFINE a == call[c].for
<1>1. a \in Made \ InHand /\ call[c].do = "check"
  BY OutOfHand DEF Check, Idle
<1>2. CASE call' = [call EXCEPT ![c].do = "resettle"]
  <2>1. "resettle" \in Steps \ {"link", "complete", "unlink"}
    BY DEF Steps
  <2> QED BY <1>1, <1>2, <2>1, NextKept, SkipInv DEF Check
<1>3. CASE call' = Done(c)
  BY <1>1, <1>3, DoneKept, SkipInv DEF Check
<1> QED BY <1>2, <1>3 DEF Check

LEMMA ResettleInv == ASSUME Inv, NEW c \in Clients, Resettle(c) PROVE Inv'
<1> DEFINE a == call[c].for
           r == [att[a] EXCEPT !.state = "ready_for_review"]
<1>1. a \in Attempts \ InHand /\ call[c].do = "resettle"
  BY OutOfHand DEF Resettle, Idle
<1>2. CASE Admits(att[a], "ready_for_review")
  <2>1. /\ att' = [att EXCEPT ![a] = r]
        /\ card' = IF MarksReview(a, "ready_for_review")
                     THEN [card EXCEPT !.column = "in_review"] ELSE card
        /\ call' = Writes(c, Idle)
    BY <1>1, <1>2 DEF Resettle, Inv, TypeOK
  <2>2. r \in Attempt /\ r.state # "none" /\ (Live(r) => Live(att[a]))
    BY <1>1, <1>2 DEF Inv, TypeOK, Attempt, Live, LiveStates, Admits
  <2>3. /\ card' \in [column : Columns, link : Attempts \cup {NoAttempt}]
        /\ card'.link = card.link
        /\ card'.column = "done" => card.column = "done"
    BY <2>1 DEF Inv, TypeOK, Columns
  <2> QED BY <1>1, <2>1, <2>2, <2>3, GoneKept, QuietOne
<1>3. CASE ~Admits(att[a], "ready_for_review")
  BY <1>1, <1>3, DoneKept, SkipInv DEF Resettle
<1> QED BY <1>2, <1>3

LEMMA ReportInv ==
  ASSUME Inv, NEW a \in Attempts, NEW done \in BOOLEAN, Report(a, done) PROVE Inv'
<1> DEFINE r == [att[a] EXCEPT !.done = done]
<1>1. a \notin InHand
  BY DEF Report, InHand, Inv, HandAlone
<1>2. r \in Attempt /\ r.state = att[a].state /\ r.released = att[a].released
  BY DEF Inv, TypeOK, Attempt
<1>3. att' = [att EXCEPT ![a] = r] /\ card' = card /\ call' = Stale(call)
  BY DEF Report, Inv, TypeOK
<1> QED BY <1>1, <1>2, <1>3, StaleKept, QuietOne DEF Inv, TypeOK, Live

LEMMA EditInv == ASSUME Inv, NEW column \in Columns \ {"deleted"}, Edit(column) PROVE Inv'
<1>1. Holders' = Holders /\ Made' = Made /\ att' \in [Attempts -> Attempt] /\ att' = att
  BY DEF Edit, Holders, Live, Made, Inv, TypeOK
<1>2. /\ card' \in [column : Columns, link : Attempts \cup {NoAttempt}]
      /\ card'.link = card.link /\ card'.column = column
  BY DEF Edit, Inv, TypeOK
<1>3. CASE column # "done"
  BY <1>1, <1>2, <1>3, StaleKept, Quiet DEF Edit
<1>4. CASE column = "done"
  <2>1. card.link = NoAttempt
    BY <1>4 DEF Edit
  <2> QED BY <1>1, <1>2, <2>1, StaleKept, Freed DEF Edit
<1> QED BY <1>3, <1>4

LEMMA DeleteInv == ASSUME Inv, Delete PROVE Inv'
<1>1. Holders' = Holders /\ Made' = Made /\ att' \in [Attempts -> Attempt] /\ att' = att
  BY DEF Delete, Holders, Live, Made, Inv, TypeOK
<1>2. card' \in [column : Columns, link : {NoAttempt}]
  BY DEF Delete, Columns
<1> QED BY <1>1, <1>2, StaleKept, Freed DEF Delete

-----------------------------------------------------------------------------
(* Steps that hand the task over, and the restart *)

LEMMA DelegateInv ==
  ASSUME Inv, LoopFree, NEW c \in Clients, NEW a \in Attempts, Delegate(c, a) PROVE Inv'
<1> DEFINE r == [Unmade EXCEPT !.state = "running"]
<1>1. /\ call[c] = Idle /\ card' = card /\ Holders = {}
      /\ att' = [att EXCEPT ![a] = r]
      /\ call' = [call EXCEPT ![c] = Doing("link", a, TRUE)]
      /\ a \notin Made
  BY DEF Delegate, Made
<1>2. r \in Attempt /\ r.state = "running" /\ ~r.released /\ ~r.turn
  BY DEF Unmade, Attempt, LiveStates, Resumable, Ends
<1>3. TypeOK'
  BY <1>1, <1>2 DEF Inv, TypeOK, Doing, Steps
<1>4. /\ att'[a] = r
      /\ \A b \in Attempts \ {a} : att'[b] = att[b]
      /\ Holders' \subseteq {a}
  BY <1>1, <1>2 DEF Inv, TypeOK, Holders, Live
<1>5. /\ call'[c].do = "link" /\ call'[c].for = a /\ call'[c].fresh
      /\ \A d \in Clients \ {c} : call'[d] = call[d] /\ call[d].do # "link"
  BY <1>1 DEF Inv, TypeOK, Doing, LoopFree
<1>6. OneLive' /\ CardNamesHolder'
  BY <1>4, <1>5 DEF OneLive, CardNamesHolder
<1>7. Made \subseteq Made' /\ a \in Made'
  BY <1>2, <1>4 DEF Made
<1>8. CallsMade'
  BY <1>5, <1>7 DEF Inv, CallsMade, Steps
<1>9. HandAlone'
  <2>1. card'.link # a
    BY <1>1, AttemptAssumption DEF Inv, LinkMade
  <2>2. \A d \in Clients \ {c} : call'[d].for # a
    BY <1>1, <1>5, AttemptAssumption DEF Inv, CallsMade, Idle
  <2> QED BY <1>2, <1>4, <1>5, <2>1, <2>2 DEF HandAlone
<1>10. Approving'
  <2>1. a \in InHand'
    BY <1>5 DEF InHand
  <2> QED BY <1>1, <1>4, <1>5, <2>1 DEF Inv, Approving
<1>11. DoneUnlinked' /\ LinkMade'
  BY <1>1, <1>7 DEF Inv, DoneUnlinked, LinkMade
<1> QED BY <1>3, <1>6, <1>8, <1>9, <1>10, <1>11 DEF Inv

LEMMA LinkInv == ASSUME Inv, NEW c \in Clients, Link(c) PROVE Inv'
<1> DEFINE a == call[c].for
<1>1. /\ a \in Attempts /\ a \in Made /\ att[a] \in Attempt /\ a # NoAttempt
      /\ att[a].state = "running" /\ ~att[a].released
  BY AttemptAssumption DEF Link, Inv, HandAlone, CallsMade, Idle, Made, TypeOK
<1>2. Holders \subseteq {a}
  BY <1>1 DEF Inv, OneLive, Holders, Live, LiveStates
<1>3. \A d \in Clients \ {c} : call[d].do # "link"
  BY <1>1, <1>2 DEF Link, Inv, HandAlone, CallsMade, Idle, Made, Holders, Live, LiveStates
<1>4. call' = Writes(c, Idle)
  BY DEF Link
<1>5. /\ call' \in [Clients -> [do : Steps \cup {"idle"}, for : Attempts \cup {NoAttempt},
                                fresh : BOOLEAN]]
      /\ \A d \in Clients : ~call'[d].fresh /\ call'[d].do # "link"
      /\ \A d \in Clients : call'[d] = Idle \/ (/\ call[d] # Idle
                                                /\ call'[d].do = call[d].do
                                                /\ call'[d].for = call[d].for)
  <2>1. call'[c] = Idle
    BY <1>4 DEF Writes, Inv, TypeOK, Stale
  <2>2. ASSUME NEW d \in Clients \ {c}
        PROVE  call'[d] = [call[d] EXCEPT !.fresh = FALSE]
    BY <1>4 DEF Writes, Inv, TypeOK, Stale
  <2>3. ASSUME NEW d \in Clients \ {c}
        PROVE  \/ call[d] = Idle /\ call'[d] = Idle
               \/ call[d] # Idle
    BY <2>2 DEF Idle
  <2>4. ASSUME NEW d \in Clients \ {c}
        PROVE  /\ call'[d] \in [do : Steps \cup {"idle"}, for : Attempts \cup {NoAttempt},
                                 fresh : BOOLEAN]
               /\ ~call'[d].fresh /\ call'[d].do = call[d].do /\ call'[d].for = call[d].for
    BY <2>2 DEF Inv, TypeOK
  <2>5. /\ Idle \in [do : Steps \cup {"idle"}, for : Attempts \cup {NoAttempt},
                     fresh : BOOLEAN]
        /\ ~Idle.fresh /\ Idle.do # "link"
    BY DEF Idle
  <2>6. DOMAIN call' = Clients /\ call' = [d \in Clients |-> call'[d]]
    BY <1>4 DEF Writes, Stale
  <2> QED BY <1>3, <2>1, <2>3, <2>4, <2>5, <2>6
<1>6. PICK r \in Attempt :
        /\ r.state # "none"
        /\ att' = [att EXCEPT ![a] = r]
        /\ \/ card' = [column |-> "open", link |-> a]
           \/ card' = card /\ ~Live(r)
  <2>1. /\ Finished(att[a], "interrupted") \in Attempt
        /\ Finished(att[a], "interrupted").state = "interrupted"
    BY <1>1 DEF Finished, Admits, Attempt, Resumable, LiveStates
  <2>2. /\ [att[a] EXCEPT !.turn = TRUE, !.watch = "on"] \in Attempt
        /\ [att[a] EXCEPT !.turn = TRUE, !.watch = "on"].state # "none"
    BY <1>1 DEF Attempt
  <2>3. CASE att' = [att EXCEPT ![a] = Finished(@, "interrupted")]
    <3>1. ~Live(Finished(att[a], "interrupted"))
      BY <2>1 DEF Live, LiveStates
    <3> QED BY <2>1, <2>3, <3>1 DEF Link
  <2>4. CASE att' = [att EXCEPT ![a].turn = TRUE, ![a].watch = "on"] /\ call[c].fresh
    <3>1. att' = [att EXCEPT ![a] = [att[a] EXCEPT !.turn = TRUE, !.watch = "on"]]
      BY <1>1, <2>4 DEF Inv, TypeOK
    <3> QED BY <2>2, <2>4, <3>1 DEF Link
  <2> QED BY <2>3, <2>4 DEF Link
<1>7. Made' = Made /\ Holders' \subseteq {a} /\ (card' = card => Holders' = {} \/ card'.link = a)
  BY <1>1, <1>2, <1>6 DEF Inv, TypeOK, Made, Holders, Live
<1>8. TypeOK'
  BY <1>1, <1>5, <1>6 DEF Inv, TypeOK, Columns
<1>9. OneLive' /\ CardNamesHolder' /\ DoneUnlinked' /\ LinkMade'
  BY <1>1, <1>6, <1>7 DEF Inv, OneLive, CardNamesHolder, DoneUnlinked, LinkMade
<1>10. CallsMade' /\ HandAlone' /\ Approving'
  BY <1>5, <1>7 DEF Inv, CallsMade, HandAlone, Approving
<1> QED BY <1>8, <1>9, <1>10 DEF Inv

LEMMA ResumeInv == ASSUME Inv, LoopFree, NEW a \in Attempts, Resume(a) PROVE Inv'
<1> DEFINE r == [att[a] EXCEPT !.state = "running", !.released = FALSE, !.done = FALSE]
<1>1. /\ att[a] \in Attempt /\ card.link = a /\ ~Live(att[a]) /\ a \in Made
      /\ r \in Attempt /\ r.state = "running"
  <2>1. att[a] \in Attempt
    BY DEF Inv, TypeOK
  <2>2. r \in Attempt /\ r.state = "running"
    BY <2>1 DEF Attempt, LiveStates
  <2>3. att[a].state \in Resumable /\ card.link = a
    BY DEF Resume
  <2> QED BY <2>1, <2>2, <2>3 DEF Live, LiveStates, Resumable, Made
<1>2. Holders = {}
  BY <1>1, AttemptAssumption DEF Inv, CardNamesHolder, LoopFree, Holders
<1>3. PICK s \in Attempt :
        /\ s.state # "none"
        /\ att' = [att EXCEPT ![a] = s]
  <2>1. /\ Finished(r, "interrupted") \in Attempt
        /\ Finished(r, "interrupted").state = "none" => r.state = "none"
    <3>1. "interrupted" \in (LiveStates \ {"running"}) \cup Resumable
      BY DEF Resumable
    <3> HIDE DEF r
    <3> QED BY <1>1, <3>1, FinishedQuiet
  <2>2. Watched(a, r) \in Attempt /\ Watched(a, r).state # "none"
    BY <1>1, WatchedQuiet
  <2>3. Launched(a, r) \in Attempt /\ Launched(a, r).state # "none"
    BY <2>2 DEF Launched, Attempt
  <2> QED BY <1>1, <2>1, <2>3 DEF Resume
<1>4. \/ card' = card
      \/ card' = [card EXCEPT !.column = "open"] /\ call' = Stale(call)
  BY DEF Resume
<1>5. card' \in [column : Columns, link : Attempts \cup {NoAttempt}] /\ card'.link = a
  BY <1>1, <1>4 DEF Inv, TypeOK, Columns
<1>6. call' = call \/ call' = Stale(call)
  BY DEF Resume
<1>7. /\ call' \in [Clients -> [do : Steps \cup {"idle"}, for : Attempts \cup {NoAttempt},
                                fresh : BOOLEAN]]
      /\ \A d \in Clients : Kept(d) /\ (call'[d] = call[d] \/ ~call'[d].fresh)
  BY <1>6, StaleKept, SameKept
<1>8. \A d \in Clients : call'[d].do # "link"
  BY <1>7 DEF LoopFree, Kept, Idle, Inv, TypeOK
<1>9. Made' = Made /\ Holders' \subseteq {a}
  BY <1>1, <1>2, <1>3 DEF Inv, TypeOK, Made, Holders
<1>10. TypeOK'
  BY <1>3, <1>5, <1>7 DEF Inv, TypeOK
<1>11. OneLive' /\ CardNamesHolder' /\ DoneUnlinked' /\ LinkMade'
  BY <1>1, <1>4, <1>5, <1>9, AttemptAssumption
     DEF Inv, TypeOK, OneLive, CardNamesHolder, DoneUnlinked, LinkMade
<1>12. CallsMade' /\ HandAlone'
  BY <1>7, <1>8, <1>9 DEF Inv, CallsMade, HandAlone, Kept, Idle, TypeOK
<1>13. Approving'
  BY <1>1, <1>5, <1>7, AttemptAssumption DEF Inv, Approving
<1> QED BY <1>10, <1>11, <1>12, <1>13 DEF Inv

LEMMA CrashInv == ASSUME Inv, Crash PROVE Inv'
<1> DEFINE r(a) == [att[a] EXCEPT !.state = IF Live(att[a]) /\ @ = "running"
                                            THEN "interrupted" ELSE @,
                                  !.turn = FALSE, !.watch = "off",
                                  !.chat = IF @ = "native" THEN "open" ELSE @]
<1>1. ASSUME NEW a \in Attempts
      PROVE  /\ r(a) \in Attempt
             /\ Live(r(a)) => Live(att[a]) /\ att[a].state # "running"
             /\ r(a).state = "none" => att[a].state = "none"
  <2>1. att[a] \in Attempt
    BY DEF Inv, TypeOK
  <2>2. r(a) \in Attempt /\ r(a).released = att[a].released
    BY <2>1 DEF Attempt, Resumable
  <2>3. r(a).state = IF Live(att[a]) /\ att[a].state = "running" THEN "interrupted" ELSE att[a].state
    BY <2>1 DEF Attempt
  <2> QED BY <2>2, <2>3 DEF Live, LiveStates
<1>2. att' = [a \in Attempts |-> r(a)] /\ card' = card /\ call' = [c \in Clients |-> Idle]
  BY DEF Crash
<1>3. TypeOK'
  BY <1>1, <1>2 DEF Inv, TypeOK, Idle
<1>4. \A a \in Holders' : a \in Holders /\ att[a].state # "running"
  BY <1>1, <1>2 DEF Holders
<1>5. Made \subseteq Made'
  BY <1>1, <1>2 DEF Made
<1>6. OneLive' /\ CardNamesHolder'
  <2>1. OneLive'
    BY <1>4 DEF Inv, OneLive
  <2>2. ASSUME NEW a \in Holders' PROVE card.link \in {a, NoAttempt}
    BY <1>4, <2>2 DEF Inv, CardNamesHolder, HandAlone
  <2> QED BY <1>2, <2>1, <2>2 DEF CardNamesHolder
<1>7. DoneUnlinked' /\ LinkMade'
  BY <1>2, <1>5 DEF Inv, DoneUnlinked, LinkMade
<1>8. CallsMade' /\ HandAlone' /\ Approving'
  BY <1>2 DEF CallsMade, HandAlone, Approving, Idle
<1> QED BY <1>3, <1>6, <1>7, <1>8 DEF Inv

-----------------------------------------------------------------------------
\* Every step keeps the invariant.
LEMMA NextInv == Inv /\ [Next]_vars => Inv'
<1> SUFFICES ASSUME Inv, [Next]_vars PROVE Inv'
  OBVIOUS
<1>1. CASE LoopFree /\ LoopStep
  <2>1. ASSUME NEW a \in Attempts, Send(a) \/ Settle(a) \/ ChatEnds(a) \/ Resume(a) PROVE Inv'
    BY <1>1, <2>1, SendInv, SettleInv, ChatEndsInv, ResumeInv
  <2>2. ASSUME NEW a \in Attempts, NEW end \in EndKinds, TurnEnds(a, end) PROVE Inv'
    BY <1>1, <2>2, TurnEndsInv
  <2>3. ASSUME NEW a \in Attempts, NEW c \in Clients,
               Delegate(c, a) \/ Stop(c, a) \/ Detach(c, a) \/ Answer(c, a)
        PROVE  Inv'
    BY <1>1, <2>3, DelegateInv, StopInv, DetachInv, AnswerInv
  <2>4. ASSUME NEW c \in Clients, Stopped(c) \/ Detached(c) PROVE Inv'
    BY <2>4, StoppedInv, DetachedInv
  <2> QED BY <1>1, <2>1, <2>2, <2>3, <2>4 DEF LoopStep
<1>2. CASE \E c \in Clients : Link(c)
  BY <1>2, LinkInv
<1>3. CASE ThreadStep
  <2>1. ASSUME NEW c \in Clients, NEW a \in Attempts, Approve(c, a) PROVE Inv'
    BY <2>1, ApproveInv
  <2>2. ASSUME NEW c \in Clients,
               Unlink(c) \/ Complete(c) \/ Relink(c) \/ Release(c) \/ Check(c) \/ Resettle(c)
        PROVE  Inv'
    BY <2>2, UnlinkInv, CompleteInv, RelinkInv, ReleaseInv, CheckInv, ResettleInv
  <2>3. ASSUME NEW a \in Attempts, NEW done \in BOOLEAN, Report(a, done) PROVE Inv'
    BY <2>3, ReportInv
  <2>4. ASSUME NEW column \in Columns \ {"deleted"}, Edit(column) PROVE Inv'
    BY <2>4, EditInv
  <2> QED BY <1>3, <2>1, <2>2, <2>3, <2>4, DeleteInv DEF ThreadStep
<1>4. CASE Crash
  BY <1>4, CrashInv
<1>5. CASE UNCHANGED vars
  BY <1>5, SkipInv, SameKept DEF vars
<1> QED BY <1>1, <1>2, <1>3, <1>4, <1>5 DEF Next

THEOREM SpecInv == Spec => []Inv
  BY InitInv, NextInv, PTL DEF Spec

\* Every attempt, card and request has its type.
THEOREM TypeCorrect == Spec => []TypeOK
<1>1. Inv => TypeOK
  BY DEF Inv
<1> QED BY <1>1, SpecInv, PTL

\* However delegations, resumes, follow-ups, approvals and restarts interleave,
\* one attempt holds the task.
THEOREM OneAttemptLive == Spec => []OneLive
<1>1. Inv => OneLive
  BY DEF Inv
<1> QED BY <1>1, SpecInv, PTL

\* The card's link never leads away from the attempt that is at work.
THEOREM CardLeadsToHolder == Spec => []CardNamesHolder
<1>1. Inv => CardNamesHolder
  BY DEF Inv
<1> QED BY <1>1, SpecInv, PTL

\* Done is never the column of a linked task.
THEOREM DoneIsUnlinked == Spec => []DoneUnlinked
<1>1. Inv => DoneUnlinked
  BY DEF Inv
<1> QED BY <1>1, SpecInv, PTL

-----------------------------------------------------------------------------
(* The contract *)

LEMMA PhaseOf ==
  ASSUME NEW r \in Attempt
  PROVE  /\ Phase(r) \in {"working", "waiting", "review"} <=> Live(r)
         /\ ~Live(r) => Phase(r) = IF r.state = "none" THEN "new" ELSE "over"
         /\ Live(r) /\ r.state = "running" => Phase(r) = "working"
<1>1. CASE r.state = "none"
  BY <1>1 DEF Phase, Live, LiveStates
<1>2. CASE r.state # "none" /\ ~Live(r)
  BY <1>2 DEF Phase
<1>3. CASE Live(r)
  BY <1>3 DEF Phase, Live, LiveStates
<1> QED BY <1>1, <1>2, <1>3

\* At most one holder makes Holder that one.
LEMMA HolderIs ==
  ASSUME OneLive
  PROVE  /\ Holders = {} => Holder = NoAttempt
         /\ \A a \in Holders : Holder = a
  BY DEF OneLive, Holder

LEMMA HolderIsNext ==
  ASSUME OneLive'
  PROVE  /\ Holders' = {} => Holder' = NoAttempt
         /\ \A a \in Holders' : Holder' = a
  BY DEF OneLive, Holder

\* A step changes the phase of attempt a only, and gives it the task only when
\* nobody has it.
Changes(a) ==
  /\ \A b \in Attempts \ {a} : Phase(att'[b]) = Phase(att[b])
  /\ Live(att'[a]) => Live(att[a]) \/ (Holders = {} /\ att'[a].state = "running")
  /\ att'[a].state = "none" => att[a].state = "none"
  /\ att[a].state = "none" => att'[a].state = "none" \/ Live(att'[a])

LEMMA ChangesSimulate ==
  ASSUME Inv, Inv', NEW a \in Attempts, Changes(a)
  PROVE  [Contract!Next]_(Contract!vars)
<1> DEFINE phase == [b \in Attempts |-> Phase(att[b])]
           nextPhase == [b \in Attempts |-> Phase(att'[b])]
           Held == {"working", "waiting", "review"}
<1>1. \A b \in Attempts : att[b] \in Attempt /\ att'[b] \in Attempt
  BY DEF Inv, TypeOK
<1>2. \A b \in Attempts : (Phase(att[b]) \in Held <=> b \in Holders)
                          /\ (Phase(att'[b]) \in Held <=> b \in Holders')
  BY <1>1, PhaseOf DEF Holders
<1>3. Holders' \ {a} = Holders \ {a}
  BY <1>2 DEF Changes, Holders
<1>4. nextPhase = [phase EXCEPT ![a] = Phase(att'[a])]
  BY DEF Changes
<1>5. /\ Holders = {} => Holder = NoAttempt
      /\ \A b \in Holders : Holder = b
      /\ Holders' = {} => Holder' = NoAttempt
      /\ \A b \in Holders' : Holder' = b
  BY HolderIs, HolderIsNext DEF Inv
<1>6. CASE a \in Holders /\ a \in Holders'
  <2>1. Contract!Turn(a, Phase(att'[a]))
    BY <1>2, <1>4, <1>5, <1>6 DEF Contract!Turn, Contract!Held
  <2> QED BY <1>2, <1>6, <2>1 DEF Contract!Next, Contract!Held
<1>7. CASE a \in Holders /\ a \notin Holders'
  <2>1. Holders' = {}
    BY <1>3, <1>7 DEF Inv, OneLive
  <2>2. Phase(att'[a]) = "over"
    BY <1>1, <1>7, PhaseOf DEF Changes, Holders, Live, LiveStates
  <2>3. Contract!Leave(a)
    BY <1>4, <1>5, <1>7, <2>1, <2>2 DEF Contract!Leave
  <2> QED BY <2>3 DEF Contract!Next
<1>8. CASE a \notin Holders /\ a \in Holders'
  <2>1. Holders = {} /\ Phase(att'[a]) = "working" /\ Phase(att[a]) \in {"new", "over"}
    BY <1>1, <1>8, PhaseOf DEF Changes, Holders
  <2>2. Contract!Take(a)
    BY <1>4, <1>5, <1>8, <2>1 DEF Contract!Take
  <2> QED BY <2>2 DEF Contract!Next
<1>9. CASE a \notin Holders /\ a \notin Holders'
  <2>1. Holders' = Holders
    BY <1>3, <1>9
  <2>2. Holder' = Holder
    BY <2>1 DEF Holder
  <2>3. Phase(att'[a]) = Phase(att[a])
    BY <1>1, <1>9, PhaseOf DEF Changes, Holders
  <2>4. nextPhase = phase
    BY <2>3 DEF Changes
  <2> QED BY <2>2, <2>4 DEF Contract!vars
<1> QED BY <1>6, <1>7, <1>8, <1>9

\* A step about an attempt that exists is one of those.
LEMMA OneChanges ==
  ASSUME Inv, NEW a \in Attempts, NEW r,
         att' = [att EXCEPT ![a] = r],
         Live(r) => Live(att[a]) \/ (Holders = {} /\ r.state = "running"),
         r.state # "none", att[a].state # "none"
  PROVE  Changes(a)
BY DEF Changes, Inv, TypeOK

LEMMA LoopChanges ==
  ASSUME Inv, LoopFree, LoopStep
  PROVE  UNCHANGED att \/ \E a \in Attempts : Changes(a)
<1>1. ASSUME NEW a \in Attempts, Send(a) PROVE Changes(a)
  BY <1>1 DEF Send, Watched, Followed, Changes, Inv, TypeOK, Attempt, Live, LiveStates
<1>2. ASSUME NEW a \in Attempts, Settle(a) PROVE Changes(a)
  <2>1. Verdict(att[a]) \in (LiveStates \ {"running"}) \cup Resumable
    BY DEF Verdict, LiveStates, Resumable
  <2> DEFINE off == [att[a] EXCEPT !.watch = "off"]
  <2>2. /\ off \in Attempt /\ att[a].state # "none"
        /\ off.state = att[a].state /\ off.released = att[a].released
    BY <1>2 DEF Settle, Inv, TypeOK, Attempt
  <2> HIDE DEF off
  <2>3. /\ Finished(off, Verdict(att[a])).state # "none"
        /\ Live(Finished(off, Verdict(att[a]))) => Live(off)
    BY <2>1, <2>2, FinishedQuiet
  <2>4. \/ att' = [att EXCEPT ![a] = off]
        \/ att' = [att EXCEPT ![a] = Finished(off, Verdict(att[a]))]
    BY <1>2 DEF Settle, off
  <2> QED BY <2>2, <2>3, <2>4, OneChanges DEF Live
<1>3. ASSUME NEW a \in Attempts, ChatEnds(a) PROVE Changes(a)
  BY <1>3 DEF ChatEnds, Finished, Admits, Changes, Inv, TypeOK, Attempt,
              Live, LiveStates, Resumable
<1>4. ASSUME NEW a \in Attempts, Resume(a) PROVE Changes(a)
  <2>1. Holders = {}
    BY <1>4, AttemptAssumption DEF Resume, Inv, CardNamesHolder, LoopFree, Holders,
       Live, Resumable, LiveStates
  <2> DEFINE r == [att[a] EXCEPT !.state = "running", !.released = FALSE, !.done = FALSE]
  <2>2. r \in Attempt /\ r.state = "running" /\ att[a].state # "none"
    <3>1. att[a] \in Attempt
      BY DEF Inv, TypeOK
    <3>2. r \in Attempt /\ r.state = "running"
      BY <3>1 DEF Attempt, LiveStates
    <3> QED BY <1>4, <3>2 DEF Resume, Resumable
  <2>3. \/ att' = [att EXCEPT ![a] = Launched(a, r)]
        \/ att' = [att EXCEPT ![a] = Finished(r, "interrupted")]
    BY <1>4 DEF Resume
  <2> HIDE DEF r
  <2>4. Launched(a, r).state = "running"
    BY <2>2 DEF Launched, Watched, Attempt
  <2>5. Finished(r, "interrupted").state = "interrupted"
    BY <2>2 DEF Finished, Admits, Attempt, LiveStates
  <2>6. CASE att' = [att EXCEPT ![a] = Launched(a, r)]
    BY <2>1, <2>2, <2>4, <2>6, OneChanges
  <2>7. CASE att' = [att EXCEPT ![a] = Finished(r, "interrupted")]
    BY <2>2, <2>5, <2>7, OneChanges DEF Live, LiveStates
  <2> QED BY <2>3, <2>6, <2>7
<1>5. ASSUME NEW a \in Attempts, NEW end \in EndKinds, TurnEnds(a, end) PROVE Changes(a)
  BY <1>5 DEF TurnEnds, Changes, Inv, TypeOK, Attempt, Live
<1>6. ASSUME NEW a \in Attempts, NEW c \in Clients, Delegate(c, a) PROVE Changes(a)
  BY <1>6 DEF Delegate, Unmade, Changes, Inv, TypeOK, Attempt, Live, LiveStates
<1>7. ASSUME NEW a \in Attempts, NEW c \in Clients, Stop(c, a)
      PROVE  Changes(a) \/ UNCHANGED att
  <2>1. att[a] \in Attempt /\ att[a].state # "none" /\ "stopped" \in Resumable
    BY <1>7 DEF Stop, Inv, TypeOK, Live, LiveStates, Resumable
  <2>2. /\ Finished(att[a], "stopped").state # "none"
        /\ Live(Finished(att[a], "stopped")) => Live(att[a])
    BY <2>1, FinishedQuiet
  <2>3. UNCHANGED att \/ att' = [att EXCEPT ![a] = Finished(att[a], "stopped")]
    BY <1>7 DEF Stop
  <2> QED BY <2>1, <2>2, <2>3, OneChanges
<1>8. ASSUME NEW a \in Attempts, NEW c \in Clients, Detach(c, a)
      PROVE  Changes(a) \/ UNCHANGED att
  <2> DEFINE r == IF att[a].state = "needs_you" THEN Finished(att[a], "stopped") ELSE att[a]
             s == [r EXCEPT !.released = @ \/ Live(r)]
  <2>1. att[a] \in Attempt /\ att[a].state # "none" /\ "stopped" \in Resumable
    BY <1>8 DEF Detach, Inv, TypeOK, Resumable
  <2>2. r \in Attempt /\ r.state # "none" /\ (Live(r) => Live(att[a]))
    BY <2>1, FinishedQuiet
  <2>3. s.state = r.state /\ (Live(s) => Live(r))
    BY <2>2 DEF Attempt, Live
  <2>4. UNCHANGED att \/ att' = [att EXCEPT ![a] = s]
    BY <1>8 DEF Detach
  <2> HIDE DEF s
  <2> QED BY <2>1, <2>2, <2>3, <2>4, OneChanges
<1>9. ASSUME NEW a \in Attempts, NEW c \in Clients, Answer(c, a) PROVE Changes(a)
  BY <1>9 DEF Answer, Changes, Inv, TypeOK, Attempt, Live
<1>10. ASSUME NEW c \in Clients, Stopped(c) \/ Detached(c) PROVE Changes(call[c].for)
  <2>1. att[call[c].for].state # "none" /\ call[c].for \in Attempts
    BY <1>10 DEF Stopped, Detached, Inv, CallsMade, Made, Idle
  <2> QED BY <1>10, <2>1 DEF Stopped, Detached, Finished, Admits, Changes, Inv, TypeOK,
                             Attempt, Live, LiveStates
<1>11. \A c \in Clients : Stopped(c) \/ Detached(c) => call[c].for \in Attempts
  BY DEF Stopped, Detached, Inv, CallsMade, Made, Idle
<1> QED BY <1>1, <1>2, <1>3, <1>4, <1>5, <1>6, <1>7, <1>8, <1>9, <1>10, <1>11 DEF LoopStep

LEMMA LinkChanges ==
  ASSUME Inv, NEW c \in Clients, Link(c)
  PROVE  call[c].for \in Attempts /\ Changes(call[c].for)
<1>1. /\ call[c].for \in Attempts /\ att[call[c].for].state = "running"
      /\ ~att[call[c].for].released
  BY DEF Link, Inv, HandAlone, CallsMade, Made, Idle
<1> QED BY <1>1 DEF Link, Finished, Admits, Changes, Inv, TypeOK, Attempt, Live, LiveStates

LEMMA ThreadChanges ==
  ASSUME Inv, ThreadStep
  PROVE  UNCHANGED att \/ \E a \in Attempts : Changes(a)
<1>1. ASSUME NEW c \in Clients, Release(c) PROVE call[c].for \in Attempts /\ Changes(call[c].for)
  <2>1. call[c].for \in Attempts
    BY <1>1 DEF Release, Inv, CallsMade, Made, Idle
  <2> QED BY <1>1, <2>1 DEF Release, Changes, Inv, TypeOK, Attempt, Live
<1>2. ASSUME NEW c \in Clients, Resettle(c)
      PROVE  call[c].for \in Attempts /\ (UNCHANGED att \/ Changes(call[c].for))
  <2>1. call[c].for \in Attempts
    BY <1>2 DEF Resettle, Inv, CallsMade, Made, Idle
  <2> QED BY <1>2, <2>1 DEF Resettle, Admits, Changes, Inv, TypeOK, Attempt, Live, LiveStates
<1>3. ASSUME NEW a \in Attempts, NEW done \in BOOLEAN, Report(a, done) PROVE Changes(a)
  BY <1>3 DEF Report, Changes, Inv, TypeOK, Attempt, Live
<1> QED BY <1>1, <1>2, <1>3
        DEF ThreadStep, Approve, Unlink, Complete, Relink, Check, Edit, Delete

\* A restart takes the task from nobody but an attempt that was running.
LEMMA CrashChanges ==
  ASSUME Inv, Inv', Crash
  PROVE  [Contract!Next]_(Contract!vars)
<1>1. \A b \in Attempts : att[b] \in Attempt /\ att'[b] \in Attempt
  BY DEF Inv, TypeOK
<1>2. ASSUME NEW b \in Attempts
      PROVE  /\ Live(att'[b]) => Live(att[b])
             /\ att'[b].state = "none" => att[b].state = "none"
             /\ att[b].state = "none" => att'[b].state = "none"
  <2>1. /\ att'[b].released = att[b].released
        /\ att'[b].state = IF Live(att[b]) /\ att[b].state = "running"
                             THEN "interrupted" ELSE att[b].state
    <3>1. att'[b] = [att[b] EXCEPT !.state = IF Live(att[b]) /\ @ = "running"
                                               THEN "interrupted" ELSE @,
                                   !.turn = FALSE, !.watch = "off",
                                   !.chat = IF @ = "native" THEN "open" ELSE @]
      BY DEF Crash
    <3> HIDE DEF Live
    <3> QED BY <1>1, <3>1 DEF Attempt
  <2> QED BY <2>1 DEF Live, LiveStates
<1>3. ASSUME NEW b \in Attempts, ~Live(att[b]) PROVE Phase(att'[b]) = Phase(att[b])
  <2>1. ~Live(att'[b]) /\ (att'[b].state = "none" <=> att[b].state = "none")
    BY <1>2, <1>3
  <2> QED BY <1>1, <1>3, <2>1, PhaseOf
<1>4. CASE Holders = {}
  <2>1. Holders' = {} /\ \A b \in Attempts : Phase(att'[b]) = Phase(att[b])
    BY <1>2, <1>3, <1>4 DEF Holders
  <2>2. Holder' = Holder
    BY <1>4, <2>1 DEF Holder
  <2> QED BY <2>1, <2>2 DEF Contract!vars
<1>5. CASE Holders # {}
  <2>1. PICK a \in Holders : TRUE
    BY <1>5
  <2>2. a \in Attempts /\ Changes(a)
    BY <1>2, <1>3, <2>1 DEF Changes, Inv, OneLive, Holders
  <2> QED BY <2>2, ChangesSimulate
<1> QED BY <1>4, <1>5

LEMMA StillSimulates ==
  ASSUME UNCHANGED att
  PROVE  [Contract!Next]_(Contract!vars)
BY DEF Contract!vars, Holder, Holders

\* Whatever the loop, the threads and restarts do, the attempts of a task keep
\* its contract: an attempt takes the task only from nobody.
THEOREM KeepsContract == Spec => ImplementsContract
<1>1. Init => Contract!Init
  <2> SUFFICES ASSUME Init PROVE Contract!Init
    OBVIOUS
  <2>1. \A a \in Attempts : att[a] = Unmade
    BY DEF Init
  <2>2. ~Live(Unmade) /\ Phase(Unmade) = "new"
    BY DEF Phase, Live, Unmade, LiveStates
  <2> QED BY <2>1, <2>2 DEF Contract!Init, Holder, Holders
<1>2. Inv /\ Inv' /\ [Next]_vars => [Contract!Next]_(Contract!vars)
  <2> SUFFICES ASSUME Inv, Inv', [Next]_vars PROVE [Contract!Next]_(Contract!vars)
    OBVIOUS
  <2>1. CASE LoopFree /\ LoopStep
    BY <2>1, LoopChanges, ChangesSimulate, StillSimulates
  <2>2. CASE \E c \in Clients : Link(c)
    BY <2>2, LinkChanges, ChangesSimulate
  <2>3. CASE ThreadStep
    BY <2>3, ThreadChanges, ChangesSimulate, StillSimulates
  <2>4. CASE Crash
    BY <2>4, CrashChanges
  <2>5. CASE UNCHANGED vars
    BY <2>5, StillSimulates DEF vars
  <2> QED BY <2>1, <2>2, <2>3, <2>4, <2>5 DEF Next
<1> QED BY <1>1, <1>2, SpecInv, PTL DEF Spec, ImplementsContract, Contract!Spec
=============================================================================
