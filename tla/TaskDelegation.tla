--------------------------- MODULE TaskDelegation ---------------------------
(***************************************************************************)
(* One task of the board, the attempts made at it, each in a chat of its   *)
(* own, and the requests that are under way for it.                        *)
(*                                                                         *)
(* Requests that start or stop turns are handlers on the event loop and    *)
(* run without interruption up to their await; approvals, edits, deletions *)
(* and the re-settle after a question run in worker threads, beside the    *)
(* loop.  Both write the task's file under its revision: a request carries *)
(* the revision it read, `fresh' says whether the file still has it, and   *)
(* every write of the file makes the other requests stale.                 *)
(***************************************************************************)
CONSTANTS Attempts,    \* attempt ids, one chat each
          NoAttempt,
          Clients,     \* requests that can be under way at once
          EndKinds     \* the ways turns end

\* A turn ends by Stop, in an error, with an answer, with an answer behind which
\* a native question is still open, waiting for the user, or without any result.
Ends == {"stopped", "error", "answered", "asking", "paused", "lost"}

ASSUME AttemptAssumption == NoAttempt \notin Attempts /\ EndKinds \subseteq Ends

VARIABLES att,     \* the attempt's record, its chat and the watcher of its turn
          card,    \* the task's column and the attempt it is linked to
          call     \* the requests between two of their steps

vars == <<att, card, call>>

LiveStates == {"running", "needs_you", "ready_for_review"}
Resumable == {"failed", "interrupted", "stopped"}

Attempt == [state    : LiveStates \cup Resumable \cup {"none"},
            released : BOOLEAN,
            done     : BOOLEAN,      \* the agent's last report said done
            turn     : BOOLEAN,      \* a turn runs in the chat
            watch    : Ends \cup {"off", "on"},
            chat     : {"open", "native", "gone"}]

\* To do and In progress are one column here: nothing tells them apart.
Columns == {"open", "in_review", "done", "deleted"}

Steps == {"link", "stop", "detach", "leave",
          "unlink", "complete", "relink", "release", "check", "resettle"}
Idle == [do |-> "idle", for |-> NoAttempt, fresh |-> FALSE]
Doing(step, a, fresh) == [do |-> step, for |-> a, fresh |-> fresh]

Unmade == [state |-> "none", released |-> FALSE, done |-> FALSE,
           turn |-> FALSE, watch |-> "off", chat |-> "open"]

Init ==
  /\ att = [a \in Attempts |-> Unmade]
  /\ card = [column |-> "open", link |-> NoAttempt]
  /\ call = [c \in Clients |-> Idle]

Live(r) == r.state \in LiveStates /\ ~r.released
Holders == {a \in Attempts : Live(att[a])}

\* TaskAttemptStore.finish refuses a settled attempt a live state, and a
\* failure to an attempt that is not running.
Admits(r, state) ==
  /\ state \in LiveStates => r.state \in LiveStates
  /\ state = "failed" => r.state \notin LiveStates \ {"running"}
Finished(r, state) == IF Admits(r, state) THEN [r EXCEPT !.state = state] ELSE r

\* The calls after the task's file was written by client c's, or by nobody's,
\* whose own step becomes next.
Stale(calls) == [c \in Clients |-> [calls[c] EXCEPT !.fresh = FALSE]]
Writes(c, next) == [Stale(call) EXCEPT ![c] = next]
Done(c) == [call EXCEPT ![c] = Idle]

-----------------------------------------------------------------------------
(* Turns of a delegated chat *)

Followed(a, r) == Live(r) /\ card.link = a

\* Mutant of Watched: the turn gets no watcher.
WatchedNot(a, r) == IF Followed(a, r) THEN [r EXCEPT !.state = "running"] ELSE r

\* _watch_turn: a turn accepted in the chat of the attempt that holds the task
\* is watched, makes it running, and takes its result out of review.
Watched(a, r) == IF Followed(a, r) THEN [r EXCEPT !.state = "running", !.watch = "on"]
                 ELSE r
Reviewed(a, r) == Followed(a, r) /\ card.column = "in_review"

\* The user writes in the chat.
Send(a) ==
  /\ att[a].state # "none" /\ att[a].chat = "open" /\ ~att[a].turn
  /\ att' = [att EXCEPT ![a] = [Watched(a, att[a]) EXCEPT !.turn = TRUE]]
  /\ IF Reviewed(a, att[a])
       THEN card' = [card EXCEPT !.column = "open"] /\ call' = Stale(call)
       ELSE UNCHANGED <<card, call>>

\* The turn ends, and its watcher, if it has one, will look at how.
TurnEnds(a, end) ==
  /\ att[a].turn
  /\ att' = [att EXCEPT ![a].turn = FALSE,
                        ![a].chat = IF end = "asking" /\ @ = "open" THEN "native" ELSE @,
                        ![a].watch = IF @ = "on" THEN end ELSE @]
  /\ UNCHANGED <<card, call>>

\* What the watcher makes of the end of its turn.
Verdict(r) ==
  CASE r.watch = "stopped"  -> "stopped"
    [] r.watch = "error"    -> "failed"
    [] r.watch = "lost"     -> "interrupted"
    [] OTHER                -> IF r.watch = "paused" \/ r.chat = "native" \/ ~r.done
                                 THEN "needs_you" ELSE "ready_for_review"

\* _mark_review_ready
MarksReview(a, state) ==
  /\ state = "ready_for_review"
  /\ card.link = a
  /\ card.column # "in_review"

\* The watcher settles the attempt, which must still hold the task unless the
\* turn gave no result, and writes the task's log.
Settle(a) ==
  LET r == att[a]
      to == Verdict(r)
      off == [r EXCEPT !.watch = "off"] IN
  /\ r.state # "none" /\ r.watch \in Ends
  /\ IF (Live(r) \/ to = "interrupted") /\ Admits(r, to)
       THEN /\ att' = [att EXCEPT ![a] = Finished(off, to)]
            /\ card' = IF MarksReview(a, to) THEN [card EXCEPT !.column = "in_review"]
                       ELSE card
            /\ call' = Stale(call)
       ELSE att' = [att EXCEPT ![a] = off] /\ UNCHANGED <<card, call>>

\* The chat is archived or deleted (_on_chat_ended).
ChatEnds(a) ==
  /\ att[a].state # "none" /\ att[a].chat # "gone"
  /\ LET r == [att[a] EXCEPT !.chat = "gone"] IN
       att' = [att EXCEPT ![a] = IF Live(r) /\ r.state # "ready_for_review"
                                   THEN Finished(r, "interrupted") ELSE r]
  /\ call' = IF Live(att[a]) THEN Stale(call) ELSE call
  /\ UNCHANGED card

-----------------------------------------------------------------------------
(* Handing the task over *)

\* Mutant of Delegate: the card is asked instead of the attempts.
DelegateUnlinked(c, a) ==
  /\ call[c] = Idle
  /\ card.column \notin {"done", "deleted"}
  /\ att[a].state = "none"
  /\ card.link = NoAttempt
  /\ att' = [att EXCEPT ![a] = [Unmade EXCEPT !.state = "running"]]
  /\ call' = [call EXCEPT ![c] = Doing("link", a, TRUE)]
  /\ UNCHANGED card

\* Delegate, and retry, which is the same: the attempt is started at the
\* revision that was read, if nobody holds the task.
Delegate(c, a) ==
  /\ call[c] = Idle
  /\ card.column \notin {"done", "deleted"}
  /\ att[a].state = "none"
  /\ Holders = {}
  /\ att' = [att EXCEPT ![a] = [Unmade EXCEPT !.state = "running"]]
  /\ call' = [call EXCEPT ![c] = Doing("link", a, TRUE)]
  /\ UNCHANGED card

\* ... linked to the card in the same handler, and its turn is launched.
Launched(a, r) == [Watched(a, r) EXCEPT !.turn = TRUE]

Link(c) ==
  LET a == call[c].for IN
  /\ call[c].do = "link"
  /\ IF call[c].fresh
       THEN /\ card' = [column |-> "open", link |-> a]
            /\ \/ att' = [att EXCEPT ![a].turn = TRUE, ![a].watch = "on"]
               \/ att' = [att EXCEPT ![a] = Finished(@, "interrupted")]
       ELSE /\ att' = [att EXCEPT ![a] = Finished(@, "interrupted")]
            /\ UNCHANGED card
  /\ call' = Writes(c, Idle)

\* Resume: a settled attempt goes on in its chat.  A turn that is still running
\* there is taken for the resumed one (start_stream returns it), and a chat
\* with a native question, or a server about to restart, refuses it.
Resume(a) ==
  LET r == [att[a] EXCEPT !.state = "running", !.released = FALSE, !.done = FALSE] IN
  /\ att[a].state \in Resumable
  /\ card.link = a
  /\ att[a].chat # "gone"
  /\ \/ /\ r.turn \/ r.chat = "open"
        /\ att' = [att EXCEPT ![a] = Launched(a, r)]
        /\ IF card.column = "in_review" /\ r.watch # "on"
             THEN card' = [card EXCEPT !.column = "open"] /\ call' = Stale(call)
             ELSE UNCHANGED <<card, call>>
     \/ /\ ~r.turn
        /\ att' = [att EXCEPT ![a] = Finished(r, "interrupted")]
        /\ call' = Stale(call)
        /\ UNCHANGED card

-----------------------------------------------------------------------------
(* Stop and Detach: they wait for the turn they stop *)

Stop(c, a) ==
  /\ call[c] = Idle
  /\ card.column # "deleted"
  /\ Live(att[a])
  /\ IF att[a].state = "running"
       THEN call' = [call EXCEPT ![c] = Doing("stop", a, FALSE)] /\ UNCHANGED att
       ELSE att' = [att EXCEPT ![a] = Finished(@, "stopped")] /\ UNCHANGED call
  /\ UNCHANGED card

Stopped(c) ==
  /\ call[c].do = "stop"
  /\ att' = [att EXCEPT ![call[c].for] = Finished(@, "stopped")]
  /\ call' = Done(c)
  /\ UNCHANGED card

\* The card without its attempt, out of review.
Unlinked == [link |-> NoAttempt,
             column |-> IF card.column = "in_review" THEN "open" ELSE card.column]

\* Detach of an attempt that is not running is one step.
Detach(c, a) ==
  /\ call[c] = Idle
  /\ card.column # "deleted"
  /\ att[a].state # "none"
  /\ IF att[a].state = "running"
       THEN /\ call' = [call EXCEPT ![c] =
                          IF card.link = a THEN Doing("detach", a, TRUE)
                          ELSE Doing("leave", a, FALSE)]
            /\ UNCHANGED <<att, card>>
       ELSE LET r == IF att[a].state = "needs_you" THEN Finished(att[a], "stopped")
                     ELSE att[a] IN
            /\ att' = [att EXCEPT ![a] = [r EXCEPT !.released = @ \/ Live(r)]]
            /\ IF card.link = a THEN card' = Unlinked /\ call' = Stale(call)
               ELSE UNCHANGED <<card, call>>

\* The turn has been stopped: the attempt is settled whatever became of it in
\* between, and the card is unlinked at the revision read before the wait.
Detached(c) ==
  /\ call[c].do \in {"detach", "leave"}
  /\ att' = [att EXCEPT ![call[c].for] = Finished(@, "stopped")]
  /\ IF call[c].fresh
       THEN card' = Unlinked /\ call' = Writes(c, Idle)
       ELSE UNCHANGED card /\ call' = Done(c)

-----------------------------------------------------------------------------
(* Requests in worker threads *)

\* Approval: the attempt is judged, then three files are written in turn.
Approve(c, a) ==
  /\ call[c] = Idle
  /\ card.link = a
  /\ att[a].state = "ready_for_review" /\ Live(att[a])
  /\ call' = [call EXCEPT ![c] = Doing("unlink", a, TRUE)]
  /\ UNCHANGED <<att, card>>

Unlink(c) ==
  /\ call[c].do = "unlink"
  /\ IF call[c].fresh
       THEN /\ card' = [card EXCEPT !.link = NoAttempt]
            /\ call' = Writes(c, Doing("complete", call[c].for, TRUE))
       ELSE UNCHANGED card /\ call' = Done(c)
  /\ UNCHANGED att

\* Mutant of Complete: the revision is not checked.
CompleteStale(c) ==
  /\ call[c].do = "complete"
  /\ \/ /\ card' = [card EXCEPT !.column = "done"]
        /\ call' = Writes(c, Doing("release", call[c].for, FALSE))
     \/ /\ call' = [call EXCEPT ![c].do = "relink"]
        /\ UNCHANGED card
  /\ UNCHANGED att

\* The completion, which may be refused for reasons of its own.
Complete(c) ==
  /\ call[c].do = "complete"
  /\ \/ /\ call[c].fresh
        /\ card' = [card EXCEPT !.column = "done"]
        /\ call' = Writes(c, Doing("release", call[c].for, FALSE))
     \/ /\ call' = [call EXCEPT ![c].do = "relink"]
        /\ UNCHANGED card
  /\ UNCHANGED att

\* Mutant of Relink: the revision is not checked.
RelinkStale(c) ==
  /\ call[c].do = "relink"
  /\ card' = [card EXCEPT !.link = call[c].for]
  /\ call' = Writes(c, Idle)
  /\ UNCHANGED att

Relink(c) ==
  /\ call[c].do = "relink"
  /\ IF call[c].fresh
       THEN card' = [card EXCEPT !.link = call[c].for] /\ call' = Writes(c, Idle)
       ELSE UNCHANGED card /\ call' = Done(c)
  /\ UNCHANGED att

Release(c) ==
  /\ call[c].do = "release"
  /\ att' = [att EXCEPT ![call[c].for].released = @ \/ Live(att[call[c].for])]
  /\ call' = Done(c)
  /\ UNCHANGED card

\* The answer to a native question clears it; a thread then looks whether the
\* attempt was held back by nothing else, and puts it in review.
Answer(c, a) ==
  /\ call[c] = Idle
  /\ att[a].state # "none" /\ att[a].chat = "native"
  /\ att' = [att EXCEPT ![a].chat = "open"]
  /\ call' = [call EXCEPT ![c] = Doing("check", a, FALSE)]
  /\ UNCHANGED card

HeldBack(r) == Live(r) /\ r.state = "needs_you" /\ r.done /\ r.chat # "native"

Check(c) ==
  /\ call[c].do = "check"
  /\ call' = IF HeldBack(att[call[c].for]) THEN [call EXCEPT ![c].do = "resettle"]
             ELSE Done(c)
  /\ UNCHANGED <<att, card>>

Resettle(c) ==
  LET a == call[c].for IN
  /\ call[c].do = "resettle"
  /\ IF Admits(att[a], "ready_for_review")
       THEN /\ att' = [att EXCEPT ![a].state = "ready_for_review"]
            /\ card' = IF MarksReview(a, "ready_for_review")
                         THEN [card EXCEPT !.column = "in_review"] ELSE card
            /\ call' = Writes(c, Idle)
       ELSE UNCHANGED <<att, card>> /\ call' = Done(c)

\* The agent reports on the attempt its chat is working on.
Report(a, done) ==
  /\ att[a].turn /\ Live(att[a])
  /\ att' = [att EXCEPT ![a].done = done]
  /\ call' = Stale(call)
  /\ UNCHANGED card

\* The user, or an agent, edits or moves the card; Done is refused to a linked one.
Edit(column) ==
  /\ card.column # "deleted"
  /\ column = "done" => card.link = NoAttempt
  /\ card' = [card EXCEPT !.column = column]
  /\ call' = Stale(call)
  /\ UNCHANGED att

Delete ==
  /\ card.column # "deleted"
  /\ card' = [column |-> "deleted", link |-> NoAttempt]
  /\ call' = Stale(call)
  /\ UNCHANGED att

-----------------------------------------------------------------------------
\* The process dies and another starts: running attempts of the old one are
\* read as interrupted from then on.
Crash ==
  /\ att' = [a \in Attempts |->
               [att[a] EXCEPT !.state = IF Live(att[a]) /\ @ = "running"
                                          THEN "interrupted" ELSE @,
                              !.turn = FALSE, !.watch = "off",
                              !.chat = IF @ = "native" THEN "open" ELSE @]]
  /\ call' = [c \in Clients |-> Idle]
  /\ UNCHANGED card

\* A delegation links in the handler that started the attempt: nothing else
\* happens on the loop in between.
LoopFree == \A c \in Clients : call[c].do # "link"

LoopStep ==
  \/ \E a \in Attempts :
       \/ Send(a) \/ Settle(a) \/ ChatEnds(a) \/ Resume(a)
       \/ \E end \in EndKinds : TurnEnds(a, end)
       \/ \E c \in Clients : Delegate(c, a) \/ Stop(c, a) \/ Detach(c, a) \/ Answer(c, a)
  \/ \E c \in Clients : Stopped(c) \/ Detached(c)

ThreadStep ==
  \/ \E c \in Clients :
       \/ \E a \in Attempts : Approve(c, a)
       \/ Unlink(c) \/ Complete(c) \/ Relink(c) \/ Release(c)
       \/ Check(c) \/ Resettle(c)
  \/ \E a \in Attempts, done \in BOOLEAN : Report(a, done)
  \/ \E column \in Columns \ {"deleted"} : Edit(column)
  \/ Delete

Next == \/ LoopFree /\ LoopStep
        \/ \E c \in Clients : Link(c)
        \/ ThreadStep
        \/ Crash

Spec == Init /\ [][Next]_vars

\* The loop runs its handlers and watchers.
FairSpec ==
  /\ Spec
  /\ \A a \in Attempts : WF_vars(LoopFree /\ Settle(a))
  /\ \A c \in Clients : WF_vars(Link(c))

-----------------------------------------------------------------------------
TypeOK ==
  /\ att \in [Attempts -> Attempt]
  /\ card \in [column : Columns, link : Attempts \cup {NoAttempt}]
  /\ call \in [Clients -> [do : Steps \cup {"idle"}, for : Attempts \cup {NoAttempt},
                            fresh : BOOLEAN]]

\* At most one attempt holds the task, whichever of a delegation, a resume, a
\* follow-up, an approval put back and a restart come together.
OneLive == \A a, b \in Holders : a = b

\* The card never points at an attempt that has ended while another one works
\* on the task, except inside the handler that is about to link it: Stop,
\* Detach and Approve on the card act on the attempt that is at work.
CardNamesHolder ==
  \A a \in Holders : \/ card.link \in {a, NoAttempt}
                     \/ \E c \in Clients : call[c].do = "link" /\ call[c].for = a

\* A task in Done is linked to no attempt, also when an approval is refused half
\* way and undone while others write the card.
DoneUnlinked == card.column = "done" => card.link = NoAttempt

\* A running attempt whose turn is over does not stay running: its watcher, or
\* the restart that lost it, settles it.
TurnEndSettles ==
  \A a \in Attempts :
    (Live(att[a]) /\ att[a].state = "running" /\ ~att[a].turn)
      ~> ~(Live(att[a]) /\ att[a].state = "running" /\ ~att[a].turn)

-----------------------------------------------------------------------------
(* What the docs say and the code does not do *)

\* A task without an attempt behind it can be delegated (_relink_after_refusal).
FreeIsDelegable ==
  /\ card.column \notin {"done", "deleted"} /\ card.link = NoAttempt
  /\ \A c \in Clients : call[c] = Idle
  => Holders = {}

\* A result in review is one whose turn has ended
\* (workspace_task_complete_reviewed).
ReviewIdle ==
  \A a \in Holders : card.link = a /\ att[a].state = "ready_for_review" => ~att[a].turn

\* A released record is one in a live state (reopen).
ReleasedIsResult == \A a \in Attempts : att[a].released => att[a].state \in LiveStates

\* Approved and rejected results are final: no late watcher, Stop, resume or
\* relink gives a released attempt its task back (release: ``the marker cannot
\* be a way back into a live state'').
ReleasedForGood == [][\A a \in Attempts : att[a].released => att'[a].released]_vars

\* A detach leaves a result that already arrived (_attempt_detach).
DetachKeepsResult ==
  [][\A c \in Clients :
       LET a == call[c].for IN
       call[c].do = "detach" /\ call'[c] = Idle
       => ~(att[a].state = "ready_for_review" /\ att'[a].state = "stopped")]_vars

\* A detach clears the linkage (workspace_task_attempt_action).
DetachUnlinks ==
  [][\A c \in Clients :
       LET a == call[c].for IN
       call[c].do = "detach" /\ call'[c] = Idle /\ att'[a].state = "stopped"
       => card'.link # a]_vars

-----------------------------------------------------------------------------
Phase(r) ==
  CASE r.state = "none"             -> "new"
    [] r.state # "none" /\ ~Live(r) -> "over"
    [] Live(r)                      -> CASE r.state = "running"          -> "working"
                                         [] r.state = "needs_you"        -> "waiting"
                                         [] r.state = "ready_for_review" -> "review"

Holder == IF Holders = {} THEN NoAttempt ELSE CHOOSE a \in Holders : TRUE

\* The attempts keep the contract of the task.
Contract == INSTANCE DelegationContract WITH
              Attempts  <- Attempts,
              NoAttempt <- NoAttempt,
              holder    <- Holder,
              phase     <- [a \in Attempts |-> Phase(att[a])]

ImplementsContract == Contract!Spec
=============================================================================
