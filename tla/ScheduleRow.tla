----------------------------- MODULE ScheduleRow -----------------------------
(***************************************************************************)
(* One daily row of the schedule store, the process that ticks it, and the *)
(* runs dispatched for it: by the tick in the minute of its slot, by the   *)
(* catch-up at start-up, or by hand.                                       *)
(*                                                                         *)
(* A tick, a catch-up and a ``Run now'' stamp the row in one go and leave  *)
(* the run to a task of its own, which reports hours later, if ever.  Time *)
(* is the number of slots that have come, and whether the minute of the    *)
(* last one lasts.                                                         *)
(***************************************************************************)
EXTENDS Naturals

CONSTANTS Ids,        \* dispatch ids
          NoId,
          Other,      \* somebody else's turn in the chat
          MaxDay      \* bound on the slots

ASSUME RowAssumption == /\ NoId \notin Ids /\ Other \notin Ids \cup {NoId}
                        /\ MaxDay \in Nat

VARIABLES row,      \* the stored row
          run,      \* the runs, by dispatch id
          shared,   \* whether the row posts into one existing chat
          turns,    \* the turns that are live in the chats of the runs
          proc,     \* the process: is it up, has it caught up, what did it dispatch
          day,      \* slots that have come
          due       \* the minute of the last one lasts

vars == <<row, run, shared, turns, proc, day, due>>

Days == 0 .. MaxDay

\* "skipped" is a run that somebody still has to finish, "unfinished" included.
Completed == {"ok", "skipped"}
Reports == Completed \cup {"error", "retrying"}
InFlight == {"begun", "streaming", "ended"}

Row == [status : Reports \cup {"none", "running"},
        id : Ids \cup {NoId},        \* last_dispatch_id ...
        at : Days,                   \* last_dispatched_at, as the slots come by then
        triggered : Days,            \* last_triggered_on
        completed : Days,            \* last_completed_on
        recovered : Days]            \* last_recovered_on

Run == [by : {"none", "tick", "catch_up", "recovery", "hand"},
        slot : Days,                 \* the occurrence inside the dispatch id
        phase : InFlight \cup {"unused", "over", "vanished", "dead"},
        turn : Ids \cup {NoId, Other},   \* the turn it listens to
        result : Reports \cup {"none"}]

Unused == [by |-> "none", slot |-> 0, phase |-> "unused", turn |-> NoId, result |-> "none"]
Down == [up |-> FALSE, caught |-> FALSE, owned |-> FALSE]

Init ==
  /\ row = [status |-> "none", id |-> NoId, at |-> 0,
            triggered |-> 0, completed |-> 0, recovered |-> 0]
  /\ run = [i \in Ids |-> Unused]
  /\ shared \in BOOLEAN
  /\ turns = {}
  /\ proc = Down
  /\ day = 0
  /\ due = FALSE

-----------------------------------------------------------------------------
(* Dispatches *)

Begun(by, slot) ==
  [by |-> by, slot |-> slot, phase |-> "begun", turn |-> NoId, result |-> "none"]

\* A dispatch for a slot of row r: the row is stamped before the run begins.
Dispatch(r, by, slot) ==
  \E i \in Ids :
    /\ run[i].phase = "unused"
    /\ run' = [run EXCEPT ![i] = Begun(by, slot)]
    /\ row' = [r EXCEPT !.status = "running", !.id = i, !.at = day]

\* The tick in the minute of a slot that was not triggered yet; a target that
\* cannot be prepared is an error of the row.
Due == proc.up /\ due /\ row.triggered # day

Tick ==
  /\ Due
  /\ Dispatch([row EXCEPT !.triggered = day], "tick", day)
  /\ proc' = [proc EXCEPT !.owned = TRUE]
  /\ UNCHANGED <<shared, turns, day, due>>

TickFails ==
  /\ Due
  /\ row' = [row EXCEPT !.status = "error"]
  /\ UNCHANGED <<run, shared, turns, proc, day, due>>

\* Run now serves the slot that came last.
RunNow ==
  /\ proc.up
  /\ Dispatch(row, "hand", day)
  /\ proc' = [proc EXCEPT !.owned = TRUE]
  /\ UNCHANGED <<shared, turns, day, due>>

\* Mutant of Reconciled: a run of the old process goes on.
ReconciledNot(r) == r

\* reconcile_interrupted_runs
Reconciled(r) ==
  IF r.status = "running" /\ ~proc.owned THEN [r EXCEPT !.status = "error"] ELSE r

\* Mutant of Failed: another run that completed does not count.
FailedLatest(r) == r.status = "error" /\ r.at >= day

\* run_failed_since, for the slot that came last.
Failed(r) == r.completed < day /\ r.status = "error" /\ r.at >= day

Recovering(r) == Failed(r) /\ r.recovered # day
Missed(r) == r.triggered < day /\ r.at < day

\* Mutant of CatchUp: the recovery is not spent.
CatchUpUnspent ==
  LET r == Reconciled(row) IN
  /\ proc.up /\ ~proc.caught
  /\ IF day > 0 /\ (Recovering(r) \/ Missed(r))
       THEN /\ Dispatch([r EXCEPT !.triggered = day],
                        IF Recovering(r) THEN "recovery" ELSE "catch_up", day)
            /\ proc' = [proc EXCEPT !.caught = TRUE, !.owned = TRUE]
       ELSE /\ row' = r /\ run' = run
            /\ proc' = [proc EXCEPT !.caught = TRUE]
  /\ UNCHANGED <<shared, turns, day, due>>

\* The start-up pass fires a slot that was missed, and once more one whose run
\* failed.
CatchUp ==
  LET r == Reconciled(row) IN
  /\ proc.up /\ ~proc.caught
  /\ IF day > 0 /\ (Recovering(r) \/ Missed(r))
       THEN /\ IF Recovering(r)
                 THEN Dispatch([r EXCEPT !.triggered = day, !.recovered = day], "recovery", day)
                 ELSE Dispatch([r EXCEPT !.triggered = day], "catch_up", day)
            /\ proc' = [proc EXCEPT !.caught = TRUE, !.owned = TRUE]
       ELSE /\ row' = r /\ run' = run
            /\ proc' = [proc EXCEPT !.caught = TRUE]
  /\ UNCHANGED <<shared, turns, day, due>>

\* ... unless the preparation of this row, or of one before it, raises.
CatchUpFails ==
  /\ proc.up /\ ~proc.caught
  /\ row' = Reconciled(row)
  /\ proc' = [proc EXCEPT !.caught = TRUE]
  /\ UNCHANGED <<run, shared, turns, day, due>>

-----------------------------------------------------------------------------
(* Runs *)

\* The prompt becomes a turn, or the turn that is live in the chat is taken for
\* it (start_stream returns it).
Listen(i) ==
  LET busy == IF shared THEN turns ELSE {} IN
  /\ run[i].phase = "begun"
  /\ \E t \in IF busy = {} THEN {i} ELSE busy :
       /\ run' = [run EXCEPT ![i].phase = "streaming", ![i].turn = t]
       /\ turns' = turns \cup {t}
  /\ UNCHANGED <<row, shared, proc, day, due>>

OtherTurn ==
  /\ proc.up /\ shared /\ turns = {}
  /\ turns' = {Other}
  /\ UNCHANGED <<row, run, shared, proc, day, due>>

TurnEnds(t) ==
  /\ t \in turns
  /\ turns' = turns \ {t}
  /\ run' = [i \in Ids |-> IF run[i].phase = "streaming" /\ run[i].turn = t
                             THEN [run[i] EXCEPT !.phase = "ended"] ELSE run[i]]
  /\ UNCHANGED <<row, shared, proc, day, due>>

\* Mutant of Stamped: the last run to finish wins.
StampedAny(r, i, status) ==
  [r EXCEPT !.completed = IF status \in Completed /\ run[i].slot > @ THEN run[i].slot ELSE @,
            !.status = status]

\* Mutant of Stamped: the run is credited to the slot current at its end.
StampedLate(r, i, status) ==
  [r EXCEPT !.completed = IF status \in Completed /\ day > @ THEN day ELSE @,
            !.status = IF r.id = i THEN status ELSE @]

\* stamp_run_outcome: the slot of the run is credited, and the row takes the
\* status if it still names the run.
Stamped(r, i, status) ==
  [r EXCEPT !.completed = IF status \in Completed /\ run[i].slot > @ THEN run[i].slot ELSE @,
            !.status = IF r.id = i THEN status ELSE @]

\* The run reports.  Before its turn that is a refusal or an error, or a command
\* without output.
Report(i, status) ==
  /\ \/ run[i].phase = "ended"
     \/ run[i].phase = "begun" /\ status \in {"ok", "error"}
  /\ row' = Stamped(row, i, status)
  /\ run' = [run EXCEPT ![i].phase = "over", ![i].result = status]
  /\ UNCHANGED <<shared, turns, proc, day, due>>

\* The run ends without a report: no chat is left, or its task raises.
Vanish(i) ==
  /\ run[i].phase \in {"begun", "ended"}
  /\ run' = [run EXCEPT ![i].phase = "vanished"]
  /\ UNCHANGED <<row, shared, turns, proc, day, due>>

\* The network retry of the run's chat ends, or is stopped (settle_retrying_runs).
SettleRetry(status) ==
  /\ proc.up
  /\ row.status = "retrying"
  /\ row' = Stamped(row, row.id, status)
  /\ run' = [run EXCEPT ![row.id].result = status]
  /\ UNCHANGED <<shared, turns, proc, day, due>>

\* The chat of the last run is archived (settle_runs_for_archived_chat).
ArchiveChat ==
  LET to == IF row.status = "retrying" THEN "error" ELSE "ok" IN
  /\ proc.up
  /\ row.status \in {"skipped", "retrying"}
  /\ row' = [row EXCEPT !.status = to]
  /\ run' = [run EXCEPT ![row.id].result = to]
  /\ UNCHANGED <<shared, turns, proc, day, due>>

-----------------------------------------------------------------------------
(* Time and the process *)

Pass ==
  /\ IF due THEN due' = FALSE /\ day' = day
     ELSE day < MaxDay /\ day' = day + 1 /\ due' = TRUE
  /\ UNCHANGED <<row, run, shared, turns, proc>>

Boot ==
  /\ ~proc.up
  /\ proc' = [Down EXCEPT !.up = TRUE]
  /\ UNCHANGED <<row, run, shared, turns, day, due>>

Crash ==
  /\ proc.up
  /\ proc' = Down
  /\ turns' = {}
  /\ run' = [i \in Ids |-> IF run[i].phase \in InFlight
                             THEN [run[i] EXCEPT !.phase = "dead"] ELSE run[i]]
  /\ UNCHANGED <<row, shared, day, due>>

Next ==
  \/ Tick \/ TickFails \/ RunNow \/ CatchUp \/ CatchUpFails
  \/ \E i \in Ids : Listen(i) \/ Vanish(i) \/ \E status \in Reports : Report(i, status)
  \/ OtherTurn \/ \E t \in Ids \cup {Other} : TurnEnds(t)
  \/ (\E status \in {"ok", "error"} : SettleRetry(status)) \/ ArchiveChat
  \/ Pass \/ Boot \/ Crash

Spec == Init /\ [][Next]_vars

\* The process is started again, is not killed in every start-up before its
\* catch-up, and runs its tasks; a turn need not end.
FairSpec ==
  /\ Spec
  /\ WF_vars(Boot) /\ SF_vars(CatchUp \/ CatchUpFails)
  /\ \A i \in Ids : /\ WF_vars(Listen(i))
                    /\ WF_vars(Vanish(i) \/ \E status \in Reports : Report(i, status))

-----------------------------------------------------------------------------
TypeOK ==
  /\ row \in Row
  /\ run \in [Ids -> Run]
  /\ shared \in BOOLEAN
  /\ turns \subseteq Ids \cup {Other}
  /\ proc \in [up : BOOLEAN, caught : BOOLEAN, owned : BOOLEAN]
  /\ day \in Days
  /\ due \in BOOLEAN

\* What the row says of its latest dispatch is what that run reported, however
\* the runs of overlapping dispatches end.
StatusOfLatest ==
  row.status \in Completed \cup {"retrying"} =>
    row.id \in Ids /\ run[row.id].result = row.status

\* A slot counts as served only by a completed run that was dispatched for it,
\* also when the run ends past the next slot.
CompletedEarned ==
  row.completed > 0 =>
    \E i \in Ids : run[i].slot = row.completed /\ run[i].result \in Completed

\* Without a person, a slot is dispatched once, and recovered once.
RecoveredOnce ==
  \A i, j \in Ids :
    /\ run[i].slot = run[j].slot
    /\ {run[i].by, run[j].by} \subseteq {"tick", "catch_up"} \/ {run[i].by, run[j].by} = {"recovery"}
    => i = j

\* Once the start-up pass is through, a row that says running has a run of this
\* process behind it, not one of a process that died.
RunningIsHere ==
  proc.caught /\ row.status = "running" => run[row.id].phase \in InFlight \cup {"vanished"}

\* The start-up pass never fires a slot for which, or for a later one, a run
\* completed, whichever run reported last.
ServedNotReplayed ==
  [][proc'.caught /\ ~proc.caught /\ row'.id # row.id
     => \A i \in Ids : run[i].result \in Completed => run[i].slot < day]_vars

\* A row stays running only while its run waits for a turn, or after a run that
\* ended without a report: a run that can report does, and one that died with its
\* process is reconciled by the next.
Unsettled == row.status = "running" /\ run[row.id].phase \notin {"streaming", "vanished"}
RunSettles == Unsettled ~> ~Unsettled

-----------------------------------------------------------------------------
(* What the docs say and the code does not do *)

\* A run in flight is what running says (reconcile_interrupted_runs: ``overwritten
\* with the turn's outcome when the dispatch pipeline reports back'').
RunningReports == proc.caught /\ row.status = "running" => run[row.id].phase \in InFlight

\* A slot that counts as served had its prompt run, or a command of it
\* (slot_completed_since: ``some dispatch for the occurrence ... produced a
\* completed run'').
ServedRan ==
  row.completed > 0 =>
    \E i \in Ids : /\ run[i].slot = row.completed /\ run[i].result \in Completed
                   /\ run[i].turn \in {i, NoId}

\* Catch-up fires a row whose latest slot was missed (catch_up: ``fire each
\* schedule once when its latest expected run was missed'').
CatchUpReaches ==
  [][proc'.caught /\ ~proc.caught /\ day > 0 /\ Missed(row) => row'.id # row.id]_vars
=============================================================================
