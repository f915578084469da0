-------------------------- MODULE ScheduleRowProofs --------------------------
(***************************************************************************)
(* The safety properties of ScheduleRow, for any number of dispatches and  *)
(* of slots.                                                               *)
(***************************************************************************)
EXTENDS ScheduleRow, TLAPS

\* Only a run that reported has a result.
Quiet == \A i \in Ids : run[i].phase # "over" => run[i].result = "none"

\* A row that runs, or whose last run this process dispatched, names that run.
RunNamed ==
  /\ row.status = "running" =>
       row.id \in Ids /\ run[row.id].phase \in InFlight \cup {"vanished", "dead"}
  /\ proc.owned => row.id \in Ids /\ run[row.id].phase # "dead"
  /\ proc.caught /\ row.status = "running" => proc.owned

\* No stamp and no slot of a run is ahead of the days, nor a run of its row.
Bounded ==
  /\ row.at <= day /\ row.triggered <= day /\ row.completed <= day /\ row.recovered <= day
  /\ \A i \in Ids : run[i].slot <= row.at

\* What the process did by itself is on the row.
AutoStamped ==
  \A i \in Ids :
    /\ run[i].by \in {"tick", "catch_up"} => run[i].slot <= row.triggered
    /\ run[i].by = "recovery" => run[i].slot <= row.recovered

\* The work of a completed run is credited.
Credited == \A i \in Ids : run[i].result \in Completed => run[i].slot <= row.completed

Inv ==
  /\ TypeOK /\ Quiet /\ StatusOfLatest /\ RunNamed
  /\ Bounded /\ AutoStamped /\ Credited /\ CompletedEarned /\ RecoveredOnce

USE RowAssumption

LEMMA InitInv == Init => Inv
<1> SUFFICES ASSUME Init PROVE Inv
  OBVIOUS
<1> USE DEF Init, Unused, Down, Days
<1>1. TypeOK
  <2>1. row \in Row
    BY DEF Row
  <2>2. Unused \in Run
    BY DEF Run
  <2>3. day \in Days
    OBVIOUS
  <2>4. due \in BOOLEAN /\ shared \in BOOLEAN
    BY Zenon
  <2> QED
    BY <2>1, <2>2, <2>3, <2>4 DEF TypeOK
<1>2. Quiet /\ Bounded /\ AutoStamped /\ Credited /\ RecoveredOnce
  BY DEF Quiet, Bounded, AutoStamped, Credited, RecoveredOnce, Completed
<1>3. StatusOfLatest /\ RunNamed /\ CompletedEarned
  BY DEF StatusOfLatest, RunNamed, CompletedEarned, Completed
<1> QED
  BY <1>1, <1>2, <1>3 DEF Inv

-----------------------------------------------------------------------------
(* The two ways a step changes the row: a dispatch, and a report *)

\* A dispatch of the slot of the day keeps the invariant, when the row it starts
\* from differs in the stamps that the dispatch may write, and what the process
\* does by itself was not done for that slot.
LEMMA DispatchInv ==
  ASSUME Inv, NEW r \in Row, NEW by \in {"tick", "catch_up", "recovery", "hand"},
         r.completed = row.completed,
         r.triggered \in {row.triggered, day}, r.recovered \in {row.recovered, day},
         by \in {"tick", "catch_up"} => row.triggered < day /\ r.triggered = day,
         by = "recovery" => row.recovered < day /\ r.recovered = day,
         Dispatch(r, by, day), proc'.owned, proc' \in [up : BOOLEAN, caught : BOOLEAN, owned : BOOLEAN],
         UNCHANGED <<shared, turns, day, due>>
  PROVE  Inv'
<1>1. PICK i \in Ids :
        /\ run[i].phase = "unused"
        /\ run' = [run EXCEPT ![i] = Begun(by, day)]
        /\ row' = [r EXCEPT !.status = "running", !.id = i, !.at = day]
  BY DEF Dispatch
<1>3. /\ TypeOK /\ Quiet /\ StatusOfLatest /\ Bounded /\ AutoStamped /\ Credited
      /\ CompletedEarned /\ RecoveredOnce
  BY DEF Inv
<1>2. Begun(by, day) \in Run
  BY <1>3 DEF Begun, Run, TypeOK, InFlight
<1>4. /\ run'[i] = Begun(by, day)
      /\ run'[i].by = by /\ run'[i].slot = day /\ run'[i].phase = "begun"
      /\ run'[i].result = "none"
      /\ \A j \in Ids \ {i} : run'[j] = run[j]
  BY <1>1, <1>3 DEF TypeOK, Begun
<1>5. /\ row'.status = "running" /\ row'.id = i /\ row'.at = day
      /\ row'.triggered = r.triggered /\ row'.completed = row.completed
      /\ row'.recovered = r.recovered /\ row' \in Row
  BY <1>1, <1>3 DEF Row, TypeOK
<1>6. day \in Nat /\ row.at \in Nat /\ row.triggered \in Nat /\ row.completed \in Nat
      /\ row.recovered \in Nat /\ \A j \in Ids : run[j].slot \in Nat
  BY <1>3 DEF TypeOK, Days, Row, Run
<1>7. TypeOK'
  <2>1. run' \in [Ids -> Run]
    BY <1>1, <1>2, <1>3 DEF TypeOK
  <2> QED
    BY <1>3, <1>5, <2>1 DEF TypeOK
<1>8. Quiet' /\ StatusOfLatest'
  BY <1>3, <1>4, <1>5 DEF Quiet, StatusOfLatest, Completed
<1>9. RunNamed'
  BY <1>4, <1>5 DEF RunNamed, InFlight
<1>10. Bounded'
  BY <1>3, <1>4, <1>5, <1>6 DEF Bounded
<1>11. AutoStamped'
  BY <1>3, <1>4, <1>5, <1>6 DEF AutoStamped, Bounded
<1>12. Credited'
  BY <1>3, <1>4, <1>5 DEF Credited, Completed
<1>13. CompletedEarned'
  <2> SUFFICES ASSUME row.completed > 0
               PROVE  \E j \in Ids : run'[j].slot = row.completed /\ run'[j].result \in Completed
    BY <1>5 DEF CompletedEarned
  <2>1. PICK j \in Ids : run[j].slot = row.completed /\ run[j].result \in Completed
    BY <1>3 DEF CompletedEarned
  <2>2. j # i
    BY <1>1, <1>3, <2>1 DEF Quiet, Completed
  <2> QED
    BY <1>4, <2>1, <2>2
<1>14. RecoveredOnce'
  <2> SUFFICES ASSUME NEW j \in Ids, NEW k \in Ids, run'[j].slot = run'[k].slot,
                      \/ {run'[j].by, run'[k].by} \subseteq {"tick", "catch_up"}
                      \/ {run'[j].by, run'[k].by} = {"recovery"}
               PROVE  j = k
    BY DEF RecoveredOnce
  <2>1. CASE j # i /\ k # i
    BY <1>3, <1>4, <2>1 DEF RecoveredOnce
  <2>2. ASSUME NEW m \in Ids \ {i}, run[m].slot = day,
               \/ by \in {"tick", "catch_up"} /\ run[m].by \in {"tick", "catch_up"}
               \/ by = "recovery" /\ run[m].by = "recovery"
        PROVE  FALSE
    BY <1>3, <1>6, <2>2 DEF AutoStamped
  <2>3. CASE j = i /\ k # i
    BY <1>4, <2>2, <2>3
  <2>4. CASE j # i /\ k = i
    BY <1>4, <2>2, <2>4
  <2> QED
    BY <2>1, <2>3, <2>4
<1> QED
  BY <1>7, <1>8, <1>9, <1>10, <1>11, <1>12, <1>13, <1>14 DEF Inv

\* The outcome of a run that has none yet, or that was retrying, keeps the
\* invariant.
LEMMA StampInv ==
  ASSUME Inv, NEW i \in Ids, NEW status \in Reports, run[i].result \notin Completed,
         row' = Stamped(row, i, status), run' \in [Ids -> Run],
         run'[i].phase = "over", run'[i].result = status,
         run'[i].by = run[i].by, run'[i].slot = run[i].slot,
         \A j \in Ids \ {i} : run'[j] = run[j],
         turns' \subseteq Ids \cup {Other}, UNCHANGED <<shared, proc, day, due>>
  PROVE  Inv'
<1>1. /\ TypeOK /\ Quiet /\ StatusOfLatest /\ RunNamed /\ Bounded /\ AutoStamped /\ Credited
      /\ CompletedEarned /\ RecoveredOnce
  BY DEF Inv
<1> DEFINE credit == status \in Completed /\ run[i].slot > row.completed
<1>2. /\ row'.id = row.id /\ row'.at = row.at /\ row'.triggered = row.triggered
      /\ row'.recovered = row.recovered
      /\ row'.completed = IF credit THEN run[i].slot ELSE row.completed
      /\ row'.status = IF row.id = i THEN status ELSE row.status
  BY <1>1 DEF Stamped, TypeOK, Row
<1>3. /\ day \in Nat /\ row.at \in Nat /\ row.completed \in Nat
      /\ \A j \in Ids : run[j].slot \in Nat
  BY <1>1 DEF TypeOK, Days, Row, Run
<1>4. TypeOK'
  <2>1. row' \in Row
    BY <1>1 DEF Stamped, TypeOK, Row, Run
  <2> QED
    BY <1>1, <2>1 DEF TypeOK
<1>5. Quiet' /\ StatusOfLatest'
  BY <1>1, <1>2 DEF Quiet, StatusOfLatest
<1>6. RunNamed'
  BY <1>1, <1>2 DEF RunNamed, Reports, Completed
<1>7. Bounded'
  BY <1>1, <1>2, <1>3 DEF Bounded
<1>8. AutoStamped' /\ RecoveredOnce'
  <2>1. \A j \in Ids : run'[j].by = run[j].by /\ run'[j].slot = run[j].slot
    OBVIOUS
  <2>2. AutoStamped'
    BY <1>1, <1>2, <2>1 DEF AutoStamped
  <2>3. RecoveredOnce'
    BY <1>1, <2>1 DEF RecoveredOnce
  <2> QED
    BY <2>2, <2>3
<1>9. Credited'
  BY <1>1, <1>2, <1>3 DEF Credited
<1>10. CompletedEarned'
  <2>1. CASE credit
    BY <1>2, <2>1 DEF CompletedEarned
  <2>2. CASE ~credit
    BY <1>1, <1>2, <2>2 DEF CompletedEarned
  <2> QED
    BY <2>1, <2>2
<1> QED
  BY <1>1, <1>4, <1>5, <1>6, <1>7, <1>8, <1>9, <1>10 DEF Inv

\* A step that records a failure, or a phase of a run, keeps the invariant when
\* the row still names its run.
LEMMA PhaseInv ==
  ASSUME Inv, TypeOK', RunNamed', StatusOfLatest', day' \in {day, day + 1},
         \A j \in Ids : /\ run'[j].by = run[j].by /\ run'[j].slot = run[j].slot
                        /\ run'[j].result = run[j].result
                        /\ run[j].phase = "over" => run'[j].phase = "over",
         row'.id = row.id, row'.at = row.at, row'.triggered = row.triggered,
         row'.completed = row.completed, row'.recovered = row.recovered
  PROVE  Inv'
<1>1. /\ TypeOK /\ Quiet /\ Bounded /\ AutoStamped /\ Credited /\ CompletedEarned /\ RecoveredOnce
  BY DEF Inv
<1>2. /\ day \in Nat /\ row.at \in Nat /\ row.completed \in Nat /\ row.triggered \in Nat
      /\ row.recovered \in Nat
  BY <1>1 DEF TypeOK, Days, Row
<1>3. Quiet' /\ AutoStamped' /\ Credited'
  BY <1>1 DEF Quiet, AutoStamped, Credited
<1>4. CompletedEarned' /\ RecoveredOnce'
  BY <1>1 DEF CompletedEarned, RecoveredOnce
<1>5. Bounded'
  BY <1>1, <1>2 DEF Bounded
<1> QED
  BY <1>3, <1>4, <1>5 DEF Inv

-----------------------------------------------------------------------------
(* The actions *)

\* Reconciling changes no stamp, and leaves no running row to another process.
LEMMA ReconciledRow ==
  ASSUME row \in Row
  PROVE  LET r == Reconciled(row) IN
         /\ r \in Row /\ r.id = row.id /\ r.at = row.at /\ r.triggered = row.triggered
         /\ r.completed = row.completed /\ r.recovered = row.recovered
         /\ r.status \in {row.status, "error"}
         /\ r.status = "running" => proc.owned
BY DEF Reconciled, Row, Reports

LEMMA CatchUpFailsInv ==
  ASSUME Inv, row' = Reconciled(row), run' = run, proc' = [proc EXCEPT !.caught = TRUE],
         UNCHANGED <<shared, turns, day, due>>
  PROVE  Inv'
<1>1. TypeOK /\ StatusOfLatest /\ RunNamed
  BY DEF Inv
<1>2. row \in Row /\ proc \in [up : BOOLEAN, caught : BOOLEAN, owned : BOOLEAN]
  BY <1>1 DEF TypeOK
<1>3. /\ row' \in Row /\ row'.id = row.id /\ row'.at = row.at /\ row'.triggered = row.triggered
      /\ row'.completed = row.completed /\ row'.recovered = row.recovered
      /\ row'.status \in {row.status, "error"}
      /\ row'.status = "running" => proc.owned
  BY <1>2, ReconciledRow
<1>4. proc' \in [up : BOOLEAN, caught : BOOLEAN, owned : BOOLEAN] /\ proc'.owned = proc.owned
  BY <1>2
<1>5. TypeOK'
  BY <1>1, <1>3, <1>4 DEF TypeOK
<1>6. StatusOfLatest' /\ RunNamed'
  BY <1>1, <1>3, <1>4 DEF StatusOfLatest, RunNamed, Completed
<1> QED
  BY <1>3, <1>5, <1>6, PhaseInv

LEMMA CatchUpInv == Inv /\ CatchUp => Inv'
<1> SUFFICES ASSUME Inv, CatchUp PROVE Inv'
  OBVIOUS
<1> DEFINE r == Reconciled(row)
<1>1. TypeOK /\ Bounded /\ row \in Row /\ day \in Nat /\ row.triggered \in Nat
      /\ row.recovered \in Nat /\ day \in Days
  BY DEF Inv, TypeOK, Row, Days
<1>2. proc \in [up : BOOLEAN, caught : BOOLEAN, owned : BOOLEAN]
  BY <1>1 DEF TypeOK
<1>3. /\ r \in Row /\ r.completed = row.completed
      /\ r.triggered = row.triggered /\ r.recovered = row.recovered
  BY <1>1, ReconciledRow
<1>4. CASE day > 0 /\ (Recovering(r) \/ Missed(r))
  <2> DEFINE s == [r EXCEPT !.triggered = day, !.recovered = day]
             t == [r EXCEPT !.triggered = day]
             p == [proc EXCEPT !.caught = TRUE, !.owned = TRUE]
  <2>1. /\ p \in [up : BOOLEAN, caught : BOOLEAN, owned : BOOLEAN]
        /\ p.owned
    BY <1>2
  <2>2. /\ s \in Row /\ s.completed = row.completed /\ s.triggered = day /\ s.recovered = day
        /\ t \in Row /\ t.completed = row.completed /\ t.triggered = day
        /\ t.recovered = row.recovered
    BY <1>1, <1>3 DEF Row
  <2>3. proc' = p /\ UNCHANGED <<shared, turns, day, due>>
    BY <1>4 DEF CatchUp
  <2>4. CASE Recovering(r)
    <3>1. Dispatch(s, "recovery", day)
      BY <1>4, <2>4 DEF CatchUp
    <3>2. row.recovered < day
      BY <1>1, <1>3, <2>4 DEF Recovering, Bounded
    <3> HIDE DEF s, t, p, r
    <3> QED
      BY <2>1, <2>2, <2>3, <3>1, <3>2, DispatchInv
  <2>5. CASE ~Recovering(r)
    <3>1. Dispatch(t, "catch_up", day)
      BY <1>4, <2>5 DEF CatchUp
    <3>2. row.triggered < day
      BY <1>3, <1>4, <2>5 DEF Missed
    <3> HIDE DEF s, t, p, r
    <3> QED
      BY <2>1, <2>2, <2>3, <3>1, <3>2, DispatchInv
  <2> QED
    BY <2>4, <2>5
<1>5. CASE ~(day > 0 /\ (Recovering(r) \/ Missed(r)))
  BY <1>5, CatchUpFailsInv DEF CatchUp
<1> QED
  BY <1>4, <1>5

\* Every action keeps the invariant.
LEMMA StepInv == Inv /\ [Next]_vars => Inv'
<1> SUFFICES ASSUME Inv, [Next]_vars PROVE Inv'
  OBVIOUS
<1>1. /\ TypeOK /\ Quiet /\ StatusOfLatest /\ RunNamed /\ Bounded
  BY DEF Inv
<1>2. /\ row \in Row /\ run \in [Ids -> Run] /\ day \in Days /\ turns \subseteq Ids \cup {Other}
      /\ proc \in [up : BOOLEAN, caught : BOOLEAN, owned : BOOLEAN]
  BY <1>1 DEF TypeOK
<1>3. day \in Nat /\ row.triggered \in Nat
  BY <1>2 DEF Days, Row
<1>4. CASE Tick
  <2> DEFINE r == [row EXCEPT !.triggered = day]
             p == [proc EXCEPT !.owned = TRUE]
  <2>1. /\ r \in Row /\ r.completed = row.completed /\ r.triggered = day
        /\ r.recovered = row.recovered
    BY <1>2 DEF Row
  <2>2. row.triggered < day
    BY <1>1, <1>3, <1>4 DEF Tick, Due, Bounded
  <2>3. p \in [up : BOOLEAN, caught : BOOLEAN, owned : BOOLEAN] /\ p.owned
    BY <1>2
  <2>4. Dispatch(r, "tick", day) /\ proc' = p /\ UNCHANGED <<shared, turns, day, due>>
    BY <1>4 DEF Tick
  <2> HIDE DEF r, p
  <2> QED
    BY <2>1, <2>2, <2>3, <2>4, DispatchInv
<1>5. CASE RunNow
  <2> DEFINE p == [proc EXCEPT !.owned = TRUE]
  <2>1. p \in [up : BOOLEAN, caught : BOOLEAN, owned : BOOLEAN] /\ p.owned
    BY <1>2
  <2>2. Dispatch(row, "hand", day) /\ proc' = p /\ UNCHANGED <<shared, turns, day, due>>
    BY <1>5 DEF RunNow
  <2> HIDE DEF p
  <2> QED
    BY <1>2, <2>1, <2>2, DispatchInv
<1>6. CASE TickFails
  <2>1. /\ row' \in Row /\ row'.id = row.id /\ row'.at = row.at /\ row'.triggered = row.triggered
        /\ row'.completed = row.completed /\ row'.recovered = row.recovered
        /\ row'.status = "error"
    BY <1>2, <1>6 DEF TickFails, Row, Reports
  <2>2. UNCHANGED <<run, shared, turns, proc, day, due>>
    BY <1>6 DEF TickFails
  <2>3. TypeOK'
    BY <1>1, <2>1, <2>2 DEF TypeOK
  <2>4. StatusOfLatest' /\ RunNamed'
    BY <1>1, <2>1, <2>2 DEF StatusOfLatest, RunNamed, Completed
  <2> QED
    BY <2>1, <2>2, <2>3, <2>4, PhaseInv
<1>7. CASE CatchUp
  BY <1>7, CatchUpInv
<1>8. CASE CatchUpFails
  BY <1>8, CatchUpFailsInv DEF CatchUpFails
<1>9. ASSUME NEW i \in Ids, Listen(i) PROVE Inv'
  <2>1. PICK t \in {i} \cup turns :
          /\ run' = [run EXCEPT ![i].phase = "streaming", ![i].turn = t]
          /\ turns' = turns \cup {t}
    BY <1>9 DEF Listen
  <2>2. /\ run[i].phase = "begun" /\ UNCHANGED <<row, shared, proc, day, due>>
    BY <1>9 DEF Listen
  <2>3. /\ run'[i].phase = "streaming" /\ run'[i].by = run[i].by /\ run'[i].slot = run[i].slot
        /\ run'[i].result = run[i].result
        /\ \A j \in Ids \ {i} : run'[j] = run[j]
    BY <1>2, <2>1 DEF Run
  <2>4. run' \in [Ids -> Run]
    <3>1. t \in Ids \cup {NoId, Other}
      BY <1>2, <2>1
    <3> DEFINE q == [run[i] EXCEPT !.phase = "streaming"]
    <3>2. q \in Run
      BY <1>2 DEF Run, InFlight
    <3>3. [q EXCEPT !.turn = t] \in Run
      <4> HIDE DEF q
      <4> QED
        BY <3>1, <3>2 DEF Run
    <3>4. run' = [run EXCEPT ![i] = [q EXCEPT !.turn = t]]
      BY <1>2, <2>1 DEF Run
    <3> QED
      BY <1>2, <3>3, <3>4
  <2>5. TypeOK'
    BY <1>1, <1>2, <2>1, <2>2, <2>4 DEF TypeOK
  <2>6. StatusOfLatest' /\ RunNamed'
    BY <1>1, <2>2, <2>3 DEF StatusOfLatest, RunNamed, InFlight
  <2> QED
    BY <2>2, <2>3, <2>5, <2>6, PhaseInv
<1>10. ASSUME NEW i \in Ids, Vanish(i) PROVE Inv'
  <2>1. /\ run[i].phase \in {"begun", "ended"}
        /\ run' = [run EXCEPT ![i].phase = "vanished"]
        /\ UNCHANGED <<row, shared, turns, proc, day, due>>
    BY <1>10 DEF Vanish
  <2>2. /\ run'[i].phase = "vanished" /\ run'[i].by = run[i].by /\ run'[i].slot = run[i].slot
        /\ run'[i].result = run[i].result
        /\ \A j \in Ids \ {i} : run'[j] = run[j]
    BY <1>2, <2>1 DEF Run
  <2>3. run' \in [Ids -> Run]
    BY <1>2, <2>1 DEF Run
  <2>4. TypeOK'
    BY <1>1, <2>1, <2>3 DEF TypeOK
  <2>5. StatusOfLatest' /\ RunNamed'
    BY <1>1, <2>1, <2>2 DEF StatusOfLatest, RunNamed
  <2> QED
    BY <2>1, <2>2, <2>4, <2>5, PhaseInv
<1>11. ASSUME NEW i \in Ids, NEW status \in Reports, Report(i, status) PROVE Inv'
  <2>1. /\ run[i].phase \in {"begun", "ended"} /\ row' = Stamped(row, i, status)
        /\ run' = [run EXCEPT ![i].phase = "over", ![i].result = status]
        /\ UNCHANGED <<shared, turns, proc, day, due>>
    BY <1>11 DEF Report
  <2>2. run[i].result \notin Completed
    BY <1>1, <2>1 DEF Quiet, Completed
  <2>3. /\ run'[i].phase = "over" /\ run'[i].result = status
        /\ run'[i].by = run[i].by /\ run'[i].slot = run[i].slot
        /\ \A j \in Ids \ {i} : run'[j] = run[j]
    BY <1>2, <2>1 DEF Run
  <2>4. run' \in [Ids -> Run]
    <3> DEFINE q == [run[i] EXCEPT !.phase = "over"]
    <3>1. q \in Run
      BY <1>2 DEF Run
    <3>2. [q EXCEPT !.result = status] \in Run
      <4> HIDE DEF q
      <4> QED
        BY <3>1 DEF Run
    <3>3. run' = [run EXCEPT ![i] = [q EXCEPT !.result = status]]
      BY <1>2, <2>1 DEF Run
    <3> QED
      BY <1>2, <3>2, <3>3
  <2> QED
    BY <1>2, <2>1, <2>2, <2>3, <2>4, StampInv
<1>12. ASSUME NEW status \in {"ok", "error"}, SettleRetry(status) PROVE Inv'
  <2>1. /\ row.status = "retrying" /\ row' = Stamped(row, row.id, status)
        /\ run' = [run EXCEPT ![row.id].result = status]
        /\ UNCHANGED <<shared, turns, proc, day, due>>
    BY <1>12 DEF SettleRetry
  <2>2. row.id \in Ids /\ run[row.id].result = "retrying" /\ run[row.id].phase = "over"
    BY <1>1, <2>1 DEF StatusOfLatest, Quiet
  <2>3. /\ run'[row.id].phase = "over" /\ run'[row.id].result = status
        /\ run'[row.id].by = run[row.id].by /\ run'[row.id].slot = run[row.id].slot
        /\ \A j \in Ids \ {row.id} : run'[j] = run[j]
    BY <1>2, <2>1, <2>2 DEF Run
  <2>4. status \in Reports /\ run[row.id].result \notin Completed
    BY <2>2 DEF Reports, Completed
  <2>5. run' \in [Ids -> Run]
    BY <1>2, <2>1, <2>2, <2>4 DEF Run
  <2> QED
    BY <1>2, <2>1, <2>2, <2>3, <2>4, <2>5, StampInv
<1>13. CASE ArchiveChat
  <2> DEFINE to == IF row.status = "retrying" THEN "error" ELSE "ok"
  <2>1. /\ row.status \in {"skipped", "retrying"}
        /\ row' = [row EXCEPT !.status = to] /\ run' = [run EXCEPT ![row.id].result = to]
        /\ UNCHANGED <<shared, turns, proc, day, due>>
    BY <1>13 DEF ArchiveChat
  <2>2. /\ row.id \in Ids /\ run[row.id].result = row.status /\ run[row.id].phase = "over"
        /\ row.status = "skipped" => to = "ok"
        /\ row.status = "retrying" => to = "error"
        /\ to \in {"ok", "error"}
    BY <1>1, <2>1 DEF StatusOfLatest, Quiet, Completed
  <2> HIDE DEF to
  <2>3. /\ row' \in Row /\ row'.id = row.id /\ row'.at = row.at /\ row'.triggered = row.triggered
        /\ row'.completed = row.completed /\ row'.recovered = row.recovered
        /\ row'.status = to
    BY <1>2, <2>1, <2>2 DEF Row, Reports, Completed
  <2>4. /\ run'[row.id].phase = "over" /\ run'[row.id].result = to
        /\ run'[row.id].by = run[row.id].by /\ run'[row.id].slot = run[row.id].slot
        /\ \A j \in Ids \ {row.id} : run'[j] = run[j]
    BY <1>2, <2>1, <2>2 DEF Run
  <2>5. run' \in [Ids -> Run]
    BY <1>2, <2>1, <2>2 DEF Run, Reports, Completed
  <2>6. /\ AutoStamped /\ Credited /\ CompletedEarned /\ RecoveredOnce
    BY DEF Inv
  <2>7. \A j \in Ids : /\ run'[j].by = run[j].by /\ run'[j].slot = run[j].slot
                       /\ run'[j].phase = run[j].phase
                       /\ run'[j].result \in Completed <=> run[j].result \in Completed
    BY <2>1, <2>2, <2>4 DEF Completed
  <2>8. TypeOK'
    BY <1>1, <2>1, <2>3, <2>5 DEF TypeOK
  <2>9. Quiet' /\ StatusOfLatest' /\ RunNamed'
    BY <1>1, <2>1, <2>2, <2>3, <2>4 DEF Quiet, StatusOfLatest, RunNamed
  <2>10. Bounded' /\ AutoStamped' /\ Credited' /\ CompletedEarned'
    BY <1>1, <2>1, <2>3, <2>6, <2>7 DEF Bounded, AutoStamped, Credited, CompletedEarned
  <2>11. RecoveredOnce'
    BY <2>6, <2>7 DEF RecoveredOnce
  <2> QED
    BY <2>8, <2>9, <2>10, <2>11 DEF Inv
<1>14. CASE OtherTurn
  <2>1. UNCHANGED <<row, run, shared, proc, day, due>> /\ turns' = {Other}
    BY <1>14 DEF OtherTurn
  <2>2. TypeOK'
    BY <1>1, <2>1 DEF TypeOK
  <2>3. StatusOfLatest' /\ RunNamed'
    BY <1>1, <2>1 DEF StatusOfLatest, RunNamed
  <2> QED
    BY <2>1, <2>2, <2>3, PhaseInv
<1>15. ASSUME NEW t \in Ids \cup {Other}, TurnEnds(t) PROVE Inv'
  <2>1. /\ turns' \subseteq turns /\ UNCHANGED <<row, shared, proc, day, due>>
        /\ run' = [i \in Ids |-> IF run[i].phase = "streaming" /\ run[i].turn = t
                                   THEN [run[i] EXCEPT !.phase = "ended"] ELSE run[i]]
    BY <1>15 DEF TurnEnds
  <2>2. \A j \in Ids : /\ run'[j].by = run[j].by /\ run'[j].slot = run[j].slot
                       /\ run'[j].result = run[j].result
                       /\ \/ run'[j].phase = run[j].phase
                          \/ run[j].phase = "streaming" /\ run'[j].phase = "ended"
                       /\ run'[j] \in Run
    <3> TAKE j \in Ids
    <3>1. CASE run[j].phase = "streaming" /\ run[j].turn = t
      <4>1. run'[j] = [run[j] EXCEPT !.phase = "ended"]
        BY <2>1, <3>1
      <4> QED
        BY <1>2, <3>1, <4>1 DEF Run, InFlight
    <3>2. CASE ~(run[j].phase = "streaming" /\ run[j].turn = t)
      BY <1>2, <2>1, <3>2
    <3> QED
      BY <3>1, <3>2
  <2>3. TypeOK'
    <3>1. run' \in [Ids -> Run]
      BY <2>1, <2>2
    <3> QED
      BY <1>1, <2>1, <3>1 DEF TypeOK
  <2>4. StatusOfLatest' /\ RunNamed'
    BY <1>1, <2>1, <2>2 DEF StatusOfLatest, RunNamed, InFlight
  <2> QED
    BY <2>1, <2>2, <2>3, <2>4, PhaseInv
<1>16. CASE Pass
  <2>1. UNCHANGED <<row, run, shared, turns, proc>> /\ day' \in {day, day + 1}
    BY <1>16 DEF Pass
  <2>2. day' \in Days
    BY <1>2, <1>16 DEF Pass, Days
  <2>3. due' \in BOOLEAN
    BY <1>16, Zenon DEF Pass
  <2>4. TypeOK'
    BY <1>1, <2>1, <2>2, <2>3 DEF TypeOK
  <2>5. StatusOfLatest' /\ RunNamed'
    BY <1>1, <2>1 DEF StatusOfLatest, RunNamed
  <2> QED
    BY <2>1, <2>4, <2>5, PhaseInv
<1>17. CASE Boot
  <2>1. /\ UNCHANGED <<row, run, shared, turns, day, due>>
        /\ proc' = [up |-> TRUE, caught |-> FALSE, owned |-> FALSE]
    BY <1>17 DEF Boot, Down
  <2>2. TypeOK'
    BY <1>1, <2>1 DEF TypeOK
  <2>3. StatusOfLatest' /\ RunNamed'
    BY <1>1, <2>1 DEF StatusOfLatest, RunNamed
  <2> QED
    BY <2>1, <2>2, <2>3, PhaseInv
<1>18. CASE Crash
  <2>1. /\ UNCHANGED <<row, shared, day, due>> /\ turns' = {}
        /\ proc' = [up |-> FALSE, caught |-> FALSE, owned |-> FALSE]
        /\ run' = [i \in Ids |-> IF run[i].phase \in InFlight
                                   THEN [run[i] EXCEPT !.phase = "dead"] ELSE run[i]]
    BY <1>18 DEF Crash, Down
  <2>2. \A j \in Ids : /\ run'[j].by = run[j].by /\ run'[j].slot = run[j].slot
                       /\ run'[j].result = run[j].result
                       /\ \/ run'[j].phase = run[j].phase
                          \/ run[j].phase \in InFlight /\ run'[j].phase = "dead"
                       /\ run'[j] \in Run
    <3> TAKE j \in Ids
    <3>1. CASE run[j].phase \in InFlight
      <4>1. run'[j] = [run[j] EXCEPT !.phase = "dead"]
        BY <2>1, <3>1
      <4> QED
        BY <1>2, <3>1, <4>1 DEF Run
    <3>2. CASE run[j].phase \notin InFlight
      BY <1>2, <2>1, <3>2
    <3> QED
      BY <3>1, <3>2
  <2>3. TypeOK'
    <3>1. run' \in [Ids -> Run]
      BY <2>1, <2>2
    <3> QED
      BY <1>1, <2>1, <3>1 DEF TypeOK
  <2>4. StatusOfLatest' /\ RunNamed'
    BY <1>1, <2>1, <2>2 DEF StatusOfLatest, RunNamed
  <2>5. \A j \in Ids : run[j].phase = "over" => run'[j].phase = "over"
    BY <2>2 DEF InFlight
  <2> QED
    BY <2>1, <2>2, <2>3, <2>4, <2>5, PhaseInv
<1>19. CASE UNCHANGED vars
  <2>1. UNCHANGED <<row, run, shared, turns, proc, day, due>>
    BY <1>19 DEF vars
  <2>2. TypeOK'
    BY <1>1, <2>1 DEF TypeOK
  <2>3. StatusOfLatest' /\ RunNamed'
    BY <1>1, <2>1 DEF StatusOfLatest, RunNamed
  <2> QED
    BY <2>1, <2>2, <2>3, PhaseInv
<1> QED
  BY <1>4, <1>5, <1>6, <1>7, <1>8, <1>9, <1>10, <1>11, <1>12, <1>13, <1>14, <1>15, <1>16, <1>17,
     <1>18, <1>19 DEF Next

-----------------------------------------------------------------------------
THEOREM SpecInv == Spec => []Inv
BY InitInv, StepInv, PTL DEF Spec

\* Every variable keeps its type.
THEOREM TypeCorrect == Spec => []TypeOK
<1>1. Inv => TypeOK
  BY DEF Inv
<1> QED
  BY <1>1, SpecInv, PTL

\* The status of a row is the outcome of its latest dispatch, whatever the order
\* in which overlapping runs report (stamp_run_outcome).
THEOREM StatusAlwaysLatest == Spec => []StatusOfLatest
<1>1. Inv => StatusOfLatest
  BY DEF Inv
<1> QED
  BY <1>1, SpecInv, PTL

\* A slot counts as served only by a completed run dispatched for it, also past
\* the next slot (the midnight rule of _begin_dispatch).
THEOREM CompletedAlwaysEarned == Spec => []CompletedEarned
<1>1. Inv => CompletedEarned
  BY DEF Inv
<1> QED
  BY <1>1, SpecInv, PTL

\* The process dispatches a slot at most once by itself and recovers it at most
\* once, through any restarts (tick and catch_up).
THEOREM RecoveredAtMostOnce == Spec => []RecoveredOnce
<1>1. Inv => RecoveredOnce
  BY DEF Inv
<1> QED
  BY <1>1, SpecInv, PTL

\* After the start-up pass no row waits for a run of a process that died
\* (reconcile_interrupted_runs).
THEOREM RunningAlwaysHere == Spec => []RunningIsHere
<1>1. Inv => RunningIsHere
  BY DEF Inv, RunNamed, RunningIsHere
<1> QED
  BY <1>1, SpecInv, PTL

\* The start-up pass never fires a slot that a completed run has served, or one
\* before it (catch_up with run_failed_since).
THEOREM ServedNeverReplayed == Spec => ServedNotReplayed
<1> DEFINE Fires == proc'.caught /\ ~proc.caught /\ row'.id # row.id
           Unserved == \A i \in Ids : run[i].result \in Completed => run[i].slot < day
<1>1. Inv /\ [Next]_vars => [Fires => Unserved]_vars
  <2> SUFFICES ASSUME Inv, Next, Fires PROVE Unserved
    BY DEF vars
  <2>1. row \in Row /\ proc \in [up : BOOLEAN, caught : BOOLEAN, owned : BOOLEAN]
    BY DEF Inv, TypeOK
  <2>2. CatchUp \/ CatchUpFails
    <3>1. proc' # proc /\ proc'.caught
      OBVIOUS
    <3>2. ~Tick /\ ~RunNow
      BY <2>1 DEF Tick, RunNow
    <3>3. ~Boot /\ ~Crash
      BY DEF Boot, Crash, Down
    <3> QED
      BY <3>1, <3>2, <3>3 DEF Next, TickFails, Listen, Vanish, Report, OtherTurn, TurnEnds,
         SettleRetry, ArchiveChat, Pass
  <2> DEFINE r == Reconciled(row)
  <2>3. r.id = row.id /\ r.completed = row.completed /\ r.at = row.at
    BY <2>1, ReconciledRow
  <2>4. CatchUp /\ (Recovering(r) \/ Missed(r))
    BY <2>2, <2>3 DEF CatchUp, CatchUpFails
  <2>5. row.completed < day \/ row.at < day
    BY <2>3, <2>4 DEF Recovering, Failed, Missed
  <2>6. /\ day \in Nat /\ row.at \in Nat /\ row.completed \in Nat
        /\ \A i \in Ids : run[i].slot \in Nat
    BY DEF Inv, TypeOK, Days, Row, Run
  <2>7. \A i \in Ids : /\ run[i].slot <= row.at
                       /\ run[i].result \in Completed => run[i].slot <= row.completed
    BY DEF Inv, Bounded, Credited
  <2> QED
    BY <2>5, <2>6, <2>7
<1> QED
  BY <1>1, SpecInv, PTL DEF Spec, ServedNotReplayed

-----------------------------------------------------------------------------
(* Rows that open a chat for each run                                      *)

\* A run listens to no turn but its own.
OwnTurn == ~shared => \A i \in Ids : run[i].turn \in {i, NoId}

LEMMA OwnTurnStep == TypeOK /\ OwnTurn /\ [Next]_vars => OwnTurn'
<1> SUFFICES ASSUME TypeOK, OwnTurn, [Next]_vars, ~shared' PROVE \A j \in Ids : run'[j].turn \in {j, NoId}
  BY DEF OwnTurn
<1>1. shared' = shared /\ run \in [Ids -> Run] /\ \A j \in Ids : run[j].turn \in {j, NoId}
  BY DEF TypeOK, OwnTurn, vars, Next, Tick, TickFails, RunNow, CatchUp, CatchUpFails, Listen, Vanish,
         Report, OtherTurn, TurnEnds, SettleRetry, ArchiveChat, Pass, Boot, Crash
<1>2. ASSUME NEW r, NEW by, NEW slot, Dispatch(r, by, slot)
      PROVE  \A j \in Ids : run'[j].turn \in {j, NoId}
  BY <1>1, <1>2 DEF Dispatch, Begun
<1>3. CASE Tick \/ RunNow
  BY <1>2, <1>3 DEF Tick, RunNow
<1>4. CASE CatchUp
  BY <1>1, <1>2, <1>4 DEF CatchUp
<1>5. ASSUME NEW i \in Ids, Listen(i) PROVE \A j \in Ids : run'[j].turn \in {j, NoId}
  <2>1. run' = [run EXCEPT ![i].phase = "streaming", ![i].turn = i]
    BY <1>1, <1>5 DEF Listen
  <2> QED
    BY <1>1, <2>1 DEF Run
<1>6. ASSUME NEW i \in Ids, Vanish(i) \/ \E status \in Reports : Report(i, status)
      PROVE  \A j \in Ids : run'[j].turn \in {j, NoId}
  BY <1>1, <1>6 DEF Vanish, Report, Run
<1>7. CASE Crash \/ \E t \in Ids \cup {Other} : TurnEnds(t)
  BY <1>1, <1>7 DEF Crash, TurnEnds, Run
<1>8. CASE ArchiveChat \/ \E status \in {"ok", "error"} : SettleRetry(status)
  BY <1>1, <1>8 DEF ArchiveChat, SettleRetry, Run
<1>9. CASE TickFails \/ CatchUpFails \/ OtherTurn \/ Pass \/ Boot \/ UNCHANGED vars
  BY <1>1, <1>9 DEF TickFails, CatchUpFails, OtherTurn, Pass, Boot, vars
<1> QED
  BY <1>3, <1>4, <1>5, <1>6, <1>7, <1>8, <1>9 DEF Next

\* A served slot had its own prompt run, or a command of it, on every row that
\* does not post into an existing chat: the turn of somebody else that a run finds
\* in its chat (start_stream returns it) is all that the claim fails by.
THEOREM AloneServedRan == Spec => [](~shared => ServedRan)
<1>1. Init => OwnTurn
  <2> SUFFICES ASSUME Init, NEW i \in Ids PROVE run[i].turn = NoId
    BY DEF OwnTurn
  <2>1. run[i] = Unused
    BY DEF Init
  <2> QED
    BY <2>1 DEF Unused
<1>2. Inv /\ OwnTurn => (~shared => ServedRan)
  BY DEF Inv, OwnTurn, CompletedEarned, ServedRan
<1>3. Inv => TypeOK
  BY DEF Inv
<1> QED
  BY <1>1, <1>2, <1>3, OwnTurnStep, SpecInv, PTL DEF Spec
=============================================================================
