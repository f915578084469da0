------------------------ MODULE TerminalSessionProofs ------------------------
(***************************************************************************)
(* Proofs about TerminalSession, for any sockets, ring, chunk and output.  *)
(* The manager's tasks and the stream of output are two invariants: what   *)
(* the stream needs of the manager is that an exited session has no reader.*)
(***************************************************************************)
EXTENDS TerminalSession, SequenceTheorems, TLAPS

ManagerOK ==
  /\ ses \in Session /\ (ses.exited => ses.gone)
  /\ shell \in {"none", "live"} /\ close \in {"none", "running", "done"}
  /\ task \in Tasks /\ late \in BOOLEAN

\* What has to have happened: a create before all else, a shell before its
\* reader, the end of the reader before an exit.
Order ==
  /\ task.creator = "none" =>
       /\ task.spawn = "none" /\ shell = "none" /\ ~ses.here
       /\ task.finish = "none" /\ task.finalize = "none"
  /\ task.spawn \in {"none", "thread"} => shell = "none" /\ task.reader = "off"
  /\ task.reader = "closing" => ses.gone
  /\ ses.exited => task.reader = "done"

\* Whoever removes a record or closes it has asked for its close before.
GivenUp ==
  /\ task.creator # "none" /\ ~ses.here => ses.closing
  /\ \A k \in Closers : task[k] # "none" => ses.closing
  /\ task.ender = "waiting" => ses.closing
  /\ ses.here /\ task.shutdown # "none" => ses.closing /\ task.listed
  /\ task.listed => task.shutdown # "none" /\ task.creator # "none"

\* A session that is out of the registry, or that a shutdown is past, has had its
\* closer started; and a shutdown clears the registry after the finalizer.
PastWaits == task.shutdown \notin {"none", "spawns"}
Cleared == task.shutdown \in {"join", "done", "left"}
Asked ==
  /\ task.ender = "waiting" => task.finish # "none"
  /\ task.creator # "none" /\ ~ses.here
       => task.finish # "none" \/ (task.creator = "back" /\ task.finalize # "none")
  /\ task.listed /\ PastWaits => task.finish # "none"
  /\ Cleared =>
       /\ ~ses.here
       /\ task.creator # "none" /\ task.finish = "none" => task.finalize = "done"

\* A closer that is past its wait for the spawn has seen the shell, unless
\* the wait ran out.
CloserSaw ==
  \A k \in Closers : task[k] \in {"close", "done"} =>
    /\ shell = "live" => close # "none"
    /\ ~late => SpawnDone
    /\ task[k] = "done" => close # "running" \/ late \/ shell = "none"

Through == PastWaits /\ ~late => SpawnDone

StreamOK ==
  /\ seq \in 0 .. MaxBytes /\ ring \in [0 .. Capacity - 1 -> 0 .. MaxBytes]
  /\ conn \in [Conns -> Socket]

\* What the ring still has to have is there.
RingTrue == \A k \in Oldest .. seq - 1 : ring[k % Capacity] = k

Unread == \A c \in Conns : conn[c].cursor <= seq

\* A client that was told of the exit has left the pump, and no output follows.
Told ==
  \A c \in Conns : conn[c].told =>
    conn[c].pc = "hangup" /\ ses.exited /\ conn[c].cursor = seq

\* The steps of the manager.
Manager ==
  \/ Create \/ CreateReturns \/ CreateCancelled \/ SpawnFails \/ Spawned \/ SpawnEnds
  \/ ReaderReads \/ ReaderEnds \/ ReaderCloses \/ ReaderStops \/ CloseReturns
  \/ End \/ EndReturns \/ EndCancelled \/ Elapse \/ Reap
  \/ \E k \in Closers : CloserCloses(k) \/ CloserEnds(k)
  \/ Shutdown \/ ShutdownCloses \/ ShutdownClears \/ ShutdownEnds

-----------------------------------------------------------------------------
LEMMA OverFields ==
  ASSUME NEW s \in Session
  PROVE  /\ Over(s) \in Session /\ Over(s).closing
         /\ Over(s).here = s.here /\ Over(s).gone = s.gone /\ Over(s).exited = s.exited
  BY DEF Over, Session

LEMMA GoneFields ==
  ASSUME NEW s \in Session
  PROVE  /\ ReaderGone(s) \in Session
         /\ ReaderGone(s).here = s.here /\ ReaderGone(s).closing = s.closing
         /\ ReaderGone(s).exited = (s.exited \/ task.reader \in {"poll", "closing"})
         /\ ReaderGone(s).gone = (s.gone \/ task.reader \in {"poll", "closing"})
  BY DEF ReaderGone, Session

LEMMA FinishingFields ==
  ASSUME NEW t \in Tasks, task \in Tasks
  PROVE  /\ Finishing(t) \in Tasks
         /\ Finishing(t).finish = IF t.finish = "none" THEN "spawn" ELSE t.finish
         /\ Finishing(t).reader = ReaderDone
         /\ Finishing(t).spawn = t.spawn /\ Finishing(t).creator = t.creator
         /\ Finishing(t).finalize = t.finalize /\ Finishing(t).ender = t.ender
         /\ Finishing(t).shutdown = t.shutdown /\ Finishing(t).listed = t.listed
<1>1. ReaderDone \in {"off", "done"}
  BY DEF ReaderDone
<1>2. CASE t.finish = "none"
  <2>1. Finishing(t) = [t EXCEPT !.finish = "spawn", !.reader = ReaderDone]
    BY <1>2 DEF Finishing
  <2>2. Finishing(t) \in Tasks
    BY <1>1, <2>1 DEF Tasks
  <2> QED BY <1>2, <2>1, <2>2 DEF Tasks
<1>3. CASE t.finish # "none"
  <2>1. Finishing(t) = [t EXCEPT !.reader = ReaderDone]
    BY <1>3 DEF Finishing, Tasks
  <2> QED BY <1>1, <1>3, <2>1 DEF Tasks
<1> QED BY <1>2, <1>3

LEMMA ReleasedFields ==
  ASSUME ManagerOK
  PROVE  /\ Released \in Session /\ Released.exited
         /\ Released.here = ses.here /\ Released.closing = ses.closing
         /\ Released.gone = ses.gone
<1>1. ses \in Session
  BY DEF ManagerOK
<1> DEFINE clock == IF ses.clock = "off" THEN "running" ELSE ses.clock
<1>2. Released = [ses EXCEPT !.last = ses.controller, !.controller = NoConn, !.exited = TRUE,
                             !.clock = clock]
  BY <1>1 DEF Released, Session
<1>3. clock \in {"off", "running", "due"}
  BY <1>1 DEF Session
<1> HIDE DEF clock
<1> QED BY <1>1, <1>2, <1>3 DEF Session

\* An abandoned create leaves a closed record out of the registry and a finalizer.
LEMMA AbandonFields ==
  ASSUME ManagerOK, Abandon
  PROVE  /\ ses' \in Session /\ task' \in Tasks
         /\ ~ses'.here /\ ses'.closing
         /\ ses'.exited = (ses.exited \/ task.reader \in {"poll", "closing"})
         /\ ses'.gone = (ses.gone \/ task.reader \in {"poll", "closing"})
         /\ task'.creator = "back" /\ task'.finalize = "spawn" /\ task'.reader = ReaderDone
         /\ task'.spawn = task.spawn /\ task'.finish = task.finish
         /\ task'.ender = task.ender /\ task'.shutdown = task.shutdown /\ task'.listed = task.listed
<1> DEFINE out == [ses EXCEPT !.here = FALSE]
<1>1. out \in Session /\ ~out.here /\ out.exited = ses.exited /\ out.gone = ses.gone
  BY DEF ManagerOK, Session
<1>2. ses' = ReaderGone(Over(out))
  BY DEF Abandon
<1> HIDE DEF out
<1>3. /\ ses' \in Session /\ ~ses'.here /\ ses'.closing
      /\ ses'.exited = (ses.exited \/ task.reader \in {"poll", "closing"})
      /\ ses'.gone = (ses.gone \/ task.reader \in {"poll", "closing"})
  BY <1>1, <1>2, OverFields, GoneFields
<1>4. /\ task' \in Tasks
      /\ task'.creator = "back" /\ task'.finalize = "spawn" /\ task'.reader = ReaderDone
      /\ task'.spawn = task.spawn /\ task'.finish = task.finish
      /\ task'.ender = task.ender /\ task'.shutdown = task.shutdown /\ task'.listed = task.listed
  BY DEF Abandon, ManagerOK, Tasks, ReaderDone
<1> QED BY <1>3, <1>4

LEMMA EndFields ==
  ASSUME ManagerOK, End
  PROVE  /\ ses' \in Session /\ task' \in Tasks
         /\ ses'.here = ses.here /\ ses'.closing
         /\ ses'.exited = (ses.exited \/ task.reader \in {"poll", "closing"})
         /\ ses'.gone = (ses.gone \/ task.reader \in {"poll", "closing"})
         /\ task'.creator = task.creator /\ task'.finalize = task.finalize
         /\ task'.reader = ReaderDone /\ task'.spawn = task.spawn
         /\ task'.finish = IF task.finish = "none" THEN "spawn" ELSE task.finish
         /\ task'.ender = "waiting" /\ task'.shutdown = task.shutdown /\ task'.listed = task.listed
<1> DEFINE t == [task EXCEPT !.ender = "waiting"]
<1>1. /\ t \in Tasks /\ t.finish = task.finish /\ t.spawn = task.spawn /\ t.ender = "waiting"
      /\ t.creator = task.creator /\ t.finalize = task.finalize /\ t.shutdown = task.shutdown
      /\ t.listed = task.listed
  BY DEF ManagerOK, Tasks
<1>2. ses' = ReaderGone(Over(ses)) /\ task' = Finishing(t) /\ ses \in Session /\ task \in Tasks
  BY DEF End, ManagerOK
<1> HIDE DEF t
<1>3. /\ ses' \in Session /\ ses'.here = ses.here /\ ses'.closing
      /\ ses'.exited = (ses.exited \/ task.reader \in {"poll", "closing"})
      /\ ses'.gone = (ses.gone \/ task.reader \in {"poll", "closing"})
  BY <1>2, OverFields, GoneFields
<1>4. /\ task' \in Tasks
      /\ task'.creator = task.creator /\ task'.finalize = task.finalize
      /\ task'.reader = ReaderDone /\ task'.spawn = task.spawn
      /\ task'.finish = IF task.finish = "none" THEN "spawn" ELSE task.finish
      /\ task'.ender = "waiting" /\ task'.shutdown = task.shutdown /\ task'.listed = task.listed
  BY <1>1, <1>2, FinishingFields
<1> QED BY <1>3, <1>4

LEMMA ReapFields ==
  ASSUME ManagerOK, Reap
  PROVE  /\ ses' \in Session /\ task' \in Tasks
         /\ ~ses'.here /\ ses'.closing
         /\ ses'.exited = (ses.exited \/ task.reader \in {"poll", "closing"})
         /\ ses'.gone = (ses.gone \/ task.reader \in {"poll", "closing"})
         /\ task'.creator = task.creator /\ task'.finalize = task.finalize
         /\ task'.reader = ReaderDone /\ task'.spawn = task.spawn
         /\ task'.finish = IF task.finish = "none" THEN "spawn" ELSE task.finish
         /\ task'.ender = task.ender /\ task'.shutdown = task.shutdown /\ task'.listed = task.listed
<1> DEFINE out == [ses EXCEPT !.here = FALSE]
<1>1. out \in Session /\ ~out.here /\ out.exited = ses.exited /\ out.gone = ses.gone
  BY DEF ManagerOK, Session
<1>2. ses' = ReaderGone(Over(out)) /\ task' = Finishing(task) /\ task \in Tasks
  BY DEF Reap, ManagerOK
<1> HIDE DEF out
<1>3. /\ ses' \in Session /\ ~ses'.here /\ ses'.closing
      /\ ses'.exited = (ses.exited \/ task.reader \in {"poll", "closing"})
      /\ ses'.gone = (ses.gone \/ task.reader \in {"poll", "closing"})
  BY <1>1, <1>2, OverFields, GoneFields
<1> QED BY <1>2, <1>3, FinishingFields

LEMMA ShutdownFields ==
  ASSUME ManagerOK, ShutdownCloses, task.listed
  PROVE  /\ ses' \in Session /\ task' \in Tasks
         /\ ses'.here = ses.here /\ ses'.closing = ses.closing
         /\ ses'.exited = (ses.exited \/ task.reader \in {"poll", "closing"})
         /\ ses'.gone = (ses.gone \/ task.reader \in {"poll", "closing"})
         /\ task'.creator = task.creator /\ task'.finalize = task.finalize
         /\ task'.reader = ReaderDone /\ task'.spawn = task.spawn
         /\ task'.finish = IF task.finish = "none" THEN "spawn" ELSE task.finish
         /\ task'.ender = task.ender /\ task'.shutdown = "finish" /\ task'.listed = task.listed
<1> DEFINE t == [task EXCEPT !.shutdown = "finish"]
<1>1. /\ t \in Tasks /\ t.finish = task.finish /\ t.spawn = task.spawn /\ t.ender = task.ender
      /\ t.creator = task.creator /\ t.finalize = task.finalize /\ t.shutdown = "finish"
      /\ t.listed = task.listed
  BY DEF ManagerOK, Tasks
<1>2. ses' = ReaderGone(ses) /\ task' = Finishing(t) /\ ses \in Session /\ task \in Tasks
  BY DEF ShutdownCloses, ManagerOK
<1> HIDE DEF t
<1>3. /\ ses' \in Session /\ ses'.here = ses.here /\ ses'.closing = ses.closing
      /\ ses'.exited = (ses.exited \/ task.reader \in {"poll", "closing"})
      /\ ses'.gone = (ses.gone \/ task.reader \in {"poll", "closing"})
  BY <1>2, GoneFields
<1>4. /\ task' \in Tasks
      /\ task'.creator = task.creator /\ task'.finalize = task.finalize
      /\ task'.reader = ReaderDone /\ task'.spawn = task.spawn
      /\ task'.finish = IF task.finish = "none" THEN "spawn" ELSE task.finish
      /\ task'.ender = task.ender /\ task'.shutdown = "finish" /\ task'.listed = task.listed
  BY <1>1, <1>2, FinishingFields
<1> QED BY <1>3, <1>4

\* Types of the manager's state.
LEMMA ManagerType ==
  ASSUME ManagerOK, Order, Manager
  PROVE  ManagerOK'
<1>1. CASE Create
  BY <1>1 DEF Create, ManagerOK, Session, Tasks, Closers
<1>2. CASE CreateReturns
  <2>1. CASE Abandon
    BY <1>2, <2>1, AbandonFields DEF CreateReturns, ManagerOK
  <2>2. CASE ses' = ses /\ task' = [task EXCEPT !.creator = "back"]
    BY <1>2, <2>2 DEF CreateReturns, ManagerOK, Tasks
  <2> QED BY <1>2, <2>1, <2>2 DEF CreateReturns
<1>3. CASE CreateCancelled
  BY <1>3, AbandonFields DEF CreateCancelled, ManagerOK
<1>4. CASE SpawnFails
  BY <1>4 DEF SpawnFails, ManagerOK, Session, Tasks, Closers
<1>5. CASE Spawned
  <2>1. CASE ses.closing \/ task.shutdown # "none"
    BY <1>5, <2>1 DEF Spawned, ManagerOK, Tasks
  <2>2. CASE ~(ses.closing \/ task.shutdown # "none")
    BY <1>5, <2>2 DEF Spawned, ManagerOK, Tasks
  <2> QED BY <2>1, <2>2
<1>6. CASE SpawnEnds
  BY <1>6 DEF SpawnEnds, ManagerOK, Session, Tasks, Closers
<1>7. CASE ReaderReads
  BY <1>7 DEF ReaderReads, manager, ManagerOK, Session, Tasks, Closers
<1>8. CASE ReaderEnds
  BY <1>8 DEF ReaderEnds, Closed, ManagerOK, Session, Tasks, Closers
<1>9. CASE ReaderCloses
  BY <1>9, ReleasedFields DEF ReaderCloses, ManagerOK, Order, Tasks
<1>10. CASE ReaderStops
  BY <1>10 DEF ReaderStops, ReaderGone, ManagerOK, Session, Tasks, Closers
<1>11. CASE CloseReturns
  BY <1>11 DEF CloseReturns, ManagerOK, Session, Tasks, Closers
<1>12. CASE End
  BY <1>12, EndFields DEF End, ManagerOK
<1>13. CASE EndReturns
  BY <1>13 DEF EndReturns, ManagerOK, Session, Tasks, Closers
<1>14. CASE EndCancelled
  BY <1>14 DEF EndCancelled, ManagerOK, Session, Tasks, Closers
<1>15. CASE Elapse
  BY <1>15 DEF Elapse, ManagerOK, Session, Tasks, Closers
<1>16. CASE Reap
  BY <1>16, ReapFields DEF Reap, ManagerOK
<1>17. ASSUME NEW k \in Closers, CloserCloses(k) PROVE ManagerOK'
  BY <1>17 DEF CloserCloses, Closed, ManagerOK, Session, Tasks, Closers
<1>18. ASSUME NEW k \in Closers, CloserEnds(k) PROVE ManagerOK'
  BY <1>18 DEF CloserEnds, ManagerOK, Session, Tasks, Closers
<1>19. CASE Shutdown
  BY <1>19 DEF Shutdown, Over, ManagerOK, Session, Tasks, Closers
<1>20. CASE ShutdownCloses
  <2>1. CASE task.listed
    BY <1>20, <2>1, ShutdownFields DEF ShutdownCloses, ManagerOK
  <2>2. CASE ~task.listed
    BY <1>20, <2>2 DEF ShutdownCloses, ManagerOK, Tasks
  <2> QED BY <2>1, <2>2
<1>21. CASE ShutdownEnds
  BY <1>21 DEF ShutdownEnds, Joined, ManagerOK, Session, Tasks, Closers
<1>22. CASE ShutdownClears
  BY <1>22 DEF ShutdownClears, Joined, ManagerOK, Session, Tasks, Closers
<1> QED BY <1>1, <1>2, <1>3, <1>4, <1>5, <1>6, <1>7, <1>8, <1>9, <1>10, <1>11, <1>12, <1>13, <1>14, <1>15, <1>16, <1>17, <1>18, <1>19, <1>20, <1>21, <1>22 DEF Manager


LEMMA OrderStep ==
  ASSUME ManagerOK, Order, GivenUp, Manager
  PROVE  Order'
<1>1. CASE Create
  BY <1>1 DEF Create, ManagerOK, Session, Tasks, Closers, Order
<1>2. CASE CreateReturns
  <2>1. CASE Abandon
    BY <1>2, <2>1, AbandonFields DEF CreateReturns, ManagerOK, ReaderDone, Order
  <2>2. CASE ses' = ses /\ task' = [task EXCEPT !.creator = "back"]
    BY <1>2, <2>2 DEF CreateReturns, ManagerOK, Tasks, Order
  <2> QED BY <1>2, <2>1, <2>2 DEF CreateReturns
<1>3. CASE CreateCancelled
  BY <1>3, AbandonFields DEF CreateCancelled, ManagerOK, ReaderDone, Order
<1>4. CASE SpawnFails
  BY <1>4 DEF SpawnFails, ManagerOK, Session, Tasks, Closers, Order
<1>5. CASE Spawned
  <2>1. CASE ses.closing \/ task.shutdown # "none"
    BY <1>5, <2>1 DEF Spawned, ManagerOK, Tasks, Order
  <2>2. CASE ~(ses.closing \/ task.shutdown # "none")
    BY <1>5, <2>2 DEF Spawned, ManagerOK, Tasks, Order
  <2> QED BY <2>1, <2>2
<1>6. CASE SpawnEnds
  BY <1>6 DEF SpawnEnds, ManagerOK, Session, Tasks, Closers, Order
<1>7. CASE ReaderReads
  BY <1>7 DEF ReaderReads, manager, ManagerOK, Session, Tasks, Closers, Order
<1>8. CASE ReaderEnds
  BY <1>8 DEF ReaderEnds, Closed, ManagerOK, Session, Tasks, Closers, Order
<1>9. CASE ReaderCloses
  BY <1>9, ReleasedFields DEF ReaderCloses, ManagerOK, Tasks, Order
<1>10. CASE ReaderStops
  BY <1>10 DEF ReaderStops, ReaderGone, ManagerOK, Session, Tasks, Closers, Order
<1>11. CASE CloseReturns
  BY <1>11 DEF CloseReturns, ManagerOK, Session, Tasks, Closers, Order
<1>12. CASE End
  BY <1>12, EndFields DEF End, ManagerOK, ReaderDone, Order
<1>13. CASE EndReturns
  BY <1>13 DEF EndReturns, ManagerOK, Session, Tasks, Closers, Order
<1>14. CASE EndCancelled
  BY <1>14 DEF EndCancelled, ManagerOK, Session, Tasks, Closers, Order
<1>15. CASE Elapse
  BY <1>15 DEF Elapse, ManagerOK, Session, Tasks, Closers, Order
<1>16. CASE Reap
  BY <1>16, ReapFields DEF Reap, ManagerOK, ReaderDone, Order
<1>17. ASSUME NEW k \in Closers, CloserCloses(k) PROVE Order'
  BY <1>17 DEF CloserCloses, Closed, ManagerOK, Session, Tasks, Closers, Order
<1>18. ASSUME NEW k \in Closers, CloserEnds(k) PROVE Order'
  BY <1>18 DEF CloserEnds, ManagerOK, Session, Tasks, Closers, Order
<1>19. CASE Shutdown
  BY <1>19 DEF Shutdown, Over, ManagerOK, Session, Tasks, Closers, Order
<1>20. CASE ShutdownCloses
  <2>1. CASE task.listed
    <3>1. /\ UNCHANGED <<shell, close>> /\ task'.creator = task.creator /\ ses'.here = ses.here
          /\ task'.finalize = task.finalize /\ task'.spawn = task.spawn
          /\ task'.reader = ReaderDone /\ task.creator # "none"
          /\ ses'.exited = (ses.exited \/ task.reader \in {"poll", "closing"})
      BY <1>20, <2>1, ShutdownFields DEF ShutdownCloses, GivenUp
    <3> QED BY <3>1 DEF ReaderDone, Order, ManagerOK, Tasks
  <2>2. CASE ~task.listed
    BY <1>20, <2>2 DEF ShutdownCloses, ManagerOK, Tasks, Order
  <2> QED BY <2>1, <2>2
<1>21. CASE ShutdownEnds
  BY <1>21 DEF ShutdownEnds, Joined, ManagerOK, Session, Tasks, Closers, Order
<1>22. CASE ShutdownClears
  BY <1>22 DEF ShutdownClears, Joined, ManagerOK, Session, Tasks, Closers, Order
<1> QED BY <1>1, <1>2, <1>3, <1>4, <1>5, <1>6, <1>7, <1>8, <1>9, <1>10, <1>11, <1>12, <1>13, <1>14, <1>15, <1>16, <1>17, <1>18, <1>19, <1>20, <1>21, <1>22 DEF Manager


LEMMA GivenUpStep ==
  ASSUME ManagerOK, Order, GivenUp, Manager
  PROVE  GivenUp'
<1>1. CASE Create
  BY <1>1 DEF Create, ManagerOK, Session, Tasks, Closers, Order, GivenUp
<1>2. CASE CreateReturns
  <2>1. CASE Abandon
    BY <1>2, <2>1, AbandonFields DEF CreateReturns, ManagerOK, ReaderDone, Order, GivenUp, Closers
  <2>2. CASE ses' = ses /\ task' = [task EXCEPT !.creator = "back"]
    BY <1>2, <2>2 DEF CreateReturns, ManagerOK, Tasks, Order, GivenUp, Closers
  <2> QED BY <1>2, <2>1, <2>2 DEF CreateReturns
<1>3. CASE CreateCancelled
  BY <1>3, AbandonFields DEF CreateCancelled, ManagerOK, ReaderDone, Order, GivenUp, Closers
<1>4. CASE SpawnFails
  BY <1>4 DEF SpawnFails, ManagerOK, Session, Tasks, Closers, Order, GivenUp
<1>5. CASE Spawned
  <2>1. CASE ses.closing \/ task.shutdown # "none"
    BY <1>5, <2>1 DEF Spawned, ManagerOK, Tasks, GivenUp, Closers
  <2>2. CASE ~(ses.closing \/ task.shutdown # "none")
    BY <1>5, <2>2 DEF Spawned, ManagerOK, Tasks, GivenUp, Closers
  <2> QED BY <2>1, <2>2
<1>6. CASE SpawnEnds
  BY <1>6 DEF SpawnEnds, ManagerOK, Session, Tasks, Closers, Order, GivenUp
<1>7. CASE ReaderReads
  BY <1>7 DEF ReaderReads, manager, ManagerOK, Session, Tasks, Closers, Order, GivenUp
<1>8. CASE ReaderEnds
  BY <1>8 DEF ReaderEnds, Closed, ManagerOK, Session, Tasks, Closers, Order, GivenUp
<1>9. CASE ReaderCloses
  BY <1>9, ReleasedFields DEF ReaderCloses, ManagerOK, Tasks, Order, GivenUp, Closers
<1>10. CASE ReaderStops
  BY <1>10 DEF ReaderStops, ReaderGone, ManagerOK, Session, Tasks, Closers, Order, GivenUp
<1>11. CASE CloseReturns
  BY <1>11 DEF CloseReturns, ManagerOK, Session, Tasks, Closers, Order, GivenUp
<1>12. CASE End
  BY <1>12, EndFields DEF End, ManagerOK, ReaderDone, Order, GivenUp, Closers
<1>13. CASE EndReturns
  BY <1>13 DEF EndReturns, ManagerOK, Session, Tasks, Closers, Order, GivenUp
<1>14. CASE EndCancelled
  BY <1>14 DEF EndCancelled, ManagerOK, Session, Tasks, Closers, Order, GivenUp
<1>15. CASE Elapse
  BY <1>15 DEF Elapse, ManagerOK, Session, Tasks, Closers, Order, GivenUp
<1>16. CASE Reap
  BY <1>16, ReapFields DEF Reap, ManagerOK, ReaderDone, Order, GivenUp, Closers
<1>17. ASSUME NEW k \in Closers, CloserCloses(k) PROVE GivenUp'
  BY <1>17 DEF CloserCloses, Closed, ManagerOK, Session, Tasks, Closers, Order, GivenUp
<1>18. ASSUME NEW k \in Closers, CloserEnds(k) PROVE GivenUp'
  BY <1>18 DEF CloserEnds, ManagerOK, Session, Tasks, Closers, Order, GivenUp
<1>19. CASE Shutdown
  BY <1>19 DEF Shutdown, Over, ManagerOK, Session, Tasks, Closers, Order, GivenUp
<1>20. CASE ShutdownCloses
  <2>1. CASE task.listed
    BY <1>20, <2>1, ShutdownFields DEF ShutdownCloses, ManagerOK, ReaderDone, Order, GivenUp, Closers
  <2>2. CASE ~task.listed
    BY <1>20, <2>2 DEF ShutdownCloses, ManagerOK, Tasks, Order, GivenUp, Closers
  <2> QED BY <2>1, <2>2
<1>21. CASE ShutdownEnds
  BY <1>21 DEF ShutdownEnds, Joined, ManagerOK, Session, Tasks, Closers, Order, GivenUp
<1>22. CASE ShutdownClears
  BY <1>22 DEF ShutdownClears, Joined, ManagerOK, Session, Tasks, Closers, Order, GivenUp
<1> QED BY <1>1, <1>2, <1>3, <1>4, <1>5, <1>6, <1>7, <1>8, <1>9, <1>10, <1>11, <1>12, <1>13, <1>14, <1>15, <1>16, <1>17, <1>18, <1>19, <1>20, <1>21, <1>22 DEF Manager


LEMMA AskedStep ==
  ASSUME ManagerOK, Order, GivenUp, Asked, Manager
  PROVE  Asked'
<1>1. CASE Create
  BY <1>1 DEF Create, ManagerOK, Session, Tasks, Order, GivenUp, Asked, PastWaits, Cleared, Closers
<1>2. CASE CreateReturns
  <2>1. CASE Abandon
    BY <1>2, <2>1, AbandonFields DEF CreateReturns, ManagerOK, ReaderDone, Order, GivenUp, Asked, PastWaits, Cleared, Closers
  <2>2. CASE ses' = ses /\ task' = [task EXCEPT !.creator = "back"]
    BY <1>2, <2>2 DEF CreateReturns, ManagerOK, Tasks, Order, GivenUp, Asked, PastWaits, Cleared, Closers
  <2> QED BY <1>2, <2>1, <2>2 DEF CreateReturns
<1>3. CASE CreateCancelled
  BY <1>3, AbandonFields DEF CreateCancelled, ManagerOK, ReaderDone, Order, GivenUp, Asked, PastWaits, Cleared, Closers
<1>4. CASE SpawnFails
  BY <1>4 DEF SpawnFails, ManagerOK, Session, Tasks, Order, GivenUp, Asked, PastWaits, Cleared, Closers
<1>5. CASE Spawned
  <2>1. CASE ses.closing \/ task.shutdown # "none"
    BY <1>5, <2>1 DEF Spawned, ManagerOK, Tasks, Order, GivenUp, Asked, PastWaits, Cleared, Closers
  <2>2. CASE ~(ses.closing \/ task.shutdown # "none")
    BY <1>5, <2>2 DEF Spawned, ManagerOK, Tasks, Order, GivenUp, Asked, PastWaits, Cleared, Closers
  <2> QED BY <2>1, <2>2
<1>6. CASE SpawnEnds
  BY <1>6 DEF SpawnEnds, ManagerOK, Session, Tasks, Order, GivenUp, Asked, PastWaits, Cleared, Closers
<1>7. CASE ReaderReads
  BY <1>7 DEF ReaderReads, manager, ManagerOK, Session, Tasks, Order, GivenUp, Asked, PastWaits, Cleared, Closers
<1>8. CASE ReaderEnds
  BY <1>8 DEF ReaderEnds, Closed, ManagerOK, Session, Tasks, Order, GivenUp, Asked, PastWaits, Cleared, Closers
<1>9. CASE ReaderCloses
  BY <1>9, ReleasedFields DEF ReaderCloses, ManagerOK, Tasks, Order, GivenUp, Asked, PastWaits, Cleared, Closers
<1>10. CASE ReaderStops
  BY <1>10 DEF ReaderStops, ReaderGone, ManagerOK, Session, Tasks, Order, GivenUp, Asked, PastWaits, Cleared, Closers
<1>11. CASE CloseReturns
  BY <1>11 DEF CloseReturns, ManagerOK, Session, Tasks, Order, GivenUp, Asked, PastWaits, Cleared, Closers
<1>12. CASE End
  BY <1>12, EndFields DEF End, ManagerOK, ReaderDone, Order, GivenUp, Asked, PastWaits, Cleared, Closers
<1>13. CASE EndReturns
  BY <1>13 DEF EndReturns, ManagerOK, Session, Tasks, Order, GivenUp, Asked, PastWaits, Cleared, Closers
<1>14. CASE EndCancelled
  BY <1>14 DEF EndCancelled, ManagerOK, Session, Tasks, Order, GivenUp, Asked, PastWaits, Cleared, Closers
<1>15. CASE Elapse
  BY <1>15 DEF Elapse, ManagerOK, Session, Tasks, Order, GivenUp, Asked, PastWaits, Cleared, Closers
<1>16. CASE Reap
  BY <1>16, ReapFields DEF Reap, ManagerOK, ReaderDone, Order, GivenUp, Asked, PastWaits, Cleared, Closers
<1>17. ASSUME NEW k \in Closers, CloserCloses(k) PROVE Asked'
  BY <1>17 DEF CloserCloses, Closed, ManagerOK, Session, Tasks, Order, GivenUp, Asked, PastWaits, Cleared, Closers
<1>18. ASSUME NEW k \in Closers, CloserEnds(k) PROVE Asked'
  BY <1>18 DEF CloserEnds, ManagerOK, Session, Tasks, Order, GivenUp, Asked, PastWaits, Cleared, Closers
<1>19. CASE Shutdown
  BY <1>19 DEF Shutdown, Over, ManagerOK, Session, Tasks, Order, GivenUp, Asked, PastWaits, Cleared, Closers
<1>20. CASE ShutdownCloses
  <2>1. CASE task.listed
    BY <1>20, <2>1, ShutdownFields DEF ShutdownCloses, ManagerOK, ReaderDone, Order, GivenUp, Asked, PastWaits, Cleared, Closers
  <2>2. CASE ~task.listed
    BY <1>20, <2>2 DEF ShutdownCloses, ManagerOK, Tasks, Order, GivenUp, Asked, PastWaits, Cleared, Closers
  <2> QED BY <2>1, <2>2
<1>21. CASE ShutdownEnds
  BY <1>21 DEF ShutdownEnds, Joined, ManagerOK, Session, Tasks, Order, GivenUp, Asked, PastWaits, Cleared, Closers
<1>22. CASE ShutdownClears
  BY <1>22 DEF ShutdownClears, Joined, ManagerOK, Session, Tasks, Order, GivenUp, Asked, PastWaits, Cleared, Closers
<1> QED BY <1>1, <1>2, <1>3, <1>4, <1>5, <1>6, <1>7, <1>8, <1>9, <1>10, <1>11, <1>12, <1>13, <1>14, <1>15, <1>16, <1>17, <1>18, <1>19, <1>20, <1>21, <1>22 DEF Manager


\* A step that moves no closer on, nor the shell, its close or its spawn.
LEMMA CloserKept ==
  ASSUME CloserSaw, Through, UNCHANGED <<shell, close, late>>, task'.spawn = task.spawn,
         task'.finish \in {"close", "done"} => task'.finish = task.finish,
         task'.finalize \in {"close", "done"} => task'.finalize = task.finalize,
         task'.shutdown = task.shutdown
  PROVE  (CloserSaw /\ Through)'
<1>1. CloserSaw'
  BY DEF CloserSaw, SpawnDone, Closers
<1>2. Through'
  BY DEF Through, PastWaits, SpawnDone
<1> QED BY <1>1, <1>2

LEMMA CloserStep ==
  ASSUME ManagerOK, Order, GivenUp, CloserSaw, Through, Manager
  PROVE  (CloserSaw /\ Through)'
<1>1. CASE Create
  BY <1>1 DEF Create, ManagerOK, Session, Tasks, Closers, Order, GivenUp, CloserSaw, Through, PastWaits, SpawnDone
<1>2. CASE CreateReturns
  <2>1. CASE Abandon
    BY <1>2, <2>1, AbandonFields, CloserKept DEF CreateReturns
  <2>2. CASE ses' = ses /\ task' = [task EXCEPT !.creator = "back"]
    BY <1>2, <2>2, CloserKept DEF CreateReturns, ManagerOK, Tasks
  <2> QED BY <1>2, <2>1, <2>2 DEF CreateReturns
<1>3. CASE CreateCancelled
  BY <1>3, AbandonFields, CloserKept DEF CreateCancelled
<1>4. CASE SpawnFails
  BY <1>4 DEF SpawnFails, ManagerOK, Session, Tasks, Closers, Order, GivenUp, CloserSaw, Through, PastWaits, SpawnDone
<1>5. CASE Spawned
  <2>1. CASE ses.closing \/ task.shutdown # "none"
    BY <1>5, <2>1 DEF Spawned, ManagerOK, Tasks, Order, GivenUp, CloserSaw, Through, PastWaits, Closers, SpawnDone
  <2>2. CASE ~(ses.closing \/ task.shutdown # "none")
    BY <1>5, <2>2 DEF Spawned, ManagerOK, Tasks, Order, GivenUp, CloserSaw, Through, PastWaits, Closers, SpawnDone
  <2> QED BY <2>1, <2>2
<1>6. CASE SpawnEnds
  BY <1>6 DEF SpawnEnds, ManagerOK, Session, Tasks, Closers, Order, GivenUp, CloserSaw, Through, PastWaits, SpawnDone
<1>7. CASE ReaderReads
  BY <1>7 DEF ReaderReads, manager, ManagerOK, Session, Tasks, Closers, Order, GivenUp, CloserSaw, Through, PastWaits, SpawnDone
<1>8. CASE ReaderEnds
  BY <1>8 DEF ReaderEnds, Closed, ManagerOK, Session, Tasks, Closers, Order, GivenUp, CloserSaw, Through, PastWaits, SpawnDone
<1>9. CASE ReaderCloses
  BY <1>9, CloserKept DEF ReaderCloses, ManagerOK, Tasks
<1>10. CASE ReaderStops
  BY <1>10, CloserKept DEF ReaderStops, ManagerOK, Tasks
<1>11. CASE CloseReturns
  BY <1>11 DEF CloseReturns, ManagerOK, Session, Tasks, Closers, Order, GivenUp, CloserSaw, Through, PastWaits, SpawnDone
<1>12. CASE End
  BY <1>12, EndFields, CloserKept DEF End
<1>13. CASE EndReturns
  BY <1>13, CloserKept DEF EndReturns, ManagerOK, Tasks
<1>14. CASE EndCancelled
  BY <1>14, CloserKept DEF EndCancelled, ManagerOK, Tasks
<1>15. CASE Elapse
  BY <1>15, CloserKept DEF Elapse, ManagerOK, Tasks
<1>16. CASE Reap
  BY <1>16, ReapFields, CloserKept DEF Reap
<1>17. ASSUME NEW k \in Closers, CloserCloses(k) PROVE (CloserSaw /\ Through)'
  BY <1>17 DEF CloserCloses, Closed, ManagerOK, Session, Tasks, Closers, Order, GivenUp, CloserSaw, Through, PastWaits, SpawnDone
<1>18. ASSUME NEW k \in Closers, CloserEnds(k) PROVE (CloserSaw /\ Through)'
  BY <1>18 DEF CloserEnds, ManagerOK, Session, Tasks, Closers, Order, GivenUp, CloserSaw, Through, PastWaits, SpawnDone
<1>19. CASE Shutdown
  BY <1>19 DEF Shutdown, Over, ManagerOK, Session, Tasks, Closers, Order, GivenUp, CloserSaw, Through, PastWaits, SpawnDone
<1>20. CASE ShutdownCloses
  <2>1. CASE task.listed
    BY <1>20, <2>1, ShutdownFields DEF ShutdownCloses, ManagerOK, ReaderDone, Order, GivenUp, CloserSaw, Through, PastWaits, Closers, SpawnDone
  <2>2. CASE ~task.listed
    <3>1. /\ UNCHANGED <<shell, close>> /\ late' = (late \/ ~SpawnDone)
          /\ task'.spawn = task.spawn /\ task'.finish = task.finish
          /\ task'.finalize = task.finalize
      BY <1>20, <2>2 DEF ShutdownCloses, ManagerOK, Tasks
    <3>2. CloserSaw'
      BY <3>1 DEF CloserSaw, Closers, SpawnDone
    <3>3. Through'
      BY <3>1 DEF Through, SpawnDone
    <3> QED BY <3>2, <3>3
  <2> QED BY <2>1, <2>2
<1>21. CASE ShutdownEnds
  BY <1>21 DEF ShutdownEnds, Joined, ManagerOK, Session, Tasks, Closers, Order, GivenUp, CloserSaw, Through, PastWaits, SpawnDone
<1>22. CASE ShutdownClears
  BY <1>22 DEF ShutdownClears, Joined, ManagerOK, Session, Tasks, Closers, Order, GivenUp, CloserSaw, Through, PastWaits, SpawnDone
<1> QED BY <1>1, <1>2, <1>3, <1>4, <1>5, <1>6, <1>7, <1>8, <1>9, <1>10, <1>11, <1>12, <1>13, <1>14, <1>15, <1>16, <1>17, <1>18, <1>19, <1>20, <1>21, <1>22 DEF Manager


LEMMA ShellStep ==
  ASSUME ManagerOK, Order, GivenUp, Asked, CloserSaw, Through, ShellClosed, Manager
  PROVE  ShellClosed'
<1>1. CASE Create
  BY <1>1 DEF Create, ManagerOK, Session, Tasks, Closers, Order, GivenUp, CloserSaw, Through, PastWaits, SpawnDone, ShellClosed, HasCloser
<1>2. CASE CreateReturns
  <2>1. CASE Abandon
    BY <1>2, <2>1, AbandonFields DEF CreateReturns, ManagerOK, ReaderDone, Order, GivenUp, CloserSaw, Through, PastWaits, Closers, SpawnDone, ShellClosed, HasCloser
  <2>2. CASE ses' = ses /\ task' = [task EXCEPT !.creator = "back"]
    BY <1>2, <2>2 DEF CreateReturns, ManagerOK, Tasks, Order, GivenUp, CloserSaw, Through, PastWaits, Closers, SpawnDone, ShellClosed, HasCloser
  <2> QED BY <1>2, <2>1, <2>2 DEF CreateReturns
<1>3. CASE CreateCancelled
  BY <1>3, AbandonFields DEF CreateCancelled, ManagerOK, ReaderDone, Order, GivenUp, CloserSaw, Through, PastWaits, Closers, SpawnDone, ShellClosed, HasCloser
<1>4. CASE SpawnFails
  BY <1>4 DEF SpawnFails, ManagerOK, Session, Tasks, Closers, Order, GivenUp, CloserSaw, Through, PastWaits, SpawnDone, ShellClosed, HasCloser
<1>5. CASE Spawned
  BY <1>5 DEF Spawned, ManagerOK, Session, Tasks, Closers, Order, GivenUp, CloserSaw, Through, PastWaits, SpawnDone, ShellClosed, HasCloser
<1>6. CASE SpawnEnds
  BY <1>6 DEF SpawnEnds, ManagerOK, Session, Tasks, Closers, Order, GivenUp, CloserSaw, Through, PastWaits, SpawnDone, ShellClosed, HasCloser
<1>7. CASE ReaderReads
  BY <1>7 DEF ReaderReads, manager, ManagerOK, Session, Tasks, Closers, Order, GivenUp, CloserSaw, Through, PastWaits, SpawnDone, ShellClosed, HasCloser
<1>8. CASE ReaderEnds
  BY <1>8 DEF ReaderEnds, Closed, ManagerOK, Session, Tasks, Closers, Order, GivenUp, CloserSaw, Through, PastWaits, SpawnDone, ShellClosed, HasCloser
<1>9. CASE ReaderCloses
  BY <1>9, ReleasedFields DEF ReaderCloses, ManagerOK, Tasks, Order, GivenUp, CloserSaw, Through, PastWaits, Closers, SpawnDone, ShellClosed, HasCloser
<1>10. CASE ReaderStops
  BY <1>10 DEF ReaderStops, ReaderGone, ManagerOK, Session, Tasks, Closers, Order, GivenUp, CloserSaw, Through, PastWaits, SpawnDone, ShellClosed, HasCloser
<1>11. CASE CloseReturns
  BY <1>11 DEF CloseReturns, ManagerOK, Session, Tasks, Closers, Order, GivenUp, CloserSaw, Through, PastWaits, SpawnDone, ShellClosed, HasCloser
<1>12. CASE End
  BY <1>12, EndFields DEF End, ManagerOK, Tasks, CloserSaw, Closers, ShellClosed, HasCloser
<1>13. CASE EndReturns
  BY <1>13 DEF EndReturns, ManagerOK, Session, Tasks, Closers, Order, GivenUp, CloserSaw, Through, PastWaits, SpawnDone, ShellClosed, HasCloser
<1>14. CASE EndCancelled
  BY <1>14 DEF EndCancelled, ManagerOK, Session, Tasks, Closers, Order, GivenUp, CloserSaw, Through, PastWaits, SpawnDone, ShellClosed, HasCloser
<1>15. CASE Elapse
  BY <1>15 DEF Elapse, ManagerOK, Session, Tasks, Closers, Order, GivenUp, CloserSaw, Through, PastWaits, SpawnDone, ShellClosed, HasCloser
<1>16. CASE Reap
  BY <1>16, ReapFields DEF Reap, ManagerOK, Tasks, CloserSaw, Closers, ShellClosed, HasCloser
<1>17. ASSUME NEW k \in Closers, CloserCloses(k) PROVE ShellClosed'
  BY <1>17 DEF CloserCloses, Closed, ManagerOK, Session, Tasks, Closers, Order, GivenUp, CloserSaw, Through, PastWaits, SpawnDone, ShellClosed, HasCloser
<1>18. ASSUME NEW k \in Closers, CloserEnds(k) PROVE ShellClosed'
  BY <1>18 DEF CloserEnds, ManagerOK, Session, Tasks, Closers, Order, GivenUp, CloserSaw, Through, PastWaits, SpawnDone, ShellClosed, HasCloser
<1>19. CASE Shutdown
  BY <1>19 DEF Shutdown, Over, ManagerOK, Session, Tasks, Closers, Order, GivenUp, CloserSaw, Through, PastWaits, SpawnDone, ShellClosed, HasCloser
<1>20. CASE ShutdownCloses
  <2>1. CASE task.listed
    <3>1. /\ UNCHANGED <<shell, close>> /\ task'.shutdown = "finish" /\ task \in Tasks
          /\ task'.finish = IF task.finish = "none" THEN "spawn" ELSE task.finish
      BY <1>20, <2>1, ShutdownFields DEF ShutdownCloses, ManagerOK
    <3>2. task.finish \in {"close", "done"} => (shell = "live" => close # "none")
      BY DEF CloserSaw, Closers
    <3>3. task.finish \in {"none", "spawn"} => task'.finish = "spawn"
      BY <3>1
    <3> QED BY <3>1, <3>2, <3>3 DEF Tasks, ShellClosed, HasCloser, Closers
  <2>2. CASE ~task.listed
    BY <1>20, <2>2 DEF ShutdownCloses, ManagerOK, Tasks, CloserSaw, Closers, ShellClosed, HasCloser
  <2> QED BY <2>1, <2>2
<1>21. CASE ShutdownEnds
  <2>1. /\ UNCHANGED <<ses, shell, close, late>> /\ task'.finish = task.finish
        /\ task'.finalize = task.finalize /\ task'.listed = task.listed
        /\ task.shutdown = "join" /\ task'.shutdown = IF Joined THEN "done" ELSE "left"
    BY <1>21 DEF ShutdownEnds, ManagerOK, Tasks
  <2>2. shell = "live" /\ close = "none" /\ (~ses.here \/ ses.closing) => HasCloser'
    BY <2>1 DEF ShellClosed, HasCloser, Closers
  <2>3. CASE Joined
    <3>1. late \/ shell = "none" \/ close = "done"
      <4>1. CASE task.finish = "done"
        BY <2>3, <4>1 DEF CloserSaw, Closers, Joined, ManagerOK
      <4>2. CASE task.finish = "none" /\ task.creator = "none"
        BY <4>2 DEF Order, ManagerOK
      <4>3. CASE task.finish = "none" /\ task.creator # "none"
        <5>1. task.finalize = "done"
          BY <2>1, <4>3 DEF Asked, Cleared
        <5> QED BY <5>1, <2>3 DEF CloserSaw, Closers, Joined, ManagerOK
      <4> QED BY <2>3, <4>1, <4>2, <4>3 DEF Joined
    <3> QED BY <2>1, <2>2, <3>1 DEF ShellClosed
  <2>4. CASE ~Joined
    BY <2>1, <2>2, <2>4 DEF ShellClosed
  <2> QED BY <2>3, <2>4
<1>22. CASE ShutdownClears
  BY <1>22 DEF ShutdownClears, Joined, ManagerOK, Session, Tasks, Closers, Order, GivenUp, CloserSaw, Through, PastWaits, SpawnDone, ShellClosed, HasCloser
<1> QED BY <1>1, <1>2, <1>3, <1>4, <1>5, <1>6, <1>7, <1>8, <1>9, <1>10, <1>11, <1>12, <1>13, <1>14, <1>15, <1>16, <1>17, <1>18, <1>19, <1>20, <1>21, <1>22 DEF Manager

-----------------------------------------------------------------------------
(* The ring *)

LEMMA Sizes ==
  /\ Capacity \in Nat /\ Capacity > 0 /\ MaxChunk \in Nat /\ MaxChunk > 0
  /\ MaxChunk <= Capacity /\ MaxBytes \in Nat /\ NoConn \notin Conns
  BY SessionAssumption

\* Offsets less than a ring apart are in different places of it.
LEMMA Apart ==
  ASSUME NEW C \in Nat, C > 0, NEW a \in Nat, NEW b \in Nat, a < b, b < a + C
  PROVE  a % C # b % C
<1> SUFFICES ASSUME a % C = b % C PROVE FALSE
  OBVIOUS
<1> DEFINE p == a \div C  q == b \div C
<1>1. p \in Int /\ q \in Int /\ a % C \in Int /\ b % C \in Int
  OBVIOUS
<1>2. a % C = a - C * p /\ b % C = b - C * q
  BY SMT
<1> HIDE DEF p, q
<1>3. b - a = C * (q - p)
  BY <1>1, <1>2
<1>4. CASE q - p <= 0
  <2>1. C * (q - p) <= 0
    BY <1>1, <1>4
  <2> QED BY <2>1, <1>3
<1>5. CASE q - p >= 1
  <2>1. C * (q - p) >= C
    BY <1>1, <1>5
  <2> QED BY <2>1, <1>3
<1> QED BY <1>1, <1>4, <1>5

LEMMA Place ==
  ASSUME NEW k \in Nat
  PROVE  k % Capacity \in 0 .. Capacity - 1
  BY Sizes

LEMMA OldestBounds ==
  ASSUME StreamOK
  PROVE  /\ Oldest \in Nat /\ Oldest <= seq /\ seq - Capacity <= Oldest
         /\ Oldest = 0 \/ Oldest = seq - Capacity
  BY Sizes DEF StreamOK, Oldest, Larger

\* A read of what the ring still has gives the stream.
LEMMA CopiedTrue ==
  ASSUME StreamOK, RingTrue, NEW a \in Nat, NEW b \in Nat, Oldest <= a, a <= b, b <= seq
  PROVE  /\ Copied(a, b) \in Seq(0 .. MaxBytes)
         /\ Len(Copied(a, b)) = b - a
         /\ \A k \in 1 .. b - a : Copied(a, b)[k] = a + k - 1
<1>1. \A k \in 1 .. b - a : ring[(a + k - 1) % Capacity] = a + k - 1
  <2> SUFFICES ASSUME NEW k \in 1 .. b - a PROVE ring[(a + k - 1) % Capacity] = a + k - 1
    OBVIOUS
  <2>1. a + k - 1 \in Oldest .. seq - 1
    BY OldestBounds DEF StreamOK
  <2> QED BY <2>1 DEF RingTrue
<1>2. \A k \in 1 .. b - a : a + k - 1 \in 0 .. MaxBytes
  BY Sizes DEF StreamOK
<1>3. Copied(a, b) = [k \in 1 .. b - a |-> a + k - 1]
  BY <1>1 DEF Copied
<1>4. b - a \in Nat
  OBVIOUS
<1> QED BY <1>2, <1>3, <1>4

\* Appending keeps what is still wanted and puts the rest in its place.
LEMMA AppendedTrue ==
  ASSUME StreamOK, RingTrue, NEW n \in 1 .. MaxChunk, seq + n <= MaxBytes, Appended(n)
  PROVE  /\ seq' \in 0 .. MaxBytes /\ ring' \in [0 .. Capacity - 1 -> 0 .. MaxBytes]
         /\ RingTrue'
<1> DEFINE New == seq .. seq + n - 1
<1>1. seq' = seq + n /\ seq \in Nat /\ n \in Nat /\ n <= Capacity /\ n > 0
  BY Sizes DEF Appended, StreamOK
<1>2. seq' \in 0 .. MaxBytes
  BY <1>1, Sizes
<1>3. DOMAIN ring = 0 .. Capacity - 1
  BY DEF StreamOK
<1>4. \A k \in New : ring'[k % Capacity] = k
  <2> SUFFICES ASSUME NEW k \in New PROVE ring'[k % Capacity] = k
    OBVIOUS
  <2>1. k \in Nat /\ k % Capacity \in DOMAIN ring
    BY <1>1, <1>3, Place
  <2>2. \A j \in New : j % Capacity = k % Capacity => j = k
    <3> SUFFICES ASSUME NEW j \in New, j % Capacity = k % Capacity PROVE j = k
      OBVIOUS
    <3>1. j \in Nat /\ j < k + Capacity /\ k < j + Capacity
      BY <1>1, <2>1, Sizes
    <3> QED BY <2>1, <3>1, Apart, Sizes
  <2>3. ring'[k % Capacity] = CHOOSE j \in New : j % Capacity = k % Capacity
    BY <2>1 DEF Appended
  <2> QED BY <2>2, <2>3
<1>5. \A p \in 0 .. Capacity - 1 :
        (\A k \in New : k % Capacity # p) => ring'[p] = ring[p]
  BY <1>3 DEF Appended
<1>6. ring' \in [0 .. Capacity - 1 -> 0 .. MaxBytes]
  <2>1. ring' = [p \in 0 .. Capacity - 1 |-> ring'[p]]
    BY <1>3 DEF Appended
  <2>2. \A p \in 0 .. Capacity - 1 : ring'[p] \in 0 .. MaxBytes
    <3> SUFFICES ASSUME NEW p \in 0 .. Capacity - 1 PROVE ring'[p] \in 0 .. MaxBytes
      OBVIOUS
    <3>1. CASE \A k \in New : k % Capacity # p
      BY <1>5, <3>1 DEF StreamOK
    <3>2. CASE \E k \in New : k % Capacity = p
      <4>1. PICK k \in New : k % Capacity = p
        BY <3>2
      <4> QED BY <4>1, <1>4, <1>1, Sizes
    <3> QED BY <3>1, <3>2
  <2> QED BY <2>1, <2>2
<1>7. RingTrue'
  <2> SUFFICES ASSUME NEW k \in Oldest' .. seq' - 1 PROVE ring'[k % Capacity] = k
    BY DEF RingTrue
  <2>1. Oldest' \in Nat /\ seq' - Capacity <= Oldest' /\ Oldest <= Oldest'
    BY <1>1, Sizes DEF Oldest, Larger
  <2>2. CASE k >= seq
    BY <2>1, <2>2, <1>1, <1>4
  <2>3. CASE k < seq
    <3>1. k \in Oldest .. seq - 1 /\ k \in Nat
      BY <1>1, <2>1, <2>3, OldestBounds
    <3>2. \A j \in New : j % Capacity # k % Capacity
      <4> SUFFICES ASSUME NEW j \in New PROVE j % Capacity # k % Capacity
        OBVIOUS
      <4>1. j \in Nat /\ k < j /\ j < k + Capacity
        BY <1>1, <2>1, <2>3, <3>1, Sizes
      <4> QED BY <3>1, <4>1, Apart, Sizes
    <3>3. ring'[k % Capacity] = ring[k % Capacity]
      BY <1>5, <3>1, <3>2, Place
    <3> QED BY <3>1, <3>3 DEF RingTrue
  <2> QED BY <2>2, <2>3, <2>1, <1>1
<1> QED BY <1>2, <1>6, <1>7

-----------------------------------------------------------------------------
(* The screens *)

\* One socket's screen is the stream from where it started, up to its cursor.
Shows(s) ==
  /\ Len(s.screen) \in Nat /\ s.from + Len(s.screen) = s.cursor
  /\ \A k \in 1 .. Len(s.screen) : s.screen[k] = s.from + k - 1

LEMMA ScreenShows ==
  ASSUME StreamOK
  PROVE  ScreenTrue <=> \A c \in Conns : Shows(conn[c])
<1> SUFFICES ASSUME NEW c \in Conns
             PROVE  Shows(conn[c]) <=>
                      /\ conn[c].screen = [k \in 1 .. Len(conn[c].screen) |-> conn[c].from + k - 1]
                      /\ conn[c].from + Len(conn[c].screen) = conn[c].cursor
  BY DEF ScreenTrue
<1> DEFINE s == conn[c].screen
<1>1. s \in Seq(0 .. MaxBytes)
  BY DEF StreamOK, Socket
<1>2. Len(s) \in Nat /\ DOMAIN s = 1 .. Len(s) /\ s = [k \in 1 .. Len(s) |-> s[k]]
  BY <1>1
<1> HIDE DEF s
<1>3. (\A k \in 1 .. Len(s) : s[k] = conn[c].from + k - 1)
      <=> s = [k \in 1 .. Len(s) |-> conn[c].from + k - 1]
  BY <1>2
<1> QED BY <1>2, <1>3 DEF Shows, s

LEMMA FreshOK ==
  ASSUME NEW pc \in {"idle", "replay", "pump", "wait", "hangup", "gone"}
  PROVE  /\ Fresh(pc) \in Socket /\ Shows(Fresh(pc))
         /\ Fresh(pc).cursor = 0 /\ ~Fresh(pc).told
<1>1. 0 \in 0 .. MaxBytes /\ <<>> \in Seq(0 .. MaxBytes)
  BY Sizes
<1> QED BY <1>1 DEF Fresh, Socket, Shows

StreamInv == StreamOK /\ RingTrue /\ Unread /\ Told /\ \A c \in Conns : Shows(conn[c])

\* A step that changes one socket and no output.
LEMMA OneSocket ==
  ASSUME StreamInv, NEW c \in Conns, NEW t \in Socket,
         conn' = [conn EXCEPT ![c] = t], UNCHANGED <<seq, ring>>,
         ses.exited => ses'.exited,
         Shows(t), t.cursor <= seq,
         t.told => t.pc = "hangup" /\ ses.exited /\ t.cursor = seq
  PROVE  StreamInv'
<1>1. conn \in [Conns -> Socket]
  BY DEF StreamInv, StreamOK
<1>2. conn'[c] = t /\ \A d \in Conns \ {c} : conn'[d] = conn[d]
  BY <1>1
<1>3. StreamOK'
  BY <1>1 DEF StreamInv, StreamOK
<1>4. RingTrue'
  BY DEF StreamInv, RingTrue, Oldest, Larger
<1>5. Unread'
  BY <1>2 DEF StreamInv, Unread
<1>6. Told'
  BY <1>2 DEF StreamInv, Told
<1>7. \A d \in Conns : Shows(conn'[d])
  BY <1>2 DEF StreamInv
<1> QED BY <1>3, <1>4, <1>5, <1>6, <1>7 DEF StreamInv

LEMMA QuietStep ==
  ASSUME StreamInv, UNCHANGED <<seq, ring, conn>>, ses.exited => ses'.exited
  PROVE  StreamInv'
<1>1. StreamOK' /\ Unread' /\ \A c \in Conns : Shows(conn'[c])
  BY DEF StreamInv, StreamOK, Unread
<1>2. RingTrue'
  BY DEF StreamInv, RingTrue, Oldest, Larger
<1>3. Told'
  BY DEF StreamInv, Told
<1> QED BY <1>1, <1>2, <1>3 DEF StreamInv

\* Nobody has been told of the exit while the reader still reads.
LEMMA ReadsStep ==
  ASSUME ManagerOK, Order, StreamInv, ReaderReads
  PROVE  StreamInv'
<1>1. PICK n \in 1 .. MaxChunk : seq + n <= MaxBytes /\ Appended(n)
  BY DEF ReaderReads
<1>2. seq' \in 0 .. MaxBytes /\ ring' \in [0 .. Capacity - 1 -> 0 .. MaxBytes] /\ RingTrue'
  BY <1>1, AppendedTrue DEF StreamInv
<1>3. conn' = conn /\ ses' = ses /\ seq' = seq + n /\ seq \in Nat /\ n \in Nat
  BY <1>1, Sizes DEF ReaderReads, manager, Appended, StreamInv, StreamOK
<1>4. ~ses.exited
  BY DEF ReaderReads, Order
<1>5. StreamOK' /\ \A c \in Conns : Shows(conn'[c])
  BY <1>2, <1>3 DEF StreamInv, StreamOK
<1>6. Unread'
  <2> SUFFICES ASSUME NEW c \in Conns PROVE conn[c].cursor <= seq + n
    BY <1>3 DEF Unread
  <2>1. conn[c].cursor <= seq /\ conn[c].cursor \in Nat
    BY Sizes DEF StreamInv, Unread, StreamOK, Socket
  <2> QED BY <2>1, <1>3
<1>7. Told'
  BY <1>3, <1>4 DEF StreamInv, Told
<1> QED BY <1>2, <1>5, <1>6, <1>7 DEF StreamInv

\* An exit is never taken back.
LEMMA ExitedStays ==
  ASSUME ManagerOK, Order, Manager
  PROVE  ses.exited => ses'.exited
<1>1. CASE Create
  BY <1>1 DEF Create, ManagerOK, Session
<1>2. CASE CreateReturns
  <2>1. CASE Abandon
    BY <1>2, <2>1, AbandonFields DEF ManagerOK
  <2>2. CASE ses' = ses
    BY <2>2
  <2> QED BY <1>2, <2>1, <2>2 DEF CreateReturns
<1>3. CASE CreateCancelled
  BY <1>3, AbandonFields DEF CreateCancelled, ManagerOK
<1>4. CASE SpawnFails
  BY <1>4 DEF SpawnFails, ManagerOK, Session
<1>5. CASE Spawned
  BY <1>5 DEF Spawned, ManagerOK, Session
<1>6. CASE SpawnEnds
  BY <1>6 DEF SpawnEnds, ManagerOK, Session
<1>7. CASE ReaderReads
  BY <1>7 DEF ReaderReads, manager, ManagerOK, Session
<1>8. CASE ReaderEnds
  BY <1>8 DEF ReaderEnds, Closed, ManagerOK, Session
<1>9. CASE ReaderCloses
  BY <1>9 DEF ReaderCloses, Released, ManagerOK, Session
<1>10. CASE ReaderStops
  BY <1>10 DEF ReaderStops, ReaderGone, ManagerOK, Session
<1>11. CASE CloseReturns
  BY <1>11 DEF CloseReturns, ManagerOK, Session
<1>12. CASE End
  BY <1>12 DEF End, ReaderGone, Over, Finishing, ReaderDone, ManagerOK, Session
<1>13. CASE EndReturns
  BY <1>13 DEF EndReturns, ManagerOK, Session
<1>14. CASE EndCancelled
  BY <1>14 DEF EndCancelled, ManagerOK, Session
<1>15. CASE Elapse
  BY <1>15 DEF Elapse, ManagerOK, Session
<1>16. CASE Reap
  BY <1>16 DEF Reap, ReaderGone, Over, Finishing, ReaderDone, ManagerOK, Session
<1>17. ASSUME NEW k \in Closers, CloserCloses(k) PROVE ses.exited => ses'.exited
  BY <1>17 DEF CloserCloses, Closed, ManagerOK, Session
<1>18. ASSUME NEW k \in Closers, CloserEnds(k) PROVE ses.exited => ses'.exited
  BY <1>18 DEF CloserEnds, ManagerOK, Session
<1>19. CASE Shutdown
  BY <1>19 DEF Shutdown, Over, ManagerOK, Session
<1>20. CASE ShutdownCloses
  BY <1>20 DEF ShutdownCloses, ReaderGone, Finishing, ReaderDone, ManagerOK, Session
<1>21. CASE ShutdownEnds
  BY <1>21 DEF ShutdownEnds, Joined, ManagerOK, Session
<1>22. CASE ShutdownClears
  BY <1>22 DEF ShutdownClears, Joined, ManagerOK, Session
<1> QED BY <1>1, <1>2, <1>3, <1>4, <1>5, <1>6, <1>7, <1>8, <1>9, <1>10, <1>11, <1>12, <1>13, <1>14, <1>15, <1>16, <1>17, <1>18, <1>19, <1>20, <1>21, <1>22 DEF Manager

LEMMA ManagerStream ==
  ASSUME ManagerOK, Order, StreamInv, Manager
  PROVE  StreamInv'
<1>1. CASE ReaderReads
  BY <1>1, ReadsStep
<1>2. CASE ~ReaderReads
  <2>1. UNCHANGED <<seq, ring, conn>>
    BY <1>2 DEF Manager, Create, CreateReturns, CreateCancelled, SpawnFails, Spawned, SpawnEnds,
                ReaderEnds, ReaderCloses, ReaderStops, CloseReturns, End, EndReturns, EndCancelled,
                Elapse, Reap, CloserCloses, CloserEnds, Shutdown, ShutdownCloses,
                ShutdownClears, ShutdownEnds
  <2> QED BY <2>1, ExitedStays, QuietStep
<1> QED BY <1>1, <1>2

-----------------------------------------------------------------------------
(* The sockets *)

Connection ==
  \E c \in Conns :
    \/ \E offset \in 0 .. seq, takeover \in BOOLEAN : Attach(c, offset, takeover)
    \/ Replayed(c) \/ ReplayBroken(c) \/ PumpExits(c) \/ PumpWaits(c)
    \/ WaitEnds(c) \/ Sent(c) \/ Leaves(c) \/ Detach(c)

LEMMA SocketFields ==
  ASSUME StreamInv, NEW c \in Conns
  PROVE  /\ conn[c] \in Socket /\ Shows(conn[c])
         /\ conn[c].cursor \in Nat /\ conn[c].from \in Nat /\ conn[c].cursor <= seq
         /\ seq \in Nat
         /\ conn[c].pc # "hangup" => ~conn[c].told
  BY Sizes DEF StreamInv, StreamOK, Socket, Unread, Told

\* A socket that only goes on to another await.
LEMMA GoesStep ==
  ASSUME ManagerOK, StreamInv, NEW c \in Conns, conn[c].pc # "hangup",
         NEW pc \in {"idle", "replay", "pump", "wait", "hangup", "gone"}, NEW g \in Nat,
         conn' = [conn EXCEPT ![c].pc = pc, ![c].generation = g],
         UNCHANGED <<manager, seq, ring>>
  PROVE  StreamInv'
<1> DEFINE t == [conn[c] EXCEPT !.pc = pc, !.generation = g]
<1>1. conn' = [conn EXCEPT ![c] = t]
  BY SocketFields DEF StreamInv, StreamOK, Socket
<1>2. t \in Socket /\ Shows(t) /\ t.cursor <= seq /\ ~t.told
  BY SocketFields DEF Socket, Shows
<1> HIDE DEF t
<1> QED BY <1>1, <1>2, OneSocket DEF manager

LEMMA AttachStep ==
  ASSUME ManagerOK, StreamInv, NEW c \in Conns, NEW offset \in 0 .. seq,
         NEW takeover \in BOOLEAN, Attach(c, offset, takeover)
  PROVE  StreamInv'
<1> DEFINE start == Larger(offset, Oldest)
           t == [conn[c] EXCEPT !.pc = "replay", !.from = start, !.cursor = seq,
                                !.screen = Copied(start, seq)]
<1>1. start \in Nat /\ Oldest <= start /\ start <= seq /\ seq \in Nat /\ seq <= MaxBytes
  BY OldestBounds, Sizes DEF Larger, StreamInv, StreamOK
<1>2. conn' = [conn EXCEPT ![c] = t]
  BY SocketFields DEF Attach, StreamInv, StreamOK, Socket
<1> HIDE DEF start
<1>3. /\ Copied(start, seq) \in Seq(0 .. MaxBytes) /\ Len(Copied(start, seq)) = seq - start
      /\ \A k \in 1 .. seq - start : Copied(start, seq)[k] = start + k - 1
  BY <1>1, CopiedTrue DEF StreamInv
<1>4. start \in 0 .. MaxBytes /\ seq \in 0 .. MaxBytes
  BY <1>1, Sizes
<1>5. t \in Socket /\ t.cursor = seq /\ t.told = conn[c].told
      /\ t.from = start /\ t.screen = Copied(start, seq)
  BY <1>3, <1>4, SocketFields DEF Socket
<1>6. ~conn[c].told
  BY SocketFields DEF Attach
<1> HIDE DEF t
<1>7. Shows(t)
  BY <1>1, <1>3, <1>5 DEF Shows
<1>8. ses'.exited = ses.exited
  BY DEF Attach, ManagerOK, Session
<1>9. ~t.told /\ t.cursor <= seq
  BY <1>1, <1>5, <1>6
<1>10. UNCHANGED <<seq, ring>>
  BY DEF Attach
<1> QED BY <1>2, <1>5, <1>7, <1>8, <1>9, <1>10, OneSocket

\* What follows on is a continuation.
LEMMA Joins ==
  ASSUME NEW S, NEW s \in Seq(S), NEW t \in Seq(S), NEW f \in Nat,
         \A k \in 1 .. Len(s) : s[k] = f + k - 1,
         \A k \in 1 .. Len(t) : t[k] = f + Len(s) + k - 1
  PROVE  /\ Len(s \o t) = Len(s) + Len(t)
         /\ \A k \in 1 .. Len(s) + Len(t) : (s \o t)[k] = f + k - 1
<1>1. Len(s) \in Nat /\ Len(t) \in Nat /\ Len(s \o t) = Len(s) + Len(t)
  OBVIOUS
<1>2. ASSUME NEW k \in 1 .. Len(s) PROVE (s \o t)[k] = f + k - 1
  <2>1. (s \o t)[k] = s[k]
    BY <1>1
  <2> QED BY <2>1
<1>3. ASSUME NEW k \in Len(s) + 1 .. Len(s) + Len(t) PROVE (s \o t)[k] = f + k - 1
  <2> DEFINE j == k - Len(s)
  <2>1. j \in 1 .. Len(t) /\ k = Len(s) + j
    BY <1>1
  <2>2. (s \o t)[k] = t[j]
    BY <1>1
  <2>3. t[j] = f + Len(s) + j - 1
    BY <2>1
  <2> QED BY <1>1, <2>1, <2>2, <2>3
<1> QED BY <1>1, <1>2, <1>3

LEMMA SentStep ==
  ASSUME ManagerOK, StreamInv, NEW c \in Conns, Sent(c)
  PROVE  StreamInv'
<1> DEFINE start == conn[c].cursor
           end == Smaller(seq, start + MaxChunk)
           t == [conn[c] EXCEPT !.pc = "pump", !.cursor = end, !.generation = 0,
                                !.screen = @ \o Copied(start, end)]
<1>1. /\ start \in Nat /\ end \in Nat /\ start <= end /\ end <= seq /\ Oldest <= start
      /\ seq \in Nat /\ seq <= MaxBytes
  BY SocketFields, Sizes DEF Sent, Readable, Smaller, StreamInv, StreamOK
<1>2. conn' = [conn EXCEPT ![c] = t]
  BY SocketFields DEF Sent, StreamInv, StreamOK, Socket
<1> HIDE DEF end
<1>3. /\ Copied(start, end) \in Seq(0 .. MaxBytes) /\ Len(Copied(start, end)) = end - start
      /\ \A k \in 1 .. end - start : Copied(start, end)[k] = start + k - 1
  BY <1>1, CopiedTrue DEF StreamInv
<1>4. end \in 0 .. MaxBytes /\ conn[c].screen \in Seq(0 .. MaxBytes)
  BY <1>1, SocketFields, Sizes DEF Socket
<1>5. conn[c].screen \o Copied(start, end) \in Seq(0 .. MaxBytes)
  BY <1>3, <1>4
<1>6. /\ t \in Socket /\ t.cursor = end /\ t.told = conn[c].told /\ t.from = conn[c].from
      /\ t.screen = conn[c].screen \o Copied(start, end)
  BY <1>4, <1>5, SocketFields DEF Socket
<1>7. ~conn[c].told
  BY SocketFields DEF Sent
<1> HIDE DEF t
<1>8. Shows(t)
  <2> DEFINE s == conn[c].screen  new == Copied(start, end)
  <2>1. /\ Len(s) \in Nat /\ conn[c].from \in Nat /\ conn[c].from + Len(s) = start
        /\ \A k \in 1 .. Len(s) : s[k] = conn[c].from + k - 1
    BY SocketFields DEF Shows
  <2>2. s \in Seq(0 .. MaxBytes) /\ new \in Seq(0 .. MaxBytes) /\ Len(new) = end - start
    BY <1>3, <1>4
  <2>3. \A k \in 1 .. end - start : new[k] = start + k - 1
    BY <1>3
  <2>4. \A k \in 1 .. Len(new) : new[k] = conn[c].from + Len(s) + k - 1
    BY <2>1, <2>2, <2>3
  <2> HIDE DEF s, new
  <2>5. /\ Len(s \o new) = Len(s) + Len(new)
        /\ \A k \in 1 .. Len(s) + Len(new) : (s \o new)[k] = conn[c].from + k - 1
    <3> DEFINE f == conn[c].from  S == 0 .. MaxBytes
    <3>1. /\ f \in Nat /\ s \in Seq(S) /\ new \in Seq(S)
          /\ \A k \in 1 .. Len(s) : s[k] = f + k - 1
          /\ \A k \in 1 .. Len(new) : new[k] = f + Len(s) + k - 1
      BY <2>1, <2>2, <2>4
    <3> HIDE DEF f, S
    <3>2. /\ Len(s \o new) = Len(s) + Len(new)
          /\ \A k \in 1 .. Len(s) + Len(new) : (s \o new)[k] = f + k - 1
      BY <3>1, Joins
    <3> QED BY <3>2 DEF f
  <2>6. Len(s \o new) = Len(s) + (end - start)
    BY <2>2, <2>5
  <2>7. t.screen = s \o new
    BY <1>6 DEF s, new
  <2>8. Len(t.screen) = Len(s) + (end - start) /\ Len(t.screen) \in Nat
    BY <2>1, <2>6, <2>7, <1>1
  <2>9. t.from + Len(t.screen) = t.cursor
    BY <2>1, <2>8, <1>1, <1>6
  <2> QED BY <2>2, <2>5, <2>7, <2>8, <2>9, <1>6 DEF Shows
<1>9. ses' = ses
  BY DEF Sent, manager
<1> QED BY <1>1, <1>2, <1>6, <1>7, <1>8, <1>9, OneSocket DEF Sent

LEMMA LeavingStep ==
  ASSUME ManagerOK, StreamInv, NEW c \in Conns, ReplayBroken(c) \/ Detach(c)
  PROVE  StreamInv'
<1>1. ses'.exited = ses.exited /\ UNCHANGED <<seq, ring>>
  BY DEF ReplayBroken, Detach, manager, ManagerOK, Session
<1>2. conn' = [conn EXCEPT ![c] = Fresh("gone")]
  BY DEF ReplayBroken, Detach
<1>3. /\ Fresh("gone") \in Socket /\ Shows(Fresh("gone")) /\ Fresh("gone").cursor <= seq
      /\ ~Fresh("gone").told
  BY FreshOK, SocketFields
<1> QED BY <1>1, <1>2, <1>3, OneSocket

\* The pump reports the exit when it has sent all.
LEMMA ExitsStep ==
  ASSUME ManagerOK, StreamInv, NEW c \in Conns, PumpExits(c)
  PROVE  StreamInv'
<1> DEFINE t == [conn[c] EXCEPT !.pc = "hangup", !.told = TRUE]
<1>1. conn' = [conn EXCEPT ![c] = t]
  BY SocketFields DEF PumpExits, StreamInv, StreamOK, Socket
<1>2. t \in Socket /\ Shows(t) /\ t.cursor = conn[c].cursor /\ t.pc = "hangup"
  BY SocketFields DEF Socket, Shows
<1>3. ses.exited /\ conn[c].cursor = seq
  BY SocketFields DEF PumpExits, AllSent
<1> HIDE DEF t
<1> QED BY <1>1, <1>2, <1>3, SocketFields, OneSocket DEF PumpExits, manager

LEMMA ConnectionStream ==
  ASSUME ManagerOK, StreamInv, Connection
  PROVE  StreamInv'
<1>1. ASSUME NEW c \in Conns, Replayed(c) \/ WaitEnds(c) \/ Leaves(c) PROVE StreamInv'
  BY <1>1, GoesStep DEF Replayed, WaitEnds, Leaves, Goes
<1>2. ASSUME NEW c \in Conns, PumpWaits(c) PROVE StreamInv'
  <2>1. ses.generation \in Nat
    BY DEF ManagerOK, Session
  <2>2. CASE MayRead(c)
    BY <1>2, <2>1, <2>2, GoesStep DEF PumpWaits
  <2>3. CASE ~MayRead(c)
    BY <1>2, <2>3, GoesStep DEF PumpWaits
  <2> QED BY <2>2, <2>3
<1> QED BY <1>1, <1>2, AttachStep, SentStep, LeavingStep, ExitsStep DEF Connection

-----------------------------------------------------------------------------
(* The connections and the manager *)

\* A connection changes who controls the session and no more of the manager.
LEMMA ConnectionFields ==
  ASSUME ManagerOK, NEW c \in Conns,
         \/ \E offset \in 0 .. seq, takeover \in BOOLEAN : Attach(c, offset, takeover)
         \/ Detach(c)
         \/ UNCHANGED manager
  PROVE  /\ ses' \in Session
         /\ ses'.here = ses.here /\ ses'.gone = ses.gone /\ ses'.exited = ses.exited
         /\ ses'.closing = ses.closing
         /\ UNCHANGED <<shell, close, task, late>>
<1>1. ASSUME NEW offset \in 0 .. seq, NEW takeover \in BOOLEAN, Attach(c, offset, takeover)
      PROVE  /\ ses' \in Session
             /\ ses'.here = ses.here /\ ses'.gone = ses.gone /\ ses'.exited = ses.exited
             /\ ses'.closing = ses.closing
             /\ UNCHANGED <<shell, close, task, late>>
  <2> DEFINE generation == IF ses.controller \notin {NoConn, c} THEN ses.generation + 1
                           ELSE ses.generation
             clock == IF ses.gone THEN ses.clock ELSE "off"
  <2>1. ses \in Session
    BY DEF ManagerOK
  <2>2. generation \in Nat /\ clock \in {"off", "running", "due"}
    BY <2>1 DEF Session
  <2>3. ses' = [ses EXCEPT !.controller = c, !.last = c, !.generation = generation,
                           !.clock = clock]
    BY <1>1, <2>1 DEF Attach, Session
  <2> HIDE DEF generation, clock
  <2> QED BY <1>1, <2>1, <2>2, <2>3 DEF Attach, Session
<1>2. ASSUME Detach(c)
      PROVE  /\ ses' \in Session
             /\ ses'.here = ses.here /\ ses'.gone = ses.gone /\ ses'.exited = ses.exited
             /\ ses'.closing = ses.closing
             /\ UNCHANGED <<shell, close, task, late>>
  <2> DEFINE clock == IF ses.gone THEN ses.clock ELSE "running"
  <2>1. ses \in Session
    BY DEF ManagerOK
  <2>2. clock \in {"off", "running", "due"}
    BY <2>1 DEF Session
  <2>3. ses' = ses \/ ses' = [ses EXCEPT !.controller = NoConn, !.clock = clock]
    BY <1>2, <2>1 DEF Detach, Session
  <2> HIDE DEF clock
  <2> QED BY <1>2, <2>1, <2>2, <2>3 DEF Detach, Session
<1>3. CASE UNCHANGED manager
  BY <1>3 DEF manager, ManagerOK
<1> QED BY <1>1, <1>2, <1>3

ManagerInv ==
  ManagerOK /\ Order /\ GivenUp /\ Asked /\ CloserSaw /\ Through /\ ShellClosed

LEMMA SameManager ==
  ASSUME ManagerInv, ses' \in Session,
         ses'.here = ses.here, ses'.gone = ses.gone, ses'.exited = ses.exited,
         ses'.closing = ses.closing, UNCHANGED <<shell, close, task, late>>
  PROVE  ManagerInv'
<1>1. ManagerOK'
  BY DEF ManagerInv, ManagerOK
<1>2. Order'
  BY DEF ManagerInv, Order
<1>3. GivenUp'
  BY DEF ManagerInv, GivenUp
<1>4. CloserSaw'
  BY DEF ManagerInv, CloserSaw, SpawnDone
<1>5. Through'
  BY DEF ManagerInv, Through, PastWaits, SpawnDone
<1>6. ShellClosed'
  BY DEF ManagerInv, ShellClosed, HasCloser
<1>7. Asked'
  BY DEF ManagerInv, Asked, PastWaits, Cleared
<1> QED BY <1>1, <1>2, <1>3, <1>4, <1>5, <1>6, <1>7 DEF ManagerInv

LEMMA ManagerStep ==
  ASSUME ManagerInv, Manager
  PROVE  ManagerInv'
  BY ManagerType, OrderStep, GivenUpStep, AskedStep, CloserStep, ShellStep DEF ManagerInv

LEMMA ConnectionManager ==
  ASSUME ManagerInv, Connection
  PROVE  ManagerInv'
<1>1. ASSUME NEW c \in Conns,
             \/ \E offset \in 0 .. seq, takeover \in BOOLEAN : Attach(c, offset, takeover)
             \/ Detach(c)
             \/ UNCHANGED manager
      PROVE ManagerInv'
  BY <1>1, ConnectionFields, SameManager DEF ManagerInv
<1>2. ASSUME NEW c \in Conns,
             \/ Replayed(c) \/ ReplayBroken(c) \/ PumpExits(c) \/ PumpWaits(c)
             \/ WaitEnds(c) \/ Sent(c) \/ Leaves(c)
      PROVE UNCHANGED manager
  BY <1>2 DEF Replayed, ReplayBroken, PumpExits, PumpWaits, WaitEnds, Sent, Leaves, Goes
<1> QED BY <1>1, <1>2 DEF Connection

-----------------------------------------------------------------------------
(* The invariant *)

Inv == ManagerInv /\ StreamInv

LEMMA InitInv == Init => Inv
<1> SUFFICES ASSUME Init PROVE Inv
  OBVIOUS
<1>1. ManagerInv
  <2>1. ManagerOK
    BY DEF Init, ManagerOK, Session, Tasks
  <2>2. Order /\ GivenUp /\ Asked /\ CloserSaw /\ Through /\ ShellClosed
    BY DEF Init, Order, GivenUp, CloserSaw, Through, PastWaits, Asked, Cleared, ShellClosed, Closers, SpawnDone
  <2> QED BY <2>1, <2>2 DEF ManagerInv
<1>2. StreamInv
  <2>1. \A c \in Conns : conn[c] = Fresh("idle")
    BY DEF Init
  <2>2. /\ Fresh("idle") \in Socket /\ Shows(Fresh("idle"))
        /\ Fresh("idle").cursor = 0 /\ ~Fresh("idle").told
    BY FreshOK
  <2>3. seq = 0 /\ 0 \in 0 .. MaxBytes
    BY Sizes DEF Init
  <2>4. StreamOK
    BY <2>2, <2>3 DEF Init, StreamOK
  <2>5. RingTrue
    BY <2>3, <2>4, OldestBounds DEF RingTrue
  <2>6. Unread /\ Told /\ \A c \in Conns : Shows(conn[c])
    BY <2>1, <2>2, <2>3 DEF Unread, Told
  <2> QED BY <2>4, <2>5, <2>6 DEF StreamInv
<1> QED BY <1>1, <1>2 DEF Inv

LEMMA NextInv == Inv /\ [Next]_vars => Inv'
<1> SUFFICES ASSUME Inv, [Next]_vars PROVE Inv'
  OBVIOUS
<1>1. CASE Manager
  BY <1>1, ManagerStep, ManagerStream DEF Inv, ManagerInv
<1>2. CASE Connection
  BY <1>2, ConnectionManager, ConnectionStream DEF Inv, ManagerInv
<1>3. CASE UNCHANGED vars
  <2>1. UNCHANGED <<ses, shell, close, task, late, seq, ring, conn>>
    BY <1>3 DEF vars, manager
  <2>2. ManagerInv'
    BY <2>1, SameManager DEF Inv, ManagerInv, ManagerOK
  <2>3. StreamInv'
    BY <2>1, QuietStep DEF Inv
  <2> QED BY <2>2, <2>3 DEF Inv
<1> QED BY <1>1, <1>2, <1>3 DEF Next, Manager, Connection

\* Whatever the tasks and the sockets do, the manager's state and the stream
\* stay as Inv describes them.
THEOREM Invariant == Spec => []Inv
  BY InitInv, NextInv, PTL DEF Spec

\* The record, the tasks, the ring and the sockets keep their types, and a
\* session exits only after its shell is gone.
THEOREM TypeCorrect == Spec => []TypeOK
<1>1. Inv => TypeOK
  BY DEF Inv, ManagerInv, ManagerOK, StreamInv, StreamOK, TypeOK
<1> QED BY Invariant, <1>1, PTL

\* A shell whose session was given up always has somebody who will close it,
\* and a shutdown that did not run out of time leaves none running.
THEOREM ShellAlwaysClosed == Spec => []ShellClosed
<1>1. Inv => ShellClosed
  BY DEF Inv, ManagerInv
<1> QED BY Invariant, <1>1, PTL

\* A client's screen is the stream from where it started, without a gap or a
\* repeat, for any ring, chunk and number of clients.
THEOREM ScreenAlwaysTrue == Spec => []ScreenTrue
<1>1. Inv => ScreenTrue
  BY ScreenShows DEF Inv, StreamInv
<1> QED BY Invariant, <1>1, PTL

\* A client hears of the exit only with all of the output before it.
THEOREM ExitAlwaysLast == Spec => []ExitIsLast
<1>1. Inv => ExitIsLast
  BY DEF Inv, StreamInv, Told, ExitIsLast
<1> QED BY Invariant, <1>1, PTL

\* A record is removed by its end only with its shell closed, unless the wait
\* for a spawn ran out.
THEOREM RecordAlwaysOutlives == Spec => RecordOutlivesClose
<1>1. Inv /\ [Next]_vars
        => [EndReturns /\ ses.here => late \/ shell = "none" \/ close = "done"]_vars
  <2> SUFFICES ASSUME Inv, EndReturns PROVE late \/ shell = "none" \/ close = "done"
    OBVIOUS
  <2>1. task.finish = "done" /\ "finish" \in Closers
    BY DEF EndReturns, Closers
  <2>2. /\ shell = "live" => close # "none"
        /\ close # "running" \/ late \/ shell = "none"
    BY <2>1 DEF Inv, ManagerInv, CloserSaw
  <2> QED BY <2>2 DEF Inv, ManagerInv, ManagerOK
<1> QED BY Invariant, <1>1, PTL DEF Spec, RecordOutlivesClose
=============================================================================
