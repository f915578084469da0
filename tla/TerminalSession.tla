--------------------------- MODULE TerminalSession ---------------------------
(***************************************************************************)
(* One terminal session: the record in the manager's registry, its shell   *)
(* with the tasks that start, read and close it, the ring its output is    *)
(* kept in, and the browser connections that take turns to control it.     *)
(*                                                                         *)
(* The event loop runs one task at a time; the shell is started and closed *)
(* on threads, so the answers come later.  A byte of output is known by    *)
(* its offset in the stream.                                               *)
(***************************************************************************)
EXTENDS Integers, Sequences

CONSTANTS Conns,      \* connection ids: a socket has one of its own
          NoConn,
          Capacity,   \* TERMINAL_REPLAY_BYTES
          MaxChunk,   \* TERMINAL_REPLAY_CHUNK_BYTES
          MaxBytes    \* bound on the output

ASSUME SessionAssumption ==
  /\ NoConn \notin Conns
  /\ Capacity \in Nat \ {0} /\ MaxChunk \in 1 .. Capacity /\ MaxBytes \in Nat

VARIABLES ses,      \* the record
          shell,    \* what the factory started ...
          close,    \* ... and the task that closes it
          task,     \* the other tasks
          late,     \* a wait for the spawn has run out
          seq,      \* bytes the shell has written
          ring,     \* the storage of the replay buffer
          conn      \* the sockets

manager == <<ses, shell, close, task, late>>
vars == <<manager, seq, ring, conn>>

Closers == {"finish", "finalize"}

Tasks == [spawn : {"none", "thread", "closing", "done"},
          creator : {"none", "waiting", "back"},
          reader : {"off", "poll", "closing", "done"},
          finish : {"none", "spawn", "close", "done"},     \* _finish_session_inner
          finalize : {"none", "spawn", "close", "done"},   \* _finalize
          ender : {"none", "waiting"},
          shutdown : {"none", "spawns", "finish", "join", "done", "left"},
          listed : BOOLEAN]                                \* by the shutdown

\* ``here'' is the place in the registry, ``clock'' the deadline that
\* detached_since sets.
Session == [here : BOOLEAN, controller : Conns \cup {NoConn}, last : Conns \cup {NoConn},
            generation : Nat, clock : {"off", "running", "due"},
            gone : BOOLEAN, exited : BOOLEAN, closing : BOOLEAN, ended : BOOLEAN]

Socket == [pc : {"idle", "replay", "pump", "wait", "hangup", "gone"},
           generation : Nat, from : 0 .. MaxBytes, cursor : 0 .. MaxBytes,
           screen : Seq(0 .. MaxBytes), told : BOOLEAN]

Fresh(pc) ==
  [pc |-> pc, generation |-> 0, from |-> 0, cursor |-> 0, screen |-> <<>>, told |-> FALSE]

Init ==
  /\ ses = [here |-> FALSE, controller |-> NoConn, last |-> NoConn, generation |-> 0,
            clock |-> "off", gone |-> FALSE, exited |-> FALSE, closing |-> FALSE, ended |-> FALSE]
  /\ shell = "none" /\ close = "none" /\ late = FALSE
  /\ task = [spawn |-> "none", creator |-> "none", reader |-> "off", finish |-> "none",
             finalize |-> "none", ender |-> "none", shutdown |-> "none",
             listed |-> FALSE]
  /\ seq = 0
  /\ ring = [p \in 0 .. Capacity - 1 |-> 0]
  /\ conn = [c \in Conns |-> Fresh("idle")]

-----------------------------------------------------------------------------
(* The replay buffer *)

Larger(a, b) == IF a > b THEN a ELSE b
Smaller(a, b) == IF a < b THEN a ELSE b

Oldest == Larger(0, seq - Capacity)

\* append
Appended(n) ==
  /\ seq' = seq + n
  /\ ring' = [p \in DOMAIN ring |->
                IF \E k \in seq .. seq + n - 1 : k % Capacity = p
                  THEN CHOOSE k \in seq .. seq + n - 1 : k % Capacity = p ELSE ring[p]]

\* The bytes of a half-open range, copied out of the ring.
Copied(start, end) == [k \in 1 .. end - start |-> ring[(start + k - 1) % Capacity]]

-----------------------------------------------------------------------------
(* Creating *)

\* A session starts detached, with its deadline running.
Create ==
  /\ task.creator = "none" /\ task.shutdown = "none"
  /\ ses' = [ses EXCEPT !.here = TRUE, !.clock = "running"]
  /\ task' = [task EXCEPT !.creator = "waiting", !.spawn = "thread"]
  /\ UNCHANGED <<shell, close, late, seq, ring, conn>>

\* Mutant of ReaderGone: a cancelled reader announces the exit and no more.
ReaderGoneHalf(s) ==
  IF task.reader \in {"poll", "closing"} THEN [s EXCEPT !.exited = TRUE] ELSE s

\* The reader is cancelled; it ends there and then.
ReaderGone(s) ==
  IF task.reader \in {"poll", "closing"} THEN [s EXCEPT !.gone = TRUE, !.exited = TRUE] ELSE s
ReaderDone == IF task.reader = "off" THEN "off" ELSE "done"

Over(s) == [s EXCEPT !.closing = TRUE, !.ended = TRUE]

\* _abandon
Abandon ==
  /\ ses' = ReaderGone(Over([ses EXCEPT !.here = FALSE]))
  /\ task' = [task EXCEPT !.creator = "back", !.reader = ReaderDone, !.finalize = "spawn"]

CreateReturns ==
  /\ task.creator = "waiting" /\ task.spawn = "done"
  /\ IF shell = "none" \/ ses.closing \/ task.shutdown # "none" THEN Abandon
     ELSE ses' = ses /\ task' = [task EXCEPT !.creator = "back"]
  /\ UNCHANGED <<shell, close, late, seq, ring, conn>>

CreateCancelled ==
  /\ task.creator = "waiting"
  /\ Abandon
  /\ UNCHANGED <<shell, close, late, seq, ring, conn>>

SpawnFails ==
  /\ task.spawn = "thread"
  /\ task' = [task EXCEPT !.spawn = "done"]
  /\ UNCHANGED <<ses, shell, close, late, seq, ring, conn>>

\* Mutant of Spawned: a shell that comes too late is read like any other.
SpawnedAnyway ==
  /\ task.spawn = "thread"
  /\ shell' = "live"
  /\ task' = [task EXCEPT !.spawn = "done", !.reader = "poll"]
  /\ UNCHANGED <<ses, close, late, seq, ring, conn>>

\* A shell that comes after the session was given up is closed by the spawn.
Spawned ==
  /\ task.spawn = "thread"
  /\ shell' = "live"
  /\ IF ses.closing \/ task.shutdown # "none"
       THEN close' = "running" /\ task' = [task EXCEPT !.spawn = "closing"]
       ELSE close' = close /\ task' = [task EXCEPT !.spawn = "done", !.reader = "poll"]
  /\ UNCHANGED <<ses, late, seq, ring, conn>>

SpawnEnds ==
  /\ task.spawn = "closing" /\ close = "done"
  /\ task' = [task EXCEPT !.spawn = "done"]
  /\ UNCHANGED <<ses, shell, close, late, seq, ring, conn>>

-----------------------------------------------------------------------------
(* The shell *)

ReaderReads ==
  /\ task.reader = "poll" /\ ~ses.closing
  /\ \E n \in 1 .. MaxChunk : seq + n <= MaxBytes /\ Appended(n)
  /\ UNCHANGED <<manager, conn>>

\* _close_session_process: one close, whoever asks.
Closed == IF close = "none" /\ shell # "none" THEN "running" ELSE close

\* The shell ended, or the terminal failed.
ReaderEnds ==
  /\ task.reader = "poll" /\ ~ses.closing
  /\ ses' = [ses EXCEPT !.gone = TRUE]
  /\ close' = Closed
  /\ task' = [task EXCEPT !.reader = "closing"]
  /\ UNCHANGED <<shell, late, seq, ring, conn>>

\* Mutant of Released: an exited session has no deadline.
ReleasedUntimed ==
  [ses EXCEPT !.last = ses.controller, !.controller = NoConn, !.exited = TRUE]

Released ==
  [ses EXCEPT !.last = ses.controller, !.controller = NoConn, !.exited = TRUE,
              !.clock = IF @ = "off" THEN "running" ELSE @]

ReaderCloses ==
  /\ task.reader = "closing" /\ close = "done"
  /\ ses' = Released
  /\ task' = [task EXCEPT !.reader = "done"]
  /\ UNCHANGED <<shell, close, late, seq, ring, conn>>

\* The reader sees close_requested before anybody cancels it.
ReaderStops ==
  /\ task.reader = "poll" /\ ses.closing
  /\ ses' = ReaderGone(ses)
  /\ task' = [task EXCEPT !.reader = "done"]
  /\ UNCHANGED <<shell, close, late, seq, ring, conn>>

CloseReturns ==
  /\ close = "running"
  /\ close' = "done"
  /\ UNCHANGED <<ses, shell, task, late, seq, ring, conn>>

-----------------------------------------------------------------------------
(* Ending *)

\* Mutant of Finishing: the caller does not wait for the shell to be closed.
FinishingOpen(t) == [t EXCEPT !.finish = IF @ = "none" THEN "done" ELSE @, !.reader = ReaderDone]

\* _finish_session starts the task that closes the session, unless it is there.
Finishing(t) == [t EXCEPT !.finish = IF @ = "none" THEN "spawn" ELSE @, !.reader = ReaderDone]

End ==
  /\ ses.here /\ task.ender = "none"
  /\ ses' = ReaderGone(Over(ses))
  /\ task' = Finishing([task EXCEPT !.ender = "waiting"])
  /\ UNCHANGED <<shell, close, late, seq, ring, conn>>

EndReturns ==
  /\ task.ender = "waiting" /\ task.finish = "done"
  /\ ses' = [ses EXCEPT !.here = FALSE]
  /\ task' = [task EXCEPT !.ender = "none"]
  /\ UNCHANGED <<shell, close, late, seq, ring, conn>>

EndCancelled ==
  /\ task.ender = "waiting"
  /\ task' = [task EXCEPT !.ender = "none"]
  /\ UNCHANGED <<ses, shell, close, late, seq, ring, conn>>

Elapse ==
  /\ ses.here /\ ses.clock = "running"
  /\ ses' = [ses EXCEPT !.clock = "due"]
  /\ UNCHANGED <<shell, close, task, late, seq, ring, conn>>

\* reap_expired
Reap ==
  /\ ses.here /\ task.shutdown = "none"
  /\ ses.controller = NoConn \/ ses.gone
  /\ ses.clock = "due"
  /\ ses' = ReaderGone(Over([ses EXCEPT !.here = FALSE]))
  /\ task' = Finishing(task)
  /\ UNCHANGED <<shell, close, late, seq, ring, conn>>

SpawnDone == task.spawn \notin {"thread", "closing"}

\* A finish or a finalizer waits for the spawn, but not for ever, and closes
\* the shell that is there.
CloserCloses(k) ==
  /\ task[k] = "spawn"
  /\ late' = (late \/ ~SpawnDone)
  /\ close' = Closed
  /\ task' = [task EXCEPT ![k] = IF close' = "running" THEN "close" ELSE "done"]
  /\ UNCHANGED <<ses, shell, seq, ring, conn>>

CloserEnds(k) ==
  /\ task[k] = "close" /\ close = "done"
  /\ task' = [task EXCEPT ![k] = "done"]
  /\ UNCHANGED <<ses, shell, close, late, seq, ring, conn>>

Shutdown ==
  /\ task.shutdown = "none"
  /\ ses' = IF ses.here THEN Over(ses) ELSE ses
  /\ task' = [task EXCEPT !.shutdown = "spawns", !.listed = ses.here]
  /\ UNCHANGED <<shell, close, late, seq, ring, conn>>

ShutdownCloses ==
  /\ task.shutdown = "spawns"
  /\ late' = (late \/ ~SpawnDone)
  /\ IF task.listed
       THEN ses' = ReaderGone(ses) /\ task' = Finishing([task EXCEPT !.shutdown = "finish"])
       ELSE ses' = ses /\ task' = [task EXCEPT !.shutdown = "finish"]
  /\ UNCHANGED <<shell, close, seq, ring, conn>>

\* No task of the manager is left to join.
Joined == task.finish \in {"none", "done"} /\ close # "running"

\* The listed session is finished and no finalizer is left: the registry is
\* cleared, and what the manager still owns is joined.
ShutdownClears ==
  /\ task.shutdown = "finish"
  /\ task.listed => task.finish = "done"
  /\ task.finalize \in {"none", "done"}
  /\ ses' = [ses EXCEPT !.here = FALSE]
  /\ task' = [task EXCEPT !.shutdown = IF Joined THEN "done" ELSE "join"]
  /\ UNCHANGED <<shell, close, late, seq, ring, conn>>

\* The join is over, or its time is.
ShutdownEnds ==
  /\ task.shutdown = "join"
  /\ task' = [task EXCEPT !.shutdown = IF Joined THEN "done" ELSE "left"]
  /\ UNCHANGED <<ses, shell, close, late, seq, ring, conn>>

-----------------------------------------------------------------------------
(* Connections *)

\* attach, and the snapshot that the route sends from it.
Attach(c, offset, takeover) ==
  LET displaced == ses.controller \notin {NoConn, c}
      start == Larger(offset, Oldest)
  IN
  /\ conn[c].pc = "idle" /\ ses.here
  /\ displaced => takeover
  /\ ses' = [ses EXCEPT !.controller = c, !.last = c,
                        !.generation = IF displaced THEN @ + 1 ELSE @,
                        !.clock = IF ses.gone THEN @ ELSE "off"]
  /\ conn' = [conn EXCEPT ![c].pc = "replay", ![c].from = start, ![c].cursor = seq,
                          ![c].screen = Copied(start, seq)]
  /\ UNCHANGED <<shell, close, task, late, seq, ring>>

\* Outside a wait nobody looks at the generation it started in.
Goes(c, pc) ==
  /\ conn' = [conn EXCEPT ![c].pc = pc, ![c].generation = 0]
  /\ UNCHANGED <<manager, seq, ring>>

Replayed(c) == conn[c].pc = "replay" /\ Goes(c, "pump")

\* The socket breaks under a frame of the snapshot: the route returns.
ReplayBroken(c) ==
  /\ conn[c].pc = "replay"
  /\ conn' = [conn EXCEPT ![c] = Fresh("gone")]
  /\ UNCHANGED <<manager, seq, ring>>

\* _require_output_reader
MayRead(c) ==
  /\ ses.here
  /\ \/ ses.controller = c
     \/ ses.controller = NoConn /\ ses.gone /\ ses.last = c

\* Mutant of AllSent: the exit is reported as soon as it is known.
AllSentOnExit(c) == ses.here /\ ses.exited

AllSent(c) == ses.here /\ ses.exited /\ conn[c].cursor >= seq

PumpExits(c) ==
  /\ conn[c].pc = "pump" /\ AllSent(c)
  /\ conn' = [conn EXCEPT ![c].pc = "hangup", ![c].told = TRUE]
  /\ UNCHANGED <<manager, seq, ring>>

PumpWaits(c) ==
  /\ conn[c].pc = "pump" /\ ~AllSent(c)
  /\ conn' = [conn EXCEPT ![c].pc = IF MayRead(c) THEN "wait" ELSE "hangup",
                          ![c].generation = IF MayRead(c) THEN ses.generation ELSE 0]
  /\ UNCHANGED <<manager, seq, ring>>

\* What ends the wait without output.
Displaced(c) == ses.ended \/ ses.generation # conn[c].generation

\* Mutant of Readable: a reader that has fallen behind goes on at the oldest byte.
ReadableClamped(c) == MayRead(c)

\* read refuses an offset that is evicted (slow_consumer).
Readable(c) == MayRead(c) /\ conn[c].cursor >= Oldest

\* The wait is over, or its time is.
WaitEnds(c) ==
  /\ conn[c].pc = "wait"
  /\ Displaced(c) \/ seq <= conn[c].cursor \/ ~Readable(c)
  /\ Goes(c, IF ~Displaced(c) /\ seq <= conn[c].cursor THEN "pump" ELSE "hangup")

Sent(c) ==
  LET end == Smaller(seq, conn[c].cursor + MaxChunk) IN
  /\ conn[c].pc = "wait"
  /\ ~Displaced(c) /\ seq > conn[c].cursor /\ Readable(c)
  /\ conn' = [conn EXCEPT ![c].pc = "pump", ![c].cursor = end, ![c].generation = 0,
                          ![c].screen = @ \o Copied(conn[c].cursor, end)]
  /\ UNCHANGED <<manager, seq, ring>>

\* The client leaves.
Leaves(c) == conn[c].pc \in {"pump", "wait"} /\ Goes(c, "hangup")

Detach(c) ==
  /\ conn[c].pc = "hangup"
  /\ ses' = IF ses.here /\ ses.controller = c
              THEN [ses EXCEPT !.controller = NoConn, !.clock = IF ses.gone THEN @ ELSE "running"]
              ELSE ses
  /\ conn' = [conn EXCEPT ![c] = Fresh("gone")]
  /\ UNCHANGED <<shell, close, task, late, seq, ring>>

Next ==
  \/ Create \/ CreateReturns \/ CreateCancelled \/ SpawnFails \/ Spawned \/ SpawnEnds
  \/ ReaderReads \/ ReaderEnds \/ ReaderCloses \/ ReaderStops \/ CloseReturns
  \/ End \/ EndReturns \/ EndCancelled \/ Elapse \/ Reap
  \/ \E k \in Closers : CloserCloses(k) \/ CloserEnds(k)
  \/ Shutdown \/ ShutdownCloses \/ ShutdownClears \/ ShutdownEnds
  \/ \E c \in Conns :
       \/ \E offset \in 0 .. seq, takeover \in BOOLEAN : Attach(c, offset, takeover)
       \/ Replayed(c) \/ ReplayBroken(c) \/ PumpExits(c) \/ PumpWaits(c)
       \/ WaitEnds(c) \/ Sent(c) \/ Leaves(c) \/ Detach(c)

Spec == Init /\ [][Next]_vars

\* Threads answer, tasks run, time passes and the sweeper looks again.
FairSpec ==
  /\ Spec
  /\ WF_vars(SpawnFails \/ Spawned) /\ WF_vars(SpawnEnds)
  /\ WF_vars(ReaderCloses \/ ReaderStops) /\ WF_vars(CloseReturns)
  /\ WF_vars(Elapse) /\ WF_vars(Reap)
  /\ \A k \in Closers : WF_vars(CloserCloses(k) \/ CloserEnds(k))
  /\ WF_vars(ShutdownCloses \/ ShutdownClears \/ ShutdownEnds)

-----------------------------------------------------------------------------
TypeOK ==
  /\ ses \in Session /\ (ses.exited => ses.gone)
  /\ shell \in {"none", "live"} /\ close \in {"none", "running", "done"}
  /\ task \in Tasks /\ late \in BOOLEAN
  /\ seq \in 0 .. MaxBytes /\ ring \in [0 .. Capacity - 1 -> 0 .. MaxBytes]
  /\ conn \in [Conns -> Socket]

\* A shell whose session was given up has somebody who will close it, whichever
\* of create, cancel, end, reap, shutdown and a late spawn met; and a shutdown
\* that has cleared the registry leaves none running, unless the wait for a spawn
\* ran out, or the last join before the close of a session the sweep had removed.
HasCloser ==
  \/ \E k \in Closers : task[k] = "spawn"
  \/ task.shutdown = "spawns" /\ task.listed

ShellClosed ==
  /\ shell = "live" /\ close = "none" /\ (~ses.here \/ ses.closing) => HasCloser
  /\ task.shutdown = "done" \/ (task.shutdown \in {"join", "left"} /\ task.listed)
       => late \/ shell = "none" \/ close = "done"

\* A client's screen is the stream from where it started, without a gap or a
\* repeat, across the snapshot, the reads and the ring's eviction.
ScreenTrue ==
  \A c \in Conns :
    /\ conn[c].screen = [k \in 1 .. Len(conn[c].screen) |-> conn[c].from + k - 1]
    /\ conn[c].from + Len(conn[c].screen) = conn[c].cursor

\* A client hears of the exit only with all of the output before it.
ExitIsLast == \A c \in Conns : conn[c].told => conn[c].cursor = seq

\* A record is removed by its end only with its shell closed (``a record
\* outlives its close''), unless the wait for a spawn ran out.
RecordOutlivesClose ==
  [][EndReturns /\ ses.here => late \/ shell = "none" \/ close = "done"]_vars

\* A session that nobody controls, or whose shell is gone, is pruned, attached
\* again or ended.
Detached == ses.here /\ ~ses.closing /\ (ses.controller = NoConn \/ ses.gone)
DetachedPruned == Detached ~> ~Detached

-----------------------------------------------------------------------------
(* What the docs say and the code does not do *)

\* ``A caller that sees exited can rely on the process being closed''.
ExitedIsClosed == ses.here /\ ses.exited => close = "done"

\* ``A session that nobody is attached to is pruned TERMINAL_DETACHED_TTL_S after
\* it became detached''.
Unattended == ses.here /\ ~ses.closing /\ \A c \in Conns : conn[c].pc \in {"idle", "gone"}
UnattendedPruned == Unattended ~> ~Unattended
=============================================================================
