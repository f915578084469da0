-------------------------- MODULE MessageLifecycle --------------------------
(***************************************************************************)
(* What a chat promises about each message a client sends, whatever the    *)
(* queues, steers and reloads behind it do: a message waits, runs in a     *)
(* turn or is absorbed by one, and is then done for good.  One turn runs   *)
(* at a time, and a running message comes back to the queue only whole,    *)
(* when its prompt was cancelled before it ran.                            *)
(***************************************************************************)
CONSTANT Msgs

VARIABLE status

Phases == {"unsent", "waiting", "running", "done"}
In(phase) == {m \in Msgs : status[m] = phase}

Move(S, phase) == [m \in Msgs |-> IF m \in S THEN phase ELSE status[m]]

Init == status = [m \in Msgs |-> "unsent"]

\* A send waits, or starts a turn of its own when none runs.
Submit(m) ==
  /\ status[m] = "unsent"
  /\ \/ status' = Move({m}, "waiting")
     \/ In("running") = {} /\ status' = Move({m}, "running")

\* The user takes waiting messages back.
Withdraw(S) ==
  /\ S \subseteq In("waiting")
  /\ status' = Move(S, "unsent")

\* The running messages are done and some of the waiting ones run next.
Advance(S) ==
  /\ S \subseteq In("waiting")
  /\ status' = [m \in Msgs |-> IF m \in In("running") THEN "done"
                               ELSE IF m \in S THEN "running" ELSE status[m]]

\* The running turn takes waiting messages in: a delivered steer.
Absorb(S) ==
  /\ S \subseteq In("waiting")
  /\ status' = Move(S, "done")

\* The prompt never ran: all of it waits again.
Requeue == status' = Move(In("running"), "waiting")

Next ==
  \/ \E m \in Msgs : Submit(m)
  \/ \E S \in SUBSET Msgs : Withdraw(S) \/ Advance(S) \/ Absorb(S)
  \/ Requeue

Spec == Init /\ [][Next]_status
=============================================================================
