------------------------- MODULE DelegationContract -------------------------
(***************************************************************************)
(* What a task promises about the attempts made at it, whatever turns,     *)
(* approvals, releases and restarts do to them: one attempt at a time      *)
(* holds the task, whoever asks, and a new attempt or one that has lost it *)
(* can take it only while nobody holds it.                                 *)
(***************************************************************************)
CONSTANTS Attempts, NoAttempt

VARIABLES holder,   \* the attempt that holds the task, or NoAttempt
          phase     \* what became of each attempt

vars == <<holder, phase>>

Held == {"working", "waiting", "review"}

Init == holder = NoAttempt /\ phase = [a \in Attempts |-> "new"]

\* A free task is handed to a new attempt, or back to one that was cut off.
Take(a) ==
  /\ holder = NoAttempt
  /\ phase[a] \in {"new", "over"}
  /\ holder' = a
  /\ phase' = [phase EXCEPT ![a] = "working"]

\* The holder's turns begin and end.
Turn(a, p) ==
  /\ holder = a
  /\ p \in Held
  /\ holder' = holder
  /\ phase' = [phase EXCEPT ![a] = p]

\* The holder loses the task: settled, or released with its result.
Leave(a) ==
  /\ holder = a
  /\ holder' = NoAttempt
  /\ phase' = [phase EXCEPT ![a] = "over"]

Next == \E a \in Attempts : \/ Take(a) \/ Leave(a)
                            \/ \E p \in Held : Turn(a, p)

Spec == Init /\ [][Next]_vars
=============================================================================
