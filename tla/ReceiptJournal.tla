--------------------------- MODULE ReceiptJournal ---------------------------
(***************************************************************************)
(* The file under WebhookDispatch: the append-only receipt journal of one  *)
(* trigger.  Every writer folds the file under the journal lock, decides,  *)
(* appends one row and trims a file that has grown; an append may be cut   *)
(* short by a crash or an I/O error.  The file is the lines that are left, *)
(* each under the number of its append, in the order of the numbers.  A    *)
(* line has a size in bytes only as far as the trim compares them: each    *)
(* row of a receipt is wider than the one before it, the launching row by  *)
(* its status and an outcome's row by the detail that it carries.          *)
(***************************************************************************)
EXTENDS Naturals, Sequences, FiniteSets, FiniteSetsExt, Functions

CONSTANTS Keys,        \* idempotency keys
          Widths,      \* sizes of an event's accepted row
          MaxBytes,    \* RECEIPTS_MAX_BYTES
          KeepRows,    \* RECEIPTS_KEEP_ROWS
          MaxPending,  \* MAX_PENDING_RECEIPTS
          Retention,   \* DEDUPE_RETENTION_DAYS
          MaxDay,      \* bound: the clock
          MaxWrites    \* bound: appends

ASSUME JournalAssumption ==
  /\ Widths \subseteq Nat \ {0}
  /\ {MaxBytes, KeepRows, MaxPending, Retention, MaxDay, MaxWrites} \subseteq Nat

Opened == {"accepted", "launching"}
Terminal == {"launched", "failed", "interrupted"}

Ids == Keys \X (1..MaxWrites)
NoId == <<>>

\* What a status adds to the width of a receipt's row.
Extra == [accepted |-> 0, launching |-> 1, launched |-> 2, failed |-> 2, interrupted |-> 2,
          torn |-> 0]

\* One line of the file; a torn line has no id.
Line(id, status, text, day) ==
  [id |-> id, status |-> status, text |-> text, day |-> day,
   size |-> text + Extra[status]]
Torn == Line(NoId, "torn", 1, 0)

VARIABLES
  journal,  \* the lines of the file, by the number of their append
  midLine,  \* its last byte is not a newline
  now,      \* the day
  writes,   \* appends so far
  events,   \* history: the days on which each key got a new receipt
  last      \* history: the last status written for each id

vars == <<journal, midLine, now, writes, events, last>>

-----------------------------------------------------------------------------
(* Reading: the fold.                                                      *)

Lines(J) == {J[n] : n \in DOMAIN J}
Readable(J) == {line.id : line \in Lines(J)} \ {NoId}

\* The latest row of an id wins.
Rows(J, id) == {n \in DOMAIN J : J[n].id = id}
Row(J, id) == J[Max(Rows(J, id))]

OpenIds(J) == {id \in Readable(J) : Row(J, id).status \in Opened}

Bytes(J) == FoldFunction(LAMBDA line, sum : line.size + sum, 0, J)

\* Mutant of Recent: the window ends a day early.
RecentShort(day) == day + Retention > now

\* The dedupe window.
Recent(day) == day + Retention >= now

\* The pair has a receipt that a retry collapses onto.
Live(k) ==
  \E id \in Readable(journal) : id[1] = k /\ Recent(Row(journal, id).day)

\* Mutant of Generation: counts from the receipts there are.
GenerationCounted(k) == Cardinality({id \in Readable(journal) : id[1] = k})

\* The first generation of the key that no readable row uses.
Generation(k) ==
  CHOOSE g \in 1..MaxWrites :
    /\ <<k, g>> \notin Readable(journal)
    /\ \A h \in 1..(g - 1) : <<k, h>> \in Readable(journal)

-----------------------------------------------------------------------------
(* Writing.                                                                *)

\* Mutant of Joined: the row is written straight after a torn tail.
JoinedWelded(J, line) ==
  IF midLine /\ J # <<>>
  THEN [J EXCEPT ![Max(DOMAIN J)] = [Torn EXCEPT !.size = @ + line.size]]
  ELSE [n \in DOMAIN J \cup {writes + 1} |-> IF n \in DOMAIN J THEN J[n] ELSE line]

\* A tail without a newline is closed off first.
Joined(J, line) ==
  [n \in DOMAIN J \cup {writes + 1} |-> IF n \in DOMAIN J THEN J[n] ELSE line]

\* Mutant of Budget: the unsettled rows are not charged to it.
BudgetWhole(J) == MaxBytes

\* What is left for settled rows once the unsettled ones are paid for.
Budget(J) ==
  LET unsettled == Bytes(RestrictValues(J, LAMBDA line : line.id \in OpenIds(J)))
  IN  IF unsettled > MaxBytes THEN 0 ELSE MaxBytes - unsettled

\* The trim keeps K: every row of an unsettled receipt, and settled rows from
\* the newest back while rows and budget last.  A row too wide is passed over,
\* and an older one may still fit.
Trimmed(J) ==
  LET open == {n \in DOMAIN J : J[n].id \in OpenIds(J)}
      budget == Budget(J)
      Newer(n, S) == {m \in S : m > n}
      Fits(n, S) == /\ Cardinality(Newer(n, S)) < KeepRows
                    /\ Bytes(Restrict(J, Newer(n, S))) + J[n].size <= budget
  IN  {Restrict(J, open \cup S) :
         S \in {T \in SUBSET (DOMAIN J \ open) :
                 \A n \in DOMAIN J \ open : n \in T <=> Fits(n, T)}}

\* _append: the row, then the trim if the file has grown and nothing fails.
Write(line) ==
  /\ writes < MaxWrites
  /\ writes' = writes + 1
  /\ LET J == Joined(journal, line)
     IN  \/ journal' = J
         \/ Bytes(J) >= MaxBytes /\ journal' \in Trimmed(J)
  /\ midLine' = FALSE
  /\ last' = [last EXCEPT ![line.id] = line.status]

\* A crash or an I/O error in the append, after the row's bytes.
WriteCutLate(line, newline) ==
  /\ writes < MaxWrites
  /\ writes' = writes + 1
  /\ journal' = Joined(journal, line)
  /\ midLine' = ~newline
  /\ last' = [last EXCEPT ![line.id] = line.status]

\* ... or in the middle of them.
WriteCutEarly ==
  /\ writes < MaxWrites
  /\ writes' = writes + 1
  /\ journal' = Joined(journal, Torn)
  /\ midLine' = TRUE
  /\ UNCHANGED last

\* A whole row reaches the file, whether or not the writer learns of it.
Written(line) == Write(line) \/ \E newline \in BOOLEAN : WriteCutLate(line, newline)

-----------------------------------------------------------------------------
(* The receiver's operations, each one critical section.                   *)

\* receive of an event that is no retry and within the pending bound.
Receivable(k) == ~Live(k) /\ Cardinality(OpenIds(journal)) < MaxPending

Receive(k, w) ==
  /\ Receivable(k)
  /\ Written(Line(<<k, Generation(k)>>, "accepted", w, now))
  /\ events' = [events EXCEPT ![k] = Append(@, now)]
  /\ UNCHANGED now

ReceiveTorn(k) ==
  /\ Receivable(k)
  /\ WriteCutEarly
  /\ UNCHANGED <<now, events>>

\* begin_launch, settle_launched, settle_failed and recover_interrupted: the
\* states they leave and enter.
Moves == {<<"accepted", "launching">>, <<"launching", "launched">>,
          <<"accepted", "failed">>, <<"launching", "failed">>,
          <<"launching", "interrupted">>}

Move(id, s) ==
  /\ id \in Readable(journal)
  /\ LET row == Row(journal, id)
     IN  /\ <<row.status, s>> \in Moves
         /\ Written(Line(id, s, row.text, row.day))
  /\ UNCHANGED <<now, events>>

MoveTorn(id) ==
  /\ id \in OpenIds(journal)
  /\ WriteCutEarly
  /\ UNCHANGED <<now, events>>

Tomorrow ==
  /\ now < MaxDay
  /\ now' = now + 1
  /\ UNCHANGED <<journal, midLine, writes, events, last>>

Init ==
  /\ journal = <<>>
  /\ midLine = FALSE
  /\ now = 0
  /\ writes = 0
  /\ events = [k \in Keys |-> <<>>]
  /\ last = [id \in Ids |-> "none"]

Next ==
  \/ \E k \in Keys, w \in Widths : Receive(k, w)
  \/ \E k \in Keys : ReceiveTorn(k)
  \/ \E id \in Ids, s \in Terminal \cup {"launching"} : Move(id, s)
  \/ \E id \in Ids : MoveTorn(id)
  \/ Tomorrow

Spec == Init /\ [][Next]_vars

-----------------------------------------------------------------------------
(* Properties.                                                             *)

\* Types; and the rows of one id tell of one event.
TypeOK ==
  /\ DOMAIN journal \subseteq 1..writes
  /\ \A line \in Lines(journal) :
       line.id = NoId \/ /\ line.id \in Ids /\ line.status \in Opened \cup Terminal
                         /\ line.text \in Widths /\ line.day \in 0..now
  /\ \A a, b \in Lines(journal) : a.id = b.id => a.day = b.day /\ a.text = b.text
  /\ midLine \in BOOLEAN
  /\ now \in 0..MaxDay /\ writes \in 0..MaxWrites
  /\ events \in [Keys -> Seq(0..now)]
  /\ last \in [Ids -> {"none"} \cup Opened \cup Terminal]

\* An open receipt is never lost and never read as an older state: torn tails,
\* trims and whatever else has been written since leave its last row in force.
OpenKept ==
  \A id \in Ids :
    last[id] \in Opened => id \in Readable(journal) /\ Row(journal, id).status = last[id]

\* While an event is open, a retry of it within the window is never another event.
OneOpen ==
  \A a, b \in OpenIds(journal) :
    a # b /\ a[1] = b[1] =>
      LET x == Row(journal, a).day
          y == Row(journal, b).day
      IN  x + Retention < y \/ y + Retention < x

\* A trim brings the file under its bound, unless open receipts alone exceed it.
TrimBounds ==
  [][~ (DOMAIN journal \subseteq DOMAIN journal')
       => \/ Bytes(journal') <= MaxBytes
          \/ \A line \in Lines(journal') : line.id \in OpenIds(journal')]_vars

\* ``The states a receipt never leaves'': what has been read as settled is never
\* read as open again.
SettledNeverReopens ==
  [][\A id \in Readable(journal) \cap Readable(journal') :
       Row(journal, id).status \in Terminal
         => Row(journal', id).status \in Terminal]_vars

\* ``How long a pair keeps collapsing retries onto one receipt'': a key gets
\* another receipt only after the window of the one before.
RetriesCollapse ==
  \A k \in Keys : \A i \in 1..(Len(events[k]) - 1) :
    events[k][i] + Retention < events[k][i + 1]

\* The same journal with no trim that drops a line that was there: the trim alone
\* breaks the two claims above.
UntrimmedSpec == Init /\ [][Next /\ DOMAIN journal \subseteq DOMAIN journal']_vars

\* What a reader has for an id.
Status(J, id) == IF id \in Readable(J) THEN Row(J, id).status ELSE "none"

\* The file is a map from receipts to states, as the dispatch takes it: a step
\* leaves a receipt's state, makes it accepted, or makes one of the moves.
StatusMoves ==
  [][\A id \in Ids :
       \/ Status(journal', id) = Status(journal, id)
       \/ <<Status(journal, id), Status(journal', id)>> \in Moves \cup {<<"none", "accepted">>}]_vars
=============================================================================
