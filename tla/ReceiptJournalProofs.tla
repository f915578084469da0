------------------------ MODULE ReceiptJournalProofs ------------------------
(***************************************************************************)
(* Proofs about ReceiptJournal, for any keys, widths, bounds and days: an  *)
(* open receipt survives torn appends and trims, and the trim is decided   *)
(* by the lines.                                                           *)
(***************************************************************************)
EXTENDS ReceiptJournal, SequenceTheorems, FiniteSetTheorems, WellFoundedInduction, TLAPS

\* A line, and the number it was appended under: a generation is never higher
\* than the number of its first append.
GoodLine(line, n, day) ==
  \/ line = Torn
  \/ /\ line.id \in Ids /\ line.id[2] <= n
     /\ line.status \in Opened \cup Terminal
     /\ line.text \in Widths /\ line.day \in 0 .. day
     /\ line.size \in Nat \ {0}

Apart(x, y) == x + Retention < y \/ y + Retention < x

\* The rows of one id tell of one event, and the events of one key are further
\* apart than the window, whether they are open or settled.
Well(J, N, day) ==
  /\ DOMAIN J \subseteq 1 .. N
  /\ \A n \in DOMAIN J : GoodLine(J[n], n, day)
  /\ \A m, n \in DOMAIN J : J[m].id = J[n].id => J[m].day = J[n].day /\ J[m].text = J[n].text
  /\ \A m, n \in DOMAIN J :
       J[m].id # NoId /\ J[n].id # NoId /\ J[m].id # J[n].id /\ J[m].id[1] = J[n].id[1]
         => Apart(J[m].day, J[n].day)

Told(J, L) ==
  \A id \in Ids : L[id] \in Opened => id \in Readable(J) /\ Row(J, id).status = L[id]

Inv ==
  /\ Well(journal, writes, now) /\ Told(journal, last)
  /\ midLine \in BOOLEAN
  /\ now \in 0 .. MaxDay /\ writes \in 0 .. MaxWrites
  /\ events \in [Keys -> Seq(0 .. now)]
  /\ last \in [Ids -> {"none"} \cup Opened \cup Terminal]

-----------------------------------------------------------------------------
(* Numbers and lines *)

LEMMA Bounds ==
  /\ MaxBytes \in Nat /\ KeepRows \in Nat /\ MaxPending \in Nat /\ Retention \in Nat
  /\ MaxDay \in Nat /\ MaxWrites \in Nat /\ Widths \subseteq Nat
  BY JournalAssumption

LEMMA Least ==
  ASSUME NEW T \in SUBSET Nat, T # {}
  PROVE  \E n \in T : \A m \in T : n <= m
<1> DEFINE R == OpToRel(<, Nat)
<1>1. IsWellFoundedOn(R, Nat)
  BY NatLessThanWellFounded
<1>2. \A m, n \in Nat : m < n => <<m, n>> \in R
  BY DEF OpToRel
<1> HIDE DEF R
<1>3. PICK n \in T : \A m \in T : ~(<<m, n>> \in R)
  BY <1>1, WFMin
<1>4. ASSUME NEW m \in T PROVE n <= m
  <2>1. m \in Nat /\ n \in Nat /\ ~(m < n)
    BY <1>2, <1>3
  <2> QED BY <2>1
<1> QED BY <1>4

\* What holds of N and, where it holds of n, of n - 1, holds down to 0.
LEMMA Downward ==
  ASSUME NEW N \in Nat, NEW G, N \in G, \A n \in 1 .. N : n \in G => n - 1 \in G
  PROVE  \A n \in 0 .. N : n \in G
<1> SUFFICES ASSUME NEW n \in 0 .. N, n \notin G PROVE FALSE
  OBVIOUS
<1> DEFINE T == {d \in 0 .. N : N - d \notin G}
<1>1. N - n \in T /\ T \in SUBSET Nat
  BY Z3
<1> HIDE DEF T
<1>2. PICK d \in T : \A e \in T : d <= e
  BY <1>1, Least
<1>3. d \in 0 .. N /\ N - d \notin G
  BY DEF T
<1>4. d # 0
  BY <1>3
<1>5. d - 1 \notin T
  BY <1>2, <1>3
<1>6. d - 1 \in 0 .. N /\ N - (d - 1) \in 1 .. N
  BY <1>3, <1>4
<1>7. N - (d - 1) \in G
  BY <1>5, <1>6 DEF T
<1>8. (N - (d - 1)) - 1 \in G
  BY <1>6, <1>7
<1>9. (N - (d - 1)) - 1 = N - d
  BY <1>3
<1> QED BY <1>3, <1>8, <1>9

LEMMA MaxIn ==
  ASSUME NEW N \in Nat, NEW S \in SUBSET (1 .. N), S # {}
  PROVE  Max(S) \in S /\ \A y \in S : y <= Max(S)
<1> DEFINE T == {d \in Nat : \E s \in S : d = N - s}
<1>1. \A s \in S : N - s \in T
  OBVIOUS
<1>2. T # {} /\ T \in SUBSET Nat
  BY <1>1
<1> HIDE DEF T
<1>3. PICK d \in T : \A e \in T : d <= e
  BY <1>2, Least
<1>4. PICK s \in S : d = N - s
  BY DEF T
<1>5. \A y \in S : s >= y
  <2> SUFFICES ASSUME NEW y \in S PROVE s >= y
    OBVIOUS
  <2>1. N - s <= N - y
    BY <1>1, <1>3, <1>4
  <2> QED BY <2>1
<1>6. \E x \in S : \A y \in S : x >= y
  BY <1>5
<1>7. Max(S) \in S /\ \A y \in S : Max(S) >= y
  BY <1>6 DEF Max
<1> QED BY <1>7

LEMMA IdsFacts ==
  /\ NoId \notin Ids
  /\ \A id \in Ids : id = <<id[1], id[2]>> /\ id[1] \in Keys /\ id[2] \in 1 .. MaxWrites
  /\ Torn.id = NoId
  BY DEF NoId, Ids, Torn, Line

\* The latest row of an id is one of its rows.
LEMMA RowIs ==
  ASSUME NEW J, NEW N \in Nat, DOMAIN J \subseteq 1 .. N, NEW id \in Readable(J)
  PROVE  /\ Max(Rows(J, id)) \in DOMAIN J /\ J[Max(Rows(J, id))] = Row(J, id)
         /\ Row(J, id).id = id
<1>1. Rows(J, id) # {}
  BY DEF Readable, Lines, Rows
<1>2. Rows(J, id) \in SUBSET (1 .. N)
  BY DEF Rows
<1>3. Max(Rows(J, id)) \in Rows(J, id)
  BY <1>1, <1>2, MaxIn
<1> QED BY <1>3 DEF Rows, Row

LEMMA ReadableIds ==
  ASSUME NEW J, NEW N, NEW day, Well(J, N, day)
  PROVE  Readable(J) \subseteq Ids
  BY IdsFacts DEF Readable, Lines, Well, GoodLine

\* Rows that stay in force.
LEMMA SameRow ==
  ASSUME NEW J, NEW L, NEW id, Rows(L, id) = Rows(J, id),
         \A n \in Rows(J, id) : L[n] = J[n],
         NEW N \in Nat, DOMAIN J \subseteq 1 .. N, id \in Readable(J)
  PROVE  id \in Readable(L) /\ Row(L, id) = Row(J, id)
<1>1. Rows(J, id) # {}
  BY DEF Readable, Lines, Rows
<1>2. Rows(J, id) \in SUBSET (1 .. N)
  BY DEF Rows
<1>3. Max(Rows(J, id)) \in Rows(J, id)
  BY <1>1, <1>2, MaxIn
<1>4. Row(L, id) = Row(J, id)
  BY <1>3 DEF Row
<1>5. id \in Readable(L)
  BY <1>3 DEF Readable, Lines, Rows
<1> QED BY <1>4, <1>5

-----------------------------------------------------------------------------
(* An append *)

LEMMA JoinedLines ==
  ASSUME NEW line, writes \in Nat, DOMAIN journal \subseteq 1 .. writes
  PROVE  /\ DOMAIN Joined(journal, line) = DOMAIN journal \cup {writes + 1}
         /\ \A n \in DOMAIN journal : Joined(journal, line)[n] = journal[n]
         /\ Joined(journal, line)[writes + 1] = line
         /\ writes + 1 \notin DOMAIN journal
<1>1. writes + 1 \notin DOMAIN journal
  OBVIOUS
<1> QED BY <1>1 DEF Joined

LEMMA JoinedWell ==
  ASSUME NEW line, writes \in Nat, now \in Nat, Well(journal, writes, now),
         GoodLine(line, writes + 1, now),
         \A n \in DOMAIN journal :
           journal[n].id = line.id => journal[n].day = line.day /\ journal[n].text = line.text,
         \A n \in DOMAIN journal :
           journal[n].id # NoId /\ line.id # NoId /\ journal[n].id # line.id
           /\ journal[n].id[1] = line.id[1]
             => Apart(journal[n].day, line.day)
  PROVE  Well(Joined(journal, line), writes + 1, now)
<1> DEFINE J == Joined(journal, line)
<1>1. /\ DOMAIN J = DOMAIN journal \cup {writes + 1}
      /\ \A n \in DOMAIN journal : J[n] = journal[n]
      /\ J[writes + 1] = line /\ DOMAIN journal \subseteq 1 .. writes
  BY JoinedLines DEF Well
<1> HIDE DEF J
<1>2. DOMAIN J \subseteq 1 .. writes + 1
  BY <1>1
<1>3. \A n \in DOMAIN J : GoodLine(J[n], n, now)
  BY <1>1 DEF Well
<1>4. \A m, n \in DOMAIN J :
        J[m].id = J[n].id => J[m].day = J[n].day /\ J[m].text = J[n].text
  BY <1>1 DEF Well
<1>5. \A m, n \in DOMAIN J :
        J[m].id # NoId /\ J[n].id # NoId /\ J[m].id # J[n].id /\ J[m].id[1] = J[n].id[1]
          => Apart(J[m].day, J[n].day)
  <2>1. ASSUME NEW n \in DOMAIN journal,
               journal[n].id # NoId, line.id # NoId, journal[n].id # line.id,
               journal[n].id[1] = line.id[1]
        PROVE  Apart(journal[n].day, line.day) /\ Apart(line.day, journal[n].day)
    BY <2>1 DEF Apart
  <2>2. \A m, n \in DOMAIN journal :
          journal[m].id # NoId /\ journal[n].id # NoId /\ journal[m].id # journal[n].id
          /\ journal[m].id[1] = journal[n].id[1]
            => Apart(journal[m].day, journal[n].day)
    BY DEF Well
  <2> QED BY <1>1, <2>1, <2>2
<1> QED BY <1>2, <1>3, <1>4, <1>5 DEF Well, J

\* A torn line is nobody's row.
LEMMA TornWell ==
  ASSUME writes \in Nat, now \in Nat, Well(journal, writes, now)
  PROVE  Well(Joined(journal, Torn), writes + 1, now)
<1>1. GoodLine(Torn, writes + 1, now)
  BY DEF GoodLine
<1>2. \A n \in DOMAIN journal : journal[n].id = Torn.id => journal[n] = Torn
  BY IdsFacts DEF Well, GoodLine
<1> QED BY <1>1, <1>2, IdsFacts, JoinedWell

\* The appended row is in force, and so is every other id's latest row.
LEMMA JoinedRow ==
  ASSUME NEW line, writes \in Nat, DOMAIN journal \subseteq 1 .. writes
  PROVE  /\ line.id # NoId =>
              line.id \in Readable(Joined(journal, line)) /\ Row(Joined(journal, line), line.id) = line
         /\ \A id \in Readable(journal) : id # line.id =>
              /\ id \in Readable(Joined(journal, line))
              /\ Row(Joined(journal, line), id) = Row(journal, id)
<1> DEFINE J == Joined(journal, line)
<1>1. /\ DOMAIN J = DOMAIN journal \cup {writes + 1}
      /\ \A n \in DOMAIN journal : J[n] = journal[n]
      /\ J[writes + 1] = line
  BY JoinedLines
<1> HIDE DEF J
<1>2. ASSUME line.id # NoId
      PROVE  line.id \in Readable(J) /\ Row(J, line.id) = line
  <2> DEFINE S == Rows(J, line.id)
             N == writes + 1
  <2>1. S \in SUBSET (1 .. N) /\ N \in S /\ N \in Nat /\ S # {}
    BY <1>1 DEF Rows
  <2> HIDE DEF S, N
  <2>2. Max(S) \in S /\ \A y \in S : y <= Max(S)
    BY <2>1, MaxIn
  <2>3. N <= Max(S) /\ Max(S) \in 1 .. N
    BY <2>1, <2>2
  <2>4. Max(Rows(J, line.id)) = writes + 1
    BY <2>1, <2>3 DEF S, N
  <2> QED BY <1>1, <1>2, <2>4 DEF Row, Readable, Lines
<1>3. ASSUME NEW id \in Readable(journal), id # line.id
      PROVE  id \in Readable(J) /\ Row(J, id) = Row(journal, id)
  <2>1. Rows(J, id) = Rows(journal, id)
    BY <1>1, <1>3 DEF Rows
  <2>2. \A n \in Rows(journal, id) : J[n] = journal[n]
    BY <1>1 DEF Rows
  <2> QED BY <2>1, <2>2, SameRow
<1> QED BY <1>2, <1>3 DEF J

LEMMA JoinedTold ==
  ASSUME NEW line, writes \in Nat, DOMAIN journal \subseteq 1 .. writes, line.id \in Ids,
         Told(journal, last), last \in [Ids -> {"none"} \cup Opened \cup Terminal]
  PROVE  Told(Joined(journal, line), [last EXCEPT ![line.id] = line.status])
<1>1. line.id # NoId
  BY IdsFacts
<1>2. [last EXCEPT ![line.id] = line.status]
        = [id \in Ids |-> IF id = line.id THEN line.status ELSE last[id]]
  OBVIOUS
<1> QED BY <1>1, <1>2, JoinedRow DEF Told

LEMMA TornTold ==
  ASSUME writes \in Nat, DOMAIN journal \subseteq 1 .. writes, Told(journal, last)
  PROVE  Told(Joined(journal, Torn), last)
  BY IdsFacts, JoinedRow DEF Told

-----------------------------------------------------------------------------
(* A trim *)

LEMMA RestrictLines ==
  ASSUME NEW J, NEW K \in SUBSET DOMAIN J
  PROVE  DOMAIN Restrict(J, K) = K /\ \A n \in K : Restrict(J, K)[n] = J[n]
  BY DEF Restrict

LEMMA TrimmedWell ==
  ASSUME NEW J, NEW N, NEW day, Well(J, N, day), NEW L \in Trimmed(J)
  PROVE  Well(L, N, day)
<1>1. PICK K \in SUBSET DOMAIN J : L = Restrict(J, K)
  BY DEF Trimmed
<1>2. DOMAIN L = K /\ \A n \in K : L[n] = J[n]
  BY <1>1, RestrictLines
<1> QED BY <1>2 DEF Well

\* A trim keeps every row of an open receipt, and so the one in force.
LEMMA TrimmedOpen ==
  ASSUME NEW J, NEW N \in Nat, DOMAIN J \subseteq 1 .. N, NEW L \in Trimmed(J),
         NEW id \in OpenIds(J)
  PROVE  id \in Readable(L) /\ Row(L, id) = Row(J, id)
<1> DEFINE open == {n \in DOMAIN J : J[n].id \in OpenIds(J)}
<1>1. PICK S \in SUBSET (DOMAIN J \ open) : L = Restrict(J, open \cup S)
  BY DEF Trimmed
<1>2. Rows(J, id) \subseteq open
  BY DEF Rows
<1>3. open \cup S \in SUBSET DOMAIN J
  OBVIOUS
<1> HIDE DEF open
<1>4. DOMAIN L = open \cup S /\ \A n \in open \cup S : L[n] = J[n]
  BY <1>1, <1>3, RestrictLines
<1>5. Rows(L, id) = Rows(J, id) /\ \A n \in Rows(J, id) : L[n] = J[n]
  BY <1>2, <1>3, <1>4 DEF Rows
<1>6. id \in Readable(J)
  BY DEF OpenIds
<1> QED BY <1>5, <1>6, SameRow

LEMMA TrimmedTold ==
  ASSUME NEW J, NEW N \in Nat, DOMAIN J \subseteq 1 .. N, NEW L \in Trimmed(J),
         NEW known, Told(J, known)
  PROVE  Told(L, known)
<1> SUFFICES ASSUME NEW id \in Ids, known[id] \in Opened
             PROVE  id \in Readable(L) /\ Row(L, id).status = known[id]
  BY DEF Told
<1>1. id \in Readable(J) /\ Row(J, id).status = known[id]
  BY DEF Told
<1>2. id \in OpenIds(J)
  BY <1>1 DEF OpenIds
<1> QED BY <1>1, <1>2, TrimmedOpen

-----------------------------------------------------------------------------
(* The bytes of a file *)

\* g adds up the sizes z of the lines under the numbers of a set.
Adds(g, z, n) ==
  /\ g \in [SUBSET (1 .. n) -> Nat]
  /\ g[{}] = 0
  /\ \A s \in SUBSET (1 .. n) : \A x \in s : g[s] = z[x] + g[s \ {x}]
  /\ \A s, t \in SUBSET (1 .. n) : s \cap t = {} => g[s \cup t] = g[s] + g[t]

LEMMA AddsNext ==
  ASSUME NEW n \in Nat, NEW z, \A i \in 1 .. n + 1 : z[i] \in Nat, NEW g, Adds(g, z, n)
  PROVE  \E h : Adds(h, z, n + 1)
<1> DEFINE top == n + 1
           h == [s \in SUBSET (1 .. top) |->
                  IF top \in s THEN z[top] + g[s \ {top}] ELSE g[s]]
<1>1. /\ 1 .. top = (1 .. n) \cup {top} /\ top \notin 1 .. n /\ z[top] \in Nat
      /\ \A i \in 1 .. n : z[i] \in Nat
  OBVIOUS
<1>2. /\ g \in [SUBSET (1 .. n) -> Nat] /\ g[{}] = 0
      /\ \A s \in SUBSET (1 .. n) : \A x \in s : g[s] = z[x] + g[s \ {x}]
      /\ \A s, t \in SUBSET (1 .. n) : s \cap t = {} => g[s \cup t] = g[s] + g[t]
  BY DEF Adds
<1> HIDE DEF top
<1>3. /\ \A s \in SUBSET (1 .. n) : s \in SUBSET (1 .. top) /\ h[s] = g[s]
      /\ \A s \in SUBSET (1 .. top) : top \in s => h[s] = z[top] + g[s \ {top}]
      /\ \A s \in SUBSET (1 .. top) : top \notin s => h[s] = g[s] /\ s \in SUBSET (1 .. n)
      /\ \A s \in SUBSET (1 .. top) : s \ {top} \in SUBSET (1 .. n)
      /\ \A s \in SUBSET (1 .. n) : g[s] \in Nat
  BY <1>1, <1>2
<1>4. h \in [SUBSET (1 .. top) -> Nat] /\ h[{}] = 0
  BY <1>1, <1>2, <1>3
<1> HIDE DEF h
<1>5. ASSUME NEW s \in SUBSET (1 .. top), NEW x \in s
      PROVE  h[s] = z[x] + h[s \ {x}]
  <2>1. CASE top \notin s
    BY <1>1, <1>2, <1>3, <2>1
  <2>2. CASE x = top
    BY <1>1, <1>3, <2>2
  <2>3. CASE top \in s /\ x # top
    <3>1. x \in 1 .. n /\ x \in s \ {top} /\ s \ {top} \in SUBSET (1 .. n)
      BY <1>1, <1>3, <2>3
    <3>2. g[s \ {top}] = z[x] + g[(s \ {top}) \ {x}]
      BY <1>2, <3>1
    <3>3. (s \ {top}) \ {x} = (s \ {x}) \ {top} /\ top \in s \ {x} /\ s \ {x} \in SUBSET (1 .. top)
      BY <2>3
    <3>4. h[s] = z[top] + g[s \ {top}] /\ h[s \ {x}] = z[top] + g[(s \ {x}) \ {top}]
      BY <1>3, <2>3, <3>3
    <3>5. z[x] \in Nat /\ z[top] \in Nat /\ g[(s \ {x}) \ {top}] \in Nat
      BY <1>1, <1>3, <3>1, <3>3
    <3>6. h[s] = z[top] + (z[x] + g[(s \ {x}) \ {top}])
      BY <3>2, <3>3, <3>4
    <3>7. \A a, b, c \in Nat : a + (b + c) = b + (a + c)
      OBVIOUS
    <3>8. h[s] = z[x] + (z[top] + g[(s \ {x}) \ {top}])
      BY <3>5, <3>6, <3>7
    <3> QED BY <3>4, <3>8
  <2> QED BY <2>1, <2>2, <2>3
<1>6. ASSUME NEW s \in SUBSET (1 .. top), NEW t \in SUBSET (1 .. top), s \cap t = {}
      PROVE  h[s \cup t] = h[s] + h[t]
  <2>1. CASE top \notin s \cup t
    <3>1. s \in SUBSET (1 .. n) /\ t \in SUBSET (1 .. n) /\ s \cup t \in SUBSET (1 .. n)
      BY <1>3, <2>1
    <3>2. h[s \cup t] = g[s \cup t] /\ h[s] = g[s] /\ h[t] = g[t]
      BY <1>3, <3>1
    <3> QED BY <1>2, <1>6, <3>1, <3>2
  <2>2. ASSUME NEW a \in SUBSET (1 .. top), NEW b \in SUBSET (1 .. top),
               a \cap b = {}, top \in a
        PROVE  h[a \cup b] = h[a] + h[b]
    <3>1. /\ a \ {top} \in SUBSET (1 .. n) /\ b \in SUBSET (1 .. n)
          /\ (a \ {top}) \cap b = {} /\ (a \cup b) \ {top} = (a \ {top}) \cup b
          /\ a \cup b \in SUBSET (1 .. top)
      BY <1>1, <2>2
    <3>2. g[(a \ {top}) \cup b] = g[a \ {top}] + g[b]
      BY <1>2, <3>1
    <3>3. h[a \cup b] = z[top] + g[(a \ {top}) \cup b] /\ h[a] = z[top] + g[a \ {top}] /\ h[b] = g[b]
      BY <1>3, <2>2, <3>1
    <3>4. g[a \ {top}] \in Nat /\ g[b] \in Nat /\ z[top] \in Nat
      BY <1>1, <1>3, <3>1
    <3> QED BY <3>2, <3>3, <3>4
  <2>3. CASE top \in s
    BY <1>6, <2>2, <2>3
  <2>4. CASE top \in t
    <3>1. h[t \cup s] = h[t] + h[s]
      BY <1>6, <2>2, <2>4
    <3>2. t \cup s = s \cup t
      OBVIOUS
    <3>3. h[s] \in Nat /\ h[t] \in Nat
      BY <1>4
    <3>4. h[t] + h[s] = h[s] + h[t]
      BY <3>3
    <3> QED BY <3>1, <3>2, <3>4
  <2> QED BY <2>1, <2>3, <2>4
<1>7. Adds(h, z, top)
  BY <1>4, <1>5, <1>6 DEF Adds
<1> QED BY <1>7 DEF top

LEMMA AddsExists ==
  ASSUME NEW n \in Nat, NEW z, \A i \in 1 .. n : z[i] \in Nat
  PROVE  \E g : Adds(g, z, n)
<1> DEFINE T == {m \in 0 .. n : ~ \E g : Adds(g, z, m)}
<1> SUFFICES ASSUME T # {} PROVE FALSE
  BY Z3
<1>1. T \in SUBSET Nat
  OBVIOUS
<1>2. PICK m \in T : \A k \in T : m <= k
  BY <1>1, Least
<1>3. m \in 0 .. n /\ ~ \E g : Adds(g, z, m)
  BY <1>2
<1>4. CASE m = 0
  <2> DEFINE g == [s \in SUBSET (1 .. 0) |-> 0]
  <2>1. 1 .. 0 = {}
    OBVIOUS
  <2>2. Adds(g, z, 0)
    BY <2>1 DEF Adds
  <2> QED BY <1>3, <1>4, <2>2
<1>5. CASE m # 0
  <2>1. m - 1 \in 0 .. n /\ m - 1 \in Nat /\ (m - 1) + 1 = m /\ ~(m <= m - 1)
    BY <1>3, <1>5
  <2>2. m - 1 \notin T
    BY <1>2, <2>1
  <2>3. PICK g : Adds(g, z, m - 1)
    BY <2>1, <2>2
  <2>4. \A i \in 1 .. m : z[i] \in Nat
    BY <1>3
  <2>5. \E h : Adds(h, z, (m - 1) + 1)
    BY <2>1, <2>3, <2>4, AddsNext
  <2> QED BY <1>3, <2>1, <2>5
<1> QED BY <1>4, <1>5

LEMMA BytesAre ==
  ASSUME NEW L
  PROVE  Bytes(L) =
           (CHOOSE h : h = [s \in SUBSET DOMAIN L |->
              IF s = {} THEN 0
              ELSE L[CHOOSE x \in s : TRUE].size + h[s \ {CHOOSE x \in s : TRUE}]])[DOMAIN L]
  BY DEF Bytes, FoldFunction, FoldFunctionOnSet, MapThenFoldSet

\* The fold of a file whose lines have the sizes z is what g adds up.
LEMMA BytesAdd ==
  ASSUME NEW n \in Nat, NEW z, NEW g, Adds(g, z, n),
         NEW L, DOMAIN L \subseteq 1 .. n, \A i \in DOMAIN L : L[i].size = z[i]
  PROVE  Bytes(L) = g[DOMAIN L]
<1> DEFINE D == DOMAIN L
           one(s) == CHOOSE x \in s : TRUE
           h == CHOOSE h : h = [s \in SUBSET D |->
                  IF s = {} THEN 0 ELSE L[one(s)].size + h[s \ {one(s)}]]
           f == [s \in SUBSET D |-> g[s]]
<1>1. Bytes(L) = h[D]
  BY BytesAre
<1>2. \A s : s # {} => one(s) \in s
  OBVIOUS
<1> HIDE DEF one
<1>3. f = [s \in SUBSET D |-> IF s = {} THEN 0 ELSE L[one(s)].size + f[s \ {one(s)}]]
  <2> SUFFICES ASSUME NEW s \in SUBSET D
               PROVE  g[s] = IF s = {} THEN 0 ELSE L[one(s)].size + g[s \ {one(s)}]
    OBVIOUS
  <2>1. CASE s = {}
    BY <2>1 DEF Adds
  <2>2. CASE s # {}
    <3>1. one(s) \in s /\ s \in SUBSET (1 .. n) /\ L[one(s)].size = z[one(s)]
      BY <1>2, <2>2
    <3>2. g[s] = z[one(s)] + g[s \ {one(s)}]
      BY <3>1 DEF Adds
    <3> QED BY <2>2, <3>1, <3>2
  <2> QED BY <2>1, <2>2
<1>4. h = [s \in SUBSET D |-> IF s = {} THEN 0 ELSE L[one(s)].size + h[s \ {one(s)}]]
  BY <1>3
<1> HIDE DEF h, f
<1>5. \A s \in SUBSET D : h[s] = g[s]
  <2> DEFINE T == {k \in Nat : \E s \in SUBSET D : Cardinality(s) = k /\ h[s] # g[s]}
  <2>1. IsFiniteSet(D)
    <3>1. IsFiniteSet(1 .. n)
      BY FS_Interval
    <3> QED BY <3>1, FS_Subset
  <2>2. \A s \in SUBSET D : IsFiniteSet(s) /\ Cardinality(s) \in Nat
    BY <2>1, FS_Subset, FS_CardinalityType
  <2> SUFFICES ASSUME T # {} PROVE FALSE
    BY <2>2
  <2>3. T \in SUBSET Nat
    OBVIOUS
  <2>4. PICK k \in T : \A m \in T : k <= m
    BY <2>3, Least
  <2>5. PICK s \in SUBSET D : Cardinality(s) = k /\ h[s] # g[s]
    OBVIOUS
  <2>6. s # {}
    BY <1>4, <2>5 DEF Adds
  <2>7. /\ one(s) \in s /\ s \in SUBSET (1 .. n) /\ L[one(s)].size = z[one(s)]
        /\ s \ {one(s)} \in SUBSET D
    BY <1>2, <2>6
  <2>8. Cardinality(s \ {one(s)}) = k - 1 /\ k - 1 \in Nat
    <3>1. /\ Cardinality(s \ {one(s)}) = Cardinality(s) - 1
          /\ IsFiniteSet(s \ {one(s)})
      BY <2>2, <2>7, FS_RemoveElement
    <3>2. Cardinality(s \ {one(s)}) \in Nat
      BY <3>1, FS_CardinalityType
    <3> QED BY <2>5, <3>1, <3>2
  <2>9. h[s \ {one(s)}] = g[s \ {one(s)}]
    <3>1. k - 1 \notin T
      BY <2>4, <2>8
    <3> QED BY <2>7, <2>8, <3>1
  <2>10. g[s] = z[one(s)] + g[s \ {one(s)}]
    BY <2>7 DEF Adds
  <2>11. h[s] = L[one(s)].size + h[s \ {one(s)}]
    BY <1>4, <2>6
  <2> QED BY <2>5, <2>7, <2>9, <2>10, <2>11
<1> QED BY <1>1, <1>5
\* The sizes of the lines of a file, and what they add up to.
Sizes(J, n) == [i \in 1 .. n |-> IF i \in DOMAIN J THEN J[i].size ELSE 0]

LEMMA SizesAdd ==
  ASSUME NEW n \in Nat, NEW J, DOMAIN J \subseteq 1 .. n, \A i \in DOMAIN J : J[i].size \in Nat
  PROVE  \E g : /\ Adds(g, Sizes(J, n), n)
                /\ \A K \in SUBSET DOMAIN J : Bytes(Restrict(J, K)) = g[K]
<1> DEFINE z == Sizes(J, n)
<1>1. (\A i \in 1 .. n : z[i] \in Nat) /\ \A i \in DOMAIN J : z[i] = J[i].size
  BY DEF Sizes
<1> HIDE DEF z
<1>2. PICK g : Adds(g, z, n)
  BY <1>1, AddsExists
<1>3. ASSUME NEW K \in SUBSET DOMAIN J PROVE Bytes(Restrict(J, K)) = g[K]
  <2> DEFINE L == Restrict(J, K)
  <2>1. DOMAIN L = K /\ \A i \in K : L[i] = J[i]
    BY RestrictLines
  <2> HIDE DEF L
  <2>2. DOMAIN L \subseteq 1 .. n /\ \A i \in DOMAIN L : L[i].size = z[i]
    BY <1>1, <2>1
  <2>3. Bytes(L) = g[DOMAIN L]
    BY <1>2, <2>2, BytesAdd
  <2> QED BY <2>1, <2>3 DEF L
<1> QED BY <1>2, <1>3 DEF z

\* What a trim leaves is within the bound, or is open to the last line.
LEMMA TrimmedBound ==
  ASSUME NEW N \in Nat, NEW J, DOMAIN J \subseteq 1 .. N,
         \A n \in DOMAIN J : J[n].size \in Nat \ {0}, NEW L \in Trimmed(J)
  PROVE  Bytes(L) <= MaxBytes \/ \A line \in Lines(L) : line.id \in OpenIds(L)
<1> DEFINE open == {n \in DOMAIN J : J[n].id \in OpenIds(J)}
           Newer(n, S) == {m \in S : m > n}
<1>1. PICK S \in SUBSET (DOMAIN J \ open) :
        /\ L = Restrict(J, open \cup S)
        /\ \A n \in S : Bytes(Restrict(J, Newer(n, S))) + J[n].size <= Budget(J)
  BY DEF Trimmed
<1>2. open \in SUBSET DOMAIN J /\ S \in SUBSET DOMAIN J /\ open \cap S = {}
  OBVIOUS
<1>3. DOMAIN L = open \cup S /\ \A n \in open \cup S : L[n] = J[n]
  BY <1>1, <1>2, RestrictLines
<1>4. CASE S = {}
  <2>1. \A id \in OpenIds(J) : id \in Readable(L) /\ Row(L, id) = Row(J, id)
    BY TrimmedOpen
  <2>2. OpenIds(J) \subseteq OpenIds(L)
    BY <2>1 DEF OpenIds
  <2>3. \A line \in Lines(L) : line.id \in OpenIds(J)
    BY <1>3, <1>4 DEF Lines
  <2> QED BY <2>2, <2>3
<1>5. CASE S # {}
  <2>1. PICK g : /\ Adds(g, Sizes(J, N), N)
                 /\ \A K \in SUBSET DOMAIN J : Bytes(Restrict(J, K)) = g[K]
    BY SizesAdd
  <2>2. PICK n \in S : \A m \in S : n <= m
    <3>1. S \in SUBSET Nat
      BY <1>2
    <3> QED BY <1>5, <3>1, Least
  <2>3. Newer(n, S) = S \ {n}
    BY <1>2, <2>2
  <2>4. g[S \ {n}] + J[n].size <= Budget(J)
    BY <1>1, <1>2, <2>1, <2>2, <2>3
  <2> HIDE DEF Newer
  <2>5. /\ g[S] = J[n].size + g[S \ {n}]
        /\ g[open \cup S] = g[open] + g[S]
        /\ g[S] \in Nat /\ g[open] \in Nat /\ g[S \ {n}] \in Nat
    <3>1. /\ S \in SUBSET (1 .. N) /\ open \in SUBSET (1 .. N) /\ S \ {n} \in SUBSET (1 .. N)
          /\ n \in 1 .. N /\ Sizes(J, N)[n] = J[n].size
      BY <1>2 DEF Sizes
    <3>2. open \cap S = {} /\ n \in S
      BY <1>2
    <3> HIDE DEF open
    <3>3. /\ g \in [SUBSET (1 .. N) -> Nat]
          /\ \A s \in SUBSET (1 .. N) : \A x \in s : g[s] = Sizes(J, N)[x] + g[s \ {x}]
          /\ \A s, t \in SUBSET (1 .. N) : s \cap t = {} => g[s \cup t] = g[s] + g[t]
      BY <2>1 DEF Adds
    <3>4. g[S] = Sizes(J, N)[n] + g[S \ {n}]
      BY <3>1, <3>2, <3>3
    <3>5. g[open \cup S] = g[open] + g[S]
      BY <3>1, <3>2, <3>3
    <3>6. g[S] \in Nat /\ g[open] \in Nat /\ g[S \ {n}] \in Nat
      BY <3>1, <3>3
    <3> QED BY <3>1, <3>4, <3>5, <3>6
  <2>6. Budget(J) = IF g[open] > MaxBytes THEN 0 ELSE MaxBytes - g[open]
    <3>1. RestrictValues(J, LAMBDA line : line.id \in OpenIds(J)) = Restrict(J, open)
      BY DEF RestrictValues
    <3>2. Bytes(Restrict(J, open)) = g[open]
      BY <1>2, <2>1
    <3> HIDE DEF open
    <3> QED BY <3>1, <3>2 DEF Budget
  <2>7. Bytes(L) = g[open \cup S]
    BY <1>1, <1>2, <2>1
  <2> HIDE DEF open
  <2>8. J[n].size \in Nat \ {0}
    BY <1>2
  <2>9. g[S] <= Budget(J) /\ g[S] > 0
    BY <2>4, <2>5, <2>8
  <2>10. g[open] + g[S] <= MaxBytes
    BY <2>5, <2>6, <2>9, Bounds
  <2> QED BY <2>5, <2>7, <2>10
<1> QED BY <1>4, <1>5

\* The trim always has an outcome, and no two: which settled lines stay follows
\* from the lines, from the newest back.
THEOREM TrimDecides ==
  ASSUME NEW N \in Nat, NEW J, DOMAIN J \subseteq 1 .. N
  PROVE  \E L : Trimmed(J) = {L}
<1> DEFINE open == {n \in DOMAIN J : J[n].id \in OpenIds(J)}
           settled == DOMAIN J \ open
           Newer(n, S) == {m \in S : m > n}
           Room(n, S) == /\ Cardinality(S) < KeepRows
                         /\ Bytes(Restrict(J, S)) + J[n].size <= Budget(J)
           Kept(S) == \A n \in settled : n \in S <=> Room(n, Newer(n, S))
<1>1. Trimmed(J) = {Restrict(J, open \cup S) : S \in {T \in SUBSET settled : Kept(T)}}
  BY DEF Trimmed
<1>2. settled \subseteq 1 .. N
  OBVIOUS
<1> HIDE DEF open, settled, Room
<1>3. \E S \in SUBSET settled : Kept(S)
  <2> DEFINE Above(n) == \E T \in SUBSET settled :
               /\ \A m \in T : m > n
               /\ \A m \in settled : m > n => (m \in T <=> Room(m, Newer(m, T)))
             G == {n \in 0 .. N : Above(n)}
  <2>1. N \in G
    <3>1. \A m \in settled : ~(m > N)
      BY <1>2
    <3>2. Above(N)
      <4> WITNESS {} \in SUBSET settled
      <4> QED BY <3>1
    <3> QED BY <3>2
  <2>2. ASSUME NEW n \in 1 .. N, n \in G PROVE n - 1 \in G
    <3>1. PICK T \in SUBSET settled :
            /\ \A m \in T : m > n
            /\ \A m \in settled : m > n => (m \in T <=> Room(m, Newer(m, T)))
      BY <2>2
    <3> DEFINE U == IF n \in settled /\ Room(n, T) THEN T \cup {n} ELSE T
    <3>2. U \in SUBSET settled /\ \A m \in U : m > n - 1
      BY <1>2, <3>1
    <3>3. n \in U <=> n \in settled /\ Room(n, T)
      BY <3>1
    <3>4. \A m \in settled : m > n => (m \in U <=> m \in T) /\ Newer(m, U) = Newer(m, T)
      BY <1>2
    <3>5. Newer(n, U) = T
      BY <1>2, <3>1
    <3> HIDE DEF U
    <3>6. ASSUME NEW m \in settled, m > n - 1 PROVE m \in U <=> Room(m, Newer(m, U))
      <4>1. m = n \/ m > n
        BY <1>2, <3>6
      <4>2. CASE m = n
        BY <3>3, <3>5, <3>6, <4>2
      <4>3. CASE m > n
        BY <3>1, <3>4, <4>3
      <4> QED BY <4>1, <4>2, <4>3
    <3>7. Above(n - 1)
      BY <3>2, <3>6
    <3> HIDE DEF Above
    <3> QED BY <3>7
  <2> HIDE DEF G
  <2>3. \A n \in 0 .. N : n \in G
    BY <2>1, <2>2, Downward
  <2>4. 0 \in G
    BY <2>3
  <2>5. PICK T \in SUBSET settled : \A m \in settled : m > 0 => (m \in T <=> Room(m, Newer(m, T)))
    BY <2>4 DEF G
  <2>6. \A m \in settled : m > 0
    BY <1>2
  <2> QED BY <2>5, <2>6
<1>4. ASSUME NEW S \in SUBSET settled, Kept(S), NEW T \in SUBSET settled, Kept(T)
      PROVE  S = T
  <2> DEFINE D == {n \in settled : ~(n \in S <=> n \in T)}
  <2> SUFFICES ASSUME D # {} PROVE FALSE
    OBVIOUS
  <2>1. D \in SUBSET (1 .. N)
    BY <1>2
  <2>2. PICK d \in D : \A n \in D : n <= d
    <3> HIDE DEF D
    <3> QED BY <2>1, MaxIn
  <2>3. \A m \in settled : m > d => m \notin D
    BY <1>2, <2>1, <2>2
  <2>4. Newer(d, S) = Newer(d, T)
    BY <2>3
  <2>5. d \in settled /\ (d \in S <=> Room(d, Newer(d, S))) /\ (d \in T <=> Room(d, Newer(d, T)))
    BY <1>4
  <2> QED BY <2>4, <2>5
<1>5. PICK S \in SUBSET settled : Kept(S)
  BY <1>3
<1> HIDE DEF Kept
<1>6. {T \in SUBSET settled : Kept(T)} = {S}
  BY <1>4, <1>5
<1>7. Trimmed(J) = {Restrict(J, open \cup S)}
  BY <1>1, <1>6
<1> QED BY <1>7

-----------------------------------------------------------------------------
(* A step that writes *)

\* A row may be appended when its line is good, agrees with the rows of its id
\* and is apart from the other events of its key.
Fitting(line) ==
  /\ line.id \in Ids /\ line.status \in Opened \cup Terminal
  /\ GoodLine(line, writes + 1, now)
  /\ \A n \in DOMAIN journal :
       journal[n].id = line.id => journal[n].day = line.day /\ journal[n].text = line.text
  /\ \A n \in DOMAIN journal :
       journal[n].id # NoId /\ line.id # NoId /\ journal[n].id # line.id
       /\ journal[n].id[1] = line.id[1]
         => Apart(journal[n].day, line.day)

LEMMA InvFacts ==
  ASSUME Inv
  PROVE  /\ writes \in Nat /\ now \in Nat /\ DOMAIN journal \subseteq 1 .. writes
         /\ Well(journal, writes, now)
  BY Bounds DEF Inv, Well

LEMMA WrittenKeeps ==
  ASSUME Inv, NEW line, Fitting(line), Written(line)
  PROVE  /\ Well(journal', writes', now) /\ Told(journal', last') /\ midLine' \in BOOLEAN
         /\ writes' \in 0 .. MaxWrites /\ last' \in [Ids -> {"none"} \cup Opened \cup Terminal]
<1> DEFINE J == Joined(journal, line)
           known == [last EXCEPT ![line.id] = line.status]
<1>1. /\ writes \in Nat /\ now \in Nat /\ DOMAIN journal \subseteq 1 .. writes
      /\ Well(journal, writes, now)
  BY InvFacts
<1>2. Well(J, writes + 1, now)
  BY <1>1, JoinedWell DEF Fitting
<1>3. Told(J, known)
  BY <1>1, JoinedTold DEF Fitting, Inv
<1>4. writes < MaxWrites /\ writes' = writes + 1 /\ last' = known /\ midLine' \in BOOLEAN
  BY DEF Written, Write, WriteCutLate
<1>5. journal' = J \/ journal' \in Trimmed(J)
  BY DEF Written, Write, WriteCutLate
<1>6. known \in [Ids -> {"none"} \cup Opened \cup Terminal]
  BY DEF Fitting, Inv
<1>7. writes + 1 \in Nat /\ DOMAIN J \subseteq 1 .. writes + 1
  BY <1>1, <1>2 DEF Well
<1> HIDE DEF J, known
<1>8. Well(journal', writes + 1, now) /\ Told(journal', known)
  <2>1. CASE journal' = J
    BY <1>2, <1>3, <2>1
  <2>2. CASE journal' \in Trimmed(J)
    <3>1. Well(journal', writes + 1, now)
      BY <1>2, <2>2, TrimmedWell
    <3>2. Told(journal', known)
      BY <1>3, <1>7, <2>2, TrimmedTold
    <3> QED BY <3>1, <3>2
  <2> QED BY <1>5, <2>1, <2>2
<1>9. writes + 1 \in 0 .. MaxWrites
  BY <1>1, <1>4, Bounds
<1> QED BY <1>4, <1>6, <1>8, <1>9

LEMMA CutEarlyKeeps ==
  ASSUME Inv, WriteCutEarly, UNCHANGED <<now, events>>
  PROVE  Inv'
<1>1. /\ writes \in Nat /\ now \in Nat /\ DOMAIN journal \subseteq 1 .. writes
      /\ Well(journal, writes, now)
  BY InvFacts
<1>2. Well(Joined(journal, Torn), writes + 1, now)
  BY <1>1, TornWell
<1>3. Told(Joined(journal, Torn), last)
  BY <1>1, TornTold DEF Inv
<1>4. /\ writes < MaxWrites /\ writes' = writes + 1 /\ journal' = Joined(journal, Torn)
      /\ midLine' = TRUE /\ last' = last /\ now' = now /\ events' = events
  BY DEF WriteCutEarly
<1>5. writes + 1 \in 0 .. MaxWrites
  BY <1>1, <1>4, Bounds
<1> QED BY <1>2, <1>3, <1>4, <1>5 DEF Inv

\* An event is not newer than the newest row, which is not a live one.
LEMMA OldRows ==
  ASSUME Inv, NEW k, ~Live(k), NEW n \in DOMAIN journal,
         journal[n].id # NoId, journal[n].id[1] = k
  PROVE  Apart(journal[n].day, now)
<1> DEFINE id == journal[n].id
           row == Row(journal, id)
<1>1. /\ writes \in Nat /\ now \in Nat /\ DOMAIN journal \subseteq 1 .. writes
      /\ Well(journal, writes, now)
  BY InvFacts
<1>2. id \in Readable(journal)
  BY DEF Readable, Lines
<1>3. PICK m \in DOMAIN journal : journal[m] = row /\ row.id = id
  BY <1>1, <1>2, RowIs
<1>4. row.day = journal[n].day
  BY <1>1, <1>3 DEF Well
<1>5. ~Recent(row.day)
  BY <1>2 DEF Live
<1>6. journal[n].day \in Nat
  BY <1>1, IdsFacts DEF Well, GoodLine
<1>7. ~(journal[n].day + Retention >= now)
  BY <1>4, <1>5 DEF Recent
<1> QED BY <1>1, <1>6, <1>7, Bounds DEF Apart

\* A new event's generation is one that no readable row uses.
LEMMA GenerationIs ==
  ASSUME Inv, NEW k \in Keys, writes < MaxWrites
  PROVE  /\ Generation(k) \in 1 .. writes + 1 /\ Generation(k) \in 1 .. MaxWrites
         /\ <<k, Generation(k)>> \notin Readable(journal)
<1>1. /\ writes \in Nat /\ now \in Nat /\ DOMAIN journal \subseteq 1 .. writes
      /\ Well(journal, writes, now) /\ MaxWrites \in Nat
  BY InvFacts, Bounds
<1>2. ASSUME NEW g, <<k, g>> \in Readable(journal)
      PROVE  g \in 1 .. MaxWrites /\ g <= writes
  <2>1. PICK n \in DOMAIN journal : journal[n].id = <<k, g>>
    BY <1>2 DEF Readable, Lines
  <2>2. <<k, g>> # NoId
    BY <1>2 DEF Readable
  <2>3. journal[n].id \in Ids /\ journal[n].id[2] <= n /\ n \in 1 .. writes
    BY <1>1, <2>1, <2>2, IdsFacts DEF Well, GoodLine
  <2>4. journal[n].id[2] = g /\ g \in 1 .. MaxWrites
    BY <2>1, <2>3 DEF Ids
  <2> QED BY <1>1, <2>3, <2>4
<1> DEFINE T == {g \in 1 .. MaxWrites : <<k, g>> \notin Readable(journal)}
<1>3. writes + 1 \in T
  <2>1. writes + 1 \in 1 .. MaxWrites /\ ~(writes + 1 <= writes)
    BY <1>1
  <2> QED BY <1>2, <2>1
<1>4. T \in SUBSET Nat
  OBVIOUS
<1>5. PICK g \in T : \A m \in T : g <= m
  BY <1>3, <1>4, Least
<1>6. \A h \in 1 .. (g - 1) : <<k, h>> \in Readable(journal)
  <2> SUFFICES ASSUME NEW h \in 1 .. (g - 1) PROVE <<k, h>> \in Readable(journal)
    OBVIOUS
  <2>1. h \notin T
    BY <1>5
  <2>2. h \in 1 .. MaxWrites
    BY <1>1, <1>5
  <2> QED BY <2>1, <2>2
<1>7. /\ Generation(k) \in 1 .. MaxWrites /\ <<k, Generation(k)>> \notin Readable(journal)
      /\ \A h \in 1 .. (Generation(k) - 1) : <<k, h>> \in Readable(journal)
  BY <1>5, <1>6 DEF Generation
<1>8. Generation(k) <= writes + 1
  <2> DEFINE n == Generation(k)
  <2> HIDE DEF n
  <2>1. n \in 1 .. MaxWrites /\ \A h \in 1 .. (n - 1) : <<k, h>> \in Readable(journal)
    BY <1>7 DEF n
  <2>2. CASE n = 1
    BY <1>1, <2>2 DEF n
  <2>3. CASE n # 1
    <3>1. n - 1 \in 1 .. (n - 1)
      BY <1>1, <2>1, <2>3
    <3>2. n - 1 <= writes
      BY <1>2, <2>1, <3>1
    <3> QED BY <1>1, <2>1, <3>2 DEF n
  <2> QED BY <2>2, <2>3
<1> QED BY <1>1, <1>7, <1>8

-----------------------------------------------------------------------------
(* The steps *)

LEMMA LineFields ==
  ASSUME NEW id, NEW status \in Opened \cup Terminal, NEW text, NEW day
  PROVE  /\ Line(id, status, text, day).id = id /\ Line(id, status, text, day).status = status
         /\ Line(id, status, text, day).text = text /\ Line(id, status, text, day).day = day
         /\ text \in Widths => Line(id, status, text, day).size \in Nat \ {0}
<1>1. /\ Line(id, status, text, day).id = id /\ Line(id, status, text, day).status = status
      /\ Line(id, status, text, day).text = text /\ Line(id, status, text, day).day = day
      /\ Line(id, status, text, day).size = text + Extra[status]
  BY DEF Line
<1>2. text \in Widths => text \in Nat \ {0}
  BY JournalAssumption
<1>3. Extra[status] \in Nat
  BY DEF Extra, Opened, Terminal
<1> QED BY <1>1, <1>2, <1>3

LEMMA ReceiveFits ==
  ASSUME Inv, NEW k \in Keys, NEW w \in Widths, Receivable(k), writes < MaxWrites
  PROVE  Fitting(Line(<<k, Generation(k)>>, "accepted", w, now))
<1> DEFINE id == <<k, Generation(k)>>
           line == Line(id, "accepted", w, now)
<1>1. /\ writes \in Nat /\ now \in Nat /\ DOMAIN journal \subseteq 1 .. writes
  BY InvFacts
<1>2. id \in Ids /\ id[1] = k /\ id[2] <= writes + 1 /\ id \notin Readable(journal) /\ id # NoId
  BY <1>1, GenerationIs, IdsFacts DEF Ids
<1>3. /\ line.id = id /\ line.status = "accepted" /\ line.text = w /\ line.day = now
      /\ line.size \in Nat \ {0}
  BY LineFields DEF Opened
<1> HIDE DEF id, line
<1>4. GoodLine(line, writes + 1, now)
  BY <1>1, <1>2, <1>3 DEF GoodLine, Opened
<1>5. \A n \in DOMAIN journal : journal[n].id # id
  BY <1>2 DEF Readable, Lines
<1>6. ~Live(k)
  BY DEF Receivable
<1>7. \A n \in DOMAIN journal :
        journal[n].id # NoId /\ journal[n].id[1] = k => Apart(journal[n].day, now)
  BY <1>6, OldRows
<1>8. Fitting(line)
  BY <1>2, <1>3, <1>4, <1>5, <1>7 DEF Fitting, Opened
<1> QED BY <1>8 DEF line, id

LEMMA MoveFits ==
  ASSUME Inv, NEW id \in Readable(journal), NEW s \in Opened \cup Terminal
  PROVE  Fitting(Line(id, s, Row(journal, id).text, Row(journal, id).day))
<1> DEFINE row == Row(journal, id)
           line == Line(id, s, row.text, row.day)
<1>1. /\ writes \in Nat /\ now \in Nat /\ DOMAIN journal \subseteq 1 .. writes
      /\ Well(journal, writes, now)
  BY InvFacts
<1>2. PICK m \in DOMAIN journal : journal[m] = row /\ row.id = id
  BY <1>1, RowIs
<1>3. id # NoId
  BY DEF Readable
<1>4. /\ line.id = id /\ line.status = s /\ line.text = row.text /\ line.day = row.day
      /\ row.text \in Widths => line.size \in Nat \ {0}
  BY LineFields
<1> HIDE DEF line, row
<1>5. /\ id \in Ids /\ id[2] <= m /\ m \in 1 .. writes
      /\ row.text \in Widths /\ row.day \in 0 .. now
  BY <1>1, <1>2, <1>3, IdsFacts DEF Well, GoodLine
<1>6. id[2] <= writes + 1
  BY <1>1, <1>5, IdsFacts
<1>7. GoodLine(line, writes + 1, now)
  BY <1>4, <1>5, <1>6 DEF GoodLine
<1>8. /\ \A n \in DOMAIN journal :
           journal[n].id = id => journal[n].day = row.day /\ journal[n].text = row.text
      /\ \A n \in DOMAIN journal :
           journal[n].id # NoId /\ journal[n].id # id /\ journal[n].id[1] = id[1]
             => Apart(journal[n].day, row.day)
  BY <1>1, <1>2, <1>3 DEF Well
<1>9. Fitting(line)
  BY <1>4, <1>5, <1>7, <1>8 DEF Fitting
<1> QED BY <1>9 DEF line, row

LEMMA InitKeeps ==
  ASSUME Init PROVE Inv
<1>1. DOMAIN journal = {}
  BY DEF Init
<1>2. Well(journal, writes, now)
  BY <1>1 DEF Well
<1>3. Told(journal, last)
  BY DEF Init, Told, Opened
<1>4. now \in 0 .. MaxDay /\ writes \in 0 .. MaxWrites /\ midLine \in BOOLEAN
  <2>1. now = 0 /\ writes = 0 /\ midLine \in BOOLEAN
    BY DEF Init
  <2>2. 0 \in 0 .. MaxDay /\ 0 \in 0 .. MaxWrites
    BY Bounds
  <2> QED BY <2>1, <2>2
<1>5. events \in [Keys -> Seq(0 .. now)] /\ last \in [Ids -> {"none"} \cup Opened \cup Terminal]
  BY DEF Init
<1> QED BY <1>2, <1>3, <1>4, <1>5 DEF Inv

LEMMA ReceiveKeeps ==
  ASSUME Inv, NEW k \in Keys, NEW w \in Widths, Receive(k, w)
  PROVE  Inv'
<1> DEFINE line == Line(<<k, Generation(k)>>, "accepted", w, now)
<1>1. /\ Receivable(k) /\ Written(line) /\ now' = now
      /\ events' = [events EXCEPT ![k] = Append(@, now)]
  BY DEF Receive
<1>2. writes < MaxWrites
  BY <1>1 DEF Written, Write, WriteCutLate
<1>3. Fitting(line)
  BY <1>1, <1>2, ReceiveFits
<1> HIDE DEF line
<1>4. /\ Well(journal', writes', now) /\ Told(journal', last') /\ midLine' \in BOOLEAN
      /\ writes' \in 0 .. MaxWrites /\ last' \in [Ids -> {"none"} \cup Opened \cup Terminal]
  BY <1>1, <1>3, WrittenKeeps
<1>5. now \in 0 .. now
  BY InvFacts
<1>6. Append(events[k], now) \in Seq(0 .. now)
  BY <1>5 DEF Inv
<1>7. events' \in [Keys -> Seq(0 .. now)]
  BY <1>1, <1>6 DEF Inv
<1> QED BY <1>1, <1>4, <1>7 DEF Inv

LEMMA MoveKeeps ==
  ASSUME Inv, NEW id \in Ids, NEW s \in Terminal \cup {"launching"}, Move(id, s)
  PROVE  Inv'
<1> DEFINE line == Line(id, s, Row(journal, id).text, Row(journal, id).day)
<1>1. id \in Readable(journal) /\ Written(line) /\ now' = now /\ events' = events
  BY DEF Move
<1>2. s \in Opened \cup Terminal
  BY DEF Opened
<1>3. Fitting(line)
  BY <1>1, <1>2, MoveFits
<1> HIDE DEF line
<1>4. /\ Well(journal', writes', now) /\ Told(journal', last') /\ midLine' \in BOOLEAN
      /\ writes' \in 0 .. MaxWrites /\ last' \in [Ids -> {"none"} \cup Opened \cup Terminal]
  BY <1>1, <1>3, WrittenKeeps
<1> QED BY <1>1, <1>4 DEF Inv

LEMMA TomorrowKeeps ==
  ASSUME Inv, Tomorrow
  PROVE  Inv'
<1>1. /\ now < MaxDay /\ now' = now + 1 /\ journal' = journal /\ midLine' = midLine
      /\ writes' = writes /\ events' = events /\ last' = last
  BY DEF Tomorrow
<1>2. writes \in Nat /\ now \in Nat /\ Well(journal, writes, now) /\ MaxDay \in Nat
  BY InvFacts, Bounds
<1>3. 0 .. now \subseteq 0 .. (now + 1) /\ now + 1 \in 0 .. MaxDay
  BY <1>1, <1>2
<1>4. Well(journal, writes, now + 1)
  <2>1. \A n \in DOMAIN journal : GoodLine(journal[n], n, now + 1)
    BY <1>2, <1>3 DEF Well, GoodLine
  <2> QED BY <1>2, <2>1 DEF Well
<1>5. \A k \in Keys : events[k] \in Seq(0 .. (now + 1))
  <2> SUFFICES ASSUME NEW k \in Keys PROVE events[k] \in Seq(0 .. (now + 1))
    OBVIOUS
  <2>1. events[k] \in Seq(0 .. now)
    BY DEF Inv
  <2> QED BY <1>3, <2>1, SeqMonotonic
<1>6. events \in [Keys -> Seq(0 .. (now + 1))]
  BY <1>5 DEF Inv
<1> QED BY <1>1, <1>3, <1>4, <1>6 DEF Inv

LEMMA StepKeeps ==
  ASSUME Inv, [Next]_vars
  PROVE  Inv'
<1>1. CASE \E k \in Keys, w \in Widths : Receive(k, w)
  BY <1>1, ReceiveKeeps
<1>2. CASE \E k \in Keys : ReceiveTorn(k)
  BY <1>2, CutEarlyKeeps DEF ReceiveTorn
<1>3. CASE \E id \in Ids, s \in Terminal \cup {"launching"} : Move(id, s)
  BY <1>3, MoveKeeps
<1>4. CASE \E id \in Ids : MoveTorn(id)
  BY <1>4, CutEarlyKeeps DEF MoveTorn
<1>5. CASE Tomorrow
  BY <1>5, TomorrowKeeps
<1>6. CASE UNCHANGED vars
  BY <1>6 DEF vars, Inv, Well, Told
<1> QED BY <1>1, <1>2, <1>3, <1>4, <1>5, <1>6 DEF Next

-----------------------------------------------------------------------------
(* Theorems *)

\* What every state of the journal satisfies, torn and trimmed as it may be.
THEOREM Invariant == Spec => []Inv
<1>1. Init => Inv
  BY InitKeeps
<1>2. Inv /\ [Next]_vars => Inv'
  BY StepKeeps
<1> QED BY <1>1, <1>2, PTL DEF Spec

\* Types, and the rows of one id telling of one event: a row written for a
\* receipt copies the text and the day of the row it replaces.
THEOREM TypeCorrect == Spec => []TypeOK
<1>1. Inv => TypeOK
  <2> SUFFICES ASSUME Inv PROVE TypeOK
    OBVIOUS
  <2>1. \A line \in Lines(journal) :
          line.id = NoId \/ /\ line.id \in Ids /\ line.status \in Opened \cup Terminal
                            /\ line.text \in Widths /\ line.day \in 0 .. now
    BY IdsFacts DEF Inv, Well, GoodLine, Lines
  <2>2. \A a, b \in Lines(journal) : a.id = b.id => a.day = b.day /\ a.text = b.text
    BY DEF Inv, Well, Lines
  <2> QED BY <2>1, <2>2 DEF Inv, Well, TypeOK
<1> QED BY <1>1, Invariant, PTL

\* However appends are torn and the file trimmed, the last row written for an
\* open receipt is read, and read as it was written.
THEOREM OpenAlwaysKept == Spec => []OpenKept
<1>1. Inv => OpenKept
  BY DEF Inv, Told, OpenKept
<1> QED BY <1>1, Invariant, PTL

\* A retry within the window of an open receipt never opens another one.
THEOREM OneOpenAlways == Spec => []OneOpen
<1>1. Inv => OneOpen
  <2> SUFFICES ASSUME Inv, NEW a \in OpenIds(journal), NEW b \in OpenIds(journal),
                      a # b, a[1] = b[1]
               PROVE  Apart(Row(journal, a).day, Row(journal, b).day)
    BY DEF OneOpen, Apart
  <2>1. writes \in Nat /\ DOMAIN journal \subseteq 1 .. writes /\ Well(journal, writes, now)
    BY InvFacts
  <2>2. a \in Readable(journal) /\ b \in Readable(journal) /\ a # NoId /\ b # NoId
    BY DEF OpenIds, Readable
  <2>3. PICK m \in DOMAIN journal : journal[m] = Row(journal, a) /\ journal[m].id = a
    BY <2>1, <2>2, RowIs
  <2>4. PICK n \in DOMAIN journal : journal[n] = Row(journal, b) /\ journal[n].id = b
    BY <2>1, <2>2, RowIs
  <2> QED BY <2>1, <2>2, <2>3, <2>4 DEF Well
<1> QED BY <1>1, Invariant, PTL

\* A trim brings the file under its bound, or leaves nothing but open receipts
\* in it.
THEOREM TrimAlwaysBounds == Spec => TrimBounds
<1> DEFINE Bound == ~ (DOMAIN journal \subseteq DOMAIN journal')
                      => \/ Bytes(journal') <= MaxBytes
                         \/ \A line \in Lines(journal') : line.id \in OpenIds(journal')
<1>1. ASSUME Inv, NEW line, Fitting(line), Written(line) PROVE Bound
  <2> DEFINE J == Joined(journal, line)
  <2>1. /\ writes \in Nat /\ now \in Nat /\ DOMAIN journal \subseteq 1 .. writes
        /\ Well(journal, writes, now)
    BY <1>1, InvFacts
  <2>2. Well(J, writes + 1, now)
    BY <1>1, <2>1, JoinedWell DEF Fitting
  <2>3. DOMAIN journal \subseteq DOMAIN J
    BY <2>1, JoinedLines
  <2>4. journal' = J \/ journal' \in Trimmed(J)
    BY <1>1 DEF Written, Write, WriteCutLate
  <2> HIDE DEF J
  <2>5. /\ writes + 1 \in Nat /\ DOMAIN J \subseteq 1 .. writes + 1
        /\ \A n \in DOMAIN J : J[n].size \in Nat \ {0}
    <3>1. Torn.size \in Nat \ {0}
      BY DEF Torn, Line, Extra
    <3> QED BY <2>1, <2>2, <3>1 DEF Well, GoodLine
  <2> QED BY <2>3, <2>4, <2>5, TrimmedBound
<1>2. ASSUME Inv, WriteCutEarly PROVE Bound
  <2>1. DOMAIN journal \subseteq DOMAIN journal'
    BY <1>2, InvFacts, JoinedLines DEF WriteCutEarly
  <2> QED BY <2>1
<1>3. ASSUME Inv, [Next]_vars PROVE Bound
  <2>1. CASE \E k \in Keys, w \in Widths : Receive(k, w)
    <3>1. PICK k \in Keys, w \in Widths : Receive(k, w)
      BY <2>1
    <3>2. /\ Receivable(k) /\ Written(Line(<<k, Generation(k)>>, "accepted", w, now))
          /\ writes < MaxWrites
      BY <3>1 DEF Receive, Written, Write, WriteCutLate
    <3> QED BY <1>1, <1>3, <3>2, ReceiveFits
  <2>2. CASE \E k \in Keys : ReceiveTorn(k)
    BY <1>2, <1>3, <2>2 DEF ReceiveTorn
  <2>3. CASE \E id \in Ids, s \in Terminal \cup {"launching"} : Move(id, s)
    <3>1. PICK id \in Ids, s \in Terminal \cup {"launching"} : Move(id, s)
      BY <2>3
    <3>2. /\ id \in Readable(journal) /\ s \in Opened \cup Terminal
          /\ Written(Line(id, s, Row(journal, id).text, Row(journal, id).day))
      BY <3>1 DEF Move, Opened
    <3> QED BY <1>1, <1>3, <3>2, MoveFits
  <2>4. CASE \E id \in Ids : MoveTorn(id)
    BY <1>2, <1>3, <2>4 DEF MoveTorn
  <2>5. CASE Tomorrow \/ UNCHANGED vars
    BY <2>5 DEF Tomorrow, vars
  <2> QED BY <1>3, <2>1, <2>2, <2>3, <2>4, <2>5 DEF Next
<1> QED BY <1>3, Invariant, PTL DEF Spec, TrimBounds
-----------------------------------------------------------------------------
(* Without trims *)

Whole == DOMAIN journal \subseteq DOMAIN journal'

\* The lines that were there stay, and the row that was written is at the end,
\* unless a trim dropped that one.
LEMMA WholeLines ==
  ASSUME Inv, NEW line, Fitting(line), Written(line), Whole
  PROVE  /\ \A n \in DOMAIN journal : n \in DOMAIN journal' /\ journal'[n] = journal[n]
         /\ DOMAIN journal' \subseteq DOMAIN journal \cup {writes + 1}
         /\ writes + 1 \in DOMAIN journal' => journal'[writes + 1] = line
<1> DEFINE J == Joined(journal, line)
<1>1. writes \in Nat /\ DOMAIN journal \subseteq 1 .. writes
  BY InvFacts
<1>2. /\ DOMAIN J = DOMAIN journal \cup {writes + 1}
      /\ \A n \in DOMAIN journal : J[n] = journal[n]
      /\ J[writes + 1] = line
  BY <1>1, JoinedLines
<1>3. journal' = J \/ journal' \in Trimmed(J)
  BY DEF Written, Write, WriteCutLate
<1> HIDE DEF J
<1>4. DOMAIN journal' \subseteq DOMAIN J /\ \A n \in DOMAIN journal' : journal'[n] = J[n]
  <2>1. CASE journal' \in Trimmed(J)
    <3>1. PICK K \in SUBSET DOMAIN J : journal' = Restrict(J, K)
      BY <2>1 DEF Trimmed
    <3> QED BY <3>1, RestrictLines
  <2> QED BY <1>3, <2>1
<1> QED BY <1>2, <1>4 DEF Whole

LEMMA WholeStatus ==
  ASSUME Inv, NEW line, Fitting(line), Written(line), Whole, NEW id \in Ids
  PROVE  \/ Status(journal', id) = Status(journal, id)
         \/ id = line.id /\ Status(journal', id) = line.status
<1> DEFINE J == Joined(journal, line)
<1>1. writes \in Nat /\ DOMAIN journal \subseteq 1 .. writes /\ writes + 1 \in Nat /\ id # NoId
  BY InvFacts, IdsFacts
<1>2. /\ DOMAIN J = DOMAIN journal \cup {writes + 1}
      /\ \A n \in DOMAIN journal : J[n] = journal[n]
      /\ J[writes + 1] = line /\ writes + 1 \notin DOMAIN journal
  BY <1>1, JoinedLines
<1>3. /\ \A n \in DOMAIN journal : n \in DOMAIN journal' /\ journal'[n] = journal[n]
      /\ DOMAIN journal' \subseteq DOMAIN journal \cup {writes + 1}
      /\ writes + 1 \in DOMAIN journal' => journal'[writes + 1] = line
  BY WholeLines
<1> HIDE DEF J
<1>4. CASE id # line.id \/ writes + 1 \notin DOMAIN journal'
  <2>1. /\ Rows(journal', id) = Rows(journal, id)
        /\ \A n \in Rows(journal, id) : journal'[n] = journal[n]
    BY <1>3, <1>4 DEF Rows
  <2>2. id \in Readable(journal') => id \in Readable(journal)
    <3>1. \A K : id \in Readable(K) <=> Rows(K, id) # {}
      BY <1>1 DEF Readable, Lines, Rows
    <3> QED BY <2>1, <3>1
  <2>3. id \in Readable(journal) => id \in Readable(journal') /\ Row(journal', id) = Row(journal, id)
    BY <1>1, <2>1, SameRow
  <2> QED BY <2>2, <2>3 DEF Status
<1>5. CASE id = line.id /\ writes + 1 \in DOMAIN journal'
  <2>1. /\ Rows(journal', id) = Rows(J, id)
        /\ \A n \in Rows(J, id) : journal'[n] = J[n]
    BY <1>2, <1>3, <1>5 DEF Rows
  <2>2. id \in Readable(J) /\ Row(J, id) = line
    BY <1>1, <1>5, JoinedRow DEF J
  <2>3. DOMAIN J \subseteq 1 .. writes + 1
    BY <1>1, <1>2
  <2>4. id \in Readable(journal') /\ Row(journal', id) = line
    BY <1>1, <2>1, <2>2, <2>3, SameRow
  <2> QED BY <1>5, <2>4 DEF Status
<1> QED BY <1>4, <1>5

Moved(id) ==
  \/ Status(journal', id) = Status(journal, id)
  \/ <<Status(journal, id), Status(journal', id)>> \in Moves \cup {<<"none", "accepted">>}

LEMMA TornStatus ==
  ASSUME Inv, WriteCutEarly, NEW id \in Ids
  PROVE  Status(journal', id) = Status(journal, id)
<1>1. writes \in Nat /\ DOMAIN journal \subseteq 1 .. writes /\ id # NoId
  BY InvFacts, IdsFacts
<1>2. /\ DOMAIN journal' = DOMAIN journal \cup {writes + 1}
      /\ \A n \in DOMAIN journal : journal'[n] = journal[n]
      /\ journal'[writes + 1].id = NoId
  BY <1>1, JoinedLines, IdsFacts DEF WriteCutEarly
<1>3. /\ Rows(journal', id) = Rows(journal, id)
      /\ \A n \in Rows(journal, id) : journal'[n] = journal[n]
  BY <1>1, <1>2 DEF Rows
<1>4. \A K : id \in Readable(K) <=> Rows(K, id) # {}
  BY <1>1 DEF Readable, Lines, Rows
<1>5. id \in Readable(journal) => Row(journal', id) = Row(journal, id)
  BY <1>1, <1>3, SameRow
<1> QED BY <1>3, <1>4, <1>5 DEF Status

LEMMA WholeMoves ==
  ASSUME Inv, [Next /\ Whole]_vars, NEW id \in Ids
  PROVE  Moved(id)
<1>1. CASE Whole /\ \E k \in Keys, w \in Widths : Receive(k, w)
  <2>1. PICK k \in Keys, w \in Widths : Receive(k, w)
    BY <1>1
  <2> DEFINE g == <<k, Generation(k)>>
             line == Line(g, "accepted", w, now)
  <2>2. Receivable(k) /\ Written(line) /\ writes < MaxWrites
    BY <2>1 DEF Receive, Written, Write, WriteCutLate
  <2>3. Fitting(line) /\ g \notin Readable(journal) /\ line.id = g /\ line.status = "accepted"
    BY <2>2, ReceiveFits, GenerationIs, LineFields DEF Opened
  <2> HIDE DEF g, line
  <2>4. Status(journal, g) = "none"
    BY <2>3 DEF Status
  <2>5. \/ Status(journal', id) = Status(journal, id)
        \/ id = g /\ Status(journal', id) = "accepted"
    BY <1>1, <2>2, <2>3, WholeStatus
  <2> QED BY <2>4, <2>5 DEF Moved
<1>2. CASE Whole /\ \E i \in Ids, s \in Terminal \cup {"launching"} : Move(i, s)
  <2>1. PICK i \in Ids, s \in Terminal \cup {"launching"} : Move(i, s)
    BY <1>2
  <2> DEFINE line == Line(i, s, Row(journal, i).text, Row(journal, i).day)
  <2>2. /\ i \in Readable(journal) /\ Written(line) /\ s \in Opened \cup Terminal
        /\ <<Row(journal, i).status, s>> \in Moves
    BY <2>1 DEF Move, Opened
  <2>3. Fitting(line) /\ line.id = i /\ line.status = s
    BY <2>2, MoveFits, LineFields
  <2> HIDE DEF line
  <2>4. Status(journal, i) = Row(journal, i).status
    BY <2>2 DEF Status
  <2>5. \/ Status(journal', id) = Status(journal, id)
        \/ id = line.id /\ Status(journal', id) = line.status
    <3>1. Written(line) /\ Fitting(line) /\ Whole
      BY <1>2, <2>2, <2>3
    <3> QED BY <3>1, WholeStatus
  <2> QED BY <2>2, <2>3, <2>4, <2>5 DEF Moved
<1>3. CASE WriteCutEarly
  BY <1>3, TornStatus DEF Moved
<1>4. CASE Tomorrow \/ UNCHANGED vars
  BY <1>4 DEF Tomorrow, vars, Moved
<1> QED BY <1>1, <1>2, <1>3, <1>4 DEF Next, ReceiveTorn, MoveTorn

\* Without a trim the last event of a key is in the file.
Remembered ==
  \A k \in Keys : events[k] # <<>> =>
    \E n \in DOMAIN journal :
      /\ journal[n].id # NoId /\ journal[n].id[1] = k
      /\ journal[n].day = events[k][Len(events[k])]

LEMMA RememberedKept ==
  ASSUME Remembered, UNCHANGED events,
         \A n \in DOMAIN journal : n \in DOMAIN journal' /\ journal'[n] = journal[n]
  PROVE  Remembered'
  BY DEF Remembered

LEMMA ReceiveRemembers ==
  ASSUME Inv, Inv', Remembered, RetriesCollapse, Whole,
         NEW k \in Keys, NEW w \in Widths, Receive(k, w)
  PROVE  Remembered' /\ RetriesCollapse'
<1> DEFINE g == <<k, Generation(k)>>
           line == Line(g, "accepted", w, now)
<1>1. /\ Receivable(k) /\ Written(line) /\ writes < MaxWrites
      /\ events' = [events EXCEPT ![k] = Append(@, now)]
  BY DEF Receive, Written, Write, WriteCutLate
<1>2. /\ Fitting(line) /\ g \notin Readable(journal)
      /\ line.id = g /\ line.status = "accepted" /\ line.day = now
  BY <1>1, ReceiveFits, GenerationIs, LineFields DEF Opened
<1>3. g[1] = k /\ g \in Ids /\ g # NoId
  BY <1>1, GenerationIs, IdsFacts DEF Ids
<1> HIDE DEF g, line
<1>4. /\ \A n \in DOMAIN journal : n \in DOMAIN journal' /\ journal'[n] = journal[n]
      /\ DOMAIN journal' \subseteq DOMAIN journal \cup {writes + 1}
      /\ writes + 1 \in DOMAIN journal' => journal'[writes + 1] = line
  BY <1>1, <1>2, WholeLines
<1>5. writes + 1 \in DOMAIN journal' /\ journal'[writes + 1] = line
  <2>1. last' = [last EXCEPT ![g] = "accepted"]
    BY <1>1, <1>2 DEF Written, Write, WriteCutLate
  <2>2. last'[g] \in Opened
    BY <1>3, <2>1 DEF Inv, Opened
  <2>3. g \in Readable(journal')
    BY <1>3, <2>2 DEF Inv, Told
  <2>4. PICK n \in DOMAIN journal' : journal'[n].id = g
    BY <2>3 DEF Readable, Lines
  <2>5. n \notin DOMAIN journal
    BY <1>2, <1>3, <1>4, <2>4 DEF Readable, Lines
  <2> QED BY <1>4, <2>4, <2>5
<1>6. /\ now \in Nat /\ Retention \in Nat /\ \A j \in Keys : events[j] \in Seq(0 .. now)
      /\ \A n \in DOMAIN journal : journal[n].id # NoId => journal[n].day \in 0 .. now
  BY InvFacts, Bounds, IdsFacts DEF Inv, Well, GoodLine
<1>7. /\ \A j \in Keys : j # k => events'[j] = events[j]
      /\ events'[k] = Append(events[k], now)
  BY <1>1 DEF Inv
<1>8. /\ Len(events'[k]) = Len(events[k]) + 1 /\ Len(events[k]) \in Nat
      /\ \A i \in 1 .. Len(events[k]) : events'[k][i] = events[k][i]
      /\ events'[k][Len(events[k]) + 1] = now /\ events'[k] # <<>>
  <2> DEFINE old == events[k]
             new == Append(old, now)
  <2>1. old \in Seq(0 .. now) /\ now \in 0 .. now
    BY <1>6
  <2> HIDE DEF old
  <2>2. /\ Len(new) = Len(old) + 1 /\ Len(old) \in Nat
        /\ \A i \in 1 .. Len(old) : new[i] = old[i]
        /\ new[Len(old) + 1] = now
    BY <2>1
  <2>3. new # <<>>
    BY <2>1
  <2> QED BY <1>7, <2>2, <2>3 DEF old
<1>9. Remembered'
  <2> SUFFICES ASSUME NEW j \in Keys, events'[j] # <<>>
               PROVE  \E n \in DOMAIN journal' :
                        /\ journal'[n].id # NoId /\ journal'[n].id[1] = j
                        /\ journal'[n].day = events'[j][Len(events'[j])]
    BY DEF Remembered
  <2>1. CASE j = k
    BY <1>2, <1>3, <1>5, <1>8, <2>1
  <2>2. CASE j # k
    BY <1>4, <1>7, <2>2 DEF Remembered
  <2> QED BY <2>1, <2>2
<1>10. RetriesCollapse'
  <2> SUFFICES ASSUME NEW j \in Keys, NEW i \in 1 .. (Len(events'[j]) - 1)
               PROVE  events'[j][i] + Retention < events'[j][i + 1]
    BY DEF RetriesCollapse
  <2>1. CASE j # k
    BY <1>7, <2>1 DEF RetriesCollapse
  <2>2. CASE j = k /\ i # Len(events[k])
    <3>1. i \in 1 .. (Len(events[k]) - 1) /\ i \in 1 .. Len(events[k]) /\ i + 1 \in 1 .. Len(events[k])
      BY <1>8, <2>2
    <3>2. events[k][i] + Retention < events[k][i + 1]
      BY <3>1 DEF RetriesCollapse
    <3> QED BY <1>8, <2>2, <3>1, <3>2
  <2>3. CASE j = k /\ i = Len(events[k])
    <3>1. events[k] # <<>>
      BY <1>8, <2>3
    <3>2. PICK n \in DOMAIN journal :
            /\ journal[n].id # NoId /\ journal[n].id[1] = k
            /\ journal[n].day = events[k][Len(events[k])]
      BY <3>1 DEF Remembered
    <3>3. ~Live(k)
      BY <1>1 DEF Receivable
    <3>4. Apart(journal[n].day, now)
      BY <3>2, <3>3, OldRows
    <3>5. journal[n].day \in 0 .. now
      BY <1>6, <3>2
    <3>6. journal[n].day + Retention < now
      BY <1>6, <3>4, <3>5 DEF Apart
    <3>7. events'[j][i] = journal[n].day /\ events'[j][i + 1] = now
      BY <1>8, <2>3, <3>2
    <3> QED BY <3>6, <3>7
  <2> QED BY <2>1, <2>2, <2>3
<1> QED BY <1>9, <1>10

LEMMA WholeRemembers ==
  ASSUME Inv, Inv', Remembered, RetriesCollapse, [Next /\ Whole]_vars
  PROVE  Remembered' /\ RetriesCollapse'
<1>1. CASE Whole /\ \E k \in Keys, w \in Widths : Receive(k, w)
  BY <1>1, ReceiveRemembers
<1>2. CASE Whole /\ \E id \in Ids, s \in Terminal \cup {"launching"} : Move(id, s)
  <2>1. PICK i \in Ids, s \in Terminal \cup {"launching"} : Move(i, s)
    BY <1>2
  <2> DEFINE line == Line(i, s, Row(journal, i).text, Row(journal, i).day)
  <2>2. Fitting(line) /\ Written(line) /\ events' = events
    BY <2>1, MoveFits DEF Move, Opened
  <2> HIDE DEF line
  <2>3. \A n \in DOMAIN journal : n \in DOMAIN journal' /\ journal'[n] = journal[n]
    BY <1>2, <2>2, WholeLines
  <2> QED BY <2>2, <2>3, RememberedKept DEF RetriesCollapse
<1>3. CASE WriteCutEarly /\ events' = events
  <2>1. \A n \in DOMAIN journal : n \in DOMAIN journal' /\ journal'[n] = journal[n]
    BY <1>3, InvFacts, JoinedLines DEF WriteCutEarly
  <2> QED BY <1>3, <2>1, RememberedKept DEF RetriesCollapse
<1>4. CASE Tomorrow \/ UNCHANGED vars
  BY <1>4, RememberedKept DEF Tomorrow, vars, RetriesCollapse
<1> QED BY <1>1, <1>2, <1>3, <1>4 DEF Next, ReceiveTorn, MoveTorn

LEMMA UntrimmedIsSpec == UntrimmedSpec => Spec /\ [][Next /\ Whole]_vars
<1>1. [Next /\ Whole]_vars => [Next]_vars
  OBVIOUS
<1> QED BY <1>1, PTL DEF UntrimmedSpec, Spec, Whole

\* As long as no trim drops a line, the file is a map from receipts to states and
\* a step makes one of the moves of the state machine: what the dispatch assumes.
THEOREM UntrimmedIsMap == UntrimmedSpec => StatusMoves
<1>1. Inv /\ [Next /\ Whole]_vars => [\A id \in Ids : Moved(id)]_vars
  BY WholeMoves
<1> QED BY <1>1, Invariant, UntrimmedIsSpec, PTL DEF StatusMoves, Moved

\* ... and a settled receipt is never read as open again: nothing but the trim
\* breaks the claim.
THEOREM UntrimmedStaysSettled == UntrimmedSpec => SettledNeverReopens
<1> DEFINE Stays == \A id \in Readable(journal) \cap Readable(journal') :
                      Row(journal, id).status \in Terminal
                        => Row(journal', id).status \in Terminal
<1>1. Inv /\ [Next /\ Whole]_vars => Stays
  <2> SUFFICES ASSUME Inv, [Next /\ Whole]_vars,
                      NEW id \in Readable(journal) \cap Readable(journal'),
                      Row(journal, id).status \in Terminal
               PROVE  Row(journal', id).status \in Terminal
    OBVIOUS
  <2>1. id \in Ids
    BY InvFacts, ReadableIds
  <2>2. Moved(id)
    BY <2>1, WholeMoves
  <2>3. /\ Status(journal, id) = Row(journal, id).status
        /\ Status(journal', id) = Row(journal', id).status
    BY DEF Status
  <2> QED BY <2>2, <2>3 DEF Moved, Moves, Terminal
<1> QED BY <1>1, Invariant, UntrimmedIsSpec, PTL DEF SettledNeverReopens

\* ... and a key gets another receipt only after its window: nothing but the trim
\* makes two events of one.
THEOREM UntrimmedCollapses == UntrimmedSpec => []RetriesCollapse
<1>1. Init => Remembered /\ RetriesCollapse
  BY DEF Init, Remembered, RetriesCollapse
<1>2. Inv /\ Inv' /\ Remembered /\ RetriesCollapse /\ [Next /\ Whole]_vars
        => Remembered' /\ RetriesCollapse'
  BY WholeRemembers
<1> QED BY <1>1, <1>2, Invariant, UntrimmedIsSpec, PTL DEF UntrimmedSpec
=============================================================================
