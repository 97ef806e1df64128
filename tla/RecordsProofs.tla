---------------------------- MODULE RecordsProofs ----------------------------
(***************************************************************************)
(* Proofs about Records, for any publications, clients, grants and limits, *)
(* in whatever order publishing, requests, failures and crashes come.      *)
(***************************************************************************)
EXTENDS Records, FiniteSetTheorems, SequenceTheorems, TLAPS

RowField == {"id", "workspace", "created", "text", "lists", "pinned", "archived", "tags"}

PublishingField == {"pc", "next", "results", "caps"}

RequestField == {"pc", "op", "workspace", "id", "tags", "page"}

Kept(p) == \E r \in rows : StoredFor(p, r)

Accepted(p) == Problem(p.raw, p.finish, p.messages) = "none"

\* The tables: ids are keys, children belong to a record, and a record is a demo
\* or the record of an accepted publication.
StoreInv ==
  /\ \A r \in rows : DOMAIN r = RowField
  /\ StoredWhole

\* What is being sent was accepted and is kept, and so is what was handed over;
\* no destination still to come was handed anything.
SendingInv ==
  /\ publishing = [p \in Publication |-> publishing[p]]
  /\ handed = [p \in Publication |-> [i \in DOMAIN p.destinations |-> handed[p][i]]]
  /\ \A p \in Publication :
       /\ DOMAIN publishing[p] = PublishingField
       /\ publishing[p].next \in Nat
       /\ publishing[p].pc # "idle" => Accepted(p)
       /\ publishing[p].pc = "sending" => Kept(p)
       /\ \A i \in DOMAIN p.destinations :
            /\ handed[p][i] \in {0, 1}
            /\ handed[p][i] = 1 => Kept(p)
            /\ publishing[p].pc = "sending" /\ i >= publishing[p].next => handed[p][i] = 0

\* A request under way is for a workspace its token covers.
RequestsInv ==
  /\ request = [c \in Client |-> request[c]]
  /\ \A c \in Client :
       /\ DOMAIN request[c] = RequestField
       /\ request[c].pc # "idle" => request[c].workspace \in Grants[c]

RecordsInv == StoreInv /\ SendingInv /\ RequestsInv

Outcomes == {"stored", "delivered", "failed", Rejected}

\* What results tell of destination i is what became of it.
Told(p, i, results, caps) ==
  LET told == results[Place(p, i)] IN
  p.destinations[i].kind # "dashboard" =>
    /\ told = "delivered" =>
         handed[p][i] = 1 /\ p.destinations[i].kind \in VisibleKinds(caps)
    /\ told = Rejected => handed[p][i] = 0
    /\ told = "failed" => (handed[p][i] = 1) = (p.destinations[i].kind \in Deliverers)

\* A summary being sent was not reported on, and what is known of it so far is
\* true of the destinations so far; a report was on all of them, of a record kept.
Reported(p) ==
  LET s == publishing[p] IN
  /\ s.pc = "saving" => s.next = 1
  /\ s.pc = "sending" =>
       /\ report[p] = NoReport
       /\ s.next \in 1..(Len(p.destinations) + 1)
       /\ s.results \in Seq(Outcomes) /\ Len(s.results) = Place(p, s.next - 1)
       /\ \A i \in 1..(s.next - 1) : Told(p, i, s.results, s.caps)
  /\ report[p] # NoReport =>
       /\ Kept(p)
       /\ Len(report[p].results) = Place(p, Len(p.destinations))
       /\ \A i \in DOMAIN p.destinations : Told(p, i, report[p].results, report[p].caps)

ReportingInv ==
  /\ report = [p \in Publication |-> report[p]]
  /\ \A p \in Publication : Reported(p)

\* The change asked for was made to the row.
Done(row, asked) ==
  /\ asked.op = "pin" => row.pinned
  /\ asked.op = "unpin" => ~row.pinned
  /\ asked.op = "archive" => row.archived
  /\ asked.op = "unarchive" => ~row.archived
  /\ asked.op = "tag" => row.tags = Join(asked.tags)

\* The answer to c shows what AnswersShowChange says.
Answered(c) ==
  LET asked == answer[c].asked
      shown == answer[c].shown IN
  /\ Len(shown) <= asked.page.limit
  /\ \A i \in DOMAIN shown :
       /\ Shows(shown[i], asked)
       /\ \E r \in rows :
            /\ r.id = shown[i].id
            /\ r.workspace \in Grants[c]
            /\ shown[i].summary = SummaryOf(r)
  /\ \A i, j \in DOMAIN shown : i < j =>
       /\ shown[i].id # shown[j].id
       /\ shown[j].pinned => shown[i].pinned
       /\ shown[i].pinned = shown[j].pinned => shown[i].created >= shown[j].created

\* A request that made its change holds the lock, so the change stays there to be
\* shown; nothing a request asks for changes on the way.
Answering(c) ==
  LET q == request[c] IN
  /\ q.page \in IF q.op = "list" THEN Pages ELSE {Everything}
  /\ q.op = "tag" => q.tags \in Tags
  /\ q.pc = "reloading" =>
       /\ lock = c /\ q.op # "list" /\ InWorkspace(q.id, q.workspace) # {}
       /\ \A row \in InWorkspace(q.id, q.workspace) : Done(row, q)
  /\ answer[c] # NoReport => Answered(c)

AnsweringInv ==
  /\ IsFiniteSet(rows)
  /\ answer = [c \in Client |-> answer[c]]
  /\ \A c \in Client : Answering(c)

-----------------------------------------------------------------------------
(* Lines that are not blank *)

\* What holds of zero and of each number's successor holds of all.
LEMMA Induction ==
  ASSUME NEW P \in SUBSET Nat, 0 \in P, \A n \in P : n + 1 \in P
  PROVE  \A n \in Nat : n \in P
<1> SUFFICES ASSUME Nat \ P # {} PROVE FALSE
  OBVIOUS
<1> DEFINE R == OpToRel(<, Nat)
           T == Nat \ P
<1>1. IsWellFoundedOn(R, Nat) /\ T \subseteq Nat /\ T # {}
  BY NatLessThanWellFounded
<1>2. \A x, y \in Nat : <<x, y>> \in R <=> x < y
  BY DEF OpToRel
<1> HIDE DEF R, T
<1>3. PICK x \in T : \A y \in T : ~(<<y, x>> \in R)
  BY <1>1, WFMin
<1>4. x \in Nat /\ x # 0 /\ x \notin P
  BY <1>1, <1>3 DEF T
<1>5. x - 1 \in Nat /\ x - 1 < x
  BY <1>4
<1>6. x - 1 \in P
  BY <1>1, <1>2, <1>3, <1>4, <1>5 DEF T
<1>7. QED
  BY <1>4, <1>6

\* The function Nonblank is read off, up to place n.
Keeps(lines, n, g) ==
  g = [i \in 0..n |-> IF i = 0 THEN <<>>
                      ELSE IF IsBlank(lines[i]) THEN g[i - 1]
                      ELSE Append(g[i - 1], lines[i])]

LEMMA KeepsExists ==
  ASSUME NEW lines, NEW m \in Nat
  PROVE  \E g : Keeps(lines, m, g)
<1> DEFINE P == {n \in Nat : \E g : Keeps(lines, n, g)}
<1>1. 0 \in P
  <2> DEFINE g == [i \in 0..0 |-> <<>>]
  <2>1. Keeps(lines, 0, g)
    BY DEF Keeps
  <2>2. QED
    BY <2>1
<1>2. ASSUME NEW n \in P PROVE n + 1 \in P
  <2>1. PICK g : Keeps(lines, n, g)
    OBVIOUS
  <2> DEFINE last == IF IsBlank(lines[n + 1]) THEN g[n] ELSE Append(g[n], lines[n + 1])
             h == [i \in 0..(n + 1) |-> IF i = n + 1 THEN last ELSE g[i]]
  <2>2. \A i \in 0..n : g[i] = IF i = 0 THEN <<>>
                               ELSE IF IsBlank(lines[i]) THEN g[i - 1]
                               ELSE Append(g[i - 1], lines[i])
    BY <2>1 DEF Keeps
  <2>3. \A i \in 0..n : h[i] = g[i] /\ i # n + 1 /\ i \in 0..(n + 1)
    OBVIOUS
  <2>4. h[n + 1] = last /\ n + 1 # 0 /\ h[n] = g[n] /\ (n + 1) - 1 = n
    OBVIOUS
  <2>5. \A i \in 0..(n + 1) : h[i] = IF i = 0 THEN <<>>
                                     ELSE IF IsBlank(lines[i]) THEN h[i - 1]
                                     ELSE Append(h[i - 1], lines[i])
    <3> SUFFICES ASSUME NEW i \in 0..(n + 1)
                 PROVE  h[i] = IF i = 0 THEN <<>>
                               ELSE IF IsBlank(lines[i]) THEN h[i - 1]
                               ELSE Append(h[i - 1], lines[i])
      OBVIOUS
    <3>1. CASE i = n + 1
      BY <2>4, <3>1
    <3>2. CASE i \in 0..n /\ i # 0
      <4>1. i - 1 \in 0..n
        BY <3>2
      <4> HIDE DEF h
      <4>2. QED
        BY <2>2, <2>3, <3>2, <4>1
    <3>3. CASE i = 0
      BY <2>2, <2>3, <3>3
    <3>4. QED
      BY <3>1, <3>2, <3>3
  <2>6. h = [i \in 0..(n + 1) |-> h[i]]
    OBVIOUS
  <2> HIDE DEF h
  <2>7. Keeps(lines, n + 1, h)
    BY <2>5, <2>6 DEF Keeps
  <2>8. QED
    BY <2>7
<1>3. P \in SUBSET Nat
  OBVIOUS
<1>4. m \in P
  <2> HIDE DEF P
  <2>1. QED
    BY <1>1, <1>2, <1>3, Induction
<1>5. QED
  BY <1>4

LEMMA NonblankDefined ==
  ASSUME NEW S, NEW lines \in Seq(S)
  PROVE  \E g : /\ Nonblank(lines) = g[Len(lines)]
                /\ g[0] = <<>>
                /\ \A n \in Nat : n + 1 <= Len(lines) =>
                     g[n + 1] = IF IsBlank(lines[n + 1]) THEN g[n]
                                ELSE Append(g[n], lines[n + 1])
<1> DEFINE m == Len(lines)
           f == CHOOSE g : Keeps(lines, m, g)
<1>1. m \in Nat
  OBVIOUS
<1>2. Keeps(lines, m, f)
  <2>1. \E g : Keeps(lines, m, g)
    BY <1>1, KeepsExists
  <2>2. QED
    BY <2>1
<1>3. Nonblank(lines) = f[m]
  BY DEF Nonblank, Keeps
<1> HIDE DEF f, m
<1>4. \A i \in 0..m : f[i] = IF i = 0 THEN <<>>
                             ELSE IF IsBlank(lines[i]) THEN f[i - 1]
                             ELSE Append(f[i - 1], lines[i])
  BY <1>2 DEF Keeps
<1>5. f[0] = <<>>
  BY <1>1, <1>4
<1>6. ASSUME NEW n \in Nat, n + 1 <= m
      PROVE  f[n + 1] = IF IsBlank(lines[n + 1]) THEN f[n] ELSE Append(f[n], lines[n + 1])
  <2>1. n + 1 \in 0..m /\ n + 1 # 0 /\ (n + 1) - 1 = n
    BY <1>1, <1>6
  <2>2. QED
    BY <1>4, <2>1
<1>7. QED
  BY <1>3, <1>5, <1>6 DEF m

\* Only lines that are not blank are kept.
LEMMA NonblankLines ==
  ASSUME NEW S, NEW lines \in Seq(S)
  PROVE  Nonblank(lines) \in Seq({l \in S : ~IsBlank(l)})
<1> DEFINE N == {l \in S : ~IsBlank(l)}
           m == Len(lines)
<1>1. PICK g : /\ Nonblank(lines) = g[m]
               /\ g[0] = <<>>
               /\ \A n \in Nat : n + 1 <= m =>
                    g[n + 1] = IF IsBlank(lines[n + 1]) THEN g[n]
                               ELSE Append(g[n], lines[n + 1])
  BY NonblankDefined
<1> DEFINE P == {n \in Nat : n <= m => g[n] \in Seq(N)}
<1>2. 0 \in P
  <2>1. <<>> \in Seq(N)
    OBVIOUS
  <2> HIDE DEF N
  <2>2. QED
    BY <1>1, <2>1
<1>3. ASSUME NEW n \in P PROVE n + 1 \in P
  <2> SUFFICES ASSUME n + 1 <= m PROVE g[n + 1] \in Seq(N)
    OBVIOUS
  <2>1. n \in Nat /\ lines[n + 1] \in S /\ g[n] \in Seq(N)
    OBVIOUS
  <2>2. g[n + 1] = IF IsBlank(lines[n + 1]) THEN g[n] ELSE Append(g[n], lines[n + 1])
    BY <1>1, <2>1
  <2>3. CASE IsBlank(lines[n + 1])
    BY <2>1, <2>2, <2>3
  <2>4. CASE ~IsBlank(lines[n + 1])
    <3>1. lines[n + 1] \in N
      BY <2>1, <2>4
    <3> HIDE DEF N
    <3>2. QED
      BY <2>1, <2>2, <2>4, <3>1
  <2>5. QED
    BY <2>3, <2>4
<1>4. P \in SUBSET Nat /\ m \in Nat
  OBVIOUS
<1>5. m \in P
  <2> HIDE DEF P, m
  <2>1. QED
    BY <1>2, <1>3, <1>4, Induction
<1>6. QED
  BY <1>1, <1>5

\* Lines none of which is blank are all kept.
LEMMA NonblankKeepsAll ==
  ASSUME NEW S, NEW lines \in Seq(S), \A i \in 1..Len(lines) : ~IsBlank(lines[i])
  PROVE  Nonblank(lines) = lines
<1> DEFINE m == Len(lines)
<1>1. PICK g : /\ Nonblank(lines) = g[m]
               /\ g[0] = <<>>
               /\ \A n \in Nat : n + 1 <= m =>
                    g[n + 1] = IF IsBlank(lines[n + 1]) THEN g[n]
                               ELSE Append(g[n], lines[n + 1])
  BY NonblankDefined
<1> DEFINE P == {n \in Nat : n <= m => g[n] = SubSeq(lines, 1, n)}
<1>2. 0 \in P
  <2>1. SubSeq(lines, 1, 0) = <<>>
    OBVIOUS
  <2>2. QED
    BY <1>1, <2>1
<1>3. ASSUME NEW n \in P PROVE n + 1 \in P
  <2> SUFFICES ASSUME n + 1 <= m PROVE g[n + 1] = SubSeq(lines, 1, n + 1)
    OBVIOUS
  <2>1. n \in Nat /\ ~IsBlank(lines[n + 1]) /\ g[n] = SubSeq(lines, 1, n)
    OBVIOUS
  <2>2. g[n + 1] = Append(SubSeq(lines, 1, n), lines[n + 1])
    BY <1>1, <2>1
  <2>3. Append(SubSeq(lines, 1, n), lines[n + 1]) = SubSeq(lines, 1, n + 1)
    BY <2>1
  <2>4. QED
    BY <2>2, <2>3
<1>4. P \in SUBSET Nat /\ m \in Nat
  OBVIOUS
<1>5. m \in P
  <2> HIDE DEF P, m
  <2>1. QED
    BY <1>2, <1>3, <1>4, Induction
<1>6. g[m] = SubSeq(lines, 1, m)
  BY <1>5
<1>7. SubSeq(lines, 1, m) = lines
  OBVIOUS
<1>8. QED
  BY <1>1, <1>6, <1>7

\* No lines but the blank ones are lost, so what is kept is kept again.
LEMMA NonblankAgain ==
  ASSUME NEW S, NEW lines \in Seq(S)
  PROVE  /\ Nonblank(lines) \in Seq(S)
         /\ Nonblank(Nonblank(lines)) = Nonblank(lines)
<1> DEFINE N == {l \in S : ~IsBlank(l)}
           kept == Nonblank(lines)
<1>1. kept \in Seq(N)
  BY NonblankLines
<1>2. \A i \in 1..Len(kept) : kept[i] \in N
  BY <1>1
<1>3. \A i \in 1..Len(kept) : ~IsBlank(kept[i])
  BY <1>2
<1>4. kept \in Seq(S)
  BY <1>1
<1> HIDE DEF kept
<1>5. Nonblank(kept) = kept
  BY <1>3, <1>4, NonblankKeepsAll
<1>6. QED
  BY <1>4, <1>5 DEF kept

LEMMA NonblankNone == Nonblank(<<>>) = <<>>
<1>1. <<>> \in Seq(STRING) /\ \A i \in 1..Len(<<>>) : ~IsBlank(<<>>[i])
  OBVIOUS
<1>2. QED
  BY <1>1, NonblankKeepsAll

-----------------------------------------------------------------------------
(* Lists joined into a column *)

\* The function Join is read off, up to place n.
Joins(list, n, g) ==
  g = [i \in 1..n |-> IF i = 1 THEN list[i] ELSE g[i - 1] \o list[i]]

LEMMA JoinsExists ==
  ASSUME NEW list, NEW m \in Nat
  PROVE  \E g : Joins(list, m, g)
<1> DEFINE P == {n \in Nat : \E g : Joins(list, n, g)}
<1>1. 0 \in P
  <2> DEFINE g == [i \in 1..0 |-> <<>>]
  <2>1. g = [i \in 1..0 |-> IF i = 1 THEN list[i] ELSE g[i - 1] \o list[i]]
    OBVIOUS
  <2> HIDE DEF g
  <2>2. Joins(list, 0, g)
    BY <2>1 DEF Joins
  <2>3. QED
    BY <2>2
<1>2. ASSUME NEW n \in P PROVE n + 1 \in P
  <2>1. PICK g : Joins(list, n, g)
    OBVIOUS
  <2> DEFINE last == IF n = 0 THEN list[1] ELSE g[n] \o list[n + 1]
             h == [i \in 1..(n + 1) |-> IF i = n + 1 THEN last ELSE g[i]]
  <2>2. \A i \in 1..n : g[i] = IF i = 1 THEN list[i] ELSE g[i - 1] \o list[i]
    BY <2>1 DEF Joins
  <2>3. \A i \in 1..n : h[i] = g[i] /\ i # n + 1 /\ i \in 1..(n + 1)
    OBVIOUS
  <2>4. /\ n \in Nat /\ n + 1 \in 1..(n + 1) /\ (n + 1) - 1 = n /\ h[n + 1] = last
        /\ n # 0 => n \in 1..n
    OBVIOUS
  <2>5. h = [i \in 1..(n + 1) |-> h[i]]
    OBVIOUS
  <2>6. \A i \in 1..(n + 1) : h[i] = IF i = 1 THEN list[i] ELSE h[i - 1] \o list[i]
    <3> SUFFICES ASSUME NEW i \in 1..(n + 1)
                 PROVE  h[i] = IF i = 1 THEN list[i] ELSE h[i - 1] \o list[i]
      OBVIOUS
    <3>1. CASE i = n + 1
      <4> HIDE DEF h
      <4>1. CASE n = 0
        BY <2>4, <3>1, <4>1 DEF last
      <4>2. CASE n # 0
        <5>1. h[n] = g[n] /\ i # 1 /\ i - 1 = n
          BY <2>3, <2>4, <3>1, <4>2
        <5>2. QED
          BY <2>4, <3>1, <4>2, <5>1 DEF last
      <4>3. QED
        BY <4>1, <4>2
    <3>2. CASE i # n + 1
      <4>1. i \in 1..n /\ (i # 1 => i - 1 \in 1..n)
        BY <2>4, <3>2
      <4> HIDE DEF h
      <4>2. QED
        BY <2>2, <2>3, <4>1
    <3>3. QED
      BY <3>1, <3>2
  <2> HIDE DEF h
  <2>7. Joins(list, n + 1, h)
    BY <2>5, <2>6 DEF Joins
  <2>8. QED
    BY <2>7
<1>3. P \in SUBSET Nat
  OBVIOUS
<1>4. m \in P
  <2> HIDE DEF P
  <2>1. QED
    BY <1>1, <1>2, <1>3, Induction
<1>5. QED
  BY <1>4

LEMMA JoinDefined ==
  ASSUME NEW S, NEW list \in Seq(S), list # <<>>
  PROVE  \E g : /\ Join(list) = g[Len(list)]
                /\ g[1] = list[1]
                /\ \A n \in Nat : n # 0 /\ n + 1 <= Len(list) =>
                     g[n + 1] = g[n] \o list[n + 1]
<1> DEFINE m == Len(list)
           f == CHOOSE g : Joins(list, m, g)
<1>1. m \in Nat /\ m # 0
  OBVIOUS
<1>2. Joins(list, m, f)
  <2>1. \E g : Joins(list, m, g)
    BY <1>1, JoinsExists
  <2>2. QED
    BY <2>1
<1>3. Join(list) = f[m]
  BY <1>1 DEF Join, FlattenSeq, Joins
<1> HIDE DEF f, m
<1>4. \A i \in 1..m : f[i] = IF i = 1 THEN list[i] ELSE f[i - 1] \o list[i]
  BY <1>2 DEF Joins
<1>5. f[1] = list[1]
  <2>1. 1 \in 1..m
    BY <1>1
  <2>2. QED
    BY <1>4, <2>1
<1>6. ASSUME NEW n \in Nat, n # 0, n + 1 <= m
      PROVE  f[n + 1] = f[n] \o list[n + 1]
  <2>1. n + 1 \in 1..m /\ n + 1 # 1 /\ (n + 1) - 1 = n
    BY <1>1, <1>6
  <2>2. QED
    BY <1>4, <2>1
<1>7. QED
  BY <1>3, <1>5, <1>6 DEF m

LEMMA JoinNone == Join(<<>>) = <<>>
BY DEF Join, FlattenSeq

\* A column is a sequence of lines.
LEMMA JoinLines ==
  ASSUME NEW S, NEW list \in Seq(Seq(S))
  PROVE  Join(list) \in Seq(S)
<1>1. CASE list = <<>>
  <2>1. <<>> \in Seq(S)
    OBVIOUS
  <2>2. QED
    BY <1>1, <2>1, JoinNone
<1>2. CASE list # <<>>
  <2> DEFINE m == Len(list)
  <2>1. PICK g : /\ Join(list) = g[m]
                 /\ g[1] = list[1]
                 /\ \A n \in Nat : n # 0 /\ n + 1 <= m => g[n + 1] = g[n] \o list[n + 1]
    BY <1>2, JoinDefined
  <2>2. m \in Nat /\ m # 0 /\ \A i \in 1..m : list[i] \in Seq(S)
    BY <1>2
  <2> HIDE DEF m
  <2> DEFINE P == {n \in Nat : n # 0 /\ n <= m => g[n] \in Seq(S)}
  <2>3. 0 \in P
    OBVIOUS
  <2>4. ASSUME NEW n \in P PROVE n + 1 \in P
    <3> SUFFICES ASSUME n + 1 <= m PROVE g[n + 1] \in Seq(S)
      OBVIOUS
    <3>1. n \in Nat /\ list[n + 1] \in Seq(S) /\ (n # 0 => g[n] \in Seq(S))
      BY <2>2
    <3>2. CASE n = 0
      BY <2>1, <3>1, <3>2
    <3>3. CASE n # 0
      <4>1. g[n + 1] = g[n] \o list[n + 1]
        BY <2>1, <3>1, <3>3
      <4>2. QED
        BY <3>1, <3>3, <4>1
    <3>4. QED
      BY <3>2, <3>3
  <2>5. P \in SUBSET Nat
    OBVIOUS
  <2>6. m \in P
    <3> HIDE DEF P
    <3>1. QED
      BY <2>2, <2>3, <2>4, <2>5, Induction
  <2>7. QED
    BY <2>1, <2>2, <2>6
<1>3. QED
  BY <1>1, <1>2

\* Writing back what was read loses nothing but the boundaries already lost.
LEMMA JoinOfSplit ==
  ASSUME NEW S, NEW column \in Seq(S)
  PROVE  /\ Split(column) \in Seq(Seq(S))
         /\ Join(Split(column)) = Nonblank(column)
<1> DEFINE kept == Nonblank(column)
           list == Split(column)
           m == Len(kept)
<1>1. kept \in Seq(S)
  BY NonblankAgain
<1>2. list = [i \in 1..m |-> <<kept[i]>>]
  BY <1>1 DEF Split
<1> HIDE DEF kept, list
<1>3. list \in Seq(Seq(S)) /\ Len(list) = m /\ \A i \in 1..m : list[i] = <<kept[i]>>
  BY <1>1, <1>2
<1>4. Join(list) = kept
  <2>1. CASE m = 0
    <3>1. kept = <<>> /\ list = <<>>
      BY <1>1, <1>3, <2>1
    <3>2. QED
      BY <3>1, JoinNone
  <2>2. CASE m # 0
    <3>1. list # <<>> /\ m \in Nat
      BY <1>1, <1>3, <2>2
    <3> DEFINE T == Seq(S)
    <3>9. PICK g : /\ Join(list) = g[Len(list)]
                   /\ g[1] = list[1]
                   /\ \A n \in Nat : n # 0 /\ n + 1 <= Len(list) =>
                        g[n + 1] = g[n] \o list[n + 1]
      <4>1. list \in Seq(T)
        BY <1>3
      <4> HIDE DEF T
      <4>2. QED
        BY <3>1, <4>1, JoinDefined
    <3>2. /\ Join(list) = g[m]
          /\ g[1] = list[1]
          /\ \A n \in Nat : n # 0 /\ n + 1 <= m => g[n + 1] = g[n] \o list[n + 1]
      BY <1>3, <3>9
    <3> HIDE DEF m
    <3> DEFINE P == {n \in Nat : n # 0 /\ n <= m => g[n] = SubSeq(kept, 1, n)}
    <3>3. 0 \in P
      OBVIOUS
    <3>4. ASSUME NEW n \in P PROVE n + 1 \in P
      <4> SUFFICES ASSUME n + 1 <= m PROVE g[n + 1] = SubSeq(kept, 1, n + 1)
        OBVIOUS
      <4>1. n \in Nat /\ list[n + 1] = <<kept[n + 1]>> /\ kept[n + 1] \in S
        BY <1>1, <1>3, <3>1 DEF m
      <4>2. CASE n = 0
        <5>1. g[1] = <<kept[1]>> /\ n + 1 = 1 /\ kept[1] \in S
          BY <3>2, <4>1, <4>2
        <5>2. SubSeq(kept, 1, 1) = <<kept[1]>>
          <6>1. 1 <= Len(kept)
            BY <1>1, <3>1 DEF m
          <6>2. /\ SubSeq(kept, 1, 1) \in Seq(S) /\ Len(SubSeq(kept, 1, 1)) = 1
                /\ SubSeq(kept, 1, 1)[1] = kept[1]
            BY <1>1, <6>1
          <6>3. kept[1] \in S
            BY <1>1, <6>1
          <6>4. <<kept[1]>> \in Seq(S) /\ Len(<<kept[1]>>) = 1 /\ <<kept[1]>>[1] = kept[1]
            BY <6>3
          <6>5. \A s, t \in Seq(S) : Len(s) = 1 /\ Len(t) = 1 /\ s[1] = t[1] => s = t
            OBVIOUS
          <6>6. QED
            BY <6>2, <6>4, <6>5
        <5>3. QED
          BY <5>1, <5>2
      <4>3. CASE n # 0
        <5>1. g[n + 1] = SubSeq(kept, 1, n) \o <<kept[n + 1]>>
          <6>1. g[n + 1] = g[n] \o list[n + 1]
            BY <3>2, <4>1, <4>3
          <6>2. g[n] = SubSeq(kept, 1, n)
            BY <3>1, <4>1, <4>3
          <6>3. QED
            BY <4>1, <6>1, <6>2
        <5>2. SubSeq(kept, 1, n) \o <<kept[n + 1]>> = SubSeq(kept, 1, n + 1)
          BY <1>1, <3>1, <4>1, <4>3 DEF m
        <5>3. QED
          BY <5>1, <5>2
      <4>4. QED
        BY <4>2, <4>3
    <3>5. P \in SUBSET Nat
      OBVIOUS
    <3>6. m \in P
      <4> HIDE DEF P
      <4>1. QED
        BY <3>1, <3>3, <3>4, <3>5, Induction
    <3>7. g[m] = SubSeq(kept, 1, m)
      BY <2>2, <3>1, <3>6
    <3>8. SubSeq(kept, 1, m) = kept
      BY <1>1 DEF m
    <3>10. QED
      BY <3>2, <3>7, <3>8
  <2>3. QED
    BY <2>1, <2>2
<1>5. QED
  BY <1>3, <1>4 DEF kept, list
-----------------------------------------------------------------------------
(* What steps do to the tables *)

LEMMA RowOfFields ==
  ASSUME NEW id, NEW workspace, NEW created, NEW summary
  PROVE  LET row == RowOf(id, workspace, created, summary) IN
         /\ DOMAIN row = RowField
         /\ row.id = id /\ row.workspace = workspace /\ row.created = created
         /\ row.text = summary.text
         /\ row.lists = [f \in ListFields |-> Join(summary[f])]
BY DEF RowOf, RowField

\* No operation on a row touches what it was made of.
LEMMA ChangedFields ==
  ASSUME NEW row, DOMAIN row = RowField, NEW op, NEW tags
  PROVE  LET s == Changed(row, op, tags) IN
         /\ DOMAIN s = RowField
         /\ \A f \in {"id", "workspace", "created", "text", "lists"} : s[f] = row[f]
<1> DEFINE joined == Join(tags)
<1>1. Changed(row, op, tags) \in
        {[row EXCEPT !.pinned = TRUE], [row EXCEPT !.pinned = FALSE],
         [row EXCEPT !.archived = TRUE], [row EXCEPT !.archived = FALSE],
         [row EXCEPT !.tags = joined], row}
  BY DEF Changed
<1> HIDE DEF joined
<1>2. QED
  BY <1>1 DEF RowField

LEMMA ChildrenAreTheirs ==
  ASSUME NEW id, NEW summary, NEW k \in ChildrenOf(id, summary)
  PROVE  k.id = id
BY DEF ChildrenOf

\* A record is kept through every change of rows that leaves what it is made of.
LEMMA StoredForStays ==
  ASSUME NEW p, NEW r, StoredFor(p, r), NEW s,
         \A f \in {"id", "workspace", "created", "text", "lists"} : s[f] = r[f],
         {k \in children' : k.id = p.id} = {k \in children : k.id = p.id}
  PROVE  StoredFor(p, s)'
<1>1. /\ s.id = r.id /\ s.workspace = r.workspace /\ s.created = r.created
      /\ s.text = r.text /\ s.lists = r.lists
  OBVIOUS
<1>2. QED
  BY <1>1 DEF StoredFor

\* The two ways the tables change: rows change in place, or one comes in with its
\* children under an id that is free.
LEMMA InPlace ==
  ASSUME StoreInv, NEW mine \in SUBSET rows, NEW op, NEW tags,
         rows' = (rows \ mine) \union {Changed(r, op, tags) : r \in mine},
         UNCHANGED children
  PROVE  /\ StoreInv'
         /\ \A p : Kept(p) => Kept(p)'
<1> DEFINE new(r) == IF r \in mine THEN Changed(r, op, tags) ELSE r
<1>1. rows' = {new(r) : r \in rows}
  OBVIOUS
<1>2. ASSUME NEW r \in rows
      PROVE  /\ new(r) \in rows' /\ DOMAIN new(r) = RowField
             /\ \A f \in {"id", "workspace", "created", "text", "lists"} : new(r)[f] = r[f]
  BY <1>1, ChangedFields DEF StoreInv
<1>3. ASSUME NEW s \in rows' PROVE \E r \in rows : s = new(r)
  BY <1>1
<1> HIDE DEF new
<1>4. ASSUME NEW p, NEW r \in rows, StoredFor(p, r) PROVE StoredFor(p, new(r))'
  <2>1. {k \in children' : k.id = p.id} = {k \in children : k.id = p.id}
    OBVIOUS
  <2>2. QED
    BY <1>2, <1>4, <2>1, StoredForStays
<1>5. ASSUME NEW p, Kept(p) PROVE Kept(p)'
  BY <1>2, <1>4, <1>5 DEF Kept
<1>6. \A r, s \in rows' : r.id = s.id => r = s
  <2> SUFFICES ASSUME NEW r \in rows', NEW s \in rows', r.id = s.id PROVE r = s
    OBVIOUS
  <2>1. PICK x \in rows : r = new(x)
    BY <1>3
  <2>2. PICK y \in rows : s = new(y)
    BY <1>3
  <2>3. x.id = y.id
    BY <1>2, <2>1, <2>2
  <2>4. QED
    BY <2>1, <2>2, <2>3 DEF StoreInv, StoredWhole
<1>7. ASSUME NEW k \in children' PROVE Taken(k.id)'
  <2>1. PICK r \in rows : r.id = k.id
    BY <1>7 DEF StoreInv, StoredWhole, Taken
  <2>2. new(r) \in rows' /\ new(r).id = k.id
    BY <1>2, <2>1
  <2>3. QED
    BY <2>2 DEF Taken
<1>8. ASSUME NEW s \in rows'
      PROVE  \/ s.text = DemoText /\ ~\E k \in children' : k.id = s.id
             \/ \E p \in Publication : Accepted(p) /\ StoredFor(p, s)'
  <2>1. PICK r \in rows : s = new(r)
    BY <1>3
  <2>2. s.text = r.text /\ s.id = r.id
    BY <1>2, <2>1
  <2>3. CASE r.text = DemoText /\ ~\E k \in children : k.id = r.id
    BY <2>2, <2>3
  <2>4. CASE \E p \in Publication : Accepted(p) /\ StoredFor(p, r)
    BY <1>4, <2>1, <2>4
  <2>5. QED
    BY <2>3, <2>4 DEF StoreInv, StoredWhole, Accepted
<1>9. \A s \in rows' : DOMAIN s = RowField
  BY <1>2, <1>3
<1>10. StoreInv'
  BY <1>6, <1>7, <1>8, <1>9 DEF StoreInv, StoredWhole, Accepted
<1>11. QED
  BY <1>5, <1>10

LEMMA ComesIn ==
  ASSUME StoreInv, NEW row, DOMAIN row = RowField, ~Taken(row.id), NEW more,
         \A k \in more : k.id = row.id,
         rows' = rows \union {row}, children' = children \union more,
         \/ row.text = DemoText /\ more = {}
         \/ \E p \in Publication : Accepted(p) /\ StoredFor(p, row)'
  PROVE  /\ StoreInv'
         /\ \A p : Kept(p) => Kept(p)'
<1>1. ASSUME NEW id, id # row.id
      PROVE  {k \in children' : k.id = id} = {k \in children : k.id = id}
  BY <1>1
<1>2. \A r \in rows : r.id # row.id
  BY DEF Taken
<1>3. \A k \in children : k.id # row.id
  BY DEF StoreInv, StoredWhole
<1>4. ASSUME NEW p, NEW r \in rows, StoredFor(p, r) PROVE StoredFor(p, r)'
  <2>1. p.id # row.id
    BY <1>2, <1>4 DEF StoredFor
  <2>2. {k \in children' : k.id = p.id} = {k \in children : k.id = p.id}
    BY <1>1, <2>1
  <2>3. QED
    BY <1>4, <2>2, StoredForStays
<1>5. ASSUME NEW p, Kept(p) PROVE Kept(p)'
  BY <1>4, <1>5 DEF Kept
<1>6. \A r, s \in rows' : r.id = s.id => r = s
  BY <1>2 DEF StoreInv, StoredWhole
<1>7. \A k \in children' : Taken(k.id)'
  BY DEF StoreInv, StoredWhole, Taken
<1>8. ASSUME NEW s \in rows'
      PROVE  \/ s.text = DemoText /\ ~\E k \in children' : k.id = s.id
             \/ \E p \in Publication : Accepted(p) /\ StoredFor(p, s)'
  <2>1. CASE s = row
    BY <1>3, <2>1
  <2>2. CASE s \in rows
    <3>1. CASE s.text = DemoText /\ ~\E k \in children : k.id = s.id
      BY <1>2, <2>2, <3>1
    <3>2. CASE \E p \in Publication : Accepted(p) /\ StoredFor(p, s)
      BY <1>4, <2>2, <3>2
    <3>3. QED
      BY <2>2, <3>1, <3>2 DEF StoreInv, StoredWhole, Accepted
  <2>3. QED
    BY <2>1, <2>2
<1>9. \A s \in rows' : DOMAIN s = RowField
  BY DEF StoreInv
<1>10. StoreInv'
  BY <1>6, <1>7, <1>8, <1>9 DEF StoreInv, StoredWhole, Accepted
<1>11. QED
  BY <1>5, <1>10

-----------------------------------------------------------------------------
(* Publishing *)

\* One publication moves on, and no record is lost meanwhile.
LEMMA OneSends ==
  ASSUME SendingInv, NEW p \in Publication, NEW t, NEW h,
         publishing' = [publishing EXCEPT ![p] = t], handed' = [handed EXCEPT ![p] = h],
         DOMAIN t = PublishingField, t.next \in Nat,
         t.pc # "idle" => Accepted(p),
         t.pc = "sending" => Kept(p)',
         h = [i \in DOMAIN p.destinations |-> h[i]],
         \A i \in DOMAIN p.destinations :
           /\ h[i] \in {0, 1}
           /\ h[i] = 1 => Kept(p)'
           /\ t.pc = "sending" /\ i >= t.next => h[i] = 0,
         \A q : Kept(q) => Kept(q)'
  PROVE  SendingInv'
<1>1. \A q \in Publication : /\ publishing'[q] = IF q = p THEN t ELSE publishing[q]
                             /\ handed'[q] = IF q = p THEN h ELSE handed[q]
  BY DEF SendingInv
<1>2. publishing' = [q \in Publication |-> publishing'[q]]
  BY DEF SendingInv
<1>3. handed' = [q \in Publication |-> [i \in DOMAIN q.destinations |-> handed'[q][i]]]
  <2>1. handed' = [q \in Publication |-> handed'[q]]
    BY DEF SendingInv
  <2>2. ASSUME NEW q \in Publication
        PROVE  handed'[q] = [i \in DOMAIN q.destinations |-> handed'[q][i]]
    BY <1>1 DEF SendingInv
  <2>3. QED
    BY <2>1, <2>2
<1>4. ASSUME NEW q \in Publication
      PROVE  /\ DOMAIN publishing'[q] = PublishingField
             /\ publishing'[q].next \in Nat
             /\ publishing'[q].pc # "idle" => Accepted(q)
             /\ publishing'[q].pc = "sending" => Kept(q)'
             /\ \A i \in DOMAIN q.destinations :
                  /\ handed'[q][i] \in {0, 1}
                  /\ handed'[q][i] = 1 => Kept(q)'
                  /\ publishing'[q].pc = "sending" /\ i >= publishing'[q].next
                       => handed'[q][i] = 0
  <2>1. CASE q = p
    BY <1>1, <2>1
  <2>2. CASE q # p
    BY <1>1, <2>2 DEF SendingInv
  <2>3. QED
    BY <2>1, <2>2
<1>5. QED
  BY <1>2, <1>3, <1>4 DEF SendingInv, Accepted

\* What is true of a publication's history before a step.
LEMMA HandedFacts ==
  ASSUME SendingInv, NEW p \in Publication
  PROVE  /\ handed[p] = [i \in DOMAIN p.destinations |-> handed[p][i]]
         /\ \A i \in DOMAIN p.destinations :
              handed[p][i] \in {0, 1} /\ (handed[p][i] = 1 => Kept(p))
         /\ handed = [handed EXCEPT ![p] = handed[p]]
BY DEF SendingInv

\* A publication that comes to rest, or starts, has nothing to show for it.
LEMMA Rests ==
  ASSUME RecordsInv, NEW p \in Publication, NEW t,
         publishing' = [publishing EXCEPT ![p] = t],
         DOMAIN t = PublishingField, t.next = 1, t.pc \in {"idle", "saving"},
         t.pc # "idle" => Accepted(p),
         UNCHANGED <<store, handed>>
  PROVE  SendingInv'
<1>1. \A q : Kept(q)' <=> Kept(q)
  BY DEF store, Kept, StoredFor
<1>2. t.pc # "sending" /\ t.next \in Nat
  OBVIOUS
<1>3. handed' = [handed EXCEPT ![p] = handed[p]]
  BY HandedFacts DEF RecordsInv
<1>4. /\ handed[p] = [i \in DOMAIN p.destinations |-> handed[p][i]]
      /\ \A i \in DOMAIN p.destinations :
           handed[p][i] \in {0, 1} /\ (handed[p][i] = 1 => Kept(p)')
  BY <1>1, HandedFacts DEF RecordsInv
<1>5. SendingInv
  BY DEF RecordsInv
<1>6. \A i \in DOMAIN p.destinations :
        /\ handed[p][i] \in {0, 1}
        /\ handed[p][i] = 1 => Kept(p)'
        /\ t.pc = "sending" /\ i >= t.next => handed[p][i] = 0
  BY <1>2, <1>4
<1>7. t.pc = "sending" => Kept(p)'
  BY <1>2
<1> DEFINE h == handed[p]
<1>8. /\ handed' = [handed EXCEPT ![p] = h]
      /\ h = [i \in DOMAIN p.destinations |-> h[i]]
  BY <1>3, <1>4
<1> HIDE DEF h
<1>9. QED
  BY <1>1, <1>2, <1>5, <1>6, <1>7, <1>8, OneSends DEF h

LEMMA RestingRests ==
  /\ DOMAIN Resting = PublishingField /\ Resting.next = 1 /\ Resting.pc = "idle"
  /\ \A caps : LET t == [Resting EXCEPT !.pc = "saving", !.caps = caps] IN
       DOMAIN t = PublishingField /\ t.next = 1 /\ t.pc = "saving"
BY DEF Resting, PublishingField

LEMMA SaveRecordStep ==
  ASSUME RecordsInv, NEW p \in Publication, SaveRecord(p)
  PROVE  StoreInv' /\ SendingInv' /\ UNCHANGED request
<1>1. UNCHANGED request
  BY DEF SaveRecord, clients
<1>2. CASE Taken(p.id)
  <2>1. publishing' = [publishing EXCEPT ![p] = Resting] /\ UNCHANGED <<store, handed>>
    BY <1>2 DEF SaveRecord
  <2>2. SendingInv'
    BY <2>1, Rests, RestingRests
  <2>3. StoreInv'
    BY <2>1 DEF RecordsInv, StoreInv, StoredWhole, StoredFor, Taken, store
  <2>4. QED
    BY <1>1, <2>2, <2>3
<1>3. CASE ~Taken(p.id)
  <2> DEFINE made == SummaryMade(p)
             row == RowOf(p.id, p.workspace, p.created, made)
             more == ChildrenOf(p.id, made)
             k == publishing[p]
             t == [[k EXCEPT !.pc = "sending"] EXCEPT !.results = <<"stored">>]
  <2>1. /\ k.pc = "saving" /\ rows' = rows \union {row} /\ children' = children \union more
        /\ handed' = handed
    BY <1>3 DEF SaveRecord
  <2>2. publishing' = [publishing EXCEPT ![p] = t]
    BY <1>3 DEF SaveRecord, RecordsInv, SendingInv
  <2>3. /\ DOMAIN row = RowField
        /\ row.id = p.id /\ row.workspace = p.workspace /\ row.created = p.created
        /\ row.text = made.text
        /\ row.lists = [f \in ListFields |-> Join(made[f])]
    BY RowOfFields
  <2>4. \A c \in more : c.id = p.id
    BY ChildrenAreTheirs
  <2>5. \A c \in children : c.id # p.id
    BY <1>3 DEF RecordsInv, StoreInv, StoredWhole
  <2>6. Accepted(p)
    BY <2>1 DEF RecordsInv, SendingInv
  <2> HIDE DEF row, more
  <2>7. {c \in children' : c.id = p.id} = more
    BY <2>1, <2>4, <2>5
  <2>8. StoredFor(p, row)'
    <3>1. \A f \in ListFields : row.lists[f] = Join(made[f])
      BY <2>3
    <3>2. QED
      BY <2>3, <2>7, <3>1 DEF StoredFor, more
  <2>9. StoreInv' /\ \A q : Kept(q) => Kept(q)'
    BY <1>3, <2>1, <2>3, <2>4, <2>6, <2>8, ComesIn DEF RecordsInv
  <2>10. Kept(p)'
    BY <2>1, <2>8 DEF Kept
  <2>11. ~Kept(p)
    BY <1>3 DEF Kept, StoredFor, Taken
  <2>12. /\ handed[p] = [i \in DOMAIN p.destinations |-> handed[p][i]]
         /\ \A i \in DOMAIN p.destinations : handed[p][i] = 0
         /\ handed' = [handed EXCEPT ![p] = handed[p]]
    BY <2>1, <2>11, HandedFacts DEF RecordsInv
  <2>13. DOMAIN t = PublishingField /\ t.next \in Nat /\ t.pc = "sending"
    BY DEF RecordsInv, SendingInv, PublishingField
  <2>14. SendingInv
    BY DEF RecordsInv
  <2> HIDE DEF t, k, made
  <2>15. SendingInv'
    BY <2>2, <2>6, <2>9, <2>10, <2>12, <2>13, <2>14, OneSends
  <2>16. QED
    BY <1>1, <2>9, <2>15
<1>4. QED
  BY <1>2, <1>3

\* Going on to the next destination, with this one handed over or not.
LEMMA OutcomeStep ==
  ASSUME RecordsInv, NEW p \in Publication, Sending(p), NEW results, Outcome(p, results),
         UNCHANGED store,
         \/ handed' = handed
         \/ handed' = [handed EXCEPT ![p][publishing[p].next] = @ + 1]
  PROVE  SendingInv'
<1> DEFINE k == publishing[p]
           more == k.results \o results
           t == [[k EXCEPT !.next = @ + 1] EXCEPT !.results = more]
           n == k.next
           h == [handed[p] EXCEPT ![n] = @ + 1]
<1>1. publishing' = [publishing EXCEPT ![p] = t]
  BY DEF Outcome, RecordsInv, SendingInv, PublishingField
<1>2. /\ DOMAIN t = PublishingField /\ t.next = n + 1 /\ n \in Nat /\ t.pc = "sending"
      /\ k.pc = "sending"
  BY DEF RecordsInv, SendingInv, PublishingField, Sending
<1>3. \A q : Kept(q)' <=> Kept(q)
  BY DEF store, Kept, StoredFor
<1>4. Accepted(p) /\ Kept(p)
  BY <1>2 DEF RecordsInv, SendingInv
<1>5. \A i \in DOMAIN p.destinations : i >= n => handed[p][i] = 0
  BY <1>2 DEF RecordsInv, SendingInv
<1>6. \A i \in DOMAIN p.destinations : i \in Nat
  BY RecordsConstants
<1>7. /\ handed[p] = [i \in DOMAIN p.destinations |-> handed[p][i]]
      /\ \A i \in DOMAIN p.destinations : handed[p][i] \in {0, 1}
      /\ handed = [handed EXCEPT ![p] = handed[p]]
  BY HandedFacts DEF RecordsInv
<1>8. SendingInv
  BY DEF RecordsInv
<1>9. CASE handed' = handed
  <2>1. \A i \in DOMAIN p.destinations : i >= n + 1 => i >= n
    BY <1>2, <1>6
  <2>2. \A i \in DOMAIN p.destinations : t.pc = "sending" /\ i >= t.next => handed[p][i] = 0
    BY <1>2, <1>5, <2>1
  <2>3. t.next \in Nat /\ Kept(p)' /\ handed' = [handed EXCEPT ![p] = handed[p]]
    BY <1>2, <1>3, <1>4, <1>7, <1>9
  <2> HIDE DEF t, k, n
  <2>4. QED
    BY <1>1, <1>2, <1>3, <1>4, <1>7, <1>8, <2>2, <2>3, OneSends
<1>10. CASE handed' = [handed EXCEPT ![p][n] = @ + 1]
  <2>1. handed' = [handed EXCEPT ![p] = h]
    BY <1>10
  <2>2. /\ h = [i \in DOMAIN p.destinations |-> h[i]]
        /\ \A i \in DOMAIN p.destinations :
             h[i] = IF i = n THEN handed[p][i] + 1 ELSE handed[p][i]
    BY <1>7
  <2>3. \A i \in DOMAIN p.destinations : i >= n + 1 => i >= n /\ i # n
    BY <1>2, <1>6
  <2>4. \A i \in DOMAIN p.destinations : i = n => i >= n
    BY <1>2
  <2>5. t.next \in Nat /\ t.next = n + 1 /\ Kept(p)'
    BY <1>2, <1>3, <1>4
  <2> HIDE DEF t, k, n, h
  <2>6. \A i \in DOMAIN p.destinations :
          /\ h[i] \in {0, 1}
          /\ h[i] = 1 => Kept(p)'
          /\ t.pc = "sending" /\ i >= t.next => h[i] = 0
    <3> SUFFICES ASSUME NEW i \in DOMAIN p.destinations
                 PROVE  h[i] \in {0, 1} /\ (i >= n + 1 => h[i] = 0)
      BY <2>5
    <3>1. CASE i = n
      BY <1>5, <2>2, <2>3, <2>4, <3>1
    <3>2. CASE i # n
      BY <1>5, <1>7, <2>2, <2>3, <3>2
    <3>3. QED
      BY <3>1, <3>2
  <2>7. QED
    BY <1>1, <1>2, <1>3, <1>4, <1>8, <2>1, <2>2, <2>5, <2>6, OneSends
<1>11. QED
  BY <1>9, <1>10

LEMMA PublishingStep ==
  ASSUME RecordsInv, NEW p \in Publication,
         \/ Publish(p) \/ SaveRecord(p) \/ SaveFails(p)
         \/ SkipDashboard(p) \/ Refuse(p) \/ Dispatch(p) \/ Report(p)
  PROVE  RecordsInv'
<1>1. ASSUME UNCHANGED store, SendingInv', UNCHANGED request PROVE RecordsInv'
  BY <1>1 DEF RecordsInv, StoreInv, StoredWhole, StoredFor, Taken, store, RequestsInv
<1>2. CASE Publish(p)
  <2>1. PICK caps \in Capabilities :
          publishing' = [publishing EXCEPT ![p] = [Resting EXCEPT !.pc = "saving", !.caps = caps]]
    BY <1>2 DEF Publish
  <2> DEFINE t == [Resting EXCEPT !.pc = "saving", !.caps = caps]
  <2>2. Accepted(p) /\ UNCHANGED <<store, handed, request>>
    BY <1>2 DEF Publish, Accepted, clients
  <2>3. DOMAIN t = PublishingField /\ t.next = 1 /\ t.pc = "saving"
    BY RestingRests
  <2>4. publishing' = [publishing EXCEPT ![p] = t]
    BY <2>1
  <2> HIDE DEF t
  <2>5. QED
    BY <1>1, <2>2, <2>3, <2>4, Rests
<1>3. CASE SaveRecord(p)
  BY <1>3, SaveRecordStep DEF RecordsInv, RequestsInv
<1>4. CASE SaveFails(p) \/ Report(p)
  <2>1. publishing' = [publishing EXCEPT ![p] = Resting] /\ UNCHANGED <<store, handed, request>>
    BY <1>4 DEF SaveFails, Report, clients
  <2>2. QED
    BY <1>1, <2>1, Rests, RestingRests
<1>5. CASE SkipDashboard(p) \/ Refuse(p)
  <2>1. /\ Sending(p) /\ UNCHANGED <<store, handed, request>>
        /\ \E results : Outcome(p, results)
    BY <1>5 DEF SkipDashboard, Refuse, clients
  <2>2. QED
    BY <1>1, <2>1, OutcomeStep
<1>6. CASE Dispatch(p)
  <2>1. /\ Sending(p) /\ UNCHANGED <<store, request>>
        /\ \E results : Outcome(p, results)
        /\ \/ handed' = handed
           \/ handed' = [handed EXCEPT ![p][publishing[p].next] = @ + 1]
    BY <1>6 DEF Dispatch, clients
  <2>2. QED
    BY <1>1, <2>1, OutcomeStep
<1>7. QED
  BY <1>2, <1>3, <1>4, <1>5, <1>6

-----------------------------------------------------------------------------
(* Requests *)

LEMMA OneRequests ==
  ASSUME RequestsInv, NEW c \in Client, NEW q, request' = [request EXCEPT ![c] = q],
         DOMAIN q = RequestField, q.pc # "idle" => q.workspace \in Grants[c]
  PROVE  RequestsInv'
<1>1. \A d \in Client : request'[d] = IF d = c THEN q ELSE request[d]
  BY DEF RequestsInv
<1>2. request' = [d \in Client |-> request'[d]]
  BY DEF RequestsInv
<1>3. QED
  BY <1>1, <1>2 DEF RequestsInv

LEMMA SilentAsks == DOMAIN Silent = RequestField /\ Silent.pc = "idle"
BY DEF Silent, RequestField

LEMMA LeaveStep ==
  ASSUME RequestsInv, NEW c \in Client, Leave(c)
  PROVE  RequestsInv'
BY SilentAsks, OneRequests DEF Leave

\* Requests leave publishing alone, so it stays sound where no record is lost.
LEMMA SendingStays ==
  ASSUME SendingInv, UNCHANGED <<publishing, handed>>, \A p : Kept(p) => Kept(p)'
  PROVE  SendingInv'
BY DEF SendingInv, Accepted

LEMMA UpdateStep ==
  ASSUME RecordsInv, NEW c \in Client, Update(c)
  PROVE  RecordsInv'
<1> DEFINE r == request[c]
           mine == InWorkspace(r.id, r.workspace)
<1>1. /\ r.pc = "queued" /\ UNCHANGED <<children, publishing, handed>>
      /\ rows' = (rows \ mine) \union {Changed(row, r.op, r.tags) : row \in mine}
      /\ Leave(c) \/ request' = [request EXCEPT ![c].pc = "reloading"]
  BY DEF Update
<1>2. mine \in SUBSET rows
  BY DEF InWorkspace
<1>3. StoreInv' /\ \A p : Kept(p) => Kept(p)'
  <2> HIDE DEF mine, r
  <2>1. QED
    BY <1>1, <1>2, InPlace DEF RecordsInv
<1>4. SendingInv'
  BY <1>1, <1>3, SendingStays DEF RecordsInv
<1>5. RequestsInv'
  <2> DEFINE q == [r EXCEPT !.pc = "reloading"]
  <2>1. DOMAIN q = RequestField /\ q.workspace \in Grants[c]
    BY <1>1 DEF RecordsInv, RequestsInv, RequestField
  <2>2. CASE Leave(c)
    BY <2>2, LeaveStep DEF RecordsInv
  <2>3. CASE request' = [request EXCEPT ![c] = q]
    <3> HIDE DEF q
    <3>1. QED
      BY <2>1, <2>3, OneRequests DEF RecordsInv
  <2>4. QED
    BY <1>1, <2>2, <2>3
<1>6. QED
  BY <1>3, <1>4, <1>5 DEF RecordsInv

LEMMA CreateStep ==
  ASSUME RecordsInv, NEW c \in Client, Create(c)
  PROVE  RecordsInv'
<1> DEFINE r == request[c]
           made == RowOf(r.id, r.workspace, r.id, DemoSummary)
<1>1. Leave(c) /\ UNCHANGED <<children, publishing, handed>>
  BY DEF Create
<1>2. StoreInv' /\ \A p : Kept(p) => Kept(p)'
  <2>1. CASE Taken(r.id)
    <3>1. UNCHANGED <<rows, children>>
      BY <1>1, <2>1 DEF Create
    <3>2. QED
      BY <3>1 DEF RecordsInv, StoreInv, StoredWhole, StoredFor, Taken, Kept
  <2>2. CASE ~Taken(r.id)
    <3>1. rows' = rows \union {made} /\ children' = children \union {}
      BY <1>1, <2>2 DEF Create
    <3>2. DemoSummary.text = DemoText
      BY DEF DemoSummary
    <3>3. DOMAIN made = RowField /\ made.id = r.id /\ made.text = DemoText
      <4>1. DOMAIN made = RowField /\ made.id = r.id /\ made.text = DemoSummary.text
        <5> HIDE DEF r
        <5>1. QED
          BY DEF RowOf, RowField
      <4>2. QED
        BY <3>2, <4>1
    <3> DEFINE more == {}
    <3>4. children' = children \union more /\ more = {} /\ \A k \in more : k.id = made.id
      BY <3>1
    <3>5. ~Taken(made.id) /\ StoreInv
      BY <2>2, <3>3 DEF RecordsInv
    <3> HIDE DEF made, more
    <3>6. QED
      BY <3>1, <3>3, <3>4, <3>5, ComesIn
  <2>3. QED
    BY <2>1, <2>2
<1>3. SendingInv'
  BY <1>1, <1>2, SendingStays DEF RecordsInv
<1>4. RequestsInv'
  BY <1>1, LeaveStep DEF RecordsInv
<1>5. QED
  BY <1>2, <1>3, <1>4 DEF RecordsInv

LEMMA AskStep ==
  ASSUME RecordsInv, NEW c \in Client, Ask(c)
  PROVE  RequestsInv' /\ UNCHANGED <<store, publishing, handed>>
<1>1. PICK op \in Ops, w \in Workspaces :
        /\ RequireWorkspace(c, w)
        /\ \E id, tags, page :
             request' = [request EXCEPT ![c] =
               [pc |-> "queued", op |-> op, workspace |-> w, id |-> id, tags |-> tags,
                page |-> page]]
  BY DEF Ask
<1>2. PICK id, tags, page :
        request' = [request EXCEPT ![c] =
          [pc |-> "queued", op |-> op, workspace |-> w, id |-> id, tags |-> tags,
           page |-> page]]
  BY <1>1
<1> DEFINE q == [pc |-> "queued", op |-> op, workspace |-> w, id |-> id, tags |-> tags,
                 page |-> page]
<1>3. DOMAIN q = RequestField /\ q.workspace \in Grants[c]
  BY <1>1 DEF RequireWorkspace, RequestField
<1>4. RequestsInv'
  <2>1. request' = [request EXCEPT ![c] = q]
    BY <1>2
  <2> HIDE DEF q
  <2>2. QED
    BY <1>3, <2>1, OneRequests DEF RecordsInv
<1>5. QED
  BY <1>4 DEF Ask

LEMMA NextStep == RecordsInv /\ [Next]_vars => RecordsInv'
<1> SUFFICES ASSUME RecordsInv, [Next]_vars PROVE RecordsInv'
  OBVIOUS
<1>1. ASSUME UNCHANGED <<store, publishing, handed>>, RequestsInv' PROVE RecordsInv'
  <2>1. StoreInv'
    BY <1>1 DEF RecordsInv, StoreInv, StoredWhole, StoredFor, Taken, store
  <2>2. \A p : Kept(p)' <=> Kept(p)
    BY <1>1 DEF store, Kept, StoredFor
  <2>3. SendingInv'
    BY <1>1, <2>2, SendingStays DEF RecordsInv
  <2>4. QED
    BY <1>1, <2>1, <2>3 DEF RecordsInv
<1>2. ASSUME NEW p \in Publication,
             \/ Publish(p) \/ SaveRecord(p) \/ SaveFails(p)
             \/ SkipDashboard(p) \/ Refuse(p) \/ Dispatch(p) \/ Report(p)
      PROVE  RecordsInv'
  BY <1>2, PublishingStep
<1>3. ASSUME NEW c \in Client,
             \/ Ask(c) \/ Enter(c) \/ RequestFails(c)
             \/ Update(c) \/ Reload(c) \/ ListSummaries(c) \/ Create(c)
      PROVE  RecordsInv'
  <2>1. CASE Ask(c)
    BY <1>1, <2>1, AskStep
  <2>2. CASE Enter(c)
    BY <1>1, <2>2 DEF Enter, RecordsInv, RequestsInv
  <2>3. CASE RequestFails(c) \/ Reload(c) \/ ListSummaries(c)
    <3>1. Leave(c) /\ UNCHANGED <<store, publishing, handed>>
      BY <2>3 DEF RequestFails, Reload, ListSummaries
    <3>2. QED
      BY <1>1, <3>1, LeaveStep DEF RecordsInv
  <2>4. QED
    BY <1>3, <2>1, <2>2, <2>3, UpdateStep, CreateStep
<1>4. CASE Crash
  <2>1. /\ publishing' = [p \in Publication |-> Resting]
        /\ request' = [c \in Client |-> Silent] /\ UNCHANGED <<store, handed>>
    BY <1>4 DEF Crash
  <2>2. \A p : Kept(p)' <=> Kept(p)
    BY <2>1 DEF store, Kept, StoredFor
  <2>3. SendingInv'
    <3>1. /\ handed' = [p \in Publication |-> [i \in DOMAIN p.destinations |-> handed'[p][i]]]
          /\ \A p \in Publication : \A i \in DOMAIN p.destinations :
               handed'[p][i] \in {0, 1} /\ (handed'[p][i] = 1 => Kept(p)')
      BY <2>1, <2>2 DEF RecordsInv, SendingInv
    <3>2. /\ publishing' = [p \in Publication |-> publishing'[p]]
          /\ \A p \in Publication : publishing'[p] = Resting
      BY <2>1
    <3>3. QED
      BY <3>1, <3>2, RestingRests DEF SendingInv
  <2>4. RequestsInv'
    BY <2>1, SilentAsks DEF RequestsInv
  <2>5. StoreInv'
    BY <2>1 DEF RecordsInv, StoreInv, StoredWhole, StoredFor, Taken, store
  <2>6. QED
    BY <2>3, <2>4, <2>5 DEF RecordsInv
<1>5. CASE UNCHANGED vars
  BY <1>1, <1>5 DEF vars, store, RecordsInv, RequestsInv
<1>6. QED
  BY <1>2, <1>3, <1>4, <1>5 DEF Next

LEMMA InitHolds == Init => RecordsInv
<1> SUFFICES ASSUME Init PROVE RecordsInv
  OBVIOUS
<1>1. StoreInv
  BY DEF Init, StoreInv, StoredWhole
<1>2. SendingInv
  BY RestingRests DEF Init, SendingInv
<1>3. RequestsInv
  BY SilentAsks DEF Init, RequestsInv
<1>4. QED
  BY <1>1, <1>2, <1>3 DEF RecordsInv

\* What the stores and the runs in flight hold is whole after every step.
THEOREM RecordsInvariant == Spec => []RecordsInv
BY InitHolds, NextStep, PTL DEF Spec

-----------------------------------------------------------------------------
(* Reading back *)

\* An accepted answer makes a summary whose lists are lists, for every citation
\* names a message.
LEMMA MadeOfLists ==
  ASSUME NEW p \in Publication, Accepted(p)
  PROVE  LET made == SummaryMade(p) IN
         /\ made.text = p.raw.text
         /\ \A f \in ListFields : made[f] \in Seq(Seq(STRING))
         /\ made.action_items \in Seq(STRING)
         /\ made.citations \in Seq(STRING)
<1> DEFINE raw == p.raw
           resolved == [i \in DOMAIN raw.citations |-> p.messages[raw.citations[i] + 1]]
           made == SummaryMade(p)
<1>1. raw \in Answers /\ p.messages \in Seq(STRING)
  BY RecordsConstants
<1>2. \A i \in DOMAIN raw.citations : raw.citations[i] < Len(p.messages)
  <2>1. ~ \E i \in DOMAIN raw.citations : raw.citations[i] >= Len(p.messages)
    BY DEF Accepted, Problem
  <2>2. \A i \in DOMAIN raw.citations : raw.citations[i] \in Nat
    BY <1>1 DEF Answers
  <2>3. Len(p.messages) \in Nat
    BY <1>1
  <2>4. QED
    BY <2>1, <2>2, <2>3
<1>3. made = [raw EXCEPT !.citations = resolved]
  BY DEF SummaryMade, Resolve
<1>4. resolved \in Seq(STRING)
  <2>1. DOMAIN raw.citations = 1..Len(raw.citations) /\ Len(raw.citations) \in Nat
        /\ \A i \in DOMAIN raw.citations : raw.citations[i] \in Nat
    BY <1>1 DEF Answers
  <2>2. \A i \in DOMAIN raw.citations : p.messages[raw.citations[i] + 1] \in STRING
    <3> SUFFICES ASSUME NEW i \in DOMAIN raw.citations
                 PROVE  p.messages[raw.citations[i] + 1] \in STRING
      OBVIOUS
    <3>1. raw.citations[i] + 1 \in 1..Len(p.messages)
      BY <1>1, <1>2, <2>1
    <3>2. QED
      BY <1>1, <3>1
  <2>3. QED
    BY <2>1, <2>2
<1> HIDE DEF resolved
<1>5. /\ made.text = raw.text /\ made.key_points = raw.key_points
      /\ made.technical_terms = raw.technical_terms /\ made.participants = raw.participants
      /\ made.action_items = raw.action_items /\ made.citations = resolved
  BY <1>1, <1>3 DEF Answers
<1>6. QED
  BY <1>1, <1>4, <1>5 DEF Answers, ListFields

\* Children with the places of a sequence read back as the sequence.
LEMMA InOrderReads ==
  ASSUME NEW id, NEW kind, NEW S, NEW s \in Seq(S),
         {k \in children : k.id = id /\ k.kind = kind} =
           {[id |-> id, kind |-> kind, idx |-> i, value |-> s[i]] : i \in DOMAIN s}
  PROVE  InOrder(id, kind) = s
<1> DEFINE mine == {k \in children : k.id = id /\ k.kind = kind}
           item(i) == [id |-> id, kind |-> kind, idx |-> i, value |-> s[i]]
           b == [i \in 1..Len(s) |-> item(i)]
<1>1. DOMAIN s = 1..Len(s) /\ Len(s) \in Nat
  OBVIOUS
<1>2. \A i : item(i).idx = i /\ item(i).value = s[i]
  OBVIOUS
<1>3. mine = {item(i) : i \in 1..Len(s)}
  BY <1>1
<1> HIDE DEF mine, item
<1>4. Cardinality(mine) = Len(s)
  <2>1. b \in Bijection(1..Len(s), mine)
    <3>1. b \in [1..Len(s) -> mine]
      BY <1>3
    <3>2. \A i, j \in 1..Len(s) : b[i] = b[j] => i = j
      BY <1>2
    <3>3. \A k \in mine : \E i \in 1..Len(s) : b[i] = k
      BY <1>3
    <3>4. DOMAIN b = 1..Len(s)
      OBVIOUS
    <3> HIDE DEF b
    <3>5. b \in Injection(1..Len(s), mine) /\ b \in Surjection(1..Len(s), mine)
      BY <3>1, <3>2, <3>3, <3>4 DEF Injection, IsInjective, Surjection
    <3>6. QED
      BY <3>5 DEF Bijection
  <2>2. QED
    BY <1>1, <2>1, FS_CountingElements DEF ExistsBijection
<1>5. \A i \in 1..Len(s) : (CHOOSE k \in mine : k.idx = i) = item(i)
  <2> SUFFICES ASSUME NEW i \in 1..Len(s) PROVE (CHOOSE k \in mine : k.idx = i) = item(i)
    OBVIOUS
  <2>1. item(i) \in mine /\ item(i).idx = i
    BY <1>2, <1>3
  <2>2. \A k \in mine : k.idx = i => k = item(i)
    BY <1>2, <1>3
  <2>3. QED
    BY <2>1, <2>2
<1>6. InOrder(id, kind) = [i \in 1..Len(s) |-> s[i]]
  <2>1. InOrder(id, kind) =
          [i \in 1..Cardinality(mine) |-> (CHOOSE k \in mine : k.idx = i).value]
    BY DEF InOrder, mine
  <2>2. QED
    BY <1>2, <1>4, <1>5, <2>1
<1>7. QED
  BY <1>1, <1>6

\* What get_record reads of a record is what it was made of, but for the lists
\* kept in columns.
LEMMA ReadBack ==
  ASSUME NEW p \in Publication, Accepted(p), NEW r, StoredFor(p, r)
  PROVE  LET made == SummaryMade(p)
             read == SummaryOf(r) IN
         /\ read.text = made.text
         /\ \A f \in ListFields : read[f] = Split(Join(made[f]))
         /\ read.action_items = made.action_items
         /\ read.citations = made.citations
<1> DEFINE made == SummaryMade(p)
           of(kind) == {[id |-> p.id, kind |-> kind, idx |-> i, value |-> made[kind][i]] :
                          i \in DOMAIN made[kind]}
<1>1. {k \in children : k.id = p.id} = of("action_items") \union of("citations")
  BY DEF StoredFor, ChildrenOf
<1>2. ASSUME NEW kind \in {"action_items", "citations"}
      PROVE  InOrder(p.id, kind) = made[kind]
  <2>1. made[kind] \in Seq(STRING)
    BY MadeOfLists
  <2>2. /\ \A k \in of("action_items") : k.id = p.id /\ k.kind = "action_items"
        /\ \A k \in of("citations") : k.id = p.id /\ k.kind = "citations"
    OBVIOUS
  <2>3. {k \in children : k.id = p.id /\ k.kind = kind} = of(kind)
    <3> HIDE DEF of
    <3>1. QED
      BY <1>1, <2>2
  <2> HIDE DEF made
  <2>4. QED
    BY <2>1, <2>3, InOrderReads
<1>3. /\ r.id = p.id /\ r.text = made.text
      /\ \A f \in ListFields : r.lists[f] = Join(made[f])
  BY DEF StoredFor
<1>4. QED
  BY <1>2, <1>3 DEF SummaryOf, ListFields

\* What is read out of a column is lines, none blank.
LEMMA SplitIsJoinable ==
  ASSUME NEW S, NEW column \in Seq(S)
  PROVE  Joinable(Split(column))
<1> DEFINE kept == Nonblank(column)
           N == {l \in S : ~IsBlank(l)}
<1>1. kept \in Seq(N)
  BY NonblankLines
<1>2. \A i \in DOMAIN kept : kept[i] \in N
  BY <1>1
<1>3. Split(column) = [i \in DOMAIN kept |-> <<kept[i]>>]
  BY DEF Split
<1> HIDE DEF kept
<1>4. \A i \in DOMAIN kept : Len(<<kept[i]>>) = 1 /\ ~IsBlank(<<kept[i]>>[1])
  BY <1>2
<1>5. QED
  BY <1>3, <1>4 DEF Joinable

\* A list of lines, none blank, is what its column gives back.
LEMMA JoinableLasts ==
  ASSUME NEW S, NEW list \in Seq(Seq(S)), Joinable(list)
  PROVE  Split(Join(list)) = list
<1> DEFINE m == Len(list)
           column == [i \in 1..m |-> list[i][1]]
<1>1. m \in Nat /\ DOMAIN list = 1..m /\ \A i \in 1..m : list[i] \in Seq(S)
  OBVIOUS
<1>2. \A i \in 1..m : Len(list[i]) = 1 /\ ~IsBlank(list[i][1])
  BY <1>1 DEF Joinable
<1>3. \A i \in 1..m : list[i][1] \in S /\ list[i] = <<list[i][1]>>
  BY <1>1, <1>2
<1>4. \A i \in 1..m : column[i] = list[i][1]
  OBVIOUS
<1>5. column \in Seq(S) /\ Len(column) = m /\ DOMAIN column = 1..m
  BY <1>1, <1>3
<1> HIDE DEF column
<1>6. Nonblank(column) = column
  <2>1. \A i \in 1..Len(column) : ~IsBlank(column[i])
    BY <1>2, <1>4, <1>5
  <2>2. QED
    BY <1>5, <2>1, NonblankKeepsAll
<1>7. Split(column) = list
  <2>1. Split(column) = [i \in 1..m |-> <<column[i]>>]
    BY <1>5, <1>6 DEF Split
  <2>2. \A i \in 1..m : <<column[i]>> = list[i]
    BY <1>3, <1>4
  <2>3. list = [i \in 1..m |-> list[i]]
    BY <1>1
  <2> HIDE DEF m
  <2>4. QED
    BY <2>1, <2>2, <2>3
<1>8. Join(list) = column
  BY <1>5, <1>6, <1>7, JoinOfSplit
<1>9. QED
  BY <1>7, <1>8

\* What is read is what was made wherever a column keeps it, and only there.
LEMMA ListsReadBack ==
  ASSUME NEW p \in Publication, Accepted(p), NEW r, StoredFor(p, r), NEW f \in ListFields
  PROVE  LET made == SummaryMade(p)
             read == SummaryOf(r) IN
         /\ Join(read[f]) = Nonblank(Join(made[f])) /\ Joinable(read[f])
         /\ read[f] = made[f] <=> Joinable(made[f])
<1> DEFINE made == SummaryMade(p)
           read == SummaryOf(r)
           column == Join(made[f])
<1>1. read[f] = Split(column)
  BY ReadBack
<1>2. made[f] \in Seq(Seq(STRING))
  BY MadeOfLists
<1> HIDE DEF made, read
<1>3. column \in Seq(STRING)
  BY <1>2, JoinLines
<1>4. Joinable(made[f]) => read[f] = made[f]
  BY <1>1, <1>2, JoinableLasts
<1> HIDE DEF column
<1>5. Join(read[f]) = Nonblank(column) /\ Joinable(read[f])
  BY <1>1, <1>3, JoinOfSplit, SplitIsJoinable
<1>6. QED
  BY <1>4, <1>5 DEF made, read, column

\* Where every list a format shows is read as it was made, so is the rendering.
LEMMA RenderingReadsBack ==
  ASSUME NEW p \in Publication, Accepted(p), NEW r, StoredFor(p, r), NEW format,
         \A f \in ListFields \intersect Sections(format) : Joinable(SummaryMade(p)[f])
  PROVE  Render(SummaryOf(r), format) = Render(SummaryMade(p), format)
<1> DEFINE made == SummaryMade(p)
           read == SummaryOf(r)
           D(x) == {s \in Sections(format) : Said(x, s)}
<1>1. /\ read.text = made.text
      /\ read.action_items = made.action_items
      /\ read.citations = made.citations
  BY ReadBack
<1>2. \A f \in ListFields \intersect Sections(format) : read[f] = made[f]
  BY ListsReadBack
<1> HIDE DEF made, read
<1>3. ASSUME NEW s \in Sections(format)
      PROVE  /\ Said(read, s) = Said(made, s)
             /\ Entries(read, s) = Entries(made, s)
  <2>1. CASE s = "text"
    BY <1>1, <2>1 DEF Said, Entries
  <2>2. CASE s # "text"
    <3>1. read[s] = made[s]
      <4>1. s \in ListFields \/ s = "action_items" \/ s = "citations"
        BY <2>2 DEF Sections, ListFields
      <4>2. QED
        BY <1>1, <1>2, <4>1
    <3>2. QED
      BY <2>2, <3>1 DEF Said, Entries
  <2>3. QED
    BY <2>1, <2>2
<1>4. D(read) = D(made)
  BY <1>3
<1>5. \A s \in D(made) : Entries(read, s) = Entries(made, s)
  BY <1>3
<1>6. /\ Render(read, format) = [s \in D(read) |-> Entries(read, s)]
      /\ Render(made, format) = [s \in D(made) |-> Entries(made, s)]
  BY DEF Render
<1> HIDE DEF D
<1>7. QED
  BY <1>4, <1>5, <1>6 DEF made, read

LEMMA StoredReadsBack == ReadsBack
<1> SUFFICES ASSUME NEW p \in Publication, NEW r \in rows, Accepted(p), StoredFor(p, r)
             PROVE  LET made == SummaryMade(p)
                        read == SummaryOf(r) IN
                    /\ \A f \in ListFields :
                         /\ Join(read[f]) = Nonblank(Join(made[f])) /\ Joinable(read[f])
                         /\ read[f] = made[f] <=> Joinable(made[f])
                    /\ \A format \in Formats :
                         (\A f \in ListFields \intersect Sections(format) : Joinable(made[f])) =>
                           Render(read, format) = Render(made, format)
  BY DEF ReadsBack, Accepted
<1> DEFINE made == SummaryMade(p)
           read == SummaryOf(r)
<1>1. ASSUME NEW f \in ListFields
      PROVE  /\ Join(read[f]) = Nonblank(Join(made[f])) /\ Joinable(read[f])
             /\ read[f] = made[f] <=> Joinable(made[f])
  BY ListsReadBack
<1>2. ASSUME NEW format \in Formats,
             \A f \in ListFields \intersect Sections(format) : Joinable(made[f])
      PROVE  Render(read, format) = Render(made, format)
  BY <1>2, RenderingReadsBack
<1> HIDE DEF made, read
<1>3. /\ \A f \in ListFields :
           /\ Join(read[f]) = Nonblank(Join(made[f])) /\ Joinable(read[f])
           /\ read[f] = made[f] <=> Joinable(made[f])
      /\ \A format \in Formats :
           (\A f \in ListFields \intersect Sections(format) : Joinable(made[f])) =>
             Render(read, format) = Render(made, format)
  BY <1>1, <1>2
<1>4. QED
  BY <1>3 DEF made, read

-----------------------------------------------------------------------------
(* Rows last *)

\* Rows last: in place, as what they were made of, with the children they had.
Lasts ==
  \A r \in rows : \E s \in rows' :
    /\ \A f \in {"id", "workspace", "created", "text", "lists"} : s[f] = r[f]
    /\ {k \in children' : k.id = r.id} = {k \in children : k.id = r.id}

LEMMA RowsLast ==
  ASSUME RecordsInv, [Next]_vars
  PROVE  Lasts
<1>1. ASSUME rows \subseteq rows', UNCHANGED children PROVE Lasts
  BY <1>1 DEF Lasts
<1>2. ASSUME NEW p \in Publication, SaveRecord(p) PROVE Lasts
  <2>1. CASE Taken(p.id)
    BY <1>1, <1>2, <2>1 DEF SaveRecord, store
  <2>2. CASE ~Taken(p.id)
    <3> DEFINE more == ChildrenOf(p.id, SummaryMade(p))
               row == RowOf(p.id, p.workspace, p.created, SummaryMade(p))
    <3>1. rows' = rows \union {row} /\ children' = children \union more
      BY <1>2, <2>2 DEF SaveRecord
    <3>2. \A k \in more : k.id = p.id
      BY ChildrenAreTheirs
    <3>3. \A r \in rows : r.id # p.id
      BY <2>2 DEF Taken
    <3> HIDE DEF more, row
    <3>4. QED
      BY <3>1, <3>2, <3>3 DEF Lasts
  <2>3. QED
    BY <2>1, <2>2
<1>3. ASSUME NEW c \in Client, Update(c) PROVE Lasts
  <2> DEFINE q == request[c]
             mine == InWorkspace(q.id, q.workspace)
  <2>1. /\ rows' = (rows \ mine) \union {Changed(row, q.op, q.tags) : row \in mine}
        /\ UNCHANGED children
    BY <1>3 DEF Update
  <2> HIDE DEF q, mine
  <2>2. ASSUME NEW r \in rows
        PROVE  \E s \in rows' :
                 \A f \in {"id", "workspace", "created", "text", "lists"} : s[f] = r[f]
    <3>1. CASE r \in mine
      <4>1. Changed(r, q.op, q.tags) \in rows'
        BY <2>1, <3>1
      <4>2. DOMAIN r = RowField
        BY DEF RecordsInv, StoreInv
      <4>3. QED
        BY <4>1, <4>2, ChangedFields
    <3>2. CASE r \notin mine
      BY <2>1, <3>2
    <3>3. QED
      BY <3>1, <3>2
  <2>3. QED
    BY <2>1, <2>2 DEF Lasts
<1>4. CASE \E c \in Client : Create(c)
  BY <1>1, <1>4 DEF Create
<1>5. CASE UNCHANGED store
  BY <1>1, <1>5 DEF store
<1>6. \/ UNCHANGED store
      \/ \E c \in Client : Create(c) \/ Update(c)
      \/ \E p \in Publication : SaveRecord(p)
  BY DEF Next, vars, Publish, SaveFails, SkipDashboard, Refuse, Dispatch, Report, Ask, Enter,
         RequestFails, Reload, ListSummaries, Crash, store
<1>7. QED
  BY <1>2, <1>3, <1>4, <1>5, <1>6

LEMMA KeptLasts ==
  ASSUME RecordsInv, [Next]_vars, NEW p, Kept(p)
  PROVE  Kept(p)'
<1>1. PICK r \in rows : StoredFor(p, r)
  BY DEF Kept
<1>2. PICK s \in rows' :
        /\ \A f \in {"id", "workspace", "created", "text", "lists"} : s[f] = r[f]
        /\ {k \in children' : k.id = r.id} = {k \in children : k.id = r.id}
  BY RowsLast DEF Lasts
<1>3. r.id = p.id
  BY <1>1 DEF StoredFor
<1>4. StoredFor(p, s)'
  BY <1>1, <1>2, <1>3, StoredForStays
<1>5. QED
  BY <1>4 DEF Kept

-----------------------------------------------------------------------------
(* Reporting *)

LEMMA PlaceGrows ==
  ASSUME NEW p \in Publication
  PROVE  /\ Place(p, 0) = 1
         /\ \A n \in Nat : Place(p, n) \in Nat /\ Place(p, n) >= 1
         /\ \A n \in Nat : Place(p, n + 1) = Place(p, n) +
              IF p.destinations[n + 1].kind = "dashboard" THEN 0 ELSE 1
         /\ \A i, n \in Nat : i <= n => Place(p, i) <= Place(p, n)
<1> DEFINE sent(n) == {j \in 1..n : p.destinations[j].kind # "dashboard"}
<1>1. ASSUME NEW n \in Nat PROVE IsFiniteSet(sent(n)) /\ Cardinality(sent(n)) \in Nat
  <2>1. IsFiniteSet(1..n)
    BY FS_Interval
  <2>2. sent(n) \subseteq 1..n
    OBVIOUS
  <2> HIDE DEF sent
  <2>3. QED
    BY <2>1, <2>2, FS_Subset, FS_CardinalityType
<1>2. \A n \in Nat : Place(p, n) = 1 + Cardinality(sent(n))
  BY DEF Place
<1>3. Cardinality(sent(0)) = 0
  <2>1. sent(0) = {}
    OBVIOUS
  <2>2. QED
    BY <2>1, FS_EmptySet
<1>4. ASSUME NEW n \in Nat
      PROVE  Cardinality(sent(n + 1)) = Cardinality(sent(n)) +
               IF p.destinations[n + 1].kind = "dashboard" THEN 0 ELSE 1
  <2>1. CASE p.destinations[n + 1].kind = "dashboard"
    <3>1. sent(n + 1) = sent(n)
      BY <2>1
    <3> HIDE DEF sent
    <3>2. QED
      BY <1>1, <2>1, <3>1
  <2>2. CASE p.destinations[n + 1].kind # "dashboard"
    <3>1. sent(n + 1) = sent(n) \union {n + 1} /\ n + 1 \notin sent(n)
      BY <2>2
    <3> HIDE DEF sent
    <3>2. Cardinality(sent(n + 1)) = Cardinality(sent(n)) + 1
      BY <1>1, <3>1, FS_AddElement
    <3>3. QED
      BY <2>2, <3>2
  <2>3. QED
    BY <2>1, <2>2
<1>5. ASSUME NEW i \in Nat, NEW n \in Nat, i <= n
      PROVE  Cardinality(sent(i)) <= Cardinality(sent(n))
  <2>1. sent(i) \subseteq sent(n)
    BY <1>5
  <2> HIDE DEF sent
  <2>2. QED
    BY <1>1, <2>1, FS_Subset
<1> HIDE DEF sent
<1>6. \A n \in Nat : Place(p, n) \in Nat /\ Place(p, n) >= 1
  BY <1>1, <1>2
<1>7. Place(p, 0) = 1
  BY <1>2, <1>3
<1>8. ASSUME NEW n \in Nat
      PROVE  Place(p, n + 1) = Place(p, n) +
               IF p.destinations[n + 1].kind = "dashboard" THEN 0 ELSE 1
  <2>1. n + 1 \in Nat
    OBVIOUS
  <2>2. Cardinality(sent(n)) \in Nat
    BY <1>1
  <2>3. QED
    BY <1>2, <1>4, <2>1, <2>2
<1>9. ASSUME NEW i \in Nat, NEW n \in Nat, i <= n PROVE Place(p, i) <= Place(p, n)
  BY <1>1, <1>2, <1>5, <1>9
<1>10. QED
  BY <1>6, <1>7, <1>8, <1>9

LEMMA PublicationLists ==
  ASSUME NEW p \in Publication
  PROVE  /\ Len(p.destinations) \in Nat /\ DOMAIN p.destinations = 1..Len(p.destinations)
         /\ \A i \in DOMAIN p.destinations : p.destinations[i].kind \in Kinds
<1> DEFINE D == [kind : Kinds, platform : STRING, address : STRING]
<1>1. p.destinations \in Seq(D)
  BY RecordsConstants
<1>2. \A d \in D : d.kind \in Kinds
  OBVIOUS
<1> HIDE DEF D
<1>3. QED
  BY <1>1, <1>2

\* Only what happens to a publication or its destinations touches reports on it.
LEMMA ReportedStays ==
  ASSUME NEW p \in Publication, Reported(p), Kept(p) => Kept(p)',
         publishing'[p] = publishing[p], report'[p] = report[p], handed'[p] = handed[p]
  PROVE  Reported(p)'
<1>1. ASSUME NEW i, NEW results, NEW caps, Told(p, i, results, caps)
      PROVE  Told(p, i, results, caps)'
  BY <1>1 DEF Told
<1> DEFINE s == publishing[p]
           r == report[p]
<1>2. publishing'[p] = s /\ report'[p] = r
  OBVIOUS
<1> HIDE DEF s, r
<1>3. QED
  BY <1>1, <1>2 DEF Reported, s, r

\* Nothing is under way of a publication at rest.
LEMMA RestReported ==
  ASSUME NEW p \in Publication, Reported(p), Kept(p) => Kept(p)',
         \/ publishing'[p].pc = "idle"
         \/ publishing'[p].pc = "saving" /\ publishing'[p].next = 1,
         report'[p] = report[p], handed'[p] = handed[p]
  PROVE  Reported(p)'
<1>1. ASSUME NEW i, NEW results, NEW caps, Told(p, i, results, caps)
      PROVE  Told(p, i, results, caps)'
  BY <1>1 DEF Told
<1> DEFINE r == report[p]
<1>2. report'[p] = r
  OBVIOUS
<1> HIDE DEF r
<1>3. QED
  BY <1>1, <1>2 DEF Reported, r

LEMMA SaveReported ==
  ASSUME RecordsInv, NEW p \in Publication, Reported(p), SaveRecord(p), Kept(p) => Kept(p)'
  PROVE  Reported(p)'
<1>1. report' = report /\ handed' = handed
  BY DEF SaveRecord
<1>2. CASE Taken(p.id)
  <2>1. publishing'[p] = Resting
    BY <1>2 DEF SaveRecord, RecordsInv, SendingInv
  <2>2. QED
    BY <1>1, <2>1, RestingRests, RestReported
<1>3. CASE ~Taken(p.id)
  <2> DEFINE k == publishing[p]
             t == [[k EXCEPT !.pc = "sending"] EXCEPT !.results = <<"stored">>]
  <2>1. publishing'[p] = t /\ k.pc = "saving" /\ DOMAIN k = PublishingField
    BY <1>3 DEF SaveRecord, RecordsInv, SendingInv
  <2>2. k.next = 1
    BY <2>1 DEF Reported
  <2>3. report'[p] = NoReport
    BY <1>1, <1>3 DEF Reported, Kept, StoredFor, Taken
  <2>4. t.pc = "sending" /\ t.next = 1 /\ t.results = <<"stored">> /\ t.caps = k.caps
    BY <2>1, <2>2 DEF PublishingField
  <2> HIDE DEF k, t
  <2>5. 1 - 1 = 0 /\ 1..0 = {} /\ 1 \in 1..(Len(p.destinations) + 1)
    BY PublicationLists
  <2>6. <<"stored">> \in Seq(Outcomes) /\ Len(<<"stored">>) = Place(p, 0)
    BY PlaceGrows DEF Outcomes
  <2>7. QED
    BY <2>1, <2>3, <2>4, <2>5, <2>6 DEF Reported
<1>4. QED
  BY <1>2, <1>3

\* What became of the next destination is told at its place, and what was told of
\* those before stays true.
LEMMA OutcomeReported ==
  ASSUME RecordsInv, NEW p \in Publication, Reported(p), Sending(p), NEW results,
         Outcome(p, results), report' = report,
         LET n == publishing[p].next IN
         /\ \A i \in DOMAIN p.destinations : i # n => handed'[p][i] = handed[p][i]
         /\ \/ Dest(p).kind = "dashboard" /\ results = <<>>
            \/ /\ Dest(p).kind # "dashboard"
               /\ \E told \in Outcomes :
                    /\ results = <<told>>
                    /\ told = "delivered" =>
                         handed'[p][n] = 1 /\ Dest(p).kind \in VisibleKinds(publishing[p].caps)
                    /\ told = Rejected => handed'[p][n] = 0
                    /\ told = "failed" =>
                         (handed'[p][n] = 1) = (Dest(p).kind \in Deliverers)
  PROVE  Reported(p)'
<1> DEFINE k == publishing[p]
           more == k.results \o results
           t == [[k EXCEPT !.next = @ + 1] EXCEPT !.results = more]
           n == k.next
<1>1. publishing'[p] = t /\ DOMAIN k = PublishingField /\ k.pc = "sending"
  BY DEF Outcome, RecordsInv, SendingInv, Sending
<1>2. t.pc = "sending" /\ t.next = n + 1 /\ t.results = more /\ t.caps = k.caps
  BY <1>1 DEF PublishingField
<1>3. /\ report[p] = NoReport
      /\ k.results \in Seq(Outcomes) /\ Len(k.results) = Place(p, n - 1)
      /\ \A i \in 1..(n - 1) : Told(p, i, k.results, k.caps)
  BY <1>1 DEF Reported
<1>4. /\ n \in 1..Len(p.destinations) /\ n \in Nat /\ n - 1 \in Nat /\ (n - 1) + 1 = n
      /\ (n + 1) - 1 = n /\ n + 1 \in 1..(Len(p.destinations) + 1)
      /\ 1..(n - 1) \subseteq DOMAIN p.destinations /\ n \notin 1..(n - 1)
      /\ \A i \in 1..n : i = n \/ i \in 1..(n - 1)
  <2>1. n \in 1..(Len(p.destinations) + 1) /\ n <= Len(p.destinations)
    BY <1>1 DEF Reported, Sending
  <2>2. QED
    BY <2>1, PublicationLists
<1>5. Dest(p) = p.destinations[n]
  BY DEF Dest
<1>6. /\ \A i \in DOMAIN p.destinations : i # n => handed'[p][i] = handed[p][i]
      /\ \/ Dest(p).kind = "dashboard" /\ results = <<>>
         \/ /\ Dest(p).kind # "dashboard"
            /\ \E told \in Outcomes :
                 /\ results = <<told>>
                 /\ told = "delivered" =>
                      handed'[p][n] = 1 /\ Dest(p).kind \in VisibleKinds(k.caps)
                 /\ told = Rejected => handed'[p][n] = 0
                 /\ told = "failed" => (handed'[p][n] = 1) = (Dest(p).kind \in Deliverers)
  OBVIOUS
<1> DEFINE before == k.results
<1>7. more = before \o results
  OBVIOUS
<1> HIDE DEF t, k, n, more
<1>8. /\ Place(p, n - 1) \in Nat /\ Place(p, n - 1) >= 1
      /\ Place(p, n) = Place(p, n - 1) + IF Dest(p).kind = "dashboard" THEN 0 ELSE 1
      /\ \A i \in 1..(n - 1) : Place(p, i) \in 1..Place(p, n - 1)
  <2>1. Place(p, n - 1) \in Nat /\ Place(p, n - 1) >= 1
    BY <1>4, PlaceGrows
  <2>2. Place(p, (n - 1) + 1) = Place(p, n - 1) +
          IF p.destinations[(n - 1) + 1].kind = "dashboard" THEN 0 ELSE 1
    BY <1>4, PlaceGrows
  <2>3. Place(p, n) = Place(p, n - 1) + IF Dest(p).kind = "dashboard" THEN 0 ELSE 1
    BY <1>4, <1>5, <2>2
  <2>4. ASSUME NEW i \in 1..(n - 1) PROVE Place(p, i) \in 1..Place(p, n - 1)
    <3>1. i \in Nat /\ i <= n - 1 /\ n - 1 \in Nat
      BY <1>4
    <3>2. Place(p, i) \in Nat /\ Place(p, i) >= 1 /\ Place(p, i) <= Place(p, n - 1)
      BY <3>1, PlaceGrows
    <3>3. QED
      BY <2>1, <3>2
  <2>5. QED
    BY <2>1, <2>3, <2>4
<1>9. before \in Seq(Outcomes) /\ Len(before) = Place(p, n - 1)
  BY <1>3
<1> HIDE DEF before
<1>10. /\ more \in Seq(Outcomes) /\ Len(more) = Place(p, n)
       /\ \A i \in 1..Place(p, n - 1) : more[i] = before[i]
       /\ Dest(p).kind # "dashboard" => more[Place(p, n)] = results[1]
  <2>1. CASE Dest(p).kind = "dashboard"
    <3>1. results = <<>>
      BY <1>6, <2>1
    <3>2. more = before
      BY <1>7, <1>9, <3>1
    <3>3. QED
      BY <1>8, <1>9, <2>1, <3>2
  <2>2. CASE Dest(p).kind # "dashboard"
    <3>1. PICK told \in Outcomes : results = <<told>>
      BY <1>6, <2>2
    <3>2. /\ more \in Seq(Outcomes) /\ Len(more) = Len(before) + 1
          /\ \A i \in 1..Len(before) : more[i] = before[i]
          /\ more[Len(before) + 1] = told
      <4>1. results \in Seq(Outcomes) /\ Len(results) = 1 /\ results[1] = told
        BY <3>1
      <4>2. \A a, b \in Seq(Outcomes) :
              /\ a \o b \in Seq(Outcomes)
              /\ Len(a \o b) = Len(a) + Len(b)
              /\ \A i \in 1..Len(a) : (a \o b)[i] = a[i]
              /\ Len(b) = 1 => (a \o b)[Len(a) + 1] = b[1]
        BY ConcatProperties
      <4>3. before \in Seq(Outcomes)
        BY <1>9
      <4>4. /\ more \in Seq(Outcomes)
            /\ Len(more) = Len(before) + Len(results)
            /\ \A i \in 1..Len(before) : more[i] = before[i]
            /\ Len(results) = 1 => more[Len(before) + 1] = results[1]
        BY <1>7, <4>1, <4>2, <4>3, Zenon
      <4>5. QED
        BY <4>1, <4>4
    <3>3. Place(p, n) = Len(before) + 1
      BY <1>8, <1>9, <2>2
    <3>4. results[1] = told
      BY <3>1
    <3>5. QED
      BY <1>9, <3>2, <3>3, <3>4
  <2>3. QED
    BY <2>1, <2>2
<1>11. PICK told, caps, at : told = more /\ caps = k.caps /\ at = n
  OBVIOUS
<1>12. ASSUME NEW i \in 1..(n - 1) PROVE Told(p, i, told, caps)'
  <2>1. Told(p, i, before, caps) /\ handed'[p][i] = handed[p][i]
    BY <1>3, <1>4, <1>6, <1>11 DEF before
  <2>2. told[Place(p, i)] = before[Place(p, i)]
    BY <1>8, <1>10, <1>11
  <2>3. QED
    BY <2>1, <2>2 DEF Told
<1>13. Told(p, at, told, caps)'
  <2>1. CASE Dest(p).kind = "dashboard"
    BY <1>5, <1>11, <2>1 DEF Told
  <2>2. CASE Dest(p).kind # "dashboard"
    <3>1. PICK said \in Outcomes :
            /\ results = <<said>>
            /\ said = "delivered" => handed'[p][at] = 1 /\ Dest(p).kind \in VisibleKinds(caps)
            /\ said = Rejected => handed'[p][at] = 0
            /\ said = "failed" => (handed'[p][at] = 1) = (Dest(p).kind \in Deliverers)
      BY <1>6, <1>11, <2>2
    <3>2. told[Place(p, at)] = said
      BY <1>10, <1>11, <2>2, <3>1
    <3>3. QED
      BY <1>5, <1>11, <3>1, <3>2 DEF Told
  <2>3. QED
    BY <2>1, <2>2
<1>14. \A i \in 1..at : Told(p, i, told, caps)'
  BY <1>4, <1>11, <1>12, <1>13
<1>15. QED
  BY <1>1, <1>2, <1>3, <1>4, <1>10, <1>11, <1>14 DEF Reported

\* Where delivery is allowed, the dashboard shows the kind.
LEMMA AllowedIsVisible ==
  ASSUME NEW p \in Publication, NEW i \in DOMAIN p.destinations, NEW caps,
         p.destinations[i].kind # "dashboard", Decide(p.destinations[i], caps) = "allowed"
  PROVE  p.destinations[i].kind \in VisibleKinds(caps)
<1> DEFINE d == p.destinations[i]
<1>1. d.kind \in Kinds
  BY PublicationLists
<1> HIDE DEF d
<1>2. d.kind # "dashboard" /\ Decide(d, caps) = "allowed"
  BY DEF d
<1>3. d.kind \in caps.enabled
  BY <1>2 DEF Decide
<1>4. CASE NeedsPlatform(d.kind)
  <2>1. d.platform \in caps.connected
    BY <1>2, <1>3, <1>4 DEF Decide
  <2>2. QED
    BY <1>3, <1>4, <2>1 DEF VisibleKinds, NeedsPlatform, d
<1>5. CASE ~NeedsPlatform(d.kind)
  <2>1. d.kind \in caps.configured
    BY <1>2, <1>3, <1>5 DEF Decide
  <2>2. d.kind \in {"email", "webhook"}
    BY <1>1, <1>2, <1>5 DEF Kinds, NeedsPlatform
  <2>3. QED
    BY <1>3, <2>1, <2>2 DEF VisibleKinds, d
<1>6. QED
  BY <1>4, <1>5

\* What the outcome of the next destination tells is so.
LEMMA OutcomeIsTold ==
  ASSUME RecordsInv, NEW p \in Publication, Reported(p),
         SkipDashboard(p) \/ Refuse(p) \/ Dispatch(p)
  PROVE  Reported(p)'
<1> DEFINE n == publishing[p].next
           caps == publishing[p].caps
<1>1. Sending(p) /\ report' = report
  BY DEF SkipDashboard, Refuse, Dispatch
<1>2. n \in DOMAIN p.destinations /\ Dest(p) = p.destinations[n]
  <2>1. n \in 1..(Len(p.destinations) + 1) /\ n <= Len(p.destinations)
    BY <1>1 DEF Reported, Sending
  <2>2. QED
    BY <2>1, PublicationLists DEF Dest
<1>3. /\ handed[p] = [i \in DOMAIN p.destinations |-> handed[p][i]]
      /\ handed[p][n] = 0
  <2>1. publishing[p].pc = "sending" /\ n >= n
    BY <1>1, <1>2, PublicationLists DEF Sending
  <2>2. QED
    BY <1>2, <2>1, HandedFacts DEF RecordsInv, SendingInv
<1>4. p \in DOMAIN handed
  BY DEF RecordsInv, SendingInv
<1>5. CASE SkipDashboard(p)
  <2>1. Outcome(p, <<>>) /\ Dest(p).kind = "dashboard" /\ handed' = handed
    BY <1>5 DEF SkipDashboard
  <2>2. QED
    BY <1>1, <2>1, OutcomeReported
<1>6. CASE Refuse(p)
  <2>1. Outcome(p, <<Rejected>>) /\ Decide(Dest(p), caps) # "allowed" /\ handed' = handed
    BY <1>6 DEF Refuse
  <2>2. Dest(p).kind # "dashboard"
    BY <2>1 DEF Decide
  <2>3. Rejected \in Outcomes /\ Rejected # "delivered" /\ Rejected # "failed"
    BY RecordsConstants DEF Outcomes
  <2>4. handed'[p][n] = 0 /\ \A i \in DOMAIN p.destinations : handed'[p][i] = handed[p][i]
    BY <1>3, <2>1
  <2>5. QED
    BY <1>1, <2>1, <2>2, <2>3, <2>4, OutcomeReported
<1>7. CASE Dispatch(p)
  <2>1. Dest(p).kind # "dashboard" /\ Decide(Dest(p), caps) = "allowed"
    BY <1>7 DEF Dispatch
  <2>2. Dest(p).kind \in VisibleKinds(caps)
    BY <1>2, <2>1, AllowedIsVisible
  <2>3. "delivered" \in Outcomes /\ "failed" \in Outcomes /\ Rejected # "delivered"
        /\ Rejected # "failed"
    BY RecordsConstants DEF Outcomes
  <2>4. CASE Dest(p).kind \in Deliverers
    <3>1. PICK result \in {"delivered", "failed"} : Outcome(p, <<result>>)
      BY <1>7, <2>4 DEF Dispatch
    <3>2. handed' = [handed EXCEPT ![p][n] = @ + 1]
      BY <1>7, <2>4 DEF Dispatch
    <3>3. /\ handed'[p][n] = 1
          /\ \A i \in DOMAIN p.destinations : i # n => handed'[p][i] = handed[p][i]
      BY <1>2, <1>3, <1>4, <3>2
    <3>4. QED
      BY <1>1, <2>1, <2>2, <2>3, <2>4, <3>1, <3>3, OutcomeReported
  <2>5. CASE Dest(p).kind \notin Deliverers
    <3>1. Outcome(p, <<"failed">>) /\ handed' = handed
      BY <1>7, <2>5 DEF Dispatch
    <3>2. handed'[p][n] # 1 /\ \A i \in DOMAIN p.destinations : handed'[p][i] = handed[p][i]
      BY <1>3, <3>1
    <3>3. QED
      BY <1>1, <2>1, <2>3, <2>5, <3>1, <3>2, OutcomeReported
  <2>6. QED
    BY <2>4, <2>5
<1>8. QED
  BY <1>5, <1>6, <1>7

\* A report is made of what was told.
LEMMA ReportIsTold ==
  ASSUME RecordsInv, ReportingInv, NEW p \in Publication, Report(p), Kept(p)'
  PROVE  Reported(p)'
<1> DEFINE s == publishing[p]
<1>1. PICK results, caps : results = s.results /\ caps = s.caps
  OBVIOUS
<1>2. /\ s.pc = "sending" /\ s.next > Len(p.destinations) /\ handed' = handed
      /\ publishing' = [publishing EXCEPT ![p] = Resting]
      /\ report' = [report EXCEPT ![p] = [results |-> results, caps |-> caps]]
  BY <1>1 DEF Report
<1>3. publishing'[p] = Resting
  BY <1>2 DEF RecordsInv, SendingInv
<1>4. report'[p].results = results /\ report'[p].caps = caps
  BY <1>2 DEF ReportingInv
<1>5. /\ Len(results) = Place(p, Len(p.destinations))
      /\ \A i \in DOMAIN p.destinations : Told(p, i, results, caps)
  <2>1. /\ s.next \in 1..(Len(p.destinations) + 1) /\ Len(results) = Place(p, s.next - 1)
        /\ \A i \in 1..(s.next - 1) : Told(p, i, results, caps)
    BY <1>1, <1>2 DEF ReportingInv, Reported
  <2>2. s.next - 1 = Len(p.destinations)
    BY <1>2, <2>1, PublicationLists
  <2> HIDE DEF s
  <2>3. QED
    BY <2>1, <2>2, PublicationLists
<1>6. \A i \in DOMAIN p.destinations : Told(p, i, results, caps)'
  BY <1>2, <1>5 DEF Told
<1>7. QED
  BY <1>3, <1>4, <1>5, <1>6, RestingRests DEF Reported

LEMMA ReportingStep ==
  ASSUME RecordsInv, RecordsInv', ReportingInv, [Next]_vars
  PROVE  ReportingInv'
<1>1. ASSUME NEW q \in Publication PROVE Reported(q) /\ (Kept(q) => Kept(q)')
  BY KeptLasts DEF ReportingInv
<1>2. ASSUME UNCHANGED <<publishing, handed, report>> PROVE ReportingInv'
  <2>1. \A q \in Publication : Reported(q)'
    BY <1>1, <1>2, ReportedStays
  <2>2. QED
    BY <1>2, <2>1 DEF ReportingInv
<1>3. ASSUME NEW p \in Publication,
             \/ Publish(p) \/ SaveRecord(p) \/ SaveFails(p)
             \/ SkipDashboard(p) \/ Refuse(p) \/ Dispatch(p) \/ Report(p)
      PROVE  ReportingInv'
  <2>1. /\ report' = [q \in Publication |-> report'[q]]
        /\ \A q \in Publication : q # p =>
             publishing'[q] = publishing[q] /\ handed'[q] = handed[q] /\ report'[q] = report[q]
    BY <1>3 DEF ReportingInv, RecordsInv, SendingInv, Publish, SaveRecord, SaveFails,
                SkipDashboard, Refuse, Dispatch, Report, Outcome
  <2>2. \A q \in Publication : q # p => Reported(q)'
    BY <1>1, <2>1, ReportedStays
  <2>3. Reported(p)'
    <3>1. CASE Publish(p)
      <4>1. PICK caps \in Capabilities :
              publishing'[p] = [Resting EXCEPT !.pc = "saving", !.caps = caps]
        BY <3>1 DEF Publish, RecordsInv, SendingInv
      <4>2. publishing'[p].pc = "saving" /\ publishing'[p].next = 1
        BY <4>1, RestingRests
      <4>3. report' = report /\ handed' = handed
        BY <3>1 DEF Publish
      <4>4. QED
        BY <1>1, <4>2, <4>3, RestReported
    <3>2. CASE SaveRecord(p)
      BY <1>1, <3>2, SaveReported
    <3>3. CASE SaveFails(p)
      <4>1. publishing'[p] = Resting /\ report' = report /\ handed' = handed
        BY <3>3 DEF SaveFails, RecordsInv, SendingInv
      <4>2. QED
        BY <1>1, <4>1, RestReported, RestingRests
    <3>4. CASE SkipDashboard(p) \/ Refuse(p) \/ Dispatch(p)
      BY <1>1, <3>4, OutcomeIsTold
    <3>5. CASE Report(p)
      <4>1. Kept(p)
        BY <3>5 DEF Report, RecordsInv, SendingInv
      <4>2. QED
        BY <1>1, <3>5, <4>1, ReportIsTold
    <3>6. QED
      BY <1>3, <3>1, <3>2, <3>3, <3>4, <3>5
  <2>4. QED
    BY <2>1, <2>2, <2>3 DEF ReportingInv
<1>4. CASE Crash
  <2>1. /\ \A p \in Publication : publishing'[p] = Resting
        /\ report' = report /\ handed' = handed
    BY <1>4 DEF Crash
  <2>2. \A q \in Publication : Reported(q)'
    BY <1>1, <2>1, RestReported, RestingRests
  <2>3. QED
    BY <2>1, <2>2 DEF ReportingInv
<1>5. ASSUME NEW c \in Client,
             \/ Ask(c) \/ Enter(c) \/ RequestFails(c)
             \/ Update(c) \/ Reload(c) \/ ListSummaries(c) \/ Create(c)
      PROVE  ReportingInv'
  BY <1>2, <1>5 DEF Ask, Enter, RequestFails, Update, Reload, ListSummaries, Create
<1>6. CASE UNCHANGED vars
  BY <1>2, <1>6 DEF vars
<1>7. QED
  BY <1>3, <1>4, <1>5, <1>6 DEF Next

LEMMA ReportingStarts == Init => ReportingInv
<1> SUFFICES ASSUME Init, NEW p \in Publication PROVE Reported(p)
  BY DEF Init, ReportingInv
<1>1. publishing[p] = Resting /\ report[p] = NoReport
  BY DEF Init
<1>2. QED
  BY <1>1, RestingRests DEF Reported

\* What a delivery report says is what the deliveries so far have come to.
THEOREM ReportingInvariant == Spec => []ReportingInv
<1>1. RecordsInv /\ RecordsInv' /\ ReportingInv /\ [Next]_vars => ReportingInv'
  BY ReportingStep
<1>2. QED
  BY <1>1, ReportingStarts, RecordsInvariant, PTL DEF Spec

-----------------------------------------------------------------------------
(* Answering *)

LEMMA SummaryLasts ==
  ASSUME RecordsInv, [Next]_vars, NEW r \in rows
  PROVE  \E s \in rows' :
           s.id = r.id /\ s.workspace = r.workspace /\ SummaryOf(s)' = SummaryOf(r)
<1>1. PICK s \in rows' :
        /\ \A f \in {"id", "workspace", "created", "text", "lists"} : s[f] = r[f]
        /\ {k \in children' : k.id = r.id} = {k \in children : k.id = r.id}
  BY RowsLast DEF Lasts
<1>2. s.id = r.id /\ s.workspace = r.workspace /\ s.text = r.text /\ s.lists = r.lists
  BY <1>1
<1>3. ASSUME NEW kind PROVE InOrder(s.id, kind)' = InOrder(r.id, kind)
  <2>1. {k \in children' : k.id = s.id /\ k.kind = kind} =
          {k \in children : k.id = r.id /\ k.kind = kind}
    BY <1>1, <1>2
  <2>2. PICK mine : mine = {k \in children : k.id = r.id /\ k.kind = kind}
    OBVIOUS
  <2> DEFINE list == [i \in 1..Cardinality(mine) |-> (CHOOSE k \in mine : k.idx = i).value]
  <2>3. InOrder(r.id, kind) = list
    BY <2>2 DEF InOrder
  <2>4. InOrder(s.id, kind)' = list
    <3> DEFINE now == {k \in children' : k.id = s.id /\ k.kind = kind}
    <3>1. InOrder(s.id, kind)' =
            [i \in 1..Cardinality(now) |-> (CHOOSE k \in now : k.idx = i).value]
      BY DEF InOrder
    <3>2. now = mine
      BY <2>1, <2>2
    <3> HIDE DEF now
    <3>3. QED
      BY <3>1, <3>2
  <2>5. QED
    BY <2>3, <2>4
<1>4. SummaryOf(s)' = SummaryOf(r)
  BY <1>2, <1>3 DEF SummaryOf
<1>5. QED
  BY <1>2, <1>4

LEMMA AnsweredStays ==
  ASSUME RecordsInv, [Next]_vars, NEW c \in Client, Answered(c), answer'[c] = answer[c]
  PROVE  Answered(c)'
<1>1. PICK a : a = answer[c]
  OBVIOUS
<1>2. ASSUME NEW i \in DOMAIN a.shown
      PROVE  \E s \in rows' :
               /\ s.id = a.shown[i].id
               /\ s.workspace \in Grants[c]
               /\ a.shown[i].summary = SummaryOf(s)'
  <2>1. PICK r \in rows :
          /\ r.id = a.shown[i].id
          /\ r.workspace \in Grants[c]
          /\ a.shown[i].summary = SummaryOf(r)
    BY <1>1 DEF Answered
  <2>2. PICK s \in rows' :
          s.id = r.id /\ s.workspace = r.workspace /\ SummaryOf(s)' = SummaryOf(r)
    BY SummaryLasts
  <2>3. QED
    BY <2>1, <2>2
<1>3. \A i \in DOMAIN a.shown : Shows(a.shown[i], a.asked)
  BY <1>1 DEF Answered
<1>4. QED
  BY <1>1, <1>2, <1>3 DEF Answered

LEMMA RowsStayFinite ==
  ASSUME RecordsInv, [Next]_vars, IsFiniteSet(rows)
  PROVE  IsFiniteSet(rows)'
<1>1. ASSUME NEW row, rows' = rows \union {row} PROVE IsFiniteSet(rows')
  BY <1>1, FS_AddElement
<1>2. ASSUME NEW c \in Client, Update(c) PROVE IsFiniteSet(rows')
  <2> DEFINE q == request[c]
             mine == InWorkspace(q.id, q.workspace)
             new == [r \in rows |-> IF r \in mine THEN Changed(r, q.op, q.tags) ELSE r]
  <2>1. rows' = (rows \ mine) \union {Changed(row, q.op, q.tags) : row \in mine}
    BY <1>2 DEF Update
  <2>2. mine \subseteq rows
    BY DEF InWorkspace
  <2> HIDE DEF q, mine
  <2>3. \A r \in rows : new[r] \in rows'
    BY <2>1
  <2>4. \A s \in rows' : \E r \in rows : new[r] = s
    BY <2>1, <2>2
  <2>5. DOMAIN new = rows /\ new = [r \in rows |-> new[r]]
    OBVIOUS
  <2> HIDE DEF new
  <2>6. new \in Surjection(rows, rows')
    BY <2>3, <2>4, <2>5 DEF Surjection
  <2>7. QED
    BY <2>6, FS_Surjection
<1>3. \/ rows' = rows
      \/ \E c \in Client : Update(c)
      \/ \E row : rows' = rows \union {row}
  BY DEF Next, vars, Publish, SaveRecord, SaveFails, SkipDashboard, Refuse, Dispatch, Report,
         Ask, Enter, RequestFails, Reload, ListSummaries, Create, Crash, store
<1>4. QED
  BY <1>1, <1>2, <1>3

\* The change asked for is made to a row by Changed, and shown of it.
LEMMA ChangedDone ==
  ASSUME NEW row, DOMAIN row = RowField, NEW q
  PROVE  Done(Changed(row, q.op, q.tags), q)
<1> DEFINE joined == Join(q.tags)
           s == Changed(row, q.op, q.tags)
<1>1. /\ q.op = "pin" => s = [row EXCEPT !.pinned = TRUE]
      /\ q.op = "unpin" => s = [row EXCEPT !.pinned = FALSE]
      /\ q.op = "archive" => s = [row EXCEPT !.archived = TRUE]
      /\ q.op = "unarchive" => s = [row EXCEPT !.archived = FALSE]
      /\ q.op = "tag" => s = [row EXCEPT !.tags = joined]
  BY DEF Changed
<1> HIDE DEF joined, s
<1>2. /\ q.op = "pin" => s.pinned
      /\ q.op = "unpin" => ~s.pinned
      /\ q.op = "archive" => s.archived
      /\ q.op = "unarchive" => ~s.archived
      /\ q.op = "tag" => s.tags = joined
  BY <1>1 DEF RowField
<1>3. QED
  BY <1>2 DEF Done, joined, s

LEMMA DoneShows ==
  ASSUME NEW row, NEW q, q.op # "list", q.op = "tag" => q.tags \in Tags, Done(row, q)
  PROVE  Shows(SummaryDto(row), q)
<1> DEFINE dto == SummaryDto(row)
<1>1. dto.pinned = row.pinned /\ dto.archived = row.archived /\ dto.tags = Split(row.tags)
  BY DEF SummaryDto
<1> HIDE DEF dto
<1>2. CASE q.op = "tag"
  <2>1. q.tags \in Seq(Seq(STRING))
    BY <1>2, RecordsConstants
  <2>2. PICK column : column = Join(q.tags)
    OBVIOUS
  <2>3. column \in Seq(STRING) /\ row.tags = column
    BY <1>2, <2>1, <2>2, JoinLines DEF Done
  <2>4. Join(Split(column)) = Nonblank(column)
    BY <2>3, JoinOfSplit
  <2>5. Join(dto.tags) = Nonblank(Join(q.tags))
    BY <1>1, <2>2, <2>3, <2>4
  <2>6. QED
    BY <1>2, <2>5 DEF Shows, dto
<1>3. CASE q.op \in {"pin", "unpin", "archive", "unarchive"}
  BY <1>1, <1>3 DEF Shows, Done, dto
<1>4. CASE q.op \notin {"pin", "unpin", "archive", "unarchive", "tag"}
  BY <1>4 DEF Shows
<1>5. QED
  BY <1>2, <1>3, <1>4

\* Records shown in order, each with the change asked for, make an answer.
LEMMA RespondAnswers ==
  ASSUME NEW c \in Client, NEW S, NEW records \in Seq(S), AnsweringInv, Respond(c, records),
         Len(records) <= request[c].page.limit,
         \A i \in DOMAIN records :
           /\ Shows(SummaryDto(records[i]), request[c])
           /\ \E s \in rows' :
                /\ s.id = records[i].id
                /\ s.workspace \in Grants[c]
                /\ SummaryOf(s)' = SummaryOf(records[i]),
         \A i, j \in DOMAIN records :
           i < j => records[i].id # records[j].id /\ Ordered(records[i], records[j])
  PROVE  Answered(c)'
<1> DEFINE shown == [i \in DOMAIN records |-> SummaryDto(records[i])]
<1>1. PICK a : a = [asked |-> request[c], shown |-> shown]
  OBVIOUS
<1>2. answer'[c] = a
  BY <1>1 DEF Respond, AnsweringInv
<1>3. /\ a.asked = request[c] /\ DOMAIN a.shown = DOMAIN records
      /\ \A i \in DOMAIN records : a.shown[i] = SummaryDto(records[i])
  BY <1>1
<1>4. Len(a.shown) = Len(records)
  BY <1>1
<1>5. \A r : LET dto == SummaryDto(r) IN
        /\ dto.id = r.id /\ dto.created = r.created /\ dto.pinned = r.pinned
        /\ dto.summary = SummaryOf(r)
  BY DEF SummaryDto
<1> HIDE DEF shown
<1>6. ASSUME NEW i \in DOMAIN a.shown
      PROVE  /\ Shows(a.shown[i], a.asked)
             /\ \E s \in rows' :
                  /\ s.id = a.shown[i].id
                  /\ s.workspace \in Grants[c]
                  /\ a.shown[i].summary = SummaryOf(s)'
  BY <1>3, <1>5
<1>7. ASSUME NEW i \in DOMAIN a.shown, NEW j \in DOMAIN a.shown, i < j
      PROVE  /\ a.shown[i].id # a.shown[j].id
             /\ a.shown[j].pinned => a.shown[i].pinned
             /\ a.shown[i].pinned = a.shown[j].pinned => a.shown[i].created >= a.shown[j].created
  <2>1. records[i].id # records[j].id /\ Ordered(records[i], records[j])
    BY <1>3, <1>7
  <2>2. /\ a.shown[i].id = records[i].id /\ a.shown[j].id = records[j].id
        /\ a.shown[i].created = records[i].created /\ a.shown[j].created = records[j].created
        /\ a.shown[i].pinned = records[i].pinned /\ a.shown[j].pinned = records[j].pinned
    BY <1>3, <1>5
  <2>3. QED
    BY <2>1, <2>2 DEF Ordered
<1>8. QED
  BY <1>2, <1>3, <1>4, <1>6, <1>7 DEF Answered

LEMMA ReloadAnswers ==
  ASSUME RecordsInv, AnsweringInv, NEW c \in Client, Reload(c), [Next]_vars,
         answer' # answer
  PROVE  Answered(c)'
<1> DEFINE q == request[c]
<1>1. PICK row \in InWorkspace(q.id, q.workspace) : Respond(c, <<row>>)
  BY DEF Reload
<1>2. row \in rows /\ row.id = q.id /\ row.workspace = q.workspace
  BY DEF InWorkspace
<1>3. /\ q.pc = "reloading" /\ q.op # "list" /\ q.page = Everything /\ Done(row, q)
      /\ q.op = "tag" => q.tags \in Tags
  BY DEF Reload, AnsweringInv, Answering
<1>4. q.workspace \in Grants[c]
  BY <1>3 DEF RecordsInv, RequestsInv
<1>5. PICK records : records = <<row>>
  OBVIOUS
<1>6. records \in Seq(rows) /\ Len(records) = 1 /\ DOMAIN records = {1} /\ records[1] = row
  BY <1>2, <1>5
<1>7. Len(records) <= q.page.limit
  BY <1>3, <1>6 DEF Everything
<1>8. Shows(SummaryDto(row), q)
  BY <1>3, DoneShows
<1>9. \E s \in rows' :
        s.id = row.id /\ s.workspace \in Grants[c] /\ SummaryOf(s)' = SummaryOf(row)
  BY <1>2, <1>4, SummaryLasts
<1>10. \A i, j \in DOMAIN records : ~(i < j)
  BY <1>6
<1>11. \A i \in DOMAIN records :
         /\ Shows(SummaryDto(records[i]), q)
         /\ \E s \in rows' :
              /\ s.id = records[i].id
              /\ s.workspace \in Grants[c]
              /\ SummaryOf(s)' = SummaryOf(records[i])
  BY <1>6, <1>8, <1>9
<1> HIDE DEF q
<1>12. QED
  BY <1>1, <1>5, <1>6, <1>7, <1>10, <1>11, RespondAnswers DEF q

\* Pages are cut from a sequence of the workspace's rows.
LEMMA ListAnswers ==
  ASSUME RecordsInv, AnsweringInv, NEW c \in Client, ListSummaries(c), [Next]_vars
  PROVE  Answered(c)'
<1> DEFINE q == request[c]
           page == q.page
           mine == {r \in rows : r.workspace = q.workspace /\ (page.archived \/ ~r.archived)}
           n == Cardinality(mine)
<1>1. /\ q.op = "list" /\ q.pc = "queued"
      /\ \E records \in Listings(q.workspace, page) : Respond(c, records)
  BY DEF ListSummaries
<1>2. PICK all \in SetToSeqs(mine) :
        /\ \A i, j \in DOMAIN all : i < j => Ordered(all[i], all[j])
        /\ Respond(c, SubSeq(all, 1, IF page.limit < Len(all) THEN page.limit ELSE Len(all)))
  BY <1>1 DEF Listings
<1>3. n \in Nat
  <2>1. IsFiniteSet(rows) /\ mine \subseteq rows
    BY DEF AnsweringInv
  <2>2. QED
    BY <2>1, FS_Subset, FS_CardinalityType
<1>4. page.limit \in Nat /\ q.workspace \in Grants[c]
  <2>1. page \in Pages
    BY <1>1 DEF AnsweringInv, Answering
  <2>2. QED
    BY <1>1, <2>1, RecordsConstants DEF RecordsInv, RequestsInv
<1>5. /\ \A r \in mine : r \in rows /\ r.workspace = q.workspace
                         /\ (r.archived => page.archived)
  OBVIOUS
<1>6. all \in [1..n -> mine] /\ \A i, j \in 1..n : i # j => all[i] # all[j]
  BY <1>2 DEF SetToSeqs
<1> HIDE DEF mine, n
<1>7. all \in Seq(mine) /\ Len(all) = n
  BY <1>3, <1>6
<1> DEFINE m == IF page.limit < Len(all) THEN page.limit ELSE Len(all)
<1>8. m \in 0..n /\ m <= page.limit /\ m \in Nat
  BY <1>3, <1>4, <1>7
<1>9. PICK records : records = SubSeq(all, 1, m)
  OBVIOUS
<1> HIDE DEF m
<1>10. /\ records \in Seq(mine) /\ Len(records) = m
       /\ \A i \in 1..m : records[i] = all[i]
  BY <1>3, <1>7, <1>8, <1>9
<1>11. DOMAIN records = 1..m /\ 1..m \subseteq 1..n
  BY <1>3, <1>8, <1>10
<1>12. ASSUME NEW i \in DOMAIN records
       PROVE  /\ Shows(SummaryDto(records[i]), q)
              /\ \E s \in rows' :
                   /\ s.id = records[i].id
                   /\ s.workspace \in Grants[c]
                   /\ SummaryOf(s)' = SummaryOf(records[i])
  <2>1. records[i] \in mine
    BY <1>10, <1>11
  <2>2. PICK r \in rows : /\ r = records[i] /\ r.workspace = q.workspace
                          /\ (r.archived => page.archived)
    BY <1>5, <2>1
  <2>3. SummaryDto(r).archived = r.archived
    BY DEF SummaryDto
  <2>4. Shows(SummaryDto(r), q)
    BY <1>1, <2>2, <2>3 DEF Shows
  <2>5. QED
    BY <1>4, <2>2, <2>4, SummaryLasts
<1>13. ASSUME NEW i \in DOMAIN records, NEW j \in DOMAIN records, i < j
       PROVE  records[i].id # records[j].id /\ Ordered(records[i], records[j])
  <2>1. records[i] = all[i] /\ records[j] = all[j] /\ i \in 1..n /\ j \in 1..n /\ i # j
    BY <1>8, <1>10, <1>11, <1>13
  <2>2. all[i] # all[j] /\ all[i] \in rows /\ all[j] \in rows
    BY <1>5, <1>6, <2>1
  <2>3. all[i].id # all[j].id
    BY <2>2 DEF RecordsInv, StoreInv, StoredWhole
  <2>4. Ordered(all[i], all[j])
    BY <1>2, <1>6, <1>13, <2>1
  <2>5. QED
    BY <2>1, <2>3, <2>4
<1>14. Respond(c, records) /\ Len(records) <= q.page.limit
  BY <1>2, <1>8, <1>9, <1>10 DEF m
<1> HIDE DEF q
<1>15. QED
  BY <1>10, <1>12, <1>13, <1>14, RespondAnswers DEF q

LEMMA CreateAnswers ==
  ASSUME RecordsInv, AnsweringInv, NEW c \in Client, Create(c), [Next]_vars,
         answer' # answer
  PROVE  Answered(c)'
<1> DEFINE q == request[c]
           made == RowOf(q.id, q.workspace, q.id, DemoSummary)
<1>1. /\ rows' = rows \union {made} /\ Respond(c, <<made>>) /\ children' = children
      /\ q.op = "create" /\ q.pc = "queued"
  BY DEF Create
<1>2. q.page = Everything /\ q.workspace \in Grants[c]
  BY <1>1 DEF AnsweringInv, Answering, RecordsInv, RequestsInv
<1>3. made.id = q.id /\ made.workspace = q.workspace
  BY DEF RowOf
<1>4. PICK row, records : row = made /\ records = <<row>>
  OBVIOUS
<1> HIDE DEF made
<1>5. row \in rows' /\ row.workspace \in Grants[c]
  BY <1>1, <1>2, <1>3, <1>4
<1>6. SummaryOf(row)' = SummaryOf(row)
  BY <1>1 DEF SummaryOf, InOrder
<1>7. records \in Seq({row}) /\ Len(records) = 1 /\ DOMAIN records = {1} /\ records[1] = row
  BY <1>4
<1>8. Len(records) <= q.page.limit
  BY <1>2, <1>7 DEF Everything
<1>9. Shows(SummaryDto(row), q)
  BY <1>1 DEF Shows
<1>10. \A i, j \in DOMAIN records : ~(i < j)
  BY <1>7
<1>11. \A i \in DOMAIN records :
         /\ Shows(SummaryDto(records[i]), q)
         /\ \E s \in rows' :
              /\ s.id = records[i].id
              /\ s.workspace \in Grants[c]
              /\ SummaryOf(s)' = SummaryOf(records[i])
  BY <1>5, <1>6, <1>7, <1>9
<1>12. Respond(c, records)
  BY <1>1, <1>4
<1> HIDE DEF q
<1>13. QED
  BY <1>7, <1>8, <1>10, <1>11, <1>12, RespondAnswers DEF q

\* Others leave alone what a request asked for and was answered, and, where it
\* holds the lock, the rows it asked for.
LEMMA OthersAnswering ==
  ASSUME RecordsInv, AnsweringInv, [Next]_vars, NEW c \in Client,
         request'[c] = request[c], answer'[c] = answer[c],
         request[c].pc = "reloading" =>
           /\ lock' = lock
           /\ InWorkspace(request[c].id, request[c].workspace)' =
                InWorkspace(request[c].id, request[c].workspace)
  PROVE  Answering(c)'
<1>1. PICK q : q = request[c] /\ request'[c] = q
  OBVIOUS
<1>2. Answering(c)
  BY DEF AnsweringInv
<1>3. answer'[c] # NoReport => Answered(c)'
  BY <1>2, AnsweredStays DEF Answering
<1>4. q.pc = "reloading" =>
        /\ lock' = c /\ q.op # "list" /\ InWorkspace(q.id, q.workspace)' # {}
        /\ \A row \in InWorkspace(q.id, q.workspace)' : Done(row, q)
  <2>1. q.pc = "reloading" =>
          InWorkspace(q.id, q.workspace)' = InWorkspace(q.id, q.workspace)
    BY <1>1 DEF InWorkspace
  <2>2. QED
    BY <1>1, <1>2, <2>1 DEF Answering
<1>5. QED
  BY <1>1, <1>2, <1>3, <1>4 DEF Answering, Done

\* A request that is over asks for nothing more.
LEMMA LeftAnswering ==
  ASSUME RecordsInv, NEW c \in Client, Leave(c) \/ request'[c] = Silent,
         answer'[c] # NoReport => Answered(c)'
  PROVE  Answering(c)'
<1>1. request'[c] = Silent
  BY DEF Leave, RecordsInv, RequestsInv
<1>2. Silent.pc = "idle" /\ Silent.op = "get" /\ Silent.page = Everything
  BY DEF Silent
<1>3. QED
  BY <1>1, <1>2 DEF Answering

\* Publishing puts no row where there is one.
LEMMA PublishingApart ==
  ASSUME RecordsInv, AnsweringInv, NEW p \in Publication, NEW c \in Client,
         \/ Publish(p) \/ SaveRecord(p) \/ SaveFails(p)
         \/ SkipDashboard(p) \/ Refuse(p) \/ Dispatch(p) \/ Report(p),
         request[c].pc = "reloading"
  PROVE  InWorkspace(request[c].id, request[c].workspace)' =
           InWorkspace(request[c].id, request[c].workspace)
<1>1. PICK id, w : id = request[c].id /\ w = request[c].workspace
  OBVIOUS
<1>2. UNCHANGED request
  BY DEF Publish, SaveRecord, SaveFails, SkipDashboard, Refuse, Dispatch, Report, clients
<1>3. InWorkspace(id, w) # {}
  BY <1>1 DEF AnsweringInv, Answering
<1>4. InWorkspace(id, w)' = InWorkspace(id, w)
  <2>1. CASE rows' = rows
    BY <2>1 DEF InWorkspace
  <2>2. CASE rows' # rows
    <3> DEFINE row == RowOf(p.id, p.workspace, p.created, SummaryMade(p))
    <3>1. ~Taken(p.id) /\ rows' = rows \union {row}
      BY <2>2 DEF Publish, SaveRecord, SaveFails, SkipDashboard, Refuse, Dispatch, Report,
                  store
    <3>2. row.id = p.id
      BY DEF RowOf
    <3> HIDE DEF row
    <3>3. row.id # id
      BY <1>3, <3>1, <3>2 DEF InWorkspace, Taken
    <3>4. QED
      BY <3>1, <3>3 DEF InWorkspace
  <2>3. QED
    BY <2>1, <2>2
<1>5. QED
  BY <1>1, <1>2, <1>4 DEF InWorkspace

LEMMA UpdateAnswering ==
  ASSUME RecordsInv, AnsweringInv, [Next]_vars, NEW c \in Client, Update(c)
  PROVE  Answering(c)'
<1>1. PICK q, mine : q = request[c] /\ mine = InWorkspace(q.id, q.workspace)
  OBVIOUS
<1>2. /\ lock = c /\ q.pc = "queued" /\ q.op # "list" /\ answer' = answer
      /\ rows' = (rows \ mine) \union {Changed(row, q.op, q.tags) : row \in mine}
      /\ IF mine = {} THEN Leave(c)
         ELSE request' = [request EXCEPT ![c].pc = "reloading"] /\ UNCHANGED lock
  BY <1>1 DEF Update, Holding
<1>3. answer'[c] # NoReport => Answered(c)'
  BY <1>2, AnsweredStays DEF AnsweringInv, Answering
<1>4. CASE mine = {}
  BY <1>2, <1>3, <1>4, LeftAnswering
<1>5. CASE mine # {}
  <2>1. PICK t : t = [q EXCEPT !.pc = "reloading"]
    OBVIOUS
  <2>2. request'[c] = t /\ lock' = c
    BY <1>1, <1>2, <1>5, <2>1 DEF RecordsInv, RequestsInv
  <2>3. /\ t.op = q.op /\ t.id = q.id /\ t.workspace = q.workspace /\ t.tags = q.tags
        /\ t.page = q.page
    <3>1. DOMAIN q = RequestField
      BY <1>1 DEF RecordsInv, RequestsInv
    <3>2. QED
      BY <2>1, <3>1 DEF RequestField
  <2>4. ASSUME NEW row \in mine
        PROVE  /\ Changed(row, q.op, q.tags) \in InWorkspace(q.id, q.workspace)'
               /\ Done(Changed(row, q.op, q.tags), q)
    <3>1. row \in rows /\ row.id = q.id /\ row.workspace = q.workspace
      BY <1>1 DEF InWorkspace
    <3>2. DOMAIN row = RowField
      BY <3>1 DEF RecordsInv, StoreInv
    <3>3. PICK s : s = Changed(row, q.op, q.tags)
      OBVIOUS
    <3>4. s.id = q.id /\ s.workspace = q.workspace
      BY <3>1, <3>2, <3>3, ChangedFields
    <3>5. s \in rows'
      BY <1>2, <3>3
    <3>6. QED
      BY <3>2, <3>3, <3>4, <3>5, ChangedDone DEF InWorkspace
  <2>5. ASSUME NEW s \in InWorkspace(q.id, q.workspace)' PROVE Done(s, q)
    <3>1. s \in rows' /\ s.id = q.id /\ s.workspace = q.workspace
      BY DEF InWorkspace
    <3>2. s \notin rows \ mine
      BY <1>1, <3>1 DEF InWorkspace
    <3>3. QED
      BY <1>2, <2>4, <3>1, <3>2
  <2>6. InWorkspace(q.id, q.workspace)' # {}
    BY <1>5, <2>4
  <2>7. /\ q.page \in IF q.op = "list" THEN Pages ELSE {Everything}
        /\ q.op = "tag" => q.tags \in Tags
    BY <1>1 DEF AnsweringInv, Answering
  <2>8. \A s : Done(s, q) => Done(s, t)
    BY <2>3 DEF Done
  <2>9. \A s \in InWorkspace(t.id, t.workspace)' : Done(s, t)
    BY <2>3, <2>5, <2>8
  <2>10. QED
    BY <1>2, <1>3, <2>2, <2>3, <2>6, <2>7, <2>9 DEF Answering, Done
<1>6. QED
  BY <1>4, <1>5

LEMMA AskAnswering ==
  ASSUME RecordsInv, AnsweringInv, [Next]_vars, NEW c \in Client, Ask(c)
  PROVE  Answering(c)'
<1>1. PICK op \in Ops, w \in Workspaces :
        \E id : \E tags \in IF op = "tag" THEN Tags ELSE {<<>>},
                   page \in IF op = "list" THEN Pages ELSE {Everything} :
          request' = [request EXCEPT ![c] =
            [pc |-> "queued", op |-> op, workspace |-> w, id |-> id, tags |-> tags,
             page |-> page]]
  BY DEF Ask
<1>2. PICK id : \E tags \in IF op = "tag" THEN Tags ELSE {<<>>},
                    page \in IF op = "list" THEN Pages ELSE {Everything} :
        request' = [request EXCEPT ![c] =
          [pc |-> "queued", op |-> op, workspace |-> w, id |-> id, tags |-> tags,
           page |-> page]]
  BY <1>1
<1>3. PICK tags \in IF op = "tag" THEN Tags ELSE {<<>>},
           page \in IF op = "list" THEN Pages ELSE {Everything} :
        request' = [request EXCEPT ![c] =
          [pc |-> "queued", op |-> op, workspace |-> w, id |-> id, tags |-> tags,
           page |-> page]]
  BY <1>2
<1>4. PICK q : q = [pc |-> "queued", op |-> op, workspace |-> w, id |-> id, tags |-> tags,
                    page |-> page]
  OBVIOUS
<1>5. request'[c] = q
  BY <1>3, <1>4 DEF RecordsInv, RequestsInv
<1>6. q.pc = "queued" /\ q.op = op /\ q.tags = tags /\ q.page = page
  BY <1>4
<1>7. answer'[c] # NoReport => Answered(c)'
  BY AnsweredStays DEF AnsweringInv, Answering, Ask
<1>8. QED
  BY <1>5, <1>6, <1>7 DEF Answering

\* What each request does to itself.
LEMMA OwnAnswering ==
  ASSUME RecordsInv, AnsweringInv, [Next]_vars, NEW c \in Client,
         \/ Ask(c) \/ Enter(c) \/ RequestFails(c)
         \/ Update(c) \/ Reload(c) \/ ListSummaries(c) \/ Create(c)
  PROVE  Answering(c)'
<1>1. ASSUME answer'[c] = answer[c] PROVE answer'[c] # NoReport => Answered(c)'
  BY <1>1, AnsweredStays DEF AnsweringInv, Answering
<1>2. CASE Ask(c)
  BY <1>2, AskAnswering
<1>3. CASE Enter(c)
  <2>1. /\ request' = request /\ answer' = answer /\ request[c].pc = "queued"
    BY <1>3 DEF Enter
  <2>2. QED
    BY <2>1, OthersAnswering
<1>4. CASE RequestFails(c)
  BY <1>1, <1>4, LeftAnswering DEF RequestFails
<1>5. CASE Update(c)
  BY <1>5, UpdateAnswering
<1>6. CASE Reload(c)
  BY <1>1, <1>6, LeftAnswering, ReloadAnswers DEF Reload
<1>7. CASE ListSummaries(c)
  BY <1>7, LeftAnswering, ListAnswers DEF ListSummaries
<1>8. CASE Create(c)
  BY <1>1, <1>8, LeftAnswering, CreateAnswers DEF Create
<1>9. QED
  BY <1>2, <1>3, <1>4, <1>5, <1>6, <1>7, <1>8

\* A request that holds the lock is alone with the rows.
LEMMA OtherRequests ==
  ASSUME RecordsInv, AnsweringInv, [Next]_vars, NEW d \in Client,
         \/ Ask(d) \/ Enter(d) \/ RequestFails(d)
         \/ Update(d) \/ Reload(d) \/ ListSummaries(d) \/ Create(d),
         NEW c \in Client, c # d
  PROVE  Answering(c)'
<1>1. request'[c] = request[c]
  BY DEF Ask, Enter, RequestFails, Update, Reload, ListSummaries, Create, Leave,
         RecordsInv, RequestsInv
<1>2. answer'[c] = answer[c]
  BY DEF Ask, Enter, RequestFails, Update, Reload, ListSummaries, Create, Respond, AnsweringInv
<1>3. ASSUME request[c].pc = "reloading" PROVE Ask(d)
  <2>1. lock = c
    BY <1>3 DEF AnsweringInv, Answering
  <2>2. lock # d /\ lock # NoClient
    BY <2>1, RecordsConstants
  <2>3. QED
    BY <2>2 DEF Enter, RequestFails, Update, Reload, ListSummaries, Create, Holding
<1>4. ASSUME Ask(d)
      PROVE  /\ lock' = lock
             /\ InWorkspace(request[c].id, request[c].workspace)' =
                  InWorkspace(request[c].id, request[c].workspace)
  BY <1>1, <1>4 DEF Ask, store, InWorkspace
<1>5. QED
  BY <1>1, <1>2, <1>3, <1>4, OthersAnswering

LEMMA AnsweringStep ==
  ASSUME RecordsInv, AnsweringInv, [Next]_vars
  PROVE  AnsweringInv'
<1>1. IsFiniteSet(rows)'
  BY RowsStayFinite DEF AnsweringInv
<1>2. answer' = [c \in Client |-> answer'[c]]
  BY DEF AnsweringInv, Next, vars, Publish, SaveRecord, SaveFails, SkipDashboard, Refuse,
         Dispatch, Report, Ask, Enter, RequestFails, Update, Reload, ListSummaries, Create,
         Respond, Crash, clients
<1>3. ASSUME NEW c \in Client PROVE Answering(c)'
  <2>1. CASE UNCHANGED vars
    <3>1. /\ request' = request /\ answer' = answer /\ lock' = lock
          /\ InWorkspace(request[c].id, request[c].workspace)' =
               InWorkspace(request[c].id, request[c].workspace)
      BY <2>1 DEF vars, InWorkspace
    <3>2. QED
      BY <3>1, OthersAnswering
  <2>2. ASSUME NEW p \in Publication,
               \/ Publish(p) \/ SaveRecord(p) \/ SaveFails(p)
               \/ SkipDashboard(p) \/ Refuse(p) \/ Dispatch(p) \/ Report(p)
        PROVE  Answering(c)'
    <3>1. request' = request /\ answer' = answer /\ lock' = lock
      BY <2>2 DEF Publish, SaveRecord, SaveFails, SkipDashboard, Refuse, Dispatch, Report,
                  clients
    <3>2. QED
      BY <2>2, <3>1, OthersAnswering, PublishingApart
  <2>3. ASSUME NEW d \in Client,
               \/ Ask(d) \/ Enter(d) \/ RequestFails(d)
               \/ Update(d) \/ Reload(d) \/ ListSummaries(d) \/ Create(d)
        PROVE  Answering(c)'
    <3>1. CASE c = d
      BY <2>3, <3>1, OwnAnswering
    <3>2. CASE c # d
      BY <2>3, <3>2, OtherRequests
    <3>3. QED
      BY <3>1, <3>2
  <2>4. CASE Crash
    <3>1. request'[c] = Silent /\ answer'[c] = answer[c]
      BY <2>4 DEF Crash
    <3>2. answer'[c] # NoReport => Answered(c)'
      BY <3>1, AnsweredStays DEF AnsweringInv, Answering
    <3>3. QED
      BY <3>1, <3>2, LeftAnswering
  <2>5. QED
    BY <2>1, <2>2, <2>3, <2>4 DEF Next
<1>4. QED
  BY <1>1, <1>2, <1>3 DEF AnsweringInv

LEMMA AnsweringStarts == Init => AnsweringInv
<1> SUFFICES ASSUME Init PROVE AnsweringInv
  OBVIOUS
<1>1. IsFiniteSet(rows) /\ answer = [c \in Client |-> answer[c]]
  BY FS_EmptySet DEF Init
<1>2. ASSUME NEW c \in Client PROVE Answering(c)
  <2>1. request[c] = Silent /\ answer[c] = NoReport
    BY DEF Init
  <2>2. Silent.pc = "idle" /\ Silent.op = "get" /\ Silent.page = Everything
    BY DEF Silent
  <2>3. QED
    BY <2>1, <2>2 DEF Answering
<1>3. QED
  BY <1>1, <1>2 DEF AnsweringInv

\* Every answer shows rows of the client's own workspaces, in order, and the change
\* it was asked to make.
THEOREM AnsweringInvariant == Spec => []AnsweringInv
<1>1. RecordsInv /\ AnsweringInv /\ [Next]_vars => AnsweringInv'
  BY AnsweringStep
<1>2. QED
  BY <1>1, AnsweringStarts, RecordsInvariant, PTL DEF Spec

-----------------------------------------------------------------------------
(* What follows *)

\* Every stored record is a demo or all of what an accepted summary was, under an
\* id of its own, with nothing stored beside no record: save_record is one
\* transaction, and no handler touches what a record was made of.  It reads as what
\* it was made of exactly where the entries of its lists are lines, and not blank.
THEOREM RecordsAreWhole == Spec => []WholeRecords
<1>1. RecordsInv => WholeRecords
  BY StoredReadsBack DEF RecordsInv, StoreInv, WholeRecords
<1>2. QED
  BY <1>1, RecordsInvariant, PTL

\* No destination is handed a summary twice, however often it is published and
\* wherever the process dies, and none that is not stored.
THEOREM SendsOnceAfterSaving == Spec => []SentOnceAfterSaved
<1>1. RecordsInv => SentOnceAfterSaved
  <2> SUFFICES ASSUME RecordsInv, NEW p \in Publication, NEW i \in DOMAIN p.destinations
               PROVE  handed[p][i] <= 1 /\ (handed[p][i] = 1 => Kept(p))
    BY DEF SentOnceAfterSaved, Kept
  <2>1. handed[p][i] \in {0, 1} /\ (handed[p][i] = 1 => Kept(p))
    BY DEF RecordsInv, SendingInv
  <2>2. QED
    BY <2>1
<1>2. QED
  BY <1>1, RecordsInvariant, PTL

\* A report accounts for every destination, for any publications, capabilities and
\* deliverers, in any order of failures, crashes and repetitions of deliver.
THEOREM ReportsAreHonest == Spec => []HonestReport
<1>1. ReportingInv => HonestReport
  BY DEF ReportingInv, Reported, Told, HonestReport
<1>2. QED
  BY <1>1, ReportingInvariant, PTL

\* An answered client is shown records of workspaces of its own, whole and in
\* order, with the change it asked for, whatever other clients, publications and
\* failures come between: the change and its reading are under one lock.
THEOREM AnswersAsAsked == Spec => []AnswersShowChange
<1>1. AnsweringInv => AnswersShowChange
  BY DEF AnsweringInv, Answering, Answered, AnswersShowChange
<1>2. QED
  BY <1>1, AnsweringInvariant, PTL

\* A record changes only under the lock of a client whose token covers its
\* workspace, and no record ever goes.
THEOREM ChangesAreAuthorized == Spec => ChangesStayHome
<1> DEFINE HomeFor(r) ==
      \E s \in rows' :
        /\ s.id = r.id
        /\ s = r \/ \E c \in Client :
                      /\ lock = c
                      /\ r.workspace \in Grants[c]
                      /\ request[c].id = r.id
                      /\ s = Changed(r, request[c].op, request[c].tags)
<1>1. ASSUME RecordsInv, [Next]_vars, NEW r \in rows PROVE HomeFor(r)
  <2>1. CASE r \in rows'
    BY <2>1
  <2>2. CASE \E c \in Client : Update(c)
    <3>1. PICK c \in Client : Update(c)
      BY <2>2
    <3> DEFINE q == request[c]
               mine == InWorkspace(q.id, q.workspace)
    <3>2. /\ q.pc = "queued" /\ lock = c
          /\ rows' = (rows \ mine) \union {Changed(row, q.op, q.tags) : row \in mine}
      BY <3>1 DEF Update, Holding
    <3>3. q.workspace \in Grants[c]
      BY <1>1, <3>2 DEF RecordsInv, RequestsInv
    <3>4. CASE r \in mine
      <4>1. r.id = q.id /\ r.workspace = q.workspace
        BY <3>4 DEF InWorkspace
      <4>2. Changed(r, q.op, q.tags) \in rows'
        BY <3>2, <3>4
      <4>3. Changed(r, q.op, q.tags).id = r.id
        BY <1>1, ChangedFields DEF RecordsInv, StoreInv
      <4>4. QED
        BY <3>2, <3>3, <4>1, <4>2, <4>3
    <3>5. CASE r \notin mine
      BY <1>1, <3>2, <3>5
    <3>6. QED
      BY <3>4, <3>5
  <2>3. CASE rows \subseteq rows'
    BY <1>1, <2>1, <2>3
  <2>4. rows \subseteq rows' \/ \E c \in Client : Update(c)
    BY <1>1 DEF Next, vars, Publish, SaveRecord, SaveFails, SkipDashboard, Refuse, Dispatch,
                Report, Ask, Enter, RequestFails, Reload, ListSummaries, Create, Crash, store
  <2>5. QED
    BY <2>2, <2>3, <2>4
<1>2. RecordsInv /\ [Next]_vars => [\A r \in rows : HomeFor(r)]_vars
  BY <1>1
<1>3. QED
  BY <1>2, RecordsInvariant, PTL DEF Spec, ChangesStayHome

=============================================================================
