--------------------------- MODULE TurnTakingProofs ---------------------------
(* Proofs about the turns at Conductor's window inside one relay (UiTurns),  *)
(* for every number of calls and every length of the line, and about those   *)
(* on a voice call (VoiceTurns), for every amount of speech, typing, tools   *)
(* and lag.                                                                  *)
EXTENDS UiTurns, VoiceTurns, FiniteSetTheorems, SequenceTheorems, TLAPS

-----------------------------------------------------------------------------
(* The line *)

\* Who is served first, and of equals who came first.
Before(a, b) == a.rank < b.rank \/ (a.rank = b.rank /\ a.seq < b.seq)

\* The line q of the calls k, of whom s have come.
IsALine(q, k, s) ==
    /\ q \in Seq(Calls)
    /\ k \in [Calls -> CallRecord]
    /\ s \in Nat
    /\ \A c \in Calls : k[c].pc = "waiting" <=> \E i \in 1..Len(q) : q[i] = c
    /\ \A i, j \in 1..Len(q) : j < i => Before(k[q[j]], k[q[i]])
    /\ \A i \in 1..Len(q) : k[q[i]].seq < s

\* A set of places that reaches back to the first is as long as it is large.
LEMMA FirstOnes ==
    ASSUME NEW L \in Nat, NEW A \in SUBSET (1..L),
           \A i \in A : \A j \in 1..L : j < i => j \in A
    PROVE  /\ Cardinality(A) \in 0..L
           /\ A = 1..Cardinality(A)
<1>1. /\ IsFiniteSet(1..L)
      /\ Cardinality(1..L) = L
  BY FS_Interval
<1>2. /\ IsFiniteSet(A)
      /\ Cardinality(A) <= L
      /\ Cardinality(A) \in Nat
  BY <1>1, FS_Subset, FS_CardinalityType
<1> DEFINE n == Cardinality(A)
<1>3. ASSUME NEW i \in A
      PROVE  i <= n
  <2>1. 1..i \subseteq A /\ i \in Nat
    BY <1>3
  <2>2. Cardinality(1..i) = i
    BY <2>1, FS_Interval
  <2> QED
    BY <1>2, <2>1, <2>2, FS_Subset
<1>4. /\ IsFiniteSet(1..n)
      /\ Cardinality(1..n) = n
  BY <1>2, FS_Interval
<1>5. A \in SUBSET (1..n) /\ Cardinality(1..n) = Cardinality(A)
  BY <1>2, <1>3, <1>4
<1>6. A = 1..n
  BY <1>4, <1>5, FS_Subset, Zenon
<1> QED
  BY <1>2, <1>6

\* In a line nobody stands twice.
LEMMA OncePerLine ==
    ASSUME NEW q, NEW k, NEW s, IsALine(q, k, s),
           NEW i \in 1..Len(q), NEW j \in 1..Len(q), q[i] = q[j]
    PROVE  i = j
<1>1. Len(q) \in Nat
  BY LenProperties DEF IsALine
<1>2. \A c \in Calls : k[c].rank \in Int /\ k[c].seq \in Int
  BY DEF IsALine, CallRecord
<1>3. q[i] \in Calls
  BY ElementOfSeq DEF IsALine
<1>4. ~Before(k[q[i]], k[q[i]])
  BY <1>2, <1>3 DEF Before
<1>5. ~(j < i) /\ ~(i < j)
  BY <1>4 DEF IsALine
<1> QED
  BY <1>1, <1>5

\* There are as many who wait as places in the line.
LEMMA LineCounts ==
    ASSUME NEW q, NEW k, NEW s, IsALine(q, k, s)
    PROVE  Cardinality({c \in Calls : k[c].pc = "waiting"}) = Len(q)
<1> DEFINE W == {c \in Calls : k[c].pc = "waiting"}
           f == [i \in 1..Len(q) |-> q[i]]
<1>1. Len(q) \in Nat /\ q \in Seq(Calls)
  BY LenProperties DEF IsALine
<1>2. \A i \in 1..Len(q) : q[i] \in W
  BY <1>1, ElementOfSeq DEF IsALine
<1>3. \A c \in W : \E i \in 1..Len(q) : q[i] = c
  BY DEF IsALine
<1>4. \A i, j \in 1..Len(q) : q[i] = q[j] => i = j
  BY OncePerLine
<1>5. f \in [1..Len(q) -> W]
  BY <1>2
<1>6. \A i, j \in 1..Len(q) : f[i] = f[j] => i = j
  BY <1>4
<1>7. \A c \in W : \E i \in 1..Len(q) : f[i] = c
  BY <1>3
<1> HIDE DEF W, f
<1>8. f \in Bijection(1..Len(q), W)
  BY <1>5, <1>6, <1>7 DEF Bijection, Injection, Surjection, IsInjective
<1>9. ExistsBijection(1..Len(q), W)
  BY <1>8 DEF ExistsBijection
<1>10. /\ IsFiniteSet(1..Len(q))
       /\ Cardinality(1..Len(q)) = Len(q)
  BY <1>1, FS_Interval
<1>11. Cardinality(W) = Len(q)
  BY <1>9, <1>10, FS_Bijection
<1> QED
  BY <1>11 DEF W

\* Who joins is put behind those who are served first.
LEMMA InsertKeepsLine ==
    ASSUME NEW q, NEW k, NEW s, IsALine(q, k, s), NEW c \in Calls, NEW joined \in [Calls -> CallRecord],
           k[c].pc # "waiting", joined[c].pc = "waiting", joined[c].seq = s,
           \A d \in Calls : d # c => joined[d] = k[d]
    PROVE  /\ IsALine(Insert(q, joined, c), joined, s + 1)
           /\ Len(Insert(q, joined, c)) = Len(q) + 1
<1> DEFINE L == Len(q)
           ahead == {i \in 1..L : joined[q[i]].rank <= joined[c].rank}
           n == Cardinality(ahead)
           line == SubSeq(q, 1, n) \o <<c>> \o SubSeq(q, n + 1, L)
<1>1. /\ q \in Seq(Calls)
      /\ L \in Nat
      /\ s \in Nat
      /\ \A i \in 1..L : q[i] \in Calls
  BY LenProperties, ElementOfSeq DEF IsALine
<1>2. \A i \in 1..L : q[i] # c
  BY DEF IsALine
<1>3. \A i \in 1..L : joined[q[i]] = k[q[i]]
  BY <1>1, <1>2
<1>4. \A d \in Calls : joined[d].rank \in Int /\ joined[d].seq \in Int
  BY DEF CallRecord
<1>5. \A i, j \in 1..L : j < i => Before(joined[q[j]], joined[q[i]])
  BY <1>3 DEF IsALine
<1>6. \A i, j \in 1..L : j < i => joined[q[j]].rank <= joined[q[i]].rank
  BY <1>1, <1>4, <1>5 DEF Before
<1>7. ASSUME NEW i \in ahead, NEW j \in 1..L, j < i
      PROVE  j \in ahead
  BY <1>1, <1>4, <1>6, <1>7
<1>8. n \in 0..L /\ ahead = 1..n
  <2>1. ahead \in SUBSET (1..L)
    OBVIOUS
  <2> HIDE DEF ahead
  <2> QED
    BY <1>1, <1>7, <2>1, FirstOnes
<1>9. /\ \A i \in 1..n : joined[q[i]].rank <= joined[c].rank
      /\ \A i \in (n + 1)..L : joined[c].rank < joined[q[i]].rank
  <2>1. ASSUME NEW i \in 1..n
        PROVE  joined[q[i]].rank <= joined[c].rank
    BY <1>8
  <2>2. ASSUME NEW i \in (n + 1)..L
        PROVE  joined[c].rank < joined[q[i]].rank
    <3>1. i \in 1..L /\ i \notin 1..n
      BY <1>1, <1>8
    <3>2. i \notin ahead
      BY <1>8, <3>1, Zenon
    <3>3. ~(joined[q[i]].rank <= joined[c].rank)
      BY <3>1, <3>2
    <3> QED
      BY <1>1, <1>4, <3>1, <3>3
  <2> QED
    BY <2>1, <2>2
<1>10. Insert(q, joined, c) = line
  BY DEF Insert
<1> HIDE DEF n, L
<1>11. /\ SubSeq(q, 1, n) \in Seq(Calls)
       /\ Len(SubSeq(q, 1, n)) = n
       /\ \A i \in 1..n : SubSeq(q, 1, n)[i] = q[i]
  BY <1>1, <1>8, SubSeqProperties
<1>12. /\ SubSeq(q, n + 1, L) \in Seq(Calls)
       /\ Len(SubSeq(q, n + 1, L)) = L - n
       /\ \A i \in 1..(L - n) : SubSeq(q, n + 1, L)[i] = q[n + i]
  BY <1>1, <1>8, SubSeqProperties
<1> DEFINE back == SubSeq(q, n + 1, L)
<1>13. <<c>> \in Seq(Calls) /\ Len(<<c>>) = 1 /\ <<c>>[1] = c
  OBVIOUS
<1> DEFINE front == SubSeq(q, 1, n) \o <<c>>
<1>14. /\ front \in Seq(Calls)
       /\ Len(front) = n + 1
       /\ \A i \in 1..(n + 1) : front[i] = IF i <= n THEN q[i] ELSE c
  BY <1>8, <1>11, <1>13, ConcatProperties
<1>15. /\ back \in Seq(Calls)
       /\ Len(back) = L - n
       /\ \A i \in 1..(L - n) : back[i] = q[n + i]
  BY <1>12
<1>16. line = front \o back
  OBVIOUS
<1> HIDE DEF front, back, line
<1>17. /\ line \in Seq(Calls)
       /\ Len(line) = L + 1
       /\ \A i \in 1..(L + 1) : line[i] = IF i <= n THEN q[i] ELSE IF i = n + 1 THEN c ELSE q[i - 1]
  <2>1. /\ front \o back \in Seq(Calls)
        /\ Len(front \o back) = Len(front) + Len(back)
        /\ \A i \in 1..(Len(front) + Len(back)) :
             (front \o back)[i] = IF i <= Len(front) THEN front[i] ELSE back[i - Len(front)]
    BY <1>14, <1>15, ConcatProperties
  <2>2. /\ line \in Seq(Calls)
        /\ Len(line) = n + 1 + (L - n)
        /\ \A i \in 1..(n + 1 + (L - n)) :
             line[i] = IF i <= n + 1 THEN front[i] ELSE back[i - (n + 1)]
    BY <1>14, <1>15, <1>16, <2>1
  <2>3. n + 1 + (L - n) = L + 1
    BY <1>1, <1>8
  <2>4. ASSUME NEW i \in 1..(L + 1)
        PROVE  line[i] = IF i <= n THEN q[i] ELSE IF i = n + 1 THEN c ELSE q[i - 1]
    <3>1. CASE i <= n + 1
      BY <1>8, <1>14, <2>2, <2>3, <3>1
    <3>2. CASE ~(i <= n + 1)
      <4>1. /\ i - (n + 1) \in 1..(L - n)
            /\ n + (i - (n + 1)) = i - 1
        <5>1. n \in Nat /\ n <= L /\ L \in Nat
          BY <1>1, <1>8
        <5>2. i \in Nat /\ i <= L + 1 /\ n + 1 < i
          BY <2>4, <3>2, <5>1
        <5> QED
          BY <5>1, <5>2
      <4> QED
        BY <1>8, <1>15, <2>2, <2>3, <3>2, <4>1
    <3> QED
      BY <3>1, <3>2
  <2> QED
    BY <2>2, <2>3, <2>4
<1> HIDE DEF ahead
<1>18. ASSUME NEW i \in 1..(L + 1), NEW j \in 1..(L + 1), j < i
       PROVE  Before(joined[line[j]], joined[line[i]])
  <2>1. CASE i <= n
    <3>1. /\ i \in 1..L
          /\ j \in 1..L
          /\ line[i] = q[i]
          /\ line[j] = q[j]
      <4>1. /\ i \in 1..L
            /\ j \in 1..L
            /\ j <= n
        BY <1>1, <1>8, <1>18, <2>1
      <4>2. line[i] = q[i]
        BY <1>17, <2>1
      <4>3. line[j] = q[j]
        BY <1>17, <4>1
      <4> QED
        BY <4>1, <4>2, <4>3
    <3> QED
      BY <1>5, <1>18, <3>1
  <2>2. CASE i = n + 1
    <3>1. j \in 1..n /\ line[j] = q[j] /\ line[i] = c
      <4>1. j \in 1..n /\ j <= n /\ ~(i <= n)
        BY <1>1, <1>8, <1>18, <2>2
      <4>2. line[j] = q[j]
        BY <1>17, <4>1
      <4>3. line[i] = c
        BY <1>17, <2>2, <4>1
      <4> QED
        BY <4>1, <4>2, <4>3
    <3>2. joined[q[j]].rank <= joined[c].rank /\ j \in 1..L
      BY <1>1, <1>8, <1>9, <3>1
    <3>3. joined[q[j]].seq < joined[c].seq
      BY <1>3, <3>2 DEF IsALine, L
    <3> QED
      BY <1>1, <1>4, <3>1, <3>2, <3>3 DEF Before
  <2>3. CASE i > n + 1
    <3>1. i - 1 \in (n + 1)..L /\ i - 1 \in 1..L /\ line[i] = q[i - 1]
      <4>1. /\ i - 1 \in (n + 1)..L
            /\ i - 1 \in 1..L
            /\ ~(i <= n)
            /\ i # n + 1
        BY <1>1, <1>8, <1>18, <2>3
      <4>2. line[i] = q[i - 1]
        BY <1>17, <4>1
      <4> QED
        BY <4>1, <4>2
    <3>2. CASE j <= n
      <4>1. j \in 1..L /\ j < i - 1
        BY <1>1, <1>8, <1>18, <2>3, <3>2
      <4>2. line[j] = q[j]
        BY <1>17, <3>2
      <4> QED
        BY <1>5, <3>1, <4>1, <4>2
    <3>3. CASE j = n + 1
      <4>1. line[j] = c
        BY <1>8, <1>17, <1>18, <3>3
      <4>2. joined[c].rank < joined[q[i - 1]].rank
        BY <1>9, <3>1
      <4> QED
        BY <3>1, <4>1, <4>2 DEF Before
    <3>4. CASE j > n + 1
      <4>1. j - 1 \in 1..L /\ line[j] = q[j - 1] /\ j - 1 < i - 1
        <5>1. /\ j - 1 \in 1..L
              /\ j - 1 < i - 1
              /\ ~(j <= n)
              /\ j # n + 1
          BY <1>1, <1>8, <1>18, <3>4
        <5>2. line[j] = q[j - 1]
          BY <1>17, <5>1
        <5> QED
          BY <5>1, <5>2
      <4> QED
        BY <1>5, <3>1, <4>1
    <3> QED
      BY <1>8, <3>2, <3>3, <3>4
  <2> QED
    BY <1>8, <2>1, <2>2, <2>3
<1>19. ASSUME NEW d \in Calls
       PROVE  joined[d].pc = "waiting" <=> \E i \in 1..(L + 1) : line[i] = d
  <2>1. CASE d = c
    <3>1. n + 1 \in 1..(L + 1) /\ line[n + 1] = c
      BY <1>1, <1>8, <1>17
    <3> QED
      BY <2>1, <3>1
  <2>2. CASE d # c
    <3>1. joined[d].pc = "waiting" <=> \E i \in 1..L : q[i] = d
      BY <2>2 DEF IsALine, L
    <3>2. ASSUME NEW i \in 1..L, q[i] = d
          PROVE  \E m \in 1..(L + 1) : line[m] = d
      <4>1. CASE i <= n
        BY <1>1, <1>8, <1>17, <3>2, <4>1
      <4>2. CASE i > n
        <5>1. i + 1 \in 1..(L + 1) /\ line[i + 1] = q[i]
          BY <1>1, <1>8, <1>17, <3>2, <4>2
        <5> QED
          BY <3>2, <5>1
      <4> QED
        BY <1>8, <4>1, <4>2
    <3>3. ASSUME NEW m \in 1..(L + 1), line[m] = d
          PROVE  \E i \in 1..L : q[i] = d
      <4>1. CASE m <= n
        BY <1>1, <1>8, <1>17, <3>3, <4>1
      <4>2. CASE m > n + 1
        <5>1. m - 1 \in 1..L /\ q[m - 1] = d
          BY <1>1, <1>8, <1>17, <3>3, <4>2
        <5> QED
          BY <5>1
      <4> QED
        BY <1>8, <1>17, <2>2, <3>3, <4>1, <4>2
    <3> QED
      BY <3>1, <3>2, <3>3
  <2> QED
    BY <2>1, <2>2
<1>20. ASSUME NEW i \in 1..(L + 1)
       PROVE  joined[line[i]].seq < s + 1
  <2>1. CASE i = n + 1
    BY <1>1, <1>8, <1>17, <2>1
  <2>2. CASE i # n + 1
    <3>1. PICK m \in 1..L : line[i] = q[m]
      <4>1. CASE i <= n
        BY <1>1, <1>8, <1>17, <4>1
      <4>2. CASE i > n + 1
        BY <1>1, <1>8, <1>17, <4>2
      <4> QED
        BY <1>8, <2>2, <4>1, <4>2
    <3>2. joined[q[m]].seq < s
      BY <1>3 DEF IsALine, L
    <3> QED
      BY <1>1, <1>4, <3>1, <3>2
  <2> QED
    BY <2>1, <2>2
<1> QED
  BY <1>1, <1>10, <1>17, <1>18, <1>19, <1>20 DEF IsALine, L

\* Who is served leaves the others in line.
LEMMA TailKeepsLine ==
    ASSUME NEW q, NEW k, NEW s, IsALine(q, k, s), q # <<>>, NEW served \in [Calls -> CallRecord],
           served[Head(q)].pc # "waiting",
           \A d \in Calls : d # Head(q) => served[d] = k[d]
    PROVE  IsALine(Tail(q), served, s) /\ Len(Tail(q)) = Len(q) - 1
<1> DEFINE rest == Tail(q)
           h == Head(q)
           L == Len(q)
<1>1. /\ q \in Seq(Calls)
      /\ s \in Nat
      /\ L \in Nat
      /\ \A i \in 1..L : q[i] \in Calls
  BY LenProperties, ElementOfSeq DEF IsALine
<1>2. /\ h \in Calls
      /\ rest \in Seq(Calls)
      /\ Len(rest) = L - 1
      /\ \A i \in 1..(L - 1) : rest[i] = q[i + 1]
      /\ L # 0
      /\ h = q[1]
  BY <1>1, HeadTailProperties, EmptySeq
<1> HIDE DEF rest, h
<1>3. \A d \in Calls : d # h => served[d] = k[d]
  BY DEF h
<1>4. served[h].pc # "waiting"
  BY DEF h
<1>5. \A i \in 1..(L - 1) : i + 1 \in 1..L /\ q[i + 1] # h
  <2> SUFFICES ASSUME NEW i \in 1..(L - 1)
               PROVE  i + 1 \in 1..L /\ q[i + 1] # h
    OBVIOUS
  <2>1. 1 \in 1..L /\ i + 1 \in 1..L /\ i + 1 # 1
    BY <1>1
  <2> QED
    BY <1>2, <2>1, OncePerLine
<1>6. \A i \in 1..(L - 1) : served[rest[i]] = k[q[i + 1]] /\ rest[i] = q[i + 1]
  BY <1>1, <1>2, <1>3, <1>5
<1>7. ASSUME NEW d \in Calls
      PROVE  served[d].pc = "waiting" <=> \E i \in 1..(L - 1) : rest[i] = d
  <2>1. CASE d = h
    BY <1>4, <1>5, <1>6, <2>1
  <2>2. CASE d # h
    <3>1. served[d].pc = "waiting" <=> \E i \in 1..L : q[i] = d
      BY <1>3, <2>2 DEF IsALine
    <3>2. ASSUME NEW i \in 1..L, q[i] = d
          PROVE  \E m \in 1..(L - 1) : rest[m] = d
      <4>1. i # 1
        BY <1>2, <2>2, <3>2
      <4>2. i - 1 \in 1..(L - 1) /\ (i - 1) + 1 = i
        BY <1>1, <4>1
      <4> QED
        BY <1>6, <3>2, <4>2
    <3>3. ASSUME NEW m \in 1..(L - 1), rest[m] = d
          PROVE  \E i \in 1..L : q[i] = d
      BY <1>5, <1>6, <3>3
    <3> QED
      BY <3>1, <3>2, <3>3
  <2> QED
    BY <2>1, <2>2
<1>8. ASSUME NEW i \in 1..(L - 1), NEW j \in 1..(L - 1), j < i
      PROVE  Before(served[rest[j]], served[rest[i]])
  <2>1. j + 1 \in 1..L /\ i + 1 \in 1..L /\ j + 1 < i + 1
    BY <1>1, <1>8
  <2> QED
    BY <1>6, <2>1 DEF IsALine
<1>9. \A i \in 1..(L - 1) : served[rest[i]].seq < s
  BY <1>5, <1>6 DEF IsALine
<1> HIDE DEF L
<1>10. IsALine(rest, served, s) /\ Len(rest) = L - 1
  BY <1>1, <1>2, <1>7, <1>8, <1>9 DEF IsALine
<1> QED
  BY <1>10 DEF rest, L

\* A step of a call that is not in line leaves the line as it is.
LEMMA SameLine ==
    ASSUME NEW q, NEW k, NEW s, IsALine(q, k, s), NEW other \in [Calls -> CallRecord],
           \A d \in Calls : other[d] = k[d] \/ (k[d].pc # "waiting" /\ other[d].pc # "waiting")
    PROVE  IsALine(q, other, s)
<1>1. \A i \in 1..Len(q) : q[i] \in Calls /\ k[q[i]].pc = "waiting"
  BY ElementOfSeq DEF IsALine
<1>2. \A i \in 1..Len(q) : other[q[i]] = k[q[i]]
  BY <1>1
<1> QED
  BY <1>2 DEF IsALine

-----------------------------------------------------------------------------
(* The turns *)

\* One turn runs while the lock is taken, and nobody waits for a free one.
OneTurn ==
    /\ uiRunning => \E t \in Calls : InTurn = {t}
    /\ ~uiRunning => InTurn = {} /\ uiWaiting = <<>>

\* The lease is held by whoever is about to touch the window, or does.
Leased ==
    \A c \in Calls :
        /\ call[c].pc \in {"started", "operating"} => holder = c
        /\ call[c].pc = "operating" /\ c \in Effects => call[c].fired = "yes"

\* Who has not asked yet has had no turn.
Untried == \A c \in Calls : call[c].pc = "idle" => call[c].turns = 0

TurnsIInv ==
    /\ uiRunning \in BOOLEAN
    /\ holder \in Calls \cup {None, Other}
    /\ IsALine(uiWaiting, call, uiSeq)
    /\ Len(uiWaiting) <= MAX_UI_QUEUE
    /\ OneTurn
    /\ Leased
    /\ Untried

TurnPcs == {"started", "operating", "ended"}

\* The lock passes on, when no turn runs.
LEMMA PumpKeeps ==
    ASSUME TurnsIInv, NEW q, NEW k, uiSeq' \in Nat, IsALine(q, k, uiSeq'), Len(q) <= MAX_UI_QUEUE,
           \A c \in Calls : k[c].pc \notin TurnPcs,
           \A c \in Calls : k[c].pc = "idle" => k[c].turns = 0,
           PumpUi(q, k)
    PROVE  TurnsIInv'
<1> USE DEF TurnsIInv
<1>1. CASE q = <<>>
  <2>1. uiRunning' = FALSE /\ uiWaiting' = q /\ call' = k /\ holder' = holder
    BY <1>1 DEF PumpUi
  <2>2. InTurn' = {}
    BY <2>1 DEF InTurn, TurnPcs
  <2>3. IsALine(uiWaiting', call', uiSeq')
    BY <2>1
  <2> QED
    BY <1>1, <2>1, <2>2, <2>3 DEF OneTurn, Leased, TurnPcs, Untried
<1>2. CASE q # <<>>
  <2> DEFINE n == Head(q)
             leased == holder \in {None, n}
             pc == IF leased THEN "started" ELSE "ended"
             why == IF leased THEN "none" ELSE Refusal(holder)
             turn == [k[n] EXCEPT !.pc = pc, !.why = why]
             served == [k EXCEPT ![n] = turn]
  <2>1. /\ uiRunning' = TRUE
        /\ uiWaiting' = Tail(q)
        /\ holder' = IF leased THEN n ELSE holder
        /\ call' = [k EXCEPT ![n].pc = pc, ![n].why = why]
    BY <1>2 DEF PumpUi
  <2>2. /\ n \in Calls
        /\ k \in [Calls -> CallRecord]
    BY <1>2, HeadTailProperties DEF IsALine
  <2>3. pc \in {"started", "ended"} /\ why \in Reasons /\ (pc = "started" => leased)
    BY DEF Refusal, Reasons
  <2>4. call' = served
    BY <2>1, <2>2
  <2> HIDE DEF pc, why
  <2>5. /\ turn \in CallRecord
        /\ turn.pc = pc
    BY <2>2, <2>3 DEF CallRecord, Pcs
  <2> HIDE DEF turn
  <2>6. /\ served \in [Calls -> CallRecord]
        /\ served[n] = turn
        /\ \A d \in Calls : d # n => served[d] = k[d]
    BY <2>2, <2>5
  <2> HIDE DEF served
  <2>7. IsALine(Tail(q), served, uiSeq') /\ Len(Tail(q)) = Len(q) - 1
    BY <1>2, <2>3, <2>5, <2>6, TailKeepsLine
  <2>8. IsALine(uiWaiting', call', uiSeq')
    BY <2>1, <2>4, <2>7
  <2>9. Len(uiWaiting') <= MAX_UI_QUEUE
    <3>1. Len(q) \in Nat
      BY LenProperties DEF IsALine
    <3> QED
      BY <2>1, <2>7, <3>1, TurnsAssumption
  <2>10. InTurn' = {n}
    BY <2>2, <2>3, <2>4, <2>5, <2>6 DEF InTurn, TurnPcs
  <2>11. OneTurn'
    BY <2>1, <2>2, <2>10 DEF OneTurn
  <2>12. Leased'
    BY <2>1, <2>2, <2>3, <2>4, <2>5, <2>6 DEF Leased, TurnPcs
  <2>13. holder' \in Calls \cup {None, Other}
    BY <2>1, <2>2
  <2>14. Untried'
    BY <2>2, <2>3, <2>4, <2>5, <2>6 DEF Untried
  <2> QED
    BY <2>1, <2>8, <2>9, <2>11, <2>12, <2>13, <2>14
<1> QED
  BY <1>1, <1>2

LEMMA TurnsStart == Init => TurnsIInv
<1> SUFFICES ASSUME Init
             PROVE  TurnsIInv
  OBVIOUS
<1>1. \A c \in Calls : call[c].pc = "idle"
  BY DEF Init
<1>2. call \in [Calls -> CallRecord]
  BY TurnsAssumption DEF Init, CallRecord, Pcs, Reasons
<1>3. IsALine(uiWaiting, call, uiSeq)
  BY <1>1, <1>2 DEF Init, IsALine
<1>4. InTurn = {}
  BY <1>1 DEF InTurn
<1>5. OneTurn /\ Leased /\ Untried
  BY <1>1, <1>4 DEF Init, OneTurn, Leased, Untried
<1>6. uiWaiting = <<>> /\ uiRunning = FALSE /\ holder = None
  BY DEF Init
<1>7. Len(uiWaiting) <= MAX_UI_QUEUE
  BY <1>6, TurnsAssumption
<1> QED
  BY <1>3, <1>5, <1>6, <1>7 DEF TurnsIInv

\* A caller is refused, or joins the line.
LEMMA UiTurnKeeps ==
    ASSUME TurnsIInv, NEW c \in Calls, NEW rank \in {0, 1},
           call[c].pc = "idle" \/ (call[c].pc = "between" /\ call[c].turns < MaxTurns),
           UiTurn(c, rank)
    PROVE  TurnsIInv'
<1> USE DEF TurnsIInv
<1> DEFINE asked == [call EXCEPT ![c].rank = rank, ![c].why = "none", ![c].turns = @ + 1]
           ask == [call[c] EXCEPT !.rank = rank, !.why = "none", !.turns = @ + 1]
           joined == [asked EXCEPT ![c].pc = "waiting", ![c].seq = uiSeq]
           join == [ask EXCEPT !.pc = "waiting", !.seq = uiSeq]
           away == IF c \in Effects THEN "between" ELSE "done"
           turn == [ask EXCEPT !.pc = away, !.why = "full"]
           line == Insert(uiWaiting, joined, c)
<1>1. /\ call \in [Calls -> CallRecord]
      /\ call[c] \in CallRecord
      /\ uiSeq \in Nat
  BY DEF IsALine
<1>2. ask \in CallRecord
  <2>1. call[c].turns + 1 \in 0..MaxTurns
    BY <1>1, TurnsAssumption DEF CallRecord, Untried
  <2> QED
    BY <1>1, <2>1 DEF CallRecord, Reasons
<1>3. asked = [call EXCEPT ![c] = ask]
  BY <1>1
<1> HIDE DEF ask
<1>4. /\ join \in CallRecord
      /\ join.pc = "waiting"
      /\ join.seq = uiSeq
      /\ turn \in CallRecord
      /\ turn.pc = away
  BY <1>1, <1>2 DEF CallRecord, Pcs, Reasons
<1>5. joined = [call EXCEPT ![c] = join]
  BY <1>1, <1>3
<1>6. [asked EXCEPT ![c].pc = away, ![c].why = "full"] = [call EXCEPT ![c] = turn]
  BY <1>1, <1>3
<1>7. \/ /\ call' = [asked EXCEPT ![c].pc = away, ![c].why = "full"]
         /\ UNCHANGED <<uiRunning, uiWaiting, uiSeq, holder>>
      \/ /\ Len(uiWaiting) < MAX_UI_QUEUE
         /\ uiSeq' = uiSeq + 1
         /\ uiRunning
         /\ uiWaiting' = line
         /\ call' = joined
         /\ UNCHANGED <<uiRunning, holder>>
      \/ /\ Len(uiWaiting) < MAX_UI_QUEUE
         /\ uiSeq' = uiSeq + 1
         /\ ~uiRunning
         /\ PumpUi(line, joined)
  <2>1. Len(uiWaiting) \in Nat
    BY LenProperties DEF IsALine
  <2>2. Len(uiWaiting) >= MAX_UI_QUEUE \/ Len(uiWaiting) < MAX_UI_QUEUE
    BY <2>1, TurnsAssumption
  <2>3. \/ /\ Len(uiWaiting) >= MAX_UI_QUEUE
           /\ call' = [asked EXCEPT ![c].pc = away, ![c].why = "full"]
           /\ UNCHANGED <<uiRunning, uiWaiting, uiSeq, holder>>
        \/ /\ ~(Len(uiWaiting) >= MAX_UI_QUEUE)
           /\ uiSeq' = uiSeq + 1
           /\ \/ /\ uiRunning
                 /\ uiWaiting' = line
                 /\ call' = joined
                 /\ UNCHANGED <<uiRunning, holder>>
              \/ ~uiRunning /\ PumpUi(line, joined)
    BY Zenon DEF UiTurn
  <2> HIDE DEF line, joined, asked, away
  <2> QED
    BY <2>2, <2>3
<1> HIDE DEF asked, joined, join, turn
<1>8. CASE /\ call' = [asked EXCEPT ![c].pc = away, ![c].why = "full"]
           /\ UNCHANGED <<uiRunning, uiWaiting, uiSeq, holder>>
  <2>1. /\ call' \in [Calls -> CallRecord]
        /\ call'[c] = turn
        /\ \A d \in Calls : d # c => call'[d] = call[d]
    BY <1>1, <1>4, <1>6, <1>8
  <2>2. IsALine(uiWaiting, call', uiSeq)
    BY <1>4, <2>1, SameLine
  <2>3. InTurn' = InTurn
    BY <1>4, <2>1 DEF InTurn
  <2>4. Leased' /\ Untried'
    BY <1>4, <1>8, <2>1 DEF Leased, Untried
  <2>5. OneTurn'
    BY <1>8, <2>3 DEF OneTurn
  <2>6. IsALine(uiWaiting', call', uiSeq')
    BY <1>8, <2>2
  <2> QED
    BY <1>8, <2>4, <2>5, <2>6
<1>9. /\ joined \in [Calls -> CallRecord]
      /\ joined[c] = join
      /\ \A d \in Calls : d # c => joined[d] = call[d]
  BY <1>1, <1>4, <1>5
<1>10. /\ IsALine(line, joined, uiSeq + 1)
       /\ Len(line) = Len(uiWaiting) + 1
  BY <1>4, <1>9, InsertKeepsLine
<1> HIDE DEF line
<1>11. Len(uiWaiting) < MAX_UI_QUEUE => Len(line) <= MAX_UI_QUEUE
  <2>1. Len(uiWaiting) \in Nat
    BY LenProperties DEF IsALine
  <2> QED
    BY <1>10, <2>1, TurnsAssumption
<1>12. CASE /\ Len(uiWaiting) < MAX_UI_QUEUE
            /\ uiSeq' = uiSeq + 1
            /\ uiRunning
            /\ uiWaiting' = line
            /\ call' = joined
            /\ UNCHANGED <<uiRunning, holder>>
  <2>1. IsALine(uiWaiting', call', uiSeq')
    BY <1>10, <1>12
  <2>2. InTurn' = InTurn
    BY <1>4, <1>9, <1>12 DEF InTurn
  <2>3. Leased' /\ Untried'
    BY <1>4, <1>9, <1>12 DEF Leased, Untried
  <2>4. OneTurn'
    BY <1>12, <2>2 DEF OneTurn
  <2> QED
    BY <1>11, <1>12, <2>1, <2>3, <2>4
<1>13. CASE /\ Len(uiWaiting) < MAX_UI_QUEUE
            /\ uiSeq' = uiSeq + 1
            /\ ~uiRunning
            /\ PumpUi(line, joined)
  <2>1. \A d \in Calls : call[d].pc \notin TurnPcs
    BY <1>13 DEF OneTurn, InTurn, TurnPcs
  <2>2. \A d \in Calls : joined[d].pc \notin TurnPcs
    BY <2>1, <1>4, <1>9 DEF TurnPcs
  <2>3. uiSeq' \in Nat /\ IsALine(line, joined, uiSeq')
    BY <1>1, <1>10, <1>13
  <2>4. \A d \in Calls : joined[d].pc = "idle" => joined[d].turns = 0
    BY <1>4, <1>9 DEF Untried
  <2> QED
    BY <1>11, <1>13, <2>2, <2>3, <2>4, PumpKeeps
<1> QED
  BY <1>7, <1>8, <1>12, <1>13

\* A call in its turn, or an effect between its turns, goes on.
LEMMA GoesOnKeeps ==
    ASSUME TurnsIInv, NEW c \in Calls, NEW turn \in CallRecord, turn.pc \notin {"waiting", "idle"},
           call[c].pc # "waiting", turn.pc \in TurnPcs <=> call[c].pc \in TurnPcs,
           turn.pc \in {"started", "operating"} => holder = c,
           turn.pc = "operating" /\ c \in Effects => turn.fired = "yes",
           call' = [call EXCEPT ![c] = turn],
           holder' = holder \/ \A d \in Calls : call'[d].pc \notin {"started", "operating"},
           holder' \in Calls \cup {None, Other},
           UNCHANGED <<uiRunning, uiWaiting, uiSeq>>
    PROVE  TurnsIInv'
<1> USE DEF TurnsIInv
<1>1. /\ call' \in [Calls -> CallRecord]
      /\ call'[c] = turn
      /\ \A d \in Calls : d # c => call'[d] = call[d]
  BY DEF IsALine
<1>2. IsALine(uiWaiting', call', uiSeq')
  BY <1>1, SameLine
<1>3. InTurn' = InTurn
  BY <1>1 DEF InTurn, TurnPcs
<1>4. Leased' /\ Untried'
  BY <1>1 DEF Leased, Untried
<1>5. OneTurn'
  BY <1>3 DEF OneTurn
<1> QED
  BY <1>2, <1>4, <1>5

LEMMA TurnsStep == TurnsIInv /\ [Next]_vars => TurnsIInv'
<1> SUFFICES ASSUME TurnsIInv, [Next]_vars
             PROVE  TurnsIInv'
  OBVIOUS
<1> USE DEF TurnsIInv
<1>1. call \in [Calls -> CallRecord] /\ \A c \in Calls : call[c] \in CallRecord
  BY DEF IsALine
<1>2. ASSUME NEW c \in Plain, PlainCall(c)
      PROVE  TurnsIInv'
  <2>1. PICK rank \in {0, 1} : UiTurn(c, rank)
    BY <1>2 DEF PlainCall
  <2>2. c \in Calls /\ call[c].pc = "idle"
    BY <1>2 DEF PlainCall, Calls
  <2> QED
    BY <2>1, <2>2, UiTurnKeeps
<1>3. ASSUME NEW e \in Effects, EffectCall(e)
      PROVE  TurnsIInv'
  <2>1. e \in Calls
    BY DEF Calls
  <2> QED
    BY <1>3, <2>1, UiTurnKeeps DEF EffectCall
<1>4. ASSUME NEW e \in Effects, EffectEnds(e)
      PROVE  TurnsIInv'
  <2> DEFINE turn == [call[e] EXCEPT !.pc = "done"]
  <2>1. e \in Calls /\ call[e].pc = "between"
    BY <1>4 DEF EffectEnds, Calls
  <2>2. turn \in CallRecord /\ turn.pc = "done"
    BY <1>1, <2>1 DEF CallRecord, Pcs
  <2>3. call' = [call EXCEPT ![e] = turn]
    BY <1>1, <1>4 DEF EffectEnds
  <2>4. /\ holder' \in Calls \cup {None, Other}
        /\ holder' = holder \/ holder = e
        /\ UNCHANGED <<uiRunning, uiWaiting, uiSeq>>
    BY <1>4 DEF EffectEnds
  <2> HIDE DEF turn
  <2>5. /\ call'[e] = turn
        /\ \A d \in Calls : d # e => call'[d] = call[d]
    BY <1>1, <2>1, <2>3
  <2>6. holder' = holder \/ \A d \in Calls : call'[d].pc \notin {"started", "operating"}
    BY <2>1, <2>2, <2>4, <2>5 DEF Leased
  <2>7. turn.pc \in TurnPcs <=> call[e].pc \in TurnPcs
    BY <2>1, <2>2 DEF TurnPcs
  <2> QED
    BY <2>1, <2>2, <2>3, <2>4, <2>6, <2>7, GoesOnKeeps
<1>5. ASSUME NEW c \in Calls, BeginOperation(c)
      PROVE  TurnsIInv'
  <2>1. PICK fired \in {"no", "yes", "failed"}, marked \in BOOLEAN :
          /\ c \in Effects => fired # "no"
          /\ call' = [call EXCEPT ![c].fired = fired,
                                  ![c].pc = IF marked /\ fired # "failed" THEN "operating" ELSE "ended",
                                  ![c].why = IF marked /\ fired # "failed" THEN "none" ELSE "failed"]
    <3> DEFINE hook == IF c \in Plain THEN {"no"}
                       ELSE IF call[c].fired = "no" THEN {"yes", "failed"} ELSE {call[c].fired}
    <3>1. PICK fired \in hook, marked \in BOOLEAN :
            call' = [call EXCEPT ![c].fired = fired,
                                 ![c].pc = IF marked /\ fired # "failed" THEN "operating" ELSE "ended",
                                 ![c].why = IF marked /\ fired # "failed" THEN "none" ELSE "failed"]
      BY <1>5 DEF BeginOperation
    <3>2. call[c].fired \in {"no", "yes", "failed"}
      BY <1>1 DEF CallRecord
    <3>3. fired \in {"no", "yes", "failed"} /\ (c \in Effects => fired # "no")
      BY <3>2, TurnsAssumption
    <3> QED
      BY <3>1, <3>3
  <2> DEFINE pc == IF marked /\ fired # "failed" THEN "operating" ELSE "ended"
             why == IF marked /\ fired # "failed" THEN "none" ELSE "failed"
             turn == [call[c] EXCEPT !.fired = fired, !.pc = pc, !.why = why]
  <2>2. /\ pc \in {"operating", "ended"}
        /\ why \in Reasons
        /\ (pc = "operating" => fired # "failed")
    BY DEF Reasons
  <2>3. call' = [call EXCEPT ![c] = turn]
    BY <1>1, <2>1
  <2>4. UNCHANGED <<uiRunning, uiWaiting, uiSeq, holder>> /\ call[c].pc = "started"
    BY <1>5 DEF BeginOperation
  <2> HIDE DEF pc, why
  <2>5. turn \in CallRecord /\ turn.pc = pc /\ turn.fired = fired
    BY <1>1, <2>2 DEF CallRecord, Pcs
  <2> HIDE DEF turn
  <2>6. holder = c
    BY <2>4 DEF Leased
  <2>7. turn.pc = "operating" /\ c \in Effects => turn.fired = "yes"
    BY <2>1, <2>2, <2>5
  <2>8. turn.pc \in TurnPcs /\ call[c].pc \in TurnPcs /\ turn.pc \notin {"waiting", "idle"}
    BY <2>2, <2>4, <2>5 DEF TurnPcs
  <2> QED
    BY <2>3, <2>4, <2>5, <2>6, <2>7, <2>8, GoesOnKeeps
<1>6. ASSUME NEW c \in Calls, EndOperation(c)
      PROVE  TurnsIInv'
  <2> DEFINE turn == [call[c] EXCEPT !.pc = "ended"]
  <2>1. /\ call[c].pc = "operating"
        /\ UNCHANGED <<uiRunning, uiWaiting, uiSeq, holder>>
    BY <1>6 DEF EndOperation
  <2>2. turn \in CallRecord /\ turn.pc = "ended"
    BY <1>1 DEF CallRecord, Pcs
  <2>3. call' = [call EXCEPT ![c] = turn]
    BY <1>1, <1>6 DEF EndOperation
  <2> HIDE DEF turn
  <2>4. turn.pc \in TurnPcs <=> call[c].pc \in TurnPcs
    BY <2>1, <2>2 DEF TurnPcs
  <2> QED
    BY <2>1, <2>2, <2>3, <2>4, GoesOnKeeps
<1>7. ASSUME NEW c \in Calls, ReleaseLease(c)
      PROVE  TurnsIInv'
  <2>1. /\ call[c].pc = "ended"
        /\ holder = c
        /\ holder' = None
        /\ UNCHANGED <<uiRunning, uiWaiting, uiSeq, call>>
    BY <1>7 DEF ReleaseLease
  <2>2. \A d \in Calls : call[d].pc \notin {"started", "operating"}
    BY <2>1 DEF Leased
  <2> QED
    BY <2>1, <2>2 DEF IsALine, OneTurn, Leased, InTurn, Untried
<1>8. ASSUME NEW c \in Calls, Settle(c)
      PROVE  TurnsIInv'
  <2> DEFINE away == IF c \in Effects THEN "between" ELSE "done"
             turn == [call[c] EXCEPT !.pc = away]
             k == [call EXCEPT ![c].pc = away]
  <2>1. /\ call[c].pc = "ended"
        /\ PumpUi(uiWaiting, k)
        /\ uiSeq' = uiSeq
    BY <1>8 DEF Settle
  <2>2. turn \in CallRecord /\ turn.pc \in {"between", "done"}
    BY <1>1 DEF CallRecord, Pcs
  <2>3. k = [call EXCEPT ![c] = turn]
    BY <1>1
  <2> HIDE DEF turn, k
  <2>4. /\ k \in [Calls -> CallRecord]
        /\ k[c] = turn
        /\ \A d \in Calls : d # c => k[d] = call[d]
    BY <1>1, <2>2, <2>3
  <2>5. IsALine(uiWaiting, k, uiSeq') /\ uiSeq' \in Nat
    <3>1. IsALine(uiWaiting, k, uiSeq) /\ uiSeq \in Nat
      <4>1. IsALine(uiWaiting, call, uiSeq) /\ uiSeq \in Nat
        BY DEF IsALine
      <4>2. \A d \in Calls : k[d] = call[d] \/ (call[d].pc # "waiting" /\ k[d].pc # "waiting")
        BY <2>1, <2>2, <2>4
      <4> QED
        BY <2>4, <4>1, <4>2, SameLine
    <3> QED
      BY <2>1, <3>1
  <2>6. c \in InTurn
    BY <2>1 DEF InTurn
  <2>7. \A d \in Calls : d # c => d \notin InTurn
    BY <2>6 DEF OneTurn
  <2>8. \A d \in Calls : k[d].pc \notin TurnPcs
    BY <2>2, <2>4, <2>7 DEF InTurn, TurnPcs
  <2>9. \A d \in Calls : k[d].pc = "idle" => k[d].turns = 0
    BY <2>2, <2>4 DEF Untried
  <2> QED
    BY <2>1, <2>5, <2>8, <2>9, PumpKeeps
<1>9. CASE OtherHolds
  <2>1. /\ holder \in {None, Other}
        /\ holder' \in {None, Other}
        /\ UNCHANGED <<uiRunning, uiWaiting, uiSeq, call>>
    BY <1>9 DEF OtherHolds
  <2>2. \A d \in Calls : call[d].pc \notin {"started", "operating"}
    BY <2>1, TurnsAssumption DEF Leased
  <2> QED
    BY <2>1, <2>2 DEF IsALine, OneTurn, Leased, InTurn, Untried
<1>10. CASE UNCHANGED vars
  BY <1>10 DEF vars, IsALine, OneTurn, Leased, InTurn, Untried
<1> QED
  BY <1>2, <1>3, <1>4, <1>5, <1>6, <1>7, <1>8, <1>9, <1>10 DEF Next, TurnProgress

\* The line and the turns are in order in every state.
THEOREM TurnsAreInOrder == Spec => []TurnsIInv
<1> QED
  BY TurnsStart, TurnsStep, PTL DEF Spec

\* The lock is taken exactly while one turn runs, nobody waits for a free one,
\* and the line is bounded, holds each waiting call once and is ordered by rank
\* and arrival (ui-lock.ts: the person wins).
THEOREM LineStaysFair == Spec => []LineIsFair
<1>1. TurnsIInv => LineIsFair
  <2> SUFFICES ASSUME TurnsIInv
               PROVE  LineIsFair
    OBVIOUS
  <2>1. Cardinality(InTurn) = IF uiRunning THEN 1 ELSE 0
    BY FS_EmptySet, FS_Singleton DEF TurnsIInv, OneTurn
  <2>2. Cardinality({c \in Calls : call[c].pc = "waiting"}) = Len(uiWaiting)
    BY LineCounts DEF TurnsIInv
  <2>3. Len(uiWaiting) \in Nat
    BY LenProperties DEF TurnsIInv, IsALine
  <2>4. ASSUME NEW i \in 1..Len(uiWaiting), NEW j \in 1..(i - 1)
        PROVE  Before(call[uiWaiting[j]], call[uiWaiting[i]])
    <3>1. j \in 1..Len(uiWaiting) /\ j < i
      BY <2>3
    <3> QED
      BY <3>1 DEF TurnsIInv, IsALine
  <2>5. \A i \in 1..Len(uiWaiting) : call[uiWaiting[i]].pc = "waiting"
    BY ElementOfSeq DEF TurnsIInv, IsALine
  <2> QED
    BY <2>1, <2>2, <2>4, <2>5 DEF LineIsFair, Before, TurnsIInv, OneTurn
<1> QED
  BY <1>1, TurnsAreInOrder, PTL

\* The window is touched under the shared lease only, and by an effect only after
\* its dispatch was recorded.
THEOREM OperationsAreLeased == Spec => []OperatingIsLeased
<1>1. TurnsIInv => OperatingIsLeased
  BY DEF TurnsIInv, Leased, OperatingIsLeased
<1> QED
  BY <1>1, TurnsAreInOrder, PTL

\* What a step may do to the lease that an effect has.
LeaseStays ==
    \A e \in Effects : holder = e /\ holder' # e => call[e].pc = "between" /\ call'[e].pc = "done"

LEMMA StepKeepsLease == ASSUME TurnsIInv, [Next]_vars PROVE LeaseStays
<1> SUFFICES ASSUME NEW e \in Effects, holder = e, holder' # e
             PROVE  call[e].pc = "between" /\ call'[e].pc = "done"
  BY DEF LeaseStays
<1>1. e \in Calls /\ e \notin Plain /\ e \notin {None, Other}
  BY TurnsAssumption DEF Calls
<1>2. \A q, k : PumpUi(q, k) => holder' = holder \/ (holder' = Head(q) /\ holder \in {None, Head(q)})
  BY DEF PumpUi
<1>3. \A q, k : ~PumpUi(q, k)
  BY <1>1, <1>2
<1>4. ASSUME NEW c \in Calls, NEW rank, UiTurn(c, rank)
      PROVE  FALSE
  BY <1>3, <1>4 DEF UiTurn
<1>5. ASSUME NEW c \in Calls, TurnProgress(c)
      PROVE  FALSE
  BY <1>1, <1>3, <1>5 DEF TurnProgress, BeginOperation, EndOperation, ReleaseLease, Settle
<1>6. ~OtherHolds /\ ~UNCHANGED vars
  BY <1>1 DEF OtherHolds, vars
<1>7. PICK f \in Effects : EffectEnds(f)
  <2>1. \A c \in Plain : ~PlainCall(c)
    BY <1>4 DEF PlainCall, Calls
  <2>2. \A f \in Effects : ~EffectCall(f)
    BY <1>4 DEF EffectCall, Calls
  <2> QED
    BY <1>5, <1>6, <2>1, <2>2 DEF Next
<1>8. f = e
  BY <1>7 DEF EffectEnds
<1> QED
  BY <1>1, <1>7, <1>8 DEF EffectEnds, TurnsIInv, IsALine

\* An effect keeps the lease it has until it has settled: no other process enters
\* the window between its turns, or before its receipt is decided.
THEOREM EffectsKeepTheirLease == Spec => EffectKeepsLease
<1>1. TurnsIInv /\ [Next]_vars => [LeaseStays]_vars
  BY StepKeepsLease
<1> QED
  BY <1>1, TurnsStart, TurnsStep, PTL DEF Spec, EffectKeepsLease, LeaseStays

-----------------------------------------------------------------------------
(* The voice call *)

StoredRecord == [mode : {"none", "function", "mcp"}, ready : BOOLEAN, greeted : BOOLEAN]

RuntimeRecord ==
    [live : {TRUE}, open : BOOLEAN, ready : BOOLEAN, toolsReady : BOOLEAN,
     greeted : BOOLEAN, started : BOOLEAN, active : BOOLEAN, done : BOOLEAN,
     hadTool : BOOLEAN, respId : Nat, epoch : Nat, speaking : BOOLEAN, waiting : BOOLEAN,
     turn : BOOLEAN, finished : SUBSET Nat, playing : BOOLEAN, typed : Nat, pending : Nat,
     tools : SUBSET [id : Nat, epoch : Nat], handled : SUBSET Nat]

RequestOps == {"create", "cancel", "clear_input", "clear_output"}

Request == [op : RequestOps]

\* What a handler works on: a runtime and the requests that were sent.
Machine == [r : RuntimeRecord, out : Seq(Request)]

\* The places at which a response is asked for.
Creates(s) == {i \in DOMAIN s : s[i].op = "create"}

\* n is what a handler may make of m: it asks for a response only when none is
\* under way, and then one is.
Makes(m, n) ==
    /\ n \in Machine
    /\ n.r.open = m.r.open /\ n.r.finished = m.r.finished
    /\ n.out = m.out \/ n.r.open
    /\ \/ (m.r.active => n.r.active) /\ Creates(n.out) = Creates(m.out)
       \/ ~m.r.active /\ n.r.active /\ \E k \in Nat : Creates(n.out) = Creates(m.out) \cup {k}

\* Handlers follow each other.
LEMMA MakesTwice ==
    ASSUME NEW m, NEW n, NEW k, Makes(m, n), Makes(n, k)
    PROVE  Makes(m, k)
BY DEF Makes

\* A request joins the others at their end, when the socket is open.
LEMMA SendsMakes ==
    ASSUME NEW m \in Machine, NEW op \in RequestOps
    PROVE  /\ Sends(m, op) \in Machine
           /\ Sends(m, op).r = m.r
           /\ m.r.open \/ Sends(m, op).out = m.out
           /\ op # "create" => Creates(Sends(m, op).out) = Creates(m.out)
           /\ \E k \in Nat : Creates(Sends(m, op).out) \subseteq Creates(m.out) \cup {k}
                              /\ (m.r.open /\ op = "create" => Creates(Sends(m, op).out) = Creates(m.out) \cup {k})
<1> DEFINE q == [op |-> op]
           out == Append(m.out, q)
<1>1. m.out \in Seq(Request) /\ m.r \in RuntimeRecord
  BY DEF Machine
<1>2. q \in Request
  BY DEF Request
<1>3. out \in Seq(Request) /\ Len(out) = Len(m.out) + 1 /\ out[Len(m.out) + 1] = q
      /\ \A i \in 1..Len(m.out) : out[i] = m.out[i]
  BY <1>1, <1>2, AppendProperties
<1>4. Creates(out) = Creates(m.out) \cup (IF op = "create" THEN {Len(m.out) + 1} ELSE {})
  <2>1. DOMAIN out = 1..(Len(m.out) + 1) /\ DOMAIN m.out = 1..Len(m.out) /\ Len(m.out) \in Nat
    BY <1>1, <1>3, LenProperties
  <2> HIDE DEF out
  <2> QED
    BY <2>1, <1>3 DEF Creates
<1>5. CASE m.r.open
  <2>1. Sends(m, op) = [m EXCEPT !.out = out]
    BY <1>5 DEF Sends
  <2>2. Len(m.out) + 1 \in Nat
    BY <1>1, LenProperties
  <2> HIDE DEF out
  <2>3. Sends(m, op) \in Machine /\ Sends(m, op).r = m.r /\ Sends(m, op).out = out
    BY <2>1, <1>3 DEF Machine
  <2> QED
    BY <2>2, <2>3, <1>4, <1>5
<1>6. CASE ~m.r.open
  <2>1. Sends(m, op) = m
    BY <1>6 DEF Sends
  <2> QED
    BY <2>1, <1>6
<1> QED
  BY <1>5, <1>6

\* What a handler notes does not matter, but for these.
LEMMA NotesMake ==
    ASSUME NEW m \in Machine, NEW n \in Machine, n.out = m.out, n.r.open = m.r.open,
           n.r.finished = m.r.finished, m.r.active => n.r.active
    PROVE  Makes(m, n)
BY DEF Makes

\* A response is asked for when none is under way.
LEMMA CreateMakes ==
    ASSUME NEW m \in Machine
    PROVE  Makes(m, CreateResponse(m))
<1>1. CASE MayCreate(m.r)
  <2> DEFINE n == [m EXCEPT !.r.active = TRUE, !.r.done = FALSE, !.r.hadTool = FALSE]
  <2>1. CreateResponse(m) = Sends(n, "create")
    BY <1>1 DEF CreateResponse
  <2>2. n \in Machine /\ n.out = m.out /\ n.r.open = m.r.open
        /\ n.r.finished = m.r.finished /\ n.r.active
    BY DEF Machine, RuntimeRecord
  <2> HIDE DEF n
  <2>3. "create" \in RequestOps
    BY DEF RequestOps
  <2>4. ~m.r.active /\ n.r.open
    BY <1>1, <2>2 DEF MayCreate
  <2>5. /\ Sends(n, "create") \in Machine /\ Sends(n, "create").r = n.r
        /\ \E k \in Nat : Creates(Sends(n, "create").out) = Creates(n.out) \cup {k}
    BY <2>2, <2>3, <2>4, SendsMakes
  <2> QED
    BY <2>1, <2>2, <2>4, <2>5 DEF Makes
<1>2. CASE ~MayCreate(m.r)
  BY <1>2, NotesMake DEF CreateResponse
<1> QED
  BY <1>1, <1>2

LEMMA StartMakes ==
    ASSUME NEW m \in Machine
    PROVE  Makes(m, MaybeStart(m))
<1> DEFINE c == CreateResponse(m)
           n == [c EXCEPT !.r.started = MayCreate(m.r)]
<1>1. Makes(m, c)
  BY CreateMakes
<1>2. c \in Machine
  BY <1>1 DEF Makes
<1>3. MayCreate(m.r) \in BOOLEAN
  BY DEF MayCreate, Machine, RuntimeRecord
<1> HIDE DEF c
<1>4. Makes(c, n)
  <2>1. n \in Machine /\ n.out = c.out /\ n.r.open = c.r.open
        /\ n.r.finished = c.r.finished /\ n.r.active = c.r.active
    BY <1>2, <1>3 DEF Machine, RuntimeRecord
  <2> HIDE DEF n
  <2> QED
    BY <1>2, <2>1, NotesMake
<1>5. MaybeStart(m) = n \/ MaybeStart(m) = m
  BY DEF MaybeStart, c
<1> HIDE DEF n
<1> QED
  BY <1>1, <1>4, <1>5, MakesTwice, NotesMake

LEMMA FlushMakes ==
    ASSUME NEW m \in Machine
    PROVE  Makes(m, Flush(m))
<1> DEFINE n == [m EXCEPT !.r.pending = m.r.pending - 1]
<1>1. CASE m.r.pending > 0 /\ Flush(m) = CreateResponse(n)
  <2> DEFINE p == m.r.pending - 1
  <2>0. p \in Nat
    BY <1>1 DEF Machine, RuntimeRecord
  <2> HIDE DEF p
  <2>1. n \in Machine /\ n.out = m.out /\ n.r.open = m.r.open
        /\ n.r.finished = m.r.finished /\ n.r.active = m.r.active
    BY <2>0 DEF Machine, RuntimeRecord, p
  <2> HIDE DEF n
  <2>2. Makes(m, n) /\ Makes(n, CreateResponse(n))
    BY <2>1, NotesMake, CreateMakes
  <2> QED
    BY <1>1, <2>2, MakesTwice
<1>2. CASE Flush(m) = m
  BY <1>2, NotesMake
<1> QED
  BY <1>1, <1>2 DEF Flush

LEMMA ContinueMakes ==
    ASSUME NEW m \in Machine
    PROVE  Makes(m, ContinueAfterTools(m))
<1> DEFINE n == [m EXCEPT !.r.done = FALSE, !.r.hadTool = FALSE]
<1>1. n \in Machine /\ n.out = m.out /\ n.r.open = m.r.open
      /\ n.r.finished = m.r.finished /\ n.r.active = m.r.active
  BY DEF Machine, RuntimeRecord
<1>2. ContinueAfterTools(m) = CreateResponse(n) \/ ContinueAfterTools(m) = m
  BY DEF ContinueAfterTools
<1> HIDE DEF n
<1>3. Makes(m, n) /\ Makes(n, CreateResponse(n)) /\ Makes(m, m)
  BY <1>1, NotesMake, CreateMakes
<1> QED
  BY <1>2, <1>3, MakesTwice

LEMMA TypedMakes ==
    ASSUME NEW m \in Machine
    PROVE  Makes(m, FlushTyped(m))
<1> DEFINE n == [m EXCEPT !.r.typed = 0]
<1>1. n \in Machine /\ n.out = m.out /\ n.r.open = m.r.open
      /\ n.r.finished = m.r.finished /\ n.r.active = m.r.active
  BY DEF Machine, RuntimeRecord
<1>2. FlushTyped(m) = CreateResponse(n) \/ FlushTyped(m) = m
  BY DEF FlushTyped
<1> HIDE DEF n
<1>3. Makes(m, n) /\ Makes(n, CreateResponse(n)) /\ Makes(m, m)
  BY <1>1, NotesMake, CreateMakes
<1> QED
  BY <1>2, <1>3, MakesTwice

LEMMA AnswerMakes ==
    ASSUME NEW m \in Machine
    PROVE  Makes(m, RespondToUser(m))
<1> DEFINE c == CreateResponse(m)
           n == [c EXCEPT !.r.turn = ~MayCreate(m.r)]
<1>1. Makes(m, c)
  BY CreateMakes
<1>2. c \in Machine
  BY <1>1 DEF Makes
<1>3. (~MayCreate(m.r)) \in BOOLEAN
  OBVIOUS
<1>4. RespondToUser(m) = n \/ RespondToUser(m) = m
  BY DEF RespondToUser
<1> HIDE DEF c
<1>5. Makes(c, n)
  <2>1. n \in Machine /\ n.out = c.out /\ n.r.open = c.r.open
        /\ n.r.finished = c.r.finished /\ n.r.active = c.r.active
    BY <1>2, <1>3 DEF Machine, RuntimeRecord
  <2> HIDE DEF n
  <2> QED
    BY <1>2, <2>1, NotesMake
<1> HIDE DEF n
<1> QED
  BY <1>1, <1>4, <1>5, MakesTwice, NotesMake

LEMMA FunctionMakes ==
    ASSUME NEW m \in Machine, NEW id \in Nat, NEW of \in Nat
    PROVE  Makes(m, StartFunction(m, id, of))
<1> DEFINE h == [m EXCEPT !.r.handled = m.r.handled \cup {id}]
           tools == m.r.tools \cup {[id |-> id, epoch |-> m.r.epoch]}
           n == [h EXCEPT !.r.tools = tools, !.r.hadTool = TRUE]
<1>1. h \in Machine /\ h.out = m.out /\ h.r.open = m.r.open
      /\ h.r.finished = m.r.finished /\ h.r.active = m.r.active /\ h.r.tools = m.r.tools
  BY DEF Machine, RuntimeRecord
<1>2. tools \in SUBSET [id : Nat, epoch : Nat]
  BY DEF Machine, RuntimeRecord
<1>3. StartFunction(m, id, of) \in {m, h, n}
  BY <1>1 DEF StartFunction
<1> HIDE DEF h, tools
<1>4. n \in Machine /\ n.out = h.out /\ n.r.open = h.r.open
      /\ n.r.finished = h.r.finished /\ n.r.active = h.r.active
  BY <1>1, <1>2 DEF Machine, RuntimeRecord
<1> HIDE DEF n
<1>5. Makes(m, m) /\ Makes(m, h) /\ Makes(m, n)
  BY <1>1, <1>4, NotesMake
<1> QED
  BY <1>3, <1>5

LEMMA FinishMakes ==
    ASSUME NEW m \in Machine, NEW id \in Nat
    PROVE  Makes(m, FinishTool(m, id))
<1> DEFINE tools == m.r.tools \ {t \in m.r.tools : t.id = id}
           f == [m EXCEPT !.r.tools = tools]
           h == [f EXCEPT !.r.hadTool = TRUE]
<1>1. tools \in SUBSET [id : Nat, epoch : Nat]
  BY DEF Machine, RuntimeRecord
<1>2. FinishTool(m, id) \in {ContinueAfterTools(h), f}
  BY DEF FinishTool
<1> HIDE DEF tools
<1>3. f \in Machine /\ f.out = m.out /\ f.r.open = m.r.open
      /\ f.r.finished = m.r.finished /\ f.r.active = m.r.active
  BY <1>1 DEF Machine, RuntimeRecord
<1> HIDE DEF f
<1>4. h \in Machine /\ h.out = f.out /\ h.r.open = f.r.open
      /\ h.r.finished = f.r.finished /\ h.r.active = f.r.active
  BY <1>3 DEF Machine, RuntimeRecord
<1> HIDE DEF h
<1>5. Makes(m, f) /\ Makes(m, h) /\ Makes(h, ContinueAfterTools(h))
  BY <1>3, <1>4, NotesMake, ContinueMakes
<1> QED
  BY <1>2, <1>5, MakesTwice

PlainEvents == {"speech_started", "speech_stopped", "committed", "audio_started",
                "audio_stopped", "tools_listed"}

\* What the sideband may bring.
Event ==
    [t : PlainEvents]
    \cup [t : {"created", "function_call", "mcp_started", "mcp_ended"}, id : Nat]
    \cup [t : {"done"}, id : Nat, ok : BOOLEAN, call : BOOLEAN]

LEMMA ResponseMakes ==
    ASSUME NEW m \in Machine, NEW e \in [t : {"done"}, id : Nat, ok : BOOLEAN, call : BOOLEAN]
    PROVE  Makes(m, AfterResponse(m, e))
<1> DEFINE h == [m EXCEPT !.r.hadTool = TRUE]
           c == IF ~e.call THEN m ELSE IF Managed THEN StartFunction(m, e.id, 0) ELSE h
           n == [m EXCEPT !.r.hadTool = FALSE]
           k == [c EXCEPT !.r.done = FALSE, !.r.greeted = TRUE]
<1>1. /\ h \in Machine /\ h.out = m.out /\ h.r.open = m.r.open
         /\ h.r.finished = m.r.finished /\ h.r.active = m.r.active
      /\ n \in Machine /\ n.out = m.out /\ n.r.open = m.r.open
         /\ n.r.finished = m.r.finished /\ n.r.active = m.r.active
  BY DEF Machine, RuntimeRecord
<1>2. AfterResponse(m, e) \in {FlushTyped(m), RespondToUser(m), n, ContinueAfterTools(c), Flush(k)}
  BY DEF AfterResponse
<1> HIDE DEF h, n
<1>3. Makes(m, m) /\ Makes(m, h) /\ Makes(m, n)
  BY <1>1, NotesMake
<1>4. Makes(m, StartFunction(m, e.id, 0))
  BY FunctionMakes
<1>5. Makes(m, c)
  BY <1>3, <1>4
<1> HIDE DEF c
<1>6. c \in Machine
  BY <1>5 DEF Makes
<1>7. k \in Machine /\ k.out = c.out /\ k.r.open = c.r.open
      /\ k.r.finished = c.r.finished /\ k.r.active = c.r.active
  BY <1>6 DEF Machine, RuntimeRecord
<1> HIDE DEF k
<1>8. Makes(c, k) /\ Makes(k, Flush(k)) /\ Makes(c, ContinueAfterTools(c))
  BY <1>6, <1>7, NotesMake, FlushMakes, ContinueMakes
<1>9. Makes(m, Flush(k)) /\ Makes(m, ContinueAfterTools(c))
  <2>1. Makes(m, k)
    BY <1>5, <1>8, MakesTwice
  <2> QED
    BY <1>5, <1>8, <2>1, MakesTwice
<1>10. Makes(m, FlushTyped(m)) /\ Makes(m, RespondToUser(m))
  BY TypedMakes, AnswerMakes
<1> QED
  BY <1>2, <1>3, <1>9, <1>10

LEMMA SpokenMakes ==
    ASSUME NEW m \in Machine
    PROVE  Makes(m, SpeechStarted(m)) /\ Makes(m, Committed(m))
<1> DEFINE epoch == m.r.epoch + 1
           s == [m EXCEPT !.r.epoch = epoch, !.r.speaking = TRUE, !.r.waiting = TRUE,
                          !.r.done = FALSE, !.r.hadTool = FALSE]
           c == [m EXCEPT !.r.waiting = FALSE, !.r.turn = TRUE]
<1>1. epoch \in Nat
  BY DEF Machine, RuntimeRecord
<1>2. SpeechStarted(m) = s /\ Committed(m) \in {RespondToUser(c), m}
  BY DEF SpeechStarted, Committed
<1> HIDE DEF epoch
<1>3. s \in Machine /\ s.out = m.out /\ s.r.open = m.r.open
      /\ s.r.finished = m.r.finished /\ s.r.active = m.r.active
  BY <1>1 DEF Machine, RuntimeRecord
<1>4. c \in Machine /\ c.out = m.out /\ c.r.open = m.r.open
      /\ c.r.finished = m.r.finished /\ c.r.active = m.r.active
  BY DEF Machine, RuntimeRecord
<1> HIDE DEF s, c
<1>5. Makes(m, m) /\ Makes(m, s) /\ Makes(m, c) /\ Makes(c, RespondToUser(c))
  BY <1>3, <1>4, NotesMake, AnswerMakes
<1>6. Makes(m, RespondToUser(c))
  BY <1>5, MakesTwice
<1> QED
  BY <1>2, <1>5, <1>6

LEMMA CreatedMakes ==
    ASSUME NEW m \in Machine, NEW e \in [t : {"created"}, id : Nat]
    PROVE  Makes(m, Created(m, e))
<1> DEFINE c == [m EXCEPT !.r.active = TRUE, !.r.respId = e.id,
                          !.r.done = FALSE, !.r.hadTool = FALSE]
           w == [c EXCEPT !.r.waiting = FALSE]
<1>1. Created(m, e) \in {w, Sends(c, "cancel"), c}
  BY DEF Created
<1>2. c \in Machine /\ c.out = m.out /\ c.r.open = m.r.open
      /\ c.r.finished = m.r.finished /\ c.r.active
  BY DEF Machine, RuntimeRecord
<1> HIDE DEF c
<1>3. w \in Machine /\ w.out = c.out /\ w.r.open = c.r.open
      /\ w.r.finished = c.r.finished /\ w.r.active = c.r.active
  BY <1>2 DEF Machine, RuntimeRecord
<1> HIDE DEF w
<1>4. Makes(m, c) /\ Makes(m, w)
  BY <1>2, <1>3, NotesMake
<1>5. Makes(c, Sends(c, "cancel"))
  BY <1>2, SendsMakes DEF Makes, RequestOps
<1> QED
  BY <1>1, <1>4, <1>5, MakesTwice

\* An event that does not end a response.
LEMMA EventMakes ==
    ASSUME NEW m \in Machine, NEW e \in Event, e.t # "done"
    PROVE  Makes(m, Handle(m, e))
<1> DEFINE a == [m EXCEPT !.r.speaking = FALSE]
           b == [m EXCEPT !.r.playing = TRUE]
           c == [m EXCEPT !.r.playing = FALSE]
           d == [m EXCEPT !.r.toolsReady = TRUE]
<1>1. /\ a \in Machine /\ a.out = m.out /\ a.r.open = m.r.open
         /\ a.r.finished = m.r.finished /\ a.r.active = m.r.active
      /\ b \in Machine /\ b.out = m.out /\ b.r.open = m.r.open
         /\ b.r.finished = m.r.finished /\ b.r.active = m.r.active
  BY DEF Machine, RuntimeRecord
<1>2. /\ c \in Machine /\ c.out = m.out /\ c.r.open = m.r.open
         /\ c.r.finished = m.r.finished /\ c.r.active = m.r.active
      /\ d \in Machine /\ d.out = m.out /\ d.r.open = m.r.open
         /\ d.r.finished = m.r.finished /\ d.r.active = m.r.active
  BY DEF Machine, RuntimeRecord
<1>3. CASE e.t \in PlainEvents
  <2>1. Handle(m, e) \in {SpeechStarted(m), a, Committed(m), b, Flush(c), Flush(MaybeStart(d))}
    BY <1>3 DEF Handle, PlainEvents
  <2> HIDE DEF a, b, c, d
  <2>2. Makes(m, a) /\ Makes(m, b) /\ Makes(m, c) /\ Makes(m, d)
    BY <1>1, <1>2, NotesMake
  <2>3. Makes(c, Flush(c)) /\ Makes(d, MaybeStart(d))
    BY <1>2, FlushMakes, StartMakes
  <2>4. Makes(MaybeStart(d), Flush(MaybeStart(d)))
    BY <2>3, FlushMakes DEF Makes
  <2>5. Makes(m, Flush(c)) /\ Makes(m, MaybeStart(d))
    BY <2>2, <2>3, MakesTwice
  <2>6. Makes(m, Flush(MaybeStart(d)))
    BY <2>4, <2>5, MakesTwice
  <2> QED
    BY <2>1, <2>2, <2>5, <2>6, SpokenMakes
<1>4. CASE e.t \in {"created", "function_call", "mcp_started", "mcp_ended"}
  <2>1. e \in [t : {"created", "function_call", "mcp_started", "mcp_ended"}, id : Nat]
    BY <1>4 DEF Event, PlainEvents
  <2>2. e.id \in Nat
    BY <2>1
  <2>3. CASE e.t = "created"
    <3>1. e \in [t : {"created"}, id : Nat]
      BY <2>1, <2>3
    <3> QED
      BY <2>3, <3>1, CreatedMakes DEF Handle
  <2>4. CASE e.t = "function_call"
    BY <2>2, <2>4, FunctionMakes DEF Handle
  <2>5. CASE e.t = "mcp_ended"
    BY <2>2, <2>5, FinishMakes DEF Handle
  <2>6. CASE e.t = "mcp_started"
    <3> DEFINE tools == m.r.tools \cup {[id |-> e.id, epoch |-> m.r.epoch]}
               n == [m EXCEPT !.r.hadTool = TRUE, !.r.tools = tools]
    <3>1. tools \in SUBSET [id : Nat, epoch : Nat]
      BY <2>2 DEF Machine, RuntimeRecord
    <3>2. Handle(m, e) = n
      BY <2>6 DEF Handle
    <3> HIDE DEF tools
    <3>3. n \in Machine /\ n.out = m.out /\ n.r.open = m.r.open
          /\ n.r.finished = m.r.finished /\ n.r.active = m.r.active
      BY <3>1 DEF Machine, RuntimeRecord
    <3> HIDE DEF n
    <3> QED
      BY <3>2, <3>3, NotesMake
  <2> QED
    BY <1>4, <2>3, <2>4, <2>5, <2>6
<1> QED
  BY <1>3, <1>4 DEF Event

-----------------------------------------------------------------------------
(* One response at a time *)

\* The ends of responses on their way to a runtime that has not seen them.
Endings(d, seen) == {j \in DOMAIN d : d[j].t = "done" /\ d[j].id \notin seen}

\* A request for a response becomes the response and then its end: of these
\* three there is one at most, and none unless the runtime thinks so. The last
\* response that ended is known, or becomes known.
OneToken(r, out, p, d) ==
    /\ \A i, j \in Creates(out) : i = j
    /\ Creates(out) # {} => p.resp = 0 /\ Endings(d, r.finished) = {}
    /\ p.resp # 0 => Endings(d, r.finished) = {}
    /\ \A i, j \in Endings(d, r.finished) : d[i].id = d[j].id
    /\ ~r.active => Creates(out) = {} /\ p.resp = 0 /\ Endings(d, r.finished) = {}
    /\ p.last # 0 => \/ p.last \in r.finished
                     \/ \E j \in DOMAIN d : d[j].t = "done" /\ d[j].id = p.last
    /\ out # <<>> \/ p.resp # 0 \/ p.last # 0 => r.open

ProviderRecord ==
    [resp : Nat, next : Nat \ {0}, stage : Nat, cut : BOOLEAN, user : {"quiet", "speaking"},
     owed : BOOLEAN, sound : {"none", "on", "over"}, listed : BOOLEAN, mcp : SUBSET Nat, last : Nat]

UsedRecord ==
    [speech : Nat, typed : Nat, nudges : Nat, tools : Nat,
     failures : Nat, repeats : Nat, restarts : Nat]

VoiceTypeOK ==
    /\ stored \in StoredRecord
    /\ stored.mode = "none" => stored = NoCall
    /\ Live => rt \in RuntimeRecord /\ stored.mode # "none"
    /\ rt = NoRuntime \/ rt \in RuntimeRecord
    /\ up \in Seq(Request) /\ down \in Seq(Event)
    /\ prov \in ProviderRecord
    /\ used \in UsedRecord
    /\ prov.next = 1 => prov.resp = 0 /\ prov.last = 0

\* A relay that was not restarted attends the call for as long as it lasts.
OneLife ==
    /\ Live <=> InCall
    /\ ~Live => up = <<>> /\ down = <<>>

VoiceInOrder ==
    /\ VoiceTypeOK
    /\ NeverRestarted => OneLife
    /\ NeverRestarted /\ Managed /\ Live => OneToken(rt, up, prov, down)

\* A handler keeps it.
LEMMA MakesKeepsToken ==
    ASSUME NEW m, NEW n, NEW p, NEW d, Makes(m, n), OneToken(m.r, m.out, p, d)
    PROVE  OneToken(n.r, n.out, p, d)
<1>1. /\ n.r.open = m.r.open /\ n.r.finished = m.r.finished
      /\ n.out = m.out \/ n.r.open
  BY DEF Makes
<1>2. CASE (m.r.active => n.r.active) /\ Creates(n.out) = Creates(m.out)
  BY <1>1, <1>2 DEF OneToken
<1>3. CASE ~m.r.active /\ n.r.active /\ \E k \in Nat : Creates(n.out) = Creates(m.out) \cup {k}
  <2>1. Creates(m.out) = {} /\ p.resp = 0 /\ Endings(d, m.r.finished) = {}
    BY <1>3 DEF OneToken
  <2>2. PICK k \in Nat : Creates(n.out) = {k}
    BY <1>3, <2>1
  <2> QED
    BY <1>1, <1>3, <2>1, <2>2 DEF OneToken
<1> QED
  BY <1>1, <1>2, <1>3 DEF Makes

\* A request that was taken leaves the others.
LEMMA TailKeepsToken ==
    ASSUME NEW r, NEW out \in Seq(Request), NEW p, NEW d, out # <<>>, OneToken(r, out, p, d)
    PROVE  /\ OneToken(r, Tail(out), p, d)
           /\ Head(out).op = "create" => Creates(Tail(out)) = {}
           /\ Head(out).op = "create" => 1 \in Creates(out)
<1> DEFINE q == Tail(out)
<1>1. q \in Seq(Request) /\ Len(q) = Len(out) - 1 /\ Len(out) \in Nat \ {0}
      /\ DOMAIN q = 1..Len(q) /\ DOMAIN out = 1..Len(out) /\ Head(out) = out[1]
      /\ \A i \in 1..Len(q) : q[i] = out[i + 1]
  BY HeadTailProperties, LenProperties, EmptySeq
<1> HIDE DEF q
<1>2. \A i \in Creates(q) : i + 1 \in Creates(out) /\ i \in Nat \ {0}
  BY <1>1 DEF Creates
<1>3. Head(out).op = "create" => 1 \in Creates(out)
  BY <1>1 DEF Creates
<1>4. \A i, j \in Creates(out) : i = j
  BY DEF OneToken
<1>5. Head(out).op = "create" => Creates(q) = {}
  BY <1>2, <1>3, <1>4
<1>6. \A i, j \in Creates(q) : i = j
  BY <1>2, <1>4
<1>7. Creates(out) = {} => Creates(q) = {}
  BY <1>2
<1>8. OneToken(r, q, p, d)
  BY <1>6, <1>7 DEF OneToken
<1> QED
  BY <1>3, <1>5, <1>8 DEF q

\* An event that was heard leaves the others.
LEMMA HeardKeepsToken ==
    ASSUME NEW r, NEW out, NEW p, NEW d \in Seq(Event), d # <<>>, OneToken(r, out, p, d),
           Head(d).t # "done" \/ Head(d).id \in r.finished
    PROVE  OneToken(r, out, p, Tail(d))
<1> DEFINE q == Tail(d)
<1>1. q \in Seq(Event) /\ Len(q) = Len(d) - 1 /\ Len(d) \in Nat \ {0}
      /\ DOMAIN q = 1..Len(q) /\ DOMAIN d = 1..Len(d) /\ Head(d) = d[1]
      /\ \A i \in 1..Len(q) : q[i] = d[i + 1]
  BY HeadTailProperties, LenProperties, EmptySeq
<1> HIDE DEF q
<1>2. \A i \in Endings(q, r.finished) : i + 1 \in Endings(d, r.finished) /\ q[i] = d[i + 1]
  BY <1>1 DEF Endings
<1>3. Endings(d, r.finished) = {} => Endings(q, r.finished) = {}
  BY <1>2
<1>4. \A i, j \in Endings(q, r.finished) : q[i].id = q[j].id
  BY <1>2 DEF OneToken
<1>5. ASSUME p.last # 0
      PROVE  \/ p.last \in r.finished
             \/ \E j \in DOMAIN q : q[j].t = "done" /\ q[j].id = p.last
  <2>1. CASE p.last \in r.finished
    BY <2>1
  <2>2. CASE \E j \in DOMAIN d : d[j].t = "done" /\ d[j].id = p.last
    <3>1. PICK j \in DOMAIN d : d[j].t = "done" /\ d[j].id = p.last
      BY <2>2
    <3>2. CASE j = 1
      BY <1>1, <3>1, <3>2
    <3>3. CASE j # 1
      <4>1. j - 1 \in DOMAIN q /\ q[j - 1] = d[j]
        BY <1>1, <3>1, <3>3
      <4> QED
        BY <3>1, <4>1
    <3> QED
      BY <3>2, <3>3
  <2> QED
    BY <1>5, <2>1, <2>2 DEF OneToken
<1>6. OneToken(r, out, p, q)
  BY <1>3, <1>4, <1>5 DEF OneToken
<1> QED
  BY <1>6 DEF q

\* Once an end was heard of, it is not on its way.
LEMMA EndKeepsToken ==
    ASSUME NEW r, NEW k, NEW out, NEW p, NEW d \in Seq(Event), d # <<>>, OneToken(r, out, p, d),
           Head(d).t = "done", k.open = r.open, k.finished = r.finished \cup {Head(d).id},
           k.active = r.active \/ Head(d).id \notin r.finished
    PROVE  OneToken(k, out, p, Tail(d))
<1> DEFINE q == Tail(d)
           id == Head(d).id
<1>1. q \in Seq(Event) /\ Len(q) = Len(d) - 1 /\ Len(d) \in Nat \ {0}
      /\ DOMAIN q = 1..Len(q) /\ DOMAIN d = 1..Len(d) /\ Head(d) = d[1]
      /\ \A i \in 1..Len(q) : q[i] = d[i + 1]
  BY HeadTailProperties, LenProperties, EmptySeq
<1> HIDE DEF q
<1>2. CASE id \in r.finished
  <2>1. k.finished = r.finished /\ k.active = r.active
    BY <1>2
  <2>2. OneToken(r, out, p, q)
    BY <1>2, HeardKeepsToken DEF q
  <2>3. OneToken(k, out, p, q)
    BY <2>1, <2>2 DEF OneToken
  <2> QED
    BY <2>3 DEF q
<1>3. CASE id \notin r.finished
  <2>1. 1 \in Endings(d, r.finished) /\ d[1].id = id
    BY <1>1, <1>3 DEF Endings
  <2>2. Creates(out) = {} /\ p.resp = 0
    BY <2>1 DEF OneToken
  <2>3. \A j \in Endings(d, r.finished) : d[j].id = id
    BY <2>1 DEF OneToken
  <2>4. Endings(q, k.finished) = {}
    <3> SUFFICES ASSUME NEW j \in Endings(q, k.finished)
                 PROVE  FALSE
      OBVIOUS
    <3>1. j + 1 \in Endings(d, r.finished) /\ d[j + 1] = q[j] /\ q[j].id \notin k.finished
      BY <1>1 DEF Endings
    <3> QED
      BY <2>3, <3>1
  <2>5. ASSUME p.last # 0
        PROVE  \/ p.last \in k.finished
               \/ \E j \in DOMAIN q : q[j].t = "done" /\ q[j].id = p.last
    <3>1. CASE p.last \in r.finished
      BY <3>1
    <3>2. CASE \E j \in DOMAIN d : d[j].t = "done" /\ d[j].id = p.last
      <4>1. PICK j \in DOMAIN d : d[j].t = "done" /\ d[j].id = p.last
        BY <3>2
      <4>2. CASE j = 1
        BY <2>1, <4>1, <4>2
      <4>3. CASE j # 1
        <5>1. j - 1 \in DOMAIN q /\ q[j - 1] = d[j]
          BY <1>1, <4>1, <4>3
        <5> QED
          BY <4>1, <5>1
      <4> QED
        BY <4>2, <4>3
    <3> QED
      BY <2>5, <3>1, <3>2 DEF OneToken
  <2>6. out # <<>> \/ p.last # 0 => r.open
    BY DEF OneToken
  <2>7. OneToken(k, out, p, q)
    BY <2>2, <2>4, <2>5, <2>6 DEF OneToken
  <2> QED
    BY <2>7 DEF q
<1> QED
  BY <1>2, <1>3

\* The broker hears the next event.
LEMMA HearingKeepsToken ==
    ASSUME NEW m \in Machine, NEW d \in Seq(Event), d # <<>>
    PROVE  /\ Handle(m, Head(d)) \in Machine
           /\ \A p : OneToken(m.r, m.out, p, d)
                     => OneToken(Handle(m, Head(d)).r, Handle(m, Head(d)).out, p, Tail(d))
<1> DEFINE e == Head(d)
<1>1. e \in Event
  BY HeadTailProperties
<1>2. CASE e.t # "done"
  <2>1. Makes(m, Handle(m, e))
    BY <1>1, <1>2, EventMakes
  <2>2. ASSUME NEW p, OneToken(m.r, m.out, p, d)
        PROVE  OneToken(Handle(m, e).r, Handle(m, e).out, p, Tail(d))
    <3>1. OneToken(m.r, m.out, p, Tail(d))
      BY <1>2, <2>2, HeardKeepsToken
    <3> QED
      BY <2>1, <3>1, MakesKeepsToken
  <2> QED
    BY <2>1, <2>2 DEF Makes
<1>3. CASE e.t = "done"
  <2>1. e \in [t : {"done"}, id : Nat, ok : BOOLEAN, call : BOOLEAN]
    BY <1>1, <1>3 DEF Event, PlainEvents
  <2> DEFINE seen == m.r.finished \cup {e.id}
             f == [m EXCEPT !.r.finished = seen]
             g == [f EXCEPT !.r.active = FALSE, !.r.respId = 0, !.r.done = e.ok]
  <2>2. seen \in SUBSET Nat
    BY <2>1 DEF Machine, RuntimeRecord
  <2>3. Handle(m, e) = IF Counts(m.r, e) THEN AfterResponse(g, e) ELSE f
    BY <1>3 DEF Handle, ResponseDone
  <2>4. e.ok \in BOOLEAN
    BY <2>1
  <2> HIDE DEF e, seen
  <2>5. f \in Machine /\ f.out = m.out /\ f.r.open = m.r.open
        /\ f.r.finished = seen /\ f.r.active = m.r.active
    BY <2>2 DEF Machine, RuntimeRecord
  <2> HIDE DEF f
  <2>6. g \in Machine /\ g.out = f.out /\ g.r.open = f.r.open
        /\ g.r.finished = f.r.finished /\ g.r.active = FALSE
    BY <2>4, <2>5 DEF Machine, RuntimeRecord
  <2> HIDE DEF g
  <2>7. CASE ~Counts(m.r, e)
    <3>1. Handle(m, e) = f
      BY <2>3, <2>7
    <3>2. ASSUME NEW p, OneToken(m.r, m.out, p, d)
          PROVE  OneToken(f.r, m.out, p, Tail(d))
      BY <1>3, <2>5, <3>2, EndKeepsToken DEF e, seen
    <3> QED
      BY <2>5, <3>1, <3>2 DEF e
  <2>8. CASE Counts(m.r, e)
    <3>1. Handle(m, e) = AfterResponse(g, e)
      BY <2>3, <2>8
    <3>2. Makes(g, AfterResponse(g, e))
      BY <2>1, <2>6, ResponseMakes
    <3>3. e.id \notin m.r.finished
      BY <2>8 DEF Counts
    <3>4. ASSUME NEW p, OneToken(m.r, m.out, p, d)
          PROVE  OneToken(g.r, m.out, p, Tail(d))
      BY <1>3, <2>5, <2>6, <3>3, <3>4, EndKeepsToken DEF e, seen
    <3>5. g.out = m.out
      BY <2>5, <2>6
    <3>6. ASSUME NEW p, OneToken(m.r, m.out, p, d)
          PROVE  OneToken(AfterResponse(g, e).r, AfterResponse(g, e).out, p, Tail(d))
      BY <3>2, <3>4, <3>5, <3>6, MakesKeepsToken
    <3> QED
      BY <3>1, <3>2, <3>6 DEF Makes, e
  <2> QED
    BY <2>7, <2>8
<1> QED
  BY <1>2, <1>3

\* A handler ran to its end.
LEMMA BecomesKeepsOrder ==
    ASSUME VoiceInOrder, Live, NEW n \in Machine, Becomes(n), UNCHANGED prov,
           used' \in UsedRecord, NeverRestarted' => NeverRestarted, down' \in Seq(Event),
           NeverRestarted /\ Managed => OneToken(n.r, n.out, prov, down')
    PROVE  VoiceInOrder'
<1>1. rt' = n.r /\ up' = n.out /\ n.r \in RuntimeRecord /\ n.out \in Seq(Request) /\ n.r.live
  BY DEF Becomes, Machine, RuntimeRecord
<1>2. stored' \in StoredRecord /\ stored'.mode = stored.mode
  <2> DEFINE a == stored.greeted \/ n.r.greeted
             b == stored.ready \/ n.r.ready
  <2>1. a \in BOOLEAN /\ b \in BOOLEAN
    OBVIOUS
  <2>2. stored' = [stored EXCEPT !.greeted = a, !.ready = b]
    BY DEF Becomes
  <2> HIDE DEF a, b
  <2> QED
    BY <2>1, <2>2 DEF VoiceInOrder, VoiceTypeOK, StoredRecord
<1>3. stored'.mode # "none" /\ InCall'
  BY <1>2 DEF VoiceInOrder, VoiceTypeOK, InCall, NoCall
<1>4. VoiceTypeOK'
  BY <1>1, <1>2, <1>3 DEF VoiceInOrder, VoiceTypeOK, Live
<1>5. OneLife'
  BY <1>1, <1>3 DEF OneLife, Live
<1>6. Managed' <=> Managed
  BY <1>2 DEF Managed
<1> QED
  BY <1>1, <1>4, <1>5, <1>6 DEF VoiceInOrder

\* A handler that only asks and notes.
LEMMA MakingKeepsOrder ==
    ASSUME VoiceInOrder, Live, NEW m \in Machine, NEW n, Makes(m, n), Becomes(n),
           m.r.finished = rt.finished, m.r.active = rt.active, rt.open => m.r.open, m.out = up,
           UNCHANGED <<prov, down>>, used' \in UsedRecord, NeverRestarted' => NeverRestarted
    PROVE  VoiceInOrder'
<1>1. n \in Machine
  BY DEF Makes
<1>2. ASSUME NeverRestarted, Managed
      PROVE  OneToken(n.r, n.out, prov, down)
  <2>1. OneToken(rt, up, prov, down)
    BY <1>2 DEF VoiceInOrder
  <2>2. OneToken(m.r, m.out, prov, down)
    BY <2>1 DEF OneToken
  <2> QED
    BY <2>2, MakesKeepsToken
<1>3. down' \in Seq(Event) /\ prov' = prov /\ down' = down
  BY DEF VoiceInOrder, VoiceTypeOK
<1> QED
  BY <1>1, <1>2, <1>3, BecomesKeepsOrder

LEMMA RuntimeIsMachine ==
    ASSUME VoiceInOrder, Live
    PROVE  Runtime \in Machine /\ Runtime.r = rt /\ Runtime.out = up
BY DEF VoiceInOrder, VoiceTypeOK, Runtime, Machine

\* What is spent is counted.
LEMMA SpendingCounts ==
    ASSUME used \in UsedRecord,
           NEW what \in {"speech", "typed", "nudges", "tools", "failures", "repeats", "restarts"},
           Spend(what)
    PROVE  /\ used' \in UsedRecord
           /\ NeverRestarted' => NeverRestarted /\ what # "restarts"
<1> DEFINE n == used[what] + 1
<1>1. n \in Nat \ {0}
  BY DEF UsedRecord
<1>2. used' = [used EXCEPT ![what] = n]
  BY DEF Spend
<1> HIDE DEF n
<1>3. used' \in UsedRecord
  BY <1>1, <1>2 DEF UsedRecord
<1>4. used'.restarts = IF what = "restarts" THEN n ELSE used.restarts
  BY <1>2 DEF UsedRecord
<1> QED
  BY <1>1, <1>3, <1>4 DEF NeverRestarted

LEMMA OpensKeepsOrder == ASSUME VoiceInOrder, Opens PROVE VoiceInOrder'
<1> DEFINE m == [Runtime EXCEPT !.r.open = TRUE]
<1>1. Live /\ Becomes(Flush(MaybeStart(m))) /\ UNCHANGED <<prov, down, used>>
  BY DEF Opens
<1>2. Runtime \in Machine /\ Runtime.r = rt /\ Runtime.out = up
  BY <1>1, RuntimeIsMachine
<1>3. m \in Machine /\ m.out = up /\ m.r.open
      /\ m.r.finished = rt.finished /\ m.r.active = rt.active
  BY <1>2 DEF Machine, RuntimeRecord
<1> HIDE DEF m
<1>4. Makes(m, MaybeStart(m))
  BY <1>3, StartMakes
<1>5. Makes(MaybeStart(m), Flush(MaybeStart(m)))
  BY <1>4, FlushMakes DEF Makes
<1>6. Makes(m, Flush(MaybeStart(m)))
  BY <1>4, <1>5, MakesTwice
<1>7. used' \in UsedRecord /\ (NeverRestarted' => NeverRestarted)
  BY <1>1 DEF VoiceInOrder, VoiceTypeOK, NeverRestarted
<1> QED
  BY <1>1, <1>3, <1>6, <1>7, MakingKeepsOrder

LEMMA BeginsKeepsOrder == ASSUME VoiceInOrder, Begins PROVE VoiceInOrder'
<1>1. CASE Live
  <2> DEFINE m == [Runtime EXCEPT !.r.ready = TRUE]
  <2>1. Becomes(MaybeStart(m)) /\ UNCHANGED <<prov, down, used>>
    BY <1>1 DEF Begins
  <2>2. Runtime \in Machine /\ Runtime.r = rt /\ Runtime.out = up
    BY <1>1, RuntimeIsMachine
  <2>3. m \in Machine /\ m.out = up /\ m.r.open = rt.open
        /\ m.r.finished = rt.finished /\ m.r.active = rt.active
    BY <2>2 DEF Machine, RuntimeRecord
  <2> HIDE DEF m
  <2>4. Makes(m, MaybeStart(m))
    BY <2>3, StartMakes
  <2>5. used' \in UsedRecord /\ (NeverRestarted' => NeverRestarted)
    BY <2>1 DEF VoiceInOrder, VoiceTypeOK, NeverRestarted
  <2> QED
    BY <1>1, <2>1, <2>3, <2>4, <2>5, MakingKeepsOrder
<1>2. CASE ~Live
  <2>1. stored' = [stored EXCEPT !.ready = TRUE] /\ stored.mode = "function"
        /\ UNCHANGED <<rt, up, begun, prov, down, used>>
    BY <1>2 DEF Begins
  <2>2. stored' \in StoredRecord /\ stored'.mode = stored.mode
    BY <2>1 DEF VoiceInOrder, VoiceTypeOK, StoredRecord
  <2>3. InCall
    BY <2>1 DEF InCall, NoCall
  <2>4. ~NeverRestarted
    BY <1>2, <2>3 DEF VoiceInOrder, OneLife
  <2>5. ~NeverRestarted'
    BY <2>1, <2>4 DEF NeverRestarted
  <2> QED
    BY <2>1, <2>2, <2>5 DEF VoiceInOrder, VoiceTypeOK, Live
<1> QED
  BY <1>1, <1>2

LEMMA HearsKeepsOrder == ASSUME VoiceInOrder, Hears PROVE VoiceInOrder'
<1> DEFINE n == Handle(Runtime, Head(down))
<1>1. Live /\ Becomes(n) /\ down # <<>> /\ down' = Tail(down) /\ UNCHANGED <<prov, used>>
  BY DEF Hears
<1>2. Runtime \in Machine /\ Runtime.r = rt /\ Runtime.out = up
  BY <1>1, RuntimeIsMachine
<1>3. down \in Seq(Event)
  BY DEF VoiceInOrder, VoiceTypeOK
<1>4. /\ n \in Machine
      /\ OneToken(rt, up, prov, down) => OneToken(n.r, n.out, prov, Tail(down))
  <2>1. \A p : OneToken(Runtime.r, Runtime.out, p, down) => OneToken(n.r, n.out, p, Tail(down))
    BY <1>1, <1>2, <1>3, HearingKeepsToken
  <2>2. n \in Machine
    BY <1>1, <1>2, <1>3, HearingKeepsToken
  <2> QED
    BY <1>2, <2>1, <2>2
<1>5. down' \in Seq(Event)
  BY <1>1, <1>3, HeadTailProperties
<1>6. used' \in UsedRecord /\ (NeverRestarted' => NeverRestarted)
  BY <1>1 DEF VoiceInOrder, VoiceTypeOK, NeverRestarted
<1>7. NeverRestarted /\ Managed => OneToken(n.r, n.out, prov, down')
  BY <1>1, <1>4 DEF VoiceInOrder
<1> HIDE DEF n
<1> QED
  BY <1>1, <1>4, <1>5, <1>6, <1>7, BecomesKeepsOrder

LEMMA ReturnsKeepsOrder == ASSUME VoiceInOrder, ToolReturns PROVE VoiceInOrder'
<1>1. Live /\ UNCHANGED <<prov, down, used>>
  BY DEF ToolReturns
<1>2. PICK t \in rt.tools :
        LET m == [Runtime EXCEPT !.r.tools = Runtime.r.tools \ {t}]
        IN  Becomes(IF t.epoch = rt.epoch THEN ContinueAfterTools(m) ELSE m)
  BY DEF ToolReturns
<1> DEFINE tools == Runtime.r.tools \ {t}
           m == [Runtime EXCEPT !.r.tools = tools]
           n == IF t.epoch = rt.epoch THEN ContinueAfterTools(m) ELSE m
<1>3. Becomes(n)
  BY <1>2
<1>4. Runtime \in Machine /\ Runtime.r = rt /\ Runtime.out = up
  BY <1>1, RuntimeIsMachine
<1>5. tools \in SUBSET [id : Nat, epoch : Nat]
  BY <1>4 DEF Machine, RuntimeRecord
<1> HIDE DEF tools
<1>6. m \in Machine /\ m.out = up /\ m.r.open = rt.open
      /\ m.r.finished = rt.finished /\ m.r.active = rt.active
  BY <1>4, <1>5 DEF Machine, RuntimeRecord
<1> HIDE DEF m
<1>7. Makes(m, n)
  BY <1>6, ContinueMakes, NotesMake
<1>8. used' \in UsedRecord /\ (NeverRestarted' => NeverRestarted)
  BY <1>1 DEF VoiceInOrder, VoiceTypeOK, NeverRestarted
<1> HIDE DEF n
<1> QED
  BY <1>1, <1>3, <1>6, <1>7, <1>8, MakingKeepsOrder

LEMMA TypesTextKeepsOrder == ASSUME VoiceInOrder, TypesText PROVE VoiceInOrder'
<1> DEFINE epoch == Runtime.r.epoch + 1
           typed == Runtime.r.typed + 1
           m == [Runtime EXCEPT !.r.epoch = epoch, !.r.speaking = FALSE, !.r.waiting = FALSE,
                                !.r.turn = FALSE, !.r.done = FALSE, !.r.hadTool = FALSE,
                                !.r.typed = typed]
           cleared   == Sends(m, "clear_input")
           cancelled == IF rt.active THEN Sends(cleared, "cancel") ELSE cleared
           n         == Sends(cancelled, "clear_output")
<1>1. Live /\ Becomes(FlushTyped(n)) /\ Spend("typed") /\ UNCHANGED <<prov, down>>
  BY DEF TypesText
<1>2. Runtime \in Machine /\ Runtime.r = rt /\ Runtime.out = up
  BY <1>1, RuntimeIsMachine
<1>3. epoch \in Nat /\ typed \in Nat
  BY <1>2 DEF Machine, RuntimeRecord
<1> HIDE DEF epoch, typed
<1>4. m \in Machine /\ m.out = up /\ m.r.open = rt.open
      /\ m.r.finished = rt.finished /\ m.r.active = rt.active
  <2> DEFINE a == [Runtime EXCEPT !.r.epoch = epoch, !.r.speaking = FALSE, !.r.waiting = FALSE]
             b == [a EXCEPT !.r.turn = FALSE, !.r.done = FALSE, !.r.hadTool = FALSE]
             d == [b EXCEPT !.r.typed = typed]
  <2>1. a \in Machine /\ a.out = up /\ a.r.open = rt.open
        /\ a.r.finished = rt.finished /\ a.r.active = rt.active
    BY <1>2, <1>3 DEF Machine, RuntimeRecord
  <2>2. m = d
    BY <1>2 DEF Machine, RuntimeRecord
  <2> HIDE DEF a, m
  <2>3. b \in Machine /\ b.out = up /\ b.r.open = rt.open
        /\ b.r.finished = rt.finished /\ b.r.active = rt.active
    BY <2>1 DEF Machine, RuntimeRecord
  <2> HIDE DEF b
  <2>4. d \in Machine /\ d.out = up /\ d.r.open = rt.open
        /\ d.r.finished = rt.finished /\ d.r.active = rt.active
    BY <1>3, <2>3 DEF Machine, RuntimeRecord
  <2> QED
    BY <2>2, <2>4
<1> HIDE DEF m
<1>5. \A c \in Machine : \A op \in RequestOps \ {"create"} : Makes(c, Sends(c, op))
  BY SendsMakes DEF Makes
<1>6. {"clear_input", "cancel", "clear_output"} \subseteq RequestOps \ {"create"}
  BY DEF RequestOps
<1>7. Makes(m, cleared) /\ cleared \in Machine
  <2>1. Makes(m, cleared)
    BY <1>4, <1>5, <1>6
  <2> QED
    BY <2>1 DEF Makes
<1> HIDE DEF cleared
<1>8. Makes(m, cancelled) /\ cancelled \in Machine
  <2>1. Makes(cleared, Sends(cleared, "cancel"))
    BY <1>5, <1>6, <1>7
  <2>2. Makes(m, cancelled)
    BY <1>7, <2>1, MakesTwice
  <2> QED
    BY <2>2 DEF Makes
<1> HIDE DEF cancelled
<1>9. Makes(m, n) /\ n \in Machine
  <2>1. Makes(cancelled, n)
    BY <1>5, <1>6, <1>8
  <2>2. Makes(m, n)
    BY <1>8, <2>1, MakesTwice
  <2> QED
    BY <2>2 DEF Makes
<1> HIDE DEF n
<1>10. Makes(m, FlushTyped(n))
  BY <1>9, TypedMakes, MakesTwice
<1>11. used' \in UsedRecord /\ (NeverRestarted' => NeverRestarted)
  BY <1>1, SpendingCounts DEF VoiceInOrder, VoiceTypeOK
<1> QED
  BY <1>1, <1>4, <1>10, <1>11, MakingKeepsOrder

LEMMA InjectsKeepsOrder == ASSUME VoiceInOrder, Injects PROVE VoiceInOrder'
<1> DEFINE pending == Runtime.r.pending + 1
           m == [Runtime EXCEPT !.r.pending = pending]
<1>1. Live /\ Becomes(Flush(m)) /\ Spend("nudges") /\ UNCHANGED <<prov, down>>
  BY DEF Injects
<1>2. Runtime \in Machine /\ Runtime.r = rt /\ Runtime.out = up
  BY <1>1, RuntimeIsMachine
<1>3. pending \in Nat
  BY <1>2 DEF Machine, RuntimeRecord
<1> HIDE DEF pending
<1>4. m \in Machine /\ m.out = up /\ m.r.open = rt.open
      /\ m.r.finished = rt.finished /\ m.r.active = rt.active
  BY <1>2, <1>3 DEF Machine, RuntimeRecord
<1> HIDE DEF m
<1>5. Makes(m, Flush(m))
  BY <1>4, FlushMakes
<1>6. used' \in UsedRecord /\ (NeverRestarted' => NeverRestarted)
  BY <1>1, SpendingCounts DEF VoiceInOrder, VoiceTypeOK
<1> QED
  BY <1>1, <1>4, <1>5, <1>6, MakingKeepsOrder

\* A runtime that starts has nothing to ask and heard nothing.
LEMMA FreshIsRuntime ==
    ASSUME NEW c \in StoredRecord
    PROVE  Fresh(c) \in RuntimeRecord /\ Fresh(c).live
<1>1. (c.mode = "function") \in BOOLEAN /\ c.ready \in BOOLEAN /\ c.greeted \in BOOLEAN
  BY DEF StoredRecord
<1> QED
  BY <1>1, Z3 DEF Fresh, RuntimeRecord

LEMMA RegistersKeepsOrder ==
    ASSUME VoiceInOrder, NEW mode \in {"function", "mcp"}, Registers(mode)
    PROVE  VoiceInOrder'
<1>1. stored = NoCall /\ used = Nothing /\ prov.next = 1 /\ UNCHANGED <<up, down, used>>
  BY DEF Registers
<1>2. stored' \in StoredRecord /\ stored'.mode = mode
  BY DEF Registers, StoredRecord
<1>3. rt' \in RuntimeRecord /\ rt'.live
  BY <1>2, FreshIsRuntime DEF Registers
<1>4. NeverRestarted
  BY <1>1 DEF NeverRestarted, Nothing
<1>5. up = <<>> /\ down = <<>>
  BY <1>1, <1>4 DEF VoiceInOrder, OneLife, InCall
<1>6. prov' \in ProviderRecord /\ prov'.next = prov.next
      /\ prov'.resp = prov.resp /\ prov'.last = prov.last
  <2> DEFINE listed == mode = "function"
  <2>1. prov' = [prov EXCEPT !.listed = listed] /\ listed \in BOOLEAN
    BY DEF Registers
  <2> HIDE DEF listed
  <2> QED
    BY <2>1 DEF VoiceInOrder, VoiceTypeOK, ProviderRecord
<1>7. prov'.resp = 0 /\ prov'.last = 0
  BY <1>1, <1>6 DEF VoiceInOrder, VoiceTypeOK
<1>8. OneToken(rt', up', prov', down')
  <2>1. Creates(up') = {}
    BY <1>1, <1>5 DEF Creates
  <2>2. Endings(down', rt'.finished) = {}
    BY <1>1, <1>5 DEF Endings
  <2> QED
    BY <1>1, <1>5, <1>7, <2>1, <2>2 DEF OneToken
<1>9. InCall'
  BY <1>2 DEF InCall, NoCall
<1>10. VoiceTypeOK'
  BY <1>1, <1>2, <1>3, <1>6, <1>7 DEF VoiceInOrder, VoiceTypeOK
<1> QED
  BY <1>1, <1>3, <1>5, <1>8, <1>9, <1>10 DEF VoiceInOrder, OneLife, Live

LEMMA CallEndsKeepsOrder == ASSUME VoiceInOrder, Ends \/ Stops \/ Restores PROVE VoiceInOrder'
<1>1. CASE Ends
  <2>1. stored' = NoCall /\ rt' = NoRuntime /\ up' = <<>> /\ down' = <<>> /\ UNCHANGED used
        /\ prov' = [prov EXCEPT !.listed = TRUE]
    BY <1>1 DEF Ends
  <2>2. prov' \in ProviderRecord /\ prov'.next = prov.next
        /\ prov'.resp = prov.resp /\ prov'.last = prov.last
    BY <2>1 DEF VoiceInOrder, VoiceTypeOK, ProviderRecord
  <2>3. NoCall \in StoredRecord /\ ~NoRuntime.live
    BY DEF NoCall, NoRuntime, StoredRecord
  <2>4. <<>> \in Seq(Request) /\ <<>> \in Seq(Event)
    BY EmptySeq
  <2>5. VoiceTypeOK' /\ ~Live' /\ ~InCall'
    BY <2>1, <2>2, <2>3, <2>4 DEF VoiceInOrder, VoiceTypeOK, Live, InCall
  <2> QED
    BY <2>1, <2>5 DEF VoiceInOrder, OneLife
<1>2. CASE Stops
  <2>1. rt' = NoRuntime /\ up' = <<>> /\ down' = <<>> /\ UNCHANGED <<stored, prov>>
        /\ Spend("restarts")
    BY <1>2 DEF Stops
  <2>2. used' \in UsedRecord /\ ~NeverRestarted'
    BY <2>1, SpendingCounts DEF VoiceInOrder, VoiceTypeOK
  <2>3. ~NoRuntime.live
    BY DEF NoRuntime
  <2>4. <<>> \in Seq(Request) /\ <<>> \in Seq(Event)
    BY EmptySeq
  <2>5. VoiceTypeOK'
    BY <2>1, <2>2, <2>3, <2>4 DEF VoiceInOrder, VoiceTypeOK, Live
  <2> QED
    BY <2>2, <2>5 DEF VoiceInOrder
<1>3. CASE Restores
  <2>1. ~Live /\ stored # NoCall /\ rt' = Fresh(stored) /\ UNCHANGED <<stored, prov, up, down, used>>
    BY <1>3 DEF Restores
  <2>2. ~NeverRestarted'
    BY <2>1 DEF VoiceInOrder, OneLife, InCall, NeverRestarted
  <2>3. rt' \in RuntimeRecord
    BY <2>1, FreshIsRuntime DEF VoiceInOrder, VoiceTypeOK
  <2>4. VoiceTypeOK'
    BY <2>1, <2>3 DEF VoiceInOrder, VoiceTypeOK
  <2> QED
    BY <2>2, <2>4 DEF VoiceInOrder
<1> QED
  BY <1>1, <1>2, <1>3

\* What the provider emits joins what is on its way, when the socket is open.
LEMMA EmissionJoins ==
    ASSUME VoiceTypeOK, NEW p, NEW es \in Seq(Event), Emits(p, es)
    PROVE  /\ prov' = p
           /\ down' \in Seq(Event)
           /\ (Live /\ rt.open) \/ down' = down
           /\ \A j \in DOMAIN down : j \in DOMAIN down' /\ down'[j] = down[j]
           /\ \A j \in DOMAIN down' : \/ j \in DOMAIN down
                                      \/ \E i \in DOMAIN es : down'[j] = es[i]
           /\ Live /\ rt.open => \A i \in DOMAIN es : \E j \in DOMAIN down' : down'[j] = es[i]
<1>1. down \in Seq(Event)
  BY DEF VoiceTypeOK
<1>2. CASE Live /\ rt.open
  <2> DEFINE q == down \o es
  <2>1. prov' = p /\ down' = q
    BY <1>2 DEF Emits, Watched
  <2>2. q \in Seq(Event) /\ Len(q) = Len(down) + Len(es)
        /\ \A i \in 1..Len(q) : q[i] = IF i <= Len(down) THEN down[i] ELSE es[i - Len(down)]
    BY <1>1, ConcatProperties
  <2>3. Len(down) \in Nat /\ Len(es) \in Nat /\ DOMAIN q = 1..Len(q)
        /\ DOMAIN down = 1..Len(down) /\ DOMAIN es = 1..Len(es)
    BY <1>1, <2>2, LenProperties
  <2> HIDE DEF q
  <2>4. \A j \in DOMAIN down : j \in DOMAIN q /\ q[j] = down[j]
    BY <2>2, <2>3
  <2>5. \A j \in DOMAIN q : j \in DOMAIN down \/ (j - Len(down) \in DOMAIN es /\ q[j] = es[j - Len(down)])
    BY <2>2, <2>3
  <2>6. \A i \in DOMAIN es : Len(down) + i \in DOMAIN q /\ q[Len(down) + i] = es[i]
    BY <2>2, <2>3
  <2> QED
    BY <1>2, <2>1, <2>2, <2>4, <2>5, <2>6
<1>3. CASE ~(Live /\ rt.open)
  BY <1>1, <1>3 DEF Emits, Watched
<1> QED
  BY <1>2, <1>3

\* It emits something else than the end of a response.
LEMMA EmissionKeepsToken ==
    ASSUME VoiceTypeOK, NEW p, NEW es \in Seq(Event), Emits(p, es),
           \A i \in DOMAIN es : es[i].t # "done", NEW out, OneToken(rt, out, prov, down),
           p.resp = prov.resp, p.last = prov.last
    PROVE  OneToken(rt, out, p, down')
<1>1. /\ \A j \in DOMAIN down : j \in DOMAIN down' /\ down'[j] = down[j]
      /\ \A j \in DOMAIN down' : \/ j \in DOMAIN down
                                 \/ \E i \in DOMAIN es : down'[j] = es[i]
  BY EmissionJoins
<1>2. Endings(down', rt.finished) = Endings(down, rt.finished)
  BY <1>1 DEF Endings
<1>3. \A j \in Endings(down', rt.finished) : down'[j] = down[j]
  BY <1>1, <1>2 DEF Endings
<1>4. \A i, j \in Endings(down', rt.finished) : down'[i].id = down'[j].id
  BY <1>2, <1>3 DEF OneToken
<1>5. (\E j \in DOMAIN down : down[j].t = "done" /\ down[j].id = prov.last)
      => \E j \in DOMAIN down' : down'[j].t = "done" /\ down'[j].id = prov.last
  BY <1>1
<1> QED
  BY <1>2, <1>4, <1>5 DEF OneToken

\* The provider's steps: the types, and the token where it is owed.
LEMMA ProviderKeepsOrder ==
    ASSUME VoiceInOrder, NEW p \in ProviderRecord, NEW es \in Seq(Event), Emits(p, es),
           UNCHANGED <<stored, rt>>, up' \in Seq(Request), used' \in UsedRecord,
           NeverRestarted' => NeverRestarted,
           p.next = 1 => p.resp = 0 /\ p.last = 0,
           up = <<>> => up' = <<>>,
           NeverRestarted /\ Managed /\ Live => OneToken(rt, up', p, down')
    PROVE  VoiceInOrder'
<1>1. prov' = p /\ down' \in Seq(Event) /\ (Live \/ down' = down)
  BY EmissionJoins DEF VoiceInOrder
<1>2. VoiceTypeOK'
  BY <1>1 DEF VoiceInOrder, VoiceTypeOK, Live
<1>3. NeverRestarted' => OneLife'
  BY <1>1 DEF VoiceInOrder, OneLife, Live, InCall
<1> QED
  BY <1>1, <1>2, <1>3 DEF VoiceInOrder, Live, Managed

\* A step that takes no request and neither begins nor ends a response.
LEMMA PlainStepKeepsOrder ==
    ASSUME VoiceInOrder, NEW p \in ProviderRecord, NEW es \in Seq(Event), Emits(p, es),
           UNCHANGED <<stored, rt, up>>, used' \in UsedRecord, NeverRestarted' => NeverRestarted,
           p.next = prov.next, p.resp = prov.resp, p.last = prov.last,
           \A i \in DOMAIN es : es[i].t # "done"
    PROVE  VoiceInOrder'
<1>1. NeverRestarted /\ Managed /\ Live => OneToken(rt, up', p, down')
  BY EmissionKeepsToken DEF VoiceInOrder
<1>2. up' \in Seq(Request) /\ (p.next = 1 => p.resp = 0 /\ p.last = 0)
  BY DEF VoiceInOrder, VoiceTypeOK
<1> QED
  BY <1>1, <1>2, ProviderKeepsOrder

\* What is emitted at once.
LEMMA Emissions ==
    /\ <<>> \in Seq(Event) /\ DOMAIN <<>> = {}
    /\ \A x \in Event : <<x>> \in Seq(Event) /\ DOMAIN <<x>> = {1} /\ <<x>>[1] = x
    /\ \A x, y \in Event : /\ <<x, y>> \in Seq(Event) /\ DOMAIN <<x, y>> = {1, 2}
                           /\ <<x, y>>[1] = x /\ <<x, y>>[2] = y
<1>1. <<>> \in Seq(Event) /\ DOMAIN <<>> = {}
  BY EmptySeq
<1>2. ASSUME NEW x \in Event
      PROVE  <<x>> \in Seq(Event) /\ DOMAIN <<x>> = {1} /\ <<x>>[1] = x
  OBVIOUS
<1>3. ASSUME NEW x \in Event, NEW y \in Event
      PROVE  /\ <<x, y>> \in Seq(Event) /\ DOMAIN <<x, y>> = {1, 2}
             /\ <<x, y>>[1] = x /\ <<x, y>>[2] = y
  OBVIOUS
<1> QED
  BY <1>1, <1>2, <1>3

LEMMA UsedStays ==
    ASSUME VoiceInOrder, UNCHANGED used
    PROVE  used' \in UsedRecord /\ (NeverRestarted' => NeverRestarted)
BY DEF VoiceInOrder, VoiceTypeOK, NeverRestarted

\* Steps of the person, of the sound and of tools.
LEMMA PersonKeepsOrder ==
    ASSUME VoiceInOrder,
           ListsTools \/ Speaks \/ FallsSilent \/ CallsFunction \/ CallsRemoteTool
           \/ RemoteToolEnds \/ Plays \/ FallsQuiet
    PROVE  VoiceInOrder'
<1>0. prov \in ProviderRecord
  BY DEF VoiceInOrder, VoiceTypeOK
<1> USE DEF ProviderRecord
<1>1. CASE ListsTools
  <2> DEFINE p == [prov EXCEPT !.listed = TRUE]
             x == [t |-> "tools_listed"]
  <2>1. Emits(p, <<x>>) /\ UNCHANGED <<stored, rt, up, used>>
    BY <1>1 DEF ListsTools
  <2>2. p \in ProviderRecord /\ p.next = prov.next /\ p.resp = prov.resp /\ p.last = prov.last
    BY <1>0
  <2>3. x \in Event /\ x.t # "done"
    BY DEF Event, PlainEvents
  <2> HIDE DEF p, x
  <2>4. <<x>> \in Seq(Event) /\ \A i \in DOMAIN <<x>> : <<x>>[i].t # "done"
    BY <2>3, Emissions
  <2> QED
    BY <2>1, <2>2, <2>4, UsedStays, PlainStepKeepsOrder
<1>2. CASE Speaks
  <2> DEFINE cut == Answering
             p == [prov EXCEPT !.user = "speaking", !.cut = cut]
             x == [t |-> "speech_started"]
  <2>1. Emits(p, <<x>>) /\ UNCHANGED <<stored, rt, up>> /\ Spend("speech")
    BY <1>2 DEF Speaks
  <2>2. cut \in BOOLEAN
    BY DEF Answering
  <2> HIDE DEF cut
  <2>3. p \in ProviderRecord /\ p.next = prov.next /\ p.resp = prov.resp /\ p.last = prov.last
    BY <1>0, <2>2
  <2>4. x \in Event /\ x.t # "done"
    BY DEF Event, PlainEvents
  <2> HIDE DEF p, x
  <2>5. <<x>> \in Seq(Event) /\ \A i \in DOMAIN <<x>> : <<x>>[i].t # "done"
    BY <2>4, Emissions
  <2>6. used' \in UsedRecord /\ (NeverRestarted' => NeverRestarted)
    BY <2>1, SpendingCounts DEF VoiceInOrder, VoiceTypeOK
  <2> QED
    BY <2>1, <2>3, <2>5, <2>6, PlainStepKeepsOrder
<1>3. CASE FallsSilent
  <2> DEFINE p == [prov EXCEPT !.user = "quiet", !.owed = TRUE]
             x == [t |-> "speech_stopped"]
             y == [t |-> "committed"]
  <2>1. Emits(p, <<x, y>>) /\ UNCHANGED <<stored, rt, up, used>>
    BY <1>3 DEF FallsSilent
  <2>2. p \in ProviderRecord /\ p.next = prov.next /\ p.resp = prov.resp /\ p.last = prov.last
    BY <1>0
  <2>3. x \in Event /\ x.t # "done" /\ y \in Event /\ y.t # "done"
    BY DEF Event, PlainEvents
  <2> HIDE DEF p, x, y
  <2>4. <<x, y>> \in Seq(Event) /\ \A i \in DOMAIN <<x, y>> : <<x, y>>[i].t # "done"
    BY <2>3, Emissions
  <2> QED
    BY <2>1, <2>2, <2>4, UsedStays, PlainStepKeepsOrder
<1>4. CASE CallsFunction
  <2> DEFINE stage == prov.stage + 1
             p == [prov EXCEPT !.stage = stage]
             x == [t |-> "function_call", id |-> prov.resp]
  <2>1. Emits(p, <<x>>) /\ UNCHANGED <<stored, rt, up>> /\ (Spend("tools") \/ UNCHANGED used)
    BY <1>4 DEF CallsFunction
  <2>2. stage \in Nat
    BY <1>0
  <2>3. x \in Event /\ x.t # "done"
    BY <1>0 DEF Event, PlainEvents
  <2> HIDE DEF stage, x
  <2>4. p \in ProviderRecord /\ p.next = prov.next /\ p.resp = prov.resp /\ p.last = prov.last
    BY <1>0, <2>2
  <2> HIDE DEF p
  <2>5. <<x>> \in Seq(Event) /\ \A i \in DOMAIN <<x>> : <<x>>[i].t # "done"
    BY <2>3, Emissions
  <2>6. used' \in UsedRecord /\ (NeverRestarted' => NeverRestarted)
    <3>1. CASE Spend("tools")
      BY <3>1, SpendingCounts DEF VoiceInOrder, VoiceTypeOK
    <3>2. CASE UNCHANGED used
      BY <3>2, UsedStays
    <3> QED
      BY <2>1, <3>1, <3>2
  <2> QED
    BY <2>1, <2>4, <2>5, <2>6, PlainStepKeepsOrder
<1>5. CASE CallsRemoteTool
  <2> DEFINE mcp == prov.mcp \cup {prov.resp}
             p == [prov EXCEPT !.stage = 2, !.mcp = mcp]
             x == [t |-> "mcp_started", id |-> prov.resp]
  <2>1. Emits(p, <<x>>) /\ UNCHANGED <<stored, rt, up>> /\ Spend("tools")
    BY <1>5 DEF CallsRemoteTool
  <2>2. mcp \in SUBSET Nat
    BY <1>0
  <2>3. x \in Event /\ x.t # "done"
    BY <1>0 DEF Event, PlainEvents
  <2> HIDE DEF mcp, x
  <2>4. p \in ProviderRecord /\ p.next = prov.next /\ p.resp = prov.resp /\ p.last = prov.last
    BY <1>0, <2>2
  <2> HIDE DEF p
  <2>5. <<x>> \in Seq(Event) /\ \A i \in DOMAIN <<x>> : <<x>>[i].t # "done"
    BY <2>3, Emissions
  <2>6. used' \in UsedRecord /\ (NeverRestarted' => NeverRestarted)
    BY <2>1, SpendingCounts DEF VoiceInOrder, VoiceTypeOK
  <2> QED
    BY <2>1, <2>4, <2>5, <2>6, PlainStepKeepsOrder
<1>6. CASE RemoteToolEnds
  <2>1. PICK id \in prov.mcp :
          Emits([prov EXCEPT !.mcp = prov.mcp \ {id}], << [t |-> "mcp_ended", id |-> id] >>)
    BY <1>6 DEF RemoteToolEnds
  <2>2. UNCHANGED <<stored, rt, up, used>>
    BY <1>6 DEF RemoteToolEnds
  <2> DEFINE mcp == prov.mcp \ {id}
             p == [prov EXCEPT !.mcp = mcp]
             x == [t |-> "mcp_ended", id |-> id]
  <2>3. mcp \in SUBSET Nat /\ id \in Nat
    BY <1>0
  <2>4. x \in Event /\ x.t # "done"
    BY <2>3 DEF Event, PlainEvents
  <2>5. Emits(p, <<x>>)
    BY <2>1
  <2> HIDE DEF mcp, x
  <2>6. p \in ProviderRecord /\ p.next = prov.next /\ p.resp = prov.resp /\ p.last = prov.last
    BY <1>0, <2>3
  <2> HIDE DEF p
  <2>7. <<x>> \in Seq(Event) /\ \A i \in DOMAIN <<x>> : <<x>>[i].t # "done"
    BY <2>4, Emissions
  <2> QED
    BY <2>2, <2>5, <2>6, <2>7, UsedStays, PlainStepKeepsOrder
<1>7. CASE Plays \/ FallsQuiet
  <2>1. PICK sound \in {"on", "over"}, x \in {[t |-> "audio_started"], [t |-> "audio_stopped"]} :
          Emits([prov EXCEPT !.sound = sound], << x >>)
    BY <1>7 DEF Plays, FallsQuiet
  <2>2. UNCHANGED <<stored, rt, up, used>>
    BY <1>7 DEF Plays, FallsQuiet
  <2> DEFINE p == [prov EXCEPT !.sound = sound]
  <2>3. x \in Event /\ x.t # "done"
    BY DEF Event, PlainEvents
  <2>4. p \in ProviderRecord /\ p.next = prov.next /\ p.resp = prov.resp /\ p.last = prov.last
    BY <1>0
  <2>5. Emits(p, <<x>>)
    BY <2>1
  <2> HIDE DEF p
  <2>6. <<x>> \in Seq(Event) /\ \A i \in DOMAIN <<x>> : <<x>>[i].t # "done"
    BY <2>3, Emissions
  <2> QED
    BY <2>2, <2>4, <2>5, <2>6, UsedStays, PlainStepKeepsOrder
<1> QED
  BY <1>1, <1>2, <1>3, <1>4, <1>5, <1>6, <1>7

\* The provider answers.
LEMMA RespondFits ==
    ASSUME VoiceInOrder
    PROVE  /\ Respond(prov) \in ProviderRecord
           /\ Respond(prov).next # 1
           /\ Respond(prov).resp = prov.next
           /\ Respond(prov).last = prov.last
           /\ [t |-> "created", id |-> prov.next] \in Event
<1> DEFINE next == prov.next + 1
           sound == IF prov.sound = "over" THEN "none" ELSE prov.sound
<1>1. prov \in ProviderRecord
  BY DEF VoiceInOrder, VoiceTypeOK
<1>2. next \in Nat \ {0} /\ next # 1 /\ sound \in {"none", "on", "over"} /\ prov.next \in Nat \ {0}
  BY <1>1 DEF ProviderRecord
<1>3. Respond(prov) = [prov EXCEPT !.resp = prov.next, !.next = next, !.stage = 0, !.cut = FALSE,
                                   !.owed = FALSE, !.sound = sound]
  BY DEF Respond
<1>4. [t |-> "created", id |-> prov.next] \in Event
  BY <1>2 DEF Event, PlainEvents
<1> DEFINE first == prov.next
           a == [prov EXCEPT !.resp = first, !.next = next, !.stage = 0]
           b == [a EXCEPT !.cut = FALSE, !.owed = FALSE, !.sound = sound]
<1>5. Respond(prov) = b
  BY <1>1, <1>3 DEF ProviderRecord
<1>6. first \in Nat
  BY <1>2
<1> HIDE DEF next, sound, first
<1>7. a \in ProviderRecord /\ a.resp = first /\ a.next = next /\ a.last = prov.last
  BY <1>1, <1>2, <1>6 DEF ProviderRecord
<1> HIDE DEF a
<1>8. b \in ProviderRecord /\ b.resp = first /\ b.next = next /\ b.last = prov.last
  BY <1>2, <1>7 DEF ProviderRecord
<1> QED
  BY <1>2, <1>4, <1>5, <1>8 DEF first

LEMMA RequestsKeepOrder ==
    ASSUME VoiceInOrder, ReadsCreate \/ ReadsCancel \/ ReadsClear
    PROVE  VoiceInOrder'
<1>1. prov \in ProviderRecord /\ up \in Seq(Request) /\ VoiceTypeOK
      /\ (prov.next = 1 => prov.resp = 0 /\ prov.last = 0)
  BY DEF VoiceInOrder, VoiceTypeOK
<1>2. up # <<>> /\ up' = Tail(up) /\ UNCHANGED <<stored, rt, used>>
  BY DEF ReadsCreate, ReadsCancel, ReadsClear
<1>3. up' \in Seq(Request)
  BY <1>1, <1>2, HeadTailProperties
<1>4. used' \in UsedRecord /\ (NeverRestarted' => NeverRestarted)
  BY <1>2, UsedStays
<1>5. NeverRestarted /\ Managed /\ Live => OneToken(rt, up', prov, down)
  BY <1>1, <1>2, TailKeepsToken DEF VoiceInOrder
<1>6. ASSUME NEW p \in ProviderRecord, NEW es \in Seq(Event), Emits(p, es),
             p.next = prov.next, p.resp = prov.resp, p.last = prov.last,
             \A i \in DOMAIN es : es[i].t # "done"
      PROVE  VoiceInOrder'
  <2>1. NeverRestarted /\ Managed /\ Live => OneToken(rt, up', p, down')
    BY <1>1, <1>5, <1>6, EmissionKeepsToken
  <2>2. p.next = 1 => p.resp = 0 /\ p.last = 0
    BY <1>1, <1>6
  <2> QED
    BY <1>2, <1>3, <1>4, <1>6, <2>1, <2>2, ProviderKeepsOrder
<1>7. <<>> \in Seq(Event) /\ \A i \in DOMAIN <<>> : <<>>[i].t # "done"
  BY Emissions
<1>8. CASE ReadsCreate /\ Answering
  <2>1. Emits(prov, <<>>)
    BY <1>8 DEF ReadsCreate
  <2> QED
    BY <1>1, <1>6, <1>7, <2>1
<1>9. CASE ReadsCreate /\ ~Answering
  <2> DEFINE p == Respond(prov)
             x == [t |-> "created", id |-> prov.next]
  <2>1. Emits(p, <<x>>) /\ Head(up).op = "create"
    BY <1>9 DEF ReadsCreate
  <2>2. p \in ProviderRecord /\ p.next # 1 /\ p.resp = prov.next /\ p.last = prov.last /\ x \in Event
    BY RespondFits
  <2>3. x.t # "done"
    OBVIOUS
  <2> HIDE DEF p, x
  <2>4. <<x>> \in Seq(Event) /\ \A i \in DOMAIN <<x>> : <<x>>[i] = x
    BY <2>2, Emissions
  <2>5. ASSUME NeverRestarted, Managed, Live
        PROVE  OneToken(rt, up', p, down')
    <3>1. OneToken(rt, up, prov, down)
      BY <2>5 DEF VoiceInOrder
    <3>2. Creates(up') = {} /\ 1 \in Creates(up)
      BY <1>1, <1>2, <2>1, <3>1, TailKeepsToken
    <3>3. Endings(down, rt.finished) = {} /\ rt.active /\ rt.open
      BY <1>2, <3>1, <3>2 DEF OneToken
    <3>4. /\ \A j \in DOMAIN down : j \in DOMAIN down' /\ down'[j] = down[j]
          /\ \A j \in DOMAIN down' : \/ j \in DOMAIN down
                                     \/ \E i \in DOMAIN <<x>> : down'[j] = <<x>>[i]
      BY <1>1, <2>1, <2>4, EmissionJoins
    <3>5. Endings(down', rt.finished) = {}
      <4> SUFFICES ASSUME NEW j \in Endings(down', rt.finished)
                   PROVE  FALSE
        OBVIOUS
      <4>1. j \in DOMAIN down' /\ down'[j].t = "done" /\ down'[j].id \notin rt.finished
        BY DEF Endings
      <4>2. CASE j \in DOMAIN down
        BY <3>3, <3>4, <4>1, <4>2 DEF Endings
      <4>3. CASE down'[j] = x
        BY <2>3, <4>1, <4>3
      <4> QED
        BY <2>4, <3>4, <4>1, <4>2, <4>3
    <3>6. prov.last # 0 => \/ prov.last \in rt.finished
                           \/ \E j \in DOMAIN down' : down'[j].t = "done" /\ down'[j].id = prov.last
      BY <3>1, <3>4 DEF OneToken
    <3> QED
      BY <2>2, <3>2, <3>3, <3>5, <3>6 DEF OneToken
  <2> QED
    BY <1>2, <1>3, <1>4, <2>1, <2>2, <2>4, <2>5, ProviderKeepsOrder
<1>10. CASE ReadsCancel
  <2> DEFINE cut == Answering
             p == [prov EXCEPT !.cut = cut]
  <2>1. Emits(p, <<>>)
    BY <1>10 DEF ReadsCancel
  <2>2. cut \in BOOLEAN
    BY DEF Answering
  <2> HIDE DEF cut
  <2>3. p \in ProviderRecord /\ p.next = prov.next /\ p.resp = prov.resp /\ p.last = prov.last
    BY <1>1, <2>2 DEF ProviderRecord
  <2> HIDE DEF p
  <2> QED
    BY <1>6, <1>7, <2>1, <2>3
<1>11. CASE ReadsClear
  <2> DEFINE a == [prov EXCEPT !.user = "quiet", !.owed = FALSE]
             b == [prov EXCEPT !.sound = "over"]
             x == [t |-> "audio_stopped"]
  <2>1. Emits(a, <<>>) \/ Emits(b, <<x>>) \/ Emits(b, <<>>)
    BY <1>11 DEF ReadsClear
  <2>2. /\ a \in ProviderRecord /\ a.next = prov.next /\ a.resp = prov.resp /\ a.last = prov.last
        /\ b \in ProviderRecord /\ b.next = prov.next /\ b.resp = prov.resp /\ b.last = prov.last
    BY <1>1 DEF ProviderRecord
  <2>3. x \in Event /\ x.t # "done"
    BY DEF Event, PlainEvents
  <2> HIDE DEF a, b, x
  <2>4. <<x>> \in Seq(Event) /\ \A i \in DOMAIN <<x>> : <<x>>[i].t # "done"
    BY <2>3, Emissions
  <2> QED
    BY <1>6, <1>7, <2>1, <2>2, <2>4
<1> QED
  BY <1>8, <1>9, <1>10, <1>11

LEMMA AnswersKeepsOrder == ASSUME VoiceInOrder, AnswersTurn PROVE VoiceInOrder'
<1> DEFINE p == Respond(prov)
           x == [t |-> "created", id |-> prov.next]
<1>1. Emits(p, <<x>>) /\ ~Managed /\ UNCHANGED <<stored, rt, up, used>>
  BY DEF AnswersTurn
<1>2. p \in ProviderRecord /\ p.next # 1 /\ x \in Event
  BY RespondFits
<1> HIDE DEF p, x
<1>3. <<x>> \in Seq(Event)
  BY <1>2, Emissions
<1>4. up' \in Seq(Request) /\ (up = <<>> => up' = <<>>)
  BY <1>1 DEF VoiceInOrder, VoiceTypeOK
<1> QED
  BY <1>1, <1>2, <1>3, <1>4, UsedStays, ProviderKeepsOrder

\* A response ends.
LEMMA OverKeepsOrder ==
    ASSUME VoiceInOrder, NEW ok \in BOOLEAN, Answering, Over(ok), UNCHANGED <<stored, rt, up>>,
           used' \in UsedRecord, NeverRestarted' => NeverRestarted
    PROVE  VoiceInOrder'
<1> DEFINE id == prov.resp
           of == prov.stage > 0
           p == [prov EXCEPT !.resp = 0, !.last = id]
           x == [t |-> "done", id |-> id, ok |-> ok, call |-> of]
<1>1. Emits(p, <<x>>)
  BY DEF Over
<1>2. prov \in ProviderRecord /\ up \in Seq(Request) /\ VoiceTypeOK
  BY DEF VoiceInOrder, VoiceTypeOK
<1>3. id \in Nat /\ id # 0 /\ of \in BOOLEAN
  BY <1>2 DEF ProviderRecord, Answering
<1>4. prov.next # 1
  BY <1>3 DEF VoiceInOrder, VoiceTypeOK
<1> HIDE DEF of
<1>5. x \in Event /\ x.t = "done" /\ x.id = id
  BY <1>3 DEF Event, PlainEvents
<1>6. p \in ProviderRecord /\ p.next = prov.next /\ p.resp = 0 /\ p.last = id
  BY <1>2, <1>3 DEF ProviderRecord
<1> HIDE DEF p, x
<1>7. <<x>> \in Seq(Event) /\ DOMAIN <<x>> = {1} /\ <<x>>[1] = x
  BY <1>5, Emissions
<1>8. ASSUME NeverRestarted, Managed, Live
      PROVE  OneToken(rt, up', p, down')
  <2>1. OneToken(rt, up, prov, down)
    BY <1>8 DEF VoiceInOrder
  <2>2. Endings(down, rt.finished) = {} /\ Creates(up) = {} /\ rt.active /\ rt.open
    BY <1>3, <2>1 DEF OneToken
  <2>3. /\ \A j \in DOMAIN down : j \in DOMAIN down' /\ down'[j] = down[j]
        /\ \A j \in DOMAIN down' : \/ j \in DOMAIN down
                                   \/ \E i \in DOMAIN <<x>> : down'[j] = <<x>>[i]
        /\ \A i \in DOMAIN <<x>> : \E j \in DOMAIN down' : down'[j] = <<x>>[i]
    BY <1>1, <1>2, <1>7, <1>8, <2>2, EmissionJoins
  <2>4. \A j \in Endings(down', rt.finished) : down'[j].id = id
    <3> SUFFICES ASSUME NEW j \in Endings(down', rt.finished)
                 PROVE  down'[j].id = id
      OBVIOUS
    <3>1. j \in DOMAIN down' /\ down'[j].t = "done" /\ down'[j].id \notin rt.finished
      BY DEF Endings
    <3>2. CASE j \in DOMAIN down
      BY <2>2, <2>3, <3>1, <3>2 DEF Endings
    <3>3. CASE down'[j] = x
      BY <1>5, <3>3
    <3> QED
      BY <1>7, <2>3, <3>1, <3>2, <3>3
  <2>5. \E j \in DOMAIN down' : down'[j].t = "done" /\ down'[j].id = id
    BY <1>5, <1>7, <2>3
  <2>6. \A i, j \in Endings(down', rt.finished) : down'[i].id = down'[j].id
    BY <2>4
  <2>7. up' = up
    OBVIOUS
  <2> QED
    BY <1>6, <2>2, <2>5, <2>6, <2>7 DEF OneToken
<1>9. p.next # 1 /\ up' = up /\ UNCHANGED <<stored, rt>>
  BY <1>4, <1>6
<1> QED
  BY <1>1, <1>2, <1>6, <1>7, <1>8, <1>9, ProviderKeepsOrder

\* The end of the last response is told again.
LEMMA RepeatKeepsOrder == ASSUME VoiceInOrder, RepeatsDone PROVE VoiceInOrder'
<1> DEFINE id == prov.last
           x == [t |-> "done", id |-> id, ok |-> FALSE, call |-> FALSE]
<1>1. Emits(prov, <<x>>) /\ id # 0 /\ Spend("repeats") /\ UNCHANGED <<stored, rt, up>>
  BY DEF RepeatsDone
<1>2. prov \in ProviderRecord /\ up \in Seq(Request) /\ VoiceTypeOK
      /\ (prov.next = 1 => prov.resp = 0 /\ prov.last = 0)
  BY DEF VoiceInOrder, VoiceTypeOK
<1>3. used' \in UsedRecord /\ (NeverRestarted' => NeverRestarted)
  BY <1>1, <1>2, SpendingCounts DEF VoiceTypeOK
<1>4. x \in Event /\ x.t = "done" /\ x.id = id
  BY <1>2 DEF Event, PlainEvents, ProviderRecord
<1> HIDE DEF x
<1>5. <<x>> \in Seq(Event) /\ DOMAIN <<x>> = {1} /\ <<x>>[1] = x
  BY <1>4, Emissions
<1>6. ASSUME NeverRestarted, Managed, Live
      PROVE  OneToken(rt, up', prov, down')
  <2>1. OneToken(rt, up, prov, down) /\ up' = up
    BY <1>1, <1>6 DEF VoiceInOrder
  <2>2. /\ \A j \in DOMAIN down : j \in DOMAIN down' /\ down'[j] = down[j]
        /\ \A j \in DOMAIN down' : j \in DOMAIN down \/ down'[j] = x
    <3>1. /\ \A j \in DOMAIN down : j \in DOMAIN down' /\ down'[j] = down[j]
          /\ \A j \in DOMAIN down' : \/ j \in DOMAIN down
                                     \/ \E i \in DOMAIN <<x>> : down'[j] = <<x>>[i]
      BY <1>1, <1>2, <1>5, EmissionJoins
    <3> QED
      BY <1>5, <3>1
  <2>3. rt.open
    BY <1>1, <2>1 DEF OneToken
  <2>4. \A j \in Endings(down', rt.finished) :
           \/ j \in Endings(down, rt.finished) /\ down'[j] = down[j]
           \/ down'[j] = x /\ id \notin rt.finished
    BY <1>4, <2>2 DEF Endings
  <2>5. \/ id \in rt.finished
        \/ \E j \in DOMAIN down : down[j].t = "done" /\ down[j].id = id
    BY <1>1, <2>1 DEF OneToken
  <2>6. \/ id \in rt.finished
        \/ \E j \in DOMAIN down' : down'[j].t = "done" /\ down'[j].id = id
    BY <2>2, <2>5
  <2>7. CASE id \in rt.finished
    <3>1. \A j \in Endings(down', rt.finished) : j \in Endings(down, rt.finished) /\ down'[j] = down[j]
      BY <2>4, <2>7
    <3>2. Endings(down, rt.finished) = {} => Endings(down', rt.finished) = {}
      BY <3>1
    <3>3. \A i, j \in Endings(down', rt.finished) : down'[i].id = down'[j].id
      BY <2>1, <3>1 DEF OneToken
    <3> QED
      BY <2>1, <2>6, <3>2, <3>3 DEF OneToken
  <2>8. CASE id \notin rt.finished
    <3>1. PICK k \in DOMAIN down : down[k].t = "done" /\ down[k].id = id
      BY <2>5, <2>8
    <3>2. k \in Endings(down, rt.finished)
      BY <2>8, <3>1 DEF Endings
    <3>3. Creates(up) = {} /\ prov.resp = 0 /\ rt.active
      BY <2>1, <3>2 DEF OneToken
    <3>4. \A j \in Endings(down, rt.finished) : down[j].id = id
      BY <2>1, <3>1, <3>2 DEF OneToken
    <3>5. \A j \in Endings(down', rt.finished) : down'[j].id = id
      BY <1>4, <2>4, <3>4
    <3>6. \A i, j \in Endings(down', rt.finished) : down'[i].id = down'[j].id
      BY <3>5
    <3> QED
      BY <2>1, <2>3, <2>6, <3>3, <3>6 DEF OneToken
  <2> QED
    BY <2>7, <2>8
<1>7. up' = up
  BY <1>1
<1> QED
  BY <1>1, <1>2, <1>3, <1>5, <1>6, <1>7, ProviderKeepsOrder

LEMMA VoiceStarts == VoiceInit => VoiceInOrder
<1> SUFFICES ASSUME VoiceInit PROVE VoiceInOrder
  OBVIOUS
<1>1. stored \in StoredRecord /\ ~Live /\ ~InCall
  BY DEF VoiceInit, NoCall, NoRuntime, StoredRecord, Live, InCall
<1>2. prov \in ProviderRecord /\ prov.resp = 0 /\ prov.last = 0
  BY DEF VoiceInit, QuietProvider, ProviderRecord
<1>3. used \in UsedRecord
  BY DEF VoiceInit, Nothing, UsedRecord
<1>4. up \in Seq(Request) /\ down \in Seq(Event) /\ up = <<>> /\ down = <<>>
  BY EmptySeq DEF VoiceInit
<1> QED
  BY <1>1, <1>2, <1>3, <1>4 DEF VoiceInit, VoiceInOrder, VoiceTypeOK, OneLife

\* However the requests of the relay and the events of the provider cross, of
\* the request for a response, the response and the news of its end there is
\* one at most: the inductive invariant of a call.
THEOREM CallsAreInOrder == VoiceSpec => []VoiceInOrder
<1>1. VoiceInOrder /\ [VoiceNext]_voiceVars => VoiceInOrder'
  <2> SUFFICES ASSUME VoiceInOrder, [VoiceNext]_voiceVars
               PROVE  VoiceInOrder'
    OBVIOUS
  <2>1. CASE \E mode \in {"function", "mcp"} : Registers(mode)
    BY <2>1, RegistersKeepsOrder
  <2>2. CASE Opens \/ Begins \/ Hears
    BY <2>2, OpensKeepsOrder, BeginsKeepsOrder, HearsKeepsOrder
  <2>3. CASE ToolReturns \/ TypesText \/ Injects
    BY <2>3, ReturnsKeepsOrder, TypesTextKeepsOrder, InjectsKeepsOrder
  <2>4. CASE Ends \/ Stops \/ Restores
    BY <2>4, CallEndsKeepsOrder
  <2>5. CASE ReadsCreate \/ ReadsCancel \/ ReadsClear
    BY <2>5, RequestsKeepOrder
  <2>6. CASE ListsTools \/ Speaks \/ FallsSilent \/ CallsFunction \/ CallsRemoteTool
             \/ RemoteToolEnds \/ Plays \/ FallsQuiet
    BY <2>6, PersonKeepsOrder
  <2>7. CASE AnswersTurn \/ RepeatsDone
    BY <2>7, AnswersKeepsOrder, RepeatKeepsOrder
  <2>8. CASE Completes \/ IsCutOff \/ Fails
    <3>1. \E ok \in BOOLEAN : Over(ok)
      BY <2>8 DEF Completes, IsCutOff, Fails
    <3>2. Answering /\ UNCHANGED <<stored, rt, up>> /\ (UNCHANGED used \/ Spend("failures"))
      BY <2>8 DEF Completes, IsCutOff, Fails
    <3>3. used' \in UsedRecord /\ (NeverRestarted' => NeverRestarted)
      <4>1. CASE UNCHANGED used
        BY <4>1, UsedStays
      <4>2. CASE Spend("failures")
        BY <4>2, SpendingCounts DEF VoiceInOrder, VoiceTypeOK
      <4> QED
        BY <3>2, <4>1, <4>2
    <3> QED
      BY <3>1, <3>2, <3>3, OverKeepsOrder
  <2>9. CASE UNCHANGED voiceVars
    BY <2>9 DEF voiceVars, VoiceInOrder, VoiceTypeOK, OneLife, NeverRestarted, Live, InCall, Managed
  <2> QED
    BY <2>1, <2>2, <2>3, <2>4, <2>5, <2>6, <2>7, <2>8, <2>9 DEF VoiceNext, ProviderNext
<1> QED
  BY <1>1, VoiceStarts, PTL DEF VoiceSpec

\* A request for a response reaches a browser call's provider only when none is
\* under way (createResponse and the bookkeeping of broker.ts).
THEOREM ResponsesTakeTurns == VoiceSpec => []OneResponseAtATime
<1>1. VoiceInOrder => OneResponseAtATime
  <2> SUFFICES ASSUME VoiceInOrder, Managed, NeverRestarted, up # <<>>, Head(up).op = "create"
               PROVE  ~Answering
    BY DEF OneResponseAtATime
  <2>1. Live /\ up \in Seq(Request)
    BY DEF VoiceInOrder, VoiceTypeOK, OneLife
  <2>2. OneToken(rt, up, prov, down)
    BY <2>1 DEF VoiceInOrder
  <2>3. 1 \in Creates(up)
    BY <2>1, <2>2, TailKeepsToken
  <2> QED
    BY <2>2, <2>3 DEF OneToken, Answering
<1> QED
  BY <1>1, CallsAreInOrder, PTL
-----------------------------------------------------------------------------
(* A tool begins once *)

\* Nobody is heard to fall silent between two places of what is on its way.
NoPause(d, j, i) == \A k \in (j + 1)..(i - 1) : d[k].t # "speech_stopped"

\* The person is speaking at place i, for a runtime that hears what comes
\* before it.
SpokenAt(d, speaking, i) ==
    \/ \E j \in 1..(i - 1) : d[j].t = "speech_started" /\ NoPause(d, j, i)
    \/ speaking /\ NoPause(d, 0, i)

\* Nobody has spoken over response c by place i: all speech comes before it.
NotSpokenOver(d, over, c, i) ==
    /\ c \notin over
    /\ \A j \in 1..(i - 1) : d[j].t = "speech_started" =>
          \E k \in (j + 1)..(i - 1) : d[k].t = "created" /\ d[k].id = c

\* The responses on their way are announced in their order.
NewsInOrder(d, respId, next) ==
    /\ \A i \in DOMAIN d : d[i].t # "mcp_started"
    /\ \A i \in DOMAIN d : d[i].t \in {"created", "function_call", "done"}
                           => d[i].id \in 1..(next - 1)
    /\ \A i \in DOMAIN d : d[i].t = "created" => respId < d[i].id
    /\ \A i, j \in DOMAIN d : i < j /\ d[i].t = "created" /\ d[j].t = "created"
                              => d[i].id < d[j].id

\* A tool call is announced while the person is heard speaking, or of a
\* response nobody spoke over; and only such a response completes.
CallsInTime(d, speaking, over) ==
    \A i \in DOMAIN d :
        /\ d[i].t = "function_call" => \/ SpokenAt(d, speaking, i)
                                       \/ NotSpokenOver(d, over, d[i].id, i)
        /\ d[i].t = "done" /\ d[i].ok => NotSpokenOver(d, over, d[i].id, i)

\* The response under way: the provider cut it off when somebody spoke over it.
CutInTime(p, d, speaking, over) ==
    p.resp # 0 =>
        \/ NotSpokenOver(d, over, p.resp, Len(d) + 1)
        \/ p.cut /\ (p.user = "speaking" => SpokenAt(d, speaking, Len(d) + 1))

\* What this relay process began it has marked.
ToolsMarked(r, b) == b \subseteq r.handled /\ \A t \in r.tools : t.id \in b

AttendedCall ==
    /\ ~rt.open => down = <<>> /\ cutOver = {}
    /\ ToolsMarked(rt, begun)
    /\ NewsInOrder(down, rt.respId, prov.next)
    /\ CallsInTime(down, rt.speaking, cutOver)
    /\ CutInTime(prov, down, rt.speaking, cutOver)

ToolsInOrder ==
    /\ prov.resp < prov.next /\ prov.last < prov.next
    /\ begun \cup cutOver \subseteq 1..(prov.next - 1)
    /\ ~Live => down = <<>>
    /\ Live => /\ rt.respId < prov.next
               /\ \A i \in DOMAIN down : down[i].t = "created" => down[i].id \in 1..(prov.next - 1)
    /\ Live /\ Managed => AttendedCall

\* What a handler that begins no tool leaves alone.
Attends(m, n) ==
    /\ n \in Machine
    /\ n.r.open = m.r.open /\ n.r.speaking = m.r.speaking /\ n.r.respId = m.r.respId
    /\ n.r.tools = m.r.tools /\ n.r.handled = m.r.handled

LEMMA AttendsTwice ==
    ASSUME NEW m, NEW n, NEW k, Attends(m, n), Attends(n, k)
    PROVE  Attends(m, k)
BY DEF Attends

LEMMA SendsAttends ==
    ASSUME NEW m \in Machine, NEW op \in RequestOps
    PROVE  Attends(m, Sends(m, op))
BY SendsMakes DEF Attends

\* Every handler that only asks for a response attends.
LEMMA AsksAttend ==
    ASSUME NEW m \in Machine
    PROVE  /\ Attends(m, m)
           /\ Attends(m, CreateResponse(m))
           /\ Attends(m, MaybeStart(m))
           /\ Attends(m, Flush(m))
           /\ Attends(m, ContinueAfterTools(m))
           /\ Attends(m, FlushTyped(m))
           /\ Attends(m, RespondToUser(m))
<1>1. \A x \in Machine : Attends(x, x) /\ Attends(x, CreateResponse(x))
  <2> SUFFICES ASSUME NEW x \in Machine
               PROVE  Attends(x, x) /\ Attends(x, CreateResponse(x))
    OBVIOUS
  <2> DEFINE n == [x EXCEPT !.r.active = TRUE, !.r.done = FALSE, !.r.hadTool = FALSE]
  <2>1. CreateResponse(x) = Sends(n, "create") \/ CreateResponse(x) = x
    BY DEF CreateResponse
  <2>2. Attends(x, x)
    BY DEF Attends
  <2>3. Attends(x, n)
    BY DEF Attends, Machine, RuntimeRecord
  <2> HIDE DEF n
  <2>4. Attends(n, Sends(n, "create"))
    BY <2>3, SendsAttends DEF Attends, RequestOps
  <2> QED
    BY <2>1, <2>2, <2>3, <2>4, AttendsTwice
<1>2. ASSUME NEW x \in Machine, NEW b \in BOOLEAN
      PROVE  /\ Attends(x, [x EXCEPT !.r.started = b])
             /\ Attends(x, [x EXCEPT !.r.turn = b])
  <2>1. [x EXCEPT !.r.started = b] \in Machine /\ [x EXCEPT !.r.turn = b] \in Machine
    BY DEF Machine, RuntimeRecord
  <2>2. Attends(x, [x EXCEPT !.r.started = b])
    BY <2>1 DEF Attends, Machine, RuntimeRecord
  <2>3. Attends(x, [x EXCEPT !.r.turn = b])
    BY <2>1 DEF Attends, Machine, RuntimeRecord
  <2> QED
    BY <2>2, <2>3
<1> DEFINE c == CreateResponse(m)
<1>4. Attends(m, c) /\ c \in Machine
  BY <1>1 DEF Attends
<1>5. Attends(m, MaybeStart(m)) /\ Attends(m, RespondToUser(m))
  <2> DEFINE may == MayCreate(m.r)
  <2>1. may \in BOOLEAN /\ (~may) \in BOOLEAN
    BY DEF MayCreate, Machine, RuntimeRecord
  <2>2. /\ MaybeStart(m) \in {m, [c EXCEPT !.r.started = may]}
        /\ RespondToUser(m) \in {m, [c EXCEPT !.r.turn = ~may]}
    BY DEF MaybeStart, RespondToUser
  <2> HIDE DEF c, may
  <2>3. Attends(c, [c EXCEPT !.r.started = may]) /\ Attends(c, [c EXCEPT !.r.turn = ~may])
    BY <1>2, <1>4, <2>1
  <2> QED
    BY <1>1, <1>4, <2>2, <2>3, AttendsTwice
<1> HIDE DEF c
<1>6. ASSUME NEW n, Attends(m, n)
      PROVE  Attends(m, CreateResponse(n))
  <2>1. n \in Machine
    BY <1>6 DEF Attends
  <2> QED
    BY <1>1, <1>6, <2>1, AttendsTwice
<1>7. Attends(m, Flush(m))
  <2> DEFINE p == m.r.pending - 1
             n == [m EXCEPT !.r.pending = p]
  <2>1. CASE m.r.pending > 0 /\ Flush(m) = CreateResponse(n)
    <3>1. p \in Nat
      BY <2>1 DEF Machine, RuntimeRecord
    <3> HIDE DEF p
    <3>2. Attends(m, n)
      BY <3>1 DEF Attends, Machine, RuntimeRecord
    <3> HIDE DEF n
    <3> QED
      BY <1>6, <2>1, <3>2
  <2> QED
    BY <1>1, <2>1 DEF Flush
<1>8. Attends(m, ContinueAfterTools(m))
  <2> DEFINE n == [m EXCEPT !.r.done = FALSE, !.r.hadTool = FALSE]
  <2>1. Attends(m, n)
    BY DEF Attends, Machine, RuntimeRecord
  <2>2. ContinueAfterTools(m) \in {m, CreateResponse(n)}
    BY DEF ContinueAfterTools
  <2> HIDE DEF n
  <2> QED
    BY <1>1, <1>6, <2>1, <2>2
<1>9. Attends(m, FlushTyped(m))
  <2> DEFINE n == [m EXCEPT !.r.typed = 0]
  <2>1. Attends(m, n)
    BY DEF Attends, Machine, RuntimeRecord
  <2>2. FlushTyped(m) \in {m, CreateResponse(n)}
    BY DEF FlushTyped
  <2> HIDE DEF n
  <2> QED
    BY <1>1, <1>6, <2>1, <2>2
<1> QED
  BY <1>1, <1>4, <1>5, <1>7, <1>8, <1>9 DEF c

\* What a handler that may begin tool id leaves alone, and what it marks.
Announces(m, n, id) ==
    /\ n \in Machine
    /\ n.r.open = m.r.open /\ n.r.speaking = m.r.speaking /\ n.r.respId = m.r.respId
    /\ m.r.handled \subseteq n.r.handled
    /\ \A t \in n.r.tools :
        \/ t \in m.r.tools
        \/ t.id = id /\ id \in n.r.handled /\ id \notin m.r.handled /\ ~m.r.speaking

LEMMA AttendsAnnounces ==
    ASSUME NEW m, NEW n, NEW k, NEW id, Announces(m, n, id), Attends(n, k)
    PROVE  Announces(m, k, id)
BY DEF Attends, Announces

\* A function call begins its tool, unless it did before.
LEMMA StartAnnounces ==
    ASSUME NEW m \in Machine, NEW id \in Nat, NEW of \in Nat
    PROVE  Announces(m, StartFunction(m, id, of), id)
<1> DEFINE h == [m EXCEPT !.r.handled = m.r.handled \cup {id}]
           tools == m.r.tools \cup {[id |-> id, epoch |-> m.r.epoch]}
           n == [h EXCEPT !.r.tools = tools, !.r.hadTool = TRUE]
<1>1. h \in Machine /\ h.r.open = m.r.open /\ h.r.speaking = m.r.speaking
      /\ h.r.respId = m.r.respId /\ h.r.tools = m.r.tools
      /\ h.r.handled = m.r.handled \cup {id}
  BY DEF Machine, RuntimeRecord
<1>2. tools \in SUBSET [id : Nat, epoch : Nat]
  BY DEF Machine, RuntimeRecord
<1>3. \/ StartFunction(m, id, of) \in {m, h}
      \/ StartFunction(m, id, of) = n /\ id \notin m.r.handled /\ ~m.r.speaking
  BY <1>1 DEF StartFunction, TooLate
<1>4. \A t \in tools : t \in m.r.tools \/ t.id = id
  OBVIOUS
<1> HIDE DEF h, tools
<1>5. n \in Machine /\ n.r.open = h.r.open /\ n.r.speaking = h.r.speaking
      /\ n.r.respId = h.r.respId /\ n.r.tools = tools /\ n.r.handled = h.r.handled
  BY <1>1, <1>2 DEF Machine, RuntimeRecord
<1> HIDE DEF n
<1>6. Announces(m, m, id) /\ Announces(m, h, id)
  BY <1>1 DEF Announces
<1>7. id \notin m.r.handled /\ ~m.r.speaking => Announces(m, n, id)
  BY <1>1, <1>4, <1>5 DEF Announces
<1> QED
  BY <1>3, <1>6, <1>7

\* The end of a response begins a tool only if it completed.
LEMMA EndAnnounces ==
    ASSUME NEW m \in Machine,
           NEW e \in [t : {"done"}, id : Nat, ok : BOOLEAN, call : BOOLEAN]
    PROVE  \/ Attends(m, AfterResponse(m, e))
           \/ m.r.done /\ Announces(m, AfterResponse(m, e), e.id)
<1> DEFINE h == [m EXCEPT !.r.hadTool = TRUE]
           c == IF ~e.call THEN m ELSE IF Managed THEN StartFunction(m, e.id, 0) ELSE h
           n == [m EXCEPT !.r.hadTool = FALSE]
           k == [c EXCEPT !.r.done = FALSE, !.r.greeted = TRUE]
<1>1. \/ AfterResponse(m, e) \in {FlushTyped(m), RespondToUser(m), n}
      \/ m.r.done /\ AfterResponse(m, e) \in {ContinueAfterTools(c), Flush(k)}
  BY DEF AfterResponse, Machine, RuntimeRecord
<1>2. Attends(m, n)
  BY DEF Attends, Machine, RuntimeRecord
<1>3. Announces(m, m, e.id) /\ Announces(m, StartFunction(m, e.id, 0), e.id)
  BY StartAnnounces DEF Announces
<1>9. Announces(m, h, e.id)
  BY DEF Announces, Machine, RuntimeRecord
<1> HIDE DEF n, h
<1>4. Announces(m, c, e.id) /\ c \in Machine
  BY <1>3, <1>9 DEF Announces
<1> HIDE DEF c
<1>5. Attends(c, k)
  BY <1>4 DEF Attends, Machine, RuntimeRecord
<1> HIDE DEF k
<1>6. Attends(c, Flush(k)) /\ Attends(c, ContinueAfterTools(c))
  <2>1. Attends(k, Flush(k))
    BY <1>5, AsksAttend DEF Attends
  <2> QED
    BY <1>4, <1>5, <2>1, AsksAttend, AttendsTwice
<1>7. Announces(m, ContinueAfterTools(c), e.id) /\ Announces(m, Flush(k), e.id)
  BY <1>4, <1>6, AttendsAnnounces
<1>8. Attends(m, FlushTyped(m)) /\ Attends(m, RespondToUser(m))
  BY AsksAttend
<1> QED
  BY <1>1, <1>2, <1>7, <1>8

\* What the runtime learns from an event.
Learns(m, n, e) ==
    /\ n \in Machine /\ n.r.open = m.r.open
    /\ n.r.speaking <=> e.t = "speech_started" \/ (m.r.speaking /\ e.t # "speech_stopped")
    /\ n.r.respId \in {m.r.respId, 0} \/ (e.t = "created" /\ n.r.respId = e.id)
    /\ m.r.handled \subseteq n.r.handled
    /\ \A t \in n.r.tools :
        \/ t \in m.r.tools
        \/ e.t = "mcp_started"
        \/ /\ t.id = e.id /\ e.id \in n.r.handled /\ e.id \notin m.r.handled
           /\ (e.t = "function_call" /\ ~m.r.speaking) \/ (e.t = "done" /\ e.ok)

LEMMA AttendsLearns ==
    ASSUME NEW m \in Machine, NEW n, NEW e, Attends(m, n),
           e.t \notin {"speech_started", "speech_stopped"}
    PROVE  Learns(m, n, e)
BY DEF Attends, Learns, Machine, RuntimeRecord

LEMMA HearingLearns ==
    ASSUME NEW m \in Machine, NEW e \in Event
    PROVE  Learns(m, Handle(m, e), e)
<1>1. CASE e.t = "speech_started"
  <2> DEFINE epoch == m.r.epoch + 1
             n == [m EXCEPT !.r.epoch = epoch, !.r.speaking = TRUE, !.r.waiting = TRUE,
                            !.r.done = FALSE, !.r.hadTool = FALSE]
  <2>1. Handle(m, e) = n
    BY <1>1 DEF Handle, SpeechStarted
  <2>2. epoch \in Nat
    BY DEF Machine, RuntimeRecord
  <2> HIDE DEF epoch
  <2>3. n \in Machine /\ n.r.open = m.r.open /\ n.r.speaking /\ n.r.respId = m.r.respId
        /\ n.r.handled = m.r.handled /\ n.r.tools = m.r.tools
    BY <2>2 DEF Machine, RuntimeRecord
  <2> HIDE DEF n
  <2> QED
    BY <1>1, <2>1, <2>3 DEF Learns
<1>2. CASE e.t = "speech_stopped"
  <2> DEFINE n == [m EXCEPT !.r.speaking = FALSE]
  <2>1. Handle(m, e) = n
    BY <1>2 DEF Handle
  <2>2. n \in Machine /\ n.r.open = m.r.open /\ ~n.r.speaking /\ n.r.respId = m.r.respId
        /\ n.r.handled = m.r.handled /\ n.r.tools = m.r.tools
    BY DEF Machine, RuntimeRecord
  <2> HIDE DEF n
  <2> QED
    BY <1>2, <2>1, <2>2 DEF Learns
<1>3. CASE e.t \in {"committed", "audio_started", "audio_stopped", "tools_listed"}
  <2> DEFINE a == [m EXCEPT !.r.waiting = FALSE, !.r.turn = TRUE]
             b == [m EXCEPT !.r.playing = TRUE]
             c == [m EXCEPT !.r.playing = FALSE]
             d == [m EXCEPT !.r.toolsReady = TRUE]
  <2>1. Handle(m, e) \in {RespondToUser(a), m, b, Flush(c), Flush(MaybeStart(d))}
    BY <1>3 DEF Handle, Committed
  <2>2. Attends(m, m) /\ Attends(m, a) /\ Attends(m, b)
    BY DEF Attends, Machine, RuntimeRecord
  <2>3. Attends(m, c) /\ Attends(m, d)
    BY DEF Attends, Machine, RuntimeRecord
  <2> HIDE DEF a, b, c, d
  <2>4. a \in Machine /\ c \in Machine /\ d \in Machine
    BY <2>2, <2>3 DEF Attends
  <2>5. Attends(m, RespondToUser(a)) /\ Attends(m, Flush(c)) /\ Attends(m, MaybeStart(d))
    BY <2>2, <2>3, <2>4, AsksAttend, AttendsTwice
  <2>6. MaybeStart(d) \in Machine
    BY <2>5 DEF Attends
  <2>7. Attends(m, Flush(MaybeStart(d)))
    BY <2>5, <2>6, AsksAttend, AttendsTwice
  <2> QED
    BY <1>3, <2>1, <2>2, <2>5, <2>7, AttendsLearns
<1>4. CASE e.t \in {"created", "function_call", "mcp_ended"}
  <2>1. e.id \in Nat
    BY <1>4 DEF Event, PlainEvents
  <2>2. CASE e.t = "created"
    <3> DEFINE id == e.id
               n == [m EXCEPT !.r.active = TRUE, !.r.respId = id,
                              !.r.done = FALSE, !.r.hadTool = FALSE]
               w == [n EXCEPT !.r.waiting = FALSE]
    <3>1. Handle(m, e) \in {n, w, Sends(n, "cancel")}
      BY <2>2 DEF Handle, Created
    <3>2. id \in Nat
      BY <2>1
    <3> HIDE DEF id
    <3>3. n \in Machine /\ n.r.open = m.r.open /\ n.r.speaking = m.r.speaking /\ n.r.respId = id
          /\ n.r.handled = m.r.handled /\ n.r.tools = m.r.tools
      BY <3>2 DEF Machine, RuntimeRecord
    <3> HIDE DEF n
    <3>4. Sends(n, "cancel") \in Machine /\ Sends(n, "cancel").r = n.r
      BY <3>3, SendsMakes DEF RequestOps
    <3>5. id = e.id
      BY DEF id
    <3>6. Learns(m, n, e)
      BY <2>2, <3>3, <3>5 DEF Learns
    <3>7. Learns(m, Sends(n, "cancel"), e)
      BY <3>4, <3>6 DEF Learns
    <3>8. Attends(n, w)
      BY <3>3 DEF Attends, Machine, RuntimeRecord
    <3> HIDE DEF w
    <3>9. Learns(m, w, e)
      BY <3>6, <3>8 DEF Learns, Attends
    <3> QED
      BY <3>1, <3>6, <3>7, <3>9
  <2>3. CASE e.t = "function_call"
    <3>1. Handle(m, e) = StartFunction(m, e.id, e.id)
      BY <2>3 DEF Handle
    <3>2. Announces(m, Handle(m, e), e.id)
      BY <2>1, <3>1, StartAnnounces
    <3> QED
      BY <2>3, <3>2 DEF Learns, Announces
  <2>4. CASE e.t = "mcp_ended"
    <3> DEFINE tools == m.r.tools \ {t \in m.r.tools : t.id = e.id}
               f == [m EXCEPT !.r.tools = tools]
               h == [f EXCEPT !.r.hadTool = TRUE]
    <3>1. Handle(m, e) \in {ContinueAfterTools(h), f}
      BY <2>4 DEF Handle, FinishTool
    <3>2. tools \in SUBSET [id : Nat, epoch : Nat] /\ tools \subseteq m.r.tools
      BY DEF Machine, RuntimeRecord
    <3> HIDE DEF tools
    <3>3. f \in Machine /\ f.r.open = m.r.open /\ f.r.speaking = m.r.speaking
          /\ f.r.respId = m.r.respId /\ f.r.handled = m.r.handled /\ f.r.tools = tools
      BY <3>2 DEF Machine, RuntimeRecord
    <3> HIDE DEF f
    <3>4. Attends(f, f) /\ Attends(f, h)
      BY <3>3 DEF Attends, Machine, RuntimeRecord
    <3> HIDE DEF h
    <3>5. Attends(f, ContinueAfterTools(h))
      BY <3>4, AsksAttend, AttendsTwice DEF Attends
    <3>6. Attends(f, Handle(m, e))
      BY <3>1, <3>4, <3>5
    <3> QED
      BY <2>4, <3>2, <3>3, <3>6 DEF Attends, Learns
  <2> QED
    BY <1>4, <2>2, <2>3, <2>4
<1>5. CASE e.t = "done"
  <2>1. e \in [t : {"done"}, id : Nat, ok : BOOLEAN, call : BOOLEAN]
    BY <1>5 DEF Event, PlainEvents
  <2> DEFINE seen == m.r.finished \cup {e.id}
             ok == e.ok
             f == [m EXCEPT !.r.finished = seen]
             g == [f EXCEPT !.r.active = FALSE, !.r.respId = 0, !.r.done = ok]
  <2>2. seen \in SUBSET Nat /\ ok \in BOOLEAN
    BY <2>1 DEF Machine, RuntimeRecord
  <2>3. Handle(m, e) \in {f, AfterResponse(g, e)}
    BY <1>5 DEF Handle, ResponseDone
  <2> HIDE DEF seen, ok
  <2>4. Attends(m, f)
    BY <2>2 DEF Attends, Machine, RuntimeRecord
  <2> HIDE DEF f
  <2>5. g \in Machine /\ g.r.open = f.r.open /\ g.r.speaking = f.r.speaking
        /\ g.r.respId = 0 /\ g.r.handled = f.r.handled /\ g.r.tools = f.r.tools /\ g.r.done = ok
    BY <2>2, <2>4 DEF Attends, Machine, RuntimeRecord
  <2> HIDE DEF g
  <2>6. ok = e.ok
    BY DEF ok
  <2>7. Learns(m, f, e)
    BY <1>5, <2>4, AttendsLearns
  <2>8. \/ Attends(g, AfterResponse(g, e))
        \/ g.r.done /\ Announces(g, AfterResponse(g, e), e.id)
    BY <2>1, <2>5, EndAnnounces
  <2>9. Attends(g, AfterResponse(g, e)) => Learns(m, AfterResponse(g, e), e)
    BY <1>5, <2>4, <2>5 DEF Attends, Learns
  <2>10. g.r.done /\ Announces(g, AfterResponse(g, e), e.id) => Learns(m, AfterResponse(g, e), e)
    BY <1>5, <2>4, <2>5, <2>6 DEF Attends, Announces, Learns
  <2> QED
    BY <2>3, <2>7, <2>8, <2>9, <2>10
<1>6. CASE e.t = "mcp_started"
  <2>1. e.id \in Nat
    BY <1>6 DEF Event, PlainEvents
  <2> DEFINE tools == m.r.tools \cup {[id |-> e.id, epoch |-> m.r.epoch]}
             n == [m EXCEPT !.r.hadTool = TRUE, !.r.tools = tools]
  <2>2. tools \in SUBSET [id : Nat, epoch : Nat]
    BY <2>1 DEF Machine, RuntimeRecord
  <2>3. Handle(m, e) = n
    BY <1>6 DEF Handle
  <2> HIDE DEF tools
  <2>4. n \in Machine /\ n.r.open = m.r.open /\ n.r.speaking = m.r.speaking
        /\ n.r.respId = m.r.respId /\ n.r.handled = m.r.handled
    BY <2>2 DEF Machine, RuntimeRecord
  <2> HIDE DEF n
  <2> QED
    BY <1>6, <2>3, <2>4 DEF Learns
<1> QED
  BY <1>1, <1>2, <1>3, <1>4, <1>5, <1>6 DEF Event, PlainEvents

\* The first of what is on its way is heard: every place moves down by one.
LEMMA TailSpoken ==
    ASSUME NEW d \in Seq(Event), d # <<>>, NEW i \in 1..Len(d),
           NEW a \in BOOLEAN, NEW b \in BOOLEAN, SpokenAt(d, a, i + 1),
           b <=> Head(d).t = "speech_started" \/ (a /\ Head(d).t # "speech_stopped")
    PROVE  SpokenAt(Tail(d), b, i)
<1> DEFINE q == Tail(d)
<1>1. q \in Seq(Event) /\ Len(q) = Len(d) - 1 /\ Len(d) \in Nat \ {0} /\ Head(d) = d[1]
      /\ \A k \in 1..Len(q) : q[k] = d[k + 1]
  BY HeadTailProperties, LenProperties, EmptySeq
<1> HIDE DEF q
<1>2. \A k \in 1..(i - 1) : q[k] = d[k + 1]
  BY <1>1
<1>3. ASSUME NEW j \in 1..i, d[j].t = "speech_started", NoPause(d, j, i + 1)
      PROVE  SpokenAt(q, b, i)
  <2>1. CASE j = 1
    <3>1. b
      BY <1>1, <1>3, <2>1
    <3>2. NoPause(q, 0, i)
      BY <1>2, <1>3, <2>1 DEF NoPause
    <3> QED
      BY <3>1, <3>2 DEF SpokenAt
  <2>2. CASE j # 1
    <3>1. j - 1 \in 1..(i - 1) /\ q[j - 1] = d[j]
      BY <1>2, <2>2
    <3>2. NoPause(q, j - 1, i)
      <4> SUFFICES ASSUME NEW k \in ((j - 1) + 1)..(i - 1)
                   PROVE  q[k].t # "speech_stopped"
        BY DEF NoPause
      <4>1. k + 1 \in (j + 1)..((i + 1) - 1) /\ k \in 1..(i - 1)
        OBVIOUS
      <4>2. d[k + 1].t # "speech_stopped"
        BY <1>3, <4>1 DEF NoPause
      <4> QED
        BY <1>2, <4>1, <4>2
    <3> QED
      BY <1>3, <3>1, <3>2 DEF SpokenAt
  <2> QED
    BY <2>1, <2>2
<1>4. ASSUME a, NoPause(d, 0, i + 1)
      PROVE  SpokenAt(q, b, i)
  <2>1. d[1].t # "speech_stopped"
    BY <1>4 DEF NoPause
  <2>2. b
    BY <1>1, <1>4, <2>1
  <2>3. NoPause(q, 0, i)
    BY <1>2, <1>4 DEF NoPause
  <2> QED
    BY <2>2, <2>3 DEF SpokenAt
<1>5. (i + 1) - 1 = i
  OBVIOUS
<1> QED
  BY <1>3, <1>4, <1>5 DEF SpokenAt, q

\* What is barred meanwhile is not on its way any more.
LEMMA TailNotSpokenOver ==
    ASSUME NEW d \in Seq(Event), d # <<>>, NEW i \in 1..Len(d), NEW over, NEW c, NEW new,
           NotSpokenOver(d, over, c, i + 1),
           \/ new \subseteq over
           \/ /\ Head(d).t = "speech_started"
              /\ \A k \in 2..i : d[k].t = "created" => d[k].id \notin new \ over
    PROVE  NotSpokenOver(Tail(d), new, c, i)
<1> DEFINE q == Tail(d)
<1>1. q \in Seq(Event) /\ Len(q) = Len(d) - 1 /\ Len(d) \in Nat \ {0} /\ Head(d) = d[1]
      /\ \A k \in 1..Len(q) : q[k] = d[k + 1]
  BY HeadTailProperties, LenProperties, EmptySeq
<1> HIDE DEF q
<1>2. \A k \in 1..(i - 1) : q[k] = d[k + 1]
  BY <1>1
<1>3. c \notin over /\ \A j \in 1..i : d[j].t = "speech_started" =>
                          \E k \in (j + 1)..i : d[k].t = "created" /\ d[k].id = c
  <2>1. (i + 1) - 1 = i
    OBVIOUS
  <2> QED
    BY <2>1 DEF NotSpokenOver
<1>4. c \notin new
  <2>1. CASE new \subseteq over
    BY <1>3, <2>1
  <2>2. CASE /\ Head(d).t = "speech_started"
             /\ \A k \in 2..i : d[k].t = "created" => d[k].id \notin new \ over
    <3>1. \E k \in 2..i : d[k].t = "created" /\ d[k].id = c
      BY <1>1, <1>3, <2>2
    <3> QED
      BY <1>3, <2>2, <3>1
  <2> QED
    BY <2>1, <2>2
<1>5. ASSUME NEW j \in 1..(i - 1), q[j].t = "speech_started"
      PROVE  \E k \in (j + 1)..(i - 1) : q[k].t = "created" /\ q[k].id = c
  <2>1. j + 1 \in 1..i /\ d[j + 1].t = "speech_started"
    BY <1>2, <1>5
  <2>2. PICK k \in (j + 2)..i : d[k].t = "created" /\ d[k].id = c
    BY <1>3, <2>1
  <2>3. k - 1 \in (j + 1)..(i - 1) /\ q[k - 1] = d[k]
    BY <1>2, <2>2
  <2> QED
    BY <2>2, <2>3
<1> QED
  BY <1>4, <1>5 DEF NotSpokenOver, q

\* Only what comes before a place counts.
LEMMA SameInTime ==
    ASSUME NEW d, NEW q, NEW i \in Nat, \A k \in 1..(i - 1) : q[k] = d[k]
    PROVE  /\ \A a : SpokenAt(d, a, i) => SpokenAt(q, a, i)
           /\ \A over, c : NotSpokenOver(d, over, c, i) => NotSpokenOver(q, over, c, i)
<1>1. \A j \in 0..(i - 1) : NoPause(d, j, i) => NoPause(q, j, i)
  BY DEF NoPause
<1>2. \A a : SpokenAt(d, a, i) => SpokenAt(q, a, i)
  <2> SUFFICES ASSUME NEW a, SpokenAt(d, a, i) PROVE SpokenAt(q, a, i)
    OBVIOUS
  <2>1. CASE \E j \in 1..(i - 1) : d[j].t = "speech_started" /\ NoPause(d, j, i)
    BY <1>1, <2>1 DEF SpokenAt
  <2>2. CASE a /\ NoPause(d, 0, i)
    <3>1. CASE i = 0
      BY <2>2, <3>1 DEF SpokenAt, NoPause
    <3>2. CASE i # 0
      BY <1>1, <2>2, <3>2 DEF SpokenAt
    <3> QED
      BY <3>1, <3>2
  <2> QED
    BY <2>1, <2>2 DEF SpokenAt
<1>3. \A over, c : NotSpokenOver(d, over, c, i) => NotSpokenOver(q, over, c, i)
  BY DEF NotSpokenOver
<1> QED
  BY <1>2, <1>3

\* What is typed lifts every bar.
LEMMA TypedInTime ==
    ASSUME NEW d, NEW a, NEW over, NEW c, NEW i \in Nat
    PROVE  /\ SpokenAt(d, a, i) => SpokenAt(d, FALSE, i) \/ NotSpokenOver(d, {}, c, i)
           /\ NotSpokenOver(d, over, c, i) => NotSpokenOver(d, {}, c, i)
<1>1. NotSpokenOver(d, over, c, i) => NotSpokenOver(d, {}, c, i)
  BY DEF NotSpokenOver
<1>2. ASSUME a, NoPause(d, 0, i), NEW j \in 1..(i - 1), d[j].t = "speech_started"
      PROVE  SpokenAt(d, FALSE, i)
  <2>1. NoPause(d, j, i)
    BY <1>2 DEF NoPause
  <2> QED
    BY <1>2, <2>1 DEF SpokenAt
<1>3. (\A j \in 1..(i - 1) : d[j].t # "speech_started") => NotSpokenOver(d, {}, c, i)
  BY DEF NotSpokenOver
<1> QED
  BY <1>1, <1>2, <1>3 DEF SpokenAt

\* One more event is on its way.
LEMMA JoinPlaces ==
    ASSUME NEW d \in Seq(Event), NEW x \in Event
    PROVE  LET q == Append(d, x)
           IN  /\ q \in Seq(Event) /\ Len(q) = Len(d) + 1 /\ q[Len(d) + 1] = x
               /\ Len(d) \in Nat /\ DOMAIN d = 1..Len(d) /\ DOMAIN q = 1..(Len(d) + 1)
               /\ \A k \in 1..Len(d) : q[k] = d[k]
BY AppendProperties, LenProperties

\* It is spoken at the new end as it was at the old one, unless the event says
\* otherwise.
LEMMA JoinInTime ==
    ASSUME NEW d \in Seq(Event), NEW x \in Event, NEW a \in BOOLEAN, NEW over, NEW c
    PROVE  LET q == Append(d, x)
           IN  /\ SpokenAt(d, a, Len(d) + 1) /\ x.t # "speech_stopped" => SpokenAt(q, a, Len(q) + 1)
               /\ x.t = "speech_started" => SpokenAt(q, a, Len(q) + 1)
               /\ NotSpokenOver(d, over, c, Len(d) + 1) /\ x.t # "speech_started"
                     => NotSpokenOver(q, over, c, Len(q) + 1)
               /\ x.t = "created" /\ x.id = c /\ c \notin over => NotSpokenOver(q, over, c, Len(q) + 1)
<1> DEFINE q == Append(d, x)
           n == Len(d)
<1>1. /\ q \in Seq(Event) /\ Len(q) = n + 1 /\ q[n + 1] = x
      /\ n \in Nat /\ \A k \in 1..n : q[k] = d[k]
  BY JoinPlaces
<1> HIDE DEF q, n
<1>2. (n + 1) - 1 = n /\ (Len(q) + 1) - 1 = n + 1
  BY <1>1
<1>3. ASSUME SpokenAt(d, a, n + 1), x.t # "speech_stopped"
      PROVE  SpokenAt(q, a, Len(q) + 1)
  <2>1. \A j \in 0..n : NoPause(d, j, n + 1) => NoPause(q, j, Len(q) + 1)
    <3> SUFFICES ASSUME NEW j \in 0..n, NoPause(d, j, n + 1),
                        NEW k \in (j + 1)..(n + 1)
                 PROVE  q[k].t # "speech_stopped"
      BY <1>2 DEF NoPause
    <3>1. CASE k = n + 1
      BY <1>1, <1>3, <3>1
    <3>2. CASE k # n + 1
      <4>1. k \in (j + 1)..n /\ k \in 1..n
        BY <1>1, <3>2
      <4> QED
        BY <1>1, <1>2, <4>1 DEF NoPause
    <3> QED
      BY <3>1, <3>2
  <2>2. CASE \E j \in 1..n : d[j].t = "speech_started" /\ NoPause(d, j, n + 1)
    <3>1. PICK j \in 1..n : d[j].t = "speech_started" /\ NoPause(d, j, n + 1)
      BY <2>2
    <3>2. j \in 1..(n + 1) /\ j \in 0..n /\ q[j] = d[j]
      BY <1>1
    <3> QED
      BY <1>2, <2>1, <3>1, <3>2 DEF SpokenAt
  <2>3. CASE a /\ NoPause(d, 0, n + 1)
    <3>1. 0 \in 0..n
      BY <1>1
    <3> QED
      BY <2>1, <2>3, <3>1 DEF SpokenAt
  <2> QED
    BY <1>2, <1>3, <2>2, <2>3 DEF SpokenAt
<1>4. ASSUME x.t = "speech_started"
      PROVE  SpokenAt(q, a, Len(q) + 1)
  <2>1. n + 1 \in 1..(n + 1) /\ q[n + 1].t = "speech_started"
    BY <1>1, <1>4
  <2>2. NoPause(q, n + 1, Len(q) + 1)
    BY <1>1 DEF NoPause
  <2> QED
    BY <1>2, <2>1, <2>2 DEF SpokenAt
<1>5. ASSUME NotSpokenOver(d, over, c, n + 1), x.t # "speech_started"
      PROVE  NotSpokenOver(q, over, c, Len(q) + 1)
  <2>1. ASSUME NEW j \in 1..(n + 1), q[j].t = "speech_started"
        PROVE  \E k \in (j + 1)..(n + 1) : q[k].t = "created" /\ q[k].id = c
    <3>1. j \in 1..n /\ d[j].t = "speech_started"
      BY <1>1, <1>5, <2>1
    <3>2. PICK k \in (j + 1)..n : d[k].t = "created" /\ d[k].id = c
      BY <1>2, <1>5, <3>1 DEF NotSpokenOver
    <3>3. k \in 1..n /\ k \in (j + 1)..(n + 1)
      BY <1>1, <3>1
    <3>4. q[k] = d[k]
      BY <1>1, <3>3
    <3> QED
      BY <3>2, <3>3, <3>4
  <2> QED
    BY <1>2, <1>5, <2>1 DEF NotSpokenOver
<1>6. ASSUME x.t = "created", x.id = c, c \notin over
      PROVE  NotSpokenOver(q, over, c, Len(q) + 1)
  <2>1. ASSUME NEW j \in 1..(n + 1), q[j].t = "speech_started"
        PROVE  \E k \in (j + 1)..(n + 1) : q[k].t = "created" /\ q[k].id = c
    <3>1. j # n + 1
      BY <1>1, <1>6, <2>1
    <3>2. n + 1 \in (j + 1)..(n + 1)
      BY <1>1, <3>1
    <3> QED
      BY <1>1, <1>6, <3>2
  <2> QED
    BY <1>2, <1>6, <2>1 DEF NotSpokenOver
<1> QED
  BY <1>3, <1>4, <1>5, <1>6 DEF q, n

\* What may join the news of a browser call.
LEMMA JoinNews ==
    ASSUME NEW d \in Seq(Event), NEW x \in Event, NEW a \in BOOLEAN, NEW over,
           NEW respId \in Nat, NEW next \in Nat, NEW new \in Nat, next <= new,
           NewsInOrder(d, respId, next), CallsInTime(d, a, over),
           x.t # "mcp_started",
           x.t \in {"created", "function_call", "done"} => x.id \in 1..(new - 1),
           x.t = "created" => respId < x.id /\ next <= x.id,
           x.t = "function_call" => \/ SpokenAt(d, a, Len(d) + 1)
                                    \/ NotSpokenOver(d, over, x.id, Len(d) + 1),
           x.t = "done" /\ x.ok => NotSpokenOver(d, over, x.id, Len(d) + 1)
    PROVE  LET q == Append(d, x)
           IN  NewsInOrder(q, respId, new) /\ CallsInTime(q, a, over)
<1> DEFINE q == Append(d, x)
           n == Len(d)
<1>1. /\ q \in Seq(Event) /\ Len(q) = n + 1 /\ q[n + 1] = x
      /\ n \in Nat /\ DOMAIN d = 1..n /\ DOMAIN q = 1..(n + 1)
      /\ \A k \in 1..n : q[k] = d[k]
  BY JoinPlaces
<1> HIDE DEF q, n
<1>2. \A i \in DOMAIN q : i = n + 1 \/ i \in 1..n
  BY <1>1
<1>3. NewsInOrder(q, respId, new)
  <2>1. \A i \in DOMAIN q : q[i].t # "mcp_started"
    BY <1>1, <1>2 DEF NewsInOrder
  <2>2. ASSUME NEW i \in DOMAIN q, q[i].t \in {"created", "function_call", "done"}
        PROVE  q[i].id \in 1..(new - 1)
    <3>1. CASE i = n + 1
      BY <1>1, <2>2, <3>1
    <3>2. CASE i \in 1..n
      <4>1. q[i].id \in 1..(next - 1)
        BY <1>1, <2>2, <3>2 DEF NewsInOrder
      <4> QED
        BY <4>1
    <3> QED
      BY <1>2, <3>1, <3>2
  <2>3. \A i \in DOMAIN q : q[i].t = "created" => respId < q[i].id
    BY <1>1, <1>2 DEF NewsInOrder
  <2>4. ASSUME NEW i \in DOMAIN q, NEW j \in DOMAIN q, i < j, q[i].t = "created", q[j].t = "created"
        PROVE  q[i].id < q[j].id
    <3>1. i \in 1..n
      BY <1>1, <2>4
    <3>2. d[i].t = "created" /\ q[i].id = d[i].id /\ d[i].id \in 1..(next - 1)
      BY <1>1, <2>4, <3>1 DEF NewsInOrder
    <3>3. CASE j = n + 1
      <4>1. next <= q[j].id /\ q[j].id \in 1..(new - 1)
        BY <1>1, <2>4, <3>3
      <4> HIDE DEF NewsInOrder
      <4> QED
        BY <3>2, <4>1
    <3>4. CASE j \in 1..n
      BY <1>1, <2>4, <3>1, <3>4 DEF NewsInOrder
    <3> QED
      BY <1>2, <3>3, <3>4
  <2> QED
    BY <2>1, <2>2, <2>3, <2>4 DEF NewsInOrder
<1>4. \A i \in 1..(n + 1) : /\ SpokenAt(d, a, i) => SpokenAt(q, a, i)
                            /\ \A c : NotSpokenOver(d, over, c, i) => NotSpokenOver(q, over, c, i)
  <2> SUFFICES ASSUME NEW i \in 1..(n + 1)
               PROVE  /\ SpokenAt(d, a, i) => SpokenAt(q, a, i)
                      /\ \A c : NotSpokenOver(d, over, c, i) => NotSpokenOver(q, over, c, i)
    OBVIOUS
  <2>1. i \in Nat /\ \A k \in 1..(i - 1) : q[k] = d[k]
    BY <1>1
  <2> QED
    BY <2>1, SameInTime
<1>5. CallsInTime(q, a, over)
  <2> SUFFICES ASSUME NEW i \in 1..(n + 1)
               PROVE  /\ q[i].t = "function_call" => \/ SpokenAt(q, a, i)
                                                     \/ NotSpokenOver(q, over, q[i].id, i)
                      /\ q[i].t = "done" /\ q[i].ok => NotSpokenOver(q, over, q[i].id, i)
    BY <1>1 DEF CallsInTime
  <2>1. CASE i = n + 1
    BY <1>1, <1>4, <2>1 DEF n
  <2>2. CASE i \in 1..n
    BY <1>1, <1>4, <2>2 DEF CallsInTime
  <2> QED
    BY <1>1, <1>2, <2>1, <2>2
<1> QED
  BY <1>3, <1>5 DEF q

\* A handler of the relay that hears nothing, and may lift every bar.
LEMMA CalmKeepsTools ==
    ASSUME ToolsInOrder, VoiceTypeOK, Live, NEW n \in Machine, Becomes(n),
           UNCHANGED <<prov, down>>, rt.open => n.r.open,
           n.r.respId = rt.respId, n.r.tools \subseteq rt.tools, n.r.handled = rt.handled,
           \/ n.r.speaking = rt.speaking /\ cutOver' = cutOver
           \/ n.r.speaking = FALSE /\ cutOver' = {}
    PROVE  ToolsInOrder'
<1>1. rt' = n.r /\ n.r.live
  BY DEF Becomes, Machine, RuntimeRecord
<1>2. Live' /\ (Managed' <=> Managed)
  <2>1. stored'.mode = stored.mode
    BY DEF Becomes, VoiceTypeOK, StoredRecord
  <2> QED
    BY <1>1, <2>1 DEF Live, Managed
<1>3. begun' = begun
  <2>1. CASE Managed
    <3>1. ToolsMarked(rt, begun)
      BY <2>1 DEF ToolsInOrder, AttendedCall
    <3>2. {t.id : t \in n.r.tools} \subseteq begun
      BY <3>1 DEF ToolsMarked
    <3> QED
      BY <2>1, <3>2 DEF Becomes
  <2>2. CASE ~Managed
    BY <2>2 DEF Becomes
  <2> QED
    BY <2>1, <2>2
<1>4. begun' \cup cutOver' \subseteq 1..(prov'.next - 1) /\ rt'.respId < prov'.next
      /\ \A i \in DOMAIN down' : down'[i].t = "created" => down'[i].id \in 1..(prov'.next - 1)
  BY <1>1, <1>3 DEF ToolsInOrder
<1>5. ASSUME Managed
      PROVE  AttendedCall'
  <2>1. AttendedCall
    BY <1>5 DEF ToolsInOrder
  <2>2. ToolsMarked(rt', begun')
    BY <1>1, <1>3, <2>1 DEF AttendedCall, ToolsMarked
  <2>3. (~rt'.open => down' = <<>> /\ cutOver' = {})
        /\ NewsInOrder(down', rt'.respId, prov'.next)
    BY <1>1, <2>1 DEF AttendedCall
  <2>4. CallsInTime(down', rt'.speaking, cutOver') /\ CutInTime(prov', down', rt'.speaking, cutOver')
    <3>1. CASE n.r.speaking = rt.speaking /\ cutOver' = cutOver
      BY <1>1, <2>1, <3>1 DEF AttendedCall
    <3>2. CASE n.r.speaking = FALSE /\ cutOver' = {}
      <4>1. down \in Seq(Event) /\ Len(down) + 1 \in Nat /\ DOMAIN down \subseteq Nat
        BY LenProperties DEF VoiceTypeOK
      <4>2. CallsInTime(down, rt.speaking, cutOver) /\ CutInTime(prov, down, rt.speaking, cutOver)
        BY <2>1 DEF AttendedCall
      <4>3. \A c : \A i \in Nat :
              /\ SpokenAt(down, rt.speaking, i) => SpokenAt(down, FALSE, i) \/ NotSpokenOver(down, {}, c, i)
              /\ NotSpokenOver(down, cutOver, c, i) => NotSpokenOver(down, {}, c, i)
        BY TypedInTime
      <4>4. CallsInTime(down, FALSE, {})
        BY <4>1, <4>2, <4>3 DEF CallsInTime
      <4>5. CutInTime(prov, down, FALSE, {})
        BY <4>1, <4>2, <4>3 DEF CutInTime
      <4> QED
        BY <1>1, <3>2, <4>4, <4>5
    <3> QED
      BY <3>1, <3>2
  <2> QED
    BY <2>2, <2>3, <2>4 DEF AttendedCall
<1> QED
  BY <1>2, <1>4, <1>5 DEF ToolsInOrder

LEMMA AttendsKeepsTools ==
    ASSUME ToolsInOrder, VoiceTypeOK, Live, NEW m, NEW n, Attends(m, n), Becomes(n),
           UNCHANGED <<prov, down>>, rt.open => m.r.open,
           m.r.respId = rt.respId, m.r.tools \subseteq rt.tools, m.r.handled = rt.handled,
           \/ m.r.speaking = rt.speaking /\ cutOver' = cutOver
           \/ m.r.speaking = FALSE /\ cutOver' = {}
    PROVE  ToolsInOrder'
<1>1. n \in Machine /\ (rt.open => n.r.open)
      /\ n.r.respId = rt.respId /\ n.r.tools \subseteq rt.tools /\ n.r.handled = rt.handled
  BY DEF Attends
<1>2. \/ n.r.speaking = rt.speaking /\ cutOver' = cutOver
      \/ n.r.speaking = FALSE /\ cutOver' = {}
  BY DEF Attends
<1> QED
  BY <1>1, <1>2, CalmKeepsTools

LEMMA RelayKeepsTools ==
    ASSUME ToolsInOrder, VoiceInOrder, Opens \/ Begins \/ ToolReturns \/ Injects
    PROVE  ToolsInOrder'
<1>0. VoiceTypeOK
  BY DEF VoiceInOrder
<1>1. CASE Opens
  <2> DEFINE m == [Runtime EXCEPT !.r.open = TRUE]
  <2>1. Live /\ Becomes(Flush(MaybeStart(m))) /\ UNCHANGED <<prov, down, cutOver>>
    BY <1>1 DEF Opens
  <2>2. Runtime \in Machine /\ Runtime.r = rt
    BY <2>1, RuntimeIsMachine
  <2>3. m \in Machine /\ m.r.open /\ m.r.respId = rt.respId /\ m.r.tools = rt.tools
        /\ m.r.handled = rt.handled /\ m.r.speaking = rt.speaking
    BY <2>2 DEF Machine, RuntimeRecord
  <2> HIDE DEF m
  <2>4. Attends(m, Flush(MaybeStart(m)))
    <3>1. Attends(m, MaybeStart(m)) /\ MaybeStart(m) \in Machine
      BY <2>3, AsksAttend DEF Attends
    <3> QED
      BY <3>1, AsksAttend, AttendsTwice
  <2> QED
    BY <1>0, <2>1, <2>3, <2>4, AttendsKeepsTools
<1>2. CASE Begins /\ Live
  <2> DEFINE m == [Runtime EXCEPT !.r.ready = TRUE]
  <2>1. Becomes(MaybeStart(m)) /\ UNCHANGED <<prov, down, cutOver>>
    BY <1>2 DEF Begins
  <2>2. Runtime \in Machine /\ Runtime.r = rt
    BY <1>2, RuntimeIsMachine
  <2>3. m \in Machine /\ m.r.open = rt.open /\ m.r.respId = rt.respId /\ m.r.tools = rt.tools
        /\ m.r.handled = rt.handled /\ m.r.speaking = rt.speaking
    BY <2>2 DEF Machine, RuntimeRecord
  <2> HIDE DEF m
  <2>4. Attends(m, MaybeStart(m))
    BY <2>3, AsksAttend
  <2> QED
    BY <1>0, <1>2, <2>1, <2>3, <2>4, AttendsKeepsTools
<1>3. CASE Begins /\ ~Live
  BY <1>3 DEF Begins, ToolsInOrder, Live
<1>4. CASE ToolReturns
  <2>1. Live /\ UNCHANGED <<prov, down, cutOver>>
    BY <1>4 DEF ToolReturns
  <2>2. PICK t \in rt.tools :
          LET m == [Runtime EXCEPT !.r.tools = Runtime.r.tools \ {t}]
          IN  Becomes(IF t.epoch = rt.epoch THEN ContinueAfterTools(m) ELSE m)
    BY <1>4 DEF ToolReturns
  <2> DEFINE tools == Runtime.r.tools \ {t}
             m == [Runtime EXCEPT !.r.tools = tools]
  <2>3. Runtime \in Machine /\ Runtime.r = rt
    BY <2>1, RuntimeIsMachine
  <2>4. tools \in SUBSET [id : Nat, epoch : Nat] /\ tools \subseteq rt.tools
    BY <2>3 DEF Machine, RuntimeRecord
  <2>5. Becomes(ContinueAfterTools(m)) \/ Becomes(m)
    BY <2>2
  <2> HIDE DEF tools
  <2>6. m \in Machine /\ m.r.open = rt.open /\ m.r.respId = rt.respId /\ m.r.tools = tools
        /\ m.r.handled = rt.handled /\ m.r.speaking = rt.speaking
    BY <2>3, <2>4 DEF Machine, RuntimeRecord
  <2> HIDE DEF m
  <2>7. Attends(m, m) /\ Attends(m, ContinueAfterTools(m))
    BY <2>6, AsksAttend
  <2> QED
    BY <1>0, <2>1, <2>4, <2>5, <2>6, <2>7, AttendsKeepsTools
<1>5. CASE Injects
  <2> DEFINE pending == Runtime.r.pending + 1
             m == [Runtime EXCEPT !.r.pending = pending]
  <2>1. Live /\ Becomes(Flush(m)) /\ UNCHANGED <<prov, down, cutOver>>
    BY <1>5 DEF Injects
  <2>2. Runtime \in Machine /\ Runtime.r = rt
    BY <2>1, RuntimeIsMachine
  <2>3. pending \in Nat
    BY <2>2 DEF Machine, RuntimeRecord
  <2> HIDE DEF pending
  <2>4. m \in Machine /\ m.r.open = rt.open /\ m.r.respId = rt.respId /\ m.r.tools = rt.tools
        /\ m.r.handled = rt.handled /\ m.r.speaking = rt.speaking
    BY <2>2, <2>3 DEF Machine, RuntimeRecord
  <2> HIDE DEF m
  <2>5. Attends(m, Flush(m))
    BY <2>4, AsksAttend
  <2> QED
    BY <1>0, <2>1, <2>4, <2>5, AttendsKeepsTools
<1> QED
  BY <1>1, <1>2, <1>3, <1>4, <1>5

LEMMA TypesTextKeepsTools ==
    ASSUME ToolsInOrder, VoiceInOrder, TypesText
    PROVE  ToolsInOrder'
<1> DEFINE epoch == Runtime.r.epoch + 1
           typed == Runtime.r.typed + 1
           a == [Runtime EXCEPT !.r.epoch = epoch, !.r.speaking = FALSE, !.r.waiting = FALSE]
           b == [a EXCEPT !.r.turn = FALSE, !.r.done = FALSE, !.r.hadTool = FALSE]
           m == [b EXCEPT !.r.typed = typed]
           cleared   == Sends(m, "clear_input")
           cancelled == IF rt.active THEN Sends(cleared, "cancel") ELSE cleared
           n         == Sends(cancelled, "clear_output")
<1>1. Live /\ UNCHANGED <<prov, down>> /\ cutOver' = {}
  BY DEF TypesText
<1>2. Runtime \in Machine /\ Runtime.r = rt
  BY <1>1, RuntimeIsMachine
<1>3. Becomes(FlushTyped(n))
  <2>1. m = [Runtime EXCEPT !.r.epoch = epoch, !.r.speaking = FALSE, !.r.waiting = FALSE,
                            !.r.turn = FALSE, !.r.done = FALSE, !.r.hadTool = FALSE,
                            !.r.typed = typed]
    BY <1>2 DEF Machine, RuntimeRecord
  <2> HIDE DEF a, b, m
  <2> QED
    BY <2>1 DEF TypesText
<1>4. epoch \in Nat /\ typed \in Nat
  BY <1>2 DEF Machine, RuntimeRecord
<1> HIDE DEF epoch, typed
<1>5. a \in Machine /\ a.r.open = rt.open /\ a.r.respId = rt.respId /\ a.r.tools = rt.tools
      /\ a.r.handled = rt.handled /\ a.r.speaking = FALSE
  BY <1>2, <1>4 DEF Machine, RuntimeRecord
<1> HIDE DEF a
<1>6. b \in Machine /\ b.r.open = rt.open /\ b.r.respId = rt.respId /\ b.r.tools = rt.tools
      /\ b.r.handled = rt.handled /\ b.r.speaking = FALSE
  BY <1>5 DEF Machine, RuntimeRecord
<1> HIDE DEF b
<1>7. m \in Machine /\ m.r.open = rt.open /\ m.r.respId = rt.respId /\ m.r.tools = rt.tools
      /\ m.r.handled = rt.handled /\ m.r.speaking = FALSE
  BY <1>4, <1>6 DEF Machine, RuntimeRecord
<1> HIDE DEF m
<1>8. ASSUME NEW k, Attends(m, k), NEW op \in RequestOps
      PROVE  Attends(m, Sends(k, op))
  <2>1. k \in Machine
    BY <1>8 DEF Attends
  <2> QED
    BY <1>8, <2>1, SendsAttends, AttendsTwice
<1>9. Attends(m, m) /\ {"clear_input", "cancel", "clear_output"} \subseteq RequestOps
  BY <1>7, AsksAttend DEF RequestOps
<1>10. Attends(m, cleared)
  BY <1>8, <1>9
<1> HIDE DEF cleared
<1>11. Attends(m, cancelled)
  BY <1>8, <1>9, <1>10
<1> HIDE DEF cancelled
<1>12. Attends(m, n)
  BY <1>8, <1>9, <1>11
<1> HIDE DEF n
<1>13. Attends(m, FlushTyped(n))
  <2>1. n \in Machine
    BY <1>12 DEF Attends
  <2> QED
    BY <1>12, <2>1, AsksAttend, AttendsTwice
<1>14. VoiceTypeOK
  BY DEF VoiceInOrder
<1> QED
  BY <1>1, <1>3, <1>7, <1>13, <1>14, AttendsKeepsTools

\* A tool that begins with an event began never before, and nobody was heard to
\* speak over its response.
LEMMA HeardCalls ==
    ASSUME ToolsInOrder, VoiceInOrder, Hears, Managed
    PROVE  /\ AttendedCall
           /\ Learns(Runtime, [r |-> rt', out |-> up'], Head(down))
           /\ begun' = begun \cup {t.id : t \in rt'.tools}
           /\ \A t \in rt'.tools :
                \/ t \in rt.tools /\ t.id \in begun
                \/ /\ t.id \notin begun \cup cutOver'
                   /\ t.id \in rt'.handled /\ t.id \in 1..(prov.next - 1)
<1> DEFINE e == Head(down)
           n == Handle(Runtime, e)
<1>1. Live /\ Becomes(n) /\ down # <<>>
      /\ cutOver' = IF e.t = "speech_started" /\ rt.respId # 0
                    THEN cutOver \cup {rt.respId} ELSE cutOver
  BY DEF Hears
<1>2. AttendedCall
  BY <1>1 DEF ToolsInOrder
<1>3. Runtime \in Machine /\ Runtime.r = rt
  BY <1>1, RuntimeIsMachine
<1>4. e \in Event /\ 1 \in DOMAIN down /\ e = down[1]
  <2>1. down \in Seq(Event)
    BY DEF VoiceInOrder, VoiceTypeOK
  <2>2. Len(down) \in Nat \ {0} /\ DOMAIN down = 1..Len(down)
    BY <1>1, <2>1, LenProperties, EmptySeq
  <2> QED
    BY <1>1, <2>1, <2>2, HeadTailProperties
<1>5. e.t # "mcp_started"
      /\ (e.t \in {"created", "function_call", "done"} => e.id \in 1..(prov.next - 1))
  BY <1>2, <1>4 DEF AttendedCall, NewsInOrder
<1> HIDE DEF e
<1>6. Learns(Runtime, n, e)
  BY <1>3, <1>4, HearingLearns
<1>7. n \in Machine /\ rt' = n.r /\ up' = n.out /\ begun' = begun \cup {t.id : t \in rt'.tools}
  BY <1>1, <1>6 DEF Becomes, Learns
<1>8. n = [r |-> rt', out |-> up']
  BY <1>7 DEF Machine
<1> HIDE DEF n
<1>9. /\ e.t = "function_call" /\ ~rt.speaking => e.id \notin cutOver
      /\ e.t = "done" /\ e.ok => e.id \notin cutOver
  <2>1. ~rt.speaking => ~SpokenAt(down, rt.speaking, 1)
    BY DEF SpokenAt
  <2>2. NotSpokenOver(down, cutOver, e.id, 1) => e.id \notin cutOver
    BY DEF NotSpokenOver
  <2>3. CallsInTime(down, rt.speaking, cutOver)
    BY <1>2 DEF AttendedCall
  <2> QED
    BY <1>4, <2>1, <2>2, <2>3 DEF CallsInTime
<1>10. begun \subseteq rt.handled /\ \A t \in rt.tools : t.id \in begun
  BY <1>2 DEF AttendedCall, ToolsMarked
<1>11. ASSUME NEW t \in rt'.tools, t \notin rt.tools
       PROVE  /\ t.id \notin begun \cup cutOver'
              /\ t.id \in rt'.handled /\ t.id \in 1..(prov.next - 1)
  <2>1. /\ t.id = e.id /\ e.id \in rt'.handled /\ e.id \notin rt.handled
        /\ (e.t = "function_call" /\ ~rt.speaking) \/ (e.t = "done" /\ e.ok)
    BY <1>3, <1>5, <1>6, <1>7, <1>11 DEF Learns
  <2>2. cutOver' = cutOver
    BY <1>1, <2>1
  <2> QED
    BY <1>5, <1>9, <1>10, <2>1, <2>2
<1> QED
  BY <1>2, <1>6, <1>7, <1>8, <1>10, <1>11 DEF e

LEMMA HearsKeepsTools ==
    ASSUME ToolsInOrder, VoiceInOrder, Hears
    PROVE  ToolsInOrder'
<1> DEFINE e == Head(down)
           n == Handle(Runtime, e)
           q == Tail(down)
           bar == IF e.t = "speech_started" /\ rt.respId # 0
                  THEN cutOver \cup {rt.respId} ELSE cutOver
<1>1. Live /\ Becomes(n) /\ down # <<>> /\ down' = q /\ prov' = prov /\ cutOver' = bar
  BY DEF Hears
<1>2. Runtime \in Machine /\ Runtime.r = rt /\ VoiceTypeOK /\ down \in Seq(Event)
      /\ prov \in ProviderRecord /\ rt \in RuntimeRecord
  BY <1>1, RuntimeIsMachine DEF VoiceInOrder, VoiceTypeOK
<1>3. /\ q \in Seq(Event) /\ Len(q) = Len(down) - 1 /\ Len(down) \in Nat \ {0}
      /\ e = down[1] /\ e \in Event /\ DOMAIN down = 1..Len(down) /\ DOMAIN q = 1..Len(q)
      /\ \A i \in 1..Len(q) : q[i] = down[i + 1]
  BY <1>1, <1>2, HeadTailProperties, LenProperties, EmptySeq
<1>4. Learns(Runtime, n, e)
  BY <1>2, <1>3, HearingLearns
<1>5. n \in Machine /\ rt' = n.r /\ rt'.live /\ rt'.open = rt.open /\ rt' \in RuntimeRecord
  <2>1. n \in Machine /\ n.r.open = rt.open /\ rt' = n.r
    BY <1>1, <1>2, <1>4 DEF Learns, Becomes
  <2> HIDE DEF n
  <2>2. n.r \in RuntimeRecord
    BY <2>1 DEF Machine
  <2>3. n.r.live
    BY <2>2 DEF RuntimeRecord
  <2> QED
    BY <2>1, <2>2, <2>3
<1> HIDE DEF n, q, bar
<1>6. Live' /\ (Managed' <=> Managed)
  <2>1. stored'.mode = stored.mode
    BY <1>1, <1>2 DEF Becomes, VoiceTypeOK, StoredRecord
  <2> QED
    BY <1>5, <2>1 DEF Live, Managed
<1>7. rt'.respId \in {rt.respId, 0} \/ (e.t = "created" /\ rt'.respId = e.id)
  BY <1>2, <1>4, <1>5 DEF Learns
<1>8. /\ prov.next \in Nat \ {0} /\ rt.respId \in Nat /\ rt.respId < prov.next
      /\ \A i \in DOMAIN down : down[i].t = "created" => down[i].id \in 1..(prov.next - 1)
  BY <1>1, <1>2 DEF ToolsInOrder, ProviderRecord, RuntimeRecord
<1>9. /\ rt'.respId < prov.next
      /\ \A i \in DOMAIN q : q[i].t = "created" => q[i].id \in 1..(prov.next - 1)
  <2>1. e.t = "created" => e.id \in 1..(prov.next - 1)
    BY <1>3, <1>8
  <2>2. \A i \in DOMAIN q : i + 1 \in DOMAIN down
    BY <1>3
  <2> HIDE DEF e
  <2>3. rt'.respId < prov.next
    BY <1>7, <1>8, <2>1
  <2> QED
    BY <1>3, <1>8, <2>2, <2>3
<1>10. bar \subseteq 1..(prov.next - 1) /\ bar \subseteq cutOver \cup {rt.respId}
       /\ (e.t # "speech_started" => bar = cutOver)
  <2>1. rt.respId # 0 => rt.respId \in 1..(prov.next - 1)
    BY <1>8
  <2> QED
    BY <2>1 DEF bar, ToolsInOrder
<1> HIDE DEF e
<1>11. CASE ~Managed
  <2>1. begun' = begun
    BY <1>1, <1>11 DEF Becomes
  <2> QED
    BY <1>1, <1>6, <1>9, <1>10, <1>11, <2>1 DEF ToolsInOrder
<1>12. CASE Managed
  <2>1. AttendedCall /\ begun' = begun \cup {t.id : t \in rt'.tools}
        /\ \A t \in rt'.tools :
             \/ t \in rt.tools /\ t.id \in begun
             \/ t.id \in rt'.handled /\ t.id \in 1..(prov.next - 1)
    BY <1>12, HeardCalls
  <2>2. rt.handled \subseteq rt'.handled
    BY <1>2, <1>4, <1>5 DEF Learns
  <2>3. ToolsMarked(rt', begun')
    BY <2>1, <2>2 DEF AttendedCall, ToolsMarked
  <2>4. begun' \subseteq 1..(prov.next - 1)
    BY <2>1 DEF ToolsInOrder
  <2>5. rt'.open
    BY <1>1, <1>5, <2>1 DEF AttendedCall
  <2>6. NewsInOrder(down, rt.respId, prov.next) /\ CallsInTime(down, rt.speaking, cutOver)
        /\ CutInTime(prov, down, rt.speaking, cutOver)
    BY <2>1 DEF AttendedCall
  <2>7. \A i \in DOMAIN q : i + 1 \in DOMAIN down /\ q[i] = down[i + 1] /\ 1 < i + 1
    BY <1>3
  <2>8. NewsInOrder(q, rt'.respId, prov.next)
    <3>1. \A i \in DOMAIN q : q[i].t # "mcp_started"
      BY <2>6, <2>7 DEF NewsInOrder
    <3>2. \A i \in DOMAIN q : q[i].t \in {"created", "function_call", "done"}
                              => q[i].id \in 1..(prov.next - 1)
      BY <2>6, <2>7 DEF NewsInOrder
    <3>3. ASSUME NEW i \in DOMAIN q, q[i].t = "created"
          PROVE  rt'.respId < q[i].id
      <4>1. rt.respId < q[i].id /\ q[i].id \in Nat \ {0}
        BY <2>6, <2>7, <3>2, <3>3 DEF NewsInOrder
      <4>2. e.t = "created" => e.id < q[i].id
        BY <1>3, <2>6, <2>7, <3>3 DEF NewsInOrder
      <4> QED
        BY <1>7, <4>1, <4>2
    <3>4. ASSUME NEW i \in DOMAIN q, NEW j \in DOMAIN q, i < j, q[i].t = "created", q[j].t = "created"
          PROVE  q[i].id < q[j].id
      <4>1. i + 1 < j + 1
        BY <1>3, <3>4
      <4> QED
        BY <2>6, <2>7, <3>4, <4>1 DEF NewsInOrder
    <3> QED
      BY <3>1, <3>2, <3>3, <3>4 DEF NewsInOrder
  <2>9. ASSUME NEW i \in 1..Len(down)
        PROVE  /\ SpokenAt(down, rt.speaking, i + 1) => SpokenAt(q, rt'.speaking, i)
               /\ \A c : NotSpokenOver(down, cutOver, c, i + 1) => NotSpokenOver(q, bar, c, i)
    <3>1. rt.speaking \in BOOLEAN /\ rt'.speaking \in BOOLEAN
      BY <1>2, <1>5 DEF RuntimeRecord
    <3>2. rt'.speaking <=> e.t = "speech_started" \/ (rt.speaking /\ e.t # "speech_stopped")
      BY <1>2, <1>4, <1>5 DEF Learns
    <3>3. SpokenAt(down, rt.speaking, i + 1) => SpokenAt(q, rt'.speaking, i)
      BY <1>1, <1>2, <3>1, <3>2, TailSpoken DEF q, e
    <3>4. ASSUME NEW k \in 2..i, down[k].t = "created"
          PROVE  down[k].id \notin bar \ cutOver
      <4>1. k \in DOMAIN down
        BY <1>3
      <4>2. rt.respId < down[k].id
        BY <2>6, <3>4, <4>1 DEF NewsInOrder
      <4>3. down[k].id # rt.respId
        BY <1>8, <4>2
      <4> QED
        BY <1>10, <4>3
    <3>5. \/ bar \subseteq cutOver
          \/ /\ e.t = "speech_started"
             /\ \A k \in 2..i : down[k].t = "created" => down[k].id \notin bar \ cutOver
      BY <1>10, <3>4
    <3>6. \A c : NotSpokenOver(down, cutOver, c, i + 1) => NotSpokenOver(q, bar, c, i)
      BY <1>1, <1>2, <3>5, TailNotSpokenOver DEF q, e
    <3> QED
      BY <3>3, <3>6
  <2>10. CallsInTime(q, rt'.speaking, bar)
    <3>1. \A i \in DOMAIN q : i \in 1..Len(down)
      BY <1>3
    <3> QED
      BY <2>6, <2>7, <2>9, <3>1 DEF CallsInTime
  <2>11. CutInTime(prov, q, rt'.speaking, bar)
    <3>1. Len(down) \in 1..Len(down) /\ Len(q) + 1 = Len(down)
      BY <1>3
    <3> QED
      BY <2>6, <2>9, <3>1 DEF CutInTime
  <2>12. AttendedCall'
    BY <1>1, <2>3, <2>5, <2>8, <2>10, <2>11 DEF AttendedCall
  <2> QED
    BY <1>1, <1>6, <1>9, <1>10, <2>4, <2>12 DEF ToolsInOrder
<1> QED
  BY <1>11, <1>12

\* A runtime that starts knows of nothing, and of nothing to bar.
LEMMA AttachKeepsTools ==
    ASSUME ToolsInOrder, VoiceInOrder, Restores \/ \E mode \in {"function", "mcp"} : Registers(mode)
    PROVE  ToolsInOrder'
<1>1. prov'.resp = prov.resp /\ prov'.next = prov.next /\ prov'.last = prov.last
      /\ prov \in ProviderRecord /\ prov'.next \in Nat \ {0}
  BY DEF Restores, Registers, VoiceInOrder, VoiceTypeOK, ProviderRecord
<1>2. PICK c : rt' = Fresh(c)
  BY DEF Restores, Registers
<1>3. rt'.live /\ ~rt'.open /\ rt'.respId = 0 /\ rt'.tools = {} /\ rt'.handled = {}
  BY <1>2 DEF Fresh
<1>4. ~Live
  BY DEF Restores, Registers, Live, VoiceInOrder, VoiceTypeOK, NoCall
<1>5. down' = <<>>
  BY <1>4 DEF Restores, Registers, ToolsInOrder
<1>6. begun' = {} /\ cutOver' = {}
  <2>1. CASE Restores
    BY <2>1 DEF Restores
  <2>2. CASE \E mode \in {"function", "mcp"} : Registers(mode)
    <3>1. prov.next = 1 /\ begun' = begun /\ cutOver' = cutOver
      BY <2>2 DEF Registers
    <3>2. begun \cup cutOver \subseteq 1..0
      BY <3>1 DEF ToolsInOrder
    <3> QED
      BY <3>1, <3>2
  <2> QED
    BY <2>1, <2>2
<1>7. NewsInOrder(<<>>, 0, prov'.next) /\ CallsInTime(<<>>, rt'.speaking, {})
      /\ \A i \in DOMAIN <<>> : FALSE
  BY EmptySeq DEF NewsInOrder, CallsInTime
<1>8. CutInTime(prov', <<>>, rt'.speaking, {})
  <2>1. Len(<<>>) = 0
    BY EmptySeq
  <2>2. NotSpokenOver(<<>>, {}, prov'.resp, Len(<<>>) + 1)
    BY <2>1 DEF NotSpokenOver
  <2> QED
    BY <2>2 DEF CutInTime
<1>9. ToolsMarked(rt', begun')
  BY <1>3, <1>6 DEF ToolsMarked
<1>10. AttendedCall'
  BY <1>3, <1>5, <1>6, <1>7, <1>8, <1>9 DEF AttendedCall
<1>11. prov'.resp < prov'.next /\ prov'.last < prov'.next /\ 0 < prov'.next
  BY <1>1 DEF ToolsInOrder
<1> QED
  BY <1>3, <1>5, <1>6, <1>7, <1>10, <1>11 DEF ToolsInOrder

LEMMA CallEndsKeepsTools ==
    ASSUME ToolsInOrder, VoiceInOrder, Ends \/ Stops
    PROVE  ToolsInOrder'
<1>1. prov'.resp = prov.resp /\ prov'.next = prov.next /\ prov'.last = prov.last
  BY DEF Ends, Stops, VoiceInOrder, VoiceTypeOK, ProviderRecord
<1>2. ~Live' /\ down' = <<>> /\ begun' = begun /\ cutOver' = cutOver
  BY DEF Ends, Stops, NoRuntime, Live
<1> QED
  BY <1>1, <1>2 DEF ToolsInOrder

-----------------------------------------------------------------------------
(* The provider's side *)

\* What a step of the provider has to keep while its events are heard.
HeardInTime(p, d) ==
    /\ NewsInOrder(d, rt.respId, p.next)
    /\ CallsInTime(d, rt.speaking, cutOver)
    /\ CutInTime(p, d, rt.speaking, cutOver)

LEMMA ProviderKeepsTools ==
    ASSUME ToolsInOrder, VoiceTypeOK, UNCHANGED <<stored, rt, begun, cutOver>>,
           NEW p \in ProviderRecord, prov' = p, prov.next <= p.next,
           p.resp < p.next, p.last < p.next,
           Watched \/ down' = down,
           Watched => \A i \in DOMAIN down' : down'[i].t = "created" => down'[i].id \in 1..(p.next - 1),
           Watched /\ Managed => HeardInTime(p, down')
    PROVE  ToolsInOrder'
<1>1. prov.next \in Nat /\ p.next \in Nat
  BY DEF VoiceTypeOK, ProviderRecord
<1>2. begun' \cup cutOver' \subseteq 1..(prov'.next - 1)
  <2>1. \A c \in 1..(prov.next - 1) : c \in 1..(p.next - 1)
    BY <1>1
  <2> QED
    BY <2>1 DEF ToolsInOrder
<1>3. (Live' <=> Live) /\ (Managed' <=> Managed)
  BY DEF Live, Managed
<1>4. ~Live => down' = <<>>
  BY DEF ToolsInOrder, Watched
<1>5. Live => rt'.respId < prov'.next
  <2>1. Live => rt.respId < prov.next /\ rt.respId \in Nat
    BY DEF ToolsInOrder, VoiceTypeOK, RuntimeRecord
  <2> QED
    BY <1>1, <2>1
<1>6. Live => \A i \in DOMAIN down' : down'[i].t = "created" => down'[i].id \in 1..(prov'.next - 1)
  <2>1. CASE Watched
    BY <2>1
  <2>2. CASE down' = down
    <3>1. \A c \in 1..(prov.next - 1) : c \in 1..(p.next - 1)
      BY <1>1
    <3> QED
      BY <2>2, <3>1 DEF ToolsInOrder
  <2> QED
    BY <2>1, <2>2
<1>7. ASSUME Live, Managed
      PROVE  AttendedCall'
  <2>1. AttendedCall
    BY <1>7 DEF ToolsInOrder
  <2>2. CASE Watched
    BY <2>1, <2>2, <1>7 DEF AttendedCall, HeardInTime, Watched
  <2>3. CASE ~Watched
    <3>1. ~rt.open /\ down' = <<>> /\ cutOver' = {}
      BY <1>7, <2>1, <2>3 DEF Watched, AttendedCall
    <3>2. Len(<<>>) = 0 /\ DOMAIN <<>> = {}
      BY EmptySeq
    <3>3. NotSpokenOver(<<>>, {}, p.resp, Len(<<>>) + 1)
      BY <3>2 DEF NotSpokenOver
    <3>4. CutInTime(prov', down', rt'.speaking, cutOver')
      BY <3>1, <3>3 DEF CutInTime
    <3>5. NewsInOrder(<<>>, rt'.respId, prov'.next) /\ CallsInTime(<<>>, rt'.speaking, {})
      BY <3>2 DEF NewsInOrder, CallsInTime
    <3> QED
      BY <2>1, <3>1, <3>4, <3>5 DEF AttendedCall
  <2> QED
    BY <2>2, <2>3
<1> QED
  BY <1>2, <1>3, <1>4, <1>5, <1>6, <1>7 DEF ToolsInOrder

\* Nothing is emitted.
LEMMA NoneKeepsTools ==
    ASSUME ToolsInOrder, VoiceTypeOK, UNCHANGED <<stored, rt, begun, cutOver>>,
           NEW p \in ProviderRecord, Emits(p, <<>>),
           p.next = prov.next, p.resp = prov.resp, p.last = prov.last,
           Watched /\ Managed => CutInTime(p, down, rt.speaking, cutOver)
    PROVE  ToolsInOrder'
<1>1. prov' = p /\ down' = down
  BY ConcatProperties, EmptySeq DEF Emits, VoiceTypeOK
<1>2. prov.next <= p.next /\ p.resp < p.next /\ p.last < p.next
  BY DEF ToolsInOrder, VoiceTypeOK, ProviderRecord
<1>3. Watched /\ Managed => HeardInTime(p, down')
  BY <1>1 DEF HeardInTime, ToolsInOrder, AttendedCall, Watched
<1>4. Watched => \A i \in DOMAIN down' : down'[i].t = "created" => down'[i].id \in 1..(p.next - 1)
  BY <1>1 DEF ToolsInOrder, Watched
<1> QED
  BY <1>1, <1>2, <1>3, <1>4, ProviderKeepsTools

\* One event is emitted.
LEMMA OneKeepsTools ==
    ASSUME ToolsInOrder, VoiceTypeOK, UNCHANGED <<stored, rt, begun, cutOver>>,
           NEW p \in ProviderRecord, NEW x \in Event, Emits(p, <<x>>), prov.next <= p.next,
           p.resp < p.next, p.last < p.next,
           x.t = "created" => x.id \in prov.next..(p.next - 1),
           ASSUME Watched, Managed
           PROVE  /\ x.t # "mcp_started"
                  /\ x.t \in {"function_call", "done"} => x.id \in 1..(p.next - 1)
                  /\ x.t = "function_call" => \/ SpokenAt(down, rt.speaking, Len(down) + 1)
                                              \/ NotSpokenOver(down, cutOver, x.id, Len(down) + 1)
                  /\ x.t = "done" /\ x.ok => NotSpokenOver(down, cutOver, x.id, Len(down) + 1)
                  /\ CutInTime(p, Append(down, x), rt.speaking, cutOver)
    PROVE  ToolsInOrder'
<1>1. down \in Seq(Event) /\ prov \in ProviderRecord /\ prov' = p
  BY DEF Emits, VoiceTypeOK
<1>2. prov.next \in Nat \ {0} /\ p.next \in Nat
  BY <1>1 DEF ProviderRecord
<1> DEFINE q == Append(down, x)
<1>3. /\ q \in Seq(Event) /\ q[Len(down) + 1] = x
      /\ Len(down) \in Nat /\ DOMAIN down = 1..Len(down) /\ DOMAIN q = 1..(Len(down) + 1)
      /\ \A k \in 1..Len(down) : q[k] = down[k]
  BY <1>1, JoinPlaces
<1>4. down' = IF Watched THEN q ELSE down
  <2>1. down \o <<x>> = q
    BY <1>1
  <2> QED
    BY <2>1 DEF Emits
<1> HIDE DEF q
<1>5. ASSUME Watched
      PROVE  \A i \in DOMAIN down' : down'[i].t = "created" => down'[i].id \in 1..(p.next - 1)
  <2> SUFFICES ASSUME NEW i \in DOMAIN q, q[i].t = "created"
               PROVE  q[i].id \in 1..(p.next - 1)
    BY <1>4, <1>5
  <2>1. CASE i = Len(down) + 1
    BY <1>2, <1>3, <2>1
  <2>2. CASE i # Len(down) + 1
    <3>1. i \in DOMAIN down /\ q[i] = down[i]
      BY <1>3, <2>2
    <3>2. q[i].id \in 1..(prov.next - 1)
      BY <1>5, <3>1 DEF ToolsInOrder, Watched
    <3> QED
      BY <1>2, <3>2
  <2> QED
    BY <2>1, <2>2
<1>6. ASSUME Watched, Managed
      PROVE  HeardInTime(p, down')
  <2>1. rt.respId \in Nat /\ rt.respId < prov.next /\ rt.speaking \in BOOLEAN
    BY <1>6 DEF ToolsInOrder, Watched, VoiceTypeOK, RuntimeRecord
  <2>2. NewsInOrder(down, rt.respId, prov.next) /\ CallsInTime(down, rt.speaking, cutOver)
    BY <1>6 DEF ToolsInOrder, AttendedCall, Watched
  <2>3. x.t \in {"created", "function_call", "done"} => x.id \in 1..(p.next - 1)
    BY <1>2, <1>6
  <2>4. x.t = "created" => rt.respId < x.id /\ prov.next <= x.id
    BY <1>2, <2>1
  <2>5. NewsInOrder(q, rt.respId, p.next) /\ CallsInTime(q, rt.speaking, cutOver)
    BY <1>1, <1>2, <1>6, <2>1, <2>2, <2>3, <2>4, JoinNews DEF q
  <2>6. CutInTime(p, q, rt.speaking, cutOver)
    BY <1>6 DEF q
  <2> QED
    BY <1>4, <1>6, <2>5, <2>6 DEF HeardInTime
<1>7. Watched \/ down' = down
  BY <1>4
<1> QED
  BY <1>1, <1>5, <1>6, <1>7, ProviderKeepsTools

\* The response under way stays as it is.
LEMMA CutStays ==
    ASSUME VoiceTypeOK, Live, AttendedCall, NEW p, NEW x \in Event,
           p.resp = prov.resp, p.cut = prov.cut, p.user = prov.user,
           x.t \notin {"speech_started", "speech_stopped"}
    PROVE  CutInTime(p, Append(down, x), rt.speaking, cutOver)
<1> DEFINE q == Append(down, x)
<1>1. down \in Seq(Event) /\ rt.speaking \in BOOLEAN
  BY DEF VoiceTypeOK, RuntimeRecord
<1>2. /\ SpokenAt(down, rt.speaking, Len(down) + 1) => SpokenAt(q, rt.speaking, Len(q) + 1)
      /\ NotSpokenOver(down, cutOver, prov.resp, Len(down) + 1)
            => NotSpokenOver(q, cutOver, prov.resp, Len(q) + 1)
  BY <1>1, JoinInTime
<1> HIDE DEF q
<1>3. CutInTime(p, q, rt.speaking, cutOver)
  BY <1>2 DEF AttendedCall, CutInTime
<1> QED
  BY <1>3 DEF q

\* An event that says nothing of a response or of the person.
LEMMA PlainKeepsTools ==
    ASSUME ToolsInOrder, VoiceTypeOK, UNCHANGED <<stored, rt, begun, cutOver>>,
           NEW p \in ProviderRecord, NEW x \in Event, Emits(p, <<x>>),
           p.next = prov.next, p.resp = prov.resp, p.last = prov.last,
           p.cut = prov.cut, p.user = prov.user,
           x.t \notin {"speech_started", "speech_stopped", "created", "function_call", "done"},
           Managed => x.t # "mcp_started"
    PROVE  ToolsInOrder'
<1>1. prov.next <= p.next /\ p.resp < p.next /\ p.last < p.next
  BY DEF ToolsInOrder, VoiceTypeOK, ProviderRecord
<1>2. ASSUME Watched, Managed
      PROVE  CutInTime(p, Append(down, x), rt.speaking, cutOver)
  BY <1>2, CutStays DEF ToolsInOrder, Watched
<1> QED
  BY <1>1, <1>2, OneKeepsTools

LEMMA PlainStepsKeepTools ==
    ASSUME ToolsInOrder, VoiceTypeOK,
           ListsTools \/ CallsRemoteTool \/ RemoteToolEnds \/ Plays \/ FallsQuiet
    PROVE  ToolsInOrder'
<1>0. prov \in ProviderRecord /\ UNCHANGED <<stored, rt, begun, cutOver>>
  BY DEF VoiceTypeOK, ListsTools, CallsRemoteTool, RemoteToolEnds, Plays, FallsQuiet
<1> USE DEF ProviderRecord
<1>1. CASE ListsTools
  <2> DEFINE p == [prov EXCEPT !.listed = TRUE]
             x == [t |-> "tools_listed"]
  <2>1. Emits(p, <<x>>)
    BY <1>1 DEF ListsTools
  <2>2. p \in ProviderRecord /\ p.next = prov.next /\ p.resp = prov.resp /\ p.last = prov.last
        /\ p.cut = prov.cut /\ p.user = prov.user
    BY <1>0
  <2>3. x \in Event /\ x.t = "tools_listed"
    BY DEF Event, PlainEvents
  <2> HIDE DEF p, x
  <2> QED
    BY <1>0, <2>1, <2>2, <2>3, PlainKeepsTools
<1>2. CASE CallsRemoteTool
  <2> DEFINE mcp == prov.mcp \cup {prov.resp}
             p == [prov EXCEPT !.stage = 2, !.mcp = mcp]
             x == [t |-> "mcp_started", id |-> prov.resp]
  <2>1. Emits(p, <<x>>) /\ ~Managed
    BY <1>2 DEF CallsRemoteTool
  <2>2. mcp \in SUBSET Nat
    BY <1>0
  <2>3. x \in Event /\ x.t = "mcp_started"
    BY <1>0 DEF Event, PlainEvents
  <2> HIDE DEF mcp, x
  <2>4. p \in ProviderRecord /\ p.next = prov.next /\ p.resp = prov.resp /\ p.last = prov.last
        /\ p.cut = prov.cut /\ p.user = prov.user
    BY <1>0, <2>2
  <2> HIDE DEF p
  <2> QED
    BY <1>0, <2>1, <2>3, <2>4, PlainKeepsTools
<1>3. CASE RemoteToolEnds
  <2>1. PICK id \in prov.mcp :
          Emits([prov EXCEPT !.mcp = prov.mcp \ {id}], << [t |-> "mcp_ended", id |-> id] >>)
    BY <1>3 DEF RemoteToolEnds
  <2> DEFINE mcp == prov.mcp \ {id}
             p == [prov EXCEPT !.mcp = mcp]
             x == [t |-> "mcp_ended", id |-> id]
  <2>2. mcp \in SUBSET Nat /\ id \in Nat
    BY <1>0
  <2>3. x \in Event /\ x.t = "mcp_ended"
    BY <2>2 DEF Event, PlainEvents
  <2>4. Emits(p, <<x>>)
    BY <2>1
  <2> HIDE DEF mcp, x
  <2>5. p \in ProviderRecord /\ p.next = prov.next /\ p.resp = prov.resp /\ p.last = prov.last
        /\ p.cut = prov.cut /\ p.user = prov.user
    BY <1>0, <2>2
  <2> HIDE DEF p
  <2> QED
    BY <1>0, <2>3, <2>4, <2>5, PlainKeepsTools
<1>4. CASE Plays \/ FallsQuiet
  <2>1. PICK sound \in {"on", "over"}, x \in {[t |-> "audio_started"], [t |-> "audio_stopped"]} :
          Emits([prov EXCEPT !.sound = sound], << x >>)
    BY <1>4 DEF Plays, FallsQuiet
  <2> DEFINE p == [prov EXCEPT !.sound = sound]
  <2>2. x \in Event /\ x.t \in {"audio_started", "audio_stopped"}
    BY DEF Event, PlainEvents
  <2>3. p \in ProviderRecord /\ p.next = prov.next /\ p.resp = prov.resp /\ p.last = prov.last
        /\ p.cut = prov.cut /\ p.user = prov.user
    BY <1>0
  <2>4. Emits(p, <<x>>)
    BY <2>1
  <2> HIDE DEF p
  <2> QED
    BY <1>0, <2>2, <2>3, <2>4, PlainKeepsTools
<1> QED
  BY <1>1, <1>2, <1>3, <1>4

\* The person speaks: what is being said is cut off.
LEMMA SpeaksKeepsTools ==
    ASSUME ToolsInOrder, VoiceTypeOK, Speaks
    PROVE  ToolsInOrder'
<1> DEFINE cut == Answering
           p == [prov EXCEPT !.user = "speaking", !.cut = cut]
           x == [t |-> "speech_started"]
<1>1. Emits(p, <<x>>) /\ UNCHANGED <<stored, rt, begun, cutOver>>
  BY DEF Speaks
<1>2. cut \in BOOLEAN /\ (cut <=> prov.resp # 0)
  BY DEF Answering
<1> HIDE DEF cut
<1>3. p \in ProviderRecord /\ p.next = prov.next /\ p.resp = prov.resp /\ p.last = prov.last
      /\ p.cut = cut /\ p.user = "speaking"
  BY <1>2 DEF VoiceTypeOK, ProviderRecord
<1>4. x \in Event /\ x.t = "speech_started"
  BY DEF Event, PlainEvents
<1> HIDE DEF p, x
<1>5. prov.next <= p.next /\ p.resp < p.next /\ p.last < p.next
  BY <1>3 DEF ToolsInOrder, VoiceTypeOK, ProviderRecord
<1>6. ASSUME Watched, Managed
      PROVE  CutInTime(p, Append(down, x), rt.speaking, cutOver)
  <2> DEFINE q == Append(down, x)
  <2>1. down \in Seq(Event) /\ rt.speaking \in BOOLEAN
    BY <1>6 DEF VoiceTypeOK, RuntimeRecord, Watched
  <2>2. SpokenAt(q, rt.speaking, Len(q) + 1)
    BY <1>4, <2>1, JoinInTime
  <2> HIDE DEF q
  <2>3. CutInTime(p, q, rt.speaking, cutOver)
    BY <1>2, <1>3, <2>2 DEF CutInTime
  <2> QED
    BY <2>3 DEF q
<1> QED
  BY <1>1, <1>3, <1>4, <1>5, <1>6, OneKeepsTools

\* Two events at once, neither of which is of a response.
LEMMA TwoKeepTools ==
    ASSUME ToolsInOrder, VoiceTypeOK, UNCHANGED <<stored, rt, begun, cutOver>>,
           NEW p \in ProviderRecord, NEW x \in Event, NEW y \in Event, Emits(p, <<x, y>>),
           p.next = prov.next, p.resp = prov.resp, p.last = prov.last,
           p.cut = prov.cut, p.user = "quiet",
           {x.t, y.t} \subseteq {"speech_stopped", "committed"}
    PROVE  ToolsInOrder'
<1> DEFINE q == Append(down, x)
           s == Append(q, y)
<1>1. down \in Seq(Event) /\ prov \in ProviderRecord /\ prov' = p
  BY DEF Emits, VoiceTypeOK
<1>2. /\ q \in Seq(Event) /\ Len(q) = Len(down) + 1 /\ q[Len(down) + 1] = x
      /\ Len(down) \in Nat /\ DOMAIN down = 1..Len(down) /\ DOMAIN q = 1..(Len(down) + 1)
      /\ \A k \in 1..Len(down) : q[k] = down[k]
  BY <1>1, JoinPlaces
<1>3. /\ s \in Seq(Event) /\ Len(s) = Len(q) + 1 /\ s[Len(q) + 1] = y
      /\ DOMAIN s = 1..(Len(q) + 1) /\ \A k \in 1..Len(q) : s[k] = q[k]
  BY <1>2, JoinPlaces
<1>4. down' = IF Watched THEN s ELSE down
  <2>1. down \o <<x, y>> = s
    BY <1>1
  <2> QED
    BY <2>1 DEF Emits
<1>5. prov.next \in Nat /\ prov.next <= p.next /\ p.resp < p.next /\ p.last < p.next
  BY DEF ToolsInOrder, VoiceTypeOK, ProviderRecord
<1>6. \A c : /\ NotSpokenOver(down, cutOver, c, Len(down) + 1)
                   => NotSpokenOver(q, cutOver, c, Len(q) + 1)
             /\ NotSpokenOver(q, cutOver, c, Len(q) + 1)
                   => NotSpokenOver(s, cutOver, c, Len(s) + 1)
  BY <1>1, <1>2, JoinInTime
<1> HIDE DEF s
<1>7. ASSUME Watched, Managed
      PROVE  HeardInTime(p, down')
  <2>1. rt.respId \in Nat /\ rt.speaking \in BOOLEAN
    BY <1>7 DEF Watched, VoiceTypeOK, RuntimeRecord
  <2>2. NewsInOrder(down, rt.respId, prov.next) /\ CallsInTime(down, rt.speaking, cutOver)
        /\ CutInTime(prov, down, rt.speaking, cutOver)
    BY <1>7 DEF ToolsInOrder, AttendedCall, Watched
  <2>3. NewsInOrder(q, rt.respId, prov.next) /\ CallsInTime(q, rt.speaking, cutOver)
    BY <1>1, <1>5, <2>1, <2>2, JoinNews
  <2> HIDE DEF q
  <2>4. NewsInOrder(s, rt.respId, prov.next) /\ CallsInTime(s, rt.speaking, cutOver)
    BY <1>2, <1>5, <2>1, <2>3, JoinNews DEF s
  <2>5. CutInTime(p, s, rt.speaking, cutOver)
    BY <1>6, <2>2 DEF CutInTime
  <2> QED
    BY <1>4, <1>7, <2>4, <2>5 DEF HeardInTime
<1>8. ASSUME Watched, NEW i \in DOMAIN down', down'[i].t = "created"
      PROVE  down'[i].id \in 1..(p.next - 1)
  <2>1. i \in DOMAIN s /\ s[i].t = "created" /\ down'[i] = s[i]
    BY <1>4, <1>8
  <2> HIDE DEF q
  <2>2. i # Len(q) + 1
    BY <1>3, <2>1
  <2>3. i \in 1..Len(q) /\ q[i] = s[i]
    BY <1>2, <1>3, <2>1, <2>2
  <2>4. i # Len(down) + 1
    BY <1>2, <2>1, <2>3
  <2>5. i \in DOMAIN down /\ down[i] = s[i]
    BY <1>2, <2>3, <2>4
  <2> QED
    BY <1>8, <2>1, <2>5 DEF ToolsInOrder, Watched
<1>9. Watched \/ down' = down
  BY <1>4
<1> QED
  BY <1>1, <1>5, <1>7, <1>8, <1>9, ProviderKeepsTools

LEMMA SilenceKeepsTools ==
    ASSUME ToolsInOrder, VoiceTypeOK, FallsSilent
    PROVE  ToolsInOrder'
<1> DEFINE p == [prov EXCEPT !.user = "quiet", !.owed = TRUE]
           x == [t |-> "speech_stopped"]
           y == [t |-> "committed"]
<1>1. Emits(p, <<x, y>>) /\ UNCHANGED <<stored, rt, begun, cutOver>>
  BY DEF FallsSilent
<1>2. p \in ProviderRecord /\ p.next = prov.next /\ p.resp = prov.resp /\ p.last = prov.last
      /\ p.cut = prov.cut /\ p.user = "quiet"
  BY DEF VoiceTypeOK, ProviderRecord
<1>3. x \in Event /\ x.t = "speech_stopped" /\ y \in Event /\ y.t = "committed"
  BY DEF Event, PlainEvents
<1> HIDE DEF p, x, y
<1> QED
  BY <1>1, <1>2, <1>3, TwoKeepTools

\* A response begins: nobody spoke over it yet.
LEMMA RespondKeepsTools ==
    ASSUME ToolsInOrder, VoiceInOrder, UNCHANGED <<stored, rt, begun, cutOver>>,
           Emits(Respond(prov), << [t |-> "created", id |-> prov.next] >>)
    PROVE  ToolsInOrder'
<1> DEFINE p == Respond(prov)
           x == [t |-> "created", id |-> prov.next]
<1>1. VoiceTypeOK /\ prov \in ProviderRecord
  BY DEF VoiceInOrder, VoiceTypeOK
<1>2. p \in ProviderRecord /\ p.resp = prov.next /\ p.last = prov.last /\ x \in Event
  BY RespondFits
<1>3. p.next = prov.next + 1 /\ prov.next \in Nat \ {0} /\ prov.last \in Nat /\ prov.last < prov.next
  BY <1>1 DEF Respond, ProviderRecord, ToolsInOrder
<1>4. Emits(p, <<x>>) /\ x.t = "created" /\ x.id = prov.next
  OBVIOUS
<1> HIDE DEF p, x
<1>5. prov.next <= p.next /\ p.resp < p.next /\ p.last < p.next
      /\ x.id \in prov.next..(p.next - 1)
  BY <1>2, <1>3, <1>4
<1>6. ASSUME Watched, Managed
      PROVE  CutInTime(p, Append(down, x), rt.speaking, cutOver)
  <2> DEFINE q == Append(down, x)
  <2>1. down \in Seq(Event) /\ rt.speaking \in BOOLEAN
    BY <1>1, <1>6 DEF VoiceTypeOK, RuntimeRecord, Watched
  <2>2. prov.next \notin cutOver
    BY <1>3 DEF ToolsInOrder
  <2>3. NotSpokenOver(q, cutOver, prov.next, Len(q) + 1)
    BY <1>2, <1>4, <2>1, <2>2, JoinInTime
  <2> HIDE DEF q
  <2>4. CutInTime(p, q, rt.speaking, cutOver)
    BY <1>2, <2>3 DEF CutInTime
  <2> QED
    BY <2>4 DEF q
<1> QED
  BY <1>1, <1>2, <1>4, <1>5, <1>6, OneKeepsTools

LEMMA RequestsKeepTools ==
    ASSUME ToolsInOrder, VoiceInOrder, ReadsCreate \/ ReadsCancel \/ ReadsClear
    PROVE  ToolsInOrder'
<1>1. VoiceTypeOK /\ prov \in ProviderRecord /\ UNCHANGED <<stored, rt, begun, cutOver>>
  BY DEF VoiceInOrder, VoiceTypeOK, ReadsCreate, ReadsCancel, ReadsClear
<1>2. Watched /\ Managed => CutInTime(prov, down, rt.speaking, cutOver)
  BY DEF ToolsInOrder, AttendedCall, Watched
<1>3. CASE ReadsCreate
  <2>1. Emits(prov, <<>>) \/ Emits(Respond(prov), << [t |-> "created", id |-> prov.next] >>)
    BY <1>3 DEF ReadsCreate
  <2> QED
    BY <1>1, <1>2, <2>1, RespondKeepsTools, NoneKeepsTools
<1>4. CASE ReadsCancel
  <2> DEFINE cut == Answering
             p == [prov EXCEPT !.cut = cut]
  <2>1. Emits(p, <<>>)
    BY <1>4 DEF ReadsCancel
  <2>2. cut \in BOOLEAN /\ (cut <=> prov.resp # 0)
    BY DEF Answering
  <2> HIDE DEF cut
  <2>3. p \in ProviderRecord /\ p.next = prov.next /\ p.resp = prov.resp /\ p.last = prov.last
        /\ p.cut = cut /\ p.user = prov.user
    BY <1>1, <2>2 DEF ProviderRecord
  <2> HIDE DEF p
  <2>4. Watched /\ Managed => CutInTime(p, down, rt.speaking, cutOver)
    BY <1>2, <2>2, <2>3 DEF CutInTime
  <2> QED
    BY <1>1, <2>1, <2>3, <2>4, NoneKeepsTools
<1>5. CASE ReadsClear
  <2> DEFINE a == [prov EXCEPT !.user = "quiet", !.owed = FALSE]
             b == [prov EXCEPT !.sound = "over"]
             x == [t |-> "audio_stopped"]
  <2>1. Emits(a, <<>>) \/ Emits(b, <<x>>) \/ Emits(b, <<>>)
    BY <1>5 DEF ReadsClear
  <2>2. a \in ProviderRecord /\ a.next = prov.next /\ a.resp = prov.resp /\ a.last = prov.last
        /\ a.cut = prov.cut /\ a.user = "quiet"
    BY <1>1 DEF ProviderRecord
  <2>3. b \in ProviderRecord /\ b.next = prov.next /\ b.resp = prov.resp /\ b.last = prov.last
        /\ b.cut = prov.cut /\ b.user = prov.user
    BY <1>1 DEF ProviderRecord
  <2>4. x \in Event /\ x.t = "audio_stopped"
    BY DEF Event, PlainEvents
  <2> HIDE DEF a, b, x
  <2>5. Watched /\ Managed => /\ CutInTime(a, down, rt.speaking, cutOver)
                              /\ CutInTime(b, down, rt.speaking, cutOver)
    BY <1>2, <2>2, <2>3 DEF CutInTime
  <2>6. CASE Emits(b, <<x>>)
    BY <1>1, <2>3, <2>4, <2>6, PlainKeepsTools
  <2>7. CASE Emits(a, <<>>)
    BY <1>1, <2>2, <2>5, <2>7, NoneKeepsTools
  <2>8. CASE Emits(b, <<>>)
    BY <1>1, <2>3, <2>5, <2>8, NoneKeepsTools
  <2> QED
    BY <2>1, <2>6, <2>7, <2>8
<1> QED
  BY <1>3, <1>4, <1>5

\* A response that was cut off calls a function only while the person speaks.
LEMMA CallsKeepTools ==
    ASSUME ToolsInOrder, VoiceTypeOK, CallsFunction
    PROVE  ToolsInOrder'
<1> DEFINE stage == prov.stage + 1
           p == [prov EXCEPT !.stage = stage]
           x == [t |-> "function_call", id |-> prov.resp]
<1>1. Emits(p, <<x>>) /\ UNCHANGED <<stored, rt, begun, cutOver>>
      /\ prov.resp # 0 /\ (prov.cut => prov.user = "speaking")
  BY DEF CallsFunction, Answering
<1>2. prov \in ProviderRecord /\ prov.resp \in Nat /\ prov.next \in Nat /\ prov.resp < prov.next
      /\ prov.last < prov.next /\ stage \in Nat
  BY DEF VoiceTypeOK, ProviderRecord, ToolsInOrder
<1>3. x \in Event /\ x.t = "function_call" /\ x.id = prov.resp
  BY <1>2 DEF Event, PlainEvents
<1> HIDE DEF stage, x
<1>4. p \in ProviderRecord /\ p.next = prov.next /\ p.resp = prov.resp /\ p.last = prov.last
      /\ p.cut = prov.cut /\ p.user = prov.user
  BY <1>2 DEF ProviderRecord
<1> HIDE DEF p
<1>5. prov.next <= p.next /\ p.resp < p.next /\ p.last < p.next /\ x.id \in 1..(p.next - 1)
  BY <1>1, <1>2, <1>3, <1>4
<1>6. ASSUME Watched, Managed
      PROVE  /\ \/ SpokenAt(down, rt.speaking, Len(down) + 1)
                \/ NotSpokenOver(down, cutOver, x.id, Len(down) + 1)
             /\ CutInTime(p, Append(down, x), rt.speaking, cutOver)
  <2>1. Live /\ AttendedCall
    BY <1>6 DEF ToolsInOrder, Watched
  <2>2. CutInTime(p, Append(down, x), rt.speaking, cutOver)
    BY <1>3, <1>4, <2>1, CutStays
  <2>3. \/ SpokenAt(down, rt.speaking, Len(down) + 1)
        \/ NotSpokenOver(down, cutOver, x.id, Len(down) + 1)
    BY <1>1, <1>3, <2>1 DEF AttendedCall, CutInTime
  <2> QED
    BY <2>2, <2>3
<1> QED
  BY <1>1, <1>3, <1>4, <1>5, <1>6, OneKeepsTools

\* A response ends; one that completes was not cut off.
LEMMA OverKeepsTools ==
    ASSUME ToolsInOrder, VoiceTypeOK, NEW ok \in BOOLEAN, Answering, Over(ok),
           ok => ~prov.cut, UNCHANGED <<stored, rt, begun, cutOver>>
    PROVE  ToolsInOrder'
<1> DEFINE id == prov.resp
           of == prov.stage > 0
           p == [prov EXCEPT !.resp = 0, !.last = id]
           x == [t |-> "done", id |-> id, ok |-> ok, call |-> of]
<1>1. Emits(p, <<x>>)
  BY DEF Over
<1>2. prov \in ProviderRecord /\ id \in Nat /\ id # 0 /\ of \in BOOLEAN
      /\ prov.next \in Nat /\ id < prov.next
  BY DEF VoiceTypeOK, ProviderRecord, ToolsInOrder, Answering
<1> HIDE DEF of
<1>3. x \in Event /\ x.t = "done" /\ x.id = id /\ x.ok = ok
  BY <1>2 DEF Event, PlainEvents
<1>4. p \in ProviderRecord /\ p.next = prov.next /\ p.resp = 0 /\ p.last = id
  BY <1>2 DEF ProviderRecord
<1> HIDE DEF p, x
<1>5. prov.next <= p.next /\ p.resp < p.next /\ p.last < p.next /\ x.id \in 1..(p.next - 1)
  BY <1>2, <1>3, <1>4
<1>6. ASSUME Watched, Managed
      PROVE  /\ x.ok => NotSpokenOver(down, cutOver, x.id, Len(down) + 1)
             /\ CutInTime(p, Append(down, x), rt.speaking, cutOver)
  <2>1. AttendedCall
    BY <1>6 DEF ToolsInOrder, Watched
  <2> QED
    BY <1>2, <1>3, <1>4, <2>1 DEF AttendedCall, CutInTime
<1> QED
  BY <1>1, <1>3, <1>4, <1>5, <1>6, OneKeepsTools

LEMMA RepeatKeepsTools ==
    ASSUME ToolsInOrder, VoiceTypeOK, RepeatsDone
    PROVE  ToolsInOrder'
<1> DEFINE x == [t |-> "done", id |-> prov.last, ok |-> FALSE, call |-> FALSE]
<1>1. Emits(prov, <<x>>) /\ UNCHANGED <<stored, rt, begun, cutOver>> /\ prov.last # 0
  BY DEF RepeatsDone
<1>2. prov \in ProviderRecord /\ prov.last \in Nat /\ prov.next \in Nat /\ prov.last < prov.next
      /\ prov.next <= prov.next /\ prov.resp < prov.next
  BY DEF VoiceTypeOK, ProviderRecord, ToolsInOrder
<1>3. x \in Event /\ x.t = "done" /\ x.id = prov.last /\ x.ok = FALSE
  BY <1>2 DEF Event, PlainEvents
<1> HIDE DEF x
<1>4. ASSUME Watched, Managed
      PROVE  CutInTime(prov, Append(down, x), rt.speaking, cutOver)
  BY <1>3, <1>4, CutStays DEF ToolsInOrder, Watched
<1>5. x.id \in 1..(prov.next - 1) /\ ~x.ok
  BY <1>1, <1>2, <1>3
<1> QED
  BY <1>1, <1>2, <1>3, <1>4, <1>5, OneKeepsTools

LEMMA ToolsStart == VoiceInit => ToolsInOrder
BY DEF VoiceInit, ToolsInOrder, QuietProvider, NoRuntime, Live

LEMMA ToolsStep == ToolsInOrder /\ VoiceInOrder /\ [VoiceNext]_voiceVars => ToolsInOrder'
<1> SUFFICES ASSUME ToolsInOrder, VoiceInOrder, [VoiceNext]_voiceVars
             PROVE  ToolsInOrder'
  OBVIOUS
<1>0. VoiceTypeOK
  BY DEF VoiceInOrder
<1>1. CASE Restores \/ \E mode \in {"function", "mcp"} : Registers(mode)
  BY <1>1, AttachKeepsTools
<1>2. CASE Opens \/ Begins \/ ToolReturns \/ Injects
  BY <1>2, RelayKeepsTools
<1>3. CASE Hears \/ TypesText \/ Ends \/ Stops
  BY <1>3, HearsKeepsTools, TypesTextKeepsTools, CallEndsKeepsTools
<1>4. CASE ReadsCreate \/ ReadsCancel \/ ReadsClear
  BY <1>4, RequestsKeepTools
<1>5. CASE ListsTools \/ CallsRemoteTool \/ RemoteToolEnds \/ Plays \/ FallsQuiet
  BY <1>0, <1>5, PlainStepsKeepTools
<1>6. CASE Speaks \/ FallsSilent \/ CallsFunction \/ RepeatsDone
  BY <1>0, <1>6, SpeaksKeepsTools, SilenceKeepsTools, CallsKeepTools, RepeatKeepsTools
<1>7. CASE AnswersTurn
  BY <1>7, RespondKeepsTools DEF AnswersTurn
<1>8. CASE Completes \/ IsCutOff \/ Fails
  <2>1. \E ok \in BOOLEAN : Over(ok) /\ (ok => ~prov.cut)
    BY <1>8 DEF Completes, IsCutOff, Fails
  <2>2. Answering /\ UNCHANGED <<stored, rt, begun, cutOver>>
    BY <1>8 DEF Completes, IsCutOff, Fails
  <2> QED
    BY <1>0, <2>1, <2>2, OverKeepsTools
<1>9. CASE UNCHANGED voiceVars
  BY <1>9 DEF voiceVars, ToolsInOrder, AttendedCall, Live, Managed
<1> QED
  BY <1>1, <1>2, <1>3, <1>4, <1>5, <1>6, <1>7, <1>8, <1>9 DEF VoiceNext, ProviderNext

\* Wherever the person speaks between the news of a response and of its calls,
\* and however requests and events cross: what is on its way to the relay is in
\* order, and what it began it has marked (the inductive invariant of the tools
\* of a call, beside the one of its responses).
THEOREM ToolsAreInOrder == VoiceSpec => []ToolsInOrder
<1> QED
  BY ToolsStart, ToolsStep, CallsAreInOrder, PTL DEF VoiceSpec

\* One step of a call, for the theorem below.
BeginsOnce ==
    Hears /\ Managed =>
        /\ \A t \in rt'.tools \ rt.tools : t.id \notin begun
        /\ begun' \cap cutOver' \subseteq begun

LEMMA HearingBeginsOnce == ToolsInOrder /\ VoiceInOrder => BeginsOnce
BY HeardCalls DEF BeginsOnce

\* A tool call that is announced by up to three events is begun once, and not
\* when the person was heard to speak over its response (startFunction and
\* functionCallIsTooLate of broker.ts).
THEOREM ToolsBeginOnce == VoiceSpec => ToolBeginsOnce
<1> QED
  BY HearingBeginsOnce, ToolsAreInOrder, CallsAreInOrder, PTL DEF ToolBeginsOnce, BeginsOnce
=============================================================================
