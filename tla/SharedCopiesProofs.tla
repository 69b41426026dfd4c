-------------------------- MODULE SharedCopiesProofs --------------------------
(* Proofs about what several processes keep together: the search index that   *)
(* the relays fill (SearchIndex) and the draft that phones and the host have  *)
(* (DraftSync).                                                               *)
EXTENDS DraftSync, SearchIndex, TLAPS

\* The smaller of two numbers is what FiniteSetsExt says it is.
LEMMA MinOfTwo ==
    ASSUME NEW a \in Int, NEW b \in Int
    PROVE  /\ Min({a, b}) \in {a, b}
           /\ Min({a, b}) <= a
           /\ Min({a, b}) <= b
<1>1. \E x \in {a, b} : \A y \in {a, b} : x <= y
  <2>1. CASE a <= b
    BY <2>1
  <2>2. CASE ~(a <= b)
    BY <2>2
  <2> QED
    BY <2>1, <2>2
<1>2. /\ Min({a, b}) \in {a, b}
      /\ \A y \in {a, b} : Min({a, b}) <= y
  BY <1>1, Zenon DEF Min
<1> QED
  BY <1>2

\* The larger of two numbers is what FiniteSetsExt says it is.
LEMMA MaxOfTwo ==
    ASSUME NEW a \in Int, NEW b \in Int
    PROVE  /\ Max({a, b}) \in {a, b}
           /\ Max({a, b}) >= a
           /\ Max({a, b}) >= b
<1>1. \E x \in {a, b} : \A y \in {a, b} : x >= y
  <2>1. CASE a >= b
    BY <2>1
  <2>2. CASE ~(a >= b)
    BY <2>2
  <2> QED
    BY <2>1, <2>2
<1>2. /\ Max({a, b}) \in {a, b}
      /\ \A y \in {a, b} : Max({a, b}) >= y
  BY <1>1, Zenon DEF Max
<1> QED
  BY <1>2

-----------------------------------------------------------------------------
(* The search index. *)

Index == [version : {"old", "new"}, table : BOOLEAN, cursor : Nat, chunks : [Rows -> Nat]]

Places == {"closed", "drop", "create", "version", "reset", "load", "idle", "batch", "failed"}

Worker == [pc : Places, cursor : Nat, end : Nat]

SearchTypeOK ==
    /\ source \in Nat
    /\ index \in Index
    /\ worker \in [Workers -> Worker]
    /\ torn \in BOOLEAN

\* A worker that is past the rebuild sees this version's schema.
OpenedIsNew ==
    \A w \in Workers : worker[w].pc \in {"load", "idle", "batch", "reset"} => index.version = "new"

\* A batch goes forward.
BatchesAdvance ==
    \A w \in Workers : worker[w].pc = "batch" => worker[w].cursor <= worker[w].end

\* Who rebuilds does so from an older schema, its table stays empty until the
\* cursor is reset, and in between the chunks are those of the cursor.
RebuildsAreAlone ==
    /\ index.version = "new" =>
         \A w \in Workers : worker[w].pc \notin {"drop", "create", "version"}
    /\ (\E w \in Workers : worker[w].pc \in {"create", "version", "reset"}) =>
         \A row \in Rows : index.chunks[row] = 0
    /\ index.version = "new" /\ (\A w \in Workers : worker[w].pc # "reset") =>
         \A row \in Rows : index.chunks[row] = IF row <= index.cursor THEN 1 ELSE 0

SearchIInv ==
    /\ SearchTypeOK
    /\ OpenedIsNew
    /\ BatchesAdvance
    /\ ~torn => RebuildsAreAlone

LEMMA SearchStarts == SearchInit => SearchIInv
<1> SUFFICES ASSUME SearchInit
             PROVE  SearchIInv
  OBVIOUS
<1>1. PICK version \in {"old", "new"}, cursor \in 0..source :
        index = [version |-> version, table |-> TRUE, cursor |-> cursor,
                 chunks |-> [row \in Rows |-> IF row <= cursor THEN 1 ELSE 0]]
  BY DEF SearchInit
<1>2. source \in Nat
  BY SearchAssumption DEF SearchInit
<1>3. worker \in [Workers -> Worker]
  BY DEF SearchInit, Fresh, Worker, Places
<1>4. index \in Index
  BY <1>1, <1>2 DEF Index
<1>5. \A w \in Workers : worker[w].pc = "closed"
  BY DEF SearchInit, Fresh
<1> QED
  BY <1>1, <1>2, <1>3, <1>4, <1>5
     DEF SearchInit, SearchIInv, SearchTypeOK, OpenedIsNew, BatchesAdvance, RebuildsAreAlone

\* What Goes changes: the place of one worker.
LEMMA GoesOne ==
    ASSUME SearchTypeOK, NEW w \in Workers, NEW pc \in Places, Goes(w, pc)
    PROVE  /\ worker' \in [Workers -> Worker]
           /\ worker'[w].pc = pc
           /\ \A v \in Workers : v # w => worker'[v] = worker[v]
           /\ \A v \in Workers :
                /\ worker'[v].cursor = worker[v].cursor
                /\ worker'[v].end = worker[v].end
<1>1. worker[w] \in Worker
  BY DEF SearchTypeOK
<1>2. [worker[w] EXCEPT !.pc = pc] \in Worker
  BY <1>1 DEF Worker
<1>3. worker' = [worker EXCEPT ![w] = [worker[w] EXCEPT !.pc = pc]]
  BY DEF Goes
<1>4. /\ [worker[w] EXCEPT !.pc = pc].pc = pc
      /\ [worker[w] EXCEPT !.pc = pc].cursor = worker[w].cursor
      /\ [worker[w] EXCEPT !.pc = pc].end = worker[w].end
  BY <1>1 DEF Worker
<1> QED
  BY <1>2, <1>3, <1>4 DEF SearchTypeOK

\* A statement that writes without meeting another rebuild is the only one at it.
LEMMA WritesAlone ==
    ASSUME SearchTypeOK, NEW w \in Workers, Writes(w)
    PROVE  /\ torn' \in BOOLEAN
           /\ ~torn' => /\ ~torn
                        /\ \A v \in Workers : v # w =>
                             worker[v].pc \notin {"drop", "create", "version", "reset"}
<1>1. torn' \in BOOLEAN /\ (~torn' => ~torn /\ Rebuilding \ {w} = {})
  BY Zenon DEF Writes, SearchTypeOK
<1> QED
  BY <1>1 DEF Rebuilding

\* Every step of the search keeps the invariant.
LEMMA SearchSteps == SearchIInv /\ [SearchNext]_searchVars => SearchIInv'
<1> SUFFICES ASSUME SearchIInv, [SearchNext]_searchVars
             PROVE  SearchIInv'
  OBVIOUS
<1> USE DEF SearchIInv
<1>1. ASSUME MessageArrives
      PROVE  SearchIInv'
  <2>1. source' \in Nat
    BY <1>1 DEF MessageArrives, SearchTypeOK
  <2> QED
    BY <1>1, <2>1 DEF MessageArrives, SearchTypeOK, OpenedIsNew, BatchesAdvance, RebuildsAreAlone, Rows
<1>2. ASSUME NEW w \in Workers, Opens(w)
      PROVE  SearchIInv'
  <2>1. \E pc \in {"load", "drop"} : Goes(w, pc) /\ (pc = "load" <=> index.version = "new")
    BY <1>2 DEF Opens
  <2>2. PICK pc \in {"load", "drop"} : Goes(w, pc) /\ (pc = "load" <=> index.version = "new")
    BY <2>1
  <2>3. pc \in Places
    BY DEF Places
  <2>4. /\ worker' \in [Workers -> Worker]
        /\ worker'[w].pc = pc
        /\ \A v \in Workers : v # w => worker'[v] = worker[v]
    BY <2>2, <2>3, GoesOne
  <2>5. UNCHANGED <<source, index, torn>> /\ worker[w].pc = "closed"
    BY <1>2 DEF Opens, At
  <2> QED
    BY <2>2, <2>4, <2>5 DEF SearchTypeOK, OpenedIsNew, BatchesAdvance, RebuildsAreAlone, Rows
<1>3. ASSUME NEW w \in Workers, DropsTable(w)
      PROVE  SearchIInv'
  <2>1. /\ worker' \in [Workers -> Worker]
        /\ worker'[w].pc = "create"
        /\ \A v \in Workers : v # w => worker'[v] = worker[v]
    BY <1>3, GoesOne DEF DropsTable, Places
  <2>2. /\ torn' \in BOOLEAN
        /\ ~torn' => /\ ~torn
                     /\ \A v \in Workers : v # w =>
                          worker[v].pc \notin {"drop", "create", "version", "reset"}
    BY <1>3, WritesAlone DEF DropsTable
  <2>3. /\ index' \in Index
        /\ index'.version = index.version
        /\ \A row \in Rows : index'.chunks[row] = 0
    BY <1>3 DEF DropsTable, SearchTypeOK, Index
  <2>4. worker[w].pc = "drop" /\ source' = source
    BY <1>3 DEF DropsTable, At
  <2>5. SearchTypeOK' /\ OpenedIsNew' /\ BatchesAdvance'
    BY <2>1, <2>2, <2>3, <2>4 DEF SearchTypeOK, OpenedIsNew, BatchesAdvance
  <2>6. ASSUME ~torn'
        PROVE  RebuildsAreAlone'
    <3>1. index'.version # "new"
      BY <2>2, <2>3, <2>4, <2>6 DEF RebuildsAreAlone
    <3> QED
      BY <3>1, <2>3 DEF RebuildsAreAlone, Rows
  <2> QED
    BY <2>5, <2>6
<1>4. ASSUME NEW w \in Workers, CreatesTable(w)
      PROVE  SearchIInv'
  <2>1. /\ worker' \in [Workers -> Worker]
        /\ worker'[w].pc = "version"
        /\ \A v \in Workers : v # w => worker'[v] = worker[v]
    BY <1>4, GoesOne DEF CreatesTable, Places
  <2>2. /\ torn' \in BOOLEAN
        /\ ~torn' => /\ ~torn
                     /\ \A v \in Workers : v # w =>
                          worker[v].pc \notin {"drop", "create", "version", "reset"}
    BY <1>4, WritesAlone DEF CreatesTable
  <2>3. /\ index' \in Index
        /\ index'.version = index.version
        /\ index'.chunks = index.chunks
    BY <1>4 DEF CreatesTable, SearchTypeOK, Index
  <2>4. worker[w].pc = "create" /\ source' = source
    BY <1>4 DEF CreatesTable, At
  <2>5. SearchTypeOK' /\ OpenedIsNew' /\ BatchesAdvance'
    BY <2>1, <2>2, <2>3, <2>4 DEF SearchTypeOK, OpenedIsNew, BatchesAdvance
  <2>6. ASSUME ~torn'
        PROVE  RebuildsAreAlone'
    <3>1. /\ index'.version # "new"
          /\ \A row \in Rows : index'.chunks[row] = 0
      BY <2>2, <2>3, <2>4, <2>6 DEF RebuildsAreAlone
    <3> QED
      BY <3>1 DEF RebuildsAreAlone, Rows
  <2> QED
    BY <2>5, <2>6
<1>5. ASSUME NEW w \in Workers, WritesVersion(w)
      PROVE  SearchIInv'
  <2>1. /\ worker' \in [Workers -> Worker]
        /\ worker'[w].pc = "reset"
        /\ \A v \in Workers : v # w => worker'[v] = worker[v]
    BY <1>5, GoesOne DEF WritesVersion, Places
  <2>2. /\ torn' \in BOOLEAN
        /\ ~torn' => /\ ~torn
                     /\ \A v \in Workers : v # w =>
                          worker[v].pc \notin {"drop", "create", "version", "reset"}
    BY <1>5, WritesAlone DEF WritesVersion
  <2>3. /\ index' \in Index
        /\ index'.version = "new"
        /\ index'.chunks = index.chunks
    BY <1>5 DEF WritesVersion, SearchTypeOK, Index
  <2>4. worker[w].pc = "version" /\ source' = source
    BY <1>5 DEF WritesVersion, At
  <2>5. SearchTypeOK' /\ OpenedIsNew' /\ BatchesAdvance'
    BY <2>1, <2>2, <2>3, <2>4 DEF SearchTypeOK, OpenedIsNew, BatchesAdvance
  <2>6. ASSUME ~torn'
        PROVE  RebuildsAreAlone'
    <3>1. /\ \A row \in Rows : index'.chunks[row] = 0
          /\ \A v \in Workers : worker'[v].pc \notin {"drop", "create", "version"}
      BY <2>1, <2>2, <2>3, <2>4, <2>6 DEF RebuildsAreAlone
    <3> QED
      BY <3>1, <2>1 DEF RebuildsAreAlone, Rows
  <2> QED
    BY <2>5, <2>6
<1>6. ASSUME NEW w \in Workers, ResetsCursor(w)
      PROVE  SearchIInv'
  <2>1. /\ worker' \in [Workers -> Worker]
        /\ worker'[w].pc = "load"
        /\ \A v \in Workers : v # w => worker'[v] = worker[v]
    BY <1>6, GoesOne DEF ResetsCursor, Places
  <2>2. /\ torn' \in BOOLEAN
        /\ ~torn' => /\ ~torn
                     /\ \A v \in Workers : v # w =>
                          worker[v].pc \notin {"drop", "create", "version", "reset"}
    BY <1>6, WritesAlone DEF ResetsCursor
  <2>3. /\ index' \in Index
        /\ index'.version = index.version
        /\ index'.chunks = index.chunks
        /\ index'.cursor = 0
    BY <1>6 DEF ResetsCursor, SearchTypeOK, Index
  <2>4. worker[w].pc = "reset" /\ source' = source
    BY <1>6 DEF ResetsCursor, At
  <2>5. SearchTypeOK' /\ OpenedIsNew' /\ BatchesAdvance'
    BY <2>1, <2>2, <2>3, <2>4 DEF SearchTypeOK, OpenedIsNew, BatchesAdvance
  <2>6. ASSUME ~torn'
        PROVE  RebuildsAreAlone'
    <3>1. /\ \A row \in Rows : index'.chunks[row] = 0
          /\ \A v \in Workers : worker'[v].pc \notin {"drop", "create", "version"}
      BY <2>1, <2>2, <2>3, <2>4, <2>6 DEF RebuildsAreAlone
    <3>2. \A row \in Rows : ~(row <= index'.cursor)
      BY <2>3, SearchAssumption DEF Rows
    <3> QED
      BY <3>1, <3>2 DEF RebuildsAreAlone, Rows
  <2> QED
    BY <2>5, <2>6
<1>7. ASSUME NEW w \in Workers, Loads(w)
      PROVE  SearchIInv'
  <2> DEFINE here == [pc |-> "idle", cursor |-> index.cursor, end |-> 0]
  <2>1. here \in Worker
    BY DEF Worker, Places, SearchTypeOK, Index
  <2>2. worker' = [worker EXCEPT ![w] = here] /\ here.pc = "idle"
    BY <1>7 DEF Loads
  <2> HIDE DEF here
  <2>3. /\ worker' \in [Workers -> Worker]
        /\ worker'[w].pc = "idle"
        /\ \A v \in Workers : v # w => worker'[v] = worker[v]
    BY <2>1, <2>2 DEF SearchTypeOK
  <2>4. UNCHANGED <<source, index, torn>> /\ worker[w].pc = "load"
    BY <1>7 DEF Loads, At
  <2> QED
    BY <2>3, <2>4 DEF SearchTypeOK, OpenedIsNew, BatchesAdvance, RebuildsAreAlone, Rows
<1>8. ASSUME NEW w \in Workers, OpenThrows(w)
      PROVE  SearchIInv'
  <2>1. /\ worker' \in [Workers -> Worker]
        /\ worker'[w].pc = "failed"
        /\ \A v \in Workers : v # w => worker'[v] = worker[v]
    BY <1>8, GoesOne DEF OpenThrows, Places
  <2>2. UNCHANGED <<source, index, torn>> /\ worker[w].pc \in {"create", "load"}
    BY <1>8 DEF OpenThrows, At
  <2> QED
    BY <2>1, <2>2 DEF SearchTypeOK, OpenedIsNew, BatchesAdvance, RebuildsAreAlone, Rows
<1>9. ASSUME NEW w \in Workers, ReadsWindow(w)
      PROVE  SearchIInv'
  <2> DEFINE last == Min({source, worker[w].cursor + WINDOW_ROWS})
             there == [worker[w] EXCEPT !.pc = "batch", !.end = last]
  <2>1. worker[w] \in Worker /\ source \in Nat
    BY DEF SearchTypeOK
  <2>2. worker[w].cursor \in Nat /\ worker[w].cursor + WINDOW_ROWS \in Nat
    BY <2>1, SearchAssumption DEF Worker
  <2>3. last \in {source, worker[w].cursor + WINDOW_ROWS}
    <3>1. source \in Int /\ worker[w].cursor + WINDOW_ROWS \in Int
      BY <2>1, <2>2
    <3> QED
      BY <3>1, MinOfTwo, Zenon
  <2>4. last \in Nat /\ worker[w].cursor <= last
    BY <1>9, <2>1, <2>2, <2>3, SearchAssumption DEF ReadsWindow
  <2>5. worker' = [worker EXCEPT ![w] = there]
    BY <1>9 DEF ReadsWindow
  <2> HIDE DEF last
  <2>6. /\ there \in Worker
        /\ there.pc = "batch"
        /\ there.cursor = worker[w].cursor
        /\ there.end = last
    BY <2>1, <2>4 DEF Worker, Places
  <2> HIDE DEF there
  <2>7. /\ worker' \in [Workers -> Worker]
        /\ worker'[w] = there
        /\ \A v \in Workers : v # w => worker'[v] = worker[v]
    BY <2>5, <2>6 DEF SearchTypeOK
  <2>8. UNCHANGED <<source, index, torn>> /\ worker[w].pc = "idle"
    BY <1>9 DEF ReadsWindow, At
  <2> QED
    BY <2>4, <2>6, <2>7, <2>8 DEF SearchTypeOK, OpenedIsNew, BatchesAdvance, RebuildsAreAlone, Rows
<1>10. ASSUME NEW w \in Workers, CommitsBatch(w)
       PROVE  SearchIInv'
  <2> DEFINE from == worker[w].cursor
             to == worker[w].end
             there == [worker[w] EXCEPT !.pc = "idle", !.cursor = to]
  <2>1. worker[w] \in Worker
    BY DEF SearchTypeOK
  <2>2. /\ from \in Nat
        /\ to \in Nat
        /\ from <= to
        /\ index.cursor = from
        /\ worker[w].pc = "batch"
        /\ source' = source
        /\ index.version = "new"
    BY <1>10, <2>1 DEF CommitsBatch, CursorIsStillMine, At, Worker, BatchesAdvance, OpenedIsNew
  <2>3. worker' = [worker EXCEPT ![w] = there]
    BY <1>10 DEF CommitsBatch
  <2>4. there \in Worker /\ there.pc = "idle"
    BY <2>1, <2>2 DEF Worker, Places
  <2>5. /\ torn' \in BOOLEAN
        /\ ~torn' => /\ ~torn
                     /\ \A v \in Workers : v # w =>
                          worker[v].pc \notin {"drop", "create", "version", "reset"}
    BY <1>10, WritesAlone DEF CommitsBatch
  <2>6. index' = [index EXCEPT
                    !.chunks = [row \in Rows |-> IF row \in (from + 1)..to
                                                 THEN index.chunks[row] + 1 ELSE index.chunks[row]],
                    !.cursor = to]
    BY <1>10 DEF CommitsBatch
  <2> HIDE DEF from, to, there
  <2>7. index \in Index
    BY DEF SearchTypeOK
  <2>8. /\ index' \in Index
        /\ index'.version = index.version
        /\ index'.cursor = to
        /\ \A row \in Rows : index'.chunks[row] = IF row \in (from + 1)..to
                                                  THEN index.chunks[row] + 1 ELSE index.chunks[row]
    <3> DEFINE chunks == [row \in Rows |-> IF row \in (from + 1)..to
                                           THEN index.chunks[row] + 1 ELSE index.chunks[row]]
    <3>1. chunks \in [Rows -> Nat]
      BY <2>7 DEF Index
    <3>2. index' = [index EXCEPT !.chunks = chunks, !.cursor = to]
      BY <2>6
    <3>3. \A row \in Rows : chunks[row] = IF row \in (from + 1)..to
                                           THEN index.chunks[row] + 1 ELSE index.chunks[row]
      OBVIOUS
    <3> HIDE DEF chunks
    <3>4. /\ index' \in Index
          /\ index'.version = index.version
          /\ index'.cursor = to
          /\ index'.chunks = chunks
      BY <2>2, <2>7, <3>1, <3>2 DEF Index
    <3> QED
      BY <3>3, <3>4
  <2>9. /\ worker' \in [Workers -> Worker]
        /\ worker'[w] = there
        /\ \A v \in Workers : v # w => worker'[v] = worker[v]
    BY <2>3, <2>4 DEF SearchTypeOK
  <2>10. SearchTypeOK' /\ OpenedIsNew' /\ BatchesAdvance'
    BY <2>2, <2>4, <2>5, <2>8, <2>9 DEF SearchTypeOK, OpenedIsNew, BatchesAdvance
  <2>11. ASSUME ~torn'
         PROVE  RebuildsAreAlone'
    <3>1. \A v \in Workers : worker[v].pc \notin {"drop", "create", "version", "reset"}
      BY <2>2, <2>5, <2>11
    <3>2. \A v \in Workers : worker'[v].pc \notin {"drop", "create", "version", "reset"}
      BY <3>1, <2>4, <2>9
    <3>3. \A row \in Rows : index.chunks[row] = IF row <= from THEN 1 ELSE 0
      BY <3>1, <2>2, <2>5, <2>11 DEF RebuildsAreAlone
    <3>4. \A row \in Rows : index'.chunks[row] = IF row <= to THEN 1 ELSE 0
      BY <3>3, <2>2, <2>8, SearchAssumption DEF Rows
    <3> QED
      BY <3>2, <3>4, <2>8 DEF RebuildsAreAlone, Rows
  <2> QED
    BY <2>10, <2>11
<1>11. ASSUME NEW w \in Workers, RollsBack(w)
       PROVE  SearchIInv'
  <2>1. PICK cursor \in Nat : worker' = [worker EXCEPT ![w] = [worker[w] EXCEPT !.pc = "idle", !.cursor = cursor]]
    <3>1. worker[w].cursor \in Nat /\ index.cursor \in Nat
      BY DEF SearchTypeOK, Worker, Index
    <3> QED
      BY <1>11, <3>1 DEF RollsBack
  <2>2. worker[w] \in Worker
    BY DEF SearchTypeOK
  <2>3. /\ [worker[w] EXCEPT !.pc = "idle", !.cursor = cursor] \in Worker
        /\ [worker[w] EXCEPT !.pc = "idle", !.cursor = cursor].pc = "idle"
    BY <2>2 DEF Worker, Places
  <2>4. /\ worker' \in [Workers -> Worker]
        /\ worker'[w].pc = "idle"
        /\ \A v \in Workers : v # w => worker'[v] = worker[v]
    BY <2>1, <2>3 DEF SearchTypeOK
  <2>5. UNCHANGED <<source, index, torn>> /\ worker[w].pc = "batch"
    BY <1>11 DEF RollsBack, At
  <2> QED
    BY <2>4, <2>5 DEF SearchTypeOK, OpenedIsNew, BatchesAdvance, RebuildsAreAlone, Rows
<1>12. ASSUME NEW w \in Workers, StatementFails(w)
       PROVE  SearchIInv'
  <2>1. /\ worker' \in [Workers -> Worker]
        /\ worker'[w].pc = "failed"
        /\ \A v \in Workers : v # w => worker'[v] = worker[v]
    BY <1>12, GoesOne DEF StatementFails, Places
  <2>2. /\ UNCHANGED <<source, index>>
        /\ torn' \in BOOLEAN
        /\ ~torn' => ~torn /\ worker[w].pc # "reset"
    BY <1>12, Zenon DEF StatementFails, At, SearchTypeOK
  <2> QED
    BY <2>1, <2>2 DEF SearchTypeOK, OpenedIsNew, BatchesAdvance, RebuildsAreAlone, Rows
<1>13. ASSUME NEW w \in Workers, Restarts(w)
       PROVE  SearchIInv'
  <2>1. /\ worker' \in [Workers -> Worker]
        /\ worker'[w].pc = "closed"
        /\ \A v \in Workers : v # w => worker'[v] = worker[v]
    BY <1>13 DEF Restarts, Fresh, Worker, Places, SearchTypeOK
  <2>2. /\ UNCHANGED <<source, index>>
        /\ torn' \in BOOLEAN
        /\ ~torn' => ~torn /\ worker[w].pc # "reset"
    BY <1>13, Zenon DEF Restarts, At, SearchTypeOK
  <2> QED
    BY <2>1, <2>2 DEF SearchTypeOK, OpenedIsNew, BatchesAdvance, RebuildsAreAlone, Rows
<1>14. ASSUME UNCHANGED searchVars
       PROVE  SearchIInv'
  BY <1>14 DEF searchVars, SearchTypeOK, OpenedIsNew, BatchesAdvance, RebuildsAreAlone, Rows
<1> QED
  BY <1>1, <1>2, <1>3, <1>4, <1>5, <1>6, <1>7, <1>8, <1>9, <1>10, <1>11, <1>12, <1>13, <1>14
     DEF SearchNext

\* The index is in order in every state: whatever the relays do, a row up to the
\* cursor is indexed once, unless a rebuild was torn.
THEOREM IndexIsSound == SearchSpec => []SearchIInv
<1> QED
  BY SearchStarts, SearchSteps, PTL DEF SearchSpec

\* No row of the chats is in the search index twice, and none up to the cursor is
\* missing (worker.ts, the check of the cursor inside the batch).
THEOREM RowsAreOnlyOnce == SearchSpec => []RowsAreIndexedOnce
<1>1. SearchIInv => RowsAreIndexedOnce
  BY DEF SearchIInv, RebuildsAreAlone, RowsAreIndexedOnce, Rebuilding
<1> QED
  BY <1>1, IndexIsSound, PTL

-----------------------------------------------------------------------------
(* The draft. *)

Draft == [text : Nat, at : Nat]

Phone == [draft : Draft, clock : Nat, touched : BOOLEAN, focused : BOOLEAN,
          timer : BOOLEAN, queued : BOOLEAN, seen : BOOLEAN]

Copies ==
    {host, NoAnswer} \cup stray \cup {phone[p].draft : p \in Phones} \cup {answer[p] : p \in Phones}

DraftTypeOK ==
    /\ host \in Draft
    /\ phone \in [Phones -> Phone]
    /\ answer \in [Phones -> Draft \cup {NoAnswer}]
    /\ stray \in SUBSET Draft
    /\ texts \in Nat
    /\ sent \in [Phones -> SUBSET (1..texts)]
    /\ \A p \in Phones : phone[p].draft.at <= phone[p].clock
    /\ \A c \in Copies : c.text <= texts

\* Copies of a text that was only typed have the stamp it was typed with.
OneStampPerText ==
    \A c, d \in Copies : c.text = d.text /\ c.text \notin kept \cup {0} => c.at = d.at

\* Every copy of what a phone has sent is older than the draft of that phone.
SentIsOlder ==
    \A p \in Phones : \A u \in sent[p] \ kept : \A c \in Copies :
        c.text = u => c.at < phone[p].draft.at

DraftIInv ==
    /\ DraftTypeOK
    /\ OneStampPerText
    /\ SentIsOlder
    /\ DifferencesAreOnTheirWay

\* A draft is not the answer of nobody.
LEMMA DraftIsAnAnswer == \A d \in Draft : d # NoAnswer
  BY DEF Draft, NoAnswer

\* A step in which at most one copy is new: an edit, a tombstone, or one that was
\* given another stamp; and the stamps of the phones' drafts do not go back.
Moves(new) ==
    /\ host' \in Draft
    /\ phone' \in [Phones -> Phone]
    /\ answer' \in [Phones -> Draft \cup {NoAnswer}]
    /\ stray' \in SUBSET Draft
    /\ \A q \in Phones : /\ phone[q].draft.at <= phone'[q].draft.at
                         /\ phone'[q].draft.at <= phone'[q].clock
    /\ Copies' \subseteq Copies \cup {new}
    /\ DifferencesAreOnTheirWay'

\* What becomes of the texts in such a step.
Accounts(new) ==
    /\ texts' \in {texts, texts + 1}
    /\ kept \subseteq kept'
    /\ new.text <= texts'
    /\ \/ new \in Copies
       \/ new.text = 0
       \/ new.text \in kept'
       \/ new.text = texts + 1
    /\ sent' \in [Phones -> SUBSET (1..texts')]
    /\ \A q \in Phones : \A u \in sent'[q] :
         \/ u \in sent[q]
         \/ u = phone[q].draft.text /\ phone[q].draft.at < phone'[q].draft.at

LEMMA CopiesAreTyped ==
    ASSUME DraftTypeOK, NEW c \in Copies
    PROVE  /\ c \in Draft \cup {NoAnswer}
           /\ c.text \in Int
           /\ c.at \in Nat
           /\ c.text <= texts
<1>1. c \in Draft \cup {NoAnswer}
  BY DEF DraftTypeOK, Copies, Phone
<1> QED
  BY <1>1 DEF DraftTypeOK, Draft, NoAnswer

\* Such a step keeps the invariant.
LEMMA MovesKeep ==
    ASSUME DraftIInv, NEW new \in Draft, Moves(new), Accounts(new)
    PROVE  DraftIInv'
<1> USE DEF DraftIInv
<1>1. \A c \in Copies' : c \in Copies \/ c = new
  BY DEF Moves
<1>2. \A c \in Copies : c.text \in Int /\ c.at \in Nat /\ c.text <= texts
  BY CopiesAreTyped
<1>3. texts \in Nat /\ texts' \in Nat /\ texts <= texts'
  BY DEF DraftTypeOK, Accounts
<1>4. DraftTypeOK'
  <2>1. \A c \in Copies' : c.text <= texts'
    BY <1>1, <1>2, <1>3 DEF Accounts, Draft
  <2> QED
    BY <2>1, <1>3 DEF DraftTypeOK, Moves, Accounts
<1>5. ASSUME NEW c \in Copies', NEW d \in Copies', c.text = d.text, c.text \notin kept' \cup {0}
      PROVE  c.at = d.at
  <2>1. CASE c \in Copies /\ d \in Copies
    BY <1>5, <2>1 DEF OneStampPerText, Accounts
  <2>2. CASE c \notin Copies \/ d \notin Copies
    <3>1. c.text = texts + 1 /\ new \notin Copies
      BY <1>1, <1>5, <2>2 DEF Accounts
    <3>2. ASSUME NEW e \in Copies
          PROVE  e.text # texts + 1
      BY <1>2, <1>3
    <3>3. d.text = texts + 1
      BY <1>5, <3>1
    <3> QED
      BY <1>1, <3>1, <3>2, <3>3
  <2> QED
    BY <2>1, <2>2
<1>6. ASSUME NEW p \in Phones, NEW u \in sent'[p] \ kept', NEW c \in Copies', c.text = u
      PROVE  c.at < phone'[p].draft.at
  <2>1. /\ phone[p].draft \in Copies
        /\ phone[p].draft.at \in Nat
        /\ phone'[p].draft.at \in Nat
        /\ phone[p].draft.at <= phone'[p].draft.at
        /\ phone[p].draft.text <= texts
    BY <1>2 DEF Copies, Moves, Draft, Phone
  <2>2. u \in 1..texts
    BY <1>3, <2>1, <1>6 DEF Accounts, DraftTypeOK
  <2>3. c \in Copies
    BY <1>1, <1>3, <1>6, <2>2 DEF Accounts
  <2>4. c.at \in Nat
    BY <1>2, <2>3
  <2>5. u \notin kept
    BY <1>6 DEF Accounts
  <2>6. CASE u \in sent[p]
    <3>1. c.at < phone[p].draft.at
      BY <1>6, <2>3, <2>5, <2>6 DEF SentIsOlder
    <3> QED
      BY <2>1, <2>4, <3>1
  <2>7. CASE u = phone[p].draft.text /\ phone[p].draft.at < phone'[p].draft.at
    <3>1. c.at = phone[p].draft.at
      BY <1>6, <2>1, <2>2, <2>3, <2>5, <2>7 DEF OneStampPerText
    <3> QED
      BY <2>7, <3>1
  <2> QED
    BY <1>6, <2>6, <2>7 DEF Accounts
<1> QED
  BY <1>4, <1>5, <1>6 DEF OneStampPerText, SentIsOlder, Moves

LEMMA DraftStarts == DraftInit => DraftIInv
<1> SUFFICES ASSUME DraftInit
             PROVE  DraftIInv
  OBVIOUS
<1>1. /\ host = Absent
      /\ \A p \in Phones : /\ phone[p].draft = Absent
                           /\ phone[p].clock = 0
                           /\ phone[p].seen = FALSE
                           /\ answer[p] = NoAnswer
                           /\ sent[p] = {}
      /\ stray = {}
      /\ texts = 0
  BY DEF DraftInit
<1>2. phone \in [Phones -> Phone]
  BY DEF DraftInit, Phone, Draft, Absent
<1>3. Copies \subseteq {Absent, NoAnswer}
  BY <1>1 DEF Copies
<1>4. DraftTypeOK
  BY <1>1, <1>2, <1>3 DEF DraftTypeOK, DraftInit, Draft, Absent, NoAnswer
<1> QED
  BY <1>1, <1>3, <1>4 DEF DraftIInv, OneStampPerText, SentIsOlder, DifferencesAreOnTheirWay, Absent, NoAnswer

\* What the phones know after the host's copy may have changed.
LEMMA ToldOf ==
    ASSUME NEW phones \in [Phones -> Phone], Told(phones)
    PROVE  /\ phone' \in [Phones -> Phone]
           /\ \A q \in Phones :
                /\ phone'[q].draft = phones[q].draft
                /\ phone'[q].clock = phones[q].clock
                /\ phone'[q].timer = phones[q].timer
                /\ phone'[q].seen => phones[q].seen /\ host' = host
<1>1. ASSUME NEW q \in Phones
      PROVE  /\ phone'[q] \in Phone
             /\ phone'[q].draft = phones[q].draft
             /\ phone'[q].clock = phones[q].clock
             /\ phone'[q].timer = phones[q].timer
             /\ phone'[q].seen = (phones[q].seen /\ host' = host)
  <2> DEFINE known == phones[q].seen /\ host' = host
  <2>1. phone'[q] = [phones[q] EXCEPT !.seen = known]
    BY DEF Told
  <2>2. phones[q] \in Phone /\ known \in BOOLEAN
    BY DEF Phone
  <2> HIDE DEF known
  <2>3. /\ phone'[q] \in Phone
        /\ phone'[q].draft = phones[q].draft
        /\ phone'[q].clock = phones[q].clock
        /\ phone'[q].timer = phones[q].timer
        /\ phone'[q].seen = known
    BY <2>1, <2>2 DEF Phone
  <2> QED
    BY <2>3 DEF known
<1>2. phone' = [q \in Phones |-> phone'[q]]
  BY DEF Told
<1>3. phone' \in [Phones -> Phone]
  BY <1>1, <1>2
<1> QED
  BY <1>1, <1>3

\* A phone's draft reaches the host, whose copy is the answer.
LEMMA UploadMoves ==
    ASSUME DraftIInv, NEW p \in Phones, NEW phones \in [Phones -> Phone], NEW draft \in Draft,
           \A q \in Phones : q # p => phones[q] = phone[q],
           phones[p].draft = draft, draft.at <= phones[p].clock, phone[p].draft.at <= draft.at,
           HostTakes(draft), answer' = [answer EXCEPT ![p] = host'], Told(phones), stray' = stray
    PROVE  /\ Moves(draft)
           /\ phone'[p].draft = draft
<1> USE DEF DraftIInv
<1>1. host' \in {host, draft} /\ host' \in Draft
  BY DEF HostTakes, DraftTypeOK
<1>2. /\ phone' \in [Phones -> Phone]
      /\ \A q \in Phones :
           /\ phone'[q].draft = phones[q].draft
           /\ phone'[q].clock = phones[q].clock
           /\ phone'[q].timer = phones[q].timer
           /\ phone'[q].seen => phones[q].seen /\ host' = host
  BY ToldOf
<1>3. /\ answer' \in [Phones -> Draft \cup {NoAnswer}]
      /\ answer'[p] = host'
      /\ \A q \in Phones : q # p => answer'[q] = answer[q]
  BY <1>1 DEF DraftTypeOK
<1>4. /\ phone'[p].draft = draft
      /\ \A q \in Phones : q # p => phone'[q].draft = phone[q].draft
  BY <1>2
<1>5. Copies' \subseteq Copies \cup {draft}
  <2>1. ASSUME NEW q \in Phones
        PROVE  phone'[q].draft \in Copies \cup {draft} /\ answer'[q] \in Copies \cup {draft}
    BY <1>1, <1>3, <1>4 DEF Copies
  <2>2. host' \in Copies \cup {draft} /\ NoAnswer \in Copies /\ stray' \subseteq Copies
    BY <1>1 DEF Copies
  <2> QED
    BY <2>1, <2>2 DEF Copies
<1>6. \A q \in Phones : /\ phone[q].draft.at <= phone'[q].draft.at
                        /\ phone'[q].draft.at <= phone'[q].clock
  BY <1>2 DEF DraftTypeOK, Phone, Draft
<1>7. DifferencesAreOnTheirWay'
  <2> SUFFICES ASSUME NEW q \in Phones, phone'[q].seen, ~phone'[q].timer, answer'[q] = NoAnswer
               PROVE  phone'[q].draft = host'
    BY DEF DifferencesAreOnTheirWay
  <2>1. q # p
    BY <1>1, <1>3, DraftIsAnAnswer
  <2>2. /\ phone[q].seen
        /\ ~phone[q].timer
        /\ answer[q] = NoAnswer
        /\ host' = host
    BY <2>1, <1>2, <1>3
  <2> QED
    BY <2>1, <2>2, <1>4 DEF DifferencesAreOnTheirWay
<1> QED
  BY <1>1, <1>2, <1>3, <1>4, <1>5, <1>6, <1>7 DEF Moves, DraftTypeOK

\* A step of one phone that reaches nobody else.
LEMMA PhoneMoves ==
    ASSUME DraftIInv, NEW p \in Phones, NEW changed \in Phone,
           changed.draft.at <= changed.clock, phone[p].draft.at <= changed.draft.at,
           NEW reply \in Draft \cup {NoAnswer}, reply \in Copies,
           changed.seen /\ ~changed.timer /\ reply = NoAnswer => changed.draft = host,
           phone' = [phone EXCEPT ![p] = changed], answer' = [answer EXCEPT ![p] = reply],
           host' = host, stray' \in SUBSET Draft, stray' \subseteq Copies
    PROVE  /\ Moves(changed.draft)
           /\ phone'[p].draft = changed.draft
<1> USE DEF DraftIInv
<1>1. /\ phone' \in [Phones -> Phone]
      /\ phone'[p] = changed
      /\ \A q \in Phones : q # p => phone'[q] = phone[q]
  BY DEF DraftTypeOK
<1>2. /\ answer' \in [Phones -> Draft \cup {NoAnswer}]
      /\ answer'[p] = reply
      /\ \A q \in Phones : q # p => answer'[q] = answer[q]
  BY DEF DraftTypeOK
<1>3. Copies' \subseteq Copies \cup {changed.draft}
  <2>1. ASSUME NEW q \in Phones
        PROVE  phone'[q].draft \in Copies \cup {changed.draft} /\ answer'[q] \in Copies \cup {changed.draft}
    BY <1>1, <1>2 DEF Copies
  <2> QED
    BY <2>1 DEF Copies
<1>4. \A q \in Phones : /\ phone[q].draft.at <= phone'[q].draft.at
                        /\ phone'[q].draft.at <= phone'[q].clock
  BY <1>1 DEF DraftTypeOK, Phone, Draft
<1>5. DifferencesAreOnTheirWay'
  BY <1>1, <1>2 DEF DifferencesAreOnTheirWay
<1> QED
  BY <1>1, <1>2, <1>3, <1>4, <1>5 DEF Moves, DraftTypeOK

\* After an answer.
LEMMA FollowsMoves ==
    ASSUME DraftIInv, NEW p \in Phones, NEW changed \in Phone,
           changed.draft.at <= changed.clock, phone[p].draft.at <= changed.draft.at,
           changed.seen /\ ~changed.timer => changed.draft = host,
           Follows(p, changed), stray' = stray
    PROVE  /\ Moves(changed.draft)
           /\ phone'[p].draft = changed.draft
<1> DEFINE idle == [changed EXCEPT !.queued = FALSE]
           phones == [phone EXCEPT ![p] = idle]
<1>1. /\ idle \in Phone
      /\ idle.draft = changed.draft
      /\ idle.clock = changed.clock
      /\ idle.timer = changed.timer
      /\ idle.seen = changed.seen
  BY DEF Phone
<1>2. \/ HostTakes(changed.draft) /\ answer' = [answer EXCEPT ![p] = host'] /\ Told(phones)
      \/ answer' = [answer EXCEPT ![p] = NoAnswer] /\ phone' = phones /\ host' = host
  BY DEF Follows
<1> HIDE DEF idle
<1>3. /\ phones \in [Phones -> Phone]
      /\ phones[p] = idle
      /\ \A q \in Phones : q # p => phones[q] = phone[q]
  BY <1>1 DEF DraftIInv, DraftTypeOK
<1>4. changed.draft \in Draft
  BY DEF Phone
<1>5. CASE HostTakes(changed.draft) /\ answer' = [answer EXCEPT ![p] = host'] /\ Told(phones)
  <2>1. /\ phones[p].draft = changed.draft
        /\ changed.draft.at <= phones[p].clock
    BY <1>1, <1>3
  <2> HIDE DEF phones
  <2> QED
    BY <1>3, <1>4, <1>5, <2>1, UploadMoves
<1>6. CASE answer' = [answer EXCEPT ![p] = NoAnswer] /\ phone' = phones /\ host' = host
  <2>1. /\ NoAnswer \in Draft \cup {NoAnswer}
        /\ NoAnswer \in Copies
        /\ stray' \in SUBSET Draft
        /\ stray' \subseteq Copies
    BY DEF Copies, DraftIInv, DraftTypeOK
  <2>2. /\ Moves(idle.draft)
        /\ phone'[p].draft = idle.draft
    BY <1>1, <1>6, <2>1, PhoneMoves
  <2> QED
    BY <1>1, <2>2
<1> QED
  BY <1>2, <1>5, <1>6

\* A step that only carries copies about.
LEMMA CarryingKeeps ==
    ASSUME DraftIInv, NEW new \in Draft, new \in Copies, Moves(new), UNCHANGED <<texts, sent, kept>>
    PROVE  DraftIInv'
<1>1. new.text <= texts
  BY CopiesAreTyped DEF DraftIInv
<1>2. texts' = texts /\ sent' \in [Phones -> SUBSET (1..texts')]
  BY DEF DraftIInv, DraftTypeOK
<1>3. Accounts(new)
  BY <1>1, <1>2 DEF Accounts
<1> QED
  BY <1>3, MovesKeep

\* The draft of a phone is one of the copies.
LEMMA OwnDraft ==
    ASSUME DraftIInv, NEW p \in Phones
    PROVE  /\ phone[p] \in Phone
           /\ phone[p].draft \in Draft
           /\ phone[p].draft \in Copies
           /\ phone[p].draft.at \in Nat
           /\ phone[p].clock \in Nat
           /\ phone[p].draft.at <= phone[p].clock
           /\ phone[p].draft.text \in 0..texts
<1>1. /\ phone[p] \in Phone
      /\ phone[p].draft \in Copies
      /\ phone[p].draft.at <= phone[p].clock
  BY DEF DraftIInv, DraftTypeOK, Copies
<1>2. phone[p].draft.text <= texts /\ texts \in Nat
  BY <1>1, CopiesAreTyped DEF DraftIInv, DraftTypeOK
<1> QED
  BY <1>1, <1>2 DEF Phone, Draft

LEMMA FlushKeeps ==
    ASSUME DraftIInv, NEW p \in Phones, NEW focused \in BOOLEAN, Flush(p, focused),
           UNCHANGED <<texts, sent, kept>>
    PROVE  DraftIInv'
<1> DEFINE spent == [phone[p] EXCEPT !.timer = FALSE, !.focused = focused]
           idle == [phone EXCEPT ![p].timer = FALSE, ![p].focused = focused]
           draft == phone[p].draft
<1>1. /\ phone[p] \in Phone
      /\ draft \in Draft
      /\ draft \in Copies
      /\ draft.at \in Nat
      /\ draft.at <= phone[p].clock
  BY OwnDraft
<1>2. /\ spent \in Phone
      /\ spent.draft = draft
      /\ spent.clock = phone[p].clock
      /\ spent.seen = phone[p].seen
  BY <1>1 DEF Phone
<1>3. idle = [phone EXCEPT ![p] = spent]
  BY DEF DraftIInv, DraftTypeOK
<1>4. \/ Uploads(p, draft, idle) /\ stray' = stray
      \/ IsGivenUp(p, draft, idle)
  BY DEF Flush
<1> HIDE DEF spent, idle
<1>5. /\ idle \in [Phones -> Phone]
      /\ idle[p] = spent
      /\ \A q \in Phones : q # p => idle[q] = phone[q]
  BY <1>2, <1>3 DEF DraftIInv, DraftTypeOK
<1>6. CASE Uploads(p, draft, idle) /\ stray' = stray /\ answer[p] = NoAnswer
  <2>1. HostTakes(draft) /\ answer' = [answer EXCEPT ![p] = host'] /\ Told(idle) /\ stray' = stray
    BY <1>6 DEF Uploads
  <2>2. /\ idle[p].draft = draft
        /\ draft.at <= idle[p].clock
        /\ phone[p].draft.at <= draft.at
    BY <1>1, <1>2, <1>5
  <2>3. Moves(draft)
    BY <1>1, <1>5, <2>1, <2>2, UploadMoves
  <2> QED
    BY <1>1, <2>3, CarryingKeeps
<1>7. CASE Uploads(p, draft, idle) /\ stray' = stray /\ answer[p] # NoAnswer
  <2> DEFINE after == [spent EXCEPT !.queued = TRUE]
  <2>1. /\ phone' = [idle EXCEPT ![p].queued = TRUE]
        /\ UNCHANGED <<host, answer, stray>>
    BY <1>7 DEF Uploads
  <2>2. after \in Phone /\ after.draft = draft /\ after.clock = phone[p].clock
    BY <1>2 DEF Phone
  <2>3. phone' = [phone EXCEPT ![p] = after]
    BY <1>3, <2>1 DEF DraftIInv, DraftTypeOK
  <2>4. /\ answer[p] \in Draft \cup {NoAnswer}
        /\ answer[p] \in Copies
        /\ answer' = [answer EXCEPT ![p] = answer[p]]
        /\ stray' \in SUBSET Draft
        /\ stray' \subseteq Copies
    BY <2>1 DEF DraftIInv, DraftTypeOK, Copies
  <2> HIDE DEF after
  <2>5. /\ after.draft.at <= after.clock
        /\ phone[p].draft.at <= after.draft.at
        /\ after.seen /\ ~after.timer /\ answer[p] = NoAnswer => after.draft = host
    BY <1>1, <1>7, <2>2
  <2>6. Moves(after.draft)
    BY <2>1, <2>2, <2>3, <2>4, <2>5, PhoneMoves
  <2> QED
    BY <1>1, <2>2, <2>6, CarryingKeeps
<1>8. CASE IsGivenUp(p, draft, idle)
  <2> DEFINE after == [spent EXCEPT !.seen = FALSE]
  <2>1. /\ phone' = [idle EXCEPT ![p].seen = FALSE]
        /\ UNCHANGED <<host, answer>>
        /\ stray' \subseteq stray \cup {draft}
    BY <1>8 DEF IsGivenUp
  <2>2. after \in Phone /\ after.draft = draft /\ after.clock = phone[p].clock /\ ~after.seen
    BY <1>2 DEF Phone
  <2>3. phone' = [phone EXCEPT ![p] = after]
    BY <1>3, <2>1 DEF DraftIInv, DraftTypeOK
  <2>4. /\ answer[p] \in Draft \cup {NoAnswer}
        /\ answer[p] \in Copies
        /\ answer' = [answer EXCEPT ![p] = answer[p]]
        /\ stray' \in SUBSET Draft
        /\ stray' \subseteq Copies
    BY <1>1, <2>1 DEF DraftIInv, DraftTypeOK, Copies
  <2> HIDE DEF after
  <2>5. /\ after.draft.at <= after.clock
        /\ phone[p].draft.at <= after.draft.at
        /\ after.seen /\ ~after.timer /\ answer[p] = NoAnswer => after.draft = host
    BY <1>1, <2>2
  <2>6. Moves(after.draft)
    BY <2>1, <2>2, <2>3, <2>4, <2>5, PhoneMoves
  <2> QED
    BY <1>1, <2>2, <2>6, CarryingKeeps
<1> QED
  BY <1>4, <1>6, <1>7, <1>8

\* Typing, or sending, which leaves a tombstone.
LEMMA SetsMoves ==
    ASSUME DraftIInv, NEW p \in Phones, NEW text \in Nat, NEW t \in Ticks(phone[p].clock),
           Sets(p, text, t), UNCHANGED <<host, answer, stray>>
    PROVE  /\ t \in Nat
           /\ Moves([text |-> text, at |-> t])
           /\ phone'[p].draft = [text |-> text, at |-> t]
           /\ phone[p].draft.at < t
<1> DEFINE draft == [text |-> text, at |-> t]
           after == [phone[p] EXCEPT !.draft = draft, !.clock = t, !.touched = TRUE, !.timer = TRUE]
<1>1. /\ phone[p] \in Phone
      /\ phone[p].draft.at \in Nat
      /\ phone[p].clock \in Nat
      /\ phone[p].draft.at <= phone[p].clock
  BY OwnDraft
<1>2. t \in Nat /\ phone[p].draft.at < t
  BY <1>1 DEF Ticks
<1>3. draft \in Draft /\ draft.at = t
  BY <1>2 DEF Draft
<1>4. phone' = [phone EXCEPT ![p] = after]
  BY DEF Sets, DraftIInv, DraftTypeOK
<1> HIDE DEF draft
<1>5. /\ after \in Phone
      /\ after.draft = draft
      /\ after.clock = t
      /\ after.timer
  BY <1>1, <1>2, <1>3 DEF Phone
<1> HIDE DEF after
<1>6. /\ answer[p] \in Draft \cup {NoAnswer}
      /\ answer[p] \in Copies
      /\ answer' = [answer EXCEPT ![p] = answer[p]]
      /\ stray' \in SUBSET Draft
      /\ stray' \subseteq Copies
  BY DEF DraftIInv, DraftTypeOK, Copies
<1>7. /\ after.draft.at <= after.clock
      /\ phone[p].draft.at <= after.draft.at
      /\ after.seen /\ ~after.timer /\ answer[p] = NoAnswer => after.draft = host
  BY <1>1, <1>2, <1>3, <1>5
<1>8. /\ Moves(after.draft)
      /\ phone'[p].draft = after.draft
  BY <1>4, <1>5, <1>6, <1>7, PhoneMoves
<1> QED
  BY <1>2, <1>5, <1>8 DEF draft

LEMMA TypesKeeps ==
    ASSUME DraftIInv, NEW p \in Phones, Types(p)
    PROVE  DraftIInv'
<1>1. PICK t \in Ticks(phone[p].clock) : Sets(p, texts + 1, t)
  BY DEF Types
<1>2. texts + 1 \in Nat /\ texts' = texts + 1 /\ UNCHANGED <<host, answer, stray, sent, kept>>
  BY DEF Types, DraftIInv, DraftTypeOK
<1> DEFINE draft == [text |-> texts + 1, at |-> t]
<1>3. t \in Nat /\ Moves(draft)
  BY <1>1, <1>2, SetsMoves
<1>4. draft \in Draft /\ draft.text = texts + 1
  BY <1>2, <1>3 DEF Draft
<1> HIDE DEF draft
<1>5. sent' \in [Phones -> SUBSET (1..texts')]
  <2>1. 1..texts \subseteq 1..texts'
    BY <1>2 DEF DraftIInv, DraftTypeOK
  <2> QED
    BY <1>2, <2>1 DEF DraftIInv, DraftTypeOK
<1>6. Accounts(draft)
  BY <1>2, <1>4, <1>5 DEF Accounts
<1> QED
  BY <1>3, <1>4, <1>6, MovesKeep

LEMMA SendsKeeps ==
    ASSUME DraftIInv, NEW p \in Phones, Sends(p)
    PROVE  DraftIInv'
<1>1. PICK t \in Ticks(phone[p].clock) : Sets(p, 0, t)
  BY DEF Sends
<1>2. /\ UNCHANGED <<host, answer, stray, texts, kept>>
      /\ sent' = [sent EXCEPT ![p] = @ \cup {phone[p].draft.text}]
      /\ phone[p].draft.text # 0
  BY DEF Sends
<1> DEFINE draft == [text |-> 0, at |-> t]
<1>3. /\ t \in Nat
      /\ Moves(draft)
      /\ phone'[p].draft = draft
      /\ phone[p].draft.at < t
  BY <1>1, <1>2, SetsMoves
<1>4. draft \in Draft /\ draft.text = 0 /\ draft.at = t
  BY <1>3 DEF Draft
<1> HIDE DEF draft
<1>5. phone[p].draft.text \in 1..texts /\ texts \in Nat
  BY <1>2, OwnDraft DEF DraftIInv, DraftTypeOK
<1>6. /\ sent' \in [Phones -> SUBSET (1..texts')]
      /\ \A q \in Phones : sent'[q] = IF q = p THEN sent[p] \cup {phone[p].draft.text} ELSE sent[q]
  BY <1>2, <1>5 DEF DraftIInv, DraftTypeOK
<1>7. Accounts(draft)
  BY <1>2, <1>3, <1>4, <1>5, <1>6 DEF Accounts
<1> QED
  BY <1>3, <1>4, <1>7, MovesKeep

\* An answer was merged.
LEMMA AnsweredMoves ==
    ASSUME DraftIInv, NEW p \in Phones, NEW draft \in Draft, NEW clock \in Nat, NEW upload \in BOOLEAN,
           draft.at <= clock, phone[p].draft.at <= draft.at,
           answer[p] = host /\ ~upload => draft = host,
           Answered(p, draft, clock, upload), stray' = stray
    PROVE  Moves(draft)
<1> DEFINE timer == phone[p].timer \/ upload
           seen == (answer[p] = host)
           changed == [phone[p] EXCEPT !.draft = draft, !.clock = clock, !.timer = timer, !.seen = seen]
<1>1. phone[p] \in Phone
  BY OwnDraft
<1>2. timer \in BOOLEAN /\ seen \in BOOLEAN /\ (~timer => ~upload)
  BY <1>1, Zenon DEF Phone
<1>3. Follows(p, changed)
  BY DEF Answered
<1>4. (seen /\ ~timer) => draft = host
  BY <1>2
<1> HIDE DEF timer, seen
<1>5. /\ changed \in Phone
      /\ changed.draft = draft
      /\ changed.clock = clock
      /\ changed.timer = timer
      /\ changed.seen = seen
  BY <1>1, <1>2 DEF Phone
<1> HIDE DEF changed
<1>6. /\ changed.draft.at <= changed.clock
      /\ phone[p].draft.at <= changed.draft.at
      /\ changed.seen /\ ~changed.timer => changed.draft = host
  BY <1>4, <1>5
<1>7. Moves(changed.draft)
  BY <1>3, <1>5, <1>6, FollowsMoves
<1> QED
  BY <1>5, <1>7

\* The page was opened again.
LEMMA ReopensMoves ==
    ASSUME DraftIInv, NEW p \in Phones, NEW draft \in Draft, NEW touched \in BOOLEAN,
           phone[p].draft.at <= draft.at, Reopens(p, draft, touched), stray' = stray
    PROVE  Moves(draft)
<1> DEFINE fresh == [draft |-> draft, clock |-> draft.at, touched |-> touched, focused |-> FALSE,
                     timer |-> FALSE, queued |-> FALSE, seen |-> FALSE]
           phones == [phone EXCEPT ![p] = fresh]
<1>1. /\ fresh \in Phone
      /\ fresh.draft = draft
      /\ fresh.clock = draft.at
      /\ draft.at \in Nat
  BY DEF Phone, Draft
<1>2. HostTakes(draft) /\ answer' = [answer EXCEPT ![p] = host'] /\ Told(phones)
  BY DEF Reopens
<1> HIDE DEF fresh
<1>3. /\ phones \in [Phones -> Phone]
      /\ phones[p] = fresh
      /\ \A q \in Phones : q # p => phones[q] = phone[q]
  BY <1>1 DEF DraftIInv, DraftTypeOK
<1>4. phones[p].draft = draft /\ draft.at <= phones[p].clock
  BY <1>1, <1>3
<1> HIDE DEF phones
<1> QED
  BY <1>2, <1>3, <1>4, UploadMoves

\* The answer to a phone is a copy, and what the phone makes of its stamp is later
\* than all it has seen.
LEMMA AnswerIsACopy ==
    ASSUME DraftIInv, NEW p \in Phones, answer[p] # NoAnswer
    PROVE  /\ answer[p] \in Draft
           /\ answer[p] \in Copies
           /\ answer[p].at \in Nat
           /\ answer[p].text \in 0..texts
           /\ Max({phone[p].clock, answer[p].at}) \in Nat
           /\ Max({phone[p].clock, answer[p].at}) >= phone[p].clock
           /\ Max({phone[p].clock, answer[p].at}) >= answer[p].at
<1>1. answer[p] \in Draft /\ answer[p] \in Copies /\ texts \in Nat
  BY DEF DraftIInv, DraftTypeOK, Copies
<1>2. answer[p].text <= texts
  BY <1>1, CopiesAreTyped DEF DraftIInv
<1>3. phone[p].clock \in Nat /\ answer[p].at \in Nat
  BY <1>1, OwnDraft DEF Draft
<1>4. phone[p].clock \in Int /\ answer[p].at \in Int
  BY <1>3
<1>5. /\ Max({phone[p].clock, answer[p].at}) \in {phone[p].clock, answer[p].at}
      /\ Max({phone[p].clock, answer[p].at}) >= phone[p].clock
      /\ Max({phone[p].clock, answer[p].at}) >= answer[p].at
  BY <1>4, MaxOfTwo, Zenon
<1> QED
  BY <1>1, <1>2, <1>3, <1>5 DEF Draft

\* A text that was given a new stamp is accounted for as kept.
LEMMA KeptIsAccounted ==
    ASSUME DraftIInv, NEW draft \in Draft, draft.text <= texts,
           kept' = kept \cup {draft.text}, UNCHANGED <<texts, sent>>
    PROVE  Accounts(draft)
<1>1. texts' = texts /\ sent' \in [Phones -> SUBSET (1..texts')]
  BY DEF DraftIInv, DraftTypeOK
<1> QED
  BY <1>1 DEF Accounts

LEMMA FailsKeeps ==
    ASSUME DraftIInv, NEW p \in Phones, Fails(p)
    PROVE  DraftIInv'
<1> DEFINE changed == [phone[p] EXCEPT !.seen = FALSE]
<1>1. /\ phone[p] \in Phone
      /\ phone[p].draft \in Draft
      /\ phone[p].draft \in Copies
      /\ phone[p].draft.at <= phone[p].clock
      /\ phone[p].draft.at \in Nat
  BY OwnDraft
<1>2. /\ changed \in Phone
      /\ changed.draft = phone[p].draft
      /\ changed.clock = phone[p].clock
      /\ ~changed.seen
  BY <1>1 DEF Phone
<1>3. Follows(p, changed) /\ UNCHANGED <<stray, texts, sent, kept>>
  BY DEF Fails
<1> HIDE DEF changed
<1>4. /\ changed.draft.at <= changed.clock
      /\ phone[p].draft.at <= changed.draft.at
      /\ changed.seen /\ ~changed.timer => changed.draft = host
  BY <1>1, <1>2
<1>5. Moves(changed.draft)
  BY <1>2, <1>3, <1>4, FollowsMoves
<1> QED
  BY <1>1, <1>2, <1>3, <1>5, CarryingKeeps

LEMMA AdoptsKeeps ==
    ASSUME DraftIInv, NEW p \in Phones, Adopts(p)
    PROVE  DraftIInv'
<1> DEFINE d == answer[p]
<1>1. /\ d # NoAnswer
      /\ IncomingWins(p, d)
      /\ Answered(p, d, Observed(p, d), FALSE)
      /\ UNCHANGED <<stray, texts, sent, kept>>
  BY DEF Adopts
<1>2. /\ d \in Draft
      /\ d \in Copies
      /\ d.at \in Nat
      /\ Observed(p, d) \in Nat
      /\ d.at <= Observed(p, d)
  BY <1>1, AnswerIsACopy DEF Observed
<1>3. phone[p].draft.at <= d.at
  BY <1>1, <1>2, OwnDraft DEF IncomingWins
<1>4. answer[p] = host /\ ~FALSE => d = host
  OBVIOUS
<1>5. Moves(d)
  BY <1>1, <1>2, <1>3, <1>4, AnsweredMoves
<1> QED
  BY <1>1, <1>2, <1>5, CarryingKeeps

LEMMA ProtectsKeeps ==
    ASSUME DraftIInv, NEW p \in Phones, Protects(p)
    PROVE  DraftIInv'
<1> DEFINE d == answer[p]
<1>1. PICK t \in Ticks(Max({phone[p].clock, d.at})) :
        Answered(p, [phone[p].draft EXCEPT !.at = t], t, NeedsUpload(p, d))
  BY DEF Protects
<1>2. /\ d # NoAnswer
      /\ NeedsUpload(p, d) = TRUE
      /\ UNCHANGED <<stray, texts, sent>>
      /\ kept' = kept \cup {phone[p].draft.text}
  BY DEF Protects, NeedsUpload
<1>3. /\ Max({phone[p].clock, d.at}) \in Nat
      /\ Max({phone[p].clock, d.at}) >= phone[p].clock
  BY <1>2, AnswerIsACopy
<1>4. /\ phone[p].draft \in Draft
      /\ phone[p].draft.at \in Nat
      /\ phone[p].clock \in Nat
      /\ phone[p].draft.at <= phone[p].clock
      /\ phone[p].draft.text \in 0..texts
  BY OwnDraft
<1>5. t \in Nat /\ phone[p].draft.at < t
  BY <1>3, <1>4 DEF Ticks
<1> DEFINE draft == [phone[p].draft EXCEPT !.at = t]
<1>6. /\ draft \in Draft
      /\ draft.at = t
      /\ draft.text = phone[p].draft.text
  BY <1>4, <1>5 DEF Draft
<1> HIDE DEF draft
<1>7. Answered(p, draft, t, TRUE)
  BY <1>1, <1>2 DEF draft
<1>8. /\ draft.at <= t
      /\ phone[p].draft.at <= draft.at
      /\ answer[p] = host /\ ~TRUE => draft = host
  BY <1>4, <1>5, <1>6
<1>9. Moves(draft)
  BY <1>2, <1>5, <1>6, <1>7, <1>8, AnsweredMoves
<1>10. Accounts(draft)
  <2>1. draft.text <= texts /\ kept' = kept \cup {draft.text}
    BY <1>2, <1>4, <1>6
  <2> QED
    BY <1>2, <1>6, <2>1, KeptIsAccounted
<1> QED
  BY <1>6, <1>9, <1>10, MovesKeep

LEMMA StaysKeeps ==
    ASSUME DraftIInv, NEW p \in Phones, Stays(p)
    PROVE  DraftIInv'
<1> DEFINE d == answer[p]
           own == phone[p].draft
<1>1. /\ d # NoAnswer
      /\ Answered(p, own, Observed(p, d), NeedsUpload(p, d))
      /\ UNCHANGED <<stray, texts, sent, kept>>
  BY DEF Stays
<1>2. /\ Observed(p, d) \in Nat
      /\ phone[p].clock <= Observed(p, d)
  BY <1>1, AnswerIsACopy, OwnDraft DEF Observed
<1>3. /\ own \in Draft
      /\ own \in Copies
      /\ own.at \in Nat
      /\ phone[p].clock \in Nat
      /\ own.at <= phone[p].clock
  BY OwnDraft
<1>4. /\ own.at <= Observed(p, d)
      /\ phone[p].draft.at <= own.at
      /\ NeedsUpload(p, d) \in BOOLEAN
      /\ answer[p] = host /\ ~NeedsUpload(p, d) => own = host
  BY <1>2, <1>3 DEF NeedsUpload
<1> HIDE DEF d, own
<1>5. Moves(own)
  BY <1>1, <1>2, <1>3, <1>4, AnsweredMoves
<1> QED
  BY <1>1, <1>3, <1>5, CarryingKeeps

LEMMA DiesAdoptingKeeps ==
    ASSUME DraftIInv, NEW p \in Phones, DiesAdopting(p)
    PROVE  DraftIInv'
<1> DEFINE d == answer[p]
<1>1. PICK t \in Ticks(phone[p].draft.at) : Reopens(p, [text |-> d.text, at |-> t], TRUE)
  BY DEF DiesAdopting
<1>2. /\ d # NoAnswer
      /\ kept' = kept \cup {d.text}
      /\ UNCHANGED <<stray, texts, sent>>
  BY DEF DiesAdopting
<1>3. d.text \in 0..texts /\ phone[p].draft.at \in Nat /\ texts \in Nat
  BY <1>2, AnswerIsACopy, OwnDraft DEF DraftIInv, DraftTypeOK
<1>4. t \in Nat /\ phone[p].draft.at < t
  BY <1>3 DEF Ticks
<1> DEFINE draft == [text |-> d.text, at |-> t]
<1>5. /\ draft \in Draft
      /\ draft.at = t
      /\ draft.text = d.text
  BY <1>3, <1>4 DEF Draft
<1>6. Reopens(p, draft, TRUE)
  BY <1>1
<1> HIDE DEF draft
<1>7. Moves(draft)
  <2>1. phone[p].draft.at <= draft.at
    BY <1>3, <1>4, <1>5
  <2> QED
    BY <1>2, <1>5, <1>6, <2>1, ReopensMoves
<1>8. Accounts(draft)
  <2>1. draft.text <= texts /\ kept' = kept \cup {draft.text}
    BY <1>2, <1>3, <1>5
  <2> QED
    BY <1>2, <1>5, <2>1, KeptIsAccounted
<1> QED
  BY <1>5, <1>7, <1>8, MovesKeep

LEMMA StrayArrivesKeeps ==
    ASSUME DraftIInv, StrayArrives
    PROVE  DraftIInv'
<1>1. PICK d \in stray : HostTakes(d) /\ stray' = stray \ {d}
  BY DEF StrayArrives
<1>2. Told(phone) /\ UNCHANGED <<answer, texts, sent, kept>>
  BY DEF StrayArrives
<1>3. d \in Draft /\ d \in Copies /\ phone \in [Phones -> Phone]
  BY DEF DraftIInv, DraftTypeOK, Copies
<1>4. host' \in {host, d} /\ host' \in Draft
  BY <1>1, <1>3 DEF HostTakes, DraftIInv, DraftTypeOK
<1>5. /\ phone' \in [Phones -> Phone]
      /\ \A q \in Phones :
           /\ phone'[q].draft = phone[q].draft
           /\ phone'[q].clock = phone[q].clock
           /\ phone'[q].timer = phone[q].timer
           /\ phone'[q].seen => phone[q].seen /\ host' = host
  BY <1>2, <1>3, ToldOf
<1>6. Copies' \subseteq Copies \cup {d}
  BY <1>1, <1>2, <1>4, <1>5 DEF Copies
<1>7. \A q \in Phones : /\ phone[q].draft.at <= phone'[q].draft.at
                        /\ phone'[q].draft.at <= phone'[q].clock
  BY <1>5, OwnDraft
<1>8. DifferencesAreOnTheirWay'
  BY <1>2, <1>5 DEF DraftIInv, DifferencesAreOnTheirWay
<1>9. Moves(d)
  BY <1>1, <1>2, <1>4, <1>5, <1>6, <1>7, <1>8 DEF Moves, DraftIInv, DraftTypeOK
<1> QED
  BY <1>2, <1>3, <1>9, CarryingKeeps

LEMMA ReloadsKeeps ==
    ASSUME DraftIInv, NEW p \in Phones, Reloads(p)
    PROVE  DraftIInv'
<1>1. /\ phone[p].draft \in Draft
      /\ phone[p].draft \in Copies
      /\ phone[p].draft.at <= phone[p].draft.at
  BY OwnDraft
<1>2. Moves(phone[p].draft)
  BY <1>1, ReopensMoves DEF Reloads
<1> QED
  BY <1>1, <1>2, CarryingKeeps DEF Reloads

LEMMA FocusesKeeps ==
    ASSUME DraftIInv, NEW p \in Phones, Focuses(p)
    PROVE  DraftIInv'
<1> DEFINE after == [phone[p] EXCEPT !.focused = TRUE]
<1>1. /\ phone[p] \in Phone
      /\ phone[p].draft \in Draft
      /\ phone[p].draft \in Copies
      /\ phone[p].draft.at <= phone[p].clock
      /\ phone[p].draft.at \in Nat
  BY OwnDraft
<1>2. phone' = [phone EXCEPT ![p] = after] /\ UNCHANGED <<host, answer, stray, texts, sent, kept>>
  BY DEF Focuses, DraftIInv, DraftTypeOK
<1>3. /\ after \in Phone
      /\ after.draft = phone[p].draft
      /\ after.clock = phone[p].clock
      /\ after.timer = phone[p].timer
      /\ after.seen = phone[p].seen
  BY <1>1 DEF Phone
<1> HIDE DEF after
<1>4. /\ answer[p] \in Draft \cup {NoAnswer}
      /\ answer[p] \in Copies
      /\ answer' = [answer EXCEPT ![p] = answer[p]]
      /\ stray' \in SUBSET Draft
      /\ stray' \subseteq Copies
  BY <1>2 DEF DraftIInv, DraftTypeOK, Copies
<1>5. /\ after.draft.at <= after.clock
      /\ phone[p].draft.at <= after.draft.at
      /\ after.seen /\ ~after.timer /\ answer[p] = NoAnswer => after.draft = host
  BY <1>1, <1>3 DEF DraftIInv, DifferencesAreOnTheirWay
<1>6. Moves(after.draft)
  BY <1>2, <1>3, <1>4, <1>5, PhoneMoves
<1> QED
  BY <1>1, <1>2, <1>3, <1>6, CarryingKeeps

LEMMA PollsKeeps ==
    ASSUME DraftIInv, NEW p \in Phones, Polls(p)
    PROVE  DraftIInv'
<1>1. /\ phone[p] \in Phone
      /\ phone[p].draft \in Draft
      /\ phone[p].draft \in Copies
      /\ phone[p].draft.at <= phone[p].clock
      /\ phone[p].draft.at \in Nat
  BY OwnDraft
<1>2. /\ answer' = [answer EXCEPT ![p] = host]
      /\ UNCHANGED <<host, phone, stray, texts, sent, kept>>
      /\ host \in Draft \cup {NoAnswer}
      /\ host \in Copies
      /\ host # NoAnswer
  BY DraftIsAnAnswer DEF Polls, Copies, DraftIInv, DraftTypeOK
<1>3. /\ phone' = [phone EXCEPT ![p] = phone[p]]
      /\ stray' \in SUBSET Draft
      /\ stray' \subseteq Copies
  BY <1>2 DEF DraftIInv, DraftTypeOK, Copies
<1>4. /\ phone[p].draft.at <= phone[p].draft.at
      /\ phone[p].seen /\ ~phone[p].timer /\ host = NoAnswer => phone[p].draft = host
  BY <1>1, <1>2
<1>5. Moves(phone[p].draft)
  BY <1>1, <1>2, <1>3, <1>4, PhoneMoves
<1> QED
  BY <1>1, <1>2, <1>5, CarryingKeeps

\* Every step of the phones and the host keeps the invariant.
LEMMA DraftSteps == DraftIInv /\ [DraftNext]_draftVars => DraftIInv'
<1> SUFFICES ASSUME DraftIInv, [DraftNext]_draftVars
             PROVE  DraftIInv'
  OBVIOUS
<1>1. ASSUME NEW p \in Phones, Flushes(p)
      PROVE  DraftIInv'
  <2>1. phone[p].focused \in BOOLEAN
    BY OwnDraft DEF Phone
  <2> QED
    BY <1>1, <2>1, FlushKeeps DEF Flushes
<1>2. ASSUME NEW p \in Phones, Blurs(p)
      PROVE  DraftIInv'
  BY <1>2, FlushKeeps DEF Blurs
<1>3. CASE UNCHANGED draftVars
  BY <1>3 DEF draftVars, DraftIInv, DraftTypeOK, OneStampPerText, SentIsOlder,
              DifferencesAreOnTheirWay, Copies
<1> QED
  BY <1>1, <1>2, <1>3, TypesKeeps, SendsKeeps, FocusesKeeps, PollsKeeps, FailsKeeps, AdoptsKeeps,
     ProtectsKeeps, StaysKeeps, ReloadsKeeps, DiesAdoptingKeeps, StrayArrivesKeeps
     DEF DraftNext

\* Copies of a text agree on its stamp, and all copies of a sent one are older
\* than the draft of who sent it, in every state.
THEOREM DraftsAreInOrder == DraftSpec => []DraftIInv
<1> QED
  BY DraftStarts, DraftSteps, PTL DEF DraftSpec

\* What a phone has sent does not come back into its composer (src/prefs.ts).
THEOREM SentDraftsStaySent == DraftSpec => []SentStaysSent
<1>1. DraftIInv => SentStaysSent
  <2> SUFFICES ASSUME DraftIInv, NEW p \in Phones, phone[p].draft.text \in sent[p] \ kept
               PROVE  FALSE
    BY DEF SentStaysSent
  <2>1. phone[p].draft \in Copies /\ phone[p].draft.at \in Nat
    BY OwnDraft
  <2>2. phone[p].draft.at < phone[p].draft.at
    BY <2>1 DEF DraftIInv, SentIsOlder
  <2> QED
    BY <2>1, <2>2
<1> QED
  BY <1>1, DraftsAreInOrder, PTL

\* A phone that has heard of the host's draft and has nothing to upload has the
\* same one.
THEOREM DifferencesTravel == DraftSpec => []DifferencesAreOnTheirWay
<1>1. DraftIInv => DifferencesAreOnTheirWay
  BY DEF DraftIInv
<1> QED
  BY <1>1, DraftsAreInOrder, PTL
=============================================================================
