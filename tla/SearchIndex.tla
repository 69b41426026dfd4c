----------------------------- MODULE SearchIndex -----------------------------
(* The full-text index of the chats (src/search/worker.ts): one file that the *)
(* worker of every relay opens, rebuilds when its schema is an older one, and *)
(* fills from Conductor's messages by row number. Each statement of an open   *)
(* is a transaction of its own; a batch is one.                               *)
EXTENDS Integers, FiniteSetsExt

CONSTANTS Workers,        \* the index worker of each relay
          MaxMessages,    \* bound: messages in Conductor's database
          WINDOW_ROWS,
          MaxEnds         \* bound: workers that end, and statements that fail

ASSUME SearchAssumption == MaxMessages \in Nat /\ WINDOW_ROWS \in Nat \ {0}

VARIABLES source,         \* messages so far
          index,          \* the file
          worker,         \* what each worker is doing
          ends,
          torn            \* a rebuild was cut off, or met another one or a batch

searchVars == <<source, index, worker, ends, torn>>

Rows == 1..MaxMessages

Fresh == [pc |-> "closed", cursor |-> 0, end |-> 0]

\* Left behind by an older version, or by this one.
SearchInit ==
    /\ source \in 0..MaxMessages
    /\ \E version \in {"old", "new"}, cursor \in 0..source :
         index = [version |-> version, table |-> TRUE, cursor |-> cursor,
                  chunks |-> [row \in Rows |-> IF row <= cursor THEN 1 ELSE 0]]
    /\ worker = [w \in Workers |-> Fresh]
    /\ ends = 0 /\ torn = FALSE

Rebuilding == {w \in Workers : worker[w].pc \in {"drop", "create", "version", "reset"}}

At(w, pc) == worker[w].pc = pc

Goes(w, pc) == worker' = [worker EXCEPT ![w].pc = pc]

\* A statement of w that writes.
Writes(w) == torn' = (torn \/ Rebuilding \ {w} # {})

MessageArrives ==
    /\ source < MaxMessages /\ source' = source + 1
    /\ UNCHANGED <<index, worker, ends, torn>>

-----------------------------------------------------------------------------
(* open *)

Opens(w) ==
    /\ At(w, "closed")
    /\ Goes(w, IF index.version = "new" THEN "load" ELSE "drop")
    /\ UNCHANGED <<source, index, ends, torn>>

DropsTable(w) ==
    /\ At(w, "drop") /\ Goes(w, "create") /\ Writes(w)
    /\ index' = [index EXCEPT !.table = FALSE, !.chunks = [row \in Rows |-> 0]]
    /\ UNCHANGED <<source, ends>>

CreatesTable(w) ==
    /\ At(w, "create") /\ ~index.table
    /\ Goes(w, "version") /\ Writes(w)
    /\ index' = [index EXCEPT !.table = TRUE]
    /\ UNCHANGED <<source, ends>>

WritesVersion(w) ==
    /\ At(w, "version") /\ Goes(w, "reset") /\ Writes(w)
    /\ index' = [index EXCEPT !.version = "new"]
    /\ UNCHANGED <<source, ends>>

ResetsCursor(w) ==
    /\ At(w, "reset") /\ Goes(w, "load") /\ Writes(w)
    /\ index' = [index EXCEPT !.cursor = 0]
    /\ UNCHANGED <<source, ends>>

Loads(w) ==
    /\ At(w, "load") /\ index.table
    /\ worker' = [worker EXCEPT ![w] = [pc |-> "idle", cursor |-> index.cursor, end |-> 0]]
    /\ UNCHANGED <<source, index, ends, torn>>

\* The table is there already, or is not: the search stays unavailable until
\* the relay starts again.
OpenThrows(w) ==
    /\ IF index.table THEN At(w, "create") ELSE At(w, "load")
    /\ Goes(w, "failed")
    /\ UNCHANGED <<source, index, ends, torn>>

-----------------------------------------------------------------------------
(* tick *)

ReadsWindow(w) ==
    /\ At(w, "idle") /\ worker[w].cursor < source
    /\ worker' = [worker EXCEPT ![w].pc = "batch",
                                ![w].end = Min({source, worker[w].cursor + WINDOW_ROWS})]
    /\ UNCHANGED <<source, index, ends, torn>>

\* Deviation: what was read is written.
Unchecked(w) == TRUE

\* "Without the check, a dev relay and the service can both read cursor N."
CursorIsStillMine(w) == index.cursor = worker[w].cursor

CommitsBatch(w) ==
    /\ At(w, "batch") /\ CursorIsStillMine(w) /\ index.table
    /\ index' = [index EXCEPT
                    !.chunks = [row \in Rows |-> IF row \in (worker[w].cursor + 1)..worker[w].end
                                                 THEN @[row] + 1 ELSE @[row]],
                    !.cursor = worker[w].end]
    /\ worker' = [worker EXCEPT ![w].pc = "idle", ![w].cursor = worker[w].end]
    /\ Writes(w)
    /\ UNCHANGED <<source, ends>>

\* It takes over the cursor of the other, or comes again when there is a table.
RollsBack(w) ==
    /\ At(w, "batch") /\ ~(CursorIsStillMine(w) /\ index.table)
    /\ worker' = [worker EXCEPT ![w].pc = "idle",
                                ![w].cursor = IF CursorIsStillMine(w) THEN @ ELSE index.cursor]
    /\ UNCHANGED <<source, index, ends, torn>>

-----------------------------------------------------------------------------
\* The file is busy for too long, or the disk is full, while it is opened.
StatementFails(w) ==
    /\ worker[w].pc \in {"drop", "create", "version", "reset", "load"} /\ ends < MaxEnds
    /\ ends' = ends + 1 /\ Goes(w, "failed")
    /\ torn' = (torn \/ At(w, "reset"))
    /\ UNCHANGED <<source, index>>

\* The relay is stopped, or dies, and starts again.
Restarts(w) ==
    /\ ~At(w, "closed") /\ ends < MaxEnds
    /\ ends' = ends + 1
    /\ worker' = [worker EXCEPT ![w] = Fresh]
    /\ torn' = (torn \/ At(w, "reset"))
    /\ UNCHANGED <<source, index>>

SearchNext ==
    \/ MessageArrives
    \/ \E w \in Workers :
        \/ Opens(w) \/ DropsTable(w) \/ CreatesTable(w) \/ WritesVersion(w) \/ ResetsCursor(w)
        \/ Loads(w) \/ OpenThrows(w)
        \/ ReadsWindow(w) \/ CommitsBatch(w) \/ RollsBack(w)
        \/ StatementFails(w) \/ Restarts(w)

SearchSpec == SearchInit /\ [][SearchNext]_searchVars

-----------------------------------------------------------------------------
(* Properties *)

\* One chunk per source row: whoever fills the index, from however old a cursor,
\* and whatever ends in between, a row up to the cursor is in it once and the
\* others are not (worker.ts, the cursor check inside the batch), once its schema
\* is this version's; but for a rebuild that ended between the version and
\* the cursor, or that another worker ran into.
RowsAreIndexedOnce ==
    ~torn /\ Rebuilding = {} /\ index.version = "new" =>
        \A row \in Rows : index.chunks[row] = IF row <= index.cursor THEN 1 ELSE 0
=============================================================================
