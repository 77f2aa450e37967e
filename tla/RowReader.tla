------------------------------ MODULE RowReader ------------------------------
(***************************************************************************)
(* What a poll makes of the rows of one OpenCode session                   *)
(* (agent-session-ingest/src/adapters/opencode.ts).  A row version is a    *)
(* triple <<rank, id, time>>: rank 0 is the session, 1 a message, 2 a      *)
(* part, and time its time_updated.                                        *)
(***************************************************************************)
EXTENDS Integers, FiniteSets, FiniteSetsExt

CONSTANT Place                 \* where a locale has each key among those of its rank

NoKey == <<-1, 0>>             \* no lastRecordKey
NoRowCursor == [time |-> 0, key |-> NoKey]

Key(v) == <<v[1], v[2]>>
Time(v) == v[3]

\* The order in which rows are filtered: by rank and id, as strings of code units.
KeyBefore(a, b) == a[1] < b[1] \/ (a[1] = b[1] /\ a[2] < b[2])

\* The order in which rows are sorted: localeCompare, and as the queries had them
\* where it knows no difference.
SortsBefore(a, b) ==
    \/ a[1] < b[1]
    \/ a[1] = b[1] /\ Place[a] < Place[b]
    \/ a[1] = b[1] /\ Place[a] = Place[b] /\ a[2] < b[2]
Precedes(v, w) == Time(v) < Time(w) \/ (Time(v) = Time(w) /\ SortsBefore(Key(v), Key(w)))

\* A row that the cursor leaves behind, were it stored now.
Behind(cursor, v) ==
    Time(v) < cursor.time \/ (Time(v) = cursor.time /\ ~KeyBefore(cursor.key, Key(v)))

\* A row that the cursor's is sorted behind and that the filter puts behind the
\* cursor's: it has been yielded and will be again.
Misplaced(cursor, v) ==
    /\ Time(v) = cursor.time
    /\ SortsBefore(Key(v), cursor.key) /\ KeyBefore(cursor.key, Key(v))

\* resetToFullReplay: something read before is newer than the session's row.
Replays(cursor, session) == Time(session) < cursor.time
Watermark(cursor, session) == IF Replays(cursor, session) THEN 0 ELSE cursor.time

\* Mutant: rows that share the cursor's time are not looked at again.
FreshLater(cursor, session, rows) ==
    {v \in rows : Time(v) > Watermark(cursor, session)}

\* Mutant: rows that share the cursor's time are all taken again.
FreshAgain(cursor, session, rows) ==
    {v \in rows : Time(v) >= Watermark(cursor, session)}

\* The rows a poll yields: all that come after the cursor.  On a first read the
\* cursor is NoRowCursor, which every row comes after.
Fresh(cursor, session, rows) ==
    LET watermark == Watermark(cursor, session)
        key == cursor.key
    IN  {v \in rows : \/ Time(v) > watermark
                      \/ Time(v) = watermark /\ KeyBefore(key, Key(v))}

\* The next cursor: the latest time that was read and the key of the last row
\* that was yielded.
Advanced(cursor, session, rows, fresh) ==
    [time |-> Max({Time(v) : v \in rows} \cup {Time(session), cursor.time}),
     key |-> IF fresh = {} THEN cursor.key
             ELSE Key(CHOOSE v \in fresh : \A w \in fresh : w = v \/ Precedes(w, v))]
==============================================================================
