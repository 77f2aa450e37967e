----------------------------- MODULE JsonlReader -----------------------------
(***************************************************************************)
(* Reading a JSONL transcript from a cursor on                             *)
(* (agent-session-ingest/src/files/append-only.ts).                        *)
(*                                                                         *)
(* A text is a sequence of bytes: byte i of the line of record r is        *)
(* <<r, i>>, and NL ends a line.  A line that is a whole record decodes,   *)
(* unless the record is malformed, and a part of one does not: a JSON      *)
(* object has no proper suffix that is one.  A hash of a sample stands for *)
(* the sample.                                                             *)
(***************************************************************************)
EXTENDS Integers, Sequences, SequencesExt, FiniteSetsExt

CONSTANTS
    NL,              \* the newline byte
    NoHead,          \* an absent headHash
    Records,         \* the records that transcripts are made of
    Malformed,       \* those that the schema of their source does not decode
    Width,           \* the bytes of each record's line
    Continuation,    \* the bytes that continue a character
    HeadSample,      \* stableHeadSampleBytes
    InitialReadMax   \* initialReadMaxBytes

ASSUME WidthAssumption == Width \in [Records -> Nat \ {0}]
ASSUME BytesAssumption ==
    NL \notin Continuation /\ \A r \in Records : \A i \in 1..Width[r] : NL # <<r, i>>
ASSUME SizesAssumption == HeadSample \in Nat \ {0} /\ InitialReadMax \in Nat

Line(r) == [i \in 1..Width[r] |-> <<r, i>>]
Text(records) == FlattenSeq([i \in DOMAIN records |-> Append(Line(records[i]), NL)])

Newlines(text) == {i \in DOMAIN text : text[i] = NL}
LastNewline(text) == Max(Newlines(text) \cup {0})
FirstNewline(text) == IF NL \in Range(text) THEN Min(Newlines(text)) ELSE 0

\* The length of a decoded text: a character is one unit however many bytes it
\* has, and one whose first byte is missing is replaced by one.
Units(text) ==
    Len(text) - Cardinality({i \in 2..Len(text) : text[i] \in Continuation})

HeadOf(text, size) ==
    IF size < HeadSample THEN NoHead ELSE SubSeq(text, 1, Min({HeadSample, Len(text)}))

NoCursor == [offset |-> 0, head |-> NoHead]

\* Mutant: a rewrite is never noticed.
NeverRewritten(cursor, head) == FALSE

Rewritten(cursor, head) ==
    cursor.offset > 0 /\ cursor.head # NoHead /\ cursor.head # head

\* effectiveOffsetBytes: from the start when the file shrank or was rewritten,
\* from the tail when a long file is read for the first time.
StartOf(cursor, size, head) ==
    IF Rewritten(cursor, head) \/ size < cursor.offset THEN 0
    ELSE IF cursor.offset = 0 /\ size > InitialReadMax THEN size - InitialReadMax
    ELSE cursor.offset

StartsFromTail(cursor, start) == start > 0 /\ cursor.offset = 0

Window(text, start, size) == SubSeq(text, start + 1, Min({size, Len(text)}))

\* The bytes that precede the first line that starts in the window.
Discarded(text, fromTail, onBoundary) ==
    IF fromTail /\ ~onBoundary THEN FirstNewline(text) ELSE 0

\* Mutant: a line that is not complete yet is passed by.
NextOffsetOfRead(start, text) == start + Units(text)

\* Mutant: one too far.
NextOffsetPastLine(start, text) == start + Units(SubSeq(text, 1, LastNewline(text))) + 1

\* The bytes up to the last line's end, counted in characters.
NextOffset(start, text) == start + Units(SubSeq(text, 1, LastNewline(text)))

\* The complete lines of a text: each ends at a newline and begins after the last
\* one before that.
Lines(text) ==
    {SubSeq(text, LastNewline(SubSeq(text, 1, end - 1)) + 1, end - 1) :
        end \in Newlines(text)} \ {<<>>}

Decoded(line) == {r \in Records \ Malformed : Line(r) = line}
==============================================================================
