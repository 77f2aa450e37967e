---------------------------- MODULE SessionIngest ----------------------------
(***************************************************************************)
(* agent-session-ingest: pollers that read what coding agents wrote since  *)
(* the last poll and keep their cursors in one checkpoint file.            *)
(*                                                                         *)
(* A source is watched by watchSource, which polls with ingestSource: it   *)
(* loads the checkpoints, reads the source's artifact from its cursor on,  *)
(* saves all checkpoints and then hands the records over.  Sources of      *)
(* JSONL transcripts read a file in steps while an agent appends to it or  *)
(* rewrites it; sources of rows read three tables of a database, one after *)
(* the other.  Every step is one file access or one query; several         *)
(* sources, each with one artifact, share the checkpoint file.             *)
(*                                                                         *)
(* A failure ends the stream of a source.  Watching it again, as well as   *)
(* dying at any point, is up to the application.                           *)
(***************************************************************************)
EXTENDS JsonlReader

CONSTANTS
    JsonlSources, RowSources,
    Watched,       \* the sets of sources that an application may watch
    Plans,         \* for each JSONL source, what its file holds between rewrites
    Flushes,       \* bound on the sizes at which a file is seen
    RowIds,        \* row keys <<rank, id>> of messages and parts
    Place,         \* where a locale has each row key among those of its rank
    Torn,          \* a checkpoint file that does not decode
    MaxTime,       \* bound on the clock of a database
    MaxUpdates,    \* bound on the changes of rows
    MaxCrashes     \* bound on deaths of pollers

Rows == INSTANCE RowReader

Sources == JsonlSources \cup RowSources
SessionKey == <<0, 1>>

ASSUME SourcesAssumption ==
    JsonlSources \cap RowSources = {} /\ Watched \subseteq SUBSET Sources
ASSUME PlansAssumption ==
    /\ \A s \in JsonlSources : Plans[s] \in Seq(Seq(Records)) /\ Plans[s] # <<>>
    /\ Flushes \subseteq Nat
ASSUME RowsAssumption ==
    /\ RowIds \subseteq {1, 2} \X Nat /\ MaxTime \in Nat \ {0}
    /\ Place \in [RowIds \cup {SessionKey} -> Nat]

VARIABLES
    watching,  \* the sources that are watched
    gen,       \* how often a source's file was rewritten, from 1
    file,      \* the transcript of a JSONL source
    clock, table, updates,  \* the database of the row sources: latest row versions
    store,     \* the checkpoint file
    phase,     \* what each source's poller did last
    seen,      \* the checkpoints it loaded
    scan,      \* what it has read so far
    next,      \* the checkpoint it is to save
    records,   \* the records it is to hand over
    crashes,
    \* History: records handed over once and more often, records that a crash
    \* lost, records that the reader may pass by, and the cursor of the last
    \* poll that handed over what it read.
    once, dropped, excused, last

agentVars == <<gen, file, clock, table, updates>>
pollVars == <<phase, seen, scan, next, records>>
histVars == <<once, dropped, last>>
vars == <<watching, agentVars, store, pollVars, crashes, histVars, excused>>

NoScan == [size |-> 0]

FirstCursor(s) == IF s \in JsonlSources THEN NoCursor ELSE Rows!NoRowCursor
Cursor(checkpoints, s) ==
    IF s \in DOMAIN checkpoints THEN checkpoints[s] ELSE FirstCursor(s)

Init ==
    /\ watching \in Watched
    /\ gen = [s \in JsonlSources |-> 1]
    /\ file = [s \in JsonlSources |-> <<>>]
    /\ clock = 1 /\ updates = 0
    /\ table = [k \in {SessionKey} |-> 1]
    /\ store = <<>>
    /\ phase = [s \in Sources |-> "idle"]
    /\ seen = [s \in Sources |-> <<>>]
    /\ scan = [s \in Sources |-> NoScan]
    /\ next = [s \in Sources |-> FirstCursor(s)]
    /\ records = [s \in Sources |-> {}]
    /\ crashes = 0
    /\ once = [s \in Sources |-> {}]
    /\ dropped = [s \in Sources |-> {}]
    /\ excused = [s \in Sources |-> {}]
    /\ last = [s \in Sources |-> FirstCursor(s)]

-----------------------------------------------------------------------------
(* Agents *)

Transcript(s) == Plans[s][gen[s]]
Complete(s) ==
    {Transcript(s)[i] : i \in 1..Cardinality(Newlines(file[s]))}

\* Records of a transcript that start before a place, which may be one that the
\* file has not grown to yet: a poll can take its place from the size of a longer
\* file that has since been replaced.
StartedBefore(transcript, place) ==
    LET n == Cardinality({i \in Newlines(Text(transcript)) : i < place})
    IN  {transcript[i] : i \in 1..Min({place, n + 1, Len(transcript)})}

Flushed(text) == {SubSeq(text, 1, n) : n \in Flushes \cap 1..Len(text)}

\* An agent writes as much of its transcript as it likes at a time.
AppendBytes(s) ==
    /\ \E text \in Flushed(Text(Transcript(s))) :
          /\ Len(text) > Len(file[s])
          /\ file' = [file EXCEPT ![s] = text]
    /\ UNCHANGED <<watching, gen, clock, table, updates, store, pollVars, crashes,
                   histVars, excused>>

\* The head sample of a cursor, or its lack of one, does not tell the file that it
\* is of from another.
TakenFor(cursor, transcript) ==
    cursor.head = NoHead \/ IsPrefix(cursor.head, Text(transcript))

CursorsOf(s) ==
    {Cursor(c, s) : c \in {seen[q] : q \in Sources} \cup ({store} \ {Torn})}
        \cup {next[s]}
        \cup (IF phase[s] = "window"
              THEN {[offset |-> NextOffset(scan[s].start, scan[s].text),
                     head |-> scan[s].head]}
              ELSE {})

\* The file is replaced by another transcript.  What of it lies before a cursor
\* that is taken for one of its own may be passed by.
Rewrite(s) ==
    /\ gen[s] < Len(Plans[s])
    /\ gen' = [gen EXCEPT ![s] = @ + 1]
    /\ \E new \in {Plans[s][gen[s] + 1]} :
          /\ \E text \in Flushed(Text(new)) : file' = [file EXCEPT ![s] = text]
          /\ excused' = [excused EXCEPT ![s] = @ \cup
                UNION {StartedBefore(new, c.offset) :
                          c \in {d \in CursorsOf(s) : TakenFor(d, new)}}]
    /\ UNCHANGED <<watching, clock, table, updates, store, pollVars, crashes, histVars>>

Tick ==
    /\ clock < MaxTime
    /\ clock' = clock + 1
    /\ UNCHANGED <<watching, gen, file, table, updates, store, pollVars, crashes,
                   histVars, excused>>

Versions == {<<k[1], k[2], table[k]>> : k \in DOMAIN table}

\* A row stored now is late for a poller that holds or has saved a cursor at or
\* past it, and for one that has already read its table in this poll.
IsLate(s, v) ==
    \/ \E c \in {Cursor(d, s) : d \in {seen[q] : q \in Sources} \cup ({store} \ {Torn})}
             \cup {next[s]} : Rows!Behind(c, v)
    \/ phase[s] = "session" /\ v[1] = 0
    \/ phase[s] = "messages" /\ v[1] <= 1

\* A row is inserted or updated, at the current time.
UpdateRow(k) ==
    LET v == <<k[1], k[2], clock>>
    IN  /\ updates < MaxUpdates
        /\ updates' = updates + 1
        /\ table' = [j \in DOMAIN table \cup {k} |-> IF j = k THEN clock ELSE table[j]]
        /\ excused' = [s \in Sources |->
              IF s \in RowSources /\ IsLate(s, v) THEN excused[s] \cup {v} ELSE excused[s]]
        /\ UNCHANGED <<watching, gen, file, clock, store, pollVars, crashes, histVars>>

Agents ==
    \/ \E s \in watching \cap JsonlSources : AppendBytes(s) \/ Rewrite(s)
    \/ watching \cap RowSources # {} /\ Tick
    \/ \E k \in RowIds \cup {SessionKey} : watching \cap RowSources # {} /\ UpdateRow(k)

-----------------------------------------------------------------------------
(* Pollers *)

Becomes(s, p) == phase' = [phase EXCEPT ![s] = p]

\* What a dead poller held is gone.
Forget(s) ==
    /\ seen' = [seen EXCEPT ![s] = <<>>]
    /\ scan' = [scan EXCEPT ![s] = NoScan]
    /\ next' = [next EXCEPT ![s] = FirstCursor(s)]
    /\ records' = [records EXCEPT ![s] = {}]

Fail(s) == Becomes(s, "dead") /\ Forget(s)

Load(s) ==
    /\ phase[s] = "idle"
    /\ IF store = Torn
       THEN Fail(s)
       ELSE /\ Becomes(s, "loaded")
            /\ seen' = [seen EXCEPT ![s] = store]
            /\ UNCHANGED <<scan, next, records>>
    /\ UNCHANGED <<watching, agentVars, store, crashes, histVars, excused>>

Own(s) == Cursor(seen[s], s)

Stat(s) ==
    /\ phase[s] = "loaded"
    /\ Becomes(s, "stated")
    /\ scan' = [scan EXCEPT ![s] = [size |-> Len(file[s])]]
    /\ UNCHANGED <<watching, agentVars, store, seen, next, records, crashes, histVars,
                   excused>>

Sample(s) ==
    /\ phase[s] = "stated"
    /\ Becomes(s, "sampled")
    /\ scan' = [scan EXCEPT ![s] = [size |-> @.size, head |-> HeadOf(file[s], @.size)]]
    /\ UNCHANGED <<watching, agentVars, store, seen, next, records, crashes, histVars,
                   excused>>

\* The end of a read: the lines are decoded, and one that does not decode fails
\* the poll.
Decode(s, text, start, head, fromTail, onBoundary) ==
    /\ \E skip \in {Discarded(text, fromTail, onBoundary)} :
       \E lines \in {Lines(SubSeq(text, skip + 1, LastNewline(text)))} :
          /\ IF \E l \in lines : Decoded(l) = {}
             THEN Fail(s)
             ELSE /\ Becomes(s, "read")
                  /\ next' = [next EXCEPT ![s] =
                        [offset |-> NextOffset(start, text), head |-> head]]
                  /\ records' = [records EXCEPT ![s] = UNION {Decoded(l) : l \in lines}]
                  /\ UNCHANGED <<seen, scan>>
          /\ excused' = IF fromTail
                        THEN [excused EXCEPT ![s] =
                                @ \cup StartedBefore(Transcript(s), start + skip)]
                        ELSE excused
    /\ UNCHANGED <<watching, agentVars, store, crashes, histVars>>

ReadText(s) ==
    /\ phase[s] = "sampled"
    /\ \E start \in {StartOf(Own(s), scan[s].size, scan[s].head)} :
       \E text \in {Window(file[s], start, scan[s].size)} :
          IF StartsFromTail(Own(s), start)
          THEN /\ Becomes(s, "window")
               /\ scan' = [scan EXCEPT ![s] = [head |-> @.head, start |-> start, text |-> text]]
               /\ UNCHANGED <<watching, agentVars, store, seen, next, records, crashes,
                              histVars, excused>>
          ELSE Decode(s, text, start, scan[s].head, FALSE, FALSE)

\* readByteAt: does the window start on a line?
ReadBoundary(s) ==
    /\ phase[s] = "window"
    /\ \E onBoundary \in {scan[s].start <= Len(file[s]) /\ file[s][scan[s].start] = NL} :
          Decode(s, scan[s].text, scan[s].start, scan[s].head, TRUE, onBoundary)

ReadSession(s) ==
    /\ phase[s] = "loaded"
    /\ Becomes(s, "session")
    /\ scan' = [scan EXCEPT ![s] = {<<0, 1, table[SessionKey]>>}]
    /\ UNCHANGED <<watching, agentVars, store, seen, next, records, crashes, histVars,
                   excused>>

VersionsOf(rank) == {v \in Versions : v[1] = rank}

ReadMessages(s) ==
    /\ phase[s] = "session"
    /\ Becomes(s, "messages")
    /\ scan' = [scan EXCEPT ![s] = @ \cup VersionsOf(1)]
    /\ UNCHANGED <<watching, agentVars, store, seen, next, records, crashes, histVars,
                   excused>>

SessionRead(s) == CHOOSE v \in scan[s] : v[1] = 0

ReadParts(s) ==
    /\ phase[s] = "messages"
    /\ Becomes(s, "read")
    /\ \E read \in {scan[s] \cup VersionsOf(2)} :
       \E fresh \in {Rows!Fresh(Own(s), SessionRead(s), read)} :
          /\ records' = [records EXCEPT ![s] = fresh]
          /\ next' = [next EXCEPT ![s] = Rows!Advanced(Own(s), SessionRead(s), read, fresh)]
    /\ UNCHANGED <<watching, agentVars, store, seen, scan, crashes, histVars, excused>>

\* saveAll opens the file, which empties it, and then writes it.
Truncate(s) ==
    /\ phase[s] = "read"
    /\ Becomes(s, "truncated")
    /\ store' = <<>>
    /\ UNCHANGED <<watching, agentVars, seen, scan, next, records, crashes, histVars,
                   excused>>

\* All checkpoints that were loaded, with the source's own brought up to date.
Merged(s) == [q \in DOMAIN seen[s] \cup {s} |-> IF q = s THEN next[s] ELSE seen[s][q]]

\* What becomes of a file that another poller wrote to since it was emptied, when
\* lines are written over it: it may stick out at the end, in the middle of a line
\* or with whole lines, of which the later ones win.
WrittenOver(lines) ==
    {lines} \cup (IF store = <<>> THEN {} ELSE {Torn})
            \cup (IF store \in {<<>>, Torn} THEN {} ELSE
                    {[q \in DOMAIN lines \cup left |->
                         IF q \in left THEN store[q] ELSE lines[q]] :
                       left \in SUBSET DOMAIN store})

Write(s) ==
    /\ phase[s] = "truncated"
    /\ Becomes(s, "saved")
    /\ store' \in WrittenOver(Merged(s))
    /\ UNCHANGED <<watching, agentVars, seen, scan, next, records, crashes, histVars,
                   excused>>

HandOver(s) ==
    /\ phase[s] = "saved"
    /\ Becomes(s, "idle")
    /\ once' = [once EXCEPT ![s] = @ \cup records[s]]
    /\ last' = [last EXCEPT ![s] = next[s]]
    /\ Forget(s)
    /\ UNCHANGED <<watching, agentVars, store, crashes, dropped, excused>>

\* A poller dies.  What it was writing is there in part; what it has saved but
\* not handed over is lost.
Crash(s) ==
    /\ phase[s] \notin {"idle", "dead"}
    /\ crashes < MaxCrashes
    /\ crashes' = crashes + 1
    /\ store' \in {store} \cup
          (IF phase[s] = "truncated"
           THEN {Torn} \cup UNION {WrittenOver([q \in D |-> Merged(s)[q]]) :
                                     D \in SUBSET DOMAIN Merged(s)}
           ELSE {})
    /\ dropped' = IF phase[s] = "saved" \/ (phase[s] = "truncated" /\ store' # store)
                  THEN [dropped EXCEPT ![s] = @ \cup records[s]] ELSE dropped
    /\ Fail(s)
    /\ UNCHANGED <<watching, agentVars, once, last, excused>>

WatchAgain(s) ==
    /\ phase[s] = "dead"
    /\ Becomes(s, "idle")
    /\ UNCHANGED <<watching, agentVars, store, seen, scan, next, records, crashes,
                   histVars, excused>>

Step(s) ==
    \/ Load(s) \/ Truncate(s) \/ Write(s) \/ HandOver(s) \/ WatchAgain(s)
    \/ s \in JsonlSources /\ (Stat(s) \/ Sample(s) \/ ReadText(s) \/ ReadBoundary(s))
    \/ s \in RowSources /\ (ReadSession(s) \/ ReadMessages(s) \/ ReadParts(s))

Next ==
    \/ Agents
    \/ \E s \in watching : Step(s) \/ Crash(s)

Spec == Init /\ [][Next]_vars /\ \A s \in Sources : WF_vars(s \in watching /\ Step(s))
-----------------------------------------------------------------------------
(* Properties *)

\* As far as a source's file ever gets.
Reach(s) == Max({Len(Text(p)) : p \in Range(Plans[s])})

IsCursor(s, c) ==
    IF s \in JsonlSources
    THEN /\ c.offset \in 0..Reach(s)
         /\ c.head # NoHead => Len(c.head) <= HeadSample
    ELSE /\ c.time \in 0..MaxTime
         /\ c.key \in RowIds \cup {SessionKey, Rows!NoKey}
Checkpoints(c) ==
    /\ DOMAIN c \subseteq Sources
    /\ \A s \in DOMAIN c : IsCursor(s, c[s])

TypeOK ==
    /\ watching \in Watched
    /\ store = Torn \/ Checkpoints(store)
    /\ \A s \in Sources :
          /\ phase[s] \in {"idle", "loaded", "stated", "sampled", "window", "session",
                           "messages", "read", "truncated", "saved", "dead"}
          /\ Checkpoints(seen[s])
          /\ IsCursor(s, next[s])
          /\ phase[s] \in {"idle", "dead"} => seen[s] = <<>> /\ records[s] = {}

\* What the source was given, will be given, lost in a crash, or may miss.
Accounted(s) ==
    once[s] \cup dropped[s] \cup excused[s] \cup (IF phase[s] = "saved" THEN records[s] ELSE {})

\* No complete record lies before a saved cursor of its file without having been
\* handed over, whatever is appended, however the file is replaced between two
\* accesses, and whichever poller saves last.  The exceptions are the ones the
\* reader has: what a first read starts behind, what a rewrite puts before a
\* cursor whose head sample does not tell the files apart, and what a crash
\* between saving and handing over loses.
NothingSkipped ==
    \A s \in watching \cap JsonlSources :
        LET c == Cursor(IF store = Torn THEN <<>> ELSE store, s)
        IN  c.head \in {NoHead, HeadOf(file[s], Len(file[s]))} =>
              \A i \in 1..Cardinality({j \in Newlines(file[s]) : j <= c.offset}) :
                  Transcript(s)[i] \in Accounted(s)

\* A row that a saved cursor leaves behind was handed over, unless it was stored
\* at the very time of the cursor under a smaller key, or between the queries of
\* a poll: the keys, and reading at or after the watermark, make up for all
\* other rows that share a time.
RowsSkippedOnlyIfLate ==
    \A s \in watching \cap RowSources :
        LET c == Cursor(IF store = Torn THEN <<>> ELSE store, s)
        IN  \A v \in Versions : Rows!Behind(c, v) => v \in Accounted(s)

\* A poll did not start where the last one ended: another source or a crash took
\* its checkpoint back.
StartedElsewhere(s) == Own(s) # last[s]

\* A poll found its file rewritten or shorter, or its session older than its cursor.
StartedOver(s) ==
    \/ /\ s \in JsonlSources /\ Own(s).offset > 0
       /\ StartOf(Own(s), scan[s].size, scan[s].head) = 0
    \/ s \in RowSources /\ Rows!Replays(Own(s), SessionRead(s))

\* A record that an agent writes at two places.
WrittenTwice(s, r) ==
    \E g, h \in DOMAIN Plans[s] : \E i \in DOMAIN Plans[s][g], j \in DOMAIN Plans[s][h] :
        <<g, i>> # <<h, j>> /\ Plans[s][g][i] = r /\ Plans[s][h][j] = r

\* A record whose line has more bytes than its text has units.
IsWide(r) == Range(Line(r)) \cap Continuation # {}

\* A record that comes after a wide one: offsets between them fall short.
ComesAfterWide(s, r) ==
    \E g \in DOMAIN Plans[s] : \E j \in DOMAIN Plans[s][g] : \E i \in 1..(j - 1) :
        Plans[s][g][j] = r /\ IsWide(Plans[s][g][i])

\* A record is handed over twice only by a poll that did not start where the last
\* one ended or that started over, unless it is written twice, the reader cannot
\* count the bytes before it, or its row is sorted and filtered differently.
RepeatsExplained ==
    [][\A s \in Sources :
          phase[s] = "saved" /\ phase'[s] = "idle" =>
              \A r \in records[s] \cap once[s] :
                  \/ StartedElsewhere(s) \/ StartedOver(s)
                  \/ s \in JsonlSources /\ (WrittenTwice(s, r) \/ ComesAfterWide(s, r))
                  \/ s \in RowSources /\ Rows!Misplaced(Own(s), r)]_vars

\* The next poll of a source cannot decode what it finds: a line that is malformed,
\* or the rest of one that its cursor lies in.
IsStuck(s) ==
    /\ s \in JsonlSources
    /\ \E cursor \in {Cursor(store, s)} :
       \E start \in {StartOf(cursor, Len(file[s]), HeadOf(file[s], Len(file[s])))} :
       \E unread \in {Window(file[s], start, Len(file[s]))} :
          \/ \E r \in Malformed : Line(r) \in Lines(unread)
          \/ /\ start > 0 /\ ~StartsFromTail(cursor, start) /\ unread # <<>>
             /\ file[s][start] # NL /\ unread[1] # NL

\* In the end every complete record and every row is handed over, but for the
\* exceptions above: neither races with agents and other pollers nor deaths stop a
\* source for good.  A torn checkpoint file does, and so does a line that does not
\* decode.
IsThere(s) == IF s \in JsonlSources THEN Complete(s) ELSE Versions

CatchesUp ==
    \A s \in Sources :
        <>[](s \in watching /\ store # Torn =>
                IsThere(s) \subseteq Accounted(s) \/ IsStuck(s))

\* A cursor lies in the middle of a line only after a first read that ended before
\* a line it began in: that of a record longer than initialReadMaxBytes.  For
\* transcripts in ASCII that were not rewritten.
CursorsBeginLines ==
    \A s \in watching \cap JsonlSources :
        LET text == Text(Transcript(s))
            c == Cursor(IF store = Torn THEN <<>> ELSE store, s)
        IN  gen[s] = 1 /\ c.offset > 0 /\ (\A r \in Range(Transcript(s)) : ~IsWide(r)) =>
              \/ text[c.offset] = NL
              \/ \E r \in Range(Transcript(s)) :
                    Width[r] > InitialReadMax /\ text[c.offset] \in Range(Line(r))

\* A saved offset is the place after a line (`returns the next stable cursor`).
CursorsAreStable ==
    \A s \in watching \cap JsonlSources :
        LET c == Cursor(IF store = Torn THEN <<>> ELSE store, s)
        IN  gen[s] = 1 /\ c.offset > 0 => file[s][c.offset] = NL
==============================================================================
