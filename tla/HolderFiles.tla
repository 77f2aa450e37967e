---------------------------- MODULE HolderFiles ----------------------------
(***************************************************************************)
(* The file-system lock backing: one lock file per holder of a key, with   *)
(* an expiry, and the operations tryAcquire, refresh, release and          *)
(* forceRevoke as they appear to the other processes of the machine: cut   *)
(* at every file access.                                                   *)
(*                                                                         *)
(* One key is modelled, keys do not interact.  Every caller in the         *)
(* repository takes one permit under a fresh holder identifier, so a file  *)
(* is its expiry, and its owner never finds a file of its own when it      *)
(* acquires.  Time is relative: a file carries the ticks left to its       *)
(* expiry, an operation the ticks since it took `now`.                     *)
(***************************************************************************)
EXTENDS Integers, FiniteSets, FiniteSetsExt

CONSTANTS
    Holders,   \* one per acquisition: holder identifiers are random UUIDs
    Limit,     \* permits of the key
    Ttl,       \* ticks a written file lives
    MaxLag,    \* bound: ticks an operation may be under way
    NoFile, NoHolder

ASSUME FilesAssumption ==
    /\ IsFiniteSet(Holders) /\ NoHolder \notin Holders
    /\ Limit \in Nat \ {0} /\ Ttl \in Nat \ {0} /\ MaxLag \in Nat
    /\ NoFile \notin Int

VARIABLES
    lock,      \* ticks to the expiry of each holder's file, or NoFile
    op,        \* the file operation each holder is in the middle of
    age,       \* ticks since that operation took `now`
    listed,    \* tryAcquire: the files it has listed and not read yet
    counted,   \* tryAcquire: the holders whose permits it has counted
    stale      \* tryAcquire: the expired file it is about to remove

scanVars == <<listed, counted, stale>>
files == <<lock, op, age, scanVars>>

\* "write": the file has been read, the rename of the new one is to come.
Ops == {"none", "scan", "clear", "write"}

Live(h) == lock[h] # NoFile /\ lock[h] > 0

\* Mutant: a file is dropped one tick before it expires.
ExpiresEarly(g, lag) == lock[g] + lag <= 1

\* Mutant: files do not expire.
ExpiresNever(g, lag) == FALSE

\* expiresAt <= now, for an operation that took `now` `lag` ticks ago.
Expired(g, lag) == lock[g] + lag <= 0

FilesInit ==
    /\ lock = [h \in Holders |-> NoFile]
    /\ op = [h \in Holders |-> "none"]
    /\ age = [h \in Holders |-> 0]
    /\ listed = [h \in Holders |-> {}]
    /\ counted = [h \in Holders |-> {}]
    /\ stale = [h \in Holders |-> NoHolder]

FilesTypeOK ==
    /\ lock \in [Holders -> Int \cup {NoFile}]
    /\ op \in [Holders -> Ops]
    /\ age \in [Holders -> 0..MaxLag]
    /\ listed \in [Holders -> SUBSET Holders]
    /\ counted \in [Holders -> SUBSET Holders]
    /\ stale \in [Holders -> Holders \cup {NoHolder}]

----------------------------------------------------------------------------

\* The local variables of h's operation go out of scope.
Returns(h, next) ==
    /\ op' = [op EXCEPT ![h] = next]
    /\ age' = [age EXCEPT ![h] = 0]
    /\ listed' = [listed EXCEPT ![h] = {}]
    /\ counted' = [counted EXCEPT ![h] = {}]
    /\ stale' = [stale EXCEPT ![h] = NoHolder]

\* tryAcquire: take `now` and list the key's directory.
ListFiles(h) ==
    /\ op[h] = "none"
    /\ op' = [op EXCEPT ![h] = "scan"]
    /\ age' = [age EXCEPT ![h] = 0]
    /\ listed' = [listed EXCEPT ![h] = {g \in Holders : lock[g] # NoFile}]
    /\ UNCHANGED <<lock, counted, stale>>

\* countActivePermits: read one listed file; it may be gone, or expired.
ReadFile(h, g) ==
    /\ op[h] = "scan" /\ g \in listed[h]
    /\ listed' = [listed EXCEPT ![h] = @ \ {g}]
    /\ IF lock[g] # NoFile /\ Expired(g, age[h])
       THEN /\ op' = [op EXCEPT ![h] = "clear"]
            /\ stale' = [stale EXCEPT ![h] = g]
            /\ UNCHANGED counted
       ELSE /\ counted' = [counted EXCEPT ![h] =
                              IF lock[g] = NoFile THEN @ ELSE @ \cup {g}]
            /\ UNCHANGED <<op, stale>>
    /\ UNCHANGED <<lock, age>>

\* readHolderLock's clean-up removes whatever is in the file by now.
ClearStale(h) ==
    /\ op[h] = "clear"
    /\ lock' = [lock EXCEPT ![stale[h]] = NoFile]
    /\ op' = [op EXCEPT ![h] = "scan"]
    /\ stale' = [stale EXCEPT ![h] = NoHolder]
    /\ UNCHANGED <<age, listed, counted>>

Scanned(h) == op[h] = "scan" /\ listed[h] = {}

\* Mutant: the limit is compared with the others' permits alone.
FitsWithoutOwn(h) == Cardinality(counted[h] \ {h}) <= Limit

\* othersPermits + permits > limit, the other way round.
Fits(h) == Cardinality(counted[h] \ {h}) + 1 <= Limit

Refuse(h) ==
    /\ Scanned(h) /\ ~Fits(h)
    /\ Returns(h, "none")
    /\ UNCHANGED lock

\* The rename that ends tryAcquire: the expiry counts from the `now` it began with.
Publish(h) ==
    /\ Scanned(h) /\ Fits(h)
    /\ lock' = [lock EXCEPT ![h] = Ttl - age[h]]
    /\ Returns(h, "none")

\* The rename has been issued when the caller is interrupted: it stays under way.
IssueRename(h) ==
    /\ Scanned(h) /\ Fits(h)
    /\ op' = [op EXCEPT ![h] = "write"]
    /\ counted' = [counted EXCEPT ![h] = {}]
    /\ UNCHANGED <<age, listed, stale>>

\* Mutant: a missing file is written again.
FindAny(h) == Live(h) \/ lock[h] = NoFile

\* refresh reads the holder's own file ...
Find(h) == Live(h)

ReadOwn(h) ==
    /\ op[h] = "none" /\ Find(h)
    /\ op' = [op EXCEPT ![h] = "write"]
    /\ age' = [age EXCEPT ![h] = 0]
    /\ UNCHANGED <<lock, scanVars>>

\* ... which is missing, or expired and removed,
MissOwn(h) ==
    /\ op[h] = "none" /\ ~Find(h)
    /\ lock' = [lock EXCEPT ![h] = NoFile]
    /\ UNCHANGED <<op, age, scanVars>>

\* ... or replaces it, whatever has happened to it since.
WriteOwn(h) ==
    /\ op[h] = "write"
    /\ lock' = [lock EXCEPT ![h] = Ttl - age[h]]
    /\ Returns(h, "none")

\* release and forceRevoke: read, then remove.
RemoveFile(h) ==
    /\ lock' = [lock EXCEPT ![h] = NoFile]
    /\ UNCHANGED <<op, age, scanVars>>

\* Operations under way keep their `now`; nothing past the reach of MaxLag matters.
PassTime ==
    /\ \A h \in Holders : op[h] # "none" => age[h] < MaxLag
    /\ age' = [h \in Holders |-> IF op[h] = "none" THEN 0 ELSE age[h] + 1]
    /\ lock' = [h \in Holders |->
                  IF lock[h] = NoFile \/ lock[h] <= -MaxLag THEN lock[h]
                  ELSE lock[h] - 1]
    /\ UNCHANGED <<op, scanVars>>
=============================================================================
