------------------------------- MODULE Spool -------------------------------
(***************************************************************************)
(* The on-disk buffer of the Argus agent (internal/agent/buffer.go) as the *)
(* value its methods read and write.                                       *)
(*                                                                         *)
(* A spool directory is a function from file names to the batches stored   *)
(* in them.  A file name is the number it is zero-padded from, so that the *)
(* code's string order (sort.Strings over names of equal width) is the     *)
(* order of the numbers.  The operators below are the decisions of the     *)
(* methods; the client that calls them, one file operation per step, is    *)
(* module AgentClient.                                                     *)
(*                                                                         *)
(* A definition marked "Faulty", here and in the other modules, is what    *)
(* the one below it would be with a plausible bug.  None is part of the    *)
(* model: each shows that some property tells the two apart.               *)
(***************************************************************************)
EXTENDS Naturals, FiniteSetsExt

CONSTANTS
  Batch,      \* the telemetry batches an agent may hold, each with its own id
  Weight,     \* the size in bytes of the file a batch is written to
  MaxBytes,   \* ARGUS_BUFFER_MAX_BYTES
  MaxName     \* the largest number that fits in bufferNameWidth digits

ASSUME SpoolAssumption ==
  /\ Weight \in [Batch -> Nat \ {0}]
  /\ MaxBytes \in Nat \ {0}
  /\ MaxName \in Nat \ {0}

\* batchName: only a name of exactly bufferNameWidth digits is a batch file.
Name == 1..MaxName

\* Every directory a spool can be in.
Directory == UNION {[names -> Batch] : names \in SUBSET Name}

EmptyDirectory == [n \in {} |-> n]

\* names()[0] and names()[len-1], for a directory that holds a file.
Oldest(dir) == Min(DOMAIN dir)
Newest(dir) == Max(DOMAIN dir)

Stored(dir) == {dir[n] : n \in DOMAIN dir}

\* Remove: the file is gone; removing an absent one is no error.
Without(dir, name) == [n \in DOMAIN dir \ {name} |-> dir[n]]

\* used: the bytes of the batch files; no other file is counted.
Used(dir) == MapThenSumSet(LAMBDA n : Weight[dir[n]], DOMAIN dir)

\* Put: a batch larger than the whole limit is refused before anything is
\* dropped.
TooLarge(b) == Weight[b] > MaxBytes

\* Faulty: the incoming bytes are left out of the condition.
NoRoomLeft(dir, b) == dir # EmptyDirectory /\ Used(dir) > MaxBytes

\* makeRoom: the loop condition under which the oldest file is dropped.
NoRoomFor(dir, b) == dir # EmptyDirectory /\ Used(dir) + Weight[b] > MaxBytes

\* Faulty: the files are counted instead.
NextByCount(dir) == Cardinality(DOMAIN dir) + 1

\* Put: one more than the newest name, or 1 in an empty directory.
NextName(dir) == IF DOMAIN dir = {} THEN 1 ELSE Newest(dir) + 1

\* Put's rename.  A name wider than bufferNameWidth is no batch file to any
\* later names(), so the batch written under it is not in the spool.
With(dir, b) ==
  IF NextName(dir) \in Name
  THEN [n \in DOMAIN dir \cup {NextName(dir)} |->
          IF n = NextName(dir) THEN b ELSE dir[n]]
  ELSE dir
=============================================================================
