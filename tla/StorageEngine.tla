---------------------------- MODULE StorageEngine ----------------------------
(***************************************************************************)
(* class StorageEngine (src/storage_engine.cc): the handle of the LevelDB  *)
(* database in ./db.  LevelDB itself is external: a map that survives the  *)
(* process, opened and closed through a handle, whose writes may fail.     *)
(*                                                                         *)
(* A method is an operator on the engine's variables; module Commands says *)
(* when it is called.  FlushAll is cut at its shell command, another       *)
(* process: rm may fail, and may outlive the server that waits for it.     *)
(* What LevelDB finds in a directory that was removed in part is not       *)
(* known: here any contents.                                               *)
(***************************************************************************)
EXTENDS Naturals, Sequences, FiniteSets

CONSTANTS
  Keys, Values,
  NoValue,       \* a key that is not there
  SameDir,       \* is ./db the directory that DB_Delete_Sentence removes?
  Failures       \* what may fail: "put", "get" and "open" (LevelDB), "fork" (system),
                 \* "rm" (the command that the shell runs, or the shell itself)

ASSUME StorageAssumption ==
  /\ NoValue \notin Values
  /\ SameDir \in BOOLEAN
  /\ Failures \subseteq {"put", "get", "open", "fork", "rm"}

VARIABLES
  db,            \* what is stored in ./db
  files,         \* the files of ./db: "whole"; "shell": a shell whose server is dead
                 \* removes them; "torn": no shell runs, but some may be gone
  is_open_,
  leveldb_       \* "null", "open", or "deleted": a dangling pointer

storageVars == <<db, files, is_open_, leveldb_>>

Contents == [Keys -> Values \cup {NoValue}]
NoEntries == [k \in Keys |-> NoValue]
Present == {k \in Keys : db[k] # NoValue}

StorageInit ==
  /\ db = NoEntries
  /\ files = "whole"
  /\ is_open_ = FALSE
  /\ leveldb_ = "null"

\* Open.  The status of LevelDB is not looked at.  Files of which some are gone
\* may not open; what is read from them when they do is what stays.
Open ==
  /\ ~is_open_
  /\ is_open_' = TRUE
  /\ leveldb_' \in {"open"} \cup
       IF "open" \in Failures \/ files # "whole" THEN {"null"} ELSE {}
  /\ files' = IF files = "torn" /\ leveldb_' = "open" THEN "whole" ELSE files
  /\ UNCHANGED db

\* Close.  To delete a dangling pointer is undefined: see module Commands.
Close ==
  /\ is_open_
  /\ is_open_' = FALSE
  /\ leveldb_' = "null"
  /\ UNCHANGED <<db, files>>

\* Set and Delete.
Put(k, v) ==
  /\ db' = [db EXCEPT ![k] = v]
  /\ UNCHANGED <<files, is_open_, leveldb_>>

PutFails ==
  /\ "put" \in Failures
  /\ UNCHANGED storageVars

\* FlushAll up to the shell command.  To delete null does nothing.
FlushDelete ==
  /\ is_open_
  /\ leveldb_' = IF leveldb_ = "null" THEN "null" ELSE "deleted"
  /\ UNCHANGED <<db, files, is_open_>>

\* What a shell leaves, unless another is still at it.
AfterShell(left) == IF files = "shell" THEN "shell" ELSE left

\* Mutant: is_open_ is not reset.
RemoveKeepsOpen == db' = NoEntries /\ UNCHANGED <<files, is_open_, leveldb_>>

\* The shell has ended, and FlushAll is about to open the database again: only a
\* shell that could not be started counts as a failure.
FlushRemove ==
  /\ is_open_' = FALSE
  /\ UNCHANGED leveldb_
  /\ \/ ~SameDir /\ UNCHANGED <<db, files>>
     \/ SameDir /\ db' = NoEntries /\ files' = AfterShell("whole")
     \/ SameDir /\ "rm" \in Failures /\ db' \in Contents /\ files' = AfterShell("torn")

\* No shell was started: FlushAll returns with the handle deleted.
FlushNoShell ==
  /\ "fork" \in Failures
  /\ UNCHANGED storageVars

\* The process ends while it waits for its shell, which goes on or ends with it.
AbandonShell ==
  /\ SameDir
  /\ files' \in {"shell", "torn"}

\* The abandoned shell removes files, or files that it removed are missed.
Erode ==
  /\ files # "whole"
  /\ db' \in Contents
  /\ UNCHANGED <<files, is_open_, leveldb_>>

ShellEnds ==
  /\ files = "shell"
  /\ files' = "torn"
  /\ UNCHANGED <<db, is_open_, leveldb_>>

\* The end of the process and, at the next start, Init.
Lose ==
  /\ is_open_' = FALSE
  /\ leveldb_' = "null"

StorageTypeOK ==
  /\ db \in Contents
  /\ files \in {"whole", "shell", "torn"}
  /\ is_open_ \in BOOLEAN
  /\ leveldb_ \in {"null", "open", "deleted"}
=============================================================================
