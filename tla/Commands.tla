------------------------------- MODULE Commands -------------------------------
(***************************************************************************)
(* The commands (src/kv_command.cc) on the storage engine, from the start  *)
(* of the process (main) to its end or a crash, and the next start.        *)
(*                                                                         *)
(* Connections are one to the thread that runs the commands, so there is   *)
(* one request at a time: argv, of which argv[1] is the name of the        *)
(* command in lower case (orderTolower ran).  A reply is a sequence of     *)
(* items, each one line or bulk string of the protocol; an item "line" is  *)
(* a line that begins like none.                                           *)
(***************************************************************************)
EXTENDS StorageEngine

CONSTANTS
  Requests,      \* the requests clients may send: argument vectors
  Connections,   \* how many connections there may be
  MultiLine,     \* the values that contain a CR or LF
  MaxCrashes     \* bound: crashes of the process

ASSUME CommandsAssumption ==
  /\ \A a \in Requests : Len(a) > 0
  /\ Connections \subseteq Nat \ {0}
  /\ MultiLine \subseteq Values
  /\ MaxCrashes \in Nat

VARIABLES
  pc,            \* where the thread is
  argv,
  i,             \* MSET: the index of the next key
  reply,
  keepRunning,
  crashes,       \* how often the process crashed
  failed,        \* history: a database that could not be opened or removed
  possible       \* history: what a client must expect each key to hold

requestVars == <<argv, i, reply>>
historyVars == <<failed, possible>>
vars == <<storageVars, pc, requestVars, keepRunning, crashes, historyVars>>

-----------------------------------------------------------------------------
\* redisCommandTable: the least number of arguments, the name included.
parameter_num ==
  [ set |-> 3, get |-> 2, delete |-> 1, flushall |-> 1, exit |-> 1, shutdown |-> 1,
    error |-> 1, command |-> 1, mset |-> 1, mget |-> 2, keys |-> 2, client |-> 2,
    infor |-> 1, dbsize |-> 1 ]

\* Mutant: one argument too few is let through.
lookupOneLess(a) ==
  IF a[1] \in DOMAIN parameter_num /\ Len(a) + 1 >= parameter_num[a[1]]
    THEN a[1] ELSE "error"

lookupCommand(a) ==
  IF a[1] \in DOMAIN parameter_num /\ Len(a) >= parameter_num[a[1]]
    THEN a[1] ELSE "error"

\* Only the declared keys and values occur in requests.
ASSUME RequestsAssumption ==
  \A a \in Requests :
    /\ Len(a) \in Nat
    /\ lookupCommand(a) \in {"set", "get", "delete"} /\ Len(a) > 1 => a[2] \in Keys
    /\ lookupCommand(a) = "set" /\ Len(a) > 2 => a[3] \in Values
    /\ lookupCommand(a) = "mset" =>
         \A n \in 2..Len(a) : a[n] \in IF n % 2 = 0 THEN Keys ELSE Values
    /\ lookupCommand(a) = "mget" => \A n \in 2..Len(a) : a[n] \in Keys

\* The highest index of argv that the step of a command reads.
Reads(name) ==
  CASE name = "set" -> 3
    [] name \in {"get", "delete", "keys", "client"} -> 2
    [] name = "mset" /\ i <= Len(argv) -> i + 1
    [] OTHER -> Len(argv)

UsesStore == {"set", "mset", "get", "mget", "keys", "delete", "dbsize"}

\* May the step use the handle as it is?  FLUSHALL deletes it.
HandleFits(name) ==
  \/ leveldb_ = "open"
  \/ name \notin UsesStore /\ (name = "flushall" => leveldb_ = "null")
  \/ name = "mset" /\ i > Len(argv)
  \/ name = "keys" /\ argv[2] # "*"

-----------------------------------------------------------------------------
Item(type, value) == [type |-> type, value |-> value]
Ok    == Item("status", "OK")
Error == Item("error", "ERR")
Bulk(v) == IF v = NoValue THEN Item("nil", v) ELSE Item("bulk", v)
Array(n) == Item("array", n)

\* What Get finds for the key argv[n]; an error of LevelDB is taken for a key
\* that is not there.  lost are the positions of the keys it cannot read.
Get(n, lost) == IF n \in lost THEN NoValue ELSE db[argv[n]]
Lost == IF "get" \in Failures THEN SUBSET (2..Len(argv)) ELSE {{}}

\* A value is written as it is after "+": what follows a line break in it is no
\* part of the simple string.
Simple(v) ==
  IF v \in MultiLine THEN <<Item("status", v), Item("line", v)>> ELSE <<Item("status", v)>>

GetReply(lost) ==
  IF Get(2, lost) = NoValue THEN <<Bulk(NoValue)>> ELSE Simple(Get(2, lost))

\* The lines of INFOR after its first, of which one stands for all.
InforReply == <<Item("status", "infor"), Item("line", "infor")>>

\* Mutant: the header counts the name of the command.
MgetReplyOneMore(lost) ==
  [n \in 1..Len(argv) |-> IF n = 1 THEN Array(Len(argv)) ELSE Bulk(Get(n, lost))]

MgetReply(lost) ==
  [n \in 1..Len(argv) |-> IF n = 1 THEN Array(Len(argv) - 1) ELSE Bulk(Get(n, lost))]

\* The keys in the order of the iterator, here any.
KeysReply ==
  { [n \in 1..(Cardinality(Present) + 1) |->
       IF n = 1 THEN Array(Cardinality(Present)) ELSE Item("bulk", s[n - 1])] :
    s \in { s \in [1..Cardinality(Present) -> Present] :
             \A k \in Present : \E n \in DOMAIN s : s[n] = k } }

\* The header of CLIENT LIST follows what it heads.
ClientReply(n) ==
  [k \in 1..(n + 1) |-> IF k <= n THEN Item("bulk", k) ELSE Array(n)]

-----------------------------------------------------------------------------
(***************************************************************************)
(* What a client may expect of a key: while a request that writes it is    *)
(* not answered, or was answered with an error, both values; after OK the  *)
(* new one; after a read what was read, but for a nil if reads may fail.   *)
(* Of files that were removed in part nothing is to be expected: who opens *)
(* them may find anything, and goes on from there.                         *)
(***************************************************************************)
Pairs(a) == { n \in 2..(Len(a) - 1) : n % 2 = 0 }

WritesOf(a, k) == { v \in Values \cup {NoValue} :
  \/ lookupCommand(a) = "set" /\ Len(a) > 2 /\ a[2] = k /\ v = a[3]
  \/ lookupCommand(a) = "mset" /\ \E n \in Pairs(a) : a[n] = k /\ v = a[n + 1]
  \/ lookupCommand(a) = "delete" /\ Len(a) > 1 /\ a[2] = k /\ v = NoValue
  \/ lookupCommand(a) = "flushall" /\ v = NoValue }

\* What stands when all of a request is done: the last pair of MSET counts.
LastWrite(a, k) == { v \in WritesOf(a, k) :
  lookupCommand(a) = "mset" =>
    \E n \in Pairs(a) : /\ a[n] = k /\ v = a[n + 1]
                        /\ \A m \in Pairs(a) : m > n => a[m] # k }

Expected(a) ==
  [k \in Keys |-> IF WritesOf(a, k) = {} THEN possible[k] ELSE LastWrite(a, k)]

Reckoned(expected) ==
  IF files = "whole" THEN expected ELSE [k \in Keys |-> Values \cup {NoValue}]

\* What the reply r says of a key.
Told(r, k) ==
  { r[n].value : n \in { n \in DOMAIN r :
      /\ \/ lookupCommand(argv) = "get" /\ n = 1 /\ argv[2] = k
         \/ lookupCommand(argv) = "mget" /\ n > 1 /\ argv[n] = k
      /\ "get" \in Failures => r[n].value # NoValue } }

-----------------------------------------------------------------------------
Init ==
  /\ StorageInit
  /\ pc = "down"
  /\ argv = <<>> /\ i = 2 /\ reply = <<>>
  /\ keepRunning = TRUE
  /\ crashes = 0
  /\ failed = FALSE
  /\ possible = [k \in Keys |-> {NoValue}]

\* main: the loop starts whatever became of the database.
Start ==
  /\ pc \in {"down", "exited"}
  /\ Open
  /\ pc' = "loop"
  /\ keepRunning' = TRUE
  /\ failed' = (leveldb_' = "null")
  /\ possible' = Reckoned(possible)
  /\ UNCHANGED <<requestVars, crashes>>

\* GetRequest.  After a shutdown, requests that were read run all the same.
GetRequest(a) ==
  /\ pc = "loop"
  /\ argv' = a
  /\ i' = 2
  /\ reply' = <<>>
  /\ pc' = "run"
  /\ possible' = [k \in Keys |-> possible[k] \cup WritesOf(a, k)]
  /\ UNCHANGED <<storageVars, keepRunning, crashes, failed>>

Running(name) ==
  /\ pc = "run"
  /\ lookupCommand(argv) = name
  /\ Reads(name) <= Len(argv)
  /\ HandleFits(name)

Answer(r) ==
  /\ reply' = r
  /\ pc' = "loop"
  /\ UNCHANGED <<argv, i, crashes>>

\* An index beyond argv, or a handle that is null or deleted.
BadAccess ==
  /\ pc = "run"
  /\ \/ Reads(lookupCommand(argv)) > Len(argv) /\ pc' = "oob"
     \/ /\ Reads(lookupCommand(argv)) <= Len(argv)
        /\ ~HandleFits(lookupCommand(argv))
        /\ pc' = "badhandle"
  /\ UNCHANGED <<storageVars, requestVars, keepRunning, crashes, historyVars>>

\* SET and DELETE.
WriteOne(name, value) ==
  /\ Running(name)
  /\ \/ Put(argv[2], value) /\ Answer(<<Ok>>) /\ possible' = Expected(argv)
     \/ PutFails /\ Answer(<<Error>>) /\ UNCHANGED possible
  /\ UNCHANGED <<keepRunning, failed>>

SetCommand == WriteOne("set", argv[3])
DeleteCommand == WriteOne("delete", NoValue)

\* One iteration of the loop of MSET.
MsetPair ==
  /\ Running("mset")
  /\ i <= Len(argv)
  /\ \/ /\ Put(argv[i], argv[i + 1])
        /\ i' = i + 2
        /\ UNCHANGED <<pc, argv, reply, crashes>>
     \/ PutFails /\ Answer(<<Error>>)
  /\ UNCHANGED <<keepRunning, historyVars>>

\* Mutant: OK although a pair was not written.
MsetAlwaysOk ==
  /\ Running("mset")
  /\ Answer(<<Ok>>)
  /\ possible' = Expected(argv)
  /\ UNCHANGED <<storageVars, keepRunning, failed>>

MsetEnd ==
  /\ Running("mset")
  /\ i > Len(argv)
  /\ Answer(<<Ok>>)
  /\ possible' = Expected(argv)
  /\ UNCHANGED <<storageVars, keepRunning, failed>>

\* GET and MGET.
ReadCommand(name, r) ==
  /\ Running(name)
  /\ Answer(r)
  /\ possible' = [k \in Keys |-> IF Told(r, k) = {} THEN possible[k] ELSE Told(r, k)]
  /\ UNCHANGED <<storageVars, keepRunning, failed>>

GetCommand == \E lost \in Lost : ReadCommand("get", GetReply(lost))
MgetCommand == \E lost \in Lost : ReadCommand("mget", MgetReply(lost))

\* Commands that change nothing.  KEYS, CLIENT and, without its file, COMMAND
\* may leave the reply empty.
Inform(name, replies) ==
  /\ Running(name)
  /\ \E r \in replies : Answer(r)
  /\ UNCHANGED <<storageVars, keepRunning, historyVars>>

KeysCommand == Inform("keys", IF argv[2] = "*" THEN KeysReply ELSE {<<>>})
ClientCommand ==
  Inform("client", IF argv[2] = "list" THEN {ClientReply(n) : n \in Connections}
                                       ELSE {<<>>})
DbsizeCommand == Inform("dbsize", {<<Item("int", Cardinality(Present))>>})
TextCommand ==
  \/ Inform("exit", {<<Item("status", "Bye")>>})
  \/ Inform("infor", {InforReply})
  \/ Inform("command", {<<Item("file", "echo.txt")>>, <<>>})
ErrorCommand == Inform("error", {<<Error>>})

ShutDownCommand ==
  /\ Running("shutdown")
  /\ Answer(<<Item("status", "closed")>>)
  /\ keepRunning' = FALSE
  /\ UNCHANGED <<storageVars, historyVars>>

\* FLUSHALL: the three steps of FlushAll.
FlushAllCommand ==
  /\ Running("flushall")
  /\ FlushDelete
  /\ pc' = "removing"
  /\ UNCHANGED <<requestVars, keepRunning, crashes, historyVars>>

FlushRemoved ==
  /\ pc = "removing"
  /\ \/ FlushRemove /\ pc' = "reopen" /\ UNCHANGED <<reply, failed>>
     \/ FlushNoShell /\ pc' = "loop" /\ reply' = <<Error>> /\ failed' = TRUE
  /\ UNCHANGED <<argv, i, keepRunning, crashes, possible>>

\* Mutant: the database is not opened again.
FlushNoReopen ==
  /\ pc = "reopen"
  /\ is_open_' = TRUE /\ UNCHANGED <<db, files, leveldb_>>
  /\ Answer(<<Ok>>)
  /\ failed' = (leveldb_' = "null")
  /\ possible' = Expected(argv)
  /\ UNCHANGED keepRunning

FlushReopen ==
  /\ pc = "reopen"
  /\ Open
  /\ Answer(<<Ok>>)
  /\ failed' = (leveldb_' = "null")
  /\ possible' = Reckoned(Expected(argv))
  /\ UNCHANGED keepRunning

\* The end of main.
Exit ==
  /\ pc = "loop"
  /\ ~keepRunning
  /\ Close
  /\ pc' = IF leveldb_ = "deleted" THEN "badhandle" ELSE "exited"
  /\ UNCHANGED <<requestVars, keepRunning, crashes, historyVars>>

\* The process dies; LevelDB has handed every write to the system.
Crash ==
  /\ pc \notin {"down", "exited"}
  /\ crashes < MaxCrashes
  /\ crashes' = crashes + 1
  /\ pc' = "down"
  /\ Lose
  /\ IF pc = "removing" /\ SameDir THEN AbandonShell ELSE UNCHANGED files
  /\ UNCHANGED <<db, requestVars, keepRunning, historyVars>>

\* A shell of an earlier process, beside what this one does.
OldShell ==
  /\ Erode \/ ShellEnds
  /\ UNCHANGED <<pc, requestVars, keepRunning, crashes, historyVars>>

Next ==
  \/ Start
  \/ \E a \in Requests : GetRequest(a)
  \/ SetCommand \/ DeleteCommand \/ MsetPair \/ MsetEnd
  \/ GetCommand \/ MgetCommand
  \/ KeysCommand \/ ClientCommand \/ DbsizeCommand
  \/ TextCommand \/ ErrorCommand \/ ShutDownCommand
  \/ FlushAllCommand \/ FlushRemoved \/ FlushReopen
  \/ BadAccess \/ Exit \/ Crash \/ OldShell

Spec == Init /\ [][Next]_vars

-----------------------------------------------------------------------------
\* Every variable keeps its type, and the assertions of Open, Close and FlushAll
\* on is_open_ hold: the handle is held exactly while commands run.
TypeOK ==
  /\ StorageTypeOK
  /\ pc \in {"loop", "run", "removing"} => is_open_
  /\ pc \in {"down", "reopen", "exited"} => ~is_open_
  /\ pc \in {"down", "loop", "run", "removing", "reopen", "oob", "badhandle",
            "exited"}
  /\ argv \in Requests \cup {<<>>}
  /\ i \in Nat
  /\ keepRunning \in BOOLEAN
  /\ crashes \in 0..MaxCrashes
  /\ failed \in BOOLEAN
  /\ possible \in [Keys -> SUBSET (Values \cup {NoValue})]

\* No command reads an argument that its request does not have (lookupCommand
\* is to see to that).
ArgvInBounds == pc # "oob"

\* A command meets a handle that is null or deleted only after an Open that
\* LevelDB refused, or a FLUSHALL that could not start its shell.
HandleUsable == ~failed => pc # "badhandle" /\ (pc \in {"loop", "run"} => leveldb_ = "open")

\* Every key holds a value that the replies so far allow: writes that were
\* acknowledged are there, also after a crash, and what was read once, or removed
\* with all keys, does not come back.  Between the death of a server that waited
\* for the shell of FLUSHALL and the next database that opens with no such shell
\* about (files), nothing is said.  A FLUSHALL whose rm failed is answered OK all
\* the same: of what it left nothing is known but that it stays.
StoreMatchesReplies == files = "whole" => \A k \in Keys : db[k] \in possible[k]

\* One value of the protocol: one line or bulk string, or an array header and
\* as many of them as it says.
OneValue(r) ==
  \/ Len(r) = 1 /\ (r[1].type # "array" \/ r[1].value = 0)
  \/ /\ r[1].type = "array"
     /\ Len(r) = r[1].value + 1
     /\ \A n \in 2..Len(r) : r[n].type \in {"bulk", "nil"}

\* The replies are values of the protocol but for three: GET of a value with a
\* line break, INFOR, and CLIENT LIST.  COMMAND sends a file as it is.
OneValuePerReply ==
  reply # <<>> /\ lookupCommand(argv) # "command" =>
    (~OneValue(reply) <=>
      \/ lookupCommand(argv) \in {"infor", "client"}
      \/ lookupCommand(argv) = "get" /\ reply[1].value \in MultiLine)
=============================================================================
