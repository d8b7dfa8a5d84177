---------------------------- MODULE CommandsProofs ----------------------------
(***************************************************************************)
(* Proofs about module Commands, for every set of keys, values and         *)
(* requests, every failure and any number of crashes.                      *)
(***************************************************************************)
EXTENDS Commands, FiniteSetTheorems, TLAPS

(***************************************************************************)
(* What a request that was answered leaves possible, and what a reply      *)
(* tells.                                                                  *)
(***************************************************************************)
LEMMA ExpectedTyped ==
  ASSUME TypeOK, NEW a
  PROVE  Expected(a) \in [Keys -> SUBSET (Values \cup {NoValue})]
BY DEF Expected, LastWrite, WritesOf, TypeOK

\* Of files that were removed in part anything is expected.
LEMMA ReckonedTyped ==
  ASSUME NEW p \in [Keys -> SUBSET (Values \cup {NoValue})]
  PROVE  Reckoned(p) \in [Keys -> SUBSET (Values \cup {NoValue})]
BY DEF Reckoned

\* GET tells the value that is stored, or nothing if it was lost.
LEMMA GetTells ==
  ASSUME lookupCommand(argv) = "get", NEW lost \in Lost, NEW k \in Keys
  PROVE  Told(GetReply(lost), k) \subseteq {db[k]}
<1>1. "get" \in Failures \/ lost = {}
  BY DEF Lost
<1> DEFINE v == Get(2, lost)
           r == GetReply(lost)
<1>2. DOMAIN r \in {1..1, 1..2} /\ r[1].value = v
  BY DEF GetReply, Simple, Bulk, Item
<1>3. argv[2] = k /\ v # NoValue => v = db[k]
  BY DEF Get
<1>4. argv[2] = k /\ "get" \notin Failures => v = db[k]
  BY <1>1 DEF Get
<1> HIDE DEF v, r
<1> QED BY <1>2, <1>3, <1>4 DEF Told, r

\* MGET tells of each key the value that is stored, or nothing.
LEMMA MgetTells ==
  ASSUME lookupCommand(argv) = "mget", NEW lost \in Lost, NEW k \in Keys
  PROVE  Told(MgetReply(lost), k) \subseteq {db[k]}
<1>1. "get" \in Failures \/ lost = {}
  BY DEF Lost
<1>2. \A v : Bulk(v).value = v
  BY DEF Bulk, Item
<1>3. \A n \in DOMAIN MgetReply(lost) : n > 1 => MgetReply(lost)[n].value = Get(n, lost)
  BY <1>2 DEF MgetReply
<1>4. ASSUME NEW n \in DOMAIN MgetReply(lost), n > 1, argv[n] = k,
             "get" \in Failures => MgetReply(lost)[n].value # NoValue
      PROVE  MgetReply(lost)[n].value = db[k]
  BY <1>1, <1>3, <1>4 DEF Get
<1> QED BY <1>4 DEF Told

\* A read leaves possible what it read, and the rest as it was.
LEMMA ReadTells ==
  ASSUME TypeOK, GetCommand \/ MgetCommand
  PROVE  /\ UNCHANGED storageVars
         /\ \A k \in Keys : possible'[k] \in {possible[k], {db[k]}}
         /\ possible' \in [Keys -> SUBSET (Values \cup {NoValue})]
<1>1. UNCHANGED storageVars
  BY DEF GetCommand, MgetCommand, ReadCommand
<1>2. \E r : /\ \A k \in Keys : Told(r, k) \subseteq {db[k]}
             /\ possible' = [k \in Keys |-> IF Told(r, k) = {} THEN possible[k] ELSE Told(r, k)]
  <2>1. CASE GetCommand
    BY <2>1, GetTells DEF GetCommand, ReadCommand, Running
  <2>2. CASE MgetCommand
    BY <2>2, MgetTells DEF MgetCommand, ReadCommand, Running
  <2> QED BY <2>1, <2>2
<1>3. \A k \in Keys : possible'[k] \in {possible[k], {db[k]}}
  BY <1>2
<1>4. possible' \in [Keys -> SUBSET (Values \cup {NoValue})]
  BY <1>2 DEF TypeOK, StorageTypeOK, Contents
<1> QED BY <1>1, <1>3, <1>4

-----------------------------------------------------------------------------
(***************************************************************************)
(* Types and the handle.                                                   *)
(***************************************************************************)
\* A request is there while its command runs, MSET stands before a pair, and
\* only FLUSHALL removes.
Asked ==
  /\ pc \in {"run", "removing", "reopen"} => argv \in Requests
  /\ pc = "run" => i >= 2 /\ i % 2 = 0
  /\ pc \in {"removing", "reopen"} => lookupCommand(argv) = "flushall"

IInv == TypeOK /\ HandleUsable /\ Asked

\* The process starts with no request.
LEMMA InitIInv == Init => IInv
<1> SUFFICES ASSUME Init PROVE IInv
  OBVIOUS
<1>1. StorageTypeOK
  BY DEF Init, StorageInit, StorageTypeOK, NoEntries, Contents
<1>2. crashes \in 0..MaxCrashes
  BY CommandsAssumption DEF Init
<1>3. possible \in [Keys -> SUBSET (Values \cup {NoValue})]
  BY DEF Init
<1>4. TypeOK
  BY <1>1, <1>2, <1>3 DEF Init, StorageInit, TypeOK
<1> QED BY <1>4 DEF Init, IInv, HandleUsable, Asked

\* The pair that MSET is about to write.
LEMMA NextPair ==
  ASSUME argv \in Requests, lookupCommand(argv) = "mset",
         i \in Nat, i >= 2, i % 2 = 0, i + 1 <= Len(argv)
  PROVE  i \in Pairs(argv) /\ argv[i] \in Keys /\ argv[i + 1] \in Values
<1>1. Len(argv) \in Nat /\ i \in 2..Len(argv) /\ i + 1 \in 2..Len(argv) /\ (i + 1) % 2 # 0
  BY RequestsAssumption
<1>2. \A n \in 2..Len(argv) : argv[n] \in IF n % 2 = 0 THEN Keys ELSE Values
  BY RequestsAssumption
<1> QED BY <1>1, <1>2 DEF Pairs

\* Every command, crash and restart keeps IInv.
LEMMA NextIInv == IInv /\ [Next]_vars => IInv'
<1> SUFFICES ASSUME IInv, [Next]_vars PROVE IInv'
  OBVIOUS
<1> USE DEF IInv, TypeOK, HandleUsable, Asked, StorageTypeOK, Contents
<1>1. CASE Start
  BY <1>1, ReckonedTyped DEF Start, Open, requestVars
<1>2. ASSUME NEW a \in Requests, GetRequest(a) PROVE IInv'
  BY <1>2 DEF GetRequest, storageVars, WritesOf
<1>3. ASSUME NEW k \in Keys, NEW v \in Values \cup {NoValue}, Put(k, v)
      PROVE  StorageTypeOK' /\ UNCHANGED <<files, is_open_, leveldb_>>
  BY <1>3 DEF Put
<1>4. CASE SetCommand
  <2>1. Put(argv[2], argv[3]) \/ PutFails
    BY <1>4 DEF SetCommand, WriteOne
  <2>2. argv[2] \in Keys /\ argv[3] \in Values
    BY <1>4, RequestsAssumption DEF SetCommand, WriteOne, Running, Reads
  <2>3. StorageTypeOK' /\ UNCHANGED <<is_open_, leveldb_>>
    BY <1>3, <2>1, <2>2 DEF PutFails, storageVars
  <2> QED BY <1>4, <2>3, ExpectedTyped DEF SetCommand, WriteOne, Running, Answer
<1>5. CASE DeleteCommand
  <2>1. Put(argv[2], NoValue) \/ PutFails
    BY <1>5 DEF DeleteCommand, WriteOne
  <2>2. argv[2] \in Keys
    BY <1>5, RequestsAssumption DEF DeleteCommand, WriteOne, Running, Reads
  <2>3. StorageTypeOK' /\ UNCHANGED <<is_open_, leveldb_>>
    BY <1>3, <2>1, <2>2 DEF PutFails, storageVars
  <2> QED BY <1>5, <2>3, ExpectedTyped DEF DeleteCommand, WriteOne, Running, Answer
<1>6. CASE MsetPair
  <2>1. Put(argv[i], argv[i + 1]) \/ PutFails
    BY <1>6 DEF MsetPair
  <2>2. argv[i] \in Keys /\ argv[i + 1] \in Values
    BY <1>6, NextPair DEF MsetPair, Running, Reads
  <2>3. StorageTypeOK' /\ UNCHANGED <<is_open_, leveldb_>>
    BY <1>3, <2>1, <2>2 DEF PutFails, storageVars
  <2> QED BY <1>6, <2>3 DEF MsetPair, Running, Answer, historyVars
<1>7. CASE MsetEnd
  BY <1>7, ExpectedTyped DEF MsetEnd, Running, Answer, storageVars
<1>8. CASE GetCommand \/ MgetCommand
  BY <1>8, ReadTells DEF GetCommand, MgetCommand, ReadCommand, Running, Answer, storageVars
<1>9. ASSUME NEW name, NEW R, Inform(name, R) PROVE IInv'
  BY <1>9 DEF Inform, Running, Answer, storageVars, historyVars
<1>10. CASE KeysCommand \/ ClientCommand \/ DbsizeCommand \/ TextCommand \/ ErrorCommand
  BY <1>9, <1>10 DEF KeysCommand, ClientCommand, DbsizeCommand, TextCommand, ErrorCommand
<1>11. CASE ShutDownCommand
  BY <1>11 DEF ShutDownCommand, Running, Answer, storageVars, historyVars
<1>12. CASE FlushAllCommand
  BY <1>12 DEF FlushAllCommand, Running, FlushDelete, requestVars, historyVars
<1>13. CASE FlushRemoved
  <2>1. CASE FlushRemove /\ pc' = "reopen"
    <3>1. StorageTypeOK' /\ ~is_open_'
      BY <2>1 DEF FlushRemove, AfterShell, NoEntries
    <3> QED BY <1>13, <2>1, <3>1 DEF FlushRemoved
  <2>2. CASE FlushNoShell
    BY <1>13, <2>2 DEF FlushRemoved, FlushRemove, FlushNoShell, storageVars
  <2> QED BY <1>13, <2>1, <2>2 DEF FlushRemoved
<1>14. CASE FlushReopen
  BY <1>14, ExpectedTyped, ReckonedTyped DEF FlushReopen, Open, Answer
<1>15. CASE BadAccess
  BY <1>15 DEF BadAccess, HandleFits, storageVars, requestVars, historyVars
<1>16. CASE Exit
  BY <1>16 DEF Exit, Close, requestVars, historyVars
<1>17. CASE Crash
  <2>1. crashes' \in 0..MaxCrashes
    BY <1>17, CommandsAssumption DEF Crash
  <2>2. files' \in {"whole", "shell", "torn"}
    BY <1>17 DEF Crash, AbandonShell
  <2> QED BY <1>17, <2>1, <2>2 DEF Crash, Lose, requestVars, historyVars
<1>18. CASE UNCHANGED vars
  BY <1>18 DEF vars, storageVars, requestVars, historyVars
<1>19. CASE OldShell
  BY <1>19 DEF OldShell, Erode, ShellEnds, requestVars, historyVars
<1> QED
  BY <1>1, <1>2, <1>4, <1>5, <1>6, <1>7, <1>8, <1>10, <1>11, <1>12, <1>13, <1>14,
     <1>15, <1>16, <1>17, <1>18, <1>19 DEF Next

\* Spec keeps the types: type correctness.
THEOREM TypeCorrect == Spec => []TypeOK
<1>1. IInv => TypeOK
  BY DEF IInv
<1> QED BY InitIInv, NextIInv, <1>1, PTL DEF Spec

\* A command meets a handle that is not open only after an Open that LevelDB
\* refused, or a FLUSHALL whose shell did not start.
THEOREM HandlesUsable == Spec => []HandleUsable
<1>1. IInv => HandleUsable
  BY DEF IInv
<1> QED BY InitIInv, NextIInv, <1>1, PTL DEF Spec

-----------------------------------------------------------------------------
(***************************************************************************)
(* The store and the replies, where FLUSHALL removes the directory that    *)
(* the database is in, while its files are whole.                          *)
(***************************************************************************)

\* What a running request may write is expected.
Foreseen ==
  pc \in {"run", "removing", "reopen"} =>
    \A k \in Keys : WritesOf(argv, k) \subseteq possible[k]

\* MSET has written, of the pairs before i, the last one of every key.
WrittenSoFar ==
  pc = "run" /\ lookupCommand(argv) = "mset" /\ files = "whole" =>
    \A n \in Pairs(argv) : n < i =>
      \E m \in Pairs(argv) :
        /\ m < i /\ argv[m] = argv[n] /\ db[argv[n]] = argv[m + 1]
        /\ \A l \in Pairs(argv) : l > m /\ l < i => argv[l] # argv[n]

\* FLUSHALL removes before it opens.
Flushing == pc = "reopen" /\ files = "whole" => db = NoEntries

StoreInv == StoreMatchesReplies /\ Foreseen /\ WrittenSoFar /\ Flushing

\* The store starts empty, and so is expected to be.
LEMMA InitStoreInv == Init => StoreInv
BY DEF Init, StorageInit, NoEntries, StoreInv, StoreMatchesReplies, Foreseen,
       WrittenSoFar, Flushing

\* Every command, crash and restart keeps StoreInv.
LEMMA NextStoreInv ==
  ASSUME SameDir PROVE IInv /\ StoreInv /\ [Next]_vars => StoreInv'
<1> SUFFICES ASSUME IInv, StoreInv, [Next]_vars PROVE StoreInv'
  OBVIOUS
<1> USE DEF IInv, TypeOK, StorageTypeOK, Contents, Asked, StoreInv, StoreMatchesReplies,
            Foreseen, WrittenSoFar, Flushing
<1>1. CASE Start
  BY <1>1 DEF Start, Open, Reckoned, requestVars
<1>2. ASSUME NEW a \in Requests, GetRequest(a) PROVE StoreInv'
  <2>1. StoreMatchesReplies' /\ Foreseen'
    BY <1>2 DEF GetRequest, storageVars
  <2>2. WrittenSoFar'
    BY <1>2, RequestsAssumption DEF GetRequest, Pairs
  <2> QED BY <1>2, <2>1, <2>2 DEF GetRequest
<1>write. ASSUME NEW key \in Keys, NEW v \in Values \cup {NoValue},
             lookupCommand(argv) # "mset",
             \A k \in Keys : WritesOf(argv, k) = IF k = key THEN {v} ELSE {},
             Put(key, v), possible' = Expected(argv)
      PROVE  StoreMatchesReplies'
  BY <1>write DEF Put, Expected, LastWrite
<1>3. CASE SetCommand
  <2>1. argv[2] \in Keys /\ argv[3] \in Values /\ Len(argv) > 2
    BY <1>3, RequestsAssumption DEF SetCommand, WriteOne, Running, Reads
  <2>2. \A k \in Keys : WritesOf(argv, k) = IF k = argv[2] THEN {argv[3]} ELSE {}
    BY <1>3, <2>1 DEF SetCommand, WriteOne, Running, WritesOf
  <2>3. CASE Put(argv[2], argv[3]) /\ possible' = Expected(argv)
    <3>1. StoreMatchesReplies'
      BY <1>write, <1>3, <2>1, <2>2, <2>3 DEF SetCommand, WriteOne, Running
    <3> QED BY <1>3, <3>1 DEF SetCommand, WriteOne, Answer
  <2>4. CASE PutFails /\ UNCHANGED possible
    BY <1>3, <2>4 DEF SetCommand, WriteOne, PutFails, Answer, storageVars
  <2> QED BY <1>3, <2>3, <2>4 DEF SetCommand, WriteOne
<1>4. CASE DeleteCommand
  <2>1. argv[2] \in Keys /\ Len(argv) > 1
    BY <1>4, RequestsAssumption DEF DeleteCommand, WriteOne, Running, Reads
  <2>2. \A k \in Keys : WritesOf(argv, k) = IF k = argv[2] THEN {NoValue} ELSE {}
    BY <1>4, <2>1 DEF DeleteCommand, WriteOne, Running, WritesOf
  <2>3. CASE Put(argv[2], NoValue) /\ possible' = Expected(argv)
    <3>1. StoreMatchesReplies'
      BY <1>write, <1>4, <2>1, <2>2, <2>3 DEF DeleteCommand, WriteOne, Running
    <3> QED BY <1>4, <3>1 DEF DeleteCommand, WriteOne, Answer
  <2>4. CASE PutFails /\ UNCHANGED possible
    BY <1>4, <2>4 DEF DeleteCommand, WriteOne, PutFails, Answer, storageVars
  <2> QED BY <1>4, <2>3, <2>4 DEF DeleteCommand, WriteOne
<1>5. CASE MsetPair
  <2>1. CASE PutFails /\ Answer(<<Error>>)
    BY <1>5, <2>1 DEF MsetPair, PutFails, Answer, storageVars, historyVars
  <2>2. CASE Put(argv[i], argv[i + 1]) /\ i' = i + 2 /\ UNCHANGED <<pc, argv>> /\ files # "whole"
    BY <1>5, <2>2 DEF MsetPair, Put, historyVars
  <2>3. CASE Put(argv[i], argv[i + 1]) /\ i' = i + 2 /\ UNCHANGED <<pc, argv>> /\ files = "whole"
    <3>1. /\ pc = "run" /\ lookupCommand(argv) = "mset"
          /\ argv \in Requests /\ i + 1 <= Len(argv) /\ UNCHANGED possible
      BY <1>5 DEF MsetPair, Running, Reads, historyVars
    <3>2. i \in Pairs(argv) /\ argv[i] \in Keys /\ argv[i + 1] \in Values
      BY <3>1, NextPair
    <3>3. db' = [db EXCEPT ![argv[i]] = argv[i + 1]]
      BY <2>3 DEF Put
    <3>4. argv[i + 1] \in possible[argv[i]]
      BY <3>1, <3>2 DEF WritesOf
    <3>5. StoreMatchesReplies'
      BY <2>3, <3>1, <3>2, <3>3, <3>4
    <3>6. WrittenSoFar'
      <4> SUFFICES ASSUME NEW n \in Pairs(argv), n < i + 2
                   PROVE  \E m \in Pairs(argv) :
                            /\ m < i + 2 /\ argv[m] = argv[n] /\ db'[argv[n]] = argv[m + 1]
                            /\ \A l \in Pairs(argv) : l > m /\ l < i + 2 => argv[l] # argv[n]
        BY <2>3
      <4>1. \A l \in Pairs(argv) : l \in Nat /\ (l < i + 2 => l < i \/ l = i)
        BY <3>1, RequestsAssumption DEF Pairs
      <4>2. CASE argv[n] = argv[i]
        <5>1. \A l \in Pairs(argv) : l > i /\ l < i + 2 => argv[l] # argv[n]
          BY <4>1
        <5> QED BY <3>2, <3>3, <4>2, <5>1
      <4>3. CASE argv[n] # argv[i]
        <5>1. n < i
          BY <4>1, <4>3
        <5>2. PICK m \in Pairs(argv) :
                /\ m < i /\ argv[m] = argv[n] /\ db[argv[n]] = argv[m + 1]
                /\ \A l \in Pairs(argv) : l > m /\ l < i => argv[l] # argv[n]
          BY <2>3, <3>1, <5>1
        <5>3. \A l \in Pairs(argv) : l > m /\ l < i + 2 => argv[l] # argv[n]
          BY <4>1, <4>3, <5>2
        <5>4. db'[argv[n]] = db[argv[n]]
          <6>1. argv[n] \in Keys
            BY <3>1, RequestsAssumption DEF Pairs
          <6> QED BY <3>3, <4>3, <6>1
        <5> QED BY <4>1, <5>2, <5>3, <5>4
      <4> QED BY <4>2, <4>3
    <3> QED BY <2>3, <3>1, <3>5, <3>6
  <2> QED BY <1>5, <2>1, <2>2, <2>3 DEF MsetPair
<1>6. CASE MsetEnd
  <2>1. /\ pc = "run" /\ lookupCommand(argv) = "mset" /\ argv \in Requests
        /\ i > Len(argv) /\ possible' = Expected(argv) /\ UNCHANGED <<db, files>> /\ pc' = "loop"
    BY <1>6 DEF MsetEnd, Running, Answer, storageVars
  <2>2. \A l \in Pairs(argv) : l < i
    BY <2>1, RequestsAssumption DEF Pairs
  <2>3. ASSUME files = "whole", NEW k \in Keys, WritesOf(argv, k) # {}
        PROVE  db[k] \in LastWrite(argv, k)
    <3>1. PICK n \in Pairs(argv) : argv[n] = k
      BY <2>1, <2>3 DEF WritesOf
    <3>2. PICK m \in Pairs(argv) :
            /\ argv[m] = k /\ db[k] = argv[m + 1]
            /\ \A l \in Pairs(argv) : l > m => argv[l] # k
      BY <2>1, <2>2, <2>3, <3>1
    <3>3. db[k] \in Values \cup {NoValue}
      OBVIOUS
    <3> QED BY <2>1, <3>2, <3>3 DEF LastWrite, WritesOf
  <2>4. StoreMatchesReplies'
    BY <2>1, <2>3 DEF Expected
  <2> QED BY <2>1, <2>4
<1>7. CASE GetCommand \/ MgetCommand
  <2>1. pc' = "loop"
    BY <1>7 DEF GetCommand, MgetCommand, ReadCommand, Answer
  <2> QED BY <1>7, <2>1, ReadTells DEF storageVars
<1>8. ASSUME NEW name, NEW R, Inform(name, R) PROVE StoreInv'
  BY <1>8 DEF Inform, Answer, storageVars, historyVars
<1>9. CASE KeysCommand \/ ClientCommand \/ DbsizeCommand \/ TextCommand \/ ErrorCommand
  BY <1>8, <1>9 DEF KeysCommand, ClientCommand, DbsizeCommand, TextCommand, ErrorCommand
<1>10. CASE ShutDownCommand
  BY <1>10 DEF ShutDownCommand, Answer, storageVars, historyVars
<1>11. CASE FlushAllCommand
  BY <1>11 DEF FlushAllCommand, Running, FlushDelete, requestVars, historyVars
<1>12. CASE FlushRemoved
  <2>1. lookupCommand(argv) = "flushall" /\ UNCHANGED <<argv, possible>>
    BY <1>12 DEF FlushRemoved
  <2>2. \A k \in Keys : NoValue \in possible[k]
    BY <1>12, <2>1 DEF FlushRemoved, WritesOf
  <2>3. CASE FlushRemove /\ pc' = "reopen"
    <3>1. files' = "whole" => db' = NoEntries
      BY <2>3, SameDir DEF FlushRemove, AfterShell
    <3> QED BY <1>12, <2>1, <2>2, <2>3, <3>1 DEF FlushRemoved, NoEntries
  <2>4. CASE FlushNoShell /\ pc' = "loop"
    BY <2>1, <2>4 DEF FlushNoShell, storageVars
  <2> QED BY <1>12, <2>3, <2>4 DEF FlushRemoved
<1>13. CASE FlushReopen
  <2>1. CASE files = "whole"
    BY <1>13, <2>1 DEF FlushReopen, Open, Answer, NoEntries, Reckoned, Expected, LastWrite,
                       WritesOf
  <2>2. CASE files # "whole"
    BY <1>13, <2>2 DEF FlushReopen, Open, Answer, Reckoned
  <2> QED BY <2>1, <2>2
<1>14. CASE BadAccess
  BY <1>14 DEF BadAccess, storageVars, requestVars, historyVars
<1>15. CASE Exit
  BY <1>15 DEF Exit, Close, requestVars, historyVars
<1>16. CASE Crash
  BY <1>16 DEF Crash, Lose, AbandonShell, requestVars, historyVars
<1>17. CASE UNCHANGED vars
  BY <1>17 DEF vars, storageVars, requestVars, historyVars
<1>18. CASE OldShell
  BY <1>18 DEF OldShell, Erode, ShellEnds, requestVars, historyVars
<1> QED
  BY <1>1, <1>2, <1>3, <1>4, <1>5, <1>6, <1>7, <1>9, <1>10, <1>11, <1>12, <1>13, <1>14,
     <1>15, <1>16, <1>17, <1>18 DEF Next

\* Every key holds a value that the replies so far allow, whatever fails and
\* wherever the process crashes, while the files of the database are whole: a
\* shell that outlives its server, or an rm that fails, ends what was promised until
\* a database opens with no such shell about.
THEOREM StoreMatches ==
  ASSUME SameDir PROVE Spec => []StoreMatchesReplies
<1>1. StoreInv => StoreMatchesReplies
  BY DEF StoreInv
<1> QED BY SameDir, InitIInv, NextIInv, InitStoreInv, NextStoreInv, <1>1, PTL DEF Spec

-----------------------------------------------------------------------------
(***************************************************************************)
(* The arity check: with DELETE and MSET counted by the clients, it is     *)
(* enough.                                                                 *)
(***************************************************************************)
ClientsCount ==
  \A a \in Requests :
    /\ lookupCommand(a) = "delete" => Len(a) > 1
    /\ lookupCommand(a) = "mset" => Len(a) % 2 = 1

\* What the command table asks for: the arity of each entry.
LEMMA TableCounts ==
  ASSUME NEW a
  PROVE  /\ lookupCommand(a) = "set" => Len(a) >= 3
         /\ lookupCommand(a) \in {"get", "keys", "client"} => Len(a) >= 2
BY DEF lookupCommand, parameter_num

\* A command that passed the check of its arity finds its arguments.
LEMMA ReadsWithin ==
  ASSUME ClientsCount, TypeOK, Asked, pc = "run"
  PROVE  Reads(lookupCommand(argv)) <= Len(argv)
<1>1. argv \in Requests /\ Len(argv) \in Nat /\ i \in Nat /\ i % 2 = 0
  BY RequestsAssumption DEF TypeOK, Asked
<1>2. CASE lookupCommand(argv) = "set"
  BY <1>1, <1>2, TableCounts DEF Reads
<1>3. CASE lookupCommand(argv) \in {"get", "delete", "keys", "client"}
  BY <1>1, <1>3, TableCounts DEF Reads, ClientsCount
<1>4. CASE lookupCommand(argv) = "mset"
  <2>1. i <= Len(argv) => i + 1 <= Len(argv)
    BY <1>1, <1>4 DEF ClientsCount
  <2> QED BY <1>1, <1>4, <2>1 DEF Reads
<1>5. CASE lookupCommand(argv) \notin {"set", "get", "delete", "keys", "client", "mset"}
  BY <1>1, <1>5 DEF Reads
<1> QED BY <1>2, <1>3, <1>4, <1>5

\* No command reads an argument that its request does not have, if clients give
\* DELETE a key and every key of MSET a value: the other entries of the table suffice.
THEOREM ArgumentsThere ==
  ASSUME ClientsCount PROVE Spec => []ArgvInBounds
<1>1. Init => ArgvInBounds
  BY DEF Init, ArgvInBounds
<1>2. IInv /\ ArgvInBounds /\ [Next]_vars => ArgvInBounds'
  <2> SUFFICES ASSUME IInv, ArgvInBounds, [Next]_vars, pc' = "oob" PROVE FALSE
    BY DEF ArgvInBounds
  <2>1. BadAccess
    BY DEF Next, vars, ArgvInBounds, Start, GetRequest, SetCommand, DeleteCommand,
           WriteOne, MsetPair, MsetEnd, GetCommand, MgetCommand, ReadCommand,
           KeysCommand, ClientCommand, DbsizeCommand, TextCommand, ErrorCommand, Inform,
           ShutDownCommand, FlushAllCommand, FlushRemoved, FlushReopen, Exit, Crash,
           OldShell, Answer
  <2>2. pc = "run" /\ Reads(lookupCommand(argv)) > Len(argv)
    BY <2>1 DEF BadAccess
  <2>3. Reads(lookupCommand(argv)) <= Len(argv)
    BY <2>2, ReadsWithin DEF IInv
  <2>4. Len(argv) \in Nat /\ Reads(lookupCommand(argv)) \in Nat
    BY <2>2, RequestsAssumption DEF IInv, TypeOK, Asked, Reads
  <2> QED BY <2>2, <2>3, <2>4
<1> QED BY InitIInv, NextIInv, <1>1, <1>2, PTL DEF Spec

-----------------------------------------------------------------------------
(***************************************************************************)
(* The form of a reply, for every request.                                 *)
(***************************************************************************)
\* A reply of one item that is not a header, and an array with its header.
LEMMA SingleItem ==
  ASSUME NEW type, NEW v, type # "array" PROVE OneValue(<<Item(type, v)>>)
BY DEF OneValue, Item

\* An array with as many items as its header says.
LEMMA HeadedArray ==
  ASSUME NEW size \in Nat, NEW r, Len(r) = size + 1, r[1] = Array(size),
         \A n \in 2..(size + 1) : r[n].type \in {"bulk", "nil"}
  PROVE  OneValue(r)
BY DEF OneValue, Array, Item

\* A stored value is a bulk string, no value the nil reply.
LEMMA BulkType ==
  ASSUME NEW v
  PROVE  /\ Bulk(v).type \in {"bulk", "nil"}
         /\ Bulk(NoValue).type = "nil"
BY DEF Bulk, Item

\* An answer of two items that begins with a status is not one value.
LEMMA TwoItems ==
  ASSUME NEW v, NEW w PROVE ~OneValue(<<Item("status", v), Item("line", w)>>)
BY DEF OneValue, Item

\* GET answers one value, unless there is a line break in the value it found.
LEMMA GetReplies ==
  ASSUME NEW lost
  PROVE  OneValue(GetReply(lost)) <=> GetReply(lost)[1].value \notin MultiLine
<1> DEFINE v == Get(2, lost)
<1>1. CASE v = NoValue
  <2>1. GetReply(lost) = <<Item("nil", NoValue)>>
    BY <1>1 DEF GetReply, Bulk
  <2>2. NoValue \notin MultiLine
    BY StorageAssumption, CommandsAssumption
  <2> QED BY <2>1, <2>2, SingleItem DEF Item
<1>2. CASE v # NoValue /\ v \notin MultiLine
  <2>1. GetReply(lost) = <<Item("status", v)>>
    BY <1>2 DEF GetReply, Simple
  <2> QED BY <1>2, <2>1, SingleItem DEF Item
<1>3. CASE v # NoValue /\ v \in MultiLine
  <2>1. GetReply(lost) = <<Item("status", v), Item("line", v)>>
    BY <1>3 DEF GetReply, Simple
  <2> QED BY <1>3, <2>1, TwoItems DEF Item
<1> QED BY <1>1, <1>2, <1>3

\* CLIENT LIST answers no value: its header comes last.
LEMMA ClientReplies ==
  ASSUME NEW n \in Nat \ {0} PROVE ~OneValue(ClientReply(n))
<1>1. Len(ClientReply(n)) = n + 1 /\ ClientReply(n)[1] = Item("bulk", 1)
  BY DEF ClientReply
<1> QED BY <1>1 DEF OneValue, Item

\* MGET answers one array with an item for each key of the request.
LEMMA MgetReplies ==
  ASSUME NEW lost, Len(argv) \in Nat, Len(argv) >= 2
  PROVE  OneValue(MgetReply(lost))
<1> DEFINE size == Len(argv) - 1
           r == MgetReply(lost)
<1>1. size \in Nat /\ Len(argv) = size + 1
  OBVIOUS
<1>2. r = [n \in 1..(size + 1) |-> IF n = 1 THEN Array(size) ELSE Bulk(Get(n, lost))]
  BY <1>1 DEF MgetReply
<1> HIDE DEF size, r
<1>3. Len(r) = size + 1 /\ r[1] = Array(size)
  BY <1>1, <1>2
<1>4. ASSUME NEW n \in 2..(size + 1) PROVE r[n].type \in {"bulk", "nil"}
  <2>1. r[n] = Bulk(Get(n, lost))
    BY <1>1, <1>2
  <2> QED BY <2>1, BulkType
<1> QED BY <1>1, <1>3, <1>4, HeadedArray DEF r

\* KEYS answers an array with an item for each key it found.
LEMMA KeysReplies ==
  ASSUME IsFiniteSet(Keys), NEW r \in KeysReply
  PROVE  OneValue(r)
<1> DEFINE size == Cardinality(Present)
<1>1. size \in Nat
  BY FS_Subset, FS_CardinalityType DEF Present
<1>2. PICK s \in [1..size -> Present] :
        r = [n \in 1..(size + 1) |-> IF n = 1 THEN Array(size)
                                             ELSE Item("bulk", s[n - 1])]
  BY DEF KeysReply
<1> HIDE DEF size
<1>3. Len(r) = size + 1 /\ r[1] = Array(size)
  BY <1>1, <1>2
<1>4. ASSUME NEW n \in 2..(size + 1) PROVE r[n].type \in {"bulk", "nil"}
  <2>1. r[n] = Item("bulk", s[n - 1])
    BY <1>1, <1>2
  <2> QED BY <2>1 DEF Item
<1> QED BY <1>1, <1>3, <1>4, HeadedArray

\* Which replies are values of the protocol: the arrays of MGET and KEYS have as
\* many items as their headers say, for every finite set of keys; no value are
\* INFOR, CLIENT LIST and the GET of a value with a line break, and no others (but
\* for COMMAND, of whose file nothing is said).
THEOREM RepliesWellFormed ==
  ASSUME IsFiniteSet(Keys)
  PROVE  Spec => []OneValuePerReply
<1>1. Init => OneValuePerReply
  BY DEF Init, OneValuePerReply
<1>2. IInv /\ OneValuePerReply /\ [Next]_vars => OneValuePerReply'
  <2> SUFFICES ASSUME IInv, OneValuePerReply, [Next]_vars PROVE OneValuePerReply'
    OBVIOUS
  <2>1. ASSUME reply' = reply, argv' = argv PROVE OneValuePerReply'
    BY <2>1 DEF OneValuePerReply
  <2>2. ASSUME reply' = <<>> PROVE OneValuePerReply'
    BY <2>2 DEF OneValuePerReply
  <2>3. ASSUME NEW r, Answer(r), OneValue(r), lookupCommand(argv) \notin {"infor", "client", "get"}
        PROVE  OneValuePerReply'
    BY <2>3 DEF OneValuePerReply, OneValue, Answer
  <2>4. ASSUME NEW type, NEW v, type # "array", Answer(<<Item(type, v)>>),
               lookupCommand(argv) \notin {"infor", "client", "get"}
        PROVE  OneValuePerReply'
    BY <2>3, <2>4, SingleItem
  <2>5. CASE \E a \in Requests : GetRequest(a)
    BY <2>2, <2>5 DEF GetRequest
  <2>6. CASE SetCommand \/ DeleteCommand
    <3>1. /\ Answer(<<Item("status", "OK")>>) \/ Answer(<<Item("error", "ERR")>>)
          /\ lookupCommand(argv) \in {"set", "delete"}
      BY <2>6 DEF SetCommand, DeleteCommand, WriteOne, Running, Ok, Error
    <3> QED BY <2>4, <3>1
  <2>7. CASE MsetPair \/ MsetEnd
    <3>1. /\ \/ reply' = reply /\ argv' = argv
             \/ Answer(<<Item("status", "OK")>>)
             \/ Answer(<<Item("error", "ERR")>>)
          /\ lookupCommand(argv) = "mset"
      BY <2>7 DEF MsetPair, MsetEnd, Running, Ok, Error
    <3> QED BY <2>1, <2>4, <3>1
  <2>8. CASE GetCommand
    <3>1. PICK lost \in Lost : Answer(GetReply(lost)) /\ lookupCommand(argv) = "get"
      BY <2>8 DEF GetCommand, ReadCommand, Running
    <3>2. reply' = GetReply(lost) /\ argv' = argv
      BY <3>1 DEF Answer
    <3>3. OneValue(reply') <=> reply'[1].value \notin MultiLine
      BY <3>2, GetReplies
    <3> QED BY <3>1, <3>2, <3>3 DEF OneValuePerReply
  <2>9. CASE MgetCommand
    <3>1. PICK lost \in Lost : Answer(MgetReply(lost)) /\ lookupCommand(argv) = "mget"
      BY <2>9 DEF MgetCommand, ReadCommand, Running
    <3>2. Len(argv) \in Nat /\ Len(argv) >= 2
      <4>1. argv \in Requests /\ lookupCommand(argv) = "mget"
        BY <2>9 DEF MgetCommand, ReadCommand, Running, IInv, Asked
      <4> QED BY <4>1, RequestsAssumption DEF lookupCommand, parameter_num
    <3> QED BY <2>3, <3>1, <3>2, MgetReplies
  <2>10. CASE KeysCommand
    <3>1. PICK r : Answer(r) /\ (r = <<>> \/ r \in KeysReply) /\ lookupCommand(argv) = "keys"
      BY <2>10 DEF KeysCommand, Inform, Running
    <3> QED BY <2>2, <2>3, <3>1, KeysReplies DEF Answer
  <2>11. CASE ClientCommand
    <3>1. PICK r : /\ Answer(r) /\ lookupCommand(argv) = "client"
                   /\ r = <<>> \/ \E n \in Connections : r = ClientReply(n)
      BY <2>11 DEF ClientCommand, Inform, Running
    <3>2. r = <<>> \/ ~OneValue(r)
      BY <3>1, ClientReplies, CommandsAssumption
    <3> QED BY <3>1, <3>2 DEF OneValuePerReply, OneValue, Answer
  <2>12. CASE DbsizeCommand
    BY <2>4, <2>12 DEF DbsizeCommand, Inform, Running
  <2>13. CASE TextCommand
    <3>1. CASE Answer(<<Item("status", "Bye")>>) /\ lookupCommand(argv) = "exit"
      BY <2>4, <3>1
    <3>2. CASE Answer(InforReply) /\ lookupCommand(argv) = "infor"
      BY <3>2, TwoItems DEF InforReply, OneValuePerReply, OneValue, Answer
    <3>3. CASE lookupCommand(argv) = "command" /\ argv' = argv
      BY <3>3 DEF OneValuePerReply
    <3> QED BY <2>13, <3>1, <3>2, <3>3 DEF TextCommand, Inform, Running, Answer
  <2>14. CASE ErrorCommand \/ ShutDownCommand
    <3>1. /\ \/ Answer(<<Item("error", "ERR")>>)
             \/ Answer(<<Item("status", "closed")>>)
          /\ lookupCommand(argv) \in {"error", "shutdown"}
      BY <2>14 DEF ErrorCommand, Inform, ShutDownCommand, Running, Error
    <3> QED BY <2>4, <3>1
  <2>15. CASE FlushRemoved \/ FlushReopen
    <3>1. /\ reply' \in {reply, <<Item("error", "ERR")>>, <<Item("status", "OK")>>}
          /\ lookupCommand(argv) = "flushall" /\ argv' = argv
      BY <2>15 DEF FlushRemoved, FlushReopen, Answer, Ok, Error, IInv, Asked
    <3>2. reply' = reply \/ OneValue(reply')
      BY <3>1, SingleItem
    <3> QED BY <2>1, <3>1, <3>2 DEF OneValuePerReply
  <2>16. CASE Start \/ FlushAllCommand \/ BadAccess \/ Exit \/ Crash \/ OldShell \/ UNCHANGED vars
    BY <2>1, <2>16 DEF Start, FlushAllCommand, BadAccess, Exit, Crash, OldShell, vars,
                       requestVars
  <2> QED
    BY <2>5, <2>6, <2>7, <2>8, <2>9, <2>10, <2>11, <2>12, <2>13, <2>14, <2>15, <2>16
    DEF Next
<1> QED BY InitIInv, NextIInv, <1>1, <1>2, PTL DEF Spec
=============================================================================
