-------------------------------- MODULE SBuf --------------------------------
(***************************************************************************)
(* The thread-pool prototype: main of test/echoservert.c accepts           *)
(* connections and puts their descriptors into the bounded buffer of       *)
(* test/sbuf.c, from which the worker threads take them.  Every P, V and   *)
(* access to the buffer is a step of its own.  Connections are numbered as *)
(* they are accepted; the kernel hands the number of a closed descriptor   *)
(* out again.                                                              *)
(***************************************************************************)
EXTENDS Integers, FiniteSets

CONSTANTS
  Main,          \* the thread that accepts
  Workers,       \* the threads of the pool (NTHREADS)
  n,             \* slots of the buffer (SBUFSIZE)
  Limits,        \* how many descriptors the process may be allowed to open
  IntMax,        \* INT_MAX, the largest value of front and rear
  MaxAccepts,    \* bound: connections accepted
  Idle           \* connections whose client never ends

ASSUME SBufAssumption ==
  /\ Main \notin Workers
  /\ IsFiniteSet(Workers)
  /\ n \in Nat \ {0}
  /\ Limits \subseteq Nat \ {0}
  /\ IntMax \in Nat \ {0}
  /\ MaxAccepts \in Nat
  /\ Idle \subseteq 1..MaxAccepts

Threads == {Main} \cup Workers

VARIABLES
  \* sbuf_t
  buf, front, rear,
  sem,           \* the semaphores mutex, slots and items
  \* the threads
  pc,
  connfd,        \* the descriptor a thread holds
  index,         \* ++rear or ++front before it is stored, else 0
  \* the kernel
  limit,         \* the process may open the descriptors 1..limit
  owner,         \* the connection a descriptor is open on, or 0
  accepted,      \* number of connections accepted
  closed         \* history: the connections closed

sbufVars   == <<buf, front, rear>>
kernelVars == <<limit, owner, accepted, closed>>
vars == <<sbufVars, sem, pc, connfd, index, kernelVars>>

\* sbuf_init, and the threads of main.
Init ==
  /\ limit \in Limits
  /\ buf = [i \in 0..n-1 |-> 0]
  /\ front = 0 /\ rear = 0
  /\ sem = [mutex |-> 1, slots |-> n, items |-> 0]
  /\ pc = [t \in Threads |-> IF t = Main THEN "accept" ELSE "remove"]
  /\ connfd = [t \in Threads |-> 0]
  /\ index = [t \in Threads |-> 0]
  /\ owner = [fd \in 1..limit |-> 0]
  /\ accepted = 0
  /\ closed = {}

Goto(t, from, to) == pc[t] = from /\ pc' = [pc EXCEPT ![t] = to]

\* Mutant: a sem_wait that fails is taken for one that returned.
PNoWait(s) == sem' = [sem EXCEPT ![s] = @ - 1]

P(s) == sem[s] > 0 /\ sem' = [sem EXCEPT ![s] = @ - 1]
V(s) == sem' = [sem EXCEPT ![s] = @ + 1]

\* ++ on an int.
Increment(k) == IF k = IntMax THEN -IntMax - 1 ELSE k + 1

\* Mutant: the slots are counted from one.
SlotFromOne(k) == (k % n) + 1

\* % as C defines it: with the sign of the dividend.
Slot(k) == IF k >= 0 THEN k % n ELSE -((-k) % n)

-----------------------------------------------------------------------------
(***************************************************************************)
(* main                                                                    *)
(***************************************************************************)
\* A new descriptor is the lowest that is free.
Accept(fd) ==
  /\ accepted < MaxAccepts
  /\ Goto(Main, "accept", "insert")
  /\ owner[fd] = 0 /\ \A lower \in 1..fd-1 : owner[lower] # 0
  /\ owner' = [owner EXCEPT ![fd] = accepted + 1]
  /\ accepted' = accepted + 1
  /\ connfd' = [connfd EXCEPT ![Main] = fd]
  /\ UNCHANGED <<sbufVars, sem, index, limit, closed>>

\* Without a free descriptor Accept exits.
AcceptFails ==
  /\ accepted < MaxAccepts
  /\ \A fd \in 1..limit : owner[fd] # 0
  /\ Goto(Main, "accept", "exited")
  /\ UNCHANGED <<sbufVars, sem, connfd, index, kernelVars>>

(***************************************************************************)
(* sbuf_insert, of main, and sbuf_remove, of a worker                      *)
(***************************************************************************)
\* Mutants: the producer does not wait for a slot, or waits with the mutex.
NoWaitSlot ==
  /\ Goto(Main, "insert", "lock")
  /\ UNCHANGED <<sbufVars, sem, connfd, index, kernelVars>>

WaitSlotLocked ==
  /\ \/ Goto(Main, "insert", "full") /\ P("mutex")
     \/ Goto(Main, "full", "load") /\ P("slots")
  /\ UNCHANGED <<sbufVars, connfd, index, kernelVars>>

WaitSlot ==
  /\ Goto(Main, "insert", "lock")
  /\ P("slots")
  /\ UNCHANGED <<sbufVars, connfd, index, kernelVars>>

WaitItem(w) ==
  /\ Goto(w, "remove", "lock")
  /\ P("items")
  /\ UNCHANGED <<sbufVars, connfd, index, kernelVars>>

\* Mutant: the buffer is not locked.
NoLock(t) ==
  /\ Goto(t, "lock", "load")
  /\ UNCHANGED <<sbufVars, sem, connfd, index, kernelVars>>

Lock(t) ==
  /\ Goto(t, "lock", "load")
  /\ P("mutex")
  /\ UNCHANGED <<sbufVars, connfd, index, kernelVars>>

Load(t) ==
  /\ Goto(t, "load", "access")
  /\ index' = [index EXCEPT ![t] = Increment(IF t = Main THEN rear ELSE front)]
  /\ UNCHANGED <<sbufVars, sem, connfd, kernelVars>>

\* buf[(++rear)%(n)] = item.  An index outside buf is fatal.
Store ==
  /\ rear' = index[Main]
  /\ IF Slot(index[Main]) \in 0..n-1
       THEN /\ Goto(Main, "access", "unlock")
            /\ buf' = [buf EXCEPT ![Slot(index[Main])] = connfd[Main]]
       ELSE /\ Goto(Main, "access", "crashed")
            /\ UNCHANGED buf
  /\ index' = [index EXCEPT ![Main] = 0]
  /\ UNCHANGED <<front, sem, connfd, kernelVars>>

\* item = buf[(++front)%(n)].  A slot that was stored is in buf.
Fetch(w) ==
  /\ Goto(w, "access", "unlock")
  /\ front' = index[w]
  /\ connfd' = [connfd EXCEPT ![w] = buf[Slot(index[w])]]
  /\ index' = [index EXCEPT ![w] = 0]
  /\ UNCHANGED <<buf, rear, sem, kernelVars>>

Unlock(t) ==
  /\ Goto(t, "unlock", "post")
  /\ V("mutex")
  /\ UNCHANGED <<sbufVars, connfd, index, kernelVars>>

PostItem ==
  /\ Goto(Main, "post", "accept")
  /\ V("items")
  /\ UNCHANGED <<sbufVars, connfd, index, kernelVars>>

\* Mutant: the slot is not given back.
NoPostSlot(w) ==
  /\ Goto(w, "post", "echo")
  /\ UNCHANGED <<sbufVars, sem, connfd, index, kernelVars>>

PostSlot(w) ==
  /\ Goto(w, "post", "echo")
  /\ V("slots")
  /\ UNCHANGED <<sbufVars, connfd, index, kernelVars>>

(***************************************************************************)
(* thread.  echo serves the connection until its client ends.              *)
(***************************************************************************)
Echo(w) ==
  /\ Goto(w, "echo", "close")
  /\ owner[connfd[w]] \notin Idle
  /\ UNCHANGED <<sbufVars, sem, connfd, index, kernelVars>>

Close(w) ==
  /\ Goto(w, "close", "remove")
  /\ owner' = [owner EXCEPT ![connfd[w]] = 0]
  /\ closed' = closed \cup {owner[connfd[w]]}
  /\ UNCHANGED <<sbufVars, sem, connfd, index, limit, accepted>>

-----------------------------------------------------------------------------
\* exit and a fault end every thread.
Running == \A t \in Threads : pc[t] \notin {"exited", "crashed"}

Insert == WaitSlot \/ Lock(Main) \/ Load(Main) \/ Store \/ Unlock(Main) \/ PostItem
Remove(w) == WaitItem(w) \/ Lock(w) \/ Load(w) \/ Fetch(w) \/ Unlock(w) \/ PostSlot(w)

Next ==
  /\ Running
  /\ \/ \E fd \in 1..limit : Accept(fd)
     \/ AcceptFails
     \/ Insert
     \/ \E w \in Workers : Remove(w) \/ Echo(w) \/ Close(w)

\* Each thread goes on when it can; clients may stop to connect.  No order is
\* assumed among the threads that wait for a semaphore.
Fairness ==
  /\ WF_vars(Running /\ Insert)
  /\ \A w \in Workers : WF_vars(Running /\ (Remove(w) \/ Echo(w) \/ Close(w)))

Spec == Init /\ [][Next]_vars /\ Fairness

-----------------------------------------------------------------------------
States == {"accept", "insert", "remove", "lock", "load", "access", "unlock",
           "post", "echo", "close", "exited", "crashed"}

TypeOK ==
  /\ buf \in [0..n-1 -> 0..limit]
  /\ front \in -IntMax-1..IntMax /\ rear \in -IntMax-1..IntMax
  /\ sem \in [{"mutex", "slots", "items"} -> Nat]
  /\ pc \in [Threads -> States]
  /\ connfd \in [Threads -> 0..limit]
  /\ index \in [Threads -> -IntMax-1..IntMax]
  /\ limit \in Limits
  /\ owner \in [1..limit -> 0..MaxAccepts]
  /\ accepted \in 0..MaxAccepts
  /\ closed \subseteq 1..MaxAccepts

\* The connection a worker serves: it has removed the descriptor from the
\* buffer and has not closed it.
Serves(w) == pc[w] \in {"unlock", "post", "echo", "close"}
serving == [w \in Workers |-> IF Serves(w) THEN owner[connfd[w]] ELSE 0]

\* How many descriptors main inserted and the workers removed.
inserted == IF pc[Main] \in {"insert", "lock", "load", "access", "crashed"}
              THEN accepted - 1 ELSE accepted
removed == Cardinality(closed) + Cardinality({w \in Workers : Serves(w)})

\* The buffer holds the connections that wait, in the order in which they were
\* accepted: no slot is overwritten before it is read, whatever the threads do
\* between P and V, and though the kernel gives the numbers of closed
\* descriptors out again.
BufferHoldsWaiting ==
  \A i \in 1..inserted - removed :
    LET k == removed + i
        wrapped == ((k + IntMax + 1) % (2 * IntMax + 2)) - (IntMax + 1)
    IN  owner[buf[Slot(wrapped)]] = k

\* At every moment no more than n connections wait in the buffer, and the
\* semaphores account for each of them.
SlotsAccountedFor ==
  /\ inserted - removed \in 0..n
  /\ sem.slots + sem.items + Cardinality({t \in Threads :
       pc[t] \in {"lock", "load", "access", "unlock", "post", "crashed"}}) = n

\* The pool never opens more descriptors than the slots of the buffer, one for
\* each worker and one for main: with a limit above that accept does not fail for
\* want of a descriptor.
ExitsOnlyBelowLimit ==
  pc[Main] = "exited" => limit <= n + Cardinality(Workers)

\* front and rear are never reset, and count every connection: after INT_MAX
\* of them an index is negative.  Before that no access leaves the buffer.
CrashesOnlyAfterWrap ==
  (\E t \in Threads : pc[t] = "crashed") => accepted > IntMax

\* A connection whose client ends is served and closed, as long as not every
\* worker has a client that never ends.
AllServed ==
  \A c \in 1..MaxAccepts \ Idle :
    accepted >= c ~> c \in closed \/ ~Running \/ Cardinality(Idle) >= Cardinality(Workers)

\* Together the threads serve every connection once, by one worker, first come
\* first served.
Pool == INSTANCE Dispatch WITH Backlog <- n
DispatchSpec == Pool!Spec
=============================================================================
