------------------------------ MODULE SBufProofs ------------------------------
(***************************************************************************)
(* Proofs about module SBuf, for any number of workers, slots, descriptors *)
(* and connections, up to INT_MAX connections: before the counters front   *)
(* and rear overflow.                                                      *)
(***************************************************************************)
EXTENDS SBuf, TLAPS, FiniteSetTheorems

NoOverflow == MaxAccepts <= IntMax

-----------------------------------------------------------------------------
(***************************************************************************)
(* Arithmetic of the indices.                                              *)
(***************************************************************************)
\* Two of n successive numbers are never in the same slot.
LEMMA SlotsDiffer ==
  ASSUME NEW m \in Nat \ {0}, NEW a \in Nat, NEW b \in Nat, a < b, b < a + m
  PROVE  a % m # b % m
<1> SUFFICES ASSUME a % m = b % m PROVE FALSE
  OBVIOUS
<1> DEFINE q == b \div m - a \div m
<1>1. q \in Int /\ b - a = m * q
  BY SMT
<1>2. CASE q <= 0
  <2>1. m * q <= 0
    BY <1>1, <1>2, SMT
  <2> QED BY <1>1, <2>1
<1>3. CASE q >= 1
  <2>1. m * q >= m
    BY <1>1, <1>3, SMT
  <2> QED BY <1>1, <2>1
<1> QED BY <1>1, <1>2, <1>3

LEMMA ModRange ==
  ASSUME NEW m \in Nat \ {0}, NEW a \in Nat
  PROVE  a % m \in 0..m-1
BY SMT

LEMMA SlotOf ==
  ASSUME NEW k \in Nat PROVE Slot(k) = k % n /\ Slot(k) \in 0..n-1
BY SBufAssumption, ModRange DEF Slot

LEMMA ModSmall ==
  ASSUME NEW m \in Nat \ {0}, NEW a \in 0..m-1
  PROVE  a % m = a
<1> DEFINE q == a \div m
<1>1. q \in Int /\ a = m * q + (a % m) /\ a % m \in 0..m-1
  BY SMT
<1>2. q = 0
  <2>1. CASE q >= 1
    <3>1. m * q >= m
      BY <1>1, <2>1, SMT
    <3> QED BY <1>1, <3>1
  <2>2. CASE q <= -1
    <3>1. m * q <= -m
      BY <1>1, <2>2, SMT
    <3> QED BY <1>1, <3>1
  <2> QED BY <1>1, <2>1, <2>2
<1> QED BY <1>1, <1>2

-----------------------------------------------------------------------------
(***************************************************************************)
(* How many workers are at the labels S.                                   *)
(***************************************************************************)
At(f, S) == {w \in Workers : f[w] \in S}
Count(f, S) == Cardinality(At(f, S))

Moved(from, to, S) == (IF to \in S THEN 1 ELSE 0) - (IF from \in S THEN 1 ELSE 0)

\* A step of one worker moves the count by one or leaves it.
LEMMA CountMoves ==
  ASSUME NEW f, NEW g, NEW S, NEW w \in Workers, \A v \in Workers \ {w} : g[v] = f[v],
         NEW from, f[w] = from, NEW to, g[w] = to
  PROVE  /\ Count(f, S) \in Nat
         /\ Count(g, S) = Count(f, S) + Moved(from, to, S)
<1>1. IsFiniteSet(At(f, S)) /\ Cardinality(At(f, S)) \in Nat
  <2>1. At(f, S) \in SUBSET Workers
    BY DEF At
  <2> QED BY <2>1, SBufAssumption, FS_Subset, FS_CardinalityType
<1>2. w \in At(f, S) <=> f[w] \in S
  BY DEF At
<1>3. CASE to \in S
  <2>1. At(g, S) = At(f, S) \cup {w}
    BY <1>3 DEF At
  <2>2. Cardinality(At(g, S)) = IF w \in At(f, S) THEN Cardinality(At(f, S))
                                                ELSE Cardinality(At(f, S)) + 1
    BY <1>1, <2>1, FS_AddElement
  <2> QED BY <1>1, <1>2, <1>3, <2>2 DEF Count, Moved
<1>4. CASE to \notin S
  <2>1. At(g, S) = At(f, S) \ {w}
    BY <1>4 DEF At
  <2>2. Cardinality(At(g, S)) = IF w \in At(f, S) THEN Cardinality(At(f, S)) - 1
                                                ELSE Cardinality(At(f, S))
    BY <1>1, <2>1, FS_RemoveElement
  <2> QED BY <1>1, <1>2, <1>4, <2>2 DEF Count, Moved
<1> QED BY <1>3, <1>4

LEMMA CountTyped ==
  ASSUME NEW f, NEW S PROVE Count(f, S) \in Nat
<1>1. At(f, S) \in SUBSET Workers
  BY DEF At
<1> QED BY <1>1, SBufAssumption, FS_Subset, FS_CardinalityType DEF Count

\* A step of main leaves it.
LEMMA CountStays ==
  ASSUME NEW f, NEW g, NEW S, \A v \in Workers : g[v] = f[v]
  PROVE  Count(g, S) = Count(f, S)
<1>1. At(g, S) = At(f, S)
  BY DEF At
<1> QED BY <1>1 DEF Count

LEMMA CountPositive ==
  ASSUME NEW f \in [Threads -> States], NEW w \in Workers, NEW S, f[w] \in S
  PROVE  Count(f, S) \in Nat /\ Count(f, S) >= 1
<1>1. At(f, S) \in SUBSET Workers /\ At(f, S) # {}
  BY DEF At
<1>2. IsFiniteSet(At(f, S)) /\ Cardinality(At(f, S)) \in Nat
  BY <1>1, SBufAssumption, FS_Subset, FS_CardinalityType
<1>3. Cardinality(At(f, S)) # 0
  BY <1>1, <1>2, FS_EmptySet
<1> QED BY <1>2, <1>3 DEF Count

-----------------------------------------------------------------------------
(***************************************************************************)
(* The inductive invariant.                                                *)
(***************************************************************************)
\* Main and the workers are at labels of their own, and nothing crashes.
Labels ==
  /\ pc[Main] \in {"accept", "insert", "lock", "load", "access", "unlock", "post",
                   "exited"}
  /\ \A w \in Workers : pc[w] \in {"remove", "lock", "load", "access", "unlock",
                                   "post", "echo", "close"}

\* The threads exclude each other while they hold the mutex.
Locked == {"load", "access", "unlock"}
Mutex ==
  /\ sem.mutex = IF \E t \in Threads : pc[t] \in Locked THEN 0 ELSE 1
  /\ \A t, u \in Threads : pc[t] \in Locked /\ pc[u] \in Locked => t = u

\* front and rear count what was removed and inserted, and the one that is being
\* incremented stays what it was when it was loaded.
Indices ==
  /\ rear = inserted
  /\ front \in 0..rear
  /\ index[Main] = IF pc[Main] = "access" THEN rear + 1 ELSE 0
  /\ \A w \in Workers : index[w] = IF pc[w] = "access" THEN front + 1 ELSE 0

\* items and slots count what the buffer holds and has room for, but for the
\* threads that are between a P and the next V.
Taking == {"lock", "load", "access"}
Leaving == {"unlock", "post"}
Semaphores ==
  /\ rear - front = sem.items + (IF pc[Main] \in Leaving THEN 1 ELSE 0) + Count(pc, Taking)
  /\ n - (rear - front) =
       sem.slots + (IF pc[Main] \in Taking THEN 1 ELSE 0) + Count(pc, Leaving)

\* The buffer holds the connections that wait, and main the one after them.
Buffered ==
  \A k \in front+1..rear : buf[k % n] \in 1..limit /\ owner[buf[k % n]] = k

MainHolds == pc[Main] \in {"insert"} \cup Taking
Held == MainHolds => connfd[Main] \in 1..limit /\ owner[connfd[Main]] = accepted

\* The connections before them are served, each by one worker, or closed.
Served ==
  /\ closed \subseteq 1..front
  /\ \A w \in Workers : Serves(w) =>
       /\ connfd[w] \in 1..limit
       /\ owner[connfd[w]] \in 1..front
       /\ owner[connfd[w]] \notin closed
  /\ \A w1, w2 \in Workers :
       Serves(w1) /\ Serves(w2) /\ owner[connfd[w1]] = owner[connfd[w2]] => w1 = w2
  /\ \A c \in 1..front :
       c \in closed \/ \E w \in Workers : Serves(w) /\ owner[connfd[w]] = c

\* A connection has one descriptor, and a descriptor that is open is main's, in
\* the buffer, or a worker's.
Owners ==
  /\ \A fd1, fd2 \in 1..limit : owner[fd1] = owner[fd2] /\ owner[fd1] # 0 => fd1 = fd2
  /\ \A fd \in 1..limit :
       \/ owner[fd] = 0
       \/ owner[fd] \in front+1..accepted
       \/ \E w \in Workers : Serves(w) /\ connfd[w] = fd

IInv ==
  /\ TypeOK /\ Labels /\ Mutex /\ Indices /\ Semaphores
  /\ Buffered /\ Held /\ Served /\ Owners

LEMMA InitIInv == Init => IInv
<1> SUFFICES ASSUME Init PROVE IInv
  OBVIOUS
<1> USE SBufAssumption DEF Init
<1>1. TypeOK
  BY DEF TypeOK, Threads, States
<1>2. Labels /\ Mutex /\ Indices
  <2>1. \A w \in Workers : pc[w] = "remove"
    BY DEF Threads
  <2>2. pc[Main] = "accept"
    BY DEF Threads
  <2>3. \A t \in Threads : pc[t] \notin Locked
    BY DEF Threads, Locked
  <2>4. Labels
    BY <2>1, <2>2 DEF Labels
  <2>5. Mutex
    BY <2>3 DEF Mutex
  <2>6. Indices
    BY <2>1, <2>2 DEF Indices, inserted, Threads
  <2> QED BY <2>4, <2>5, <2>6
<1>3. Count(pc, Taking) = 0 /\ Count(pc, Leaving) = 0
  <2>1. At(pc, Taking) = {} /\ At(pc, Leaving) = {}
    BY DEF At, Taking, Leaving, Threads
  <2> QED BY <2>1, FS_EmptySet DEF Count
<1>4. Semaphores
  BY <1>3 DEF Semaphores, Taking, Leaving, Threads
<1>5. Buffered /\ Held
  BY DEF Buffered, Held, MainHolds, Taking, Threads
<1>6. Served /\ Owners
  <2>1. \A w \in Workers : ~Serves(w)
    BY DEF Serves, Threads
  <2>2. limit \in Nat /\ \A fd \in 1..limit : owner[fd] = 0
    OBVIOUS
  <2> QED BY <2>1, <2>2 DEF Served, Owners
<1> QED BY <1>1, <1>2, <1>4, <1>5, <1>6 DEF IInv

-----------------------------------------------------------------------------
(***************************************************************************)
(* Facts about a step.                                                     *)
(***************************************************************************)
LEMMA WorkerGoes ==
  ASSUME TypeOK, NEW w \in Workers, NEW from, NEW to \in States, Goto(w, from, to)
  PROVE  /\ pc[w] = from /\ pc'[w] = to /\ \A t \in Threads \ {w} : pc'[t] = pc[t]
         /\ pc' \in [Threads -> States]
         /\ pc'[Main] = pc[Main]
         /\ \A S :
              /\ Count(pc, S) \in Nat
              /\ Count(pc', S) = Count(pc, S) + Moved(from, to, S)
<1>1. /\ pc[w] = from /\ pc'[w] = to /\ \A t \in Threads \ {w} : pc'[t] = pc[t]
      /\ pc' \in [Threads -> States]
      /\ Main \in Threads \ {w} /\ \A v \in Workers \ {w} : pc'[v] = pc[v]
  BY SBufAssumption DEF TypeOK, Goto, Threads
<1>2. ASSUME NEW S
      PROVE  /\ Count(pc, S) \in Nat
             /\ Count(pc', S) = Count(pc, S) + Moved(from, to, S)
  <2>1. ASSUME NEW f, NEW g, \A v \in Workers \ {w} : g[v] = f[v], f[w] = from, g[w] = to
        PROVE Count(f, S) \in Nat /\ Count(g, S) = Count(f, S) + Moved(from, to, S)
    BY <2>1, CountMoves
  <2> QED BY <1>1, <2>1
<1> QED BY <1>1, <1>2

LEMMA MainGoes ==
  ASSUME TypeOK, NEW from, NEW to \in States, Goto(Main, from, to)
  PROVE  /\ pc[Main] = from /\ pc'[Main] = to
         /\ \A w \in Workers : w # Main /\ pc'[w] = pc[w]
         /\ pc' \in [Threads -> States]
         /\ \A S : Count(pc', S) = Count(pc, S)
<1>1. /\ pc[Main] = from /\ pc'[Main] = to
      /\ \A w \in Workers : w # Main /\ pc'[w] = pc[w]
      /\ pc' \in [Threads -> States]
  BY SBufAssumption DEF TypeOK, Goto, Threads
<1>2. ASSUME NEW S PROVE Count(pc', S) = Count(pc, S)
  BY <1>1, CountStays
<1> QED BY <1>1, <1>2

\* What the counters bound.
LEMMA Bounds ==
  ASSUME NoOverflow, IInv
  PROVE  /\ accepted \in 0..MaxAccepts /\ rear \in 0..accepted /\ front \in 0..rear
         /\ rear - front <= n /\ rear + 1 \in Nat /\ front + 1 \in Nat
         /\ accepted - 1 \in Int /\ inserted = rear
         /\ MainHolds => rear + 1 = accepted
         /\ pc[Main] \in Taking => rear - front < n
         /\ pc[Main] \notin {"insert"} \cup Taking => rear = accepted
         /\ \A w \in Workers : pc[w] \in Taking => front < rear
<1>0. /\ accepted \in 0..MaxAccepts /\ MaxAccepts \in Nat /\ n \in Nat /\ front \in 0..rear
      /\ sem.items \in Nat /\ sem.slots \in Nat /\ sem.mutex \in Nat
  BY SBufAssumption DEF IInv, TypeOK, Indices
<1>1. rear \in 0..accepted /\ rear = inserted
  BY <1>0 DEF IInv, Indices, inserted, TypeOK, NoOverflow
<1>2. MainHolds => rear + 1 = accepted
  BY <1>0, <1>1 DEF MainHolds, Taking, inserted
<1>3. pc[Main] \notin {"insert"} \cup Taking => rear = accepted
  BY <1>0, <1>1 DEF Taking, inserted, IInv, Labels
<1>4. Count(pc, Taking) \in Nat /\ Count(pc, Leaving) \in Nat
  BY CountTyped
<1>5. rear - front <= n /\ (pc[Main] \in Taking => rear - front < n)
  BY <1>0, <1>1, <1>4 DEF IInv, Semaphores
<1>6. ASSUME NEW w \in Workers, pc[w] \in Taking PROVE front < rear
  <2>1. Count(pc, Taking) >= 1
    BY <1>6, CountPositive DEF IInv, TypeOK
  <2> QED BY <1>0, <1>1, <1>4, <2>1 DEF IInv, Semaphores
<1> QED BY <1>0, <1>1, <1>2, <1>3, <1>5, <1>6

\* The actions one by one.
LEMMA Steps ==
  ASSUME Next
  PROVE  \/ \E fd \in 1..limit : Accept(fd)
         \/ AcceptFails \/ WaitSlot \/ Store \/ PostItem
         \/ \E t \in Threads : Lock(t) \/ Load(t) \/ Unlock(t)
         \/ \E w \in Workers : WaitItem(w) \/ Fetch(w) \/ PostSlot(w) \/ Echo(w) \/ Close(w)
BY DEF Next, Insert, Remove, Threads

\* The steps that serve no other connections than before, and close none.
Quiet ==
  /\ UNCHANGED <<kernelVars, connfd>>
  /\ \A w \in Workers : Serves(w)' <=> Serves(w)

LEMMA QuietSteps ==
  ASSUME IInv, Next,
         ~ \E fd \in 1..limit : Accept(fd),
         ~ \E w \in Workers : Fetch(w) \/ Close(w)
  PROVE  Quiet /\ UNCHANGED front
<1> USE SBufAssumption DEF IInv, TypeOK, Goto, Serves, Quiet, Threads
<1>1. CASE AcceptFails \/ WaitSlot \/ Store \/ PostItem
  BY <1>1 DEF AcceptFails, WaitSlot, Store, PostItem, sbufVars
<1>2. ASSUME NEW t \in Threads, Lock(t) \/ Load(t) \/ Unlock(t) PROVE Quiet /\ UNCHANGED front
  BY <1>2 DEF Lock, Load, Unlock, sbufVars
<1>3. ASSUME NEW w \in Workers, WaitItem(w) \/ PostSlot(w) \/ Echo(w)
      PROVE  Quiet /\ UNCHANGED front
  BY <1>3 DEF WaitItem, PostSlot, Echo, sbufVars
<1> QED BY <1>1, <1>2, <1>3, Steps

-----------------------------------------------------------------------------
(***************************************************************************)
(* One lemma for each part of the invariant.                               *)
(***************************************************************************)
LEMMA NextLabels ==
  ASSUME NoOverflow, IInv, Next PROVE Labels'
<1> USE SBufAssumption DEF IInv, TypeOK, Labels, Goto, Threads
<1>1. ASSUME NEW fd \in 1..limit, Accept(fd) PROVE Labels'
  BY <1>1 DEF Accept
<1>2. CASE AcceptFails \/ WaitSlot \/ PostItem
  BY <1>2 DEF AcceptFails, WaitSlot, PostItem
<1>3. CASE Store
  <2>1. index[Main] \in Nat /\ Slot(index[Main]) \in 0..n-1
    <3>1. index[Main] = rear + 1 /\ rear + 1 \in Nat
      BY <1>3, Bounds DEF Store, Indices
    <3> QED BY <3>1, SlotOf
  <2> QED BY <1>3, <2>1 DEF Store
<1>4. ASSUME NEW t \in Threads, Lock(t) \/ Load(t) \/ Unlock(t) PROVE Labels'
  BY <1>4 DEF Lock, Load, Unlock
<1>5. ASSUME NEW w \in Workers, WaitItem(w) \/ Fetch(w) \/ PostSlot(w) \/ Echo(w) \/ Close(w)
      PROVE  Labels'
  BY <1>5 DEF WaitItem, Fetch, PostSlot, Echo, Close
<1> QED BY <1>1, <1>2, <1>3, <1>4, <1>5, Steps

LEMMA NextMutex ==
  ASSUME NoOverflow, IInv, Next PROVE Mutex'
<1>0. /\ Mutex /\ pc \in [Threads -> States] /\ sem \in [{"mutex", "slots", "items"} -> Nat]
      /\ Main \in Threads /\ Workers \subseteq Threads
  BY DEF IInv, TypeOK, Threads
<1>goto. ASSUME NEW t \in Threads, NEW from, NEW to, Goto(t, from, to)
         PROVE  /\ pc[t] = from /\ pc'[t] = to
                /\ \A u \in Threads \ {t} : pc'[u] = pc[u]
  BY <1>0, <1>goto DEF Goto
<1>stays. ASSUME NEW t \in Threads, NEW from, NEW to, Goto(t, from, to),
             from \in Locked <=> to \in Locked, sem'.mutex = sem.mutex
      PROVE  Mutex'
  <2>1. \A u \in Threads : pc'[u] \in Locked <=> pc[u] \in Locked
    BY <1>stays, <1>goto
  <2> QED BY <1>0, <1>stays, <2>1 DEF Mutex
<1>others. ASSUME NEW s \in {"slots", "items"}, P(s) \/ V(s) PROVE sem'.mutex = sem.mutex
  BY <1>0, <1>others DEF P, V
<1>1. ASSUME NEW fd \in 1..limit, Accept(fd) PROVE Mutex'
  BY <1>0, <1>1, <1>stays DEF Accept, Locked
<1>2. CASE AcceptFails \/ WaitSlot \/ PostItem
  <2>1. CASE AcceptFails
    BY <1>0, <1>stays, <2>1 DEF AcceptFails, Locked
  <2>2. CASE WaitSlot
    BY <1>0, <1>stays, <1>others, <2>2 DEF WaitSlot, Locked
  <2>3. CASE PostItem
    BY <1>0, <1>stays, <1>others, <2>3 DEF PostItem, Locked
  <2> QED BY <1>2, <2>1, <2>2, <2>3
<1>3. CASE Store
  <2>1. Goto(Main, "access", "unlock")
    BY <1>0, <1>3, NextLabels DEF Store, Labels, Goto
  <2> QED BY <1>0, <1>3, <1>stays, <2>1 DEF Store, Locked
<1>4. ASSUME NEW t \in Threads, Lock(t) PROVE Mutex'
  <2>1. sem.mutex = 1 /\ sem'.mutex = 0
    BY <1>0, <1>4 DEF Lock, P, Mutex
  <2>2. \A u \in Threads : pc[u] \notin Locked
    BY <1>0, <2>1 DEF Mutex
  <2>3. /\ pc'[t] = "load"
        /\ \A u \in Threads \ {t} : pc'[u] \notin Locked
    BY <1>4, <1>goto, <2>2 DEF Lock
  <2> QED BY <2>1, <2>3 DEF Mutex, Locked
<1>5. ASSUME NEW t \in Threads, Load(t) PROVE Mutex'
  BY <1>5, <1>stays DEF Load, Locked
<1>6. ASSUME NEW t \in Threads, Unlock(t) PROVE Mutex'
  <2>1. /\ pc[t] = "unlock" /\ pc'[t] = "post"
        /\ \A u \in Threads \ {t} : pc'[u] = pc[u]
    BY <1>6, <1>goto DEF Unlock
  <2>2. sem.mutex = 0
    BY <1>0, <2>1 DEF Mutex, Locked
  <2>3. sem'.mutex = 1
    BY <1>0, <1>6, <2>2 DEF Unlock, V
  <2>4. \A u \in Threads : pc'[u] \notin Locked
    BY <1>0, <2>1 DEF Mutex, Locked
  <2> QED BY <2>3, <2>4 DEF Mutex
<1>7. ASSUME NEW w \in Workers, WaitItem(w) \/ Fetch(w) \/ PostSlot(w) \/ Echo(w) \/ Close(w)
      PROVE  Mutex'
  <2>1. CASE WaitItem(w)
    BY <1>0, <1>stays, <1>others, <2>1 DEF WaitItem, Locked
  <2>2. CASE Fetch(w)
    BY <1>0, <1>stays, <2>2 DEF Fetch, Locked
  <2>3. CASE PostSlot(w)
    BY <1>0, <1>stays, <1>others, <2>3 DEF PostSlot, Locked
  <2>4. CASE Echo(w)
    BY <1>0, <1>stays, <2>4 DEF Echo, Locked
  <2>5. CASE Close(w)
    BY <1>0, <1>stays, <2>5 DEF Close, Locked
  <2> QED BY <1>7, <2>1, <2>2, <2>3, <2>4, <2>5
<1> QED BY <1>1, <1>2, <1>3, <1>4, <1>5, <1>6, <1>7, Steps

LEMMA PcTyped ==
  ASSUME TypeOK, NEW t \in Threads, NEW from, NEW to \in States, Goto(t, from, to)
  PROVE  pc' \in [Threads -> States]
BY DEF TypeOK, Goto

LEMMA SemTyped ==
  ASSUME TypeOK, NEW s \in {"mutex", "slots", "items"}, P(s) \/ V(s)
  PROVE  sem' \in [{"mutex", "slots", "items"} -> Nat]
BY DEF TypeOK, P, V

LEMMA NextTypeOK ==
  ASSUME NoOverflow, IInv, Next PROVE TypeOK'
<1>0. TypeOK /\ Main \in Threads /\ Workers \subseteq Threads
  BY DEF IInv, Threads
<1> DEFINE PcOK == pc' \in [Threads -> States]
           SemOK == sem' \in [{"mutex", "slots", "items"} -> Nat]
<1> USE <1>0, PcTyped, SemTyped DEF States
<1>1. ASSUME NEW fd \in 1..limit, Accept(fd) PROVE TypeOK'
  <2>1. PcOK
    BY <1>1 DEF Accept
  <2>2. accepted + 1 \in 0..MaxAccepts
    BY <1>1, SBufAssumption DEF Accept, TypeOK
  <2> HIDE PcTyped, SemTyped
  <2>3. owner' \in [1..limit' -> 0..MaxAccepts] /\ connfd' \in [Threads -> 0..limit']
    BY <1>1, <2>2 DEF Accept, TypeOK
  <2> QED BY <1>1, <2>1, <2>2, <2>3 DEF Accept, sbufVars, TypeOK
<1>2. CASE AcceptFails
  <2>1. PcOK
    BY <1>2 DEF AcceptFails
  <2> HIDE PcTyped, SemTyped
  <2> QED BY <1>2, <2>1 DEF AcceptFails, sbufVars, kernelVars, TypeOK
<1>3. CASE WaitSlot \/ PostItem
  <2>1. PcOK
    BY <1>3 DEF WaitSlot, PostItem
  <2>2. SemOK
    BY <1>3 DEF WaitSlot, PostItem
  <2> HIDE PcTyped, SemTyped
  <2> QED BY <1>3, <2>1, <2>2 DEF WaitSlot, PostItem, sbufVars, kernelVars, TypeOK
<1>4. CASE Store
  <2>1. PcOK
    BY <1>4 DEF Store
  <2>2. buf' \in [0..n-1 -> 0..limit']
    <3>1. connfd[Main] \in 0..limit
      BY DEF TypeOK
    <3> QED BY <1>4, <3>1 DEF Store, kernelVars, TypeOK
  <2>3. rear' \in -IntMax-1..IntMax /\ index' \in [Threads -> -IntMax-1..IntMax]
    <3> HIDE PcTyped, SemTyped
    <3>1. 0 \in -IntMax-1..IntMax
      BY SBufAssumption
    <3> QED BY <1>4, <3>1 DEF Store, TypeOK
  <2> HIDE PcTyped, SemTyped
  <2> QED BY <1>4, <2>1, <2>2, <2>3 DEF Store, kernelVars, TypeOK
<1>5. ASSUME NEW t \in Threads, Lock(t) \/ Unlock(t) PROVE TypeOK'
  <2>1. PcOK
    BY <1>5 DEF Lock, Unlock
  <2>2. SemOK
    BY <1>5 DEF Lock, Unlock
  <2> HIDE PcTyped, SemTyped
  <2> QED BY <1>5, <2>1, <2>2 DEF Lock, Unlock, sbufVars, kernelVars, TypeOK
<1>6. ASSUME NEW t \in Threads, Load(t) PROVE TypeOK'
  <2>1. PcOK
    BY <1>6 DEF Load
  <2>2. Increment(IF t = Main THEN rear ELSE front) \in -IntMax-1..IntMax
    <3> HIDE PcTyped, SemTyped
    <3>1. \A k \in -IntMax-1..IntMax : Increment(k) \in -IntMax-1..IntMax
      BY SBufAssumption DEF Increment
    <3>2. rear \in -IntMax-1..IntMax /\ front \in -IntMax-1..IntMax
      BY DEF TypeOK
    <3> QED BY <3>1, <3>2
  <2> HIDE PcTyped, SemTyped
  <2> QED BY <1>6, <2>1, <2>2 DEF Load, sbufVars, kernelVars, TypeOK
<1>7. ASSUME NEW w \in Workers, WaitItem(w) \/ PostSlot(w) PROVE TypeOK'
  <2>1. PcOK
    BY <1>7 DEF WaitItem, PostSlot
  <2>2. SemOK
    BY <1>7 DEF WaitItem, PostSlot
  <2> HIDE PcTyped, SemTyped
  <2> QED BY <1>7, <2>1, <2>2 DEF WaitItem, PostSlot, sbufVars, kernelVars, TypeOK
<1>8. ASSUME NEW w \in Workers, Fetch(w) PROVE TypeOK'
  <2>1. PcOK
    BY <1>8 DEF Fetch
  <2>2. index[w] \in Nat
    BY <1>8, Bounds DEF Fetch, Goto, Indices, IInv
  <2>3. buf[Slot(index[w])] \in 0..limit
    BY <2>2, SlotOf DEF TypeOK
  <2>4. front' \in -IntMax-1..IntMax /\ index' \in [Threads -> -IntMax-1..IntMax]
    <3> HIDE PcTyped, SemTyped
    <3>1. 0 \in -IntMax-1..IntMax
      BY SBufAssumption
    <3> QED BY <1>8, <3>1 DEF Fetch, TypeOK
  <2> HIDE PcTyped, SemTyped
  <2> QED BY <1>8, <2>1, <2>3, <2>4 DEF Fetch, kernelVars, TypeOK
<1>9. ASSUME NEW w \in Workers, Echo(w) PROVE TypeOK'
  <2>1. PcOK
    BY <1>9 DEF Echo
  <2> HIDE PcTyped, SemTyped
  <2> QED BY <1>9, <2>1 DEF Echo, sbufVars, kernelVars, TypeOK
<1>10. ASSUME NEW w \in Workers, Close(w) PROVE TypeOK'
  <2>1. PcOK
    BY <1>10 DEF Close
  <2>2. owner[connfd[w]] \in 1..MaxAccepts /\ connfd[w] \in 1..limit
    BY <1>10, Bounds, SBufAssumption DEF Close, Goto, Served, Serves, IInv
  <2> HIDE PcTyped, SemTyped
  <2>3. owner' \in [1..limit' -> 0..MaxAccepts]
    <3>1. 0 \in 0..MaxAccepts
      BY SBufAssumption
    <3>2. /\ owner' = [owner EXCEPT ![connfd[w]] = 0] /\ limit' = limit
          /\ owner \in [1..limit -> 0..MaxAccepts]
      BY <1>10 DEF Close, TypeOK
    <3> QED BY <3>1, <3>2
  <2>4. closed' \subseteq 1..MaxAccepts
    BY <1>10, <2>2 DEF Close, TypeOK
  <2> QED BY <1>10, <2>1, <2>3, <2>4 DEF Close, sbufVars, TypeOK
<1> QED
  BY <1>1, <1>2, <1>3, <1>4, <1>5, <1>6, <1>7, <1>8, <1>9, <1>10, Steps

LEMMA NextIndices ==
  ASSUME NoOverflow, IInv, Next PROVE Indices'
<1>0. /\ Labels' /\ Main \in Threads /\ Main \notin Workers /\ Workers \subseteq Threads
      /\ rear \in Nat /\ front \in 0..rear /\ accepted \in Nat
      /\ index \in [Threads -> -IntMax-1..IntMax] /\ pc \in [Threads -> States]
  <2>1. rear \in Nat /\ front \in 0..rear /\ accepted \in Nat
    BY Bounds
  <2> QED BY <2>1, NextLabels, SBufAssumption DEF IInv, TypeOK, Threads
<1> USE <1>0 DEF Indices, inserted, Goto
<1>1. ASSUME NEW fd \in 1..limit, Accept(fd) PROVE Indices'
  BY <1>1 DEF Accept, sbufVars, IInv
<1>2. CASE AcceptFails \/ WaitSlot \/ PostItem
  BY <1>2 DEF AcceptFails, WaitSlot, PostItem, sbufVars, kernelVars, IInv
<1>3. CASE Store
  <2>1. /\ index[Main] = rear + 1 /\ rear + 1 = accepted
        /\ \A w \in Workers : index[w] = IF pc[w] = "access" THEN front + 1 ELSE 0
    BY <1>3, Bounds DEF Store, IInv, MainHolds, Taking
  <2>2. pc'[Main] = "unlock" /\ \A w \in Workers : pc'[w] = pc[w]
    BY <1>3 DEF Store, Labels
  <2>3. index'[Main] = 0 /\ \A w \in Workers : index'[w] = index[w]
    BY <1>3 DEF Store
  <2> QED BY <1>3, <2>1, <2>2, <2>3 DEF Store, kernelVars
<1>4. ASSUME NEW t \in Threads, Lock(t) \/ Unlock(t) PROVE Indices'
  BY <1>4 DEF Lock, Unlock, sbufVars, kernelVars, IInv
<1>5. CASE Load(Main)
  <2>1. Increment(rear) = rear + 1
    <3>1. rear + 1 \in 0..IntMax
      BY <1>5, Bounds, SBufAssumption DEF Load, MainHolds, Taking, NoOverflow
    <3> QED BY <3>1 DEF Increment
  <2> QED BY <1>5, <2>1 DEF Load, sbufVars, kernelVars, IInv
<1>6. ASSUME NEW w \in Workers, Load(w) PROVE Indices'
  <2>1. Increment(front) = front + 1
    <3>1. front + 1 \in 0..IntMax
      BY <1>6, Bounds, SBufAssumption DEF Load, Taking, NoOverflow
    <3> QED BY <3>1 DEF Increment
  <2> QED BY <1>6, <2>1 DEF Load, sbufVars, kernelVars, IInv
<1>7. ASSUME NEW w \in Workers, Fetch(w) PROVE Indices'
  <2>1. \A t \in Threads \ {w} : pc[t] # "access" /\ index[t] = 0
    BY <1>7 DEF Fetch, Mutex, Locked, IInv, Threads
  <2>2. index[w] = front + 1 /\ front + 1 \in 0..rear
    BY <1>7, Bounds DEF Fetch, IInv, Taking
  <2>3. pc'[w] = "unlock" /\ \A t \in Threads \ {w} : pc'[t] = pc[t]
    BY <1>7 DEF Fetch
  <2>4. index'[w] = 0 /\ \A t \in Threads \ {w} : index'[t] = index[t]
    BY <1>7 DEF Fetch
  <2> QED BY <1>7, <2>1, <2>2, <2>3, <2>4 DEF Fetch, kernelVars, IInv
<1>8. ASSUME NEW w \in Workers, WaitItem(w) \/ PostSlot(w) \/ Echo(w) \/ Close(w)
      PROVE  Indices'
  BY <1>8 DEF WaitItem, PostSlot, Echo, Close, sbufVars, kernelVars, IInv
<1> QED BY <1>1, <1>2, <1>3, <1>4, <1>5, <1>6, <1>7, <1>8, Steps DEF Threads

LEMMA NextSemaphores ==
  ASSUME NoOverflow, IInv, Next PROVE Semaphores'
<1>0. /\ TypeOK /\ Semaphores /\ Main \notin Workers /\ n \in Nat
      /\ rear \in Nat /\ front \in Nat /\ sem.items \in Nat /\ sem.slots \in Nat
      /\ sem \in [{"mutex", "slots", "items"} -> Nat]
  <2>1. rear \in Nat /\ front \in Nat
    BY Bounds
  <2> QED BY <2>1, SBufAssumption DEF IInv, TypeOK
<1>main. ASSUME NEW from \in States, NEW to \in States, Goto(Main, from, to)
         PROVE  /\ pc[Main] = from /\ pc'[Main] = to
                /\ Count(pc', Taking) = Count(pc, Taking)
                /\ Count(pc', Leaving) = Count(pc, Leaving)
  BY <1>0, <1>main, MainGoes
<1>worker. ASSUME NEW w \in Workers, NEW from \in States, NEW to \in States, Goto(w, from, to)
           PROVE  /\ pc'[Main] = pc[Main]
                  /\ Count(pc, Taking) \in Nat /\ Count(pc, Leaving) \in Nat
                  /\ Count(pc', Taking) = Count(pc, Taking) + Moved(from, to, Taking)
                  /\ Count(pc', Leaving) = Count(pc, Leaving) + Moved(from, to, Leaving)
  BY <1>0, <1>worker, WorkerGoes
<1>counts. Count(pc, Taking) \in Nat /\ Count(pc, Leaving) \in Nat
  BY CountTyped
<1> USE <1>0, <1>counts DEF Semaphores, Taking, Leaving, Moved, States
<1>1. ASSUME NEW fd \in 1..limit, Accept(fd) PROVE Semaphores'
  BY <1>1, <1>main DEF Accept, sbufVars
<1>2. CASE AcceptFails
  BY <1>2, <1>main DEF AcceptFails, sbufVars
<1>3. CASE WaitSlot
  BY <1>3, <1>main DEF WaitSlot, P, sbufVars
<1>4. CASE PostItem
  BY <1>4, <1>main DEF PostItem, V, sbufVars
<1>5. CASE Store
  <2>1. Goto(Main, "access", "unlock")
    BY <1>5, NextLabels DEF Store, Labels, Goto, TypeOK, Threads
  <2>2. rear' = rear + 1
    BY <1>5, <2>1 DEF Store, IInv, Indices, Goto
  <2> QED BY <1>5, <2>1, <2>2, <1>main DEF Store
<1>6. CASE Lock(Main) \/ Load(Main) \/ Unlock(Main)
  <2>1. CASE Lock(Main)
    BY <2>1, <1>main DEF Lock, P, sbufVars
  <2>2. CASE Load(Main)
    BY <2>2, <1>main DEF Load, sbufVars
  <2>3. CASE Unlock(Main)
    BY <2>3, <1>main DEF Unlock, V, sbufVars
  <2> QED BY <1>6, <2>1, <2>2, <2>3
<1>7. ASSUME NEW w \in Workers, Lock(w) \/ Load(w) \/ Unlock(w) PROVE Semaphores'
  <2>1. CASE Lock(w)
    BY <2>1, <1>worker DEF Lock, P, sbufVars
  <2>2. CASE Load(w)
    BY <2>2, <1>worker DEF Load, sbufVars
  <2>3. CASE Unlock(w)
    BY <2>3, <1>worker DEF Unlock, V, sbufVars
  <2> QED BY <1>7, <2>1, <2>2, <2>3
<1>8. ASSUME NEW w \in Workers, WaitItem(w) PROVE Semaphores'
  BY <1>8, <1>worker DEF WaitItem, P, sbufVars
<1>9. ASSUME NEW w \in Workers, Fetch(w) PROVE Semaphores'
  <2>1. front' = front + 1
    BY <1>9 DEF Fetch, IInv, Indices, Goto
  <2>2. Goto(w, "access", "unlock") /\ UNCHANGED <<rear, sem>>
    BY <1>9 DEF Fetch
  <2>3. /\ pc'[Main] = pc[Main]
        /\ Count(pc', Taking) = Count(pc, Taking) - 1
        /\ Count(pc', Leaving) = Count(pc, Leaving) + 1
    BY <1>worker, <2>2
  <2> QED BY <2>1, <2>2, <2>3
<1>10. ASSUME NEW w \in Workers, PostSlot(w) PROVE Semaphores'
  BY <1>10, <1>worker DEF PostSlot, V, sbufVars
<1>11. ASSUME NEW w \in Workers, Echo(w) \/ Close(w) PROVE Semaphores'
  <2>1. CASE Echo(w)
    BY <2>1, <1>worker DEF Echo, sbufVars
  <2>2. CASE Close(w)
    BY <2>2, <1>worker DEF Close, sbufVars
  <2> QED BY <1>11, <2>1, <2>2
<1> QED
  BY <1>1, <1>2, <1>3, <1>4, <1>5, <1>6, <1>7, <1>8, <1>9, <1>10, <1>11, Steps DEF Threads

LEMMA NextBuffered ==
  ASSUME NoOverflow, IInv, Next PROVE Buffered'
<1>0. /\ Buffered /\ n \in Nat \ {0} /\ rear \in Nat /\ front \in Nat /\ accepted \in Nat
      /\ limit \in Nat /\ front <= rear /\ rear <= accepted /\ accepted - 1 \in Int
      /\ buf \in [0..n-1 -> 0..limit]
  <2>1. rear \in Nat /\ front \in Nat /\ front <= rear /\ rear <= accepted /\ accepted \in Nat
    BY Bounds
  <2> QED BY <2>1, SBufAssumption DEF IInv, TypeOK
<1>range. \A k \in front+1..rear : k \in Nat /\ k # 0 /\ k % n \in 0..n-1
  BY <1>0, ModRange
<1>1. ASSUME NEW fd \in 1..limit, Accept(fd) PROVE Buffered'
  <2>1. \A k \in front+1..rear : buf[k % n] # fd
    BY <1>0, <1>1, <1>range DEF Accept, Buffered
  <2> QED BY <1>0, <1>1, <2>1 DEF Accept, Buffered, sbufVars, IInv, TypeOK
<1>2. CASE Store
  <2>1. /\ index[Main] = rear + 1 /\ rear + 1 = accepted /\ rear + 1 \in Nat
        /\ rear < front + n
        /\ connfd[Main] \in 1..limit /\ owner[connfd[Main]] = accepted
    BY <1>2, Bounds, <1>0 DEF Store, Goto, IInv, Indices, Held, MainHolds, Taking
  <2>2. /\ buf' = [buf EXCEPT ![(rear + 1) % n] = connfd[Main]] /\ rear' = rear + 1
        /\ UNCHANGED <<front, owner, limit>>
    <3>1. Slot(rear + 1) = (rear + 1) % n /\ Slot(rear + 1) \in 0..n-1
      BY <2>1, SlotOf
    <3> QED BY <1>2, <2>1, <3>1 DEF Store, kernelVars
  <2>3. ASSUME NEW k \in front'+1..rear' PROVE buf'[k % n] \in 1..limit /\ owner[buf'[k % n]] = k
    <3>1. CASE k = rear + 1
      <4>1. k % n \in 0..n-1
        BY <2>1, <3>1, <1>0, ModRange
      <4> QED BY <1>0, <2>1, <2>2, <3>1, <4>1
    <3>2. CASE k \in front+1..rear
      <4>1. k % n # (rear + 1) % n
        <5>1. k \in Nat /\ k < rear + 1 /\ rear + 1 < k + n
          BY <1>0, <2>1, <3>2
        <5> QED BY <1>0, <2>1, <5>1, SlotsDiffer
      <4> QED BY <1>0, <1>range, <2>2, <3>2, <4>1 DEF Buffered
    <3> QED BY <1>0, <2>2, <2>3, <3>1, <3>2
  <2> QED BY <2>2, <2>3 DEF Buffered
<1>3. ASSUME NEW w \in Workers, Fetch(w) PROVE Buffered'
  <2>1. front' = front + 1 /\ UNCHANGED <<buf, rear, owner, limit>>
    BY <1>3 DEF Fetch, IInv, Indices, Goto, kernelVars
  <2> QED BY <1>0, <2>1 DEF Buffered
<1>4. ASSUME NEW w \in Workers, Close(w) PROVE Buffered'
  <2>1. owner[connfd[w]] \in 1..front
    BY <1>4 DEF Close, Goto, IInv, Served, Serves
  <2>2. ASSUME NEW k \in front+1..rear PROVE buf[k % n] # connfd[w]
    <3>1. owner[buf[k % n]] = k /\ k > front
      BY <1>0 DEF Buffered
    <3> QED BY <1>0, <2>1, <3>1
  <2>3. owner' = [owner EXCEPT ![connfd[w]] = 0] /\ UNCHANGED <<buf, rear, front, limit>>
    BY <1>4 DEF Close, sbufVars
  <2>4. owner \in [1..limit -> 0..MaxAccepts]
    BY DEF IInv, TypeOK
  <2>5. ASSUME NEW k \in front+1..rear PROVE owner'[buf[k % n]] = k
    BY <1>0, <2>2, <2>3, <2>4 DEF Buffered
  <2> QED BY <1>0, <2>3, <2>5 DEF Buffered
<1>5. CASE UNCHANGED <<sbufVars, kernelVars>>
  BY <1>0, <1>5 DEF Buffered, sbufVars, kernelVars
<1>6. \/ \E fd \in 1..limit : Accept(fd)
      \/ Store
      \/ \E w \in Workers : Fetch(w) \/ Close(w)
      \/ UNCHANGED <<sbufVars, kernelVars>>
  BY Steps DEF AcceptFails, WaitSlot, PostItem, Lock, Load, Unlock, WaitItem, PostSlot, Echo
<1> QED BY <1>1, <1>2, <1>3, <1>4, <1>5, <1>6

LEMMA NextHeld ==
  ASSUME NoOverflow, IInv, Next PROVE Held'
<1>0. /\ Held /\ Main \in Threads /\ Main \notin Workers /\ Workers \subseteq Threads
      /\ pc \in [Threads -> States] /\ connfd \in [Threads -> 0..limit]
      /\ owner \in [1..limit -> 0..MaxAccepts]
  BY SBufAssumption DEF IInv, TypeOK, Threads
<1>1. ASSUME NEW fd \in 1..limit, Accept(fd) PROVE Held'
  BY <1>0, <1>1 DEF Accept, Held
<1>2. ASSUME ~ \E fd \in 1..limit : Accept(fd) PROVE MainHolds' => MainHolds
  <2> USE <1>0 DEF MainHolds, Taking, Goto
  <2>1. CASE AcceptFails \/ WaitSlot \/ Store \/ PostItem
    BY <2>1 DEF AcceptFails, WaitSlot, Store, PostItem
  <2>2. ASSUME NEW t \in Threads, Lock(t) \/ Load(t) \/ Unlock(t) PROVE MainHolds' => MainHolds
    BY <2>2 DEF Lock, Load, Unlock
  <2>3. ASSUME NEW w \in Workers, WaitItem(w) \/ Fetch(w) \/ PostSlot(w) \/ Echo(w) \/ Close(w)
        PROVE  MainHolds' => MainHolds
    BY <2>3 DEF WaitItem, Fetch, PostSlot, Echo, Close
  <2> QED BY <1>2, <2>1, <2>2, <2>3, Steps
<1>3. ASSUME NEW w \in Workers, Fetch(w) PROVE Held'
  <2>1. connfd'[Main] = connfd[Main] /\ UNCHANGED kernelVars
    BY <1>0, <1>3 DEF Fetch
  <2>2. MainHolds' => MainHolds
    BY <1>0, <1>3 DEF Fetch, MainHolds, Goto
  <2> QED BY <1>0, <2>1, <2>2 DEF Held, kernelVars
<1>4. ASSUME NEW w \in Workers, Close(w) PROVE Held'
  <2>1. /\ connfd' = connfd /\ UNCHANGED <<limit, accepted>>
        /\ owner' = [owner EXCEPT ![connfd[w]] = 0]
    BY <1>4 DEF Close
  <2>2. MainHolds' => MainHolds
    BY <1>0, <1>4 DEF Close, MainHolds, Goto
  <2>3. MainHolds => owner[connfd[w]] # accepted
    <3>1. owner[connfd[w]] \in 1..front
      BY <1>4 DEF Close, Goto, IInv, Served, Serves
    <3>2. MainHolds => front < accepted /\ front \in Nat /\ accepted \in Nat
      BY Bounds
    <3> QED BY <3>1, <3>2
  <2> QED BY <1>0, <2>1, <2>2, <2>3 DEF Held
<1>5. CASE Quiet
  BY <1>0, <1>2, <1>5, <1>1 DEF Held, Quiet, kernelVars
<1> QED BY <1>1, <1>3, <1>4, <1>5, QuietSteps

\* A worker fetches the connection that has waited longest.
LEMMA Fetching ==
  ASSUME NoOverflow, IInv, NEW w \in Workers, Fetch(w)
  PROVE  /\ front + 1 \in 1..accepted /\ front' = front + 1
         /\ connfd' = [connfd EXCEPT ![w] = connfd'[w]]
         /\ connfd'[w] \in 1..limit /\ owner[connfd'[w]] = front + 1
         /\ ~Serves(w) /\ Serves(w)'
         /\ \A v \in Workers \ {w} : connfd'[v] = connfd[v] /\ (Serves(v)' <=> Serves(v))
         /\ UNCHANGED kernelVars
<1>0. /\ Workers \subseteq Threads /\ pc \in [Threads -> States] /\ w \in Threads
      /\ connfd \in [Threads -> 0..limit]
  BY DEF IInv, TypeOK, Threads
<1>1. front + 1 \in Nat /\ front + 1 \in front+1..rear /\ front + 1 \in 1..accepted
  BY Bounds DEF Fetch, Goto, Taking
<1>2. front' = front + 1 /\ connfd' = [connfd EXCEPT ![w] = buf[(front + 1) % n]]
  BY <1>1, SlotOf DEF Fetch, Goto, IInv, Indices
<1>3. buf[(front + 1) % n] \in 1..limit /\ owner[buf[(front + 1) % n]] = front + 1
  BY <1>1 DEF IInv, Buffered
<1>4. /\ ~Serves(w) /\ Serves(w)'
      /\ \A v \in Workers \ {w} : Serves(v)' <=> Serves(v)
  BY <1>0 DEF Fetch, Goto, Serves
<1> QED BY <1>0, <1>1, <1>2, <1>3, <1>4 DEF Fetch

\* A worker closes a connection that no other serves.
LEMMA Closing ==
  ASSUME IInv, NEW w \in Workers, Close(w)
  PROVE  /\ Serves(w) /\ ~Serves(w)'
         /\ \A v \in Workers \ {w} : Serves(v)' <=> Serves(v)
         /\ \A v \in Workers \ {w} : Serves(v) => connfd[v] # connfd[w]
         /\ connfd[w] \in 1..limit /\ owner[connfd[w]] \in 1..front
         /\ owner'[connfd[w]] = 0
         /\ \A fd \in 1..limit : fd # connfd[w] => owner'[fd] = owner[fd]
         /\ closed' = closed \cup {owner[connfd[w]]}
         /\ UNCHANGED <<limit, front, rear, accepted, connfd>>
<1>0. /\ Workers \subseteq Threads /\ pc \in [Threads -> States]
      /\ owner \in [1..limit -> 0..MaxAccepts]
  BY DEF IInv, TypeOK, Threads
<1>1. /\ Serves(w) /\ ~Serves(w)'
      /\ \A v \in Workers \ {w} : Serves(v)' <=> Serves(v)
  BY <1>0 DEF Close, Goto, Serves
<1>2. /\ connfd[w] \in 1..limit /\ owner[connfd[w]] \in 1..front
      /\ \A v \in Workers \ {w} : Serves(v) => connfd[v] # connfd[w]
  BY <1>1 DEF IInv, Served
<1> QED BY <1>0, <1>1, <1>2 DEF Close, sbufVars

LEMMA NextServed ==
  ASSUME NoOverflow, IInv, Next PROVE Served'
<1>0. /\ Served /\ Main \notin Workers /\ Workers \subseteq Threads /\ front \in Nat
      /\ pc \in [Threads -> States] /\ connfd \in [Threads -> 0..limit]
      /\ owner \in [1..limit -> 0..MaxAccepts]
  <2>1. front \in Nat
    BY Bounds
  <2> QED BY <2>1, SBufAssumption DEF IInv, TypeOK, Threads
<1>1. ASSUME NEW fd \in 1..limit, Accept(fd) PROVE Served'
  <2>1. \A w \in Workers : connfd'[w] = connfd[w] /\ (Serves(w)' <=> Serves(w))
    BY <1>0, <1>1 DEF Accept, Goto, Serves
  <2>2. \A w \in Workers : Serves(w) => connfd[w] # fd
    BY <1>0, <1>1 DEF Accept, Served
  <2>3. \A w \in Workers : Serves(w) => owner'[connfd[w]] = owner[connfd[w]]
    BY <1>0, <1>1, <2>2 DEF Accept, Served
  <2>4. UNCHANGED <<front, limit, closed>>
    BY <1>1 DEF Accept, sbufVars
  <2> QED BY <1>0, <2>1, <2>3, <2>4 DEF Served
<1>2. ASSUME NEW w \in Workers, Fetch(w) PROVE Served'
  <2> DEFINE conn(v) == owner[connfd'[v]]
  <2>1. /\ UNCHANGED <<owner, limit, closed>> /\ front' = front + 1
        /\ conn(w) = front + 1 /\ connfd'[w] \in 1..limit /\ Serves(w)'
    BY <1>2, Fetching DEF kernelVars
  <2>2. ASSUME NEW v \in Workers \ {w}, Serves(v)'
        PROVE  /\ Serves(v) /\ connfd'[v] = connfd[v] /\ connfd'[v] \in 1..limit
               /\ conn(v) \in 1..front /\ conn(v) \notin closed
    BY <1>0, <1>2, <2>2, Fetching DEF Served
  <2>3. closed \subseteq 1..front
    BY <1>0 DEF Served
  <2>4. ASSUME NEW v \in Workers, NEW u \in Workers, Serves(v)', Serves(u)', conn(v) = conn(u)
        PROVE  v = u
    BY <1>0, <2>1, <2>2, <2>4 DEF Served
  <2>5. ASSUME NEW c \in 1..front+1
        PROVE  c \in closed \/ \E v \in Workers : Serves(v)' /\ conn(v) = c
    <3>1. CASE c = front + 1
      BY <2>1, <3>1
    <3>2. ASSUME NEW v \in Workers, Serves(v) PROVE Serves(v)' /\ connfd'[v] = connfd[v]
      BY <1>2, <3>2, Fetching
    <3>3. CASE c \in 1..front
      BY <1>0, <3>2, <3>3 DEF Served
    <3> QED BY <1>0, <3>1, <3>3
  <2> QED BY <1>0, <2>1, <2>2, <2>3, <2>4, <2>5 DEF Served
<1>3. ASSUME NEW w \in Workers, Close(w) PROVE Served'
  <2>1. /\ UNCHANGED <<limit, front, connfd>>
        /\ closed' = closed \cup {owner[connfd[w]]} /\ owner[connfd[w]] \in 1..front
    BY <1>3, Closing
  <2>2. ASSUME NEW v \in Workers, Serves(v)'
        PROVE  /\ v # w /\ Serves(v) /\ connfd[v] \in 1..limit
               /\ owner'[connfd[v]] = owner[connfd[v]]
               /\ owner[connfd[v]] # owner[connfd[w]]
    BY <1>0, <1>3, <2>2, Closing DEF Served
  <2>3. ASSUME NEW c \in 1..front
        PROVE  c \in closed' \/ \E v \in Workers : Serves(v)' /\ owner'[connfd[v]] = c
    <3>1. ASSUME NEW v \in Workers, Serves(v), v # w
          PROVE  Serves(v)' /\ owner'[connfd[v]] = owner[connfd[v]]
      BY <1>0, <1>3, <3>1, Closing DEF Served
    <3> QED BY <1>0, <2>1, <3>1 DEF Served
  <2> QED BY <1>0, <2>1, <2>2, <2>3 DEF Served
<1>4. CASE Quiet /\ UNCHANGED front
  BY <1>0, <1>4 DEF Served, Quiet, kernelVars
<1> QED BY <1>1, <1>2, <1>3, <1>4, QuietSteps

LEMMA NextOwners ==
  ASSUME NoOverflow, IInv, Next PROVE Owners'
<1>0. /\ Owners /\ Served /\ Main \notin Workers /\ Workers \subseteq Threads
      /\ front \in Nat /\ accepted \in Nat /\ front <= accepted
      /\ pc \in [Threads -> States] /\ connfd \in [Threads -> 0..limit]
      /\ owner \in [1..limit -> 0..MaxAccepts]
  <2>1. front \in Nat /\ accepted \in Nat /\ front <= accepted
    BY Bounds
  <2> QED BY <2>1, SBufAssumption DEF IInv, TypeOK, Threads
<1>1. ASSUME NEW fd \in 1..limit, Accept(fd) PROVE Owners'
  <2>1. /\ \A w \in Workers : connfd'[w] = connfd[w] /\ (Serves(w)' <=> Serves(w))
        /\ owner'[fd] = accepted + 1 /\ \A o \in 1..limit : o # fd => owner'[o] = owner[o]
        /\ accepted' = accepted + 1 /\ UNCHANGED <<front, limit>> /\ owner[fd] = 0
    BY <1>0, <1>1 DEF Accept, Goto, Serves, sbufVars
  <2>2. \A o \in 1..limit : owner[o] \in 0..accepted
    BY <1>0 DEF Owners, Served
  <2>3. ASSUME NEW o1 \in 1..limit, NEW o2 \in 1..limit,
               owner'[o1] = owner'[o2], owner'[o1] # 0
        PROVE  o1 = o2
    <3>1. o1 # fd => owner'[o1] \in 0..accepted
      BY <2>1, <2>2
    <3>2. o2 # fd => owner'[o2] \in 0..accepted
      BY <2>1, <2>2
    <3> QED BY <1>0, <2>1, <2>3, <3>1, <3>2 DEF Owners
  <2>4. ASSUME NEW o \in 1..limit
        PROVE  \/ owner'[o] = 0
               \/ owner'[o] \in front'+1..accepted'
               \/ \E w \in Workers : Serves(w)' /\ connfd'[w] = o
    <3>1. CASE o = fd
      BY <1>0, <2>1, <3>1
    <3>2. CASE o # fd
      BY <1>0, <2>1, <3>2 DEF Owners
    <3> QED BY <3>1, <3>2
  <2> QED BY <2>1, <2>3, <2>4 DEF Owners
<1>2. ASSUME NEW w \in Workers, Fetch(w) PROVE Owners'
  <2>1. UNCHANGED <<owner, limit, accepted>> /\ front' = front + 1
    BY <1>2, Fetching DEF kernelVars
  <2>2. ASSUME NEW o \in 1..limit
        PROVE  \/ owner[o] = 0
               \/ owner[o] \in front+2..accepted
               \/ \E v \in Workers : Serves(v)' /\ connfd'[v] = o
    <3>1. CASE owner[o] = front + 1
      BY <1>0, <1>2, <3>1, Fetching DEF Owners
    <3>2. CASE owner[o] \in front+2..accepted
      BY <3>2
    <3>3. ASSUME NEW v \in Workers, Serves(v), connfd[v] = o
          PROVE  Serves(v)' /\ connfd'[v] = o
      BY <1>2, <3>3, Fetching
    <3> QED BY <1>0, <3>1, <3>2, <3>3 DEF Owners
  <2> QED BY <1>0, <2>1, <2>2 DEF Owners
<1>3. ASSUME NEW w \in Workers, Close(w) PROVE Owners'
  BY <1>0, <1>3, Closing DEF Owners
<1>4. CASE Quiet /\ UNCHANGED front
  BY <1>0, <1>4 DEF Owners, Quiet, kernelVars
<1> QED BY <1>1, <1>2, <1>3, <1>4, QuietSteps

LEMMA NextIInv ==
  ASSUME NoOverflow, IInv, [Next]_vars PROVE IInv'
<1>1. CASE Next
  BY <1>1, NextTypeOK, NextLabels, NextMutex, NextIndices, NextSemaphores, NextBuffered,
     NextHeld, NextServed, NextOwners DEF IInv
<1>2. CASE UNCHANGED vars
  <2> USE <1>2 DEF vars, sbufVars, kernelVars, IInv
  <2>1. TypeOK' /\ Labels'
    BY DEF TypeOK, Labels
  <2>2. Mutex' /\ Indices'
    BY DEF Mutex, Indices, inserted
  <2>3. Semaphores'
    BY DEF Semaphores
  <2>4. Buffered' /\ Held'
    BY DEF Buffered, Held, MainHolds
  <2>5. Served' /\ Owners'
    BY DEF Served, Serves, Owners
  <2> QED BY <2>1, <2>2, <2>3, <2>4, <2>5
<1> QED BY <1>1, <1>2

\* Up to INT_MAX connections the invariant holds.
THEOREM Invariance ==
  ASSUME NoOverflow PROVE Spec => []IInv
<1>1. Init => IInv
  BY InitIInv
<1>2. IInv /\ [Next]_vars => IInv'
  BY NoOverflow, NextIInv
<1> QED BY <1>1, <1>2, PTL DEF Spec

\* Spec keeps the types: type correctness.
THEOREM TypeCorrect ==
  ASSUME NoOverflow PROVE Spec => []TypeOK
<1>1. IInv => TypeOK
  BY DEF IInv
<1> QED BY NoOverflow, Invariance, <1>1, PTL

\* main never stores outside the buffer before front and rear overflow.
THEOREM NoCrashBeforeWrap ==
  ASSUME NoOverflow PROVE Spec => []CrashesOnlyAfterWrap
<1>1. IInv => CrashesOnlyAfterWrap
  <2> SUFFICES ASSUME IInv, NEW t \in Threads, pc[t] = "crashed" PROVE FALSE
    BY DEF CrashesOnlyAfterWrap
  <2> QED BY DEF IInv, Labels, Threads
<1> QED BY NoOverflow, Invariance, <1>1, PTL

-----------------------------------------------------------------------------
(***************************************************************************)
(* The buffer holds the connections that wait, and the semaphores account  *)
(* for them.                                                               *)
(***************************************************************************)
\* front counts the connections that were removed from the buffer.
LEMMA RemovedIsFront ==
  ASSUME NoOverflow, IInv
  PROVE  /\ removed = front /\ IsFiniteSet(closed) /\ Cardinality(closed) \in Nat
         /\ front <= Cardinality(closed) + Cardinality(Workers)
<1> DEFINE S == {w \in Workers : Serves(w)}
           U == (1..front) \ closed
           f == [w \in S |-> owner[connfd[w]]]
<1>0. front \in Nat /\ IsFiniteSet(1..front) /\ Cardinality(1..front) = front
  <2>1. front \in Nat
    BY Bounds
  <2> QED BY <2>1, FS_Interval
<1>1. closed \subseteq 1..front /\ (1..front) \cap closed = closed
  BY DEF IInv, Served
<1>2. IsFiniteSet(closed) /\ Cardinality(closed) \in Nat
  BY <1>0, <1>1, FS_Subset, FS_CardinalityType
<1>3. IsFiniteSet(U) /\ Cardinality(U) = front - Cardinality(closed)
  <2>1. \A T : IsFiniteSet(T) =>
          /\ IsFiniteSet(T \ closed)
          /\ Cardinality(T \ closed) = Cardinality(T) - Cardinality(T \cap closed)
    BY FS_Difference
  <2>2. /\ IsFiniteSet((1..front) \ closed)
        /\ Cardinality((1..front) \ closed)
             = Cardinality(1..front) - Cardinality((1..front) \cap closed)
    BY <1>0, <2>1, Zenon
  <2> QED BY <1>0, <1>1, <2>2
<1>4. f \in Injection(S, U) /\ f \in Surjection(S, U)
  <2>0. Served
    BY DEF IInv
  <2>1. f \in [S -> U]
    BY <2>0 DEF Served
  <2>2. \A a, b \in S : f[a] = f[b] => a = b
    BY <2>0 DEF Served
  <2>3. \A c \in U : \E w \in S : f[w] = c
    BY <2>0 DEF Served
  <2>4. IsInjective(f)
    <3> HIDE DEF S, U, f
    <3> QED BY <2>1, <2>2 DEF IsInjective
  <2> HIDE DEF S, U, f
  <2> QED BY <2>1, <2>3, <2>4 DEF Injection, Surjection
<1>5. IsFiniteSet(S) /\ Cardinality(S) = Cardinality(U)
  BY <1>3, <1>4, FS_Injection
<1>6. Cardinality(S) \in Nat /\ Cardinality(S) <= Cardinality(Workers)
  <2>1. S \in SUBSET Workers
    OBVIOUS
  <2> QED BY <2>1, SBufAssumption, FS_Subset, FS_CardinalityType
<1>7. Cardinality(Workers) \in Nat
  BY SBufAssumption, FS_CardinalityType
<1> QED BY <1>0, <1>2, <1>3, <1>5, <1>6, <1>7 DEF removed

\* No slot is overwritten before it is read, for any number of slots and
\* workers: every connection that waits is in the buffer, in its order.
THEOREM BufferHolds ==
  ASSUME NoOverflow PROVE Spec => []BufferHoldsWaiting
<1>1. IInv => BufferHoldsWaiting
  <2> SUFFICES ASSUME IInv, NEW i \in 1..inserted - removed
               PROVE  LET k == removed + i
                          wrapped == ((k + IntMax + 1) % (2 * IntMax + 2)) - (IntMax + 1)
                      IN  owner[buf[Slot(wrapped)]] = k
    BY DEF BufferHoldsWaiting
  <2> DEFINE k == front + i
  <2>1. k \in front+1..rear /\ k \in Nat /\ k <= IntMax /\ IntMax \in Nat \ {0}
    <3>1. i \in 1..rear - front /\ rear \in Nat /\ front \in Nat /\ rear <= IntMax
      BY NoOverflow, Bounds, RemovedIsFront, SBufAssumption DEF NoOverflow
    <3> QED BY <3>1, SBufAssumption
  <2>2. (k + IntMax + 1) % (2 * IntMax + 2) = k + IntMax + 1
    <3>1. 2 * IntMax + 2 \in Nat \ {0} /\ k + IntMax + 1 \in 0..(2 * IntMax + 2) - 1
      BY <2>1
    <3> QED BY <3>1, ModSmall
  <2>3. ((k + IntMax + 1) % (2 * IntMax + 2)) - (IntMax + 1) = k
    BY <2>1, <2>2
  <2>4. Slot(k) = k % n
    BY <2>1, SlotOf
  <2>5. owner[buf[k % n]] = k
    BY <2>1 DEF IInv, Buffered
  <2>6. removed + i = k
    BY NoOverflow, RemovedIsFront
  <2> QED BY <2>3, <2>4, <2>5, <2>6
<1> QED BY NoOverflow, Invariance, <1>1, PTL

\* Never more than n connections wait, and no P or V is missing.
THEOREM SlotsAccounted ==
  ASSUME NoOverflow PROVE Spec => []SlotsAccountedFor
<1>1. ASSUME IInv PROVE SlotsAccountedFor
  <2> DEFINE Between == {"lock", "load", "access", "unlock", "post", "crashed"}
             T == {t \in Threads : pc[t] \in Between}
             m == IF pc[Main] \in Between THEN 1 ELSE 0
  <2>1. inserted - removed \in 0..n
    BY <1>1, NoOverflow, Bounds, RemovedIsFront, SBufAssumption
  <2>2. /\ IsFiniteSet(At(pc, Taking)) /\ IsFiniteSet(At(pc, Leaving))
        /\ Count(pc, Taking) \in Nat /\ Count(pc, Leaving) \in Nat
    <3>1. At(pc, Taking) \in SUBSET Workers /\ At(pc, Leaving) \in SUBSET Workers
      BY DEF At
    <3> QED BY <3>1, SBufAssumption, FS_Subset, CountTyped
  <2>3. /\ IsFiniteSet(At(pc, Between))
        /\ Cardinality(At(pc, Between)) = Count(pc, Taking) + Count(pc, Leaving)
    <3>1. At(pc, Between) = At(pc, Taking) \cup At(pc, Leaving)
      BY <1>1 DEF At, Taking, Leaving, IInv, Labels
    <3>2. At(pc, Taking) \cap At(pc, Leaving) = {}
      BY DEF At, Taking, Leaving
    <3> QED BY <2>2, <3>1, <3>2, FS_Union, FS_EmptySet DEF Count
  <2>4. Cardinality(T) = Cardinality(At(pc, Between)) + m
    <3>1. CASE pc[Main] \in Between
      <4>1. T = At(pc, Between) \cup {Main} /\ Main \notin At(pc, Between)
        BY <3>1, SBufAssumption DEF At, Threads
      <4> QED BY <2>3, <3>1, <4>1, FS_AddElement
    <3>2. CASE pc[Main] \notin Between
      <4>1. T = At(pc, Between)
        BY <3>2 DEF At, Threads
      <4>2. Cardinality(At(pc, Between)) \in Nat
        BY <2>2, <2>3
      <4>3. Cardinality(T) = Cardinality(At(pc, Between)) /\ m = 0
        BY <3>2, <4>1
      <4> HIDE DEF T, m
      <4> QED BY <4>2, <4>3
    <3> QED BY <3>1, <3>2
  <2>5. m = (IF pc[Main] \in Taking THEN 1 ELSE 0) + (IF pc[Main] \in Leaving THEN 1 ELSE 0)
    BY <1>1 DEF IInv, Labels, Taking, Leaving
  <2>6. sem.slots \in Nat /\ sem.items \in Nat /\ n \in Nat /\ rear \in Nat /\ front \in Nat
    <3>1. rear \in Nat /\ front \in Nat
      BY <1>1, NoOverflow, Bounds
    <3> QED BY <1>1, <3>1, SBufAssumption DEF IInv, TypeOK
  <2>7. sem.slots + sem.items + Cardinality(T) = n
    BY <1>1, <2>2, <2>3, <2>4, <2>5, <2>6 DEF IInv, Semaphores
  <2> QED BY <2>1, <2>7 DEF SlotsAccountedFor
<1>2. IInv => SlotsAccountedFor
  BY <1>1
<1> QED BY NoOverflow, Invariance, <1>2, PTL

-----------------------------------------------------------------------------
(***************************************************************************)
(* Descriptors.                                                            *)
(***************************************************************************)
\* If accept fails, every descriptor is one of a connection that waits or is
\* served: there are at most as many as slots and workers.
LEMMA ExitBelowLimit ==
  ASSUME NoOverflow, IInv, AcceptFails PROVE limit <= n + Cardinality(Workers)
<1> DEFINE U == (1..accepted) \ closed
           f == [fd \in 1..limit |-> owner[fd]]
<1>0. /\ front \in Nat /\ accepted \in Nat /\ front <= accepted /\ accepted - front <= n
      /\ limit \in Nat /\ n \in Nat
  <2>1. rear = accepted /\ front \in 0..rear /\ rear \in Nat /\ rear - front <= n
    BY Bounds DEF AcceptFails, Goto, Taking
  <2> QED BY <2>1, SBufAssumption DEF IInv, TypeOK
<1>1. closed \subseteq 1..front /\ (1..accepted) \cap closed = closed
  <2>1. closed \subseteq 1..front
    BY DEF IInv, Served
  <2>2. 1..front \subseteq 1..accepted
    BY <1>0
  <2> QED BY <2>1, <2>2
<1>2. IsFiniteSet(U) /\ Cardinality(U) = accepted - Cardinality(closed)
  <2> DEFINE A == 1..accepted
  <2>1. IsFiniteSet(A) /\ Cardinality(A) = accepted
    BY <1>0, FS_Interval
  <2>2. A \cap closed = closed
    BY <1>1
  <2> HIDE DEF A
  <2>3. IsFiniteSet(A \ closed) /\ Cardinality(A \ closed) = Cardinality(A) - Cardinality(A \cap closed)
    BY <2>1, FS_Difference, Zenon
  <2>4. IsFiniteSet(A \ closed) /\ Cardinality(A \ closed) = accepted - Cardinality(closed)
    BY <2>1, <2>2, <2>3
  <2> QED BY <2>4 DEF A
<1>3. f \in Injection(1..limit, U)
  <2>1. ASSUME NEW fd \in 1..limit PROVE owner[fd] \in U
    <3>1. owner[fd] # 0
      BY DEF AcceptFails
    <3>2. CASE owner[fd] \in front+1..accepted
      BY <1>0, <1>1, <3>2
    <3>3. ASSUME NEW w \in Workers, Serves(w), connfd[w] = fd PROVE owner[fd] \in U
      BY <1>0, <3>3 DEF IInv, Served
    <3> QED BY <3>1, <3>2, <3>3 DEF IInv, Owners
  <2>2. IsInjective(f)
    BY DEF IInv, Owners, AcceptFails, IsInjective
  <2> QED BY <2>1, <2>2 DEF Injection
<1>4. limit <= Cardinality(U)
  <2>1. Cardinality(1..limit) = limit
    BY <1>0, FS_Interval
  <2> QED BY <1>2, <1>3, <2>1, FS_Injection
<1>5. /\ Cardinality(closed) \in Nat /\ Cardinality(Workers) \in Nat
      /\ front <= Cardinality(closed) + Cardinality(Workers)
  BY RemovedIsFront, SBufAssumption, FS_CardinalityType
<1> QED BY <1>0, <1>2, <1>4, <1>5

\* With a descriptor for every slot and worker and one for main, accept never
\* fails for want of descriptors.
THEOREM DescriptorsSuffice ==
  ASSUME NoOverflow PROVE Spec => []ExitsOnlyBelowLimit
<1>1. Init => ExitsOnlyBelowLimit
  BY DEF Init, ExitsOnlyBelowLimit, Threads
<1>2. ASSUME IInv, ExitsOnlyBelowLimit, [Next]_vars PROVE ExitsOnlyBelowLimit'
  <2>1. CASE AcceptFails
    <3>1. limit' = limit
      BY <2>1 DEF AcceptFails, kernelVars
    <3> QED BY <1>2, NoOverflow, <2>1, <3>1, ExitBelowLimit DEF ExitsOnlyBelowLimit
  <2>2. CASE ~AcceptFails /\ Next
    <3>1. pc'[Main] = "exited" => pc[Main] = "exited"
      <4> USE SBufAssumption DEF Goto
      <4>1. pc \in [Threads -> States] /\ Main \in Threads /\ Main \notin Workers
        BY <1>2 DEF IInv, TypeOK, Threads
      <4>2. ASSUME NEW fd \in 1..limit, Accept(fd) PROVE pc'[Main] # "exited"
        BY <4>1, <4>2 DEF Accept
      <4>3. CASE WaitSlot \/ Store \/ PostItem
        BY <4>1, <4>3 DEF WaitSlot, Store, PostItem
      <4>4. ASSUME NEW t \in Threads, Lock(t) \/ Load(t) \/ Unlock(t)
            PROVE  pc'[Main] = "exited" => pc[Main] = "exited"
        BY <4>1, <4>4 DEF Lock, Load, Unlock
      <4>5. ASSUME NEW w \in Workers,
                   WaitItem(w) \/ Fetch(w) \/ PostSlot(w) \/ Echo(w) \/ Close(w)
            PROVE  pc'[Main] = pc[Main]
        BY <4>1, <4>5 DEF WaitItem, Fetch, PostSlot, Echo, Close
      <4> QED BY <2>2, <4>2, <4>3, <4>4, <4>5, Steps
    <3>2. limit' = limit
      BY <2>2, Steps DEF Accept, WaitSlot, Store, PostItem, Lock, Load, Unlock, WaitItem,
                         Fetch, PostSlot, Echo, Close, kernelVars
    <3> QED BY <1>2, <3>1, <3>2 DEF ExitsOnlyBelowLimit
  <2>3. CASE UNCHANGED vars
    BY <1>2, <2>3 DEF vars, kernelVars, ExitsOnlyBelowLimit
  <2> QED BY <1>2, <2>1, <2>2, <2>3
<1>3. IInv /\ ExitsOnlyBelowLimit /\ [Next]_vars => ExitsOnlyBelowLimit'
  BY <1>2
<1> QED BY NoOverflow, Invariance, <1>1, <1>3, PTL DEF Spec

-----------------------------------------------------------------------------
(***************************************************************************)
(* Refinement: the threads, semaphores and buffer implement Dispatch.      *)
(***************************************************************************)
\* A connection is started when a worker has fetched it, in the order of front.
LEMMA StartedIsFront ==
  ASSUME NoOverflow, IInv
  PROVE  \A c \in 1..accepted : c \in Pool!Started <=> c <= front
<1>1. /\ front \in Nat /\ accepted \in Nat /\ closed \subseteq 1..front
      /\ \A c \in 1..front : c \in closed \/ \E w \in Workers : Serves(w) /\ owner[connfd[w]] = c
      /\ \A w \in Workers : Serves(w) => owner[connfd[w]] \in 1..front
  <2>1. front \in Nat /\ accepted \in Nat
    BY Bounds
  <2> QED BY <2>1 DEF IInv, Served
<1>2. Pool!Started = closed \cup {serving[w] : w \in Workers}
  BY DEF Pool!Started
<1>3. ASSUME NEW c \in 1..accepted, c <= front PROVE c \in Pool!Started
  BY <1>1, <1>2, <1>3 DEF serving
<1>4. ASSUME NEW c \in 1..accepted, c \in Pool!Started PROVE c <= front
  BY <1>1, <1>2, <1>4 DEF serving
<1> QED BY <1>3, <1>4

LEMMA InitPool == Init => Pool!Init
<1> SUFFICES ASSUME Init PROVE Pool!Init
  OBVIOUS
<1>1. \A w \in Workers : ~Serves(w)
  BY SBufAssumption DEF Init, Serves, Threads
<1> QED BY <1>1 DEF Init, Pool!Init, serving

LEMMA NextPool ==
  ASSUME NoOverflow, IInv, [Next]_vars PROVE [Pool!Next]_(Pool!vars)
<1>0. /\ front \in Nat /\ accepted \in Nat /\ n \in Nat /\ Main \notin Workers
      /\ Workers \subseteq Threads /\ pc \in [Threads -> States]
      /\ connfd \in [Threads -> 0..limit]
  <2>1. front \in Nat /\ accepted \in Nat
    BY Bounds
  <2> QED BY <2>1, SBufAssumption DEF IInv, TypeOK, Threads
<1>1. ASSUME NEW fd \in 1..limit, Accept(fd) PROVE Pool!Accept
  <2>1. accepted' = accepted + 1 /\ UNCHANGED closed
    BY <1>1 DEF Accept
  <2>2. ASSUME NEW w \in Workers PROVE serving'[w] = serving[w]
    <3>1. (Serves(w)' <=> Serves(w)) /\ connfd'[w] = connfd[w]
      BY <1>0, <1>1 DEF Accept, Goto, Serves
    <3>2. Serves(w) => owner'[connfd[w]] = owner[connfd[w]]
      BY <1>1 DEF Accept, IInv, Served, TypeOK
    <3> QED BY <3>1, <3>2 DEF serving
  <2>3. serving' = serving
    BY <2>2 DEF serving
  <2>4. accepted - front <= n
    BY <1>1, Bounds DEF Accept, Goto, Taking
  <2>5. \A c \in Pool!Waiting(accepted) : c + n > accepted
    BY <1>0, <2>4, StartedIsFront DEF Pool!Waiting
  <2> QED BY <2>1, <2>3, <2>5 DEF Pool!Accept
<1>2. ASSUME NEW w \in Workers, Fetch(w) PROVE Pool!Take(w)
  <2>1. /\ ~Serves(w) /\ Serves(w)' /\ UNCHANGED <<accepted, closed, owner>>
        /\ front + 1 \in 1..accepted /\ owner[connfd'[w]] = front + 1
        /\ \A v \in Workers \ {w} : connfd'[v] = connfd[v] /\ (Serves(v)' <=> Serves(v))
    BY <1>2, Fetching DEF kernelVars
  <2>2. serving[w] = 0 /\ serving' = [serving EXCEPT ![w] = front + 1]
    BY <2>1 DEF serving
  <2>3. /\ front + 1 \in Pool!Waiting(accepted)
        /\ \A d \in Pool!Waiting(accepted) : front + 1 <= d
    BY <1>0, <2>1, StartedIsFront DEF Pool!Waiting
  <2> QED BY <2>1, <2>2, <2>3 DEF Pool!Take
<1>3. ASSUME NEW w \in Workers, Close(w) PROVE Pool!Finish(w)
  <2>1. /\ Serves(w) /\ ~Serves(w)'
        /\ \A v \in Workers \ {w} : Serves(v)' <=> Serves(v)
        /\ \A v \in Workers \ {w} : Serves(v) => connfd[v] \in 1..limit /\ connfd[v] # connfd[w]
        /\ owner[connfd[w]] \in 1..front
        /\ \A fd \in 1..limit : fd # connfd[w] => owner'[fd] = owner[fd]
        /\ closed' = closed \cup {owner[connfd[w]]} /\ UNCHANGED <<accepted, connfd>>
    BY <1>3, Closing DEF IInv, Served
  <2>2. serving[w] = owner[connfd[w]] /\ serving[w] # 0
    BY <1>0, <2>1 DEF serving
  <2>3. serving' = [serving EXCEPT ![w] = 0]
    BY <2>1 DEF serving
  <2> QED BY <2>1, <2>2, <2>3 DEF Pool!Finish
<1>4. CASE Quiet
  <2>1. serving' = serving
    BY <1>4 DEF Quiet, serving, kernelVars
  <2> QED BY <1>4, <2>1 DEF Quiet, kernelVars, Pool!vars
<1>5. CASE UNCHANGED vars
  <2>1. serving' = serving
    BY <1>5 DEF vars, kernelVars, serving, Serves
  <2> QED BY <1>5, <2>1 DEF vars, kernelVars, Pool!vars
<1> QED BY <1>1, <1>2, <1>3, <1>4, <1>5, QuietSteps DEF Pool!Next

\* Every connection is served once, by one worker, first come first served, and
\* no more than n wait.
THEOREM ImplementsDispatch ==
  ASSUME NoOverflow PROVE Spec => DispatchSpec
<1>1. Init => Pool!Init
  BY InitPool
<1>2. IInv /\ [Next]_vars => [Pool!Next]_(Pool!vars)
  BY NoOverflow, NextPool
<1> QED BY NoOverflow, Invariance, <1>1, <1>2, PTL DEF Spec, DispatchSpec, Pool!Spec
=============================================================================
