------------------------------ MODULE EventLoop ------------------------------
(***************************************************************************)
(* The server's single thread (main of src/echoserveri.cc) with the epoll  *)
(* wrapper (src/kv_cluster_epoll.cc) and the part of class Conn that talks *)
(* to the socket (src/kv_conn.cc): accept, read, close and reply, for any  *)
(* number of clients.  What a read does to the bytes is module Conn's      *)
(* subject; here a client's stream is a sequence of segments, each the     *)
(* bytes of one or more packets: "part" does not complete a request, any   *)
(* other segment completes one, and names what its command does.           *)
(*                                                                         *)
(* A client connects once, so a client also names its socket and the Conn  *)
(* object that main allocates for it.  owner maps a descriptor to the      *)
(* socket (the kernel's view), conn_map to the Conn (the program's view).  *)
(***************************************************************************)
EXTENDS Naturals, Sequences, FiniteSets

CONSTANTS
  Clients,       \* the clients that may connect
  NoClient,      \* no client
  FDs,           \* the descriptors accept may return
  ListenFd,      \* listenfd
  Commands,      \* what the requests of the clients may do: see Effects
  Faults,        \* may a client close ("fin") or reset ("reset"), and accept
                 \* fail although a descriptor is free ("enfile")?
  Readers,       \* the clients that keep reading their replies
  MaxEvents,     \* the size of the array events
  MaxRequests,   \* bound: requests of one client
  SndBuf         \* replies a socket holds until the client reads

Effects == {"reply", "silent", "exit", "shutdown"}
Segments == Commands \cup {"part"}

ASSUME EventLoopAssumption ==
  /\ NoClient \notin Clients
  /\ ListenFd \notin FDs
  /\ Commands \subseteq Effects
  /\ Faults \subseteq {"fin", "reset", "enfile"}
  /\ Readers \subseteq Clients
  /\ MaxEvents \in Nat \ {0}
  /\ MaxRequests \in Nat
  /\ SndBuf \in Nat \ {0}

VARIABLES
  \* the clients and their sockets
  phase,         \* "new", "backlog", "accepted" or "closed" (by the server)
  peer,          \* "up", "fin" (closed), "reset", or "gone": a reset noticed
  inbox,         \* segments the server has not read
  mid,           \* the last segment sent is a "part"
  asked,         \* requests sent
  outbox,        \* replies written and not received
  got,           \* replies received
  \* the kernel's descriptors
  owner,         \* the socket a descriptor is open on, or NoClient
  watch,         \* what epoll watches it for: "IN", "OUT" or "none"
  \* the program
  pc,            \* where the thread is
  batch,         \* the events of the last epoll_wait not handled yet
  cur,           \* the descriptor being read or written
  nwrite,        \* SendReply: how much of Reply_ is written
  conn_map,      \* descriptor to Conn
  Reply_,        \* replies appended to the Conn and not sent completely
  half,          \* the Conn holds a part of a request
  is_connect_,
  keepRunning,
  due            \* history: replies that the requests run so far are owed

clientVars == <<peer, inbox, mid, asked, outbox, got>>
kernelVars == <<phase, owner, watch>>
connVars   == <<conn_map, Reply_, half, is_connect_, due>>
loopVars   == <<pc, batch, cur, nwrite, keepRunning>>
vars == <<clientVars, kernelVars, connVars, loopVars>>

Init ==
  /\ phase = [c \in Clients |-> "new"]
  /\ peer = [c \in Clients |-> "up"]
  /\ inbox = [c \in Clients |-> <<>>]
  /\ mid = [c \in Clients |-> FALSE]
  /\ asked = [c \in Clients |-> 0]
  /\ outbox = [c \in Clients |-> 0]
  /\ got = [c \in Clients |-> 0]
  /\ owner = [fd \in FDs |-> NoClient]
  /\ watch = [fd \in FDs |-> "none"]
  /\ pc = "wait"
  /\ batch = {}
  /\ cur = ListenFd
  /\ nwrite = 0
  /\ conn_map = [fd \in FDs |-> NoClient]
  /\ Reply_ = [c \in Clients |-> 0]
  /\ half = [c \in Clients |-> FALSE]
  /\ is_connect_ = [c \in Clients |-> TRUE]
  /\ keepRunning = TRUE
  /\ due = [c \in Clients |-> 0]

-----------------------------------------------------------------------------
(***************************************************************************)
(* The clients and the network (external).                                 *)
(***************************************************************************)
Connect(c) ==
  /\ phase[c] = "new"
  /\ phase' = [phase EXCEPT ![c] = "backlog"]
  /\ UNCHANGED <<clientVars, owner, watch, connVars, loopVars>>

Send(c, segment) ==
  /\ phase[c] \in {"backlog", "accepted"}
  /\ peer[c] = "up"
  /\ asked[c] < MaxRequests
  /\ segment = "part" => ~mid[c]
  /\ inbox' = [inbox EXCEPT ![c] = Append(@, segment)]
  /\ mid' = [mid EXCEPT ![c] = segment = "part"]
  /\ asked' = [asked EXCEPT ![c] = IF segment = "part" THEN @ ELSE @ + 1]
  /\ UNCHANGED <<peer, outbox, got, kernelVars, connVars, loopVars>>

Recv(c) ==
  /\ peer[c] = "up"
  /\ outbox[c] > 0
  /\ outbox' = [outbox EXCEPT ![c] = @ - 1]
  /\ got' = [got EXCEPT ![c] = @ + 1]
  /\ UNCHANGED <<peer, inbox, mid, asked, kernelVars, connVars, loopVars>>

\* The client closes, or its connection is reset (also in answer to data
\* that reaches a client that has closed).
Leave(c, how) ==
  /\ phase[c] # "new"
  /\ how \in Faults
  /\ \/ how = "fin" /\ peer[c] = "up"
     \/ how = "reset" /\ peer[c] \in {"up", "fin"}
  /\ peer' = [peer EXCEPT ![c] = how]
  /\ UNCHANGED <<inbox, mid, asked, outbox, got, kernelVars, connVars, loopVars>>

-----------------------------------------------------------------------------
(***************************************************************************)
(* The loop of main: epoll_wait, then one handler per event.               *)
(***************************************************************************)
Backlog == {c \in Clients : phase[c] = "backlog"}

\* Would read, or the first write, return at once?
Readable(c) == inbox[c] # <<>> \/ peer[c] # "up"
Writable(c) == outbox[c] < SndBuf \/ peer[c] \in {"reset", "gone"}

\* An event as epoll_wait reports it, with the client it was reported for.
Event == [ fd     : FDs \cup {ListenFd},
           ev     : {"IN", "OUT"},
           client : Clients \cup {NoClient} ]

StillReady(e) ==
  IF e.fd = ListenFd THEN Backlog # {}
  ELSE IF e.ev = "IN" THEN Readable(e.client) ELSE Writable(e.client)

\* A level-triggered registration reports what it watches for.
Ready ==
  { e \in Event :
      /\ IF e.fd = ListenFd THEN e.ev = "IN" /\ e.client = NoClient
         ELSE /\ watch[e.fd] = e.ev
              /\ owner[e.fd] = e.client
              /\ e.client # NoClient
      /\ StillReady(e) }

\* WaitEpoll.  A call that times out changes nothing.
WaitEpoll(events) ==
  /\ pc = "wait"
  /\ events # {}
  /\ events \subseteq Ready
  /\ Cardinality(events) <= MaxEvents
  /\ batch' = events
  /\ pc' = "dispatch"
  /\ UNCHANGED <<clientVars, kernelVars, connVars, cur, nwrite, keepRunning>>

\* Mutant: an event may be handled again.
TakeAgain(e) == pc = "dispatch" /\ e \in batch /\ batch' \in {batch, batch \ {e}}

Take(e) ==
  /\ pc = "dispatch"
  /\ e \in batch
  /\ batch' = batch \ {e}

\* JudgeFirst: new Conn, ProcessNewConn, conn_map[fd] = conn, SetInit.
HandleAccept(e, c, fd) ==
  /\ Take(e)
  /\ e.fd = ListenFd
  /\ c \in Backlog
  /\ owner[fd] = NoClient
  /\ phase' = [phase EXCEPT ![c] = "accepted"]
  /\ owner' = [owner EXCEPT ![fd] = c]
  /\ watch' = [watch EXCEPT ![fd] = "IN"]
  /\ conn_map' = [conn_map EXCEPT ![fd] = c]
  /\ UNCHANGED <<clientVars, Reply_, half, is_connect_, due,
                 pc, cur, nwrite, keepRunning>>

\* Without a free descriptor accept fails, and Accept exits.  Accept fails as
\* well when the system is short of files or memory, or the client gave up first.
HandleAcceptFails(e) ==
  /\ Take(e)
  /\ e.fd = ListenFd
  /\ (\A fd \in FDs : owner[fd] # NoClient) \/ "enfile" \in Faults
  /\ pc' = "exited"
  /\ UNCHANGED <<clientVars, kernelVars, connVars, cur, nwrite, keepRunning>>

\* JudgeRead on a Conn with data: AnalyticData reads (its parser is Parse).
HandleRead(e) ==
  /\ Take(e)
  /\ e.fd # ListenFd /\ e.ev = "IN"
  /\ conn_map[e.fd] # NoClient
  /\ inbox[owner[e.fd]] # <<>>
  /\ pc' = "parse"
  /\ cur' = e.fd
  /\ UNCHANGED <<clientVars, kernelVars, connVars, nwrite, keepRunning>>

\* Mutant: the Conn is not erased from conn_map.
CloseNoErase(fd) ==
  /\ owner' = [owner EXCEPT ![fd] = NoClient]
  /\ watch' = [watch EXCEPT ![fd] = "none"]
  /\ phase' = [phase EXCEPT ![owner[fd]] = "closed"]
  /\ UNCHANGED conn_map

\* erase, close, delete.
Close(fd) ==
  /\ conn_map' = [conn_map EXCEPT ![fd] = NoClient]
  /\ owner' = [owner EXCEPT ![fd] = NoClient]
  /\ watch' = [watch EXCEPT ![fd] = "none"]
  /\ phase' = [phase EXCEPT ![owner[fd]] = "closed"]

\* JudgeRead when read returns 0, and the else branches of main for a
\* descriptor that is not in the map (EventsFresh says that there is none).
HandleEof(e) ==
  /\ Take(e)
  /\ e.fd # ListenFd
  /\ conn_map[e.fd] # NoClient =>
       /\ e.ev = "IN"
       /\ inbox[owner[e.fd]] = <<>>
       /\ peer[owner[e.fd]] \in {"fin", "gone"}
  /\ Close(e.fd)
  /\ is_connect_' = [is_connect_ EXCEPT ![conn_map[e.fd]] = FALSE]
  /\ UNCHANGED <<clientVars, Reply_, half, due, pc, cur, nwrite, keepRunning>>

\* JudgeRead when read returns -1.  Finterpreter runs on a buffer of -1 bytes
\* and memmove gets a negative count, which kills the server or does nothing;
\* the next read returns 0.
HandleReadError(e) ==
  /\ Take(e)
  /\ e.fd # ListenFd /\ e.ev = "IN"
  /\ conn_map[e.fd] # NoClient
  /\ inbox[owner[e.fd]] = <<>> /\ peer[owner[e.fd]] = "reset"
  /\ pc' \in {"dispatch", "crashed"}
  /\ peer' = [peer EXCEPT ![owner[e.fd]] = "gone"]
  /\ UNCHANGED <<inbox, mid, asked, outbox, got, kernelVars, connVars,
                 cur, nwrite, keepRunning>>

\* Mutant: SetWrite is not called.
NoSetWrite(more, segment) == watch

\* A request that ends what was read is answered now: SetWrite.
SetWriteAtEnd(more, segment) ==
  IF more \/ segment = "part" THEN watch ELSE [watch EXCEPT ![cur] = "OUT"]

\* One segment of what AnalyticData read.  A segment that completes a request
\* runs it (GetRequest).  At the end of the read main drops a Conn that is no longer connected.
Parse(more) ==
  LET c       == conn_map[cur]
      segment == Head(inbox[owner[cur]])
      owed    == IF segment \in {"part", "silent"} THEN 0 ELSE 1
  IN  /\ pc = "parse"
      /\ more => Len(inbox[owner[cur]]) > 1
      /\ inbox' = [inbox EXCEPT ![owner[cur]] = Tail(@)]
      /\ half' = [half EXCEPT ![c] = segment = "part"]
      /\ Reply_' = [Reply_ EXCEPT ![c] = @ + owed]
      /\ due' = [due EXCEPT ![owner[cur]] = @ + owed]
      /\ is_connect_' = [is_connect_ EXCEPT ![c] = @ /\ segment # "exit"]
      /\ keepRunning' = (keepRunning /\ segment # "shutdown")
      /\ pc' = IF more THEN "parse" ELSE "dispatch"
      /\ IF more \/ is_connect_'[c]
           THEN /\ watch' = SetWriteAtEnd(more, segment)
                /\ UNCHANGED <<conn_map, owner, phase>>
           ELSE Close(cur)
      /\ UNCHANGED <<peer, mid, asked, outbox, got, batch, cur, nwrite>>

\* JudgeWrite: SendReply.  main tests IsConnect after it too, but a Conn that
\* is no longer connected was dropped at the end of the read that ended it.
HandleWrite(e) ==
  /\ Take(e)
  /\ e.fd # ListenFd /\ e.ev = "OUT"
  /\ conn_map[e.fd] # NoClient
  /\ pc' = "write"
  /\ cur' = e.fd
  /\ nwrite' = 0
  /\ UNCHANGED <<clientVars, kernelVars, connVars, keepRunning>>

\* Mutants: SetRead or Reply_.clear() is missing.
ReplySentNoSetRead(c) == Reply_' = [Reply_ EXCEPT ![c] = 0] /\ UNCHANGED watch
ReplySentNoClear(c) == watch' = [watch EXCEPT ![cur] = "IN"] /\ UNCHANGED Reply_

\* The end of SendReply: SetRead, Reply_.clear().
ReplySent(c) ==
  /\ watch' = [watch EXCEPT ![cur] = "IN"]
  /\ Reply_' = [Reply_ EXCEPT ![c] = 0]

\* One write.  The socket is blocking: without room in it there is no step.
Write ==
  LET c     == conn_map[cur]
      total == Reply_[c]
  IN  /\ pc = "write"
      /\ peer[owner[cur]] \in {"up", "fin"}
      /\ total > 0
      /\ outbox[owner[cur]] < SndBuf
      /\ outbox' = [outbox EXCEPT ![owner[cur]] = @ + 1]
      /\ nwrite' = nwrite + 1
      /\ IF nwrite + 1 = total
           THEN ReplySent(c) /\ pc' = "dispatch"
           ELSE UNCHANGED <<watch, Reply_, pc>>
      /\ UNCHANGED <<peer, inbox, mid, asked, got, phase, owner, conn_map, half,
                     is_connect_, due, batch, cur, keepRunning>>

\* With an empty Reply_ write returns 0, and SendReply returns.
WriteNothing ==
  /\ pc = "write"
  /\ peer[owner[cur]] \in {"up", "fin"}
  /\ Reply_[conn_map[cur]] = 0
  /\ pc' = "dispatch"
  /\ UNCHANGED <<clientVars, kernelVars, connVars, batch, cur, nwrite, keepRunning>>

\* Mutant: SIGPIPE is ignored, and so is the result of write.
WriteErrorIgnored ==
  /\ pc = "write"
  /\ peer[owner[cur]] \in {"reset", "gone"}
  /\ nwrite' = nwrite - 1
  /\ UNCHANGED <<clientVars, kernelVars, connVars, pc, batch, cur, keepRunning>>

\* A write to a reset socket fails; SendReply writes again, and SIGPIPE kills
\* the process.
WriteError ==
  /\ pc = "write"
  /\ peer[owner[cur]] \in {"reset", "gone"}
  /\ pc' = "killed"
  /\ UNCHANGED <<clientVars, kernelVars, connVars, batch, cur, nwrite, keepRunning>>

\* The end of the for loop and the test of while (keepRunning).
EndBatch ==
  /\ pc = "dispatch"
  /\ batch = {}
  /\ pc' = IF keepRunning THEN "wait" ELSE "exited"
  /\ UNCHANGED <<clientVars, kernelVars, connVars, batch, cur, nwrite, keepRunning>>

-----------------------------------------------------------------------------
Handle(e) ==
  \/ \E c \in Clients, fd \in FDs : HandleAccept(e, c, fd)
  \/ HandleAcceptFails(e)
  \/ HandleRead(e)
  \/ HandleEof(e)
  \/ HandleReadError(e)
  \/ HandleWrite(e)

Server ==
  \/ \E events \in SUBSET Ready : WaitEpoll(events)
  \/ \E e \in batch : Handle(e)
  \/ \E more \in BOOLEAN : Parse(more)
  \/ Write
  \/ WriteNothing
  \/ WriteError
  \/ EndBatch

Client(c) ==
  \/ Connect(c)
  \/ \E segment \in Segments : Send(c, segment)
  \/ Recv(c)
  \/ \E how \in Faults : Leave(c, how)

Next == Server \/ \E c \in Clients : Client(c)

\* The thread never rests, and epoll_wait, which takes turns among the ready
\* descriptors, reports each at last.  A client ends a request that it began,
\* and a reader takes its replies.
Fairness ==
  /\ WF_vars(Server)
  /\ \A fd \in FDs \cup {ListenFd} :
       SF_vars(\E events \in SUBSET Ready :
                 WaitEpoll(events) /\ \E e \in events : e.fd = fd)
  /\ \A c \in Clients :
       WF_vars(mid[c] /\ \E command \in Commands : Send(c, command))
  /\ \A c \in Readers : WF_vars(Recv(c))

Spec == Init /\ [][Next]_vars /\ Fairness

-----------------------------------------------------------------------------
TypeOK ==
  /\ phase \in [Clients -> {"new", "backlog", "accepted", "closed"}]
  /\ peer \in [Clients -> {"up", "fin", "reset", "gone"}]
  /\ inbox \in [Clients -> Seq(Segments)]
  /\ mid \in [Clients -> BOOLEAN]
  /\ asked \in [Clients -> Nat]
  /\ outbox \in [Clients -> Nat]
  /\ got \in [Clients -> Nat]
  /\ owner \in [FDs -> Clients \cup {NoClient}]
  /\ watch \in [FDs -> {"none", "IN", "OUT"}]
  /\ pc \in {"wait", "dispatch", "parse", "write", "exited", "killed",
            "crashed"}
  /\ batch \subseteq Event
  /\ cur \in FDs \cup {ListenFd}
  /\ nwrite \in Nat
  /\ conn_map \in [FDs -> Clients \cup {NoClient}]
  /\ Reply_ \in [Clients -> Nat]
  /\ half \in [Clients -> BOOLEAN]
  /\ is_connect_ \in [Clients -> BOOLEAN]
  /\ keepRunning \in BOOLEAN
  /\ due \in [Clients -> Nat]

\* An event is handled with the connection it was reported for, though
\* handlers before it in the batch closed connections and accepted others: the
\* else branches of main, which close a descriptor that is not in conn_map,
\* are never taken, and no handler meets a descriptor that was reused.
EventsFresh ==
  \A e \in batch :
    e.fd # ListenFd => /\ e.client # NoClient
                       /\ conn_map[e.fd] = e.client
                       /\ owner[e.fd] = e.client
                       /\ watch[e.fd] = e.ev

\* accept, read and the first write of a handler return at once, although the
\* descriptors are blocking: what made the event ready is still there.
NeverBlocksOnEvent == \A e \in batch : StillReady(e)

\* conn_map, the open descriptors and epoll agree, and every accepted client
\* has exactly one descriptor: none leaks, and none is shared.
NoFdLeak ==
  /\ conn_map = owner
  /\ \A fd \in FDs : watch[fd] = "none" <=> owner[fd] = NoClient
  /\ \A fd1, fd2 \in FDs :
       owner[fd1] = owner[fd2] /\ owner[fd1] # NoClient => fd1 = fd2
  /\ \A c \in Clients :
       phase[c] = "accepted" <=> \E fd \in FDs : owner[fd] = c

\* Every reply that a request produced is in one place: received, in the
\* socket, or still in the Conn.  None is lost or sent twice, between batches
\* and in the middle of SendReply.
Unsent(c) == Reply_[c] - IF pc = "write" /\ conn_map[cur] = c THEN nwrite ELSE 0
OneReplyPerRequest ==
  \A c \in Clients :
    IF phase[c] = "accepted" /\ pc # "killed"
      THEN got[c] + outbox[c] + Unsent(c) = due[c]
      ELSE got[c] + outbox[c] <= due[c]

\* A reply is withheld (its Conn is watched for input only) just while the
\* client is in the middle of its next request.
WithheldOnlyMidRequest ==
  \A fd \in FDs :
    conn_map[fd] # NoClient /\ watch[fd] = "IN" /\ Reply_[conn_map[fd]] > 0 =>
      half[conn_map[fd]] \/ (pc = "parse" /\ cur = fd)

\* The server stops only after a client's shutdown, whatever clients connect
\* and leave ("crashed" is left to NoAssertFailure of module Conn).
StopsOnlyOnShutdown == pc \in {"exited", "killed"} => ~keepRunning

\* A client that reads its replies has all its requests read and answered,
\* unless its connection or the server ends.
AllAnswered ==
  \A c \in Readers :
    []<>(\/ inbox[c] = <<>> /\ got[c] = due[c]
         \/ phase[c] = "closed" \/ peer[c] # "up"
         \/ pc \in {"exited", "killed", "crashed"})

\* What makes these invariants inductive: an event is for a descriptor of its
\* own, and the one that is being handled has left the batch.
UniqueEvents == \A e1, e2 \in batch : e1.fd = e2.fd => e1 = e2
BatchDone == pc = "wait" => batch = {}
CurOpen ==
  pc \in {"parse", "write"} =>
    /\ cur \in FDs
    /\ owner[cur] # NoClient
    /\ \A e \in batch : e.fd # cur
ParseHasInput == pc = "parse" => inbox[owner[cur]] # <<>>
WriteInBounds == pc = "write" => nwrite = 0 \/ nwrite < Reply_[conn_map[cur]]
NothingBeforeAccept ==
  \A c \in Clients :
    phase[c] \in {"new", "backlog"} =>
      got[c] = 0 /\ outbox[c] = 0 /\ due[c] = 0 /\ Reply_[c] = 0

IInv ==
  /\ TypeOK /\ EventsFresh /\ NeverBlocksOnEvent /\ NoFdLeak
  /\ OneReplyPerRequest /\ WithheldOnlyMidRequest
  /\ UniqueEvents /\ BatchDone /\ CurOpen /\ ParseHasInput /\ WriteInBounds
  /\ NothingBeforeAccept

\* Each client sees a session of its own (conn_map, owner, Reply_ and the
\* batch of events together keep the sessions apart).
PerClient == INSTANCE Sessions WITH
  left <- [c \in Clients |-> peer[c] # "up"],
  bye  <- [c \in Clients |-> ~is_connect_[c]]
SessionsSpec == PerClient!Spec
=============================================================================
