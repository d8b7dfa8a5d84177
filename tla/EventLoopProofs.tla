--------------------------- MODULE EventLoopProofs ---------------------------
(***************************************************************************)
(* Proofs about EventLoop for every set of clients and descriptors and     *)
(* every value of the bounds: IInv is an inductive invariant.              *)
(***************************************************************************)
EXTENDS EventLoop, SequenceTheorems, TLAPS

\* What is left of more than one segment is not empty.
LEMMA TailNonEmpty ==
  ASSUME NEW S, NEW s \in Seq(S), Len(s) > 1
  PROVE  Tail(s) # <<>>
<1>1. CASE s = <<>>
  BY <1>1
<1>2. CASE s # <<>>
  <2>1. Len(Tail(s)) = Len(s) - 1
    BY <1>2, HeadTailProperties, Zenon
  <2>2. Len(s) \in Nat /\ Len(Tail(s)) # 0
    BY <2>1
  <2>3. Len(<<>>) = 0
    OBVIOUS
  <2> QED
    BY <2>2, <2>3, Zenon
<1> QED
  BY <1>1, <1>2

\* An event of the batch other than the listening one is for an open
\* connection.
LEMMA EventOpen ==
  ASSUME IInv, NEW e \in batch, e.fd # ListenFd
  PROVE  /\ e.fd \in FDs
         /\ owner[e.fd] \in Clients
         /\ owner[e.fd] = e.client
         /\ conn_map[e.fd] = e.client
BY DEF IInv, TypeOK, EventsFresh, Event

\* So is the descriptor that is being read or written.
LEMMA CurrentOpen ==
  ASSUME IInv, pc \in {"parse", "write"}
  PROVE  /\ cur \in FDs
         /\ owner[cur] \in Clients
         /\ conn_map[cur] = owner[cur]
BY DEF IInv, TypeOK, CurOpen, NoFdLeak

\* Every handler keeps the types.
LEMMA TypeOKStep == IInv /\ [Next]_vars => TypeOK'
<1> SUFFICES ASSUME IInv, [Next]_vars PROVE TypeOK'
  OBVIOUS
<1> USE DEF TypeOK, clientVars, kernelVars, connVars, loopVars
<1> TypeOK
  BY DEF IInv
<1>1. ASSUME NEW c \in Clients, Connect(c) PROVE TypeOK'
  BY <1>1 DEF Connect
<1>2. ASSUME NEW c \in Clients, NEW segment \in Segments, Send(c, segment)
      PROVE  TypeOK'
  BY <1>2 DEF Send
<1>3. ASSUME NEW c \in Clients, Recv(c) PROVE TypeOK'
  BY <1>3 DEF Recv
<1>4. ASSUME NEW c \in Clients, NEW how \in Faults, Leave(c, how) PROVE TypeOK'
  BY <1>4 DEF Leave
<1>5. ASSUME NEW events \in SUBSET Ready, WaitEpoll(events) PROVE TypeOK'
  BY <1>5 DEF WaitEpoll, Ready
<1>6. ASSUME NEW e \in batch, NEW c \in Clients, NEW fd \in FDs,
             HandleAccept(e, c, fd)
      PROVE  TypeOK'
  BY <1>6 DEF HandleAccept, Take
<1>7. ASSUME NEW e \in batch, HandleAcceptFails(e) PROVE TypeOK'
  BY <1>7 DEF HandleAcceptFails, Take
<1>8. ASSUME NEW e \in batch, HandleRead(e) PROVE TypeOK'
  BY <1>8 DEF HandleRead, Take, Event
<1>9. ASSUME NEW e \in batch, HandleEof(e) PROVE TypeOK'
  BY <1>9, EventOpen DEF HandleEof, Take, Close
<1>10. ASSUME NEW e \in batch, HandleReadError(e) PROVE TypeOK'
  BY <1>10 DEF HandleReadError, Take, Event
<1>11. ASSUME NEW more \in BOOLEAN, Parse(more) PROVE TypeOK'
  <2>1. /\ cur \in FDs
        /\ owner[cur] \in Clients
        /\ conn_map[cur] = owner[cur]
    BY <1>11, CurrentOpen DEF Parse
  <2>2. inbox[owner[cur]] \in Seq(Segments) /\ inbox[owner[cur]] # <<>>
    BY <1>11, <2>1 DEF Parse, IInv, ParseHasInput
  <2>3. inbox' \in [Clients -> Seq(Segments)]
    BY <1>11, <2>1, <2>2 DEF Parse
  <2>4. half' \in [Clients -> BOOLEAN] /\ is_connect_' \in [Clients -> BOOLEAN]
    BY <1>11, <2>1 DEF Parse
  <2>5. Reply_' \in [Clients -> Nat] /\ due' \in [Clients -> Nat]
    BY <1>11, <2>1 DEF Parse
  <2>6. CASE Close(cur)
    BY <1>11, <2>1, <2>3, <2>4, <2>5, <2>6 DEF Parse, Close
  <2>7. CASE UNCHANGED <<conn_map, owner, phase>>
    <3>1. watch' \in [FDs -> {"none", "IN", "OUT"}]
      BY <1>11, <2>1, <2>6, <2>7 DEF Parse, Close, SetWriteAtEnd
    <3> QED
      BY <1>11, <2>3, <2>4, <2>5, <2>7, <3>1 DEF Parse
  <2> QED
    BY <1>11, <2>6, <2>7 DEF Parse
<1>12. ASSUME NEW e \in batch, HandleWrite(e) PROVE TypeOK'
  BY <1>12 DEF HandleWrite, Take, Event
<1>13. ASSUME Write PROVE TypeOK'
  <2>0. cur \in FDs /\ owner[cur] \in Clients /\ conn_map[cur] = owner[cur]
    BY <1>13, CurrentOpen DEF Write
  <2>1. outbox' \in [Clients -> Nat] /\ nwrite' \in Nat
    BY <1>13, <2>0 DEF Write
  <2>2. /\ watch' \in [FDs -> {"none", "IN", "OUT"}]
        /\ Reply_' \in [Clients -> Nat]
        /\ pc' \in {"write", "dispatch"}
    <3>1. CASE nwrite + 1 = Reply_[conn_map[cur]]
      <4>1. ReplySent(conn_map[cur]) /\ pc' = "dispatch"
        BY <1>13, <3>1 DEF Write
      <4> QED
        BY <2>0, <4>1 DEF ReplySent
    <3>2. CASE nwrite + 1 # Reply_[conn_map[cur]]
      BY <1>13, <3>2 DEF Write
    <3> QED
      BY <3>1, <3>2
  <2>3. UNCHANGED <<peer, inbox, mid, asked, got, phase, owner, conn_map, half,
                    is_connect_, due, batch, cur, keepRunning>>
    BY <1>13 DEF Write
  <2> QED
    BY <2>1, <2>2, <2>3
<1>14. ASSUME WriteNothing PROVE TypeOK'
  BY <1>14 DEF WriteNothing
<1>15. ASSUME WriteError PROVE TypeOK'
  BY <1>15 DEF WriteError
<1>16. ASSUME EndBatch PROVE TypeOK'
  BY <1>16 DEF EndBatch
<1>17. ASSUME UNCHANGED vars PROVE TypeOK'
  BY <1>17 DEF vars
<1> QED
  BY <1>1, <1>2, <1>3, <1>4, <1>5, <1>6, <1>7, <1>8, <1>9, <1>10, <1>11, <1>12,
     <1>13, <1>14, <1>15, <1>16, <1>17 DEF Next, Server, Handle, Client

\* accept and close keep conn_map, the descriptors and epoll in agreement.
LEMMA NoFdLeakStep == IInv /\ [Next]_vars => NoFdLeak'
<1> SUFFICES ASSUME IInv, [Next]_vars PROVE NoFdLeak'
  OBVIOUS
<1> USE DEF NoFdLeak, clientVars, kernelVars, connVars, loopVars
<1> NoFdLeak /\ TypeOK
  BY DEF IInv
<1>1. ASSUME NEW c \in Clients, Connect(c) PROVE NoFdLeak'
  BY <1>1 DEF Connect, TypeOK
<1>2. ASSUME NEW e \in batch, NEW c \in Clients, NEW fd \in FDs,
             HandleAccept(e, c, fd)
      PROVE  NoFdLeak'
  <2>1. /\ phase[c] = "backlog"
        /\ \A f \in FDs : owner[f] # c
    BY <1>2 DEF HandleAccept, Backlog
  <2>2. \A f \in FDs : owner'[f] = IF f = fd THEN c ELSE owner[f]
    BY <1>2 DEF HandleAccept, TypeOK
  <2>3. \A f \in FDs : watch'[f] = IF f = fd THEN "IN" ELSE watch[f]
    BY <1>2 DEF HandleAccept, TypeOK
  <2>4. \A d \in Clients : phase'[d] = IF d = c THEN "accepted" ELSE phase[d]
    BY <1>2 DEF HandleAccept, TypeOK
  <2>5. conn_map' = owner'
    BY <1>2 DEF HandleAccept
  <2>6. c # NoClient
    BY EventLoopAssumption
  <2>7. owner[fd] = NoClient
    BY <1>2 DEF HandleAccept
  <2> QED
    BY <2>1, <2>2, <2>3, <2>4, <2>5, <2>6, <2>7, EventLoopAssumption
<1>3. ASSUME NEW fd \in FDs, owner[fd] \in Clients, Close(fd) PROVE NoFdLeak'
  <2>1. \A f \in FDs : owner'[f] = IF f = fd THEN NoClient ELSE owner[f]
    BY <1>3 DEF Close, TypeOK
  <2>2. \A f \in FDs : watch'[f] = IF f = fd THEN "none" ELSE watch[f]
    BY <1>3 DEF Close, TypeOK
  <2>3. \A d \in Clients :
          phase'[d] = IF d = owner[fd] THEN "closed" ELSE phase[d]
    BY <1>3 DEF Close, TypeOK
  <2>4. conn_map' = owner'
    BY <1>3 DEF Close
  <2> QED
    BY <1>3, <2>1, <2>2, <2>3, <2>4, EventLoopAssumption
<1>4. ASSUME NEW fd \in FDs, owner[fd] # NoClient,
             watch' \in { watch, [watch EXCEPT ![fd] = "IN"],
                          [watch EXCEPT ![fd] = "OUT"] },
             UNCHANGED <<conn_map, owner, phase>>
      PROVE  NoFdLeak'
  BY <1>4 DEF TypeOK
<1>5. ASSUME NEW e \in batch, HandleEof(e) PROVE NoFdLeak'
  BY <1>3, <1>5, EventOpen DEF HandleEof
<1>6. ASSUME NEW more \in BOOLEAN, Parse(more) PROVE NoFdLeak'
  <2>1. pc = "parse"
    BY <1>6 DEF Parse
  <2>2. cur \in FDs /\ owner[cur] \in Clients /\ owner[cur] # NoClient
    BY <2>1, CurrentOpen, EventLoopAssumption
  <2> QED
    BY <1>3, <1>4, <1>6, <2>2 DEF Parse, SetWriteAtEnd
<1>7. ASSUME Write PROVE NoFdLeak'
  <2>1. cur \in FDs /\ owner[cur] # NoClient
    BY <1>7, CurrentOpen, EventLoopAssumption DEF Write
  <2> QED
    BY <1>4, <1>7, <2>1 DEF Write, ReplySent
<1>8. ASSUME UNCHANGED <<conn_map, owner, watch, phase>> PROVE NoFdLeak'
  BY <1>8
<1> QED
  BY <1>1, <1>2, <1>5, <1>6, <1>7, <1>8
  DEF Next, Server, Handle, Client, vars, Send, Recv, Leave, WaitEpoll,
      HandleAcceptFails, HandleRead, HandleReadError, HandleWrite,
      WriteNothing, WriteError, EndBatch

\* Handlers change what a batch event relies on only at another descriptor.
LEMMA EventsFreshStep == IInv /\ [Next]_vars => EventsFresh' /\ UniqueEvents'
<1> SUFFICES ASSUME IInv, [Next]_vars PROVE EventsFresh' /\ UniqueEvents'
  OBVIOUS
<1> USE DEF EventsFresh, UniqueEvents, clientVars, kernelVars, connVars, loopVars
<1> EventsFresh /\ UniqueEvents /\ TypeOK
  BY DEF IInv
<1>1. ASSUME NEW events \in SUBSET Ready, WaitEpoll(events)
      PROVE  EventsFresh' /\ UniqueEvents'
  <2>1. batch' = events /\ UNCHANGED <<owner, watch, conn_map>>
    BY <1>1 DEF WaitEpoll
  <2>2. \A e \in Ready : e.fd # ListenFd => /\ e.client # NoClient
                                          /\ conn_map[e.fd] = e.client
                                          /\ owner[e.fd] = e.client
                                          /\ watch[e.fd] = e.ev
    BY DEF Ready, IInv, NoFdLeak
  <2>3. \A e \in Ready : e.fd = ListenFd => e.ev = "IN" /\ e.client = NoClient
    BY DEF Ready
  <2>4. \A e \in Ready : e = [fd |-> e.fd, ev |-> e.ev, client |-> e.client]
    BY DEF Ready, Event
  <2>5. \A e1, e2 \in Ready : e1.fd = e2.fd => e1.ev = e2.ev /\ e1.client = e2.client
    BY <2>2, <2>3
  <2>6. \A e1, e2 \in Ready : e1.fd = e2.fd => e1 = e2
    BY <2>4, <2>5
  <2> QED
    BY <2>1, <2>2, <2>6
<1>2. ASSUME NEW fd \in FDs, batch' \subseteq batch,
             \A e \in batch' : e.fd # fd,
             \A f \in FDs \ {fd} : /\ owner'[f] = owner[f]
                                   /\ conn_map'[f] = conn_map[f]
                                   /\ watch'[f] = watch[f]
      PROVE  EventsFresh' /\ UniqueEvents'
  <2>1. \A e \in batch' : e.fd # ListenFd => e.fd \in FDs \ {fd}
    BY <1>2, EventOpen
  <2> QED
    BY <1>2, <2>1
<1>3. ASSUME NEW e \in batch, NEW c \in Clients, NEW fd \in FDs,
             HandleAccept(e, c, fd)
      PROVE  EventsFresh' /\ UniqueEvents'
  <2>1. batch' \subseteq batch
    BY <1>3 DEF HandleAccept, Take
  <2>2. \A d \in batch : d.fd # fd
    BY <1>3, EventOpen, EventLoopAssumption DEF HandleAccept
  <2>3. \A f \in FDs \ {fd} : /\ owner'[f] = owner[f]
                              /\ conn_map'[f] = conn_map[f]
                              /\ watch'[f] = watch[f]
    BY <1>3 DEF HandleAccept, TypeOK
  <2> QED
    BY <1>2, <2>1, <2>2, <2>3
<1>4. ASSUME NEW fd \in FDs, Close(fd)
      PROVE  \A f \in FDs \ {fd} : /\ owner'[f] = owner[f]
                                   /\ conn_map'[f] = conn_map[f]
                                   /\ watch'[f] = watch[f]
  BY <1>4 DEF Close, TypeOK
<1>5. ASSUME NEW e \in batch, HandleEof(e) PROVE EventsFresh' /\ UniqueEvents'
  <2>1. e.fd \in FDs
    BY <1>5, EventOpen DEF HandleEof
  <2>2. batch' \subseteq batch /\ \A d \in batch' : d.fd # e.fd
    BY <1>5 DEF HandleEof, Take
  <2>3. Close(e.fd)
    BY <1>5 DEF HandleEof
  <2> QED
    BY <1>2, <1>4, <2>1, <2>2, <2>3
<1>6. ASSUME NEW more \in BOOLEAN, Parse(more) PROVE EventsFresh' /\ UniqueEvents'
  <2>1. pc = "parse" /\ batch' = batch
    BY <1>6 DEF Parse
  <2>2. cur \in FDs /\ \A d \in batch : d.fd # cur
    BY <2>1 DEF IInv, CurOpen
  <2>3. CASE Close(cur)
    BY <1>2, <1>4, <2>1, <2>2, <2>3
  <2>4. CASE /\ watch' \in {watch, [watch EXCEPT ![cur] = "OUT"]}
             /\ UNCHANGED <<conn_map, owner>>
    BY <1>2, <2>1, <2>2, <2>4 DEF TypeOK
  <2> QED
    BY <1>6, <2>3, <2>4 DEF Parse, SetWriteAtEnd
<1>7. ASSUME Write PROVE EventsFresh' /\ UniqueEvents'
  <2>1. pc = "write" /\ batch' = batch /\ UNCHANGED <<conn_map, owner>>
    BY <1>7 DEF Write
  <2>2. cur \in FDs /\ \A d \in batch : d.fd # cur
    BY <2>1 DEF IInv, CurOpen
  <2>3. watch' \in {watch, [watch EXCEPT ![cur] = "IN"]}
    BY <1>7 DEF Write, ReplySent
  <2> QED
    BY <1>2, <2>1, <2>2, <2>3 DEF TypeOK
<1>8. ASSUME batch' \subseteq batch, UNCHANGED <<conn_map, owner, watch>>
      PROVE  EventsFresh' /\ UniqueEvents'
  BY <1>8
<1> QED
  BY <1>1, <1>3, <1>5, <1>6, <1>7, <1>8
  DEF Next, Server, Handle, Client, vars, Take, Connect, Send, Recv, Leave,
      HandleAcceptFails, HandleRead, HandleReadError, HandleWrite,
      WriteNothing, WriteError, EndBatch

\* The descriptor being read or written stays open and out of the batch.
CurOK == BatchDone /\ CurOpen /\ ParseHasInput /\ WriteInBounds

LEMMA CurOKStep == IInv /\ [Next]_vars => CurOK'
<1> SUFFICES ASSUME IInv, [Next]_vars PROVE CurOK'
  OBVIOUS
<1> USE DEF CurOK, BatchDone, CurOpen, ParseHasInput, WriteInBounds,
            clientVars, kernelVars, connVars, loopVars
<1> CurOK /\ TypeOK
  BY DEF IInv
<1>1. ASSUME NEW c \in Clients, NEW segment \in Segments, Send(c, segment)
      PROVE  CurOK'
  <2>1. \A d \in Clients : inbox[d] # <<>> => inbox'[d] # <<>>
    BY <1>1 DEF Send, TypeOK
  <2>2. pc = "parse" => owner[cur] \in Clients
    BY CurrentOpen
  <2> QED
    BY <1>1, <2>1, <2>2 DEF Send
<1>2. ASSUME NEW events \in SUBSET Ready, WaitEpoll(events) PROVE CurOK'
  BY <1>2 DEF WaitEpoll
<1>3. ASSUME NEW e \in batch, NEW c \in Clients, NEW fd \in FDs,
             HandleAccept(e, c, fd)
      PROVE  CurOK'
  BY <1>3 DEF HandleAccept, Take
<1>4. ASSUME NEW e \in batch, HandleAcceptFails(e) PROVE CurOK'
  BY <1>4 DEF HandleAcceptFails
<1>5. ASSUME NEW e \in batch, HandleRead(e) PROVE CurOK'
  <2>1. e.fd \in FDs /\ owner[e.fd] # NoClient
    BY <1>5, EventOpen, EventLoopAssumption DEF HandleRead
  <2>2. \A d \in batch' : d.fd # e.fd
    BY <1>5 DEF HandleRead, Take, IInv, UniqueEvents
  <2> QED
    BY <1>5, <2>1, <2>2 DEF HandleRead
<1>6. ASSUME NEW e \in batch, HandleEof(e) PROVE CurOK'
  BY <1>6 DEF HandleEof, Take
<1>7. ASSUME NEW e \in batch, HandleReadError(e) PROVE CurOK'
  BY <1>7 DEF HandleReadError, Take
<1>8. ASSUME NEW more \in BOOLEAN, Parse(more) PROVE CurOK'
  <2>1. CASE more
    <3>1. inbox[owner[cur]] \in Seq(Segments) /\ owner[cur] \in Clients
      BY <1>8, CurrentOpen DEF Parse, TypeOK
    <3>2. Tail(inbox[owner[cur]]) # <<>>
      BY <1>8, <2>1, <3>1, TailNonEmpty DEF Parse
    <3>3. inbox'[owner[cur]] # <<>>
      BY <1>8, <3>1, <3>2 DEF Parse, TypeOK
    <3> QED
      BY <1>8, <2>1, <3>3 DEF Parse
  <2>2. CASE ~more
    BY <1>8, <2>2 DEF Parse
  <2> QED
    BY <2>1, <2>2
<1>9. ASSUME NEW e \in batch, HandleWrite(e) PROVE CurOK'
  <2>1. e.fd \in FDs /\ owner[e.fd] # NoClient
    BY <1>9, EventOpen, EventLoopAssumption DEF HandleWrite
  <2>2. \A d \in batch' : d.fd # e.fd
    BY <1>9 DEF HandleWrite, Take, IInv, UniqueEvents
  <2> QED
    BY <1>9, <2>1, <2>2 DEF HandleWrite
<1>10. ASSUME Write PROVE CurOK'
  <2>1. CASE nwrite + 1 = Reply_[conn_map[cur]]
    BY <1>10, <2>1 DEF Write
  <2>2. CASE nwrite + 1 # Reply_[conn_map[cur]]
    <3>1. Reply_[conn_map[cur]] \in Nat
      BY <1>10, CurrentOpen DEF Write, TypeOK
    <3>2. nwrite + 1 < Reply_[conn_map[cur]]
      BY <1>10, <2>2, <3>1 DEF Write, TypeOK
    <3> QED
      BY <1>10, <2>2, <3>2 DEF Write
  <2> QED
    BY <2>1, <2>2
<1>11. ASSUME WriteNothing \/ WriteError \/ EndBatch PROVE CurOK'
  BY <1>11 DEF WriteNothing, WriteError, EndBatch
<1>12. ASSUME UNCHANGED <<pc, batch, cur, nwrite, owner, inbox, conn_map, Reply_>>
       PROVE  CurOK'
  BY <1>12
<1> QED
  BY <1>1, <1>2, <1>3, <1>4, <1>5, <1>6, <1>7, <1>8, <1>9, <1>10, <1>11, <1>12
  DEF Next, Server, Handle, Client, vars, Connect, Recv, Leave

\* What made an event ready is there until its handler runs.
LEMMA NeverBlocksStep == IInv /\ [Next]_vars => NeverBlocksOnEvent'
<1> SUFFICES ASSUME IInv, [Next]_vars PROVE NeverBlocksOnEvent'
  OBVIOUS
<1> USE DEF NeverBlocksOnEvent, StillReady, Readable, Writable, Backlog,
            clientVars, kernelVars, connVars, loopVars
<1> NeverBlocksOnEvent /\ TypeOK
  BY DEF IInv
<1>0. \A e \in batch : e.fd # ListenFd => e.client \in Clients /\ e.fd \in FDs
  BY EventOpen
<1>1. ASSUME NEW c \in Clients, Connect(c) PROVE NeverBlocksOnEvent'
  <2>1. Backlog \subseteq Backlog'
    BY <1>1 DEF Connect, TypeOK
  <2> QED
    BY <1>1, <2>1 DEF Connect
<1>2. ASSUME NEW c \in Clients, NEW segment \in Segments, Send(c, segment)
      PROVE  NeverBlocksOnEvent'
  <2>1. \A d \in Clients : inbox[d] # <<>> => inbox'[d] # <<>>
    BY <1>2, AppendProperties DEF Send, TypeOK
  <2>2. UNCHANGED <<batch, peer, outbox, phase>>
    BY <1>2 DEF Send
  <2>3. \A d \in Clients : (inbox[d] # <<>> \/ peer[d] # "up") =>
                            (inbox'[d] # <<>> \/ peer'[d] # "up")
    BY <2>1, <2>2
  <2> QED
    BY <1>0, <2>2, <2>3
<1>3. ASSUME NEW c \in Clients, Recv(c) PROVE NeverBlocksOnEvent'
  <2>1. \A d \in Clients : outbox[d] < SndBuf => outbox'[d] < SndBuf
    BY <1>3, EventLoopAssumption DEF Recv, TypeOK
  <2> QED
    BY <1>0, <1>3, <2>1 DEF Recv
<1>4. ASSUME NEW c \in Clients, NEW how \in Faults, Leave(c, how)
      PROVE  NeverBlocksOnEvent'
  <2>1. \A d \in Clients : /\ peer[d] # "up" => peer'[d] # "up"
                          /\ peer[d] \in {"reset", "gone"}
                               => peer'[d] \in {"reset", "gone"}
    BY <1>4, EventLoopAssumption DEF Leave, TypeOK
  <2> QED
    BY <1>0, <1>4, <2>1 DEF Leave
<1>5. ASSUME NEW events \in SUBSET Ready, WaitEpoll(events)
      PROVE  NeverBlocksOnEvent'
  BY <1>5 DEF WaitEpoll, Ready
<1>6. ASSUME NEW e \in batch, NEW c \in Clients, NEW fd \in FDs,
             HandleAccept(e, c, fd)
      PROVE  NeverBlocksOnEvent'
  <2>1. \A d \in batch' : d \in batch /\ d.fd # ListenFd
    BY <1>6 DEF HandleAccept, Take, IInv, UniqueEvents
  <2> QED
    BY <1>6, <2>1 DEF HandleAccept
<1>7. ASSUME NEW fd \in FDs, owner[fd] \in Clients, Close(fd)
      PROVE  Backlog \subseteq Backlog'
  <2>1. phase[owner[fd]] = "accepted"
    BY <1>7 DEF IInv, NoFdLeak
  <2> QED
    BY <1>7, <2>1 DEF Close, TypeOK
<1>8. ASSUME NEW e \in batch, HandleEof(e) PROVE NeverBlocksOnEvent'
  <2>1. Backlog \subseteq Backlog'
    BY <1>7, <1>8, EventOpen DEF HandleEof
  <2> QED
    BY <1>8, <2>1 DEF HandleEof, Take
<1>9. ASSUME NEW e \in batch, HandleReadError(e) PROVE NeverBlocksOnEvent'
  <2>1. \A d \in Clients : /\ peer[d] # "up" => peer'[d] # "up"
                          /\ peer[d] \in {"reset", "gone"}
                               => peer'[d] \in {"reset", "gone"}
    BY <1>9, EventOpen DEF HandleReadError, TypeOK
  <2> QED
    BY <1>0, <1>9, <2>1 DEF HandleReadError, Take
<1>10. ASSUME NEW more \in BOOLEAN, Parse(more) PROVE NeverBlocksOnEvent'
  <2>1. pc = "parse" /\ batch' = batch /\ UNCHANGED <<peer, outbox>>
    BY <1>10 DEF Parse
  <2>2. Backlog \subseteq Backlog'
    BY <1>7, <1>10, <2>1, CurrentOpen DEF Parse
  <2>3. \A e \in batch : e.fd # ListenFd => e.client # owner[cur]
    BY <2>1, CurrentOpen, EventOpen DEF IInv, CurOpen, NoFdLeak
  <2>4. \A d \in Clients : d # owner[cur] => inbox'[d] = inbox[d]
    BY <1>10 DEF Parse, TypeOK
  <2> QED
    BY <1>0, <2>1, <2>2, <2>3, <2>4
<1>11. ASSUME Write PROVE NeverBlocksOnEvent'
  <2>1. /\ pc = "write" /\ batch' = batch
        /\ UNCHANGED <<peer, inbox, phase>>
    BY <1>11 DEF Write
  <2>2. \A e \in batch : e.fd # ListenFd => e.client # owner[cur]
    BY <2>1, CurrentOpen, EventOpen DEF IInv, CurOpen, NoFdLeak
  <2>3. \A d \in Clients : d # owner[cur] => outbox'[d] = outbox[d]
    BY <1>11 DEF Write, TypeOK
  <2> QED
    BY <1>0, <2>1, <2>2, <2>3
<1>12. ASSUME batch' \subseteq batch, UNCHANGED <<peer, inbox, outbox, phase>>
       PROVE  NeverBlocksOnEvent'
  BY <1>12
<1> QED
  BY <1>1, <1>2, <1>3, <1>4, <1>5, <1>6, <1>8, <1>9, <1>10, <1>11, <1>12
  DEF Next, Server, Handle, Client, vars, Take, HandleAcceptFails, HandleRead,
      HandleWrite, WriteNothing, WriteError, EndBatch

\* What SendReply has not written yet is never negative, and outside it is the
\* whole of Reply_.
LEMMA UnsentBounds ==
  ASSUME IInv, NEW c \in Clients
  PROVE  /\ Unsent(c) \in Nat
         /\ pc # "write" \/ conn_map[cur] # c => Unsent(c) = Reply_[c]
         /\ pc = "write" /\ conn_map[cur] = c => Unsent(c) = Reply_[c] - nwrite
<1>1. Reply_[c] \in Nat /\ nwrite \in Nat
  BY DEF IInv, TypeOK
<1>2. pc = "write" /\ conn_map[cur] = c => nwrite <= Reply_[c]
  BY <1>1 DEF IInv, WriteInBounds
<1> QED
  BY <1>1, <1>2 DEF Unsent

\* Every step keeps the account of every client.
LEMMA AccountStep ==
  IInv /\ [Next]_vars => OneReplyPerRequest' /\ NothingBeforeAccept'
<1> SUFFICES ASSUME IInv, [Next]_vars
             PROVE  OneReplyPerRequest' /\ NothingBeforeAccept'
  OBVIOUS
<1> USE DEF OneReplyPerRequest, NothingBeforeAccept,
            clientVars, kernelVars, connVars, loopVars
<1> OneReplyPerRequest /\ NothingBeforeAccept /\ TypeOK
  BY DEF IInv
<1>0. \A c \in Clients : /\ got[c] \in Nat /\ outbox[c] \in Nat
                         /\ due[c] \in Nat /\ Reply_[c] \in Nat
  BY DEF TypeOK
<1>1. ASSUME NEW c \in Clients, Connect(c)
      PROVE  OneReplyPerRequest' /\ NothingBeforeAccept'
  <2>1. /\ phase[c] = "new" /\ phase'[c] = "backlog"
        /\ \A d \in Clients : d # c => phase'[d] = phase[d]
    BY <1>1 DEF Connect, TypeOK
  <2> QED
    BY <1>1, <2>1 DEF Connect, Unsent
<1>2. ASSUME NEW c \in Clients, Recv(c)
      PROVE  OneReplyPerRequest' /\ NothingBeforeAccept'
  <2>1. /\ outbox[c] > 0
        /\ got'[c] + outbox'[c] = got[c] + outbox[c]
        /\ \A d \in Clients : d # c => got'[d] = got[d] /\ outbox'[d] = outbox[d]
    BY <1>2, <1>0 DEF Recv, TypeOK
  <2>2. UNCHANGED <<phase, due, Reply_, pc, nwrite, conn_map, cur>>
    BY <1>2 DEF Recv
  <2>3. \A d \in Clients : Unsent(d)' = Unsent(d)
    BY <2>2 DEF Unsent
  <2>4. \A d \in Clients : got'[d] + outbox'[d] = got[d] + outbox[d]
    BY <2>1
  <2>5. OneReplyPerRequest'
    BY <2>2, <2>3, <2>4
  <2>6. phase[c] \notin {"new", "backlog"}
    BY <2>1, <1>0
  <2> QED
    BY <2>1, <2>2, <2>5, <2>6
<1>3. ASSUME NEW e \in batch, NEW c \in Clients, NEW fd \in FDs,
             HandleAccept(e, c, fd)
      PROVE  OneReplyPerRequest' /\ NothingBeforeAccept'
  <2>1. /\ phase[c] = "backlog" /\ phase'[c] = "accepted"
        /\ \A d \in Clients : d # c => phase'[d] = phase[d]
    BY <1>3 DEF HandleAccept, Backlog, TypeOK
  <2>2. /\ pc = "dispatch"
        /\ UNCHANGED <<got, outbox, due, Reply_, pc>>
    BY <1>3 DEF HandleAccept, Take
  <2>3. \A d \in Clients : Unsent(d)' = Reply_[d] /\ Unsent(d) = Reply_[d]
    BY <2>2, <1>0 DEF Unsent
  <2>4. got[c] + outbox[c] + Reply_[c] = due[c]
    BY <2>1
  <2> QED
    BY <2>1, <2>2, <2>3, <2>4
<1>4. ASSUME NEW fd \in FDs, owner[fd] \in Clients, Close(fd)
      PROVE  /\ phase[owner[fd]] = "accepted" /\ phase'[owner[fd]] = "closed"
             /\ \A d \in Clients : d # owner[fd] => phase'[d] = phase[d]
  BY <1>4 DEF Close, TypeOK, IInv, NoFdLeak
<1>5. ASSUME NEW e \in batch, HandleEof(e)
      PROVE  OneReplyPerRequest' /\ NothingBeforeAccept'
  <2>1. e.fd \in FDs /\ owner[e.fd] \in Clients /\ Close(e.fd)
    BY <1>5, EventOpen DEF HandleEof
  <2>2. /\ pc = "dispatch"
        /\ UNCHANGED <<got, outbox, due, Reply_, pc>>
    BY <1>5 DEF HandleEof, Take
  <2>3. \A d \in Clients : Unsent(d)' = Reply_[d] /\ Unsent(d) = Reply_[d]
    BY <2>2, <1>0 DEF Unsent
  <2>4. got[owner[e.fd]] + outbox[owner[e.fd]] <= due[owner[e.fd]]
    BY <1>0, <1>4, <2>1, <2>2, <2>3
  <2> QED
    BY <1>4, <2>1, <2>2, <2>3, <2>4
<1>6. ASSUME NEW more \in BOOLEAN, Parse(more)
      PROVE  OneReplyPerRequest' /\ NothingBeforeAccept'
  <2>0. PICK c \in Clients : c = owner[cur]
    BY <1>6, CurrentOpen DEF Parse
  <2>1. /\ pc = "parse" /\ pc' \in {"parse", "dispatch"}
        /\ UNCHANGED <<got, outbox>>
    BY <1>6 DEF Parse
  <2>2. cur \in FDs /\ owner[cur] = c /\ conn_map[cur] = c
    BY <2>0, <2>1, CurrentOpen
  <2>3. PICK owed \in {0, 1} :
          /\ Reply_' = [Reply_ EXCEPT ![c] = @ + owed]
          /\ due' = [due EXCEPT ![c] = @ + owed]
    BY <1>6, <2>2 DEF Parse
  <2>4. /\ Reply_'[c] = Reply_[c] + owed /\ due'[c] = due[c] + owed
        /\ \A d \in Clients : d # c => Reply_'[d] = Reply_[d] /\ due'[d] = due[d]
    BY <2>2, <2>3 DEF TypeOK
  <2>5. /\ phase[c] = "accepted" /\ phase'[c] \in {"accepted", "closed"}
        /\ \A d \in Clients : d # c => phase'[d] = phase[d]
    BY <1>4, <1>6, <2>2 DEF Parse, IInv, NoFdLeak
  <2>6. \A d \in Clients : Unsent(d)' = Reply_'[d] /\ Unsent(d) = Reply_[d]
    BY <2>1, <2>4, <1>0 DEF Unsent
  <2>7. NothingBeforeAccept'
    BY <2>1, <2>4, <2>5
  <2>8. got[c] + outbox[c] + Reply_[c] = due[c]
    BY <2>1, <2>2, <2>5, <2>6
  <2>9. /\ got'[c] + outbox'[c] + Unsent(c)' = due'[c]
        /\ got'[c] + outbox'[c] <= due'[c]
    BY <1>0, <2>1, <2>2, <2>4, <2>6, <2>8
  <2> QED
    BY <2>1, <2>4, <2>5, <2>6, <2>7, <2>9
<1>7. ASSUME NEW e \in batch, HandleWrite(e)
      PROVE  OneReplyPerRequest' /\ NothingBeforeAccept'
  <2>1. /\ pc = "dispatch" /\ pc' = "write" /\ nwrite' = 0
        /\ UNCHANGED <<got, outbox, due, Reply_, phase>>
    BY <1>7 DEF HandleWrite, Take
  <2>2. \A d \in Clients : Unsent(d)' = Reply_[d] /\ Unsent(d) = Reply_[d]
    BY <2>1, <1>0 DEF Unsent
  <2> QED
    BY <2>1, <2>2
<1>8. ASSUME Write PROVE OneReplyPerRequest' /\ NothingBeforeAccept'
  <2>0. PICK c \in Clients : c = owner[cur]
    BY <1>8, CurrentOpen DEF Write
  <2>1. /\ pc = "write" /\ pc' \in {"write", "dispatch"}
        /\ nwrite' = nwrite + 1 /\ nwrite \in Nat
        /\ UNCHANGED <<got, due, phase, conn_map, cur>>
    BY <1>8 DEF Write, TypeOK
  <2>2. cur \in FDs /\ owner[cur] = c /\ conn_map[cur] = c
    BY <2>0, <2>1, CurrentOpen
  <2>3. /\ outbox'[c] = outbox[c] + 1
        /\ \A d \in Clients : d # c => outbox'[d] = outbox[d]
    BY <1>8, <2>2 DEF Write, TypeOK
  <2>4. phase[c] = "accepted"
    BY <2>2 DEF IInv, NoFdLeak
  <2>5. \A d \in Clients : d # c => Reply_'[d] = Reply_[d] /\ Unsent(d)' = Unsent(d)
    <3>1. \A d \in Clients : d # c => Reply_'[d] = Reply_[d]
      BY <1>8, <2>2 DEF Write, ReplySent, TypeOK
    <3> QED
      BY <2>1, <2>2, <3>1, <1>0 DEF Unsent
  <2>6. Unsent(c)' = Unsent(c) - 1
    <3>1. Unsent(c) = Reply_[c] - nwrite
      BY <2>1, <2>2, UnsentBounds
    <3>2. CASE nwrite + 1 = Reply_[c]
      <4>1. Reply_'[c] = 0 /\ pc' = "dispatch"
        BY <1>8, <2>2, <3>2 DEF Write, ReplySent, TypeOK
      <4>2. Unsent(c)' = 0
        BY <4>1 DEF Unsent
      <4> QED
        BY <1>0, <2>1, <2>2, <3>1, <3>2, <4>2
    <3>3. CASE nwrite + 1 # Reply_[c]
      <4>1. UNCHANGED <<Reply_, pc>>
        BY <1>8, <2>2, <3>3 DEF Write
      <4>2. Unsent(c)' = Reply_[c] - (nwrite + 1)
        BY <2>1, <2>2, <4>1 DEF Unsent
      <4> QED
        BY <1>0, <2>1, <2>2, <3>1, <4>2
    <3> QED
      BY <3>2, <3>3
  <2>7. NothingBeforeAccept'
    BY <2>1, <2>2, <2>3, <2>4, <2>5
  <2>8. Unsent(c) \in Nat /\ got[c] + outbox[c] + Unsent(c) = due[c]
    BY <2>1, <2>2, <2>4, UnsentBounds
  <2>9. got'[c] + outbox'[c] + Unsent(c)' = due'[c]
    BY <1>0, <2>1, <2>2, <2>3, <2>6, <2>8
  <2> QED
    BY <2>1, <2>2, <2>3, <2>4, <2>5, <2>7, <2>9
<1>9. ASSUME WriteNothing PROVE OneReplyPerRequest' /\ NothingBeforeAccept'
  <2>1. /\ pc = "write" /\ pc' = "dispatch" /\ Reply_[conn_map[cur]] = 0
        /\ UNCHANGED <<got, outbox, due, Reply_, phase>>
    BY <1>9 DEF WriteNothing
  <2>2. \A d \in Clients : Unsent(d)' = Reply_[d]
    BY <2>1, <1>0 DEF Unsent
  <2>3. \A d \in Clients : Unsent(d) = Reply_[d]
    <3>1. nwrite = 0
      BY <2>1 DEF IInv, WriteInBounds, TypeOK
    <3> QED
      BY <1>0, <3>1 DEF Unsent
  <2> QED
    BY <2>1, <2>2, <2>3
<1>10. ASSUME WriteError PROVE OneReplyPerRequest' /\ NothingBeforeAccept'
  <2>1. /\ pc = "write" /\ pc' = "killed"
        /\ UNCHANGED <<got, outbox, due, Reply_, phase>>
    BY <1>10 DEF WriteError
  <2>2. \A d \in Clients : got[d] + outbox[d] <= due[d]
    BY <1>0, <2>1, UnsentBounds
  <2> QED
    BY <2>1, <2>2
<1>11. ASSUME UNCHANGED <<got, outbox, due, Reply_, phase>>,
              pc \notin {"write", "killed"}, pc' \notin {"write", "killed"}
       PROVE  OneReplyPerRequest' /\ NothingBeforeAccept'
  <2>1. \A d \in Clients : Unsent(d)' = Reply_[d] /\ Unsent(d) = Reply_[d]
    BY <1>0, <1>11 DEF Unsent
  <2> QED
    BY <1>11, <2>1
<1>12. ASSUME UNCHANGED <<got, outbox, due, Reply_, phase, pc, nwrite, conn_map, cur>>
       PROVE  OneReplyPerRequest' /\ NothingBeforeAccept'
  BY <1>12 DEF Unsent
<1> QED
  BY <1>1, <1>2, <1>3, <1>5, <1>6, <1>7, <1>8, <1>9, <1>10, <1>11, <1>12
  DEF Next, Server, Handle, Client, vars, Send, Leave, Take, WaitEpoll,
      HandleAcceptFails, HandleRead, HandleReadError, EndBatch

\* Only the end of a read can withhold a reply, and only in mid-request.
LEMMA WithheldStep == IInv /\ [Next]_vars => WithheldOnlyMidRequest'
<1> SUFFICES ASSUME IInv, [Next]_vars PROVE WithheldOnlyMidRequest'
  OBVIOUS
<1> USE DEF WithheldOnlyMidRequest, clientVars, kernelVars, connVars, loopVars
<1> WithheldOnlyMidRequest /\ TypeOK
  BY DEF IInv
<1>1. ASSUME NEW e \in batch, NEW c \in Clients, NEW fd \in FDs,
             HandleAccept(e, c, fd)
      PROVE  WithheldOnlyMidRequest'
  <2>1. Reply_[c] = 0
    BY <1>1 DEF HandleAccept, Backlog, IInv, NothingBeforeAccept
  <2>2. /\ conn_map'[fd] = c
        /\ \A f \in FDs : f # fd => /\ conn_map'[f] = conn_map[f]
                                    /\ watch'[f] = watch[f]
    BY <1>1 DEF HandleAccept, TypeOK
  <2>3. UNCHANGED <<Reply_, half, pc, cur>>
    BY <1>1 DEF HandleAccept
  <2> QED
    BY <2>1, <2>2, <2>3
<1>2. ASSUME NEW fd \in FDs, Close(fd)
      PROVE  /\ conn_map'[fd] = NoClient
             /\ \A f \in FDs : f # fd => /\ conn_map'[f] = conn_map[f]
                                         /\ watch'[f] = watch[f]
  BY <1>2 DEF Close, TypeOK
<1>3. ASSUME NEW e \in batch, HandleEof(e) PROVE WithheldOnlyMidRequest'
  <2>1. e.fd \in FDs /\ Close(e.fd) /\ UNCHANGED <<Reply_, half, pc, cur>>
    BY <1>3, EventOpen DEF HandleEof
  <2> QED
    BY <1>2, <2>1
<1>4. ASSUME NEW more \in BOOLEAN, Parse(more) PROVE WithheldOnlyMidRequest'
  <2>0. PICK c \in Clients : c = owner[cur]
    BY <1>4, CurrentOpen DEF Parse
  <2>1. pc = "parse" /\ cur' = cur /\ cur \in FDs /\ conn_map[cur] = c
    BY <1>4, <2>0, CurrentOpen DEF Parse
  <2>2. \A d \in Clients : d # c => Reply_'[d] = Reply_[d] /\ half'[d] = half[d]
    BY <1>4, <2>1 DEF Parse, TypeOK
  <2>3. \A f \in FDs : f # cur /\ conn_map[f] # NoClient => conn_map[f] # c
    BY <2>0, <2>1 DEF IInv, NoFdLeak
  <2>4. \A f \in FDs : f # cur => conn_map'[f] = conn_map[f] /\ watch'[f] = watch[f]
    BY <1>2, <1>4, <2>1 DEF Parse, SetWriteAtEnd, TypeOK
  <2>5. \A f \in FDs : f # cur /\ conn_map'[f] # NoClient /\ watch'[f] = "IN"
                         /\ Reply_'[conn_map'[f]] > 0 => half'[conn_map'[f]]
    BY <2>2, <2>3, <2>4 DEF TypeOK
  <2>6. CASE more
    BY <1>4, <2>1, <2>5, <2>6 DEF Parse
  <2>7. CASE ~more /\ Close(cur)
    BY <1>2, <2>1, <2>5, <2>7
  <2>8. CASE /\ ~more /\ watch' = SetWriteAtEnd(more, Head(inbox[owner[cur]]))
             /\ conn_map' = conn_map
    <3>1. CASE Head(inbox[owner[cur]]) = "part"
      <4>1. half'[c] = TRUE
        BY <1>4, <2>1, <3>1 DEF Parse, TypeOK
      <4> QED
        BY <2>1, <2>5, <2>8, <4>1
    <3>2. CASE Head(inbox[owner[cur]]) # "part"
      <4>1. watch'[cur] = "OUT"
        BY <2>1, <2>8, <3>2 DEF SetWriteAtEnd, TypeOK
      <4> QED
        BY <2>5, <4>1
    <3> QED
      BY <3>1, <3>2
  <2> QED
    BY <1>4, <2>6, <2>7, <2>8 DEF Parse
<1>5. ASSUME Write PROVE WithheldOnlyMidRequest'
  <2>0. PICK c \in Clients : c = owner[cur]
    BY <1>5, CurrentOpen DEF Write
  <2>1. /\ pc = "write" /\ UNCHANGED <<conn_map, half, cur>>
        /\ cur \in FDs /\ conn_map[cur] = c
    BY <1>5, <2>0, CurrentOpen DEF Write
  <2>2. CASE ReplySent(c)
    <3>1. /\ Reply_'[c] = 0
          /\ \A d \in Clients : d # c => Reply_'[d] = Reply_[d]
          /\ \A f \in FDs : f # cur => watch'[f] = watch[f]
      BY <2>1, <2>2 DEF ReplySent, TypeOK
    <3>2. \A f \in FDs : f # cur /\ conn_map[f] # NoClient => conn_map[f] # c
      BY <2>0, <2>1 DEF IInv, NoFdLeak
    <3> QED
      BY <2>1, <3>1, <3>2 DEF TypeOK
  <2>3. CASE UNCHANGED <<watch, Reply_>>
    BY <2>1, <2>3
  <2> QED
    BY <1>5, <2>1, <2>2, <2>3 DEF Write
<1>6. ASSUME UNCHANGED <<conn_map, watch, Reply_, half>>, pc # "parse"
      PROVE  WithheldOnlyMidRequest'
  BY <1>6
<1>7. ASSUME UNCHANGED <<conn_map, watch, Reply_, half, pc, cur>>
      PROVE  WithheldOnlyMidRequest'
  BY <1>7
<1> QED
  BY <1>1, <1>3, <1>4, <1>5, <1>6, <1>7
  DEF Next, Server, Handle, Client, vars, Connect, Send, Recv, Leave, Take,
      WaitEpoll, HandleAcceptFails, HandleRead, HandleReadError, HandleWrite,
      WriteNothing, WriteError, EndBatch

\* The server starts without connections.
LEMMA InitIInv == Init => IInv
<1> SUFFICES ASSUME Init PROVE IInv
  OBVIOUS
<1> USE DEF Init
<1>1. TypeOK
  BY DEF TypeOK
<1>2. EventsFresh /\ NeverBlocksOnEvent /\ UniqueEvents
  BY DEF EventsFresh, NeverBlocksOnEvent, UniqueEvents
<1>3. NoFdLeak
  BY EventLoopAssumption DEF NoFdLeak
<1>4. OneReplyPerRequest /\ NothingBeforeAccept /\ WithheldOnlyMidRequest
  BY DEF OneReplyPerRequest, NothingBeforeAccept, WithheldOnlyMidRequest
<1>5. BatchDone /\ CurOpen /\ ParseHasInput /\ WriteInBounds
  BY DEF BatchDone, CurOpen, ParseHasInput, WriteInBounds
<1> QED
  BY <1>1, <1>2, <1>3, <1>4, <1>5 DEF IInv

\* The inductive invariant holds whatever the number of clients, descriptors,
\* events of a batch, requests, and replies that a socket holds.
THEOREM Invariance == Spec => []IInv
<1>1. IInv /\ [Next]_vars => IInv'
  BY TypeOKStep, NoFdLeakStep, EventsFreshStep, CurOKStep, NeverBlocksStep,
     AccountStep, WithheldStep
  DEF IInv, CurOK
<1> QED
  BY InitIInv, <1>1, PTL DEF Spec

\* Every variable keeps its type.
THEOREM TypeCorrect == Spec => []TypeOK
BY Invariance, PTL DEF IInv

\* No handler of a batch acts on a connection that an earlier handler of the
\* batch closed, nor on a descriptor that was reused since.
THEOREM FreshEvents == Spec => []EventsFresh
BY Invariance, PTL DEF IInv

\* accept, read and the first write of a handler never block the thread.
THEOREM HandlersStart == Spec => []NeverBlocksOnEvent
BY Invariance, PTL DEF IInv

\* conn_map, the open descriptors and epoll agree: nothing leaks.
THEOREM DescriptorsAgree == Spec => []NoFdLeak
BY Invariance, PTL DEF IInv

\* Every reply is received, in the socket or in the Conn: none is lost and
\* none is sent twice.
THEOREM RepliesAccounted == Spec => []OneReplyPerRequest
BY Invariance, PTL DEF IInv

\* A reply is withheld only while its client is in mid-request.
THEOREM RepliesWithheld == Spec => []WithheldOnlyMidRequest
BY Invariance, PTL DEF IInv

-----------------------------------------------------------------------------
(***************************************************************************)
(* The refinement: each step is one of a session of module Sessions, or    *)
(* changes nothing that a client sees.                                     *)
(***************************************************************************)
gone    == [c \in Clients |-> peer[c] # "up"]
goodbye == [c \in Clients |-> ~is_connect_[c]]

LEMMA InitSessions == Init => PerClient!Init
<1> SUFFICES ASSUME Init PROVE PerClient!Init
  OBVIOUS
<1>1. gone = [c \in Clients |-> FALSE]
  BY DEF Init, gone
<1>2. goodbye = [c \in Clients |-> FALSE]
  BY DEF Init, goodbye
<1>3. /\ phase = [c \in Clients |-> "new"]
      /\ due = [c \in Clients |-> 0] /\ got = [c \in Clients |-> 0]
  BY DEF Init
<1> QED BY <1>1, <1>2, <1>3 DEF PerClient!Init, gone, goodbye

\* What a step leaves alone, in terms of the sessions.
LEMMA Stutters ==
  ASSUME UNCHANGED <<phase, due, got, is_connect_>>, gone' = gone
  PROVE  UNCHANGED PerClient!vars
BY DEF PerClient!vars, gone

\* The descriptor of an accepted client is closed with it.
LEMMA EndsSession ==
  ASSUME IInv, NEW e \in batch, HandleEof(e), NEW c, c = owner[e.fd]
  PROVE  PerClient!End(c)
<1>1. e.fd \in FDs /\ c \in Clients /\ conn_map[e.fd] = c
  BY EventOpen DEF HandleEof
<1>2. c # NoClient
  BY <1>1, EventLoopAssumption
<1>3. phase[c] = "accepted" /\ peer[c] # "up"
  BY <1>1, <1>2 DEF HandleEof, IInv, NoFdLeak
<1>4. goodbye' = [goodbye EXCEPT ![c] = TRUE]
  BY <1>1 DEF HandleEof, IInv, TypeOK, goodbye
<1>5. phase' = [phase EXCEPT ![c] = "closed"]
  BY DEF HandleEof, Close
<1>6. UNCHANGED <<peer, due, got>>
  BY DEF HandleEof, clientVars
<1> QED
  BY <1>1, <1>3, <1>4, <1>5, <1>6 DEF PerClient!End, goodbye

\* A segment that is parsed is a request of the session of its connection.
LEMMA RunsRequest ==
  ASSUME IInv, NEW more \in BOOLEAN, Parse(more), NEW c, c = owner[cur]
  PROVE  PerClient!Run(c)
<1> DEFINE segment == Head(inbox[c])
           owed == IF segment \in {"part", "silent"} THEN 0 ELSE 1
<1>1. cur \in FDs /\ c \in Clients /\ conn_map[cur] = c
  BY CurrentOpen DEF Parse
<1>2. c # NoClient
  BY <1>1, EventLoopAssumption
<1>3. phase[c] = "accepted"
  BY <1>1, <1>2 DEF IInv, NoFdLeak
<1>4. owed \in {0, 1} /\ due' = [due EXCEPT ![c] = @ + owed]
  BY DEF Parse
<1>5. is_connect_' = [is_connect_ EXCEPT ![c] = @ /\ segment # "exit"]
  BY <1>1 DEF Parse
<1>6. UNCHANGED <<peer, got>>
  BY DEF Parse
<1>7. \/ UNCHANGED phase
      \/ ~is_connect_'[c] /\ phase' = [phase EXCEPT ![c] = "closed"]
  BY <1>1 DEF Parse, Close
<1> HIDE DEF segment, owed
<1>8. goodbye' = [goodbye EXCEPT ![c] = @ \/ segment = "exit"]
  BY <1>1, <1>5 DEF IInv, TypeOK, goodbye
<1>9. goodbye'[c] = ~is_connect_'[c]
  BY <1>1 DEF goodbye
<1>10. \E over \in BOOLEAN : goodbye' = [goodbye EXCEPT ![c] = @ \/ over]
  BY <1>8
<1>11. \/ UNCHANGED phase
       \/ goodbye'[c] /\ phase' = [phase EXCEPT ![c] = "closed"]
  BY <1>7, <1>9
<1>12. \E o \in {0, 1} : due' = [due EXCEPT ![c] = @ + o]
  BY <1>4
<1> QED
  BY <1>3, <1>6, <1>10, <1>11, <1>12 DEF PerClient!Run, goodbye

LEMMA NextSessions == IInv /\ [Next]_vars => [PerClient!Next]_(PerClient!vars)
<1> SUFFICES ASSUME IInv, [Next]_vars PROVE [PerClient!Next]_(PerClient!vars)
  OBVIOUS
<1> USE DEF clientVars, kernelVars, connVars, loopVars
<1> DEFINE Step == [PerClient!Next]_(PerClient!vars)
<1>1. ASSUME NEW c \in Clients, Connect(c) PROVE Step
  <2>1. PerClient!Connect(c)
    BY <1>1 DEF Connect, PerClient!Connect
  <2> QED BY <2>1 DEF PerClient!Next
<1>2. ASSUME NEW c \in Clients, NEW segment \in Segments, Send(c, segment) PROVE Step
  BY <1>2, Stutters DEF Send, gone
<1>3. ASSUME NEW c \in Clients, Recv(c) PROVE Step
  <2>1. /\ got[c] \in Nat /\ outbox[c] \in Nat /\ due[c] \in Nat /\ outbox[c] > 0
        /\ Unsent(c) \in Nat
    BY <1>3, UnsentBounds DEF Recv, IInv, TypeOK
  <2>2. got[c] + outbox[c] + Unsent(c) = due[c] \/ got[c] + outbox[c] <= due[c]
    BY DEF IInv, OneReplyPerRequest
  <2>3. got[c] < due[c]
    BY <2>1, <2>2
  <2>4. PerClient!Deliver(c)
    BY <1>3, <2>3 DEF Recv, PerClient!Deliver
  <2> QED BY <2>4 DEF PerClient!Next
<1>4. ASSUME NEW c \in Clients, NEW how \in Faults, Leave(c, how) PROVE Step
  <2>1. gone' = [gone EXCEPT ![c] = TRUE]
    BY <1>4 DEF Leave, gone, IInv, TypeOK
  <2>2. PerClient!Leave(c)
    BY <1>4, <2>1 DEF Leave, PerClient!Leave, gone
  <2> QED BY <2>2 DEF PerClient!Next
<1>5. ASSUME NEW events \in SUBSET Ready, WaitEpoll(events) PROVE Step
  BY <1>5, Stutters DEF WaitEpoll, gone
<1>6. ASSUME NEW e \in batch, NEW c \in Clients, NEW fd \in FDs,
             HandleAccept(e, c, fd)
      PROVE  Step
  <2>1. PerClient!Accept(c)
    BY <1>6 DEF HandleAccept, Backlog, PerClient!Accept
  <2> QED BY <2>1 DEF PerClient!Next
<1>7. ASSUME NEW e \in batch, HandleAcceptFails(e) PROVE Step
  BY <1>7, Stutters DEF HandleAcceptFails, gone
<1>8. ASSUME NEW e \in batch, HandleRead(e) PROVE Step
  BY <1>8, Stutters DEF HandleRead, gone
<1>9. ASSUME NEW e \in batch, HandleEof(e) PROVE Step
  <2>1. PICK c \in Clients : c = owner[e.fd]
    BY <1>9, EventOpen DEF HandleEof
  <2>2. PerClient!End(c)
    BY <1>9, <2>1, EndsSession
  <2> QED BY <2>2 DEF PerClient!Next
<1>10. ASSUME NEW e \in batch, HandleReadError(e) PROVE Step
  <2>1. gone' = gone
    BY <1>10, EventOpen DEF HandleReadError, gone, IInv, TypeOK
  <2> QED BY <1>10, <2>1, Stutters DEF HandleReadError
<1>11. ASSUME NEW more \in BOOLEAN, Parse(more) PROVE Step
  <2>1. PICK c \in Clients : c = owner[cur]
    BY <1>11, CurrentOpen DEF Parse
  <2>2. PerClient!Run(c)
    BY <1>11, <2>1, RunsRequest
  <2> QED BY <2>2 DEF PerClient!Next
<1>12. ASSUME NEW e \in batch, HandleWrite(e) PROVE Step
  BY <1>12, Stutters DEF HandleWrite, gone
<1>13. ASSUME Write PROVE Step
  BY <1>13, Stutters DEF Write, gone
<1>14. ASSUME WriteNothing PROVE Step
  BY <1>14, Stutters DEF WriteNothing, gone
<1>15. ASSUME WriteError PROVE Step
  BY <1>15, Stutters DEF WriteError, gone
<1>16. ASSUME EndBatch PROVE Step
  BY <1>16, Stutters DEF EndBatch, gone
<1>17. ASSUME UNCHANGED vars PROVE Step
  BY <1>17, Stutters DEF vars, gone
<1> QED
  BY <1>1, <1>2, <1>3, <1>4, <1>5, <1>6, <1>7, <1>8, <1>9, <1>10, <1>11, <1>12,
     <1>13, <1>14, <1>15, <1>16, <1>17 DEF Next, Server, Handle, Client

\* The event loop keeps the sessions of its clients apart: each is accepted
\* once, receives replies to its own requests only, each at most once, and is
\* closed only after it left or said goodbye.
THEOREM ImplementsSessions == Spec => SessionsSpec
<1>1. Init => PerClient!Init
  BY InitSessions
<1>2. IInv /\ [Next]_vars => [PerClient!Next]_(PerClient!vars)
  BY NextSessions
<1> QED BY Invariance, <1>1, <1>2, PTL DEF Spec, SessionsSpec, PerClient!Spec
=============================================================================
