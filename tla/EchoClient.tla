----------------------------- MODULE EchoClient -----------------------------
(***************************************************************************)
(* The interactive client (src/echoclient.cc) on the robust I/O of         *)
(* src/csapp.cc: it sends a line of the user with rio_writen, reads a line *)
(* with rio_readlineb and prints it.  read and write move any part of what *)
(* they are asked for, and may be interrupted.  The server and the user    *)
(* are external; the bytes of the server's stream are 1, 2, ..., and those *)
(* that the user types are -1, -2, ...                                     *)
(***************************************************************************)
EXTENDS Integers, Sequences, FiniteSets

CONSTANTS
  RIO_BUFSIZE,   \* the size of rio_buf
  maxlen,        \* MAXLINE * 3, which main gives rio_readlineb
  MaxTyped,      \* bound: lines the user types
  LineLen,       \* bytes of such a line
  MaxReplyLine,  \* bound: bytes of a line of the server
  Answers,       \* with how many lines the server may answer each line
  MaxSignals     \* bound: interrupted system calls

ASSUME EchoClientAssumption ==
  /\ RIO_BUFSIZE \in Nat \ {0}
  /\ maxlen \in Nat \ {0, 1}
  /\ LineLen \in Nat \ {0}
  /\ MaxReplyLine \in Nat \ {0}
  /\ Answers \subseteq Nat
  /\ {MaxTyped, MaxSignals} \subseteq Nat

VARIABLES
  \* the server and the socket
  answers,       \* with how many lines the server answers a line
  received,      \* bytes of the user that the server received
  sent,          \* how many bytes the server sent
  newlines,      \* which of them are '\n'
  taken,         \* how many of them read has returned
  peer,          \* "up", "fin" (the server closed) or "reset"
  \* main
  pc,            \* "open", "fgets", "write", "readline", "fputs", "closed"
                 \* or "exited"
  buf,           \* the line in buf
  bufp,          \* rio_writen: bytes written; rio_readlineb: the bytes read
  \* rio_t
  rio_buf, rio_bufptr, rio_cnt,
  \* history
  typed,         \* how many lines the user typed
  shown,         \* the lines printed
  stream,        \* the bytes of the server among them
  signals        \* how many calls were interrupted

serverVars == <<answers, received, sent, newlines, peer>>
rioVars    == <<rio_buf, rio_bufptr, rio_cnt, taken>>
history    == <<typed, shown, stream>>
vars == <<serverVars, pc, buf, bufp, rioVars, history, signals>>

\* rio_readinitb.
RioInit == rio_buf = <<>> /\ rio_bufptr = 1 /\ rio_cnt = 0

Init ==
  /\ answers \in Answers
  /\ received = <<>>
  /\ sent = 0 /\ newlines = {} /\ taken = 0
  /\ peer = "up"
  /\ pc = "open"
  /\ buf = <<>> /\ bufp = <<>>
  /\ RioInit
  /\ typed = 0 /\ shown = <<>> /\ stream = <<>> /\ signals = 0

-----------------------------------------------------------------------------
(***************************************************************************)
(* The server: it answers whole lines, and may end at any point.           *)
(***************************************************************************)
Owed == answers * (Len(received) \div LineLen) - Cardinality(newlines)

Answer(len) ==
  /\ peer = "up"
  /\ Owed > 0
  /\ sent' = sent + len
  /\ newlines' = newlines \cup {sent + len}
  /\ UNCHANGED <<answers, received, peer, pc, buf, bufp, rioVars, history, signals>>

\* The connection ends, perhaps in the middle of an answer.
End(how, len) ==
  /\ peer = "up" /\ pc # "open"
  /\ peer' = how
  /\ len > 0 => Owed > 0
  /\ sent' = sent + len
  /\ UNCHANGED <<answers, received, newlines, pc, buf, bufp, rioVars, history, signals>>

-----------------------------------------------------------------------------
(***************************************************************************)
(* main and rio_writen                                                     *)
(***************************************************************************)
\* The socket, the address of the server and the connection may each fail:
\* Open_clientfd exits.
OpenClientfd ==
  /\ pc = "open"
  /\ pc' \in {"fgets", "exited"}
  /\ UNCHANGED <<serverVars, buf, bufp, rioVars, history, signals>>

Fgets ==
  /\ pc = "fgets"
  /\ typed < MaxTyped
  /\ typed' = typed + 1
  /\ buf' = [i \in 1..LineLen |-> -(typed * LineLen + i)]
  /\ bufp' = <<>>
  /\ pc' = "write"
  /\ UNCHANGED <<serverVars, rioVars, shown, stream, signals>>

\* The end of the user's input: Close, exit.
FgetsNull ==
  /\ pc = "fgets"
  /\ pc' = "closed"
  /\ UNCHANGED <<serverVars, buf, bufp, rioVars, history, signals>>

\* Mutant: bufp is not advanced.
WriteFromStart(k) ==
  /\ pc = "write" /\ peer = "up"
  /\ Len(bufp) + k <= Len(buf)
  /\ received' = received \o SubSeq(buf, 1, k)
  /\ bufp' = SubSeq(buf, 1, Len(bufp) + k)
  /\ pc' = "write"
  /\ UNCHANGED <<answers, sent, newlines, peer, buf, rioVars, history, signals>>

\* write takes k bytes.  A server that closed resets the connection.
Write(k) ==
  /\ pc = "write"
  /\ Len(bufp) + k <= Len(buf)
  /\ bufp' = SubSeq(buf, 1, Len(bufp) + k)
  /\ \/ /\ peer = "up"
        /\ received' = received \o SubSeq(buf, Len(bufp) + 1, Len(bufp) + k)
        /\ UNCHANGED peer
     \/ /\ peer = "fin"
        /\ peer' \in {"fin", "reset"}
        /\ UNCHANGED received
  /\ UNCHANGED <<answers, sent, newlines, pc, buf, rioVars, history, signals>>

\* Mutants: rio_writen returns after a short write; rio_t is initialized again
\* for each line.
WrittenShort ==
  /\ pc = "write"
  /\ bufp # <<>>
  /\ pc' = "readline"
  /\ bufp' = <<>>
  /\ UNCHANGED <<serverVars, buf, rioVars, history, signals>>

WrittenReinit ==
  /\ pc = "write"
  /\ bufp = buf
  /\ pc' = "readline"
  /\ bufp' = <<>>
  /\ rio_cnt' = 0 /\ rio_bufptr' = 1
  /\ UNCHANGED <<serverVars, buf, rio_buf, taken, history, signals>>

\* nleft is 0.
Written ==
  /\ pc = "write"
  /\ bufp = buf
  /\ pc' = "readline"
  /\ bufp' = <<>>
  /\ UNCHANGED <<serverVars, buf, rioVars, history, signals>>

\* SIGPIPE, or Rio_writen exits.
WriteError ==
  /\ pc = "write"
  /\ bufp # buf
  /\ peer = "reset"
  /\ pc' = "exited"
  /\ UNCHANGED <<serverVars, buf, bufp, rioVars, history, signals>>

\* write returns -1 with EINTR, and is called again.
WriteInterrupted ==
  /\ pc = "write"
  /\ bufp # buf
  /\ signals < MaxSignals
  /\ signals' = signals + 1
  /\ UNCHANGED <<serverVars, pc, buf, bufp, rioVars, history>>

-----------------------------------------------------------------------------
(***************************************************************************)
(* rio_readlineb, which calls rio_read for one byte at a time              *)
(***************************************************************************)
\* Does rio_read call read?
Refills == pc = "readline" /\ rio_cnt <= 0

\* Mutant: rio_bufptr is not reset.
ReadKeepsBufptr(k) ==
  /\ Refills
  /\ taken + k <= sent
  /\ rio_buf' = [i \in 1..RIO_BUFSIZE |->
       IF i <= k THEN taken + i ELSE IF i <= Len(rio_buf) THEN rio_buf[i] ELSE 0]
  /\ rio_cnt' = k
  /\ UNCHANGED rio_bufptr
  /\ taken' = taken + k
  /\ UNCHANGED <<serverVars, pc, buf, bufp, history, signals>>

\* read returns k bytes.
Read(k) ==
  /\ Refills
  /\ taken + k <= sent
  /\ rio_buf' = [i \in 1..k |-> taken + i]
  /\ rio_bufptr' = 1
  /\ rio_cnt' = k
  /\ taken' = taken + k
  /\ UNCHANGED <<serverVars, pc, buf, bufp, history, signals>>

\* Mutant: an interrupted read is taken for the end of the stream.
InterruptIsEof ==
  /\ Refills
  /\ signals < MaxSignals
  /\ signals' = signals + 1
  /\ rio_cnt' = -1
  /\ buf' = IF bufp = <<>> THEN buf ELSE bufp
  /\ pc' = "fputs"
  /\ UNCHANGED <<serverVars, bufp, rio_buf, rio_bufptr, taken, history>>

\* read returns -1 with EINTR, and is called again.
ReadInterrupted ==
  /\ Refills
  /\ signals < MaxSignals
  /\ signals' = signals + 1
  /\ rio_cnt' = -1
  /\ UNCHANGED <<serverVars, pc, buf, bufp, rio_buf, rio_bufptr, taken, history>>

\* read returns 0.  Without a byte rio_readlineb returns 0 and leaves buf alone.
ReadEof ==
  /\ Refills
  /\ peer = "fin" /\ taken = sent
  /\ rio_cnt' = 0
  /\ buf' = IF bufp = <<>> THEN buf ELSE bufp
  /\ pc' = "fputs"
  /\ UNCHANGED <<serverVars, bufp, rio_buf, rio_bufptr, taken, history, signals>>

\* read returns -1: Rio_readlineb exits.
ReadError ==
  /\ Refills
  /\ peer = "reset"
  /\ rio_cnt' = -1
  /\ pc' = "exited"
  /\ UNCHANGED <<serverVars, buf, bufp, rio_buf, rio_bufptr, taken, history, signals>>

\* rio_read has the next byte c; '\n' or a full buffer ends the line.
ReadByte ==
  LET c    == rio_buf[rio_bufptr]
      line == Append(bufp, c)
  IN  /\ pc = "readline"
      /\ rio_cnt > 0
      /\ rio_bufptr' = rio_bufptr + 1
      /\ rio_cnt' = rio_cnt - 1
      /\ bufp' = line
      /\ IF c \in newlines \/ Len(line) = maxlen - 1
           THEN buf' = line /\ pc' = "fputs"
           ELSE UNCHANGED <<buf, pc>>
      /\ UNCHANGED <<serverVars, rio_buf, taken, history, signals>>

\* Is it a line of the server, or the user's own?
IsBytes(line) == line[1] > 0

Fputs ==
  /\ pc = "fputs"
  /\ shown' = Append(shown, buf)
  /\ stream' = IF IsBytes(buf) THEN stream \o buf ELSE stream
  /\ pc' = "fgets"
  /\ UNCHANGED <<serverVars, buf, bufp, rioVars, typed, signals>>

-----------------------------------------------------------------------------
Client ==
  \/ OpenClientfd
  \/ \E k \in 1..LineLen : Write(k)
  \/ Written \/ WriteError \/ WriteInterrupted
  \/ \E k \in 1..RIO_BUFSIZE : Read(k)
  \/ ReadInterrupted \/ ReadEof \/ ReadError
  \/ ReadByte \/ Fputs

Next ==
  \/ \E len \in 1..MaxReplyLine : Answer(len)
  \/ \E how \in {"fin", "reset"}, len \in 0..MaxReplyLine - 1 : End(how, len)
  \/ Fgets \/ FgetsNull
  \/ Client

\* The client goes on when it can, and the server answers what it owes.
Fairness ==
  /\ WF_vars(Client)
  /\ WF_vars(\E len \in 1..MaxReplyLine : Answer(len))

Spec == Init /\ [][Next]_vars /\ Fairness

-----------------------------------------------------------------------------
\* What was printed, or is in buf to be printed.
Output == IF pc = "fputs" THEN Append(shown, buf) ELSE shown

TypeOK ==
  /\ answers \in Answers
  /\ received \in Seq(Int) /\ newlines \subseteq 1..sent
  /\ sent \in Nat /\ taken \in Nat /\ typed \in Nat /\ signals \in Nat
  /\ peer \in {"up", "fin", "reset"}
  /\ pc \in {"open", "fgets", "write", "readline", "fputs", "closed", "exited"}
  /\ buf \in Seq(Int) /\ bufp \in Seq(Int)
  /\ rio_buf \in Seq(Int) /\ rio_bufptr \in 1..Len(rio_buf) + 1
  /\ rio_cnt \in -1..Len(rio_buf) - rio_bufptr + 1
  /\ shown \in Seq(Seq(Int)) /\ stream \in Seq(Int)

\* Every byte that read returned is in one place, in the order of the stream:
\* printed, in the line being read, or unread in rio_buf.  None is lost or
\* repeated between two calls of rio_readlineb, however the stream was cut.
NoByteLost ==
  pc # "exited" =>
    stream \o (CASE pc = "readline" -> bufp
                 [] pc = "fputs" /\ IsBytes(buf) -> buf
                 [] OTHER -> <<>>)
           \o SubSeq(rio_buf, rio_bufptr, rio_bufptr + rio_cnt - 1)
    = [i \in 1..taken |-> i]

\* A line of the server is printed whole: it has no '\n' but at its end, and
\* ends elsewhere only if it fills the buffer or the stream ended.
LinesWhole ==
  \A i \in DOMAIN Output :
    LET line == Output[i]
    IN  IsBytes(line) =>
          /\ \A j \in 1..Len(line) - 1 : line[j] \notin newlines
          /\ \/ line[Len(line)] \in newlines
             \/ Len(line) = maxlen - 1
             \/ peer # "up" /\ line[Len(line)] = taken

\* The server receives what the user typed, in order and once, in spite of
\* short and interrupted writes; when the client waits for the answer all of
\* its line was sent.
SentOnce ==
  /\ \A i \in DOMAIN received : received[i] = -i
  /\ peer = "up" =>
       Len(received) = LineLen * typed - IF pc = "write" THEN LineLen - Len(bufp) ELSE 0

\* The user's own line is printed as an answer only after the server closed
\* and everything that it sent was printed.
OwnLineOnlyAfterEof ==
  \A i \in DOMAIN Output :
    ~IsBytes(Output[i]) => peer # "up" /\ \A j \in i..Len(Output) : ~IsBytes(Output[j])

\* With one line for each answer, which fits into buf, what is printed after a
\* line answers that line.  (Answers of more lines, like those to GET, MGET and
\* INFOR, are printed one line at a time, and lag behind.)
AnswersInStep ==
  answers = 1 /\ (\A i \in DOMAIN Output : Len(Output[i]) < maxlen - 1) /\ peer = "up" =>
    /\ \A i \in DOMAIN Output : Cardinality({b \in newlines : b < Output[i][1]}) = i - 1
    /\ pc = "fgets" => taken = sent /\ rio_cnt <= 0

\* The client always comes back to its user, unless the server never answers:
\* then each waits for the other for ever, with nothing left on the way.  (The
\* server of this repository does not answer a line that is no request.)
Prompt ==
  \/ []<>(pc \in {"fgets", "closed", "exited"})
  \/ /\ answers = 0
     /\ <>[](pc = "readline" /\ taken = sent /\ Len(received) = LineLen * typed)
=============================================================================
