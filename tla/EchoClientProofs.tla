-------------------------- MODULE EchoClientProofs --------------------------
(***************************************************************************)
(* Proofs about module EchoClient, for every size of the buffers and of    *)
(* the lines, any number of lines, and any server.                         *)
(***************************************************************************)
EXTENDS EchoClient, TLAPS, FiniteSetTheorems, SequenceTheorems

-----------------------------------------------------------------------------
(***************************************************************************)
(* The inductive invariant.                                                *)
(***************************************************************************)
\* How many bytes rio_read has handed out.
Consumed == taken - IF rio_cnt > 0 THEN rio_cnt ELSE 0

\* The server sends whole lines while it is there, and no more than it owes.
Socket ==
  /\ taken <= sent
  /\ IsFiniteSet(newlines)
  /\ peer = "up" => sent = 0 \/ sent \in newlines
  /\ Cardinality(newlines) <= answers * (Len(received) \div LineLen)

\* rio_buf holds the bytes that follow.
Unread ==
  /\ rio_cnt <= taken
  /\ \A j \in 1..rio_cnt : rio_buf[rio_bufptr + j - 1] = Consumed + j

\* What the user typed and rio_writen has sent of it.
Typing ==
  /\ \A i \in 1..Len(received) : received[i] = -i
  /\ pc = "open" => typed = 0
  /\ pc = "write" =>
       /\ typed > 0 /\ Len(buf) = LineLen
       /\ \A i \in 1..LineLen : buf[i] = -((typed - 1) * LineLen + i)
       /\ Len(bufp) <= LineLen
       /\ \A i \in 1..Len(bufp) : bufp[i] = buf[i]
  /\ peer = "up" =>
       Len(received) = typed * LineLen - IF pc = "write" THEN LineLen - Len(bufp) ELSE 0

\* Each byte handed out was printed or is in the line that is read or printed.
InLine == CASE pc = "readline" -> bufp
            [] pc = "fputs" /\ IsBytes(buf) -> buf
            [] OTHER -> <<>>
Line ==
  /\ \A i \in 1..Len(stream) : stream[i] = i
  /\ pc # "exited" =>
       /\ Len(stream) + Len(InLine) = Consumed
       /\ \A j \in 1..Len(InLine) : InLine[j] = Len(stream) + j
  /\ pc = "readline" =>
       /\ Len(bufp) < maxlen - 1
       /\ \A j \in 1..Len(bufp) : bufp[j] \notin newlines
       /\ buf # <<>> /\ buf[1] < 0

\* A line of the server is complete when s bytes were sent, those in nl are
\* newlines, t were taken, and the server is p.
Whole(line, s, nl, p, t) ==
  /\ line # <<>>
  /\ IsBytes(line) =>
       /\ \A j \in 1..Len(line) : line[j] <= s
       /\ \A j \in 1..Len(line) - 1 : line[j] \notin nl
       /\ \/ line[Len(line)] \in nl
          \/ Len(line) = maxlen - 1
          \/ p # "up" /\ line[Len(line)] = t /\ t = s

Printed ==
  /\ \A i \in 1..Len(shown) : Whole(shown[i], sent, newlines, peer, taken)
  /\ pc = "fputs" => Whole(buf, sent, newlines, peer, taken)

\* A line of the user was printed only at the end, after which nothing comes.
Ended ==
  \/ \E i \in 1..Len(shown) : ~IsBytes(shown[i])
  \/ pc = "fputs" /\ ~IsBytes(buf)

AtEnd ==
  /\ Ended => /\ peer # "up" /\ taken = sent /\ rio_cnt <= 0
              /\ pc = "readline" => bufp = <<>>
  /\ \A i, j \in 1..Len(shown) : i <= j /\ ~IsBytes(shown[i]) => ~IsBytes(shown[j])
  /\ pc = "fputs" /\ IsBytes(buf) => \A i \in 1..Len(shown) : IsBytes(shown[i])

\* One line is printed for each that was typed, and as long as lines fit each
\* ends with the newline that follows those before it.
Before(b) == {l \in newlines : l < b}
InStep ==
  /\ pc \notin {"closed", "exited"} =>
       Len(shown) = typed - IF pc \in {"write", "readline", "fputs"} THEN 1 ELSE 0
  /\ Len(stream) <= taken
  /\ peer = "up" /\ (\A i \in 1..Len(shown) : Len(shown[i]) < maxlen - 1) =>
       /\ \A i \in 1..Len(shown) : Cardinality(Before(shown[i][1])) = i - 1
       /\ Cardinality(Before(Len(stream) + 1)) = Len(shown)

IInv == TypeOK /\ Socket /\ Unread /\ Typing /\ Line /\ Printed /\ AtEnd /\ InStep

\* The constants.
LEMMA Constants ==
  /\ RIO_BUFSIZE \in Nat \ {0} /\ maxlen \in Nat \ {0, 1} /\ LineLen \in Nat \ {0}
  /\ MaxReplyLine \in Nat \ {0} /\ Answers \subseteq Nat
  /\ MaxTyped \in Nat /\ MaxSignals \in Nat
BY EchoClientAssumption

\* A part of a sequence.
LEMMA Part ==
  ASSUME NEW s \in Seq(Int), NEW a \in Nat \ {0}, NEW b \in Nat, b <= Len(s), a <= b + 1
  PROVE  /\ SubSeq(s, a, b) \in Seq(Int)
         /\ Len(SubSeq(s, a, b)) = b - a + 1
         /\ \A i \in 1..b - a + 1 : SubSeq(s, a, b)[i] = s[a + i - 1]
<1>1. \A i \in a..b : s[i] \in Int
  OBVIOUS
<1>2. /\ SubSeq(s, a, b) \in Seq(Int)
      /\ Len(SubSeq(s, a, b)) = IF a <= b THEN b - a + 1 ELSE 0
      /\ \A i \in 1..b - a + 1 : SubSeq(s, a, b)[i] = s[a + i - 1]
  BY <1>1, SubSeqProperties
<1> QED BY <1>2

\* Two sequences, one after the other.
LEMMA Joined ==
  ASSUME NEW s \in Seq(Int), NEW t \in Seq(Int)
  PROVE  /\ s \o t \in Seq(Int)
         /\ Len(s \o t) = Len(s) + Len(t) /\ Len(s) \in Nat /\ Len(t) \in Nat
         /\ \A i \in 1..Len(s) : (s \o t)[i] = s[i]
         /\ \A i \in 1..Len(t) : (s \o t)[Len(s) + i] = t[i]
<1>1. Len(s) \in Nat /\ Len(t) \in Nat
  OBVIOUS
<1>2. /\ s \o t \in Seq(Int) /\ Len(s \o t) = Len(s) + Len(t)
      /\ \A i \in 1..Len(s) + Len(t) : (s \o t)[i] = IF i <= Len(s) THEN s[i] ELSE t[i - Len(s)]
  BY ConcatProperties
<1>3. \A i \in 1..Len(s) : i \in 1..Len(s) + Len(t) /\ i <= Len(s)
  BY <1>1
<1>4. \A i \in 1..Len(t) : /\ Len(s) + i \in 1..Len(s) + Len(t)
                           /\ ~(Len(s) + i <= Len(s)) /\ Len(s) + i - Len(s) = i
  BY <1>1
<1> QED BY <1>1, <1>2, <1>3, <1>4

\* It holds when the client starts.
LEMMA InitIInv == Init => IInv
<1> SUFFICES ASSUME Init PROVE IInv
  OBVIOUS
<1> USE Constants DEF Init, RioInit
<1>1. TypeOK
  BY DEF TypeOK
<1>2. Socket
  <2>1. IsFiniteSet({}) /\ Cardinality({}) = 0
    BY FS_EmptySet
  <2>2. Len(received) = 0 /\ 0 \div LineLen = 0 /\ answers \in Nat
    BY SMT
  <2> QED BY <2>1, <2>2 DEF Socket
<1>3. Unread /\ Printed /\ AtEnd
  BY DEF Unread, Printed, AtEnd, Ended
<1>4. Typing
  BY DEF Typing
<1>5. Line
  BY DEF Line, Consumed, InLine
<1>6. InStep
  <2>1. Before(Len(stream) + 1) = {}
    BY DEF Before
  <2>2. Cardinality({}) = 0 /\ Len(shown) = 0
    BY FS_EmptySet
  <2>3. Cardinality(Before(Len(stream) + 1)) = Len(shown)
    BY <2>1, <2>2
  <2>4. pc = "open" /\ Len(shown) = typed
    BY <2>2
  <2>5. 1..Len(shown) = {}
    BY <2>2
  <2>6. Len(stream) <= taken
    OBVIOUS
  <2> HIDE DEF Init
  <2> QED BY <2>3, <2>4, <2>5, <2>6 DEF InStep
<1> QED BY <1>1, <1>2, <1>3, <1>4, <1>5, <1>6 DEF IInv

\* What one step may be.
LEMMA Steps ==
  ASSUME [Next]_vars
  PROVE  \/ \E len \in 1..MaxReplyLine : Answer(len)
         \/ \E how \in {"fin", "reset"}, len \in 0..MaxReplyLine - 1 : End(how, len)
         \/ Fgets \/ FgetsNull \/ OpenClientfd
         \/ \E k \in 1..LineLen : Write(k)
         \/ Written \/ WriteError \/ WriteInterrupted
         \/ \E k \in 1..RIO_BUFSIZE : Read(k)
         \/ ReadInterrupted \/ ReadEof \/ ReadError
         \/ ReadByte \/ Fputs
         \/ UNCHANGED vars
BY DEF Next, Client

\* What a write does to the line and to what the server received.
LEMMA WriteEffects ==
  ASSUME TypeOK, NEW k \in 1..LineLen, Write(k)
  PROVE  /\ Len(bufp) + k <= Len(buf)
         /\ bufp' \in Seq(Int) /\ Len(bufp') = Len(bufp) + k
         /\ \A i \in 1..Len(bufp) + k : bufp'[i] = buf[i]
         /\ received' \in Seq(Int)
         /\ \/ /\ peer = "up" /\ peer' = "up"
               /\ Len(received') = Len(received) + k
               /\ \A i \in 1..Len(received) : received'[i] = received[i]
               /\ \A i \in 1..k : received'[Len(received) + i] = buf[Len(bufp) + i]
            \/ /\ peer = "fin" /\ peer' \in {"fin", "reset"}
               /\ received' = received
<1> DEFINE m == Len(bufp)
           start == SubSeq(buf, 1, m + k)
           part  == SubSeq(buf, m + 1, m + k)
<1>1. /\ k \in Nat \ {0} /\ m \in Nat /\ m + k <= Len(buf)
      /\ buf \in Seq(Int) /\ received \in Seq(Int)
  BY Constants DEF Write, TypeOK
<1>2. /\ bufp' = start
      /\ \/ peer = "up" /\ peer' = "up" /\ received' = received \o part
         \/ peer = "fin" /\ peer' \in {"fin", "reset"} /\ received' = received
  BY DEF Write
<1>3. start \in Seq(Int) /\ Len(start) = m + k /\ \A i \in 1..m + k : start[i] = buf[i]
  <2>1. m + k \in Nat /\ 1 <= m + k + 1
    BY <1>1
  <2>2. /\ start \in Seq(Int) /\ Len(start) = m + k - 1 + 1
        /\ \A i \in 1..m + k - 1 + 1 : start[i] = buf[1 + i - 1]
    <3>1. \A a \in Nat \ {0}, b \in Nat : b <= Len(buf) /\ a <= b + 1 =>
            /\ SubSeq(buf, a, b) \in Seq(Int) /\ Len(SubSeq(buf, a, b)) = b - a + 1
            /\ \A i \in 1..b - a + 1 : SubSeq(buf, a, b)[i] = buf[a + i - 1]
      BY <1>1, Part
    <3> QED BY <1>1, <2>1, <3>1
  <2> QED BY <1>1, <2>2
<1>4. part \in Seq(Int) /\ Len(part) = k /\ \A i \in 1..k : part[i] = buf[m + i]
  <2>1. m + k \in Nat /\ m + 1 \in Nat \ {0} /\ m + 1 <= m + k + 1
    BY <1>1
  <2>2. /\ part \in Seq(Int) /\ Len(part) = m + k - (m + 1) + 1
        /\ \A i \in 1..m + k - (m + 1) + 1 : part[i] = buf[m + 1 + i - 1]
    <3>1. \A a \in Nat \ {0}, b \in Nat : b <= Len(buf) /\ a <= b + 1 =>
            /\ SubSeq(buf, a, b) \in Seq(Int) /\ Len(SubSeq(buf, a, b)) = b - a + 1
            /\ \A i \in 1..b - a + 1 : SubSeq(buf, a, b)[i] = buf[a + i - 1]
      BY <1>1, Part
    <3> QED BY <1>1, <2>1, <3>1
  <2> QED BY <1>1, <2>2
<1> HIDE DEF start, part
<1>5. /\ received \o part \in Seq(Int) /\ Len(received \o part) = Len(received) + k
      /\ \A i \in 1..Len(received) : (received \o part)[i] = received[i]
      /\ \A i \in 1..k : (received \o part)[Len(received) + i] = buf[m + i]
  BY <1>1, <1>4, Joined
<1> QED BY <1>1, <1>2, <1>3, <1>5

\* Each step keeps the types.
LEMMA NextTypeOK == ASSUME IInv, [Next]_vars PROVE TypeOK'
<1> USE Constants
<1>0. TypeOK
  BY DEF IInv
<1> USE <1>0 DEF TypeOK, serverVars, rioVars, history
<1>1. ASSUME NEW len \in 1..MaxReplyLine, Answer(len) PROVE TypeOK'
  BY <1>1 DEF Answer
<1>2. ASSUME NEW how \in {"fin", "reset"}, NEW len \in 0..MaxReplyLine - 1, End(how, len)
      PROVE  TypeOK'
  BY <1>2 DEF End
<1>3. CASE Fgets
  <2>1. [i \in 1..LineLen |-> -(typed * LineLen + i)] \in Seq(Int)
    <3>1. \A i \in 1..LineLen : -(typed * LineLen + i) \in Int
      BY SMT
    <3> QED BY <3>1
  <2> QED BY <1>3, <2>1 DEF Fgets
<1>4. CASE FgetsNull \/ OpenClientfd \/ Written \/ WriteError \/ WriteInterrupted
  <2>1. CASE FgetsNull
    BY <2>1 DEF FgetsNull
  <2>2. CASE OpenClientfd
    BY <2>2 DEF OpenClientfd
  <2>3. CASE Written
    BY <2>3 DEF Written
  <2>4. CASE WriteError
    BY <2>4 DEF WriteError
  <2>5. CASE WriteInterrupted
    BY <2>5 DEF WriteInterrupted
  <2> QED BY <1>4, <2>1, <2>2, <2>3, <2>4, <2>5
<1>5. ASSUME NEW k \in 1..LineLen, Write(k) PROVE TypeOK'
  <2>1. bufp' \in Seq(Int) /\ received' \in Seq(Int) /\ peer' \in {"up", "fin", "reset"}
    BY <1>5, WriteEffects
  <2> QED BY <1>5, <2>1 DEF Write
<1>6. ASSUME NEW k \in 1..RIO_BUFSIZE, Read(k) PROVE TypeOK'
  BY <1>6 DEF Read, Refills
<1>7. CASE ReadInterrupted \/ ReadEof \/ ReadError
  <2>1. rio_cnt' \in -1..0 /\ pc' \in {"readline", "fputs", "exited"} /\ signals' \in Nat
    <3>0. signals \in Nat /\ signals + 1 \in Nat
      OBVIOUS
    <3> HIDE DEF TypeOK, serverVars, history
    <3>1. CASE ReadInterrupted
      BY <3>0, <3>1 DEF ReadInterrupted, Refills
    <3>2. CASE ReadEof
      BY <3>0, <3>2 DEF ReadEof
    <3>3. CASE ReadError
      BY <3>0, <3>3 DEF ReadError
    <3> QED BY <1>7, <3>1, <3>2, <3>3
  <2>2. buf' = buf \/ buf' = bufp
    <3> HIDE DEF TypeOK
    <3> QED BY <1>7, Zenon DEF ReadInterrupted, ReadEof, ReadError
  <2>3. UNCHANGED <<serverVars, bufp, rio_buf, rio_bufptr, taken, history>>
    <3> HIDE DEF TypeOK, serverVars, history
    <3> QED BY <1>7, Zenon DEF ReadInterrupted, ReadEof, ReadError
  <2>4. rio_cnt' \in -1..Len(rio_buf) - rio_bufptr + 1
    BY <2>1
  <2> QED BY <2>1, <2>2, <2>3, <2>4
<1>8. CASE ReadByte
  <2>1. rio_buf[rio_bufptr] \in Int
    BY <1>8 DEF ReadByte
  <2>2. Append(bufp, rio_buf[rio_bufptr]) \in Seq(Int)
    BY <2>1
  <2>3. buf' \in Seq(Int) /\ bufp' \in Seq(Int) /\ pc' \in {"readline", "fputs"}
    BY <1>8, <2>2 DEF ReadByte
  <2>4. rio_bufptr' \in 1..Len(rio_buf) + 1 /\ rio_cnt' \in -1..Len(rio_buf) - rio_bufptr' + 1
    BY <1>8 DEF ReadByte
  <2> QED BY <1>8, <2>3, <2>4 DEF ReadByte
<1>9. CASE Fputs
  BY <1>9 DEF Fputs
<1>10. CASE UNCHANGED vars
  BY <1>10 DEF vars
<1> QED
  BY <1>1, <1>2, <1>3, <1>4, <1>5, <1>6, <1>7, <1>8, <1>9, <1>10, Steps

-----------------------------------------------------------------------------
(***************************************************************************)
(* Arithmetic.                                                             *)
(***************************************************************************)
\* More answers, or more lines, are more lines of answers.
LEMMA TimesMonotone ==
  ASSUME NEW m \in Nat, NEW a \in Int, NEW b \in Int, a <= b
  PROVE  m * a <= m * b /\ m * a \in Int /\ m * b \in Int
BY SMT

\* More bytes are not fewer lines.
LEMMA DivMonotone ==
  ASSUME NEW m \in Nat \ {0}, NEW a \in Nat, NEW b \in Nat, a <= b
  PROVE  a \div m <= b \div m /\ a \div m \in Int /\ b \div m \in Int
<1>1. /\ a \div m \in Int /\ a = m * (a \div m) + (a % m) /\ a % m \in 0..m-1
      /\ b \div m \in Int /\ b = m * (b \div m) + (b % m) /\ b % m \in 0..m-1
  BY SMT
<1> DEFINE q == a \div m
           p == b \div m
<1> HIDE DEF q, p
<1>2. CASE p + 1 <= q
  <2>1. m * (p + 1) <= m * q
    BY <1>1, <1>2, TimesMonotone DEF p, q
  <2>2. m * (p + 1) = m * p + m
    BY <1>1, SMT DEF p
  <2>3. b < m * p + m /\ m * q <= a
    BY <1>1, SMT DEF p, q
  <2> QED BY <1>1, <2>1, <2>2, <2>3, SMT DEF p, q
<1> QED BY <1>1, <1>2 DEF p, q

\* n lines are n lines.
LEMMA DivExact ==
  ASSUME NEW m \in Nat \ {0}, NEW k \in Nat
  PROVE  (k * m) \div m = k
BY SMT

-----------------------------------------------------------------------------
(***************************************************************************)
(* The invariant is kept.                                                  *)
(***************************************************************************)
\* The server sends no more than it owes, and read returns only what was sent.
LEMMA NextSocket == ASSUME IInv, [Next]_vars PROVE Socket'
<1>0. /\ Socket /\ answers \in Nat /\ received \in Seq(Int) /\ newlines \subseteq 1..sent
      /\ sent \in Nat /\ taken \in Nat /\ Len(received) \in Nat
  BY Constants DEF IInv, TypeOK
<1> DEFINE quota == answers * (Len(received) \div LineLen)
<1>q. quota \in Int
  BY <1>0, Constants, DivMonotone, SMT
<1>1. ASSUME NEW len \in 1..MaxReplyLine, Answer(len) PROVE Socket'
  <2>1. /\ peer = "up" /\ Cardinality(newlines) < quota
        /\ sent' = sent + len /\ newlines' = newlines \cup {sent + len}
        /\ UNCHANGED <<answers, received, peer, taken>>
    <3>1. UNCHANGED <<answers, received, peer, taken>> /\ peer = "up" /\ sent' = sent + len
          /\ newlines' = newlines \cup {sent + len} /\ quota - Cardinality(newlines) > 0
      BY <1>1 DEF Answer, Owed, rioVars
    <3>2. Cardinality(newlines) \in Nat
      BY <1>0, FS_CardinalityType DEF Socket
    <3> QED BY <1>q, <3>1, <3>2
  <2>2. sent + len \notin newlines
    BY <1>0
  <2>3. IsFiniteSet(newlines') /\ Cardinality(newlines') = Cardinality(newlines) + 1
    BY <1>0, <2>1, <2>2, FS_AddElement DEF Socket
  <2>4. Cardinality(newlines) \in Nat
    BY <1>0, FS_CardinalityType DEF Socket
  <2>5. quota' = quota
    BY <2>1
  <2>6. Cardinality(newlines') <= quota'
    BY <1>q, <2>1, <2>3, <2>4, <2>5
  <2>7. taken' <= sent' /\ sent' \in newlines'
    BY <1>0, <2>1, Constants DEF Socket
  <2> QED BY <2>3, <2>6, <2>7 DEF Socket
<1>2. ASSUME NEW how \in {"fin", "reset"}, NEW len \in 0..MaxReplyLine - 1, End(how, len)
      PROVE  Socket'
  <2>1. /\ peer' # "up" /\ sent' = sent + len /\ UNCHANGED <<answers, received, newlines, taken>>
    BY <1>2 DEF End, rioVars
  <2>2. taken' <= sent'
    BY <1>0, <2>1, Constants DEF Socket
  <2> QED BY <1>0, <2>1, <2>2 DEF Socket
<1>3. ASSUME NEW k \in 1..LineLen, Write(k) PROVE Socket'
  <2>1. /\ UNCHANGED <<answers, sent, newlines, taken>> /\ received' \in Seq(Int)
        /\ peer' = "up" => peer = "up"
    BY <1>3, WriteEffects DEF IInv, Write, rioVars
  <2>2. Len(received') \in Nat /\ Len(received) <= Len(received')
    BY <1>0, <1>3, <2>1, WriteEffects, Constants DEF IInv
  <2>3. Len(received) \div LineLen <= Len(received') \div LineLen
        /\ Len(received) \div LineLen \in Int /\ Len(received') \div LineLen \in Int
    BY <1>0, <2>2, Constants, DivMonotone
  <2>4. quota <= answers * (Len(received') \div LineLen) /\ answers * (Len(received') \div LineLen) \in Int
    BY <1>0, <2>3, TimesMonotone
  <2>5. Cardinality(newlines) \in Nat
    BY <1>0, FS_CardinalityType DEF Socket
  <2>6. Cardinality(newlines) <= answers * (Len(received') \div LineLen)
    BY <1>0, <1>q, <2>4, <2>5 DEF Socket
  <2> QED BY <1>0, <2>1, <2>6 DEF Socket
<1>4. ASSUME NEW k \in 1..RIO_BUFSIZE, Read(k) PROVE Socket'
  <2>1. taken' <= sent /\ UNCHANGED <<answers, received, sent, newlines, peer>>
    BY <1>4 DEF Read, serverVars
  <2> QED BY <1>0, <2>1 DEF Socket
<1>5. CASE UNCHANGED <<answers, received, sent, newlines, peer, taken>>
  BY <1>0, <1>5 DEF Socket
<1>6. CASE \/ Fgets \/ FgetsNull \/ OpenClientfd \/ Written \/ WriteError \/ WriteInterrupted
           \/ ReadInterrupted \/ ReadEof \/ ReadError \/ ReadByte \/ Fputs \/ UNCHANGED vars
  <2>1. UNCHANGED <<answers, received, sent, newlines, peer, taken>>
    BY <1>6, Zenon DEF Fgets, FgetsNull, OpenClientfd, Written, WriteError, WriteInterrupted,
       ReadInterrupted, ReadEof, ReadError, ReadByte, Fputs, vars, serverVars, rioVars
  <2> QED BY <1>5, <2>1
<1> QED BY <1>1, <1>2, <1>3, <1>4, <1>6, Steps

\* The steps that are not of rio_readlineb.
NotReading ==
  \/ \E len \in 1..MaxReplyLine : Answer(len)
  \/ \E how \in {"fin", "reset"}, len \in 0..MaxReplyLine - 1 : End(how, len)
  \/ Fgets \/ FgetsNull \/ OpenClientfd
  \/ \E k \in 1..LineLen : Write(k)
  \/ Written \/ WriteError \/ WriteInterrupted
  \/ Fputs
  \/ UNCHANGED vars
Reading == (\E k \in 1..RIO_BUFSIZE : Read(k)) \/ ReadInterrupted \/ ReadEof \/ ReadError

\* A step is one of them, or of rio_readlineb.
LEMMA ReadingOrNot == ASSUME [Next]_vars PROVE Reading \/ ReadByte \/ NotReading
BY Steps DEF Reading, NotReading

\* Only rio_readlineb's loop consumes bytes, and in the order of the stream.
LEMMA Consuming ==
  ASSUME IInv, [Next]_vars
  PROVE  /\ Consumed \in Nat /\ Consumed <= taken /\ (rio_cnt <= 0 => Consumed = taken)
         /\ ~ReadByte => Consumed' = Consumed
         /\ ReadByte => rio_buf[rio_bufptr] = Consumed + 1 /\ Consumed' = Consumed + 1
         /\ Unread'
<1>0. /\ Unread /\ taken \in Nat /\ rio_buf \in Seq(Int) /\ rio_bufptr \in 1..Len(rio_buf) + 1
      /\ rio_cnt \in -1..Len(rio_buf) - rio_bufptr + 1 /\ Len(rio_buf) \in Nat
  BY DEF IInv, TypeOK
<1>2. Consumed \in Nat /\ Consumed <= taken /\ (rio_cnt <= 0 => Consumed = taken)
  BY <1>0 DEF Consumed, Unread
<1>3. ASSUME NEW k \in 1..RIO_BUFSIZE, Read(k) PROVE Consumed' = Consumed /\ Unread'
  <2>1. /\ rio_cnt <= 0 /\ rio_bufptr' = 1 /\ rio_cnt' = k /\ taken' = taken + k
        /\ \A j \in 1..k : rio_buf'[j] = taken + j
        /\ k \in Nat \ {0}
    BY <1>3, Constants DEF Read, Refills
  <2>2. Consumed = taken /\ Consumed' = taken
    BY <1>0, <2>1 DEF Consumed
  <2>3. \A j \in 1..k : 1 + j - 1 = j
    BY <2>1
  <2>4. \A j \in 1..k : rio_buf'[1 + j - 1] = taken + j
    BY <2>1, <2>3
  <2>5. rio_cnt' <= taken'
    BY <1>0, <2>1
  <2> QED BY <2>1, <2>2, <2>4, <2>5 DEF Unread
<1>4. ASSUME ReadInterrupted \/ ReadEof \/ ReadError
      PROVE  Consumed' = Consumed /\ Unread'
  <2>1. rio_cnt <= 0 /\ (rio_cnt' = -1 \/ rio_cnt' = 0) /\ taken' = taken
    BY <1>4 DEF ReadInterrupted, ReadEof, ReadError, Refills
  <2>2. rio_cnt' \in Int /\ ~(rio_cnt' > 0) /\ ~(rio_cnt > 0) /\ rio_cnt' <= taken'
    BY <1>0, <2>1
  <2>3. Consumed' = Consumed
    BY <1>0, <2>1, <2>2 DEF Consumed
  <2>4. \A j \in 1..rio_cnt' : FALSE
    BY <2>2
  <2> QED BY <2>2, <2>3, <2>4 DEF Unread
<1>5. ASSUME ReadByte
      PROVE  rio_buf[rio_bufptr] = Consumed + 1 /\ Consumed' = Consumed + 1 /\ Unread'
  <2>1. /\ rio_cnt > 0 /\ rio_bufptr' = rio_bufptr + 1 /\ rio_cnt' = rio_cnt - 1
        /\ UNCHANGED <<rio_buf, taken>>
    BY <1>5 DEF ReadByte
  <2>2. Consumed' = Consumed + 1
    BY <1>0, <2>1 DEF Consumed
  <2>3. rio_buf[rio_bufptr + 1 - 1] = Consumed + 1 /\ rio_bufptr + 1 - 1 = rio_bufptr
    BY <1>0, <2>1 DEF Unread
  <2>4. ASSUME NEW j \in 1..rio_cnt'
        PROVE  rio_buf'[rio_bufptr' + j - 1] = Consumed' + j
    <3>1. j + 1 \in 1..rio_cnt /\ rio_bufptr + (j + 1) - 1 = rio_bufptr' + j - 1
      BY <1>0, <2>1
    <3>2. rio_buf[rio_bufptr + (j + 1) - 1] = Consumed + (j + 1)
      BY <1>0, <3>1 DEF Unread
    <3>3. Consumed + (j + 1) = Consumed' + j
      BY <1>2, <2>2
    <3> QED BY <2>1, <3>1, <3>2, <3>3
  <2>5. rio_cnt' <= taken'
    BY <1>0, <2>1 DEF Unread
  <2> QED BY <2>2, <2>3, <2>4, <2>5 DEF Unread
<1>6. ASSUME UNCHANGED rioVars PROVE Consumed' = Consumed /\ Unread'
  <2>1. rio_buf' = rio_buf /\ rio_bufptr' = rio_bufptr /\ rio_cnt' = rio_cnt /\ taken' = taken
    BY <1>6 DEF rioVars
  <2>2. Consumed' = Consumed
    BY <2>1 DEF Consumed
  <2> QED BY <1>0, <2>1, <2>2 DEF Unread
<1>7. ASSUME NotReading PROVE Consumed' = Consumed /\ Unread'
  <2>1. UNCHANGED rioVars
    <3> HIDE DEF rioVars
    <3> QED BY <1>7, Zenon DEF NotReading, Answer, End, Fgets, FgetsNull, OpenClientfd, Write, Written, WriteError,
         WriteInterrupted, Fputs, vars
  <2> QED BY <1>6, <2>1
<1>8. ReadByte \/ (Consumed' = Consumed /\ Unread')
  BY <1>3, <1>4, <1>7, ReadingOrNot DEF Reading
<1> QED
  BY <1>2, <1>5, <1>8
\* The server receives the user's bytes in order, each once.
LEMMA NextTyping == ASSUME IInv, [Next]_vars PROVE Typing'
<1> DEFINE base == (typed - 1) * LineLen
           total == typed * LineLen
<1>0. /\ Typing /\ typed \in Nat /\ LineLen \in Nat \ {0} /\ received \in Seq(Int)
      /\ buf \in Seq(Int) /\ bufp \in Seq(Int) /\ Len(received) \in Nat /\ Len(bufp) \in Nat
  BY Constants DEF IInv, TypeOK
<1>1. base \in Int /\ total \in Int /\ base = total - LineLen /\ (typed = 0 => total = 0)
  BY <1>0, SMT
<1>2. /\ \A i \in 1..Len(received) : received[i] = -i
      /\ pc = "open" => typed = 0
      /\ pc = "write" => /\ typed > 0 /\ Len(buf) = LineLen
                         /\ \A i \in 1..LineLen : buf[i] = -(base + i)
                         /\ Len(bufp) <= LineLen
                         /\ \A i \in 1..Len(bufp) : bufp[i] = buf[i]
      /\ peer = "up" =>
           Len(received) = total - IF pc = "write" THEN LineLen - Len(bufp) ELSE 0
  BY <1>0 DEF Typing
<1>3. CASE Fgets
  <2>1. /\ pc = "fgets" /\ pc' = "write" /\ typed' = typed + 1 /\ bufp' = <<>>
        /\ buf' = [i \in 1..LineLen |-> -(total + i)]
        /\ UNCHANGED <<received, peer>>
    BY <1>3 DEF Fgets, serverVars
  <2>2. typed' - 1 = typed /\ typed' > 0 /\ Len(bufp') = 0
    BY <1>0, <2>1
  <2>3. (typed' - 1) * LineLen = total /\ typed' * LineLen = total + LineLen
    <3>1. (typed + 1) * LineLen = typed * LineLen + LineLen
      BY <1>0, SMT
    <3> QED BY <2>1, <2>2, <3>1
  <2> HIDE DEF base, total
  <2>4. Len(buf') = LineLen /\ \A i \in 1..LineLen : buf'[i] = -(total + i)
    BY <1>0, <2>1
  <2>5. peer' = "up" => Len(received') = total + LineLen - (LineLen - Len(bufp'))
    BY <1>0, <1>1, <1>2, <2>1, <2>2
  <2>6. \A i \in 1..Len(bufp') : bufp'[i] = buf'[i]
    BY <2>2
  <2>7. \A i \in 1..LineLen : buf'[i] = -((typed' - 1) * LineLen + i)
    BY <2>3, <2>4
  <2>8. Len(bufp') <= LineLen
    BY <1>0, <2>2
  <2>9. peer' = "up" => Len(received') = typed' * LineLen - (LineLen - Len(bufp'))
    <3> DEFINE next == typed' * LineLen
    <3>1. next = total + LineLen
      BY <2>3
    <3> HIDE DEF next
    <3>2. peer' = "up" => Len(received') = next - (LineLen - Len(bufp'))
      BY <1>0, <1>1, <2>2, <2>5, <3>1
    <3> QED BY <3>2 DEF next
  <2>10. \A i \in 1..Len(received') : received'[i] = -i
    BY <1>2, <2>1
  <2>11. pc' = "write" /\ pc' # "open"
    BY <2>1
  <2> QED BY <2>2, <2>4, <2>6, <2>7, <2>8, <2>9, <2>10, <2>11 DEF Typing
<1>4. ASSUME NEW k \in 1..LineLen, Write(k) PROVE Typing'
  <2>1. /\ pc = "write" /\ pc' = "write" /\ UNCHANGED <<typed, buf>>
    BY <1>4 DEF Write, history
  <2>2. /\ Len(bufp) + k <= LineLen /\ Len(bufp') = Len(bufp) + k
        /\ \A i \in 1..Len(bufp) + k : bufp'[i] = buf[i]
        /\ \/ /\ peer = "up" /\ peer' = "up"
              /\ Len(received') = Len(received) + k
              /\ \A i \in 1..Len(received) : received'[i] = received[i]
              /\ \A i \in 1..k : received'[Len(received) + i] = buf[Len(bufp) + i]
           \/ peer' # "up" /\ received' = received
    BY <1>2, <1>4, <2>1, WriteEffects DEF IInv
  <2>3. base' = base /\ total' = total
    BY <2>1
  <2> HIDE DEF base, total
  <2>4. \A i \in 1..Len(received') : received'[i] = -i
    <3>1. CASE peer = "up" /\ peer' = "up"
      <4>1. Len(received) = base + Len(bufp)
        BY <1>0, <1>1, <1>2, <2>1, <3>1
      <4>2. ASSUME NEW i \in 1..k PROVE received'[Len(received) + i] = -(Len(received) + i)
        <5>1. Len(bufp) + i \in 1..LineLen
          BY <1>0, <2>2
        <5>2. buf[Len(bufp) + i] = -(base + (Len(bufp) + i))
          BY <1>2, <2>1, <5>1
        <5>3. received'[Len(received) + i] = buf[Len(bufp) + i]
          BY <2>2, <3>1
        <5> QED BY <1>0, <1>1, <4>1, <5>2, <5>3
      <4>3. ASSUME NEW i \in Len(received) + 1..Len(received) + k PROVE received'[i] = -i
        <5>1. i - Len(received) \in 1..k /\ Len(received) + (i - Len(received)) = i
          BY <1>0
        <5>2. received'[Len(received) + (i - Len(received))] = -(Len(received) + (i - Len(received)))
          BY <4>2, <5>1
        <5> QED BY <5>1, <5>2
      <4>4. \A i \in 1..Len(received) : received'[i] = -i
        BY <1>2, <2>2, <3>1
      <4>5. \A i \in 1..Len(received) + k :
              i \in 1..Len(received) \/ i \in Len(received) + 1..Len(received) + k
        BY <1>0
      <4> QED BY <2>2, <3>1, <4>3, <4>4, <4>5
    <3>2. CASE received' = received
      BY <1>2, <3>2
    <3> QED BY <2>2, <3>1, <3>2
  <2>5. ASSUME peer' = "up" PROVE Len(received') = total - (LineLen - Len(bufp'))
    <3>1. /\ Len(received') = Len(received) + k /\ Len(bufp') = Len(bufp) + k
          /\ Len(received) = total - (LineLen - Len(bufp)) /\ k \in Nat
      BY <1>0, <1>2, <2>1, <2>2, <2>5
    <3> QED BY <1>0, <1>1, <3>1
  <2>6. typed' > 0 /\ Len(buf') = LineLen /\ \A i \in 1..LineLen : buf'[i] = -(base + i)
    BY <1>2, <2>1
  <2>7. Len(bufp') <= LineLen /\ \A i \in 1..Len(bufp') : bufp'[i] = buf'[i]
    BY <2>1, <2>2
  <2>8. base = (typed' - 1) * LineLen /\ total = typed' * LineLen
    BY <2>1 DEF base, total
  <2> QED BY <2>1, <2>4, <2>5, <2>6, <2>7, <2>8 DEF Typing
<1>5. CASE Written
  <2>1. /\ pc = "write" /\ bufp = buf /\ pc' = "readline" /\ UNCHANGED <<received, peer, typed>>
    BY <1>5 DEF Written, serverVars, history
  <2> HIDE DEF base, total
  <2>2. peer' = "up" => Len(received') = total
    BY <1>0, <1>1, <1>2, <2>1
  <2>3. total = typed' * LineLen
    BY <2>1 DEF total
  <2>4. total - 0 = total
    BY <1>1
  <2> QED BY <1>2, <2>1, <2>2, <2>3, <2>4 DEF Typing
<1>6. CASE FgetsNull \/ OpenClientfd \/ ReadEof \/ ReadError \/ ReadByte \/ Fputs \/ WriteError
  <2>1. /\ UNCHANGED <<received, peer, typed>> /\ pc' \notin {"open", "write"}
        /\ pc # "write" \/ peer # "up"
    BY <1>6 DEF FgetsNull, OpenClientfd, ReadEof, ReadError, ReadByte, Fputs, WriteError, Refills,
       serverVars, history
  <2> HIDE DEF total
  <2>2. peer' = "up" => Len(received') = total - 0
    BY <1>2, <2>1
  <2>3. total = typed' * LineLen
    BY <2>1 DEF total
  <2> QED BY <1>2, <2>1, <2>2, <2>3 DEF Typing
<1>7. CASE UNCHANGED <<received, pc, typed, buf, bufp>> /\ (peer' = "up" => peer = "up")
  BY <1>0, <1>7 DEF Typing
<1>8. CASE \/ \E len \in 1..MaxReplyLine : Answer(len)
           \/ \E how \in {"fin", "reset"}, len \in 0..MaxReplyLine - 1 : End(how, len)
           \/ WriteInterrupted \/ (\E k \in 1..RIO_BUFSIZE : Read(k)) \/ ReadInterrupted
           \/ UNCHANGED vars
  <2>1. UNCHANGED <<received, pc, typed, buf, bufp>> /\ (peer' = "up" => peer = "up")
    BY <1>8 DEF Answer, End, WriteInterrupted, Read, ReadInterrupted, vars, serverVars, history
  <2> QED BY <1>7, <2>1
<1> QED BY <1>3, <1>4, <1>5, <1>6, <1>8, Steps

\* What one turn of rio_readlineb does: it appends the next byte.
LEMMA ByteEffects ==
  ASSUME IInv, [Next]_vars, ReadByte
  PROVE  /\ pc = "readline" /\ bufp' \in Seq(Int) /\ Len(bufp') = Len(bufp) + 1
         /\ \A j \in 1..Len(bufp) : bufp'[j] = bufp[j]
         /\ bufp'[Len(bufp) + 1] = Consumed + 1
         /\ \A j \in 1..Len(bufp) + 1 : bufp'[j] = Len(stream) + j
         /\ Len(stream) + Len(bufp) = Consumed /\ Consumed' = Consumed + 1
         /\ \/ /\ Consumed + 1 \in newlines \/ Len(bufp) + 1 = maxlen - 1
               /\ pc' = "fputs" /\ buf' = bufp'
            \/ /\ Consumed + 1 \notin newlines /\ Len(bufp) + 1 < maxlen - 1
               /\ pc' = "readline" /\ buf' = buf
         /\ UNCHANGED <<serverVars, stream, shown, typed, taken>>
<1> DEFINE c == rio_buf[rio_bufptr]
<1>0. /\ bufp \in Seq(Int) /\ Len(bufp) \in Nat /\ Len(stream) \in Nat /\ maxlen \in Nat
      /\ Consumed \in Nat /\ Consumed' = Consumed + 1 /\ c = Consumed + 1
  <2>1. Consumed \in Nat /\ Consumed' = Consumed + 1 /\ c = Consumed + 1
    BY Consuming
  <2>2. bufp \in Seq(Int) /\ stream \in Seq(Int) /\ maxlen \in Nat
    BY Constants DEF IInv, TypeOK
  <2> HIDE DEF c
  <2> QED BY <2>1, <2>2
<1>1. /\ pc = "readline" /\ bufp' = Append(bufp, c)
      /\ \/ c \in newlines \/ Len(Append(bufp, c)) = maxlen - 1
         \/ c \notin newlines /\ Len(Append(bufp, c)) # maxlen - 1
      /\ c \in newlines \/ Len(Append(bufp, c)) = maxlen - 1
           => pc' = "fputs" /\ buf' = Append(bufp, c)
      /\ c \notin newlines /\ Len(Append(bufp, c)) # maxlen - 1
           => pc' = pc /\ buf' = buf
  BY DEF ReadByte
<1>2. UNCHANGED <<serverVars, stream, shown, typed, taken>>
  BY DEF ReadByte, history
<1>3. /\ Len(stream) + Len(bufp) = Consumed /\ Len(bufp) < maxlen - 1
      /\ \A j \in 1..Len(bufp) : bufp[j] = Len(stream) + j
  BY <1>1 DEF IInv, Line, InLine
<1> HIDE DEF c
<1>4. /\ Append(bufp, c) \in Seq(Int) /\ Len(Append(bufp, c)) = Len(bufp) + 1
      /\ \A j \in 1..Len(bufp) : Append(bufp, c)[j] = bufp[j]
      /\ Append(bufp, c)[Len(bufp) + 1] = c
  BY <1>0
<1>5. \A j \in 1..Len(bufp) + 1 : Append(bufp, c)[j] = Len(stream) + j
  <2>1. \A j \in 1..Len(bufp) + 1 : j \in 1..Len(bufp) \/ j = Len(bufp) + 1
    BY <1>0
  <2>2. c = Len(stream) + (Len(bufp) + 1)
    BY <1>0, <1>3
  <2>3. \A j \in 1..Len(bufp) : Append(bufp, c)[j] = Len(stream) + j
    BY <1>3, <1>4
  <2>4. Append(bufp, c)[Len(bufp) + 1] = Len(stream) + (Len(bufp) + 1)
    BY <1>4, <2>2
  <2> QED BY <2>1, <2>3, <2>4
<1>6. \/ /\ Consumed + 1 \in newlines \/ Len(bufp) + 1 = maxlen - 1
         /\ pc' = "fputs" /\ buf' = bufp'
      \/ /\ Consumed + 1 \notin newlines /\ Len(bufp) + 1 < maxlen - 1
         /\ pc' = "readline" /\ buf' = buf
  <2>1. Len(bufp) + 1 # maxlen - 1 => Len(bufp) + 1 < maxlen - 1
    BY <1>0, <1>3
  <2> QED BY <1>0, <1>1, <1>4, <2>1
<1> QED BY <1>0, <1>1, <1>2, <1>3, <1>4, <1>5, <1>6

\* What the end of the stream does: what was read is the line, or the line of
\* the user stays.
LEMMA EofEffects ==
  ASSUME IInv, ReadEof
  PROVE  /\ pc = "readline" /\ pc' = "fputs" /\ peer = "fin" /\ taken = sent
         /\ rio_cnt <= 0 /\ rio_cnt' = 0
         /\ \/ bufp = <<>> /\ buf' = buf /\ ~IsBytes(buf) /\ buf # <<>>
            \/ bufp # <<>> /\ buf' = bufp /\ IsBytes(bufp)
         /\ UNCHANGED <<serverVars, stream, shown, typed, taken>>
<1>1. /\ pc = "readline" /\ pc' = "fputs" /\ peer = "fin" /\ taken = sent
      /\ rio_cnt <= 0 /\ rio_cnt' = 0
      /\ UNCHANGED <<serverVars, stream, shown, typed, taken>>
  BY DEF ReadEof, Refills, history
<1>2. (bufp = <<>> /\ buf' = buf) \/ (bufp # <<>> /\ buf' = bufp)
  <2>1. buf' = IF bufp = <<>> THEN buf ELSE bufp
    BY Zenon DEF ReadEof
  <2> QED BY <2>1, Zenon
<1>3. buf # <<>> /\ ~IsBytes(buf)
  <2>1. buf # <<>> /\ buf[1] < 0 /\ buf \in Seq(Int)
    BY <1>1 DEF IInv, Line, TypeOK
  <2>2. buf[1] \in Int
    BY <2>1
  <2> QED BY <2>1, <2>2 DEF IsBytes
<1>4. bufp # <<>> => IsBytes(bufp)
  <2>1. /\ bufp \in Seq(Int) /\ Len(stream) \in Nat
        /\ \A j \in 1..Len(bufp) : bufp[j] = Len(stream) + j
    BY <1>1 DEF IInv, Line, InLine, TypeOK
  <2>2. bufp # <<>> => 1 \in 1..Len(bufp)
    BY <2>1
  <2> QED BY <2>1, <2>2 DEF IsBytes
<1> QED BY <1>1, <1>2, <1>3, <1>4

\* A newline that is sent later is none of the bytes that were taken.
LEMMA NewlinesStay ==
  ASSUME IInv, [Next]_vars
  PROVE  /\ newlines \subseteq newlines' /\ sent <= sent' /\ sent' \in Nat
         /\ \A b \in Int : b <= sent => (b \in newlines <=> b \in newlines')
         /\ peer # "up" => sent' = sent /\ peer' # "up"
<1>0. sent \in Nat
  BY DEF IInv, TypeOK
<1>1. ASSUME NEW len \in 1..MaxReplyLine, Answer(len)
      PROVE  /\ sent' = sent + len /\ newlines' = newlines \cup {sent + len} /\ peer = "up"
             /\ len \in Nat \ {0}
  BY <1>1, Constants DEF Answer
<1>2. ASSUME NEW how \in {"fin", "reset"}, NEW len \in 0..MaxReplyLine - 1, End(how, len)
      PROVE  sent' = sent + len /\ newlines' = newlines /\ peer = "up" /\ len \in Nat
  BY <1>2, Constants DEF End
<1>3. CASE \E len \in 1..MaxReplyLine : Answer(len)
  BY <1>0, <1>1, <1>3
<1>4. CASE \E how \in {"fin", "reset"}, len \in 0..MaxReplyLine - 1 : End(how, len)
  BY <1>0, <1>2, <1>4
<1>5. ASSUME NEW k \in 1..LineLen, Write(k)
      PROVE  UNCHANGED <<sent, newlines>> /\ (peer # "up" => peer' # "up")
  BY <1>5 DEF Write
<1>6. CASE UNCHANGED <<sent, newlines>> /\ (peer # "up" => peer' # "up")
  BY <1>0, <1>6
<1>7. CASE \/ Fgets \/ FgetsNull \/ OpenClientfd \/ Written \/ WriteError \/ WriteInterrupted
           \/ ReadByte \/ Fputs \/ UNCHANGED vars \/ Reading
  <2>1. UNCHANGED serverVars
    <3> HIDE DEF serverVars
    <3> QED BY <1>7, Zenon DEF Fgets, FgetsNull, OpenClientfd, Written, WriteError, WriteInterrupted,
       Read, ReadInterrupted, ReadEof, ReadError, ReadByte, Fputs, vars, Reading
  <2> QED BY <1>6, <2>1 DEF serverVars
<1> QED BY <1>3, <1>4, <1>5, <1>6, <1>7, ReadingOrNot DEF NotReading

\* No byte is lost between rio_buf, the line and what was printed.
LEMMA NextLine == ASSUME IInv, [Next]_vars PROVE Line'
<1>0. /\ Line /\ stream \in Seq(Int) /\ buf \in Seq(Int) /\ bufp \in Seq(Int)
      /\ Len(stream) \in Nat /\ Len(bufp) \in Nat /\ Len(buf) \in Nat
      /\ maxlen \in Nat /\ maxlen > 1 /\ sent \in Nat /\ taken \in Nat /\ taken <= sent
  BY Constants DEF IInv, TypeOK, Socket
<1>1. CASE ReadByte
  <2>0. /\ pc = "readline" /\ Len(bufp') = Len(bufp) + 1
        /\ \A j \in 1..Len(bufp) : bufp'[j] = bufp[j]
        /\ bufp'[Len(bufp) + 1] = Consumed + 1
        /\ \A j \in 1..Len(bufp) + 1 : bufp'[j] = Len(stream) + j
        /\ Len(stream) + Len(bufp) = Consumed /\ Consumed' = Consumed + 1
        /\ \/ pc' = "fputs" /\ buf' = bufp'
           \/ /\ Consumed + 1 \notin newlines /\ Len(bufp) + 1 < maxlen - 1
              /\ pc' = "readline" /\ buf' = buf
        /\ stream' = stream /\ newlines' = newlines
    BY <1>1, ByteEffects DEF serverVars
  <2>1. \A i \in 1..Len(stream') : stream'[i] = i
    BY <1>0, <2>0 DEF Line
  <2>3. bufp'[1] > 0
    <3>1. 1 \in 1..Len(bufp) + 1
      BY <1>0
    <3>2. bufp'[1] = Len(stream) + 1
      BY <2>0, <3>1
    <3> QED BY <1>0, <3>2
  <2>4. InLine' = bufp' /\ pc' # "exited"
    BY <2>0, <2>3 DEF InLine, IsBytes
  <2>5. Len(stream') + Len(bufp') = Consumed' /\ \A j \in 1..Len(bufp') : bufp'[j] = Len(stream') + j
    BY <1>0, <2>0
  <2>6. ASSUME pc' = "readline"
        PROVE  /\ Len(bufp') < maxlen - 1
               /\ \A j \in 1..Len(bufp') : bufp'[j] \notin newlines'
               /\ buf' # <<>> /\ buf'[1] < 0
    <3>1. Consumed + 1 \notin newlines /\ Len(bufp) + 1 < maxlen - 1 /\ buf' = buf
      BY <2>0, <2>6
    <3>2. /\ \A j \in 1..Len(bufp) : bufp[j] \notin newlines
          /\ buf # <<>> /\ buf[1] < 0
      BY <1>0, <2>0 DEF Line
    <3>3. \A j \in 1..Len(bufp) + 1 : j \in 1..Len(bufp) \/ j = Len(bufp) + 1
      BY <1>0
    <3>4. \A j \in 1..Len(bufp) + 1 : bufp'[j] \notin newlines
      BY <2>0, <3>1, <3>2, <3>3
    <3> QED BY <2>0, <3>1, <3>2, <3>4
  <2> QED BY <2>1, <2>4, <2>5, <2>6 DEF Line
<1>2. ASSUME ~ReadByte PROVE Consumed' = Consumed
  BY <1>2, Consuming
<1>3. CASE ReadEof
  <2>1. /\ stream' = stream /\ pc = "readline" /\ pc' = "fputs" /\ Consumed' = Consumed
    BY <1>2, <1>3, EofEffects DEF ReadEof, ReadByte, Refills
  <2>2. InLine = bufp
    BY <1>3, EofEffects DEF InLine
  <2>3. InLine' = bufp
    <3>1. ASSUME bufp = <<>>, buf' = buf, ~IsBytes(buf) PROVE InLine' = bufp
      BY <2>1, <3>1 DEF InLine, IsBytes
    <3>2. ASSUME buf' = bufp, IsBytes(bufp) PROVE InLine' = bufp
      BY <2>1, <3>2 DEF InLine, IsBytes
    <3> QED BY <1>3, <3>1, <3>2, EofEffects
  <2> HIDE DEF InLine
  <2>4. /\ Len(stream) + Len(InLine') = Consumed
        /\ \A j \in 1..Len(InLine') : InLine'[j] = Len(stream) + j
    BY <1>0, <2>1, <2>2, <2>3 DEF Line
  <2> QED BY <1>0, <2>1, <2>4 DEF Line
<1>4. CASE Fputs
  <2>1. /\ pc = "fputs" /\ pc' = "fgets" /\ Consumed' = Consumed /\ InLine' = <<>>
        /\ stream' = IF IsBytes(buf) THEN stream \o buf ELSE stream
    BY <1>2, <1>4 DEF Fputs, ReadByte, InLine
  <2>2. CASE IsBytes(buf)
    <3>1. InLine = buf /\ Len(stream) + Len(buf) = Consumed /\ \A j \in 1..Len(buf) : buf[j] = Len(stream) + j
      BY <1>0, <2>1, <2>2 DEF InLine, Line
    <3>2. /\ stream' = stream \o buf /\ Len(stream') = Len(stream) + Len(buf)
          /\ \A i \in 1..Len(stream) : stream'[i] = stream[i]
          /\ \A i \in 1..Len(buf) : stream'[Len(stream) + i] = buf[i]
      BY <1>0, <2>1, <2>2, Joined
    <3>3. ASSUME NEW i \in 1..Len(stream) + Len(buf) PROVE stream'[i] = i
      <4>1. CASE i \in 1..Len(stream)
        BY <1>0, <3>2, <4>1 DEF Line
      <4>2. CASE i \notin 1..Len(stream)
        <5>1. i - Len(stream) \in 1..Len(buf) /\ Len(stream) + (i - Len(stream)) = i
          BY <1>0, <4>2
        <5>2. stream'[Len(stream) + (i - Len(stream))] = Len(stream) + (i - Len(stream))
          BY <3>1, <3>2, <5>1
        <5> QED BY <5>1, <5>2
      <4> QED BY <4>1, <4>2
    <3>4. Len(InLine') = 0 /\ Len(stream') + 0 = Consumed'
      BY <1>0, <2>1, <3>1, <3>2
    <3>5. \A j \in 1..Len(InLine') : FALSE
      BY <3>4
    <3> QED BY <2>1, <3>2, <3>3, <3>4, <3>5 DEF Line
  <2>3. CASE ~IsBytes(buf)
    <3>1. InLine = <<>> /\ InLine' = <<>> /\ stream' = stream
      BY <2>1, <2>3 DEF InLine
    <3> QED BY <1>0, <2>1, <3>1 DEF Line
  <2> QED BY <2>2, <2>3
<1>5. CASE Written
  <2>1. /\ pc = "write" /\ pc' = "readline" /\ bufp' = <<>> /\ stream' = stream /\ buf' = buf
        /\ Consumed' = Consumed
    BY <1>2, <1>5 DEF Written, ReadByte, history
  <2>2. InLine = <<>> /\ InLine' = <<>>
    BY <2>1 DEF InLine
  <2>3. Len(bufp') < maxlen - 1 /\ \A j \in 1..Len(bufp') : FALSE
    <3>1. Len(bufp') = 0
      BY <2>1
    <3> QED BY <1>0, <3>1
  <2>4. buf # <<>> /\ buf[1] < 0
    <3> DEFINE base == (typed - 1) * LineLen
    <3>1. typed - 1 \in Nat /\ LineLen \in Nat \ {0}
      BY <2>1, Constants DEF IInv, Typing, TypeOK
    <3>2. base \in Nat
      BY <3>1, SMT
    <3>3. Len(buf) = LineLen /\ \A i \in 1..LineLen : buf[i] = -(base + i)
      BY <2>1 DEF IInv, Typing
    <3> HIDE DEF base
    <3>4. buf[1] = -(base + 1)
      BY <3>1, <3>3
    <3> QED BY <1>0, <3>1, <3>2, <3>3, <3>4
  <2> QED BY <1>0, <2>1, <2>2, <2>3, <2>4 DEF Line
<1>6. CASE \/ Fgets \/ FgetsNull \/ OpenClientfd \/ (\E k \in 1..LineLen : Write(k))
           \/ WriteError \/ ReadError
  <2>1. /\ stream' = stream /\ pc' # "readline" /\ pc' # "fputs"
        /\ pc' = "exited" \/ (pc # "readline" /\ pc # "fputs" /\ pc # "exited")
        /\ ~ReadByte
    BY <1>6 DEF Fgets, FgetsNull, OpenClientfd, Write, WriteError, ReadError, Refills, ReadByte, history
  <2>2. InLine' = <<>> /\ (pc' # "exited" => InLine = <<>>)
    BY <2>1 DEF InLine
  <2> QED BY <1>0, <1>2, <2>1, <2>2 DEF Line
<1>7. ASSUME UNCHANGED <<stream, pc, buf, bufp>>, ~ReadByte PROVE Line'
  <2>1. InLine' = InLine
    BY <1>7 DEF InLine
  <2>2. pc = "readline" => \A j \in 1..Len(bufp) : bufp[j] \notin newlines'
    <3> SUFFICES ASSUME pc = "readline", NEW j \in 1..Len(bufp) PROVE bufp[j] \notin newlines'
      OBVIOUS
    <3>1. Len(stream) + Len(bufp) = Consumed /\ bufp[j] = Len(stream) + j /\ bufp[j] \notin newlines
      BY <1>0 DEF Line, InLine
    <3>2. bufp[j] \in Int /\ bufp[j] <= sent
      BY <1>0, <3>1, Consuming
    <3> QED BY <3>1, <3>2, NewlinesStay
  <2> QED BY <1>0, <1>2, <1>7, <2>1, <2>2 DEF Line
<1>8. CASE \/ \E len \in 1..MaxReplyLine : Answer(len)
           \/ \E how \in {"fin", "reset"}, len \in 0..MaxReplyLine - 1 : End(how, len)
           \/ WriteInterrupted \/ (\E k \in 1..RIO_BUFSIZE : Read(k)) \/ ReadInterrupted
           \/ UNCHANGED vars
  <2>1. UNCHANGED <<stream, pc, buf, bufp>>
    BY <1>8, Zenon DEF Answer, End, WriteInterrupted, Read, ReadInterrupted, vars, history
  <2> QED BY <1>1, <1>7, <2>1
<1> QED BY <1>1, <1>3, <1>4, <1>5, <1>6, <1>8, Steps

\* What was taken stays taken.
LEMMA TakenGrows ==
  ASSUME IInv, [Next]_vars
  PROVE  taken <= taken' /\ taken \in Nat /\ taken' \in Nat /\ taken' <= sent'
<1>0. taken \in Nat /\ taken' \in Nat /\ taken' <= sent'
  BY NextTypeOK, NextSocket DEF IInv, TypeOK, Socket
<1>1. ASSUME NEW k \in 1..RIO_BUFSIZE, Read(k) PROVE taken <= taken'
  BY <1>0, <1>1, Constants DEF Read
<1>2. ASSUME ~Reading PROVE taken' = taken
  <2>1. ReadByte \/ NotReading
    BY <1>2, ReadingOrNot
  <2>2. CASE ReadByte
    BY <2>2 DEF ReadByte
  <2>3. CASE NotReading
    <3>1. UNCHANGED rioVars
      <4> HIDE DEF rioVars
      <4> QED BY <2>3, Zenon DEF NotReading, Answer, End, Fgets, FgetsNull, OpenClientfd, Write, Written,
           WriteError, WriteInterrupted, Fputs, vars
    <3> QED BY <3>1 DEF rioVars
  <2> QED BY <2>1, <2>2, <2>3
<1>3. ASSUME ReadInterrupted \/ ReadEof \/ ReadError PROVE taken' = taken
  BY <1>3 DEF ReadInterrupted, ReadEof, ReadError
<1> QED BY <1>0, <1>1, <1>2, <1>3 DEF Reading

\* A line that was complete stays so.
LEMMA WholeStays ==
  ASSUME IInv, [Next]_vars, NEW line \in Seq(Int), Whole(line, sent, newlines, peer, taken)
  PROVE  Whole(line, sent', newlines', peer', taken')
<1>0. /\ sent \in Nat /\ sent <= sent' /\ sent' \in Nat
      /\ \A b \in Int : b <= sent => (b \in newlines <=> b \in newlines')
      /\ peer # "up" => sent' = sent /\ peer' # "up"
      /\ taken <= taken' /\ taken \in Nat /\ taken' \in Nat /\ taken' <= sent'
  BY NewlinesStay, TakenGrows DEF IInv, TypeOK
<1>1. line # <<>> /\ Len(line) \in Nat /\ \A j \in 1..Len(line) : line[j] \in Int
  BY DEF Whole
<1>2. Len(line) \in 1..Len(line)
  BY <1>1
<1> SUFFICES ASSUME IsBytes(line)
             PROVE  /\ \A j \in 1..Len(line) : line[j] <= sent'
                    /\ \A j \in 1..Len(line) - 1 : line[j] \notin newlines'
                    /\ \/ line[Len(line)] \in newlines'
                       \/ Len(line) = maxlen - 1
                       \/ peer' # "up" /\ line[Len(line)] = taken' /\ taken' = sent'
  BY <1>1 DEF Whole
<1>3. /\ \A j \in 1..Len(line) : line[j] <= sent
      /\ \A j \in 1..Len(line) - 1 : line[j] \notin newlines
      /\ \/ line[Len(line)] \in newlines
         \/ Len(line) = maxlen - 1
         \/ peer # "up" /\ line[Len(line)] = taken /\ taken = sent
  BY DEF Whole
<1>4. \A j \in 1..Len(line) : line[j] <= sent'
  <2>1. ASSUME NEW j \in 1..Len(line) PROVE line[j] <= sent'
    <3>1. line[j] \in Int /\ line[j] <= sent
      BY <1>1, <1>3
    <3> QED BY <1>0, <3>1
  <2> QED BY <2>1
<1>5. \A j \in 1..Len(line) - 1 : line[j] \notin newlines'
  <2>1. ASSUME NEW j \in 1..Len(line) - 1 PROVE line[j] \notin newlines'
    <3>1. j \in 1..Len(line)
      BY <1>1
    <3>2. line[j] \in Int /\ line[j] <= sent /\ line[j] \notin newlines
      BY <1>1, <1>3, <3>1
    <3> QED BY <1>0, <3>2
  <2> QED BY <2>1
<1>6. line[Len(line)] \in newlines => line[Len(line)] \in newlines'
  BY <1>0, <1>1, <1>2, <1>3
<1>7. peer # "up" /\ taken = sent => peer' # "up" /\ taken' = taken /\ taken' = sent'
  BY <1>0
<1> QED BY <1>3, <1>4, <1>5, <1>6, <1>7

\* Only Fputs prints, and only rio_readlineb leads to it.
LEMMA Quiet ==
  ASSUME [Next]_vars, ~Fputs, ~ReadByte, ~ReadEof
  PROVE  /\ shown' = shown /\ stream' = stream
         /\ pc' = "fputs" => pc = "fputs" /\ buf' = buf
         /\ pc' = "readline" /\ bufp' # <<>> => pc = "readline" /\ bufp' = bufp
<1>1. CASE \/ \E len \in 1..MaxReplyLine : Answer(len)
           \/ \E how \in {"fin", "reset"}, len \in 0..MaxReplyLine - 1 : End(how, len)
           \/ \E k \in 1..RIO_BUFSIZE : Read(k)
           \/ WriteInterrupted \/ ReadInterrupted \/ UNCHANGED vars
  BY <1>1 DEF Answer, End, Read, WriteInterrupted, ReadInterrupted, vars, history
<1>2. CASE FgetsNull \/ OpenClientfd \/ WriteError \/ ReadError \/ Fgets
  BY <1>2 DEF FgetsNull, OpenClientfd, WriteError, ReadError, Fgets, history
<1>3. CASE Written \/ \E k \in 1..LineLen : Write(k)
  BY <1>3 DEF Written, Write, history
<1> QED BY <1>1, <1>2, <1>3, Steps

\* What fputs prints is complete, and so is a line whose reading ends.
LEMMA NextPrinted == ASSUME IInv, [Next]_vars PROVE Printed'
<1>0. /\ shown \in Seq(Seq(Int)) /\ buf \in Seq(Int) /\ bufp \in Seq(Int)
      /\ Len(shown) \in Nat /\ Len(bufp) \in Nat /\ Len(stream) \in Nat
      /\ taken \in Nat /\ sent \in Nat /\ taken <= sent /\ Consumed <= taken /\ Consumed \in Nat
      /\ rio_cnt \in Int /\ maxlen \in Nat
  <2>1. Consumed <= taken /\ Consumed \in Nat
    BY Consuming
  <2>2. /\ shown \in Seq(Seq(Int)) /\ buf \in Seq(Int) /\ bufp \in Seq(Int)
        /\ stream \in Seq(Int) /\ taken \in Nat /\ sent \in Nat /\ rio_cnt \in Int
    BY DEF IInv, TypeOK
  <2>3. taken <= sent /\ maxlen \in Nat
    BY Constants DEF IInv, Socket
  <2> QED BY <2>1, <2>2, <2>3
<1>1. \A i \in 1..Len(shown) : shown[i] \in Seq(Int) /\ Whole(shown[i], sent, newlines, peer, taken)
  BY <1>0 DEF IInv, Printed
<1>2. \A i \in 1..Len(shown) : Whole(shown[i], sent', newlines', peer', taken')
  BY <1>1, WholeStays
<1>3. pc = "fputs" => Whole(buf, sent', newlines', peer', taken')
  BY <1>0, WholeStays DEF IInv, Printed
<1>4. CASE Fputs
  <2>1. pc = "fputs" /\ shown' = Append(shown, buf) /\ pc' = "fgets"
    BY <1>4 DEF Fputs
  <2>2. /\ Len(shown') = Len(shown) + 1 /\ shown'[Len(shown) + 1] = buf
        /\ \A i \in 1..Len(shown) : shown'[i] = shown[i]
    BY <1>0, <2>1
  <2>3. \A i \in 1..Len(shown) + 1 : i \in 1..Len(shown) \/ i = Len(shown) + 1
    BY <1>0
  <2>4. \A i \in 1..Len(shown) + 1 : Whole(shown'[i], sent', newlines', peer', taken')
    BY <1>2, <1>3, <2>1, <2>2, <2>3
  <2> QED BY <2>1, <2>2, <2>4 DEF Printed
<1>5. CASE ReadByte
  <2>1. shown' = shown
    BY <1>5, ByteEffects
  <2>2. ASSUME pc' = "fputs" PROVE Whole(buf', sent', newlines', peer', taken')
    <3>0. /\ Len(bufp') = Len(bufp) + 1 /\ bufp' \in Seq(Int)
          /\ \A j \in 1..Len(bufp) : bufp'[j] = bufp[j]
          /\ bufp'[Len(bufp) + 1] = Consumed + 1
          /\ \A j \in 1..Len(bufp) + 1 : bufp'[j] = Len(stream) + j
          /\ Len(stream) + Len(bufp) = Consumed
          /\ Consumed + 1 \in newlines \/ Len(bufp) + 1 = maxlen - 1
          /\ buf' = bufp' /\ pc = "readline"
          /\ sent' = sent /\ newlines' = newlines
      BY <1>5, <2>2, ByteEffects DEF serverVars
    <3>1. Consumed + 1 <= taken
      BY <1>0, <1>5 DEF ReadByte, Consumed, IInv, Unread
    <3>2. \A j \in 1..Len(bufp) : bufp[j] \notin newlines
      BY <3>0 DEF IInv, Line
    <3>3. \A j \in 1..Len(buf') : buf'[j] <= sent'
      <4>1. \A j \in 1..Len(buf') : j \in 1..Len(bufp) + 1 /\ buf'[j] = Len(stream) + j
        BY <3>0
      <4>2. /\ Len(bufp) \in Nat /\ Len(stream) \in Nat /\ taken \in Nat /\ sent \in Nat
            /\ Len(stream) + Len(bufp) + 1 <= taken /\ taken <= sent
        BY <1>0, <3>0, <3>1
      <4>3. \A j \in 1..Len(bufp) + 1 : Len(stream) + j <= sent
        BY <4>2
      <4> QED BY <3>0, <4>1, <4>3
    <3>4. \A j \in 1..Len(buf') - 1 : buf'[j] \notin newlines'
      <4>1. Len(buf') - 1 = Len(bufp)
        BY <1>0, <3>0
      <4>2. \A j \in 1..Len(bufp) : buf'[j] = bufp[j]
        BY <3>0
      <4> QED BY <3>0, <3>2, <4>1, <4>2
    <3>5. buf'[Len(buf')] \in newlines' \/ Len(buf') = maxlen - 1
      BY <3>0
    <3>6. buf' # <<>>
      BY <1>0, <3>0
    <3> QED BY <3>3, <3>4, <3>5, <3>6 DEF Whole
  <2> QED BY <1>2, <2>1, <2>2 DEF Printed
<1>6. CASE ReadEof
  <2>1. /\ shown' = shown /\ sent' = sent /\ newlines' = newlines /\ peer' # "up"
        /\ taken' = taken /\ taken = sent /\ rio_cnt <= 0 /\ pc = "readline"
    BY <1>6, EofEffects DEF serverVars
  <2>2. ASSUME bufp = <<>>, buf' = buf, ~IsBytes(buf), buf # <<>>
        PROVE  Whole(buf', sent', newlines', peer', taken')
    BY <2>2 DEF Whole, IsBytes
  <2>3. ASSUME bufp # <<>>, buf' = bufp, IsBytes(bufp)
        PROVE  Whole(buf', sent', newlines', peer', taken')
    <3>1. /\ Len(stream) + Len(bufp) = Consumed
          /\ \A j \in 1..Len(bufp) : bufp[j] = Len(stream) + j /\ bufp[j] \notin newlines
      BY <2>1 DEF IInv, Line, InLine
    <3>2. Consumed = taken /\ Len(bufp) > 0
      BY <1>0, <2>1, <2>3 DEF Consumed
    <3>3. \A j \in 1..Len(buf') : buf'[j] <= sent'
      BY <1>0, <2>1, <2>3, <3>1, <3>2
    <3>4. \A j \in 1..Len(buf') - 1 : buf'[j] \notin newlines'
      BY <1>0, <2>1, <2>3, <3>1
    <3>5. buf'[Len(buf')] = taken' /\ taken' = sent'
      BY <1>0, <2>1, <2>3, <3>1, <3>2
    <3> QED BY <2>1, <2>3, <3>3, <3>4, <3>5 DEF Whole
  <2>4. Whole(buf', sent', newlines', peer', taken')
    BY <1>6, <2>2, <2>3, EofEffects
  <2> QED BY <1>2, <2>1, <2>4 DEF Printed
<1>7. ASSUME ~Fputs, ~ReadByte, ~ReadEof
      PROVE  shown' = shown /\ (pc' = "fputs" => pc = "fputs" /\ buf' = buf)
  BY <1>7, Quiet
<1>8. CASE ~Fputs /\ ~ReadByte /\ ~ReadEof
  BY <1>2, <1>3, <1>7, <1>8 DEF Printed
<1> QED BY <1>4, <1>5, <1>6, <1>8

\* Once a line of the user was printed nothing is left to read.
LEMMA NextAtEnd == ASSUME IInv, [Next]_vars PROVE AtEnd'
<1>0. /\ AtEnd /\ shown \in Seq(Seq(Int)) /\ buf \in Seq(Int) /\ Len(shown) \in Nat
      /\ taken \in Nat /\ sent \in Nat /\ sent' \in Nat /\ rio_cnt \in Int
      /\ peer # "up" => sent' = sent /\ peer' # "up"
      /\ taken' \in Nat /\ taken <= taken' /\ taken' <= sent'
  BY NewlinesStay, TakenGrows DEF IInv, TypeOK
<1>1. ASSUME Ended
      PROVE  /\ peer' # "up" /\ taken' = sent' /\ rio_cnt' <= 0
             /\ pc' = "readline" => bufp' = <<>>
             /\ ~ReadByte
  <2>1. peer # "up" /\ taken = sent /\ rio_cnt <= 0 /\ (pc = "readline" => bufp = <<>>)
    BY <1>0, <1>1 DEF AtEnd
  <2>2. peer' # "up" /\ taken' = sent'
    BY <1>0, <2>1
  <2>3. ~ReadByte
    BY <1>0, <2>1 DEF ReadByte
  <2>4. ASSUME NEW k \in 1..RIO_BUFSIZE, Read(k) PROVE FALSE
    BY <1>0, <2>1, <2>4, Constants DEF Read
  <2>5. CASE ReadInterrupted \/ ReadEof \/ ReadError
    <3>1. (rio_cnt' = -1 \/ rio_cnt' = 0) /\ bufp' = bufp /\ pc = "readline"
      BY <2>5 DEF ReadInterrupted, ReadEof, ReadError, Refills
    <3> QED BY <2>1, <2>2, <2>3, <3>1
  <2>6. CASE NotReading
    <3>1. UNCHANGED rioVars
      <4> HIDE DEF rioVars
      <4> QED BY <2>6, Zenon DEF NotReading, Answer, End, Fgets, FgetsNull, OpenClientfd, Write, Written,
           WriteError, WriteInterrupted, Fputs, vars
    <3>2. pc' = "readline" => bufp' = <<>>
      <4>1. CASE Fputs
        BY <4>1 DEF Fputs
      <4>2. CASE ReadEof
        BY <4>2 DEF ReadEof
      <4>3. CASE ~Fputs /\ ~ReadEof
        BY <2>1, <2>3, <4>3, Quiet
      <4> QED BY <4>1, <4>2, <4>3
    <3> QED BY <2>1, <2>2, <2>3, <3>1, <3>2 DEF rioVars
  <2> QED BY <2>3, <2>4, <2>5, <2>6, ReadingOrNot DEF Reading
<1>2. ASSUME ~Fputs, ~ReadByte, ~ReadEof PROVE AtEnd'
  <2>1. shown' = shown /\ (pc' = "fputs" => pc = "fputs" /\ buf' = buf)
    BY <1>2, Quiet
  <2>2. Ended' => Ended
    BY <2>1 DEF Ended, IsBytes
  <2>3. pc' = "fputs" /\ IsBytes(buf') => \A i \in 1..Len(shown) : IsBytes(shown[i])
    BY <1>0, <2>1 DEF AtEnd, IsBytes
  <2>4. \A i, j \in 1..Len(shown) : i <= j /\ ~IsBytes(shown[i]) => ~IsBytes(shown[j])
    BY <1>0 DEF AtEnd
  <2> QED BY <1>1, <2>1, <2>2, <2>3, <2>4 DEF AtEnd, IsBytes
<1>3. CASE ReadByte
  <2>1. ~Ended
    BY <1>1, <1>3
  <2>2. shown' = shown /\ (pc' = "fputs" => buf' = bufp')
    BY <1>3, ByteEffects
  <2>3. IsBytes(bufp')
    <3>1. \A j \in 1..Len(bufp) + 1 : bufp'[j] = Len(stream) + j
      BY <1>3, ByteEffects
    <3>2. Len(bufp) \in Nat /\ Len(stream) \in Nat
      BY DEF IInv, TypeOK
    <3>3. 1 \in 1..Len(bufp) + 1
      BY <3>2
    <3> QED BY <3>1, <3>2, <3>3 DEF IsBytes
  <2>4. \A i \in 1..Len(shown) : IsBytes(shown[i])
    BY <2>1 DEF Ended
  <2>5. ~Ended'
    BY <2>2, <2>3, <2>4 DEF Ended, IsBytes
  <2> QED BY <2>2, <2>4, <2>5 DEF AtEnd, IsBytes
<1>4. CASE ReadEof
  <2>1. /\ pc = "readline" /\ pc' = "fputs" /\ peer' # "up" /\ taken' = sent' /\ rio_cnt' = 0
        /\ shown' = shown
        /\ \/ bufp = <<>> /\ buf' = buf /\ ~IsBytes(buf)
           \/ bufp # <<>> /\ buf' = bufp
    BY <1>4, EofEffects DEF serverVars
  <2>2. \A i, j \in 1..Len(shown) : i <= j /\ ~IsBytes(shown[i]) => ~IsBytes(shown[j])
    BY <1>0 DEF AtEnd
  <2>3. bufp # <<>> => \A i \in 1..Len(shown) : IsBytes(shown[i])
    BY <1>0, <2>1 DEF AtEnd, Ended
  <2>4. IsBytes(buf') => \A i \in 1..Len(shown) : IsBytes(shown[i])
    BY <2>1, <2>3 DEF IsBytes
  <2> QED BY <2>1, <2>2, <2>4 DEF AtEnd, IsBytes
<1>5. CASE Fputs
  <2>1. pc = "fputs" /\ pc' = "fgets" /\ shown' = Append(shown, buf)
    BY <1>5 DEF Fputs
  <2>2. /\ Len(shown') = Len(shown) + 1 /\ shown'[Len(shown) + 1] = buf
        /\ \A i \in 1..Len(shown) : shown'[i] = shown[i]
        /\ \A i \in 1..Len(shown') : i \in 1..Len(shown) \/ i = Len(shown) + 1
    BY <1>0, <2>1
  <2>3. Ended' => Ended
    <3> SUFFICES ASSUME Ended' PROVE Ended
      OBVIOUS
    <3>1. PICK i \in 1..Len(shown') : ~IsBytes(shown'[i])
      BY <2>1 DEF Ended, IsBytes
    <3> QED BY <2>1, <2>2, <3>1 DEF Ended, IsBytes
  <2>4. ASSUME NEW i \in 1..Len(shown'), NEW j \in 1..Len(shown'), i <= j, ~IsBytes(shown'[i])
        PROVE  ~IsBytes(shown'[j])
    <3>1. CASE i \in 1..Len(shown) /\ j \in 1..Len(shown)
      BY <1>0, <2>2, <2>4, <3>1 DEF AtEnd, IsBytes
    <3>2. CASE i \in 1..Len(shown) /\ j = Len(shown) + 1
      <4>1. ~IsBytes(shown[i])
        BY <2>2, <2>4, <3>2 DEF IsBytes
      <4>2. ~IsBytes(buf)
        BY <1>0, <2>1, <3>2, <4>1 DEF AtEnd
      <4> QED BY <2>2, <3>2, <4>2 DEF IsBytes
    <3>3. CASE i = Len(shown) + 1
      BY <1>0, <2>2, <2>4, <3>3
    <3> QED BY <2>2, <3>1, <3>2, <3>3
  <2>5. \A i, j \in 1..Len(shown') : i <= j /\ ~IsBytes(shown'[i]) => ~IsBytes(shown'[j])
    BY <2>4
  <2> QED BY <1>1, <2>1, <2>3, <2>5 DEF AtEnd, IsBytes
<1> QED BY <1>2, <1>3, <1>4, <1>5

\* How many lines are answered: printed, or being read.
Waiting == IF pc \in {"write", "readline", "fputs"} THEN 1 ELSE 0

\* One line is printed for each that was typed.
LEMMA NextTurn ==
  ASSUME IInv, [Next]_vars
  PROVE  pc' \notin {"closed", "exited"} => Len(shown') = typed' - Waiting'
<1>0. /\ shown \in Seq(Seq(Int)) /\ buf \in Seq(Int) /\ Len(shown) \in Nat /\ typed \in Nat
      /\ pc \notin {"closed", "exited"} => Len(shown) = typed - Waiting
  BY DEF IInv, TypeOK, InStep, Waiting
<1>1. CASE Fgets
  BY <1>0, <1>1 DEF Fgets, Waiting
<1>2. CASE Fputs
  <2>1. pc = "fputs" /\ pc' = "fgets" /\ typed' = typed /\ Len(shown') = Len(shown) + 1
    BY <1>0, <1>2 DEF Fputs
  <2> QED BY <1>0, <2>1 DEF Waiting
<1>3. ASSUME ~Fgets, ~Fputs
      PROVE  /\ UNCHANGED <<shown, typed>>
             /\ \/ pc' \in {"closed", "exited"}
                \/ pc' = pc
                \/ pc = "open" /\ pc' = "fgets"
                \/ {pc, pc'} \subseteq {"write", "readline", "fputs"}
  <2>1. CASE \/ \E len \in 1..MaxReplyLine : Answer(len)
             \/ \E how \in {"fin", "reset"}, len \in 0..MaxReplyLine - 1 : End(how, len)
             \/ \E k \in 1..RIO_BUFSIZE : Read(k)
             \/ \E k \in 1..LineLen : Write(k)
             \/ WriteInterrupted \/ ReadInterrupted \/ UNCHANGED vars
    <3>1. UNCHANGED <<shown, typed, pc>>
      <4>1. UNCHANGED <<history, pc>>
        <5> HIDE DEF history
        <5> QED BY <2>1, Zenon DEF Answer, End, Read, Write, WriteInterrupted, ReadInterrupted, vars
      <4> QED BY <4>1 DEF history
    <3> QED BY <3>1
  <2>2. CASE FgetsNull \/ OpenClientfd \/ WriteError \/ ReadError \/ ReadEof \/ Written \/ ReadByte
    <3>1. UNCHANGED <<shown, typed>>
      <4>1. UNCHANGED history
        <5> HIDE DEF history
        <5> QED BY <2>2, Zenon DEF FgetsNull, OpenClientfd, WriteError, ReadError, ReadEof, Written, ReadByte
      <4> QED BY <4>1 DEF history
    <3>2. CASE FgetsNull \/ OpenClientfd \/ WriteError \/ ReadError
      BY <3>1, <3>2 DEF FgetsNull, OpenClientfd, WriteError, ReadError
    <3>3. CASE ReadEof \/ Written \/ ReadByte
      BY <3>1, <3>3 DEF ReadEof, Refills, Written, ReadByte
    <3> QED BY <2>2, <3>2, <3>3
  <2> QED BY <1>3, <2>1, <2>2, Steps
<1>4. CASE ~Fgets /\ ~Fputs
  BY <1>0, <1>3, <1>4 DEF Waiting
<1> QED BY <1>1, <1>2, <1>4

\* What was printed is within what was taken.
LEMMA NextStreamTaken == ASSUME IInv, [Next]_vars PROVE Len(stream') <= taken'
<1>0. /\ Len(stream) <= taken /\ taken \in Nat /\ taken' \in Nat /\ taken <= taken'
      /\ stream \in Seq(Int) /\ buf \in Seq(Int) /\ Len(stream) \in Nat /\ Len(buf) \in Nat
      /\ Consumed \in Nat /\ Consumed <= taken
  <2>1. Len(stream) <= taken
    BY DEF IInv, InStep
  <2>2. taken' \in Nat /\ taken <= taken' /\ Consumed \in Nat /\ Consumed <= taken
    BY Consuming, TakenGrows
  <2>3. stream \in Seq(Int) /\ buf \in Seq(Int) /\ taken \in Nat
    BY DEF IInv, TypeOK
  <2> QED BY <2>1, <2>2, <2>3
<1>1. CASE Fputs /\ IsBytes(buf)
  <2>1. Len(stream) + Len(buf) = Consumed
    BY <1>1 DEF Fputs, IInv, Line, InLine
  <2>2. stream' = stream \o buf
    BY <1>1 DEF Fputs
  <2>3. Len(stream') = Len(stream) + Len(buf)
    BY <1>0, <2>2, Joined
  <2> QED BY <1>0, <2>1, <2>3
<1>2. ASSUME ~(Fputs /\ IsBytes(buf)) PROVE stream' = stream
  <2>1. CASE Fputs
    BY <1>2, <2>1 DEF Fputs
  <2>2. CASE ReadByte
    BY <2>2, ByteEffects
  <2>3. CASE ReadEof
    BY <2>3, EofEffects
  <2> QED BY <2>1, <2>2, <2>3, Quiet
<1> QED BY <1>0, <1>1, <1>2

\* Newlines that are sent later are not before a byte that was sent.
LEMMA BeforeStays ==
  ASSUME IInv, [Next]_vars, NEW b \in Int, b <= sent + 1
  PROVE  {l \in newlines' : l < b} = Before(b) /\ IsFiniteSet(Before(b))
<1>0. /\ sent \in Nat /\ newlines \subseteq 1..sent /\ IsFiniteSet(newlines)
      /\ newlines \subseteq newlines' /\ newlines' \subseteq 1..sent' /\ sent' \in Nat
      /\ \A l \in Int : l <= sent => (l \in newlines <=> l \in newlines')
  BY NewlinesStay, NextTypeOK DEF IInv, TypeOK, Socket
<1>1. ASSUME NEW l \in newlines', l < b PROVE l \in newlines
  <2>1. l \in Int /\ l <= sent
    BY <1>0, <1>1
  <2> QED BY <1>0, <1>1, <2>1
<1>2. {l \in newlines' : l < b} = Before(b)
  BY <1>0, <1>1 DEF Before
<1>3. Before(b) \in SUBSET newlines
  BY DEF Before
<1> QED BY <1>0, <1>2, <1>3, FS_Subset

\* Each line that is printed ends with the next newline.
LEMMA NextCounted ==
  ASSUME IInv, [Next]_vars, peer' = "up", \A i \in 1..Len(shown') : Len(shown'[i]) < maxlen - 1
  PROVE  /\ \A i \in 1..Len(shown') : Cardinality({l \in newlines' : l < shown'[i][1]}) = i - 1
         /\ Cardinality({l \in newlines' : l < Len(stream') + 1}) = Len(shown')
<1>0. /\ shown \in Seq(Seq(Int)) /\ buf \in Seq(Int) /\ stream \in Seq(Int)
      /\ Len(shown) \in Nat /\ Len(stream) \in Nat /\ Len(buf) \in Nat
      /\ sent \in Nat /\ taken \in Nat /\ taken <= sent /\ Len(stream) <= taken
      /\ maxlen \in Nat /\ sent' \in Nat /\ peer = "up"
      /\ newlines \subseteq 1..sent /\ newlines' \subseteq 1..sent'
  <2>1. Len(stream) <= taken
    BY DEF IInv, InStep
  <2>2. peer = "up" /\ sent' \in Nat
    BY NewlinesStay
  <2>3. newlines' \subseteq 1..sent'
    BY NextTypeOK DEF TypeOK
  <2> QED BY <2>1, <2>2, <2>3, Constants DEF IInv, TypeOK, Socket
<1>1. \A i \in 1..Len(shown) : shown[i] \in Seq(Int) /\ shown[i][1] \in Int /\ shown[i][1] <= sent
  <2> SUFFICES ASSUME NEW i \in 1..Len(shown)
               PROVE  shown[i] \in Seq(Int) /\ shown[i][1] \in Int /\ shown[i][1] <= sent
    OBVIOUS
  <2>1. shown[i] \in Seq(Int) /\ Whole(shown[i], sent, newlines, peer, taken)
    BY <1>0 DEF IInv, Printed
  <2>2. 1 \in 1..Len(shown[i]) /\ shown[i][1] \in Int
    BY <2>1 DEF Whole
  <2>3. CASE IsBytes(shown[i])
    BY <2>1, <2>2, <2>3 DEF Whole
  <2>4. CASE ~IsBytes(shown[i])
    BY <1>0, <2>2, <2>4 DEF IsBytes
  <2> QED BY <2>1, <2>2, <2>3, <2>4
<1>3. ASSUME \A i \in 1..Len(shown) : Len(shown[i]) < maxlen - 1
      PROVE  /\ \A i \in 1..Len(shown) : Cardinality({l \in newlines' : l < shown[i][1]}) = i - 1
             /\ Cardinality(Before(Len(stream) + 1)) = Len(shown)
             /\ {l \in newlines' : l < Len(stream) + 1} = Before(Len(stream) + 1)
             /\ IsFiniteSet(Before(Len(stream) + 1))
  <2>1. /\ \A i \in 1..Len(shown) : Cardinality(Before(shown[i][1])) = i - 1
        /\ Cardinality(Before(Len(stream) + 1)) = Len(shown)
    BY <1>0, <1>3 DEF IInv, InStep
  <2>2. ASSUME NEW i \in 1..Len(shown)
        PROVE  Cardinality({l \in newlines' : l < shown[i][1]}) = i - 1
    <3>1. shown[i][1] \in Int /\ shown[i][1] <= sent + 1
      BY <1>0, <1>1
    <3>2. {l \in newlines' : l < shown[i][1]} = Before(shown[i][1])
      BY <3>1, BeforeStays
    <3> QED BY <2>1, <3>2
  <2>3. Len(stream) + 1 \in Int /\ Len(stream) + 1 <= sent + 1
    BY <1>0
  <2> QED BY <2>1, <2>2, <2>3, BeforeStays
<1>4. CASE Fputs
  <2>0. pc = "fputs" /\ shown' = Append(shown, buf) /\ newlines' = newlines
    BY <1>4 DEF Fputs, serverVars
  <2>1. /\ Len(shown') = Len(shown) + 1 /\ shown'[Len(shown) + 1] = buf
        /\ \A i \in 1..Len(shown) : shown'[i] = shown[i]
        /\ \A i \in 1..Len(shown') : i \in 1..Len(shown) \/ i = Len(shown) + 1
    BY <1>0, <2>0
  <2>2. \A i \in 1..Len(shown) : Len(shown[i]) < maxlen - 1
    BY <1>0, <2>1
  <2>3. IsBytes(buf) /\ Whole(buf, sent, newlines, peer, taken)
    BY <1>0, <2>0 DEF IInv, AtEnd, Ended, Printed
  <2>4. Len(buf) < maxlen - 1
    <3>1. Len(shown) + 1 \in 1..Len(shown')
      BY <1>0, <2>1
    <3> QED BY <2>1, <3>1
  <2>5. /\ \A j \in 1..Len(buf) - 1 : buf[j] \notin newlines
        /\ buf[Len(buf)] \in newlines /\ Len(buf) > 0
    BY <1>0, <2>3, <2>4 DEF Whole
  <2>6. \A j \in 1..Len(buf) : buf[j] = Len(stream) + j
    BY <2>0, <2>3 DEF IInv, Line, InLine
  <2>7. stream' = stream \o buf /\ Len(stream') = Len(stream) + Len(buf)
    <3>1. stream' = stream \o buf
      BY <1>4, <2>3 DEF Fputs
    <3> QED BY <1>0, <3>1, Joined
  <2>8. {l \in newlines' : l < Len(stream') + 1}
          = Before(Len(stream) + 1) \cup {Len(stream) + Len(buf)}
    <3>1. Len(stream) + Len(buf) \in newlines
      <4>1. Len(buf) \in 1..Len(buf)
        BY <1>0, <2>5
      <4>2. buf[Len(buf)] = Len(stream) + Len(buf)
        BY <2>6, <4>1
      <4> QED BY <2>5, <4>2
    <3>2. ASSUME NEW l \in newlines, l < Len(stream) + Len(buf) + 1
          PROVE  l < Len(stream) + 1 \/ l = Len(stream) + Len(buf)
      <4>1. l \in Nat
        BY <1>0
      <4>2. ASSUME l > Len(stream), l < Len(stream) + Len(buf) PROVE FALSE
        <5>1. l - Len(stream) \in 1..Len(buf) - 1 /\ l - Len(stream) \in 1..Len(buf)
              /\ Len(stream) + (l - Len(stream)) = l
          BY <1>0, <4>1, <4>2
        <5>2. buf[l - Len(stream)] = l
          BY <2>6, <5>1
        <5> QED BY <2>5, <5>1, <5>2
      <4> QED BY <1>0, <3>2, <4>1, <4>2
    <3>3. \A l \in newlines : l \in Nat
      BY <1>0
    <3>4. ASSUME NEW l \in newlines, l < Len(stream) + 1 \/ l = Len(stream) + Len(buf)
          PROVE  l < Len(stream) + Len(buf) + 1
      BY <1>0, <3>3, <3>4
    <3> QED BY <2>0, <2>7, <3>1, <3>2, <3>4 DEF Before
  <2>9. Len(stream) + Len(buf) \notin Before(Len(stream) + 1)
    BY <1>0, <2>5 DEF Before
  <2>10. Cardinality(Before(Len(stream) + 1) \cup {Len(stream) + Len(buf)}) = Len(shown) + 1
    BY <1>3, <2>2, <2>9, FS_AddElement
  <2>11. Cardinality({l \in newlines' : l < Len(stream') + 1}) = Len(shown')
    BY <2>1, <2>8, <2>10
  <2>12. ASSUME NEW i \in 1..Len(shown')
         PROVE  Cardinality({l \in newlines' : l < shown'[i][1]}) = i - 1
    <3>1. CASE i \in 1..Len(shown)
      BY <1>3, <2>1, <2>2, <3>1
    <3>2. CASE i = Len(shown) + 1
      <4>1. 1 \in 1..Len(buf)
        BY <1>0, <2>5
      <4>2. shown'[i][1] = Len(stream) + 1 /\ i - 1 = Len(shown)
        BY <1>0, <2>1, <2>6, <3>2, <4>1
      <4> QED BY <1>3, <2>2, <4>2
    <3> QED BY <2>1, <3>1, <3>2
  <2> QED BY <2>11, <2>12 DEF Before
<1>5. CASE ~Fputs
  <2>1. shown' = shown /\ stream' = stream
    <3>1. CASE ReadByte
      BY <3>1, ByteEffects
    <3>2. CASE ReadEof
      BY <3>2, EofEffects
    <3> QED BY <1>5, <3>1, <3>2, Quiet
  <2>2. \A i \in 1..Len(shown) : Len(shown[i]) < maxlen - 1
    BY <2>1
  <2> QED BY <1>3, <2>1, <2>2 DEF Before
<1> QED BY <1>4, <1>5

\* The two together.
LEMMA NextInStep == ASSUME IInv, [Next]_vars PROVE InStep'
<1>1. /\ pc' \notin {"closed", "exited"} => Len(shown') = typed' - Waiting'
      /\ Len(stream') <= taken'
  BY NextTurn, NextStreamTaken
<1>2. ASSUME peer' = "up", \A i \in 1..Len(shown') : Len(shown'[i]) < maxlen - 1
      PROVE  /\ \A i \in 1..Len(shown') : Cardinality({l \in newlines' : l < shown'[i][1]}) = i - 1
             /\ Cardinality({l \in newlines' : l < Len(stream') + 1}) = Len(shown')
  BY <1>2, NextCounted
<1> QED BY <1>1, <1>2 DEF InStep, Waiting, Before

\* All of it, in every state that the client, the server and the user reach.
THEOREM Invariance == Spec => []IInv
<1>1. ASSUME IInv, [Next]_vars PROVE IInv'
  BY <1>1, NextTypeOK, NextSocket, Consuming, NextTyping, NextLine, NextPrinted, NextAtEnd, NextInStep
     DEF IInv
<1> QED BY InitIInv, <1>1, PTL DEF Spec

-----------------------------------------------------------------------------
(***************************************************************************)
(* The theorems.                                                           *)
(***************************************************************************)
\* The lines of Output.
LEMMA OutputLines ==
  ASSUME IInv
  PROVE  /\ DOMAIN Output = 1..Len(Output) /\ Len(Output) \in Nat
         /\ \A i \in DOMAIN Output :
              \/ i \in 1..Len(shown) /\ Output[i] = shown[i]
              \/ pc = "fputs" /\ i = Len(shown) + 1 /\ Output[i] = buf
         /\ \A i \in 1..Len(shown) : i \in DOMAIN Output /\ Output[i] = shown[i]
<1>1. shown \in Seq(Seq(Int)) /\ buf \in Seq(Int) /\ Len(shown) \in Nat
  BY DEF IInv, TypeOK
<1>2. CASE pc = "fputs"
  <2>1. Output = Append(shown, buf)
    BY <1>2 DEF Output
  <2>2. /\ DOMAIN Output = 1..Len(shown) + 1 /\ Len(Output) = Len(shown) + 1
        /\ Output[Len(shown) + 1] = buf /\ \A i \in 1..Len(shown) : Output[i] = shown[i]
    BY <1>1, <2>1
  <2>3. \A i \in 1..Len(shown) + 1 : i \in 1..Len(shown) \/ i = Len(shown) + 1
    BY <1>1
  <2>4. \A i \in 1..Len(shown) : i \in 1..Len(shown) + 1
    BY <1>1
  <2> QED BY <1>1, <1>2, <2>2, <2>3, <2>4
<1>3. CASE pc # "fputs"
  <2>1. Output = shown
    BY <1>3 DEF Output
  <2> QED BY <1>1, <2>1
<1> QED BY <1>2, <1>3

\* The types of the state: rio_cnt bytes at rio_bufptr are within rio_buf.
THEOREM TypeCorrect == Spec => []TypeOK
<1>1. IInv => TypeOK
  BY DEF IInv
<1> QED BY Invariance, <1>1, PTL

\* Every byte that read returned was printed, is in the line that is read, or
\* is unread in rio_buf: rio_read and rio_readlineb lose and repeat none.
THEOREM NoneIsLost == Spec => []NoByteLost
<1>1. ASSUME IInv PROVE NoByteLost
  <2> DEFINE rest == SubSeq(rio_buf, rio_bufptr, rio_bufptr + rio_cnt - 1)
             whole == [i \in 1..taken |-> i]
  <2> SUFFICES ASSUME pc # "exited" PROVE stream \o InLine \o rest = whole
    BY DEF NoByteLost, InLine
  <2>1. /\ stream \in Seq(Int) /\ InLine \in Seq(Int) /\ taken \in Nat
        /\ rio_buf \in Seq(Int) /\ rio_bufptr \in Nat \ {0} /\ rio_cnt \in Int
        /\ rio_bufptr + rio_cnt - 1 <= Len(rio_buf) /\ Len(rio_buf) \in Nat
        /\ rio_cnt <= taken
    <3>1. /\ stream \in Seq(Int) /\ bufp \in Seq(Int) /\ buf \in Seq(Int) /\ taken \in Nat
          /\ rio_buf \in Seq(Int) /\ rio_bufptr \in 1..Len(rio_buf) + 1
          /\ rio_cnt \in -1..Len(rio_buf) - rio_bufptr + 1
      BY <1>1 DEF IInv, TypeOK
    <3>2. InLine \in Seq(Int)
      BY <3>1 DEF InLine
    <3>3. rio_cnt <= taken
      BY <1>1 DEF IInv, Unread
    <3> HIDE DEF rest, whole
    <3> QED BY <3>1, <3>2, <3>3
  <2>2. /\ Len(stream) + Len(InLine) = Consumed
        /\ \A i \in 1..Len(stream) : stream[i] = i
        /\ \A j \in 1..Len(InLine) : InLine[j] = Len(stream) + j
    BY <1>1 DEF IInv, Line
  <2>3. rest \in Seq(Int) /\ Consumed + Len(rest) = taken
        /\ \A j \in 1..Len(rest) : rest[j] = Consumed + j
    <3>1. CASE rio_cnt <= 0
      <4>1. rest = <<>>
        BY <2>1, <3>1, SubSeqEmpty
      <4>2. Consumed = taken
        BY <2>1, <3>1 DEF Consumed
      <4> HIDE DEF rest
      <4> QED BY <2>1, <4>1, <4>2
    <3>2. CASE rio_cnt > 0
      <4>1. /\ rest \in Seq(Int)
            /\ Len(rest) = rio_bufptr + rio_cnt - 1 - rio_bufptr + 1
            /\ \A j \in 1..rio_bufptr + rio_cnt - 1 - rio_bufptr + 1 : rest[j] = rio_buf[rio_bufptr + j - 1]
        <5>1. rio_bufptr + rio_cnt - 1 \in Nat /\ rio_bufptr <= rio_bufptr + rio_cnt - 1 + 1
          BY <2>1, <3>2
        <5> QED BY <2>1, <5>1, Part
      <4>2. rio_bufptr + rio_cnt - 1 - rio_bufptr + 1 = rio_cnt
        BY <2>1
      <4>3. Consumed + rio_cnt = taken
        BY <2>1, <3>2 DEF Consumed
      <4>4. \A j \in 1..rio_cnt : rio_buf[rio_bufptr + j - 1] = Consumed + j
        BY <1>1 DEF IInv, Unread
      <4> HIDE DEF rest
      <4> QED BY <4>1, <4>2, <4>3, <4>4
    <3> QED BY <2>1, <3>1, <3>2
  <2> HIDE DEF rest
  <2>4. /\ stream \o InLine \in Seq(Int)
        /\ Len(stream \o InLine) = Consumed
        /\ \A i \in 1..Consumed : (stream \o InLine)[i] = i
    <3>1. /\ stream \o InLine \in Seq(Int) /\ Len(stream \o InLine) = Len(stream) + Len(InLine)
          /\ Len(stream) \in Nat /\ Len(InLine) \in Nat
          /\ \A i \in 1..Len(stream) : (stream \o InLine)[i] = stream[i]
          /\ \A i \in 1..Len(InLine) : (stream \o InLine)[Len(stream) + i] = InLine[i]
      BY <2>1, Joined
    <3>2. ASSUME NEW i \in 1..Len(stream) + Len(InLine) PROVE (stream \o InLine)[i] = i
      <4>1. CASE i \in 1..Len(stream)
        BY <2>2, <3>1, <4>1
      <4>2. CASE i \notin 1..Len(stream)
        <5>1. i - Len(stream) \in 1..Len(InLine) /\ Len(stream) + (i - Len(stream)) = i
          BY <3>1, <4>2
        <5>2. (stream \o InLine)[Len(stream) + (i - Len(stream))] = Len(stream) + (i - Len(stream))
          BY <2>2, <3>1, <5>1
        <5> QED BY <5>1, <5>2
      <4> QED BY <4>1, <4>2
    <3> QED BY <2>2, <3>1, <3>2
  <2>5. /\ stream \o InLine \o rest \in Seq(Int)
        /\ Len(stream \o InLine \o rest) = taken
        /\ \A i \in 1..taken : (stream \o InLine \o rest)[i] = i
    <3> DEFINE read == stream \o InLine
    <3>0. read \in Seq(Int) /\ Len(read) = Consumed /\ \A i \in 1..Consumed : read[i] = i
      BY <2>4
    <3> HIDE DEF read
    <3>1. /\ read \o rest \in Seq(Int) /\ Len(read \o rest) = Len(read) + Len(rest)
          /\ Len(read) \in Nat /\ Len(rest) \in Nat
          /\ \A i \in 1..Len(read) : (read \o rest)[i] = read[i]
          /\ \A i \in 1..Len(rest) : (read \o rest)[Len(read) + i] = rest[i]
      BY <2>3, <3>0, Joined
    <3>2. ASSUME NEW i \in 1..taken PROVE (read \o rest)[i] = i
      <4>1. CASE i \in 1..Consumed
        BY <3>0, <3>1, <4>1
      <4>2. CASE i \notin 1..Consumed
        <5>0. Consumed \in Nat /\ Len(rest) \in Nat /\ Consumed + Len(rest) = taken
          BY <2>3, <3>0, <3>1
        <5>1. i - Consumed \in 1..Len(rest) /\ Consumed + (i - Consumed) = i
          BY <4>2, <5>0
        <5>2. (read \o rest)[Consumed + (i - Consumed)] = Consumed + (i - Consumed)
          BY <2>3, <3>0, <3>1, <5>1
        <5> QED BY <5>1, <5>2
      <4> QED BY <4>1, <4>2
    <3>3. Len(read \o rest) = taken
      BY <2>3, <3>0, <3>1
    <3> QED BY <3>1, <3>2, <3>3 DEF read
  <2>6. whole \in Seq(Int) /\ Len(whole) = taken /\ \A i \in 1..taken : whole[i] = i
    BY <2>1
  <2> HIDE DEF whole, InLine
  <2> QED BY <2>1, <2>5, <2>6, SeqEqual
<1> QED BY Invariance, <1>1, PTL

\* A line of the server is printed whole, unless it is as long as the buffer or
\* the stream ended.
THEOREM WholeLines == Spec => []LinesWhole
<1>1. ASSUME IInv PROVE LinesWhole
  <2>1. shown \in Seq(Seq(Int)) /\ buf \in Seq(Int) /\ Len(shown) \in Nat
    BY <1>1 DEF IInv, TypeOK
  <2>2. ASSUME NEW i \in DOMAIN Output PROVE Whole(Output[i], sent, newlines, peer, taken)
    BY <1>1, <2>1, OutputLines DEF IInv, Printed
  <2> QED BY <2>2 DEF Whole, LinesWhole
<1> QED BY Invariance, <1>1, PTL

\* What the server received is what the user typed, in order and once.
THEOREM SentInOrder == Spec => []SentOnce
<1>1. ASSUME IInv PROVE SentOnce
  <2>1. /\ received \in Seq(Int) /\ \A i \in 1..Len(received) : received[i] = -i
        /\ peer = "up" =>
             Len(received) = typed * LineLen - IF pc = "write" THEN LineLen - Len(bufp) ELSE 0
    BY <1>1 DEF IInv, TypeOK, Typing
  <2>2. typed * LineLen = LineLen * typed
    <3>1. typed \in Nat /\ LineLen \in Nat
      BY <1>1, Constants DEF IInv, TypeOK
    <3> QED BY <3>1, SMT
  <2> QED BY <2>1, <2>2 DEF SentOnce
<1> QED BY Invariance, <1>1, PTL

\* A line that the user typed is printed as an answer only after the server
\* closed, and after everything that it sent.
THEOREM OwnLineAtEnd == Spec => []OwnLineOnlyAfterEof
<1>1. ASSUME IInv PROVE OwnLineOnlyAfterEof
  <2>1. shown \in Seq(Seq(Int)) /\ Len(shown) \in Nat
    BY <1>1 DEF IInv, TypeOK
  <2>2. /\ Ended => peer # "up"
        /\ \A i, j \in 1..Len(shown) : i <= j /\ ~IsBytes(shown[i]) => ~IsBytes(shown[j])
        /\ pc = "fputs" /\ IsBytes(buf) => \A i \in 1..Len(shown) : IsBytes(shown[i])
    BY <1>1 DEF IInv, AtEnd
  <2>3. ASSUME NEW i \in DOMAIN Output, ~IsBytes(Output[i])
        PROVE  peer # "up" /\ \A j \in i..Len(Output) : ~IsBytes(Output[j])
    <3>1. peer # "up"
      BY <1>1, <2>1, <2>2, <2>3, OutputLines DEF Ended, IsBytes
    <3>2. ASSUME NEW j \in i..Len(Output) PROVE ~IsBytes(Output[j])
      <4>1. /\ \/ i \in 1..Len(shown) /\ Output[i] = shown[i]
               \/ pc = "fputs" /\ i = Len(shown) + 1 /\ Output[i] = buf
            /\ \/ j \in 1..Len(shown) /\ Output[j] = shown[j]
               \/ pc = "fputs" /\ j = Len(shown) + 1 /\ Output[j] = buf
        <5>1. /\ DOMAIN Output = 1..Len(Output) /\ Len(Output) \in Nat
              /\ \A l \in DOMAIN Output :
                   \/ l \in 1..Len(shown) /\ Output[l] = shown[l]
                   \/ pc = "fputs" /\ l = Len(shown) + 1 /\ Output[l] = buf
          BY <1>1, OutputLines
        <5>2. j \in DOMAIN Output
          BY <5>1
        <5> QED BY <5>1, <5>2
      <4>2. i <= j
        BY <1>1, <2>1, OutputLines
      <4>3. CASE j \in 1..Len(shown) /\ Output[j] = shown[j]
        <5>1. i \in 1..Len(shown) /\ Output[i] = shown[i]
          BY <2>1, <4>1, <4>2, <4>3
        <5> QED BY <2>2, <2>3, <4>2, <4>3, <5>1
      <4>4. CASE pc = "fputs" /\ Output[j] = buf
        <5>1. IsBytes(buf) => i \in 1..Len(shown) /\ Output[i] = shown[i]
          BY <2>3, <4>1
        <5> QED BY <2>2, <2>3, <4>4, <5>1
      <4> QED BY <4>1, <4>3, <4>4
    <3> QED BY <3>1, <3>2
  <2> QED BY <2>3 DEF OwnLineOnlyAfterEof
<1> QED BY Invariance, <1>1, PTL

\* With one line for each answer, each line printed answers the line typed
\* before it, and when the user types the next nothing is on the way.
THEOREM InStepAnswers == Spec => []AnswersInStep
<1>1. ASSUME IInv PROVE AnswersInStep
  <2> SUFFICES ASSUME answers = 1, \A i \in DOMAIN Output : Len(Output[i]) < maxlen - 1, peer = "up"
               PROVE  /\ \A i \in DOMAIN Output : Cardinality(Before(Output[i][1])) = i - 1
                      /\ pc = "fgets" => taken = sent /\ rio_cnt <= 0
    BY DEF AnswersInStep, Before
  <2>1. \A i \in 1..Len(shown) : Len(shown[i]) < maxlen - 1
    BY <1>1, OutputLines
  <2>2. /\ \A i \in 1..Len(shown) : Cardinality(Before(shown[i][1])) = i - 1
        /\ Cardinality(Before(Len(stream) + 1)) = Len(shown)
    BY <1>1, <2>1 DEF IInv, InStep
  <2>3. ASSUME NEW i \in DOMAIN Output PROVE Cardinality(Before(Output[i][1])) = i - 1
    <3>1. CASE i \in 1..Len(shown) /\ Output[i] = shown[i]
      BY <2>2, <3>1
    <3>2. CASE pc = "fputs" /\ i = Len(shown) + 1 /\ Output[i] = buf
      <4>1. IsBytes(buf) /\ buf # <<>> /\ buf \in Seq(Int) /\ Len(shown) \in Nat
        BY <1>1, <3>2 DEF IInv, AtEnd, Ended, Printed, Whole, TypeOK
      <4>2. \A j \in 1..Len(buf) : buf[j] = Len(stream) + j
        BY <1>1, <3>2, <4>1 DEF IInv, Line, InLine
      <4>3. buf[1] = Len(stream) + 1 /\ i - 1 = Len(shown)
        BY <3>2, <4>1, <4>2
      <4> QED BY <2>2, <3>2, <4>3
    <3> QED BY <1>1, <3>1, <3>2, OutputLines
  <2>4. ASSUME pc = "fgets" PROVE taken = sent /\ rio_cnt <= 0
    <3>0. /\ taken \in Nat /\ sent \in Nat /\ taken <= sent /\ rio_cnt \in Int /\ rio_cnt <= taken
          /\ newlines \subseteq 1..sent /\ IsFiniteSet(newlines) /\ typed \in Nat
          /\ Len(stream) \in Nat /\ LineLen \in Nat \ {0} /\ received \in Seq(Int)
      BY <1>1, Constants DEF IInv, TypeOK, Socket, Unread
    <3>1. Len(shown) = typed
      <4>1. Len(shown) = typed - 0
        BY <1>1, <2>4 DEF IInv, InStep
      <4> QED BY <3>0, <4>1
    <3>2. Len(received) = typed * LineLen
      <4>1. Len(received) = typed * LineLen - 0
        BY <1>1, <2>4 DEF IInv, Typing
      <4>2. typed * LineLen \in Int
        BY <3>0, TimesMonotone
      <4> QED BY <4>1, <4>2
    <3>3. Len(received) \div LineLen = typed
      BY <3>0, <3>2, DivExact
    <3>4. Cardinality(newlines) <= typed
      <4>1. Cardinality(newlines) <= 1 * typed
        BY <1>1, <3>3 DEF IInv, Socket
      <4> QED BY <3>0, <4>1
    <3>5. Before(Len(stream) + 1) = newlines
      <4>1. Before(Len(stream) + 1) \in SUBSET newlines
        BY DEF Before
      <4>2. Cardinality(Before(Len(stream) + 1)) <= Cardinality(newlines)
        BY <3>0, <4>1, FS_Subset
      <4>3. Cardinality(newlines) \in Nat
        BY <3>0, FS_CardinalityType
      <4>4. Cardinality(newlines) = Cardinality(Before(Len(stream) + 1))
        BY <2>2, <3>0, <3>1, <3>4, <4>2, <4>3
      <4> QED BY <3>0, <4>1, <4>4, FS_Subset
    <3>6. sent <= Len(stream)
      <4>1. sent = 0 \/ sent \in newlines
        BY <1>1 DEF IInv, Socket
      <4> QED BY <3>0, <3>5, <4>1 DEF Before
    <3>7. Len(stream) = Consumed
      <4>1. InLine = <<>>
        BY <2>4 DEF InLine
      <4>2. Len(stream) + 0 = Consumed
        BY <1>1, <2>4, <4>1 DEF IInv, Line
      <4> QED BY <3>0, <4>2
    <3> QED BY <3>0, <3>6, <3>7 DEF Consumed
  <2> QED BY <2>3, <2>4
<1> QED BY Invariance, <1>1, PTL
=============================================================================
