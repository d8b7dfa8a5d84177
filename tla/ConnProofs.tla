------------------------------ MODULE ConnProofs ------------------------------
(***************************************************************************)
(* Proofs about module Conn, for scripts of any number and length of       *)
(* requests, every fragmentation, every initial value of left_, every size *)
(* of the buffer, and clients that reset at any moment.                    *)
(*                                                                         *)
(* Two hypotheses exclude the streams that this parser gets wrong.         *)
(* Regular is about the client: it has the CR and LF of a header arrive    *)
(* together (the run conn_split shows the failed assert otherwise), sends  *)
(* no NUL byte, no empty argument and no empty request (Conn::Add and the C*)
(* strings lose them), and no number with as many digits as the buffer has *)
(* bytes.  Avoids37Bytes is about the reads: with a buffer of more than 36 *)
(* bytes none leaves 37 bytes, '$' + 1, to parse (the run conn_37_bytes    *)
(* shows the request that waits otherwise); a smaller buffer never does.   *)
(***************************************************************************)
EXTENDS ConnParserProofs

\* A request after which the server closes or stops.
EndsIt(request) == Effect(request) \in {"exit", "shutdown"}

\* Some client sends a command that has no reply.
Silent == \E s \in Scripts : \E i \in DOMAIN s : Effect(s[i]) = "silent"

\* The types, and a wire that is the one of the script.
TypeInv ==
  /\ client \in {ClientOf(script) : script \in Scripts}
  /\ conn \in ConnType
  /\ rd \in 0..Len(client.wire)
  /\ interest \in {"IN", "OUT"}
  /\ pc \in {"wait", "parsing", "closed", "stopped", "abort", "ub", "killed"}
  /\ peer \in {"up", "reset", "gone"}
  /\ got \in Nat

\* What ran is a prefix of the script, each request with one reply that is
\* kept or was received, unless it has none.
HistoryInv ==
  /\ Done(client.script, conn)
  /\ got + conn.Reply_ <= Len(conn.executed)
  /\ ~Silent => got + conn.Reply_ = Len(conn.executed)

\* What the flags say of where the handler is.  A handler that is done leaves
\* read_pos_ at 0 and room in the buffer, after a failed read too.
ControlInv ==
  /\ pc \in {"abort", "ub"} => peer = "gone"
  /\ pc \in {"wait", "parsing"} => conn.status = "ok"
  /\ pc = "wait" => conn.is_connect_ /\ conn.keepRunning
  /\ pc = "parsing" => ~conn.is_end_parsing_
  /\ pc = "parsing" /\ (~conn.is_connect_ \/ ~conn.keepRunning)
       => \E i \in DOMAIN conn.executed : EndsIt(conn.executed[i])
  /\ conn.status = "ok" /\ pc # "parsing"
       => conn.read_pos_ = 0 /\ conn.offset_ \in -1..(MaxLine - 1)

\* A connection that the server serves or that waits has run every request
\* that it has read, and owes no reply when it is not about to write.
QuietInv ==
  pc = "wait" \/ (pc = "parsing" /\ peer = "gone") =>
    /\ Whole(client.script, rd, Len(conn.executed))
    /\ interest = "IN" /\ rd = EndOfRequest(client.script, Len(conn.executed))
         => conn.Reply_ = 0

\* The parser stands at a place of the wire; after a failed read it only has
\* bytes in which no number ends.
ParserInv ==
  /\ pc = "wait" /\ peer # "gone" => Waiting(client.script, rd, conn)
  /\ pc = "parsing" /\ peer # "gone" =>
       /\ InLoop(client.script, rd, conn)
       /\ rd \notin client.sealed
       /\ conn.read_buffer_size_ <= MaxLine
  /\ pc = "parsing" /\ peer = "gone" =>
       AfterError(conn) /\ conn.is_connect_ /\ conn.keepRunning

IInv == TypeInv /\ HistoryInv /\ ControlInv /\ QuietInv /\ ParserInv

\* The scripts for which the parser is correct: see the header.
Regular ==
  /\ SplitKinds \subseteq {"payload"}
  /\ Scripts \subseteq Script
  /\ \A s \in Scripts : NumbersFit(s)

\* No handler parses '$' + 1 bytes.
Avoids37Bytes ==
  Read \/ ParseLoop =>
    MaxLine <= Dollar \/ rd' - rd + conn.read_buffer_size_ # Dollar + 1

-----------------------------------------------------------------------------
\* The script of a client is one of those that Regular is about.
LEMMA ClientScript ==
  ASSUME TypeInv, Regular
  PROVE  /\ client.script \in Scripts /\ client.script \in Script
         /\ NumbersFit(client.script)
         /\ client.wire = Wire(client.script)
         /\ client.ends = {EndOfRequest(client.script, k) :
                             k \in 1..Len(client.script)}
         /\ CrLfCuts(client.script, {"array", "length"}) \subseteq client.sealed
<1>1. PICK s \in Scripts : client = ClientOf(s)
  BY DEF TypeInv
<1>2. /\ client.script = s /\ client.wire = Wire(s)
      /\ client.ends = {EndOfRequest(s, k) : k \in 1..Len(s)}
      /\ client.sealed
           = CrLfCuts(s, {"array", "length", "payload"} \ SplitKinds)
  BY <1>1 DEF ClientOf
<1>3. {"array", "length"} \subseteq {"array", "length", "payload"} \ SplitKinds
  BY DEF Regular
<1>4. CrLfCuts(s, {"array", "length"})
        \subseteq CrLfCuts(s, {"array", "length", "payload"} \ SplitKinds)
  BY <1>3 DEF CrLfCuts
<1>5. s \in Script /\ NumbersFit(s)
  BY DEF Regular
<1> QED BY <1>2, <1>4, <1>5

\* Where the handler goes after a method, by its status and flags.
LEMMA Continued ==
  ASSUME NEW e \in ConnType, After(e)
  PROVE  /\ conn' = e
         /\ interest' = IF e.is_end_read_ THEN "OUT" ELSE interest
         /\ pc' \in {"wait", "parsing", "closed", "stopped", "abort", "ub"}
         /\ e.status # "ok" => pc' = e.status
         /\ pc' \in {"abort", "ub"} => e.status # "ok"
         /\ pc' = "parsing" => e.status = "ok" /\ ~e.is_end_parsing_
         /\ pc' = "wait" =>
              e.status = "ok" /\ e.is_end_parsing_ /\ e.is_connect_
              /\ e.keepRunning
         /\ e.status = "ok" /\ pc' # "parsing" => e.is_end_parsing_
         /\ e.status = "ok" /\ pc' \in {"closed", "stopped"} =>
              ~e.is_connect_ \/ ~e.keepRunning
         /\ pc' \in {"closed", "stopped"} => e.status = "ok"
<1>1. /\ conn' = e
      /\ interest' = IF e.is_end_read_ THEN "OUT" ELSE interest
      /\ pc' = CASE ~Ok(e) -> e.status
                 [] Ok(e) /\ ~e.is_end_parsing_ -> "parsing"
                 [] Ok(e) /\ e.is_end_parsing_ /\ ~e.is_connect_ -> "closed"
                 [] OTHER -> IF e.keepRunning THEN "wait" ELSE "stopped"
  BY DEF After, Continue
<1>2. /\ e.status \in {"ok", "abort", "ub"}
      /\ e.is_end_parsing_ \in BOOLEAN /\ e.is_connect_ \in BOOLEAN
      /\ e.keepRunning \in BOOLEAN
  BY DEF ConnType
<1>3. Ok(e) <=> e.status = "ok"
  BY DEF Ok
<1>4. CASE e.status # "ok"
  <2>1. pc' = e.status
    BY <1>1, <1>3, <1>4
  <2> QED BY <1>1, <1>2, <1>4, <2>1
<1>5. CASE e.status = "ok" /\ ~e.is_end_parsing_
  <2>1. pc' = "parsing"
    BY <1>1, <1>3, <1>5
  <2> QED BY <1>1, <1>5, <2>1
<1>6. CASE e.status = "ok" /\ e.is_end_parsing_ /\ ~e.is_connect_
  <2>1. pc' = "closed"
    BY <1>1, <1>3, <1>6
  <2> QED BY <1>1, <1>6, <2>1
<1>7. CASE e.status = "ok" /\ e.is_end_parsing_ /\ e.is_connect_
  <2>1. pc' = IF e.keepRunning THEN "wait" ELSE "stopped"
    BY <1>1, <1>3, <1>7
  <2> QED BY <1>1, <1>7, <2>1
<1> QED BY <1>4, <1>5, <1>6, <1>7

\* The requests that ran when a request of the script was served, or none was.
Progress(s, c, e) ==
  \/ Kept(c, e)
  \/ \E n \in Nat : Served(s, n, c, e)

\* A step that runs nothing, or the next request, keeps HistoryInv.
LEMMA HistoryStep ==
  ASSUME NEW s \in Scripts, s \in Script, NEW c \in ConnType, NEW e \in ConnType,
         NEW g \in Nat, Done(s, c), Progress(s, c, e),
         g + c.Reply_ <= Len(c.executed),
         ~Silent => g + c.Reply_ = Len(c.executed)
  PROVE  /\ Done(s, e)
         /\ g + e.Reply_ <= Len(e.executed)
         /\ ~Silent => g + e.Reply_ = Len(e.executed)
<1> DEFINE q == Len(c.executed)
<1>1. /\ Len(s) \in Nat /\ c.executed \in Seq(Seq(Seq(Char)))
      /\ q \in 0..Len(s) /\ c.Reply_ \in Nat
  BY DEF Script, ConnType, Done
<1>2. CASE Kept(c, e)
  BY <1>2 DEF Kept, SameHistory, Done
<1>3. CASE \E n \in Nat : Served(s, n, c, e)
  <2>1. /\ q < Len(s) /\ e.executed = Append(c.executed, s[q + 1])
        /\ e.Reply_ = IF Effect(s[q + 1]) = "silent" THEN c.Reply_
                                                     ELSE c.Reply_ + 1
    BY <1>3 DEF Served
  <2>2. q + 1 \in DOMAIN s
    BY <1>1, <2>1 DEF Script
  <2>3. ~Silent => Effect(s[q + 1]) # "silent"
    BY <2>2 DEF Silent
  <2>4. /\ Len(e.executed) = q + 1
        /\ \A i \in 1..q : e.executed[i] = c.executed[i]
        /\ e.executed[q + 1] = s[q + 1]
    BY <1>1, <2>1
  <2>5. Done(s, e)
    <3>1. \A i \in 1..q : e.executed[i] = s[i]
      BY <2>4 DEF Done
    <3>2. \A i \in 1..(q + 1) : e.executed[i] = s[i]
      BY <1>1, <2>4, <3>1
    <3> QED BY <1>1, <2>1, <2>4, <3>2 DEF Done
  <2> HIDE DEF q
  <2> QED BY <1>1, <2>1, <2>3, <2>4, <2>5, SMTT(30) DEF q
<1> QED BY <1>2, <1>3 DEF Progress

\* Only a request that ends the connection or the server clears their flags.
LEMMA EndStep ==
  ASSUME NEW s \in Script, NEW c \in ConnType, NEW e \in ConnType, Done(s, c),
         Progress(s, c, e),
         ~c.is_connect_ \/ ~c.keepRunning =>
           \E i \in DOMAIN c.executed : EndsIt(c.executed[i])
  PROVE  ~e.is_connect_ \/ ~e.keepRunning =>
           \E i \in DOMAIN e.executed : EndsIt(e.executed[i])
<1>1. CASE Kept(c, e)
  BY <1>1 DEF Kept, SameHistory
<1>2. CASE \E n \in Nat : Served(s, n, c, e)
  <2> DEFINE q == Len(c.executed)
  <2>1. /\ e.executed = Append(c.executed, s[q + 1])
        /\ e.is_connect_ <=> c.is_connect_ /\ Effect(s[q + 1]) # "exit"
        /\ e.keepRunning <=> c.keepRunning /\ Effect(s[q + 1]) # "shutdown"
    BY <1>2 DEF Served
  <2>2. c.executed \in Seq(Seq(Seq(Char)))
    BY DEF ConnType
  <2>3. /\ DOMAIN e.executed = 1..(q + 1) /\ q \in Nat
        /\ \A i \in 1..q : e.executed[i] = c.executed[i]
        /\ e.executed[q + 1] = s[q + 1]
    BY <2>1, <2>2
  <2>4. CASE EndsIt(s[q + 1])
    <3>1. q + 1 \in 1..(q + 1)
      BY <2>3
    <3> QED BY <2>3, <2>4, <3>1
  <2>5. CASE ~EndsIt(s[q + 1])
    <3>1. ~e.is_connect_ \/ ~e.keepRunning =>
             ~c.is_connect_ \/ ~c.keepRunning
      BY <2>1, <2>5 DEF EndsIt
    <3>2. ASSUME NEW i \in DOMAIN c.executed, EndsIt(c.executed[i])
          PROVE  i \in DOMAIN e.executed /\ EndsIt(e.executed[i])
      <4>1. i \in 1..q
        BY <2>2
      <4>2. i \in 1..(q + 1) /\ e.executed[i] = c.executed[i]
        BY <2>3, <4>1
      <4> QED BY <2>3, <3>2, <4>2
    <3> QED BY <3>1, <3>2
  <2> QED BY <2>4, <2>5
<1> QED BY <1>1, <1>2 DEF Progress

-----------------------------------------------------------------------------
\* A read or an iteration of the loop that goes on with the script: d is conn
\* with the bytes of the read, e what the parser makes of it.
Serves(d, e) ==
  /\ d \in ConnType /\ Kept(conn, d) /\ d.read_buffer_size_ <= MaxLine
  /\ Settled(client.script, rd', d, e) /\ After(e)

Serving ==
  /\ pc \in {"wait", "parsing"} /\ peer # "gone"
  /\ \E d, e : Serves(d, e)
  /\ rd' \in 0..Len(client.wire) /\ rd' \notin client.sealed
  /\ EndOfRequest(client.script, Len(conn.executed)) < rd'
  /\ UNCHANGED <<client, got, peer>>

\* A handler of a connection that was reset: nothing runs.
Fails(e) ==
  /\ e \in ConnType /\ After(e) /\ Kept(conn, e)
  /\ IF e.is_end_parsing_
       THEN e.read_pos_ = 0 /\ e.offset_ \in -1..(MaxLine - 1)
       ELSE e.status = "ok" /\ AfterError(e)

Failing ==
  /\ pc \in {"wait", "parsing"} /\ peer # "up" /\ peer' = "gone"
  /\ \E e : Fails(e)
  /\ conn.is_connect_ /\ conn.keepRunning
  /\ Whole(client.script, rd, Len(conn.executed))
  /\ interest = "IN" /\ rd = EndOfRequest(client.script, Len(conn.executed))
       => conn.Reply_ = 0
  /\ UNCHANGED <<client, rd, got>>

\* A step that goes on with the script keeps the invariant.
LEMMA ServingStep ==
  ASSUME IInv, Regular, Serving
  PROVE  IInv'
<1> DEFINE s == client.script
<1>0. PICK d, e : Serves(d, e)
  BY DEF Serving
<1>1. /\ TypeInv /\ HistoryInv /\ ControlInv
      /\ client' = client /\ got' = got /\ peer' = peer /\ peer # "gone"
  BY DEF IInv, Serving
<1>2. /\ s \in Scripts /\ s \in Script /\ NumbersFit(s)
      /\ client.wire = Wire(s)
  BY <1>1, ClientScript
<1>3. /\ conn \in ConnType /\ got \in Nat /\ interest \in {"IN", "OUT"}
      /\ peer \in {"up", "reset", "gone"}
  BY <1>1 DEF TypeInv
<1>4. /\ d \in ConnType /\ e \in ConnType /\ e.status = "ok"
      /\ Kept(d, e) \/ Served(s, rd', d, e)
      /\ e.read_buffer_size_ <= d.read_buffer_size_
      /\ d.read_buffer_size_ <= MaxLine
      /\ e.is_end_parsing_ => Waiting(s, rd', e)
      /\ ~e.is_end_parsing_ => InLoop(s, rd', e)
  BY <1>0 DEF Serves, Settled
<1>5. /\ conn' = e
      /\ interest' = IF e.is_end_read_ THEN "OUT" ELSE interest
      /\ pc' \in {"wait", "parsing", "closed", "stopped"}
      /\ pc' = "parsing" => ~e.is_end_parsing_
      /\ pc' = "wait" =>
           e.is_end_parsing_ /\ e.is_connect_ /\ e.keepRunning
      /\ pc' # "parsing" => e.is_end_parsing_
  BY <1>0, <1>4, Continued DEF Serves
<1> HIDE DEF s
<1>6. rd' \in Nat /\ rd' \in 0..Len(Wire(s))
  BY <1>2, WireSteps DEF Serving, s
<1>7. Kept(conn, e) \/ Served(s, rd', conn, e)
  BY <1>0, <1>4 DEF Serves, Kept, SameHistory, Served
<1>8. Progress(s, conn, e)
  BY <1>6, <1>7 DEF Progress
<1>9. Done(s, conn) /\ Done(s, e) /\ HistoryInv'
  <2>1. Done(s, conn) /\ got + conn.Reply_ <= Len(conn.executed)
        /\ (~Silent => got + conn.Reply_ = Len(conn.executed))
    BY <1>1 DEF HistoryInv, s
  <2>2. Done(s, e) /\ got + e.Reply_ <= Len(e.executed)
        /\ (~Silent => got + e.Reply_ = Len(e.executed))
    BY <1>2, <1>3, <1>4, <1>8, <2>1, HistoryStep
  <2>3. HistoryInv'
    BY <1>1, <1>5, <2>2, Zenon DEF HistoryInv, Silent, s
  <2> QED BY <2>1, <2>2, <2>3
<1>10. /\ MaxLine \in Nat \ {0}
       /\ e.is_end_parsing_ =>
            /\ Whole(s, rd', Len(e.executed))
            /\ e.offset_ \in 0..(MaxLine - 1) /\ e.read_pos_ = 0
  <2>1. MaxLine \in Nat \ {0}
    BY ConnAssumption
  <2>2. ASSUME e.is_end_parsing_ PROVE Rests(s, rd', e)
    BY <1>2, <1>4, <1>6, <1>9, <2>2 DEF Rests
  <2>3. ASSUME e.is_end_parsing_ PROVE e.read_pos_ = 0
    BY <1>4, <2>3 DEF Waiting
  <2> QED BY <1>2, <2>1, <2>2, <2>3, RestsWhole
<1>11. TypeInv'
  BY <1>1, <1>3, <1>4, <1>5 DEF TypeInv, Serving, s
<1>12. HistoryInv'
  BY <1>9
<1>13. ControlInv'
  <2>1. ~conn.is_connect_ \/ ~conn.keepRunning =>
          \E i \in DOMAIN conn.executed : EndsIt(conn.executed[i])
    BY <1>1 DEF ControlInv, Serving
  <2>2. ~e.is_connect_ \/ ~e.keepRunning =>
          \E i \in DOMAIN e.executed : EndsIt(e.executed[i])
    BY <1>2, <1>3, <1>4, <1>8, <1>9, <2>1, EndStep
  <2>3. pc' # "parsing" => e.read_pos_ = 0 /\ e.offset_ \in -1..(MaxLine - 1)
    BY <1>5, <1>10
  <2> QED BY <1>4, <1>5, <2>2, <2>3 DEF ControlInv
<1>14. QuietInv'
  <2> SUFFICES ASSUME pc' = "wait"
               PROVE  /\ Whole(s, rd', Len(e.executed))
                      /\ ~(interest' = "IN"
                           /\ rd' = EndOfRequest(s, Len(e.executed)))
    BY <1>1, <1>5 DEF QuietInv, s
  <2>1. Whole(s, rd', Len(e.executed))
    BY <1>5, <1>10
  <2>2. CASE Kept(conn, e)
    <3>1. Len(e.executed) = Len(conn.executed)
      BY <2>2 DEF Kept, SameHistory
    <3>2. EndOfRequest(s, Len(conn.executed)) \in Nat
      <4>1. Len(conn.executed) \in 0..Len(s)
        BY <1>9 DEF Done
      <4> QED BY <1>2, <4>1, WireSteps
    <3>3. ~(rd' = EndOfRequest(s, Len(conn.executed)))
      BY <1>6, <3>2 DEF Serving, s
    <3> QED BY <2>1, <3>1, <3>3
  <2>3. CASE Served(s, rd', conn, e)
    <3>1. Len(e.executed) = Len(conn.executed) + 1
      BY <1>3, <2>3 DEF Served, ConnType
    <3>2. rd' = EndOfRequest(s, Len(e.executed)) => e.is_end_read_
      BY <2>3, <3>1 DEF Served
    <3> QED BY <1>5, <2>1, <3>2
  <2> QED BY <1>7, <2>2, <2>3
<1>15. ParserInv'
  <2>1. e.read_buffer_size_ <= MaxLine
    <3>1. e.read_buffer_size_ \in Int /\ d.read_buffer_size_ \in Int
      BY <1>4 DEF ConnType
    <3> QED BY <1>4, <1>10, <3>1
  <2> QED BY <1>1, <1>4, <1>5, <2>1 DEF ParserInv, Serving, s
<1> QED BY <1>11, <1>12, <1>13, <1>14, <1>15 DEF IInv

\* A handler of a reset connection keeps the invariant.
LEMMA FailingStep ==
  ASSUME IInv, Failing
  PROVE  IInv'
<1>0. PICK e : Fails(e)
  BY DEF Failing
<1>1. /\ TypeInv /\ HistoryInv /\ ControlInv
      /\ client' = client /\ rd' = rd /\ got' = got /\ peer' = "gone"
  BY DEF IInv, Failing
<1>2. /\ e.executed = conn.executed /\ e.Reply_ = conn.Reply_
      /\ e.is_connect_ /\ e.keepRunning
  BY <1>0 DEF Fails, Failing, Kept, SameHistory
<1>3. /\ conn' = e
      /\ interest' = IF e.is_end_read_ THEN "OUT" ELSE interest
      /\ pc' \in {"wait", "parsing", "closed", "stopped", "abort", "ub"}
      /\ pc' \in {"wait", "parsing"} => e.status = "ok"
      /\ pc' = "parsing" => ~e.is_end_parsing_
      /\ e.status = "ok" /\ pc' # "parsing" => e.is_end_parsing_
  BY <1>0, Continued DEF Fails
<1>4. TypeInv'
  BY <1>0, <1>1, <1>3 DEF TypeInv, Fails
<1>5. HistoryInv'
  <2>1. /\ Done(client.script, conn) /\ got + conn.Reply_ <= Len(conn.executed)
        /\ (~Silent => got + conn.Reply_ = Len(conn.executed))
    BY <1>1 DEF HistoryInv
  <2>2. /\ Done(client.script, e) /\ got + e.Reply_ <= Len(e.executed)
        /\ (~Silent => got + e.Reply_ = Len(e.executed))
    BY <1>2, <2>1 DEF Done
  <2> QED BY <1>1, <1>3, <2>2, Zenon DEF HistoryInv, Silent
<1>6. ControlInv'
  BY <1>0, <1>1, <1>2, <1>3 DEF ControlInv, Fails
<1>7. QuietInv'
  <2>1. interest' = "IN" => interest = "IN"
    BY <1>3
  <2> QED BY <1>1, <1>2, <1>3, <2>1 DEF QuietInv, Failing
<1>8. ParserInv'
  BY <1>0, <1>1, <1>2, <1>3 DEF ParserInv, Fails, Failing
<1> QED BY <1>4, <1>5, <1>6, <1>7, <1>8 DEF IInv

\* A step that leaves the Conn where it is and does not go on with it.
LEMMA RestStep ==
  ASSUME IInv, pc = "wait", client' = client, rd' = rd, got' = got,
         conn' \in {conn, [conn EXCEPT !.is_connect_ = FALSE]},
         \/ /\ conn' = conn /\ interest' = interest
            /\ pc' = "wait" /\ peer = "up" /\ peer' = "reset"
         \/ /\ pc' \in {"closed", "killed"} /\ interest' = interest
            /\ peer' = peer
  PROVE  IInv'
<1>1. TypeInv /\ HistoryInv /\ ControlInv /\ QuietInv /\ ParserInv
  BY DEF IInv
<1>2. conn \in ConnType
  BY <1>1 DEF TypeInv
<1>3. /\ conn' \in ConnType
      /\ conn'.executed = conn.executed /\ conn'.Reply_ = conn.Reply_
      /\ conn'.status = conn.status /\ conn'.read_pos_ = conn.read_pos_
      /\ conn'.offset_ = conn.offset_
  <2>1. CASE conn' = conn
    BY <1>2, <2>1
  <2>2. CASE conn' = [conn EXCEPT !.is_connect_ = FALSE]
    <3>1. FALSE \in BOOLEAN
      OBVIOUS
    <3>2. [conn EXCEPT !.is_connect_ = FALSE] \in ConnType
      BY <1>2, <3>1, FieldTypes
    <3> QED BY <1>2, <2>2, <3>2 DEF ConnType
  <2> QED BY <2>1, <2>2
<1>4. TypeInv'
  BY <1>1, <1>3 DEF TypeInv
<1>5. HistoryInv'
  <2>1. /\ Done(client.script, conn) /\ got + conn.Reply_ <= Len(conn.executed)
        /\ (~Silent => got + conn.Reply_ = Len(conn.executed))
    BY <1>1 DEF HistoryInv
  <2>2. /\ Done(client'.script, conn')
        /\ got' + conn'.Reply_ <= Len(conn'.executed)
        /\ (~Silent => got' + conn'.Reply_ = Len(conn'.executed))
    BY <1>3, <2>1 DEF Done
  <2> QED BY <2>2, Zenon DEF HistoryInv, Silent
<1>6. ControlInv'
  BY <1>1, <1>3 DEF ControlInv
<1>7. QuietInv'
  BY <1>1 DEF QuietInv
<1>8. ParserInv'
  BY <1>1 DEF ParserInv
<1> QED BY <1>4, <1>5, <1>6, <1>7, <1>8 DEF IInv

\* A read goes on with the script: ReadSettles at the place where the parser
\* waits.
LEMMA ReadServes ==
  ASSUME IInv, Regular, Read, Avoids37Bytes
  PROVE  Serving
<1> DEFINE s == client.script
<1>1. TypeInv /\ HistoryInv /\ ControlInv /\ QuietInv /\ ParserInv
  BY DEF IInv
<1>2. /\ s \in Scripts /\ s \in Script /\ NumbersFit(s)
      /\ client.wire = Wire(s)
  BY <1>1, ClientScript
<1>3. PICK n \in 1..(MaxLine - conn.offset_) :
        /\ n <= Unread /\ rd + n \notin client.sealed /\ rd' = rd + n
        /\ \E c \in {Finterpreter(conn, SubSeq(client.wire, rd + 1, rd + n), n)} :
             After(c)
  BY DEF Read
<1>4. /\ pc = "wait" /\ interest = "IN" /\ peer = "up"
      /\ UNCHANGED <<client, got, peer>>
  BY DEF Read
<1>5. conn \in ConnType /\ rd \in 0..Len(Wire(s)) /\ Len(Wire(s)) \in Nat
  BY <1>1, <1>2, WireSteps DEF TypeInv
<1>6. Rests(s, rd, conn)
  <2>1. conn.status = "ok"
    BY <1>1, <1>4 DEF ControlInv
  <2>2. Waiting(s, rd, conn) /\ Done(s, conn)
    BY <1>1, <1>4 DEF ParserInv, HistoryInv
  <2> QED BY <1>2, <1>5, <2>1, <2>2 DEF Rests
<1>7. /\ MaxLine \in Nat \ {0} /\ conn.offset_ \in 0..(MaxLine - 1)
      /\ Whole(s, rd, Len(conn.executed))
  BY <1>2, <1>6, ConnAssumption, RestsWhole
<1>8. conn.offset_ = conn.read_buffer_size_
  BY <1>6 DEF Rests, Waiting
<1>9. /\ n \in Nat /\ n >= 1 /\ rd + n <= Len(Wire(s)) /\ rd \in Nat
      /\ n + conn.offset_ <= MaxLine
  BY <1>2, <1>3, <1>5, <1>7 DEF Unread
<1>10. n + conn.offset_ # Dollar + 1
  <2>1. MaxLine <= Dollar \/ rd' - rd + conn.read_buffer_size_ # Dollar + 1
    BY DEF Avoids37Bytes
  <2>2. CASE MaxLine <= Dollar
    BY <1>7, <1>9, <2>2 DEF Dollar
  <2>3. CASE rd' - rd + conn.read_buffer_size_ # Dollar + 1
    BY <1>3, <1>7, <1>8, <1>9, <2>3
  <2> QED BY <2>1, <2>2, <2>3
<1> DEFINE chunk == SubSeq(Wire(s), rd + 1, rd + n)
<1>11. PICK e \in {Finterpreter(conn, chunk, n)} : After(e)
  BY <1>2, <1>3
<1>12. PICK d \in {Arrive(conn, chunk, n)} : TRUE
  OBVIOUS
<1>13. /\ d \in ConnType /\ Kept(conn, d)
       /\ d.read_buffer_size_ = n + conn.offset_
  <2>1. /\ Holds(s, rd + n, d, 1) /\ Kept(conn, d)
        /\ d.read_buffer_size_ = n + conn.offset_
    BY <1>6, <1>9, <1>12, ArriveHolds
  <2> QED BY <2>1 DEF Holds
<1>14. Settled(s, rd + n, d, e)
  BY <1>6, <1>9, <1>10, <1>11, <1>12, ReadSettles
<1>15. /\ rd' \in 0..Len(client.wire) /\ rd' \notin client.sealed
       /\ EndOfRequest(s, Len(conn.executed)) < rd'
  <2>1. rd' \in 0..Len(client.wire)
    BY <1>2, <1>3, <1>5, <1>9
  <2>2. EndOfRequest(s, Len(conn.executed)) <= rd
    BY <1>7 DEF Whole
  <2>3. EndOfRequest(s, Len(conn.executed)) \in Nat
    <3>1. Len(conn.executed) \in 0..Len(s)
      BY <1>1 DEF HistoryInv, Done
    <3> QED BY <1>2, <3>1, WireSteps
  <2>4. EndOfRequest(s, Len(conn.executed)) < rd + n
    BY <1>9, <2>2, <2>3
  <2> QED BY <1>3, <2>1, <2>4
<1>16. Serves(d, e)
  BY <1>3, <1>7, <1>9, <1>11, <1>13, <1>14 DEF Serves
<1> QED BY <1>4, <1>15, <1>16 DEF Serving

\* An iteration of the loop goes on with the script, or is one after a read
\* that failed.
LEMMA LoopServesOrFails ==
  ASSUME IInv, Regular, ParseLoop, Avoids37Bytes
  PROVE  Serving \/ Failing
<1> DEFINE s == client.script
<1>1. TypeInv /\ HistoryInv /\ ControlInv /\ QuietInv /\ ParserInv
  BY DEF IInv
<1>2. /\ s \in Scripts /\ s \in Script /\ client.wire = Wire(s)
      /\ CrLfCuts(s, {"array", "length"}) \subseteq client.sealed
  BY <1>1, ClientScript
<1>3. PICK e \in {Memmove(Parsing(conn))} :
        \/ After(e)
        \/ e.status = "ub" /\ e.offset_ < 0 /\ After([e EXCEPT !.status = "ok"])
  BY DEF ParseLoop
<1>4. pc = "parsing" /\ UNCHANGED <<client, rd, got, peer>>
  BY DEF ParseLoop
<1>5. /\ conn \in ConnType /\ rd \in 0..Len(Wire(s)) /\ conn.status = "ok"
      /\ ~conn.is_end_parsing_ /\ Done(s, conn) /\ MaxLine \in Nat \ {0}
  BY <1>1, <1>2, <1>4, ConnAssumption DEF TypeInv, ControlInv, HistoryInv
<1>6. CASE peer # "gone"
  <2>1. /\ InLoop(s, rd, conn) /\ rd \notin client.sealed
        /\ conn.read_buffer_size_ <= MaxLine
    BY <1>1, <1>4, <1>6 DEF ParserInv
  <2>2. Holds(s, rd, conn, 0)
    <3>1. /\ Buffered(s, rd, conn) /\ conn.read_pos_ \in {0, 1}
          /\ conn.read_pos_ <= conn.read_buffer_size_
      BY <2>1 DEF InLoop
    <3>2. /\ conn.read_pos_ \in Nat
          /\ conn.read_pos_ + 0 <= conn.read_buffer_size_
      BY <3>1
    <3> QED BY <1>2, <1>5, <3>1, <3>2 DEF Holds
  <2>3. conn.read_buffer_size_ # Dollar + 1
    <3>1. MaxLine <= Dollar \/ rd' - rd + conn.read_buffer_size_ # Dollar + 1
      BY DEF Avoids37Bytes
    <3>2. conn.read_buffer_size_ \in Int /\ rd' = rd /\ rd \in Int
      BY <1>4, <1>5 DEF ConnType
    <3> QED BY <1>5, <2>1, <3>1, <3>2 DEF Dollar
  <2>4. rd \notin CrLfCuts(s, {"array", "length"})
    BY <1>2, <2>1
  <2>5. Settled(s, rd, conn, e)
    BY <1>3, <2>1, <2>2, <2>3, <2>4, LoopSettles
  <2>6. After(e)
    <3>1. e.status = "ok"
      BY <2>5 DEF Settled
    <3> QED BY <1>3, <3>1
  <2>7. EndOfRequest(s, Len(conn.executed)) < rd
    BY <1>2, <1>5, <2>1, LoopBeyond
  <2>8. Serves(conn, e)
    BY <1>4, <1>5, <2>1, <2>5, <2>6 DEF Serves, Kept, SameHistory
  <2>9. /\ rd' \in 0..Len(client.wire) /\ rd' \notin client.sealed
        /\ EndOfRequest(s, Len(conn.executed)) < rd'
    BY <1>2, <1>4, <1>5, <2>1, <2>7
  <2> QED BY <1>4, <1>6, <2>8, <2>9 DEF Serving
<1>7. CASE peer = "gone"
  <2>1. AfterError(conn) /\ conn.is_connect_ /\ conn.keepRunning
    BY <1>1, <1>4, <1>7 DEF ParserInv
  <2>2. /\ Whole(s, rd, Len(conn.executed))
        /\ interest = "IN" /\ rd = EndOfRequest(s, Len(conn.executed))
             => conn.Reply_ = 0
    BY <1>1, <1>4, <1>7 DEF QuietInv
  <2>3. Halted(conn, e) /\ Halted(conn, [e EXCEPT !.status = "ok"])
    BY <1>3, <1>5, <2>1, FailedLoop
  <2>4. ASSUME NEW f, After(f), Halted(conn, f) PROVE Failing
    <3>1. Fails(f)
      BY <2>4 DEF Halted, Fails
    <3> QED BY <1>4, <1>7, <2>1, <2>2, <3>1 DEF Failing
  <2>5. CASE After(e)
    BY <2>3, <2>4, <2>5
  <2>6. CASE After([e EXCEPT !.status = "ok"])
    BY <2>3, <2>4, <2>6
  <2> QED BY <1>3, <2>5, <2>6
<1> QED BY <1>6, <1>7

\* A read that fails (-1) runs nothing, although AnalyticData parses with the
\* size that it gives.
LEMMA ReadErrorFails ==
  ASSUME IInv, Regular, ReadError
  PROVE  Failing
<1> DEFINE s == client.script
<1>1. TypeInv /\ HistoryInv /\ ControlInv /\ QuietInv /\ ParserInv
  BY DEF IInv
<1>2. /\ s \in Script /\ NumbersFit(s) /\ client.wire = Wire(s)
  BY <1>1, ClientScript
<1>3. PICK e \in {Finterpreter(conn, <<>>, -1)} : After(e)
  BY DEF ReadError
<1>4. /\ pc = "wait" /\ interest = "IN" /\ peer = "reset" /\ peer' = "gone"
      /\ UNCHANGED <<client, rd, got>>
  BY DEF ReadError
<1>5. Rests(s, rd, conn)
  <2>1. conn \in ConnType /\ rd \in 0..Len(Wire(s)) /\ conn.status = "ok"
    BY <1>1, <1>2, <1>4 DEF TypeInv, ControlInv
  <2>2. Waiting(s, rd, conn) /\ Done(s, conn)
    BY <1>1, <1>4 DEF ParserInv, HistoryInv
  <2> QED BY <1>2, <2>1, <2>2 DEF Rests
<1>6. MaxLine \in Nat \ {0} /\ conn.offset_ \in 0..(MaxLine - 1)
  BY <1>2, <1>5, ConnAssumption, RestsWhole
<1>7. /\ e \in ConnType /\ e.status = "ok" /\ Kept(conn, e)
      /\ IF e.is_end_parsing_ THEN e.read_pos_ = 0 /\ e.offset_ = 0
                              ELSE AfterError(e)
  <2>1. conn.offset_ < MaxLine
    BY <1>6
  <2> QED BY <1>3, <1>5, <1>6, <2>1, FailedRead
<1>8. 0 \in -1..(MaxLine - 1)
  BY <1>6
<1>9. /\ conn.is_connect_ /\ conn.keepRunning
      /\ Whole(s, rd, Len(conn.executed))
      /\ interest = "IN" /\ rd = EndOfRequest(s, Len(conn.executed))
           => conn.Reply_ = 0
  BY <1>1, <1>4 DEF ControlInv, QuietInv
<1>10. Fails(e)
  BY <1>3, <1>7, <1>8 DEF Fails
<1> QED BY <1>4, <1>9, <1>10 DEF Failing

\* SendReply writes what is kept and goes back to reading.
LEMMA SendReplyStep ==
  ASSUME IInv, Regular, SendReply
  PROVE  IInv'
<1> DEFINE s == client.script
           e1 == [conn EXCEPT !.Reply_ = 0]
           e == [e1 EXCEPT !.is_end_read_ = FALSE]
<1>1. TypeInv /\ HistoryInv /\ ControlInv /\ QuietInv /\ ParserInv
  BY DEF IInv
<1>2. /\ pc = "wait" /\ conn.Reply_ > 0 /\ got' = got + conn.Reply_
      /\ conn' = e /\ interest' = "IN"
      /\ UNCHANGED <<client, rd, pc, peer>>
  BY DEF SendReply, Sent
<1>3. conn \in ConnType /\ conn.Reply_ \in Nat /\ got \in Nat
  BY <1>1 DEF TypeInv, ConnType
<1>4. e1 \in ConnType /\ e \in ConnType
  <2>1. 0 \in Nat /\ FALSE \in BOOLEAN
    OBVIOUS
  <2>2. e1 \in ConnType
    BY <1>3, <2>1, FieldTypes
  <2> HIDE DEF e1
  <2> QED BY <2>1, <2>2, FieldTypes
<1>5. /\ SameParser(conn, e) /\ SameBuffer(conn, e)
      /\ e.executed = conn.executed /\ e.Reply_ = 0
      /\ e.is_connect_ = conn.is_connect_ /\ e.keepRunning = conn.keepRunning
      /\ e.status = conn.status /\ e.read_pos_ = conn.read_pos_
      /\ e.offset_ = conn.offset_ /\ e.analysis_pos_ = conn.analysis_pos_
      /\ e.is_end_parsing_ = conn.is_end_parsing_
  BY <1>3 DEF ConnType, SameParser, SameBuffer
<1> HIDE DEF e, e1
<1>6. TypeInv'
  BY <1>1, <1>2, <1>3, <1>4 DEF TypeInv
<1>7. HistoryInv'
  <2>1. /\ Done(s, conn) /\ got + conn.Reply_ <= Len(conn.executed)
        /\ (~Silent => got + conn.Reply_ = Len(conn.executed))
    BY <1>1 DEF HistoryInv
  <2>2. got' + conn'.Reply_ = got + conn.Reply_
    BY <1>2, <1>3, <1>5
  <2>3. /\ Done(client'.script, conn')
        /\ got' + conn'.Reply_ <= Len(conn'.executed)
        /\ (~Silent => got' + conn'.Reply_ = Len(conn'.executed))
    BY <1>2, <1>5, <2>1, <2>2 DEF Done
  <2> QED BY <2>3, Zenon DEF HistoryInv, Silent
<1>8. ControlInv'
  BY <1>1, <1>2, <1>5 DEF ControlInv
<1>9. QuietInv'
  BY <1>1, <1>2, <1>5 DEF QuietInv
<1>10. ParserInv'
  <2>1. ReadPos(rd, e) = ReadPos(rd, conn)
    BY <1>5 DEF ReadPos, SameBuffer
  <2>2. Waiting(s, rd, conn) => Waiting(s, rd, e)
    BY <1>5, <2>1, SamePlace DEF Waiting, Buffered, SameBuffer
  <2> QED BY <1>1, <1>2, <2>2 DEF ParserInv
<1> QED BY <1>6, <1>7, <1>8, <1>9, <1>10 DEF IInv

\* A new connection, whatever left_ is, satisfies the invariant.
LEMMA InitHolds ==
  ASSUME Init, Regular
  PROVE  IInv
<1> DEFINE s == client.script
<1>1. PICK script \in Scripts : client = ClientOf(script)
  BY DEF Init
<1>2. PICK garbage \in Uninit : conn = NewConn(garbage)
  BY DEF Init
<1>3. /\ rd = 0 /\ interest = "IN" /\ pc = "wait" /\ got = 0 /\ peer = "up"
      /\ client \in {ClientOf(t) : t \in Scripts}
  BY DEF Init
<1>4. s = script /\ s \in Script /\ client.wire = Wire(s)
  BY <1>1 DEF ClientOf, Regular
<1>5. garbage \in Int /\ MaxLine \in Nat \ {0}
  BY ConnAssumption
<1>6. /\ conn.state_ = "kBluk" /\ conn.read_buffer_ = <<>>
      /\ conn.read_buffer_size_ = 0 /\ conn.bluk_length_ = -1
      /\ conn.offset_ = 0 /\ conn.analysis_pos_ = 0 /\ conn.read_pos_ = 0
      /\ conn.is_connect_ /\ conn.argv_ = <<>> /\ conn.data_ = <<>>
      /\ conn.Reply_ = 0 /\ conn.status = "ok" /\ conn.keepRunning
      /\ conn.executed = <<>>
  BY <1>2 DEF NewConn
<1>7. conn \in ConnType
  <2>1. <<>> \in Seq(Char) /\ <<>> \in Seq(Seq(Char))
        /\ <<>> \in Seq(Seq(Seq(Char)))
    OBVIOUS
  <2>2. -1 \in Int /\ 0 \in Int /\ 0 \in Nat
    OBVIOUS
  <2> QED BY <1>2, <1>5, <2>1, <2>2 DEF NewConn, ConnType
<1>8. /\ EndOfRequest(s, 0) = 0 /\ Len(Wire(s)) \in Nat /\ Len(s) \in Nat
      /\ Len(conn.executed) = 0
  BY <1>4, <1>6, WireSteps DEF Script
<1>9. TypeInv
  BY <1>3, <1>4, <1>7, <1>8 DEF TypeInv
<1>10. Done(s, conn)
  BY <1>8 DEF Done
<1>11. HistoryInv
  BY <1>3, <1>6, <1>8, <1>10 DEF HistoryInv
<1>12. ControlInv
  BY <1>3, <1>5, <1>6 DEF ControlInv
<1>13. Waiting(s, rd, conn)
  <2>1. Buffered(s, rd, conn)
    BY <1>3, <1>6 DEF Buffered
  <2>2. AtRequest(s, conn, 0)
    BY <1>6, <1>8 DEF AtRequest
  <2>3. ReadPos(rd, conn) = 0
    BY <1>3, <1>6 DEF ReadPos
  <2> QED BY <1>3, <1>6, <2>1, <2>2, <2>3 DEF Waiting, Starved
<1>14. ParserInv
  BY <1>3, <1>13 DEF ParserInv
<1>15. Whole(s, rd, Len(conn.executed))
  <2>1. Rests(s, rd, conn)
    BY <1>3, <1>4, <1>6, <1>7, <1>8, <1>10, <1>13 DEF Rests
  <2> QED BY <1>5, <2>1, RestsWhole
<1>16. QuietInv
  BY <1>6, <1>15 DEF QuietInv
<1> QED BY <1>9, <1>11, <1>12, <1>14, <1>16 DEF IInv

\* The inductive invariant: at each step the parser stands at a place of the
\* wire, and what ran, was kept and was received agree with it.
THEOREM InvHolds ==
  ASSUME Regular
  PROVE  Spec /\ [][Avoids37Bytes]_vars => []IInv
<1>1. Init => IInv
  BY InitHolds
<1>2. IInv /\ [Next]_vars /\ [Avoids37Bytes]_vars => IInv'
  <2> SUFFICES ASSUME IInv, [Next]_vars, [Avoids37Bytes]_vars PROVE IInv'
    OBVIOUS
  <2>1. CASE Read /\ Avoids37Bytes
    BY <2>1, ReadServes, ServingStep
  <2>2. CASE ReadZero
    BY <2>2, RestStep DEF ReadZero
  <2>3. CASE ReadError
    BY <2>3, ReadErrorFails, FailingStep
  <2>4. CASE ParseLoop /\ Avoids37Bytes
    BY <2>4, LoopServesOrFails, ServingStep, FailingStep
  <2>5. CASE SendReply
    BY <2>5, SendReplyStep
  <2>6. CASE SendError
    BY <2>6, RestStep DEF SendError
  <2>7. CASE ResetByPeer
    BY <2>7, RestStep DEF ResetByPeer
  <2>8. CASE UNCHANGED vars
    BY <2>8 DEF vars, IInv, TypeInv, HistoryInv, ControlInv, QuietInv, ParserInv
  <2> QED BY <2>1, <2>2, <2>3, <2>4, <2>5, <2>6, <2>7, <2>8 DEF Next
<1> QED BY <1>1, <1>2, PTL DEF Spec

-----------------------------------------------------------------------------
\* Spec keeps the types, the bound MaxLine of the buffer among them.
THEOREM TypeCorrect ==
  ASSUME Regular
  PROVE  Spec /\ [][Avoids37Bytes]_vars => []TypeOK
<1>1. ASSUME IInv PROVE TypeOK
  <2>1. TypeInv /\ ControlInv
    BY <1>1 DEF IInv
  <2>2. client.script \in Scripts
    BY <2>1, ClientScript
  <2>3. conn \in ConnType
    BY <2>1 DEF TypeInv
  <2>4. conn.status = "ok" /\ pc # "parsing" =>
          conn.read_pos_ = 0 /\ conn.offset_ \in -1..MaxLine
    <3>1. MaxLine \in Nat
      BY ConnAssumption
    <3> QED BY <2>1, <3>1 DEF ControlInv
  <2>5. /\ conn.state_ \in {"kBluk", "kMultiBluk", "kParseString"}
        /\ {conn.is_connect_, conn.is_end_parsing_, conn.is_end_read_,
            conn.keepRunning} \subseteq BOOLEAN
        /\ conn.Reply_ \in Nat /\ conn.status \in {"ok", "abort", "ub"}
    BY <2>3 DEF ConnType
  <2> QED BY <2>1, <2>2, <2>4, <2>5 DEF TypeInv, TypeOK
<1> QED BY <1>1, InvHolds, PTL

\* While its client is there, no assert of Conn::Assert fails and no read of a
\* position outside the buffer, or other undefined behaviour, happens.
THEOREM AssertsHold ==
  ASSUME Regular
  PROVE  Spec /\ [][Avoids37Bytes]_vars => []NoAssertFailure
<1>1. IInv => NoAssertFailure
  BY DEF IInv, ControlInv, NoAssertFailure
<1> QED BY <1>1, InvHolds, PTL

\* The requests that run are those that were sent, byte for byte, complete, in
\* order and once, however the stream was cut.
THEOREM RequestsInOrder ==
  ASSUME Regular
  PROVE  Spec /\ [][Avoids37Bytes]_vars => []ExecutedPrefix
<1>1. ASSUME IInv PROVE ExecutedPrefix
  <2> DEFINE s == client.script
             x == conn.executed
  <2>1. Done(s, conn) /\ conn \in ConnType /\ TypeInv
    BY <1>1 DEF IInv, HistoryInv, TypeInv
  <2>2. s \in Seq(Request) /\ x \in Seq(Seq(Seq(Char)))
    BY <2>1, ClientScript DEF Script, ConnType
  <2>3. /\ Len(x) \in Nat /\ Len(s) \in Nat /\ Len(x) <= Len(s)
        /\ \A i \in 1..Len(x) : x[i] = s[i]
    BY <2>1, <2>2 DEF Done
  <2> HIDE DEF s, x
  <2>4. /\ SubSeq(x, 1, Len(x)) = [i \in 1..Len(x) |-> x[i]]
        /\ SubSeq(s, 1, Len(x)) = [i \in 1..Len(x) |-> s[i]]
    BY <2>2, <2>3
  <2>5. SubSeq(x, 1, Len(x)) = SubSeq(s, 1, Len(x))
    BY <2>3, <2>4
  <2> QED BY <2>3, <2>5 DEF ExecutedPrefix, IsPrefix, x, s
<1> QED BY <1>1, InvHolds, PTL

\* Requests end where their bytes do: the first n bytes hold a request whole
\* exactly if it is among the first q.
LEMMA WholeRequests ==
  ASSUME NEW s \in Script, NEW n \in Nat, NEW q \in 0..Len(s), Whole(s, n, q),
         NEW k \in 0..Len(s)
  PROVE  /\ EndOfRequest(s, k) <= n <=> k <= q
         /\ EndOfRequest(s, k) = n => k = q
<1> DEFINE E(j) == EndOfRequest(s, j)
<1>1. /\ Len(s) \in Nat /\ E(q) <= n /\ (q < Len(s) => n < E(q + 1))
      /\ E(k) \in Nat /\ E(q) \in Nat
      /\ q + 1 \in 0..Len(s) => E(q + 1) \in Nat
  BY WireSteps DEF Whole, Script
<1>2. k < q => E(k) < E(q)
  BY RequestEnds
<1>3. q + 1 \in 0..Len(s) /\ q + 1 < k => E(q + 1) < E(k)
  BY RequestEnds
<1>4. k \in Nat /\ q \in Nat
  OBVIOUS
<1> HIDE DEF E
<1>5. CASE k < q
  BY <1>1, <1>2, <1>4, <1>5 DEF E
<1>6. CASE k = q
  BY <1>1, <1>4, <1>6 DEF E
<1>7. CASE q < k
  <2>1. q < Len(s) /\ q + 1 \in 0..Len(s)
    BY <1>1, <1>4, <1>7
  <2>2. n < E(q + 1) /\ E(q + 1) \in Nat
    BY <1>1, <2>1
  <2>3. E(q + 1) <= E(k)
    <3>1. CASE q + 1 = k
      BY <1>1, <2>2, <3>1
    <3>2. CASE q + 1 < k
      BY <1>1, <1>3, <2>1, <2>2, <3>2
    <3> QED BY <1>4, <1>7, <3>1, <3>2
  <2>4. n < E(k)
    BY <1>1, <2>2, <2>3
  <2> QED BY <1>1, <1>4, <1>7, <2>4 DEF E
<1> QED BY <1>4, <1>5, <1>6, <1>7

\* The connection waits between two events of the loop.
LEMMA WaitsWhole ==
  ASSUME IInv, Regular, pc = "wait"
  PROVE  /\ client.script \in Script /\ rd \in Nat
         /\ Len(conn.executed) \in 0..Len(client.script)
         /\ Whole(client.script, rd, Len(conn.executed))
         /\ client.ends = {EndOfRequest(client.script, k) :
                             k \in 1..Len(client.script)}
<1>1. TypeInv /\ QuietInv /\ Done(client.script, conn)
  BY DEF IInv, HistoryInv
<1>2. client.script \in Script /\ client.wire = Wire(client.script)
      /\ client.ends = {EndOfRequest(client.script, k) :
                          k \in 1..Len(client.script)}
  BY <1>1, ClientScript
<1>3. rd \in Nat
  <2>1. Len(client.wire) \in Nat
    BY <1>2, WireSteps
  <2> QED BY <1>1, <2>1 DEF TypeInv
<1> QED BY <1>1, <1>2, <1>3 DEF QuietInv, Done

\* When a connection waits, each request that was read to its last byte has
\* run: none waits in the buffer for an event that need not come.
THEOREM NoneLeftBehind ==
  ASSUME Regular
  PROVE  Spec /\ [][Avoids37Bytes]_vars => []NoRequestLeftBehind
<1>1. ASSUME IInv PROVE NoRequestLeftBehind
  <2> SUFFICES ASSUME pc = "wait"
               PROVE  Len(conn.executed)
                        = Cardinality({b \in client.ends : b <= rd})
    BY DEF NoRequestLeftBehind
  <2> DEFINE s == client.script
             q == Len(conn.executed)
             E(j) == EndOfRequest(s, j)
             T == {b \in client.ends : b <= rd}
  <2>1. /\ s \in Script /\ rd \in Nat /\ q \in 0..Len(s) /\ Whole(s, rd, q)
        /\ client.ends = {E(k) : k \in 1..Len(s)}
    BY <1>1, WaitsWhole
  <2>2. Len(s) \in Nat /\ q \in Nat
    BY <2>1 DEF Script
  <2>3. \A k \in 1..Len(s) : E(k) <= rd <=> k <= q
    BY <2>1, WholeRequests
  <2> HIDE DEF s, q
  <2>4. T = {E(k) : k \in 1..q}
    <3>1. \A k \in 1..q : k \in 1..Len(s)
      BY <2>1, <2>2
    <3>2. \A k \in 1..Len(s) : k <= q => k \in 1..q
      BY <2>2
    <3>3. \A k \in 1..q : k <= q
      OBVIOUS
    <3> HIDE DEF E
    <3> QED BY <2>1, <2>3, <3>1, <3>2, <3>3
  <2>5. ASSUME NEW j \in 1..q, NEW k \in 1..q, j # k PROVE E(j) # E(k)
    <3>1. j \in 0..Len(s) /\ k \in 0..Len(s)
      BY <2>1, <2>2
    <3>2. E(j) \in Nat /\ E(k) \in Nat
      BY <2>1, <3>1, WireSteps
    <3>3. j < k => E(j) < E(k)
      BY <2>1, <3>1, RequestEnds
    <3>4. k < j => E(k) < E(j)
      BY <2>1, <3>1, RequestEnds
    <3> QED BY <2>5, <3>2, <3>3, <3>4
  <2> DEFINE f == [k \in 1..q |-> E(k)]
  <2> HIDE DEF E, T
  <2>6. f \in Bijection(1..q, T)
    BY <2>4, <2>5 DEF Bijection, Injection, Surjection, IsInjective
  <2>7. /\ IsFiniteSet(1..q) /\ Cardinality(1..q) = q
    BY <2>2, FS_Interval, SMTT(30)
  <2>8. Cardinality(T) = q
    BY <2>6, <2>7, FS_Bijection DEF ExistsBijection
  <2> QED BY <2>8 DEF T, q
<1> QED BY <1>1, InvHolds, PTL

\* A connection that waits to read between two requests has no reply that it
\* did not write.
THEOREM NothingOwed ==
  ASSUME Regular
  PROVE  Spec /\ [][Avoids37Bytes]_vars => []NothingOwedAtBoundary
<1>1. ASSUME IInv PROVE NothingOwedAtBoundary
  <2> SUFFICES ASSUME pc = "wait", interest = "IN", rd \in client.ends
               PROVE  conn.Reply_ = 0
    BY DEF NothingOwedAtBoundary
  <2> DEFINE s == client.script
             q == Len(conn.executed)
  <2>1. /\ s \in Script /\ rd \in Nat /\ q \in 0..Len(s) /\ Whole(s, rd, q)
        /\ client.ends = {EndOfRequest(s, k) : k \in 1..Len(s)}
    BY <1>1, WaitsWhole
  <2>2. PICK k \in 1..Len(s) : rd = EndOfRequest(s, k)
    BY <2>1
  <2>3. k \in 0..Len(s)
    OBVIOUS
  <2>4. k = q
    BY <2>1, <2>2, <2>3, WholeRequests
  <2> QED BY <1>1, <2>2, <2>4 DEF IInv, QuietInv
<1> QED BY <1>1, InvHolds, PTL

\* When a connection waits, the next read has room for a byte in the buffer,
\* after a failed read too.
THEOREM RoomIsLeft ==
  ASSUME Regular
  PROVE  Spec /\ [][Avoids37Bytes]_vars => []RoomToRead
<1>1. IInv => RoomToRead
  <2>1. MaxLine \in Nat
    BY ConnAssumption
  <2> QED BY <2>1 DEF IInv, ControlInv, RoomToRead
<1> QED BY <1>1, InvHolds, PTL

-----------------------------------------------------------------------------
\* How a handler that goes on with the script looks to the client.
LEMMA ServingStream ==
  ASSUME IInv, Regular, Serving
  PROVE  Stream!Next \/ UNCHANGED Stream!vars
<1> DEFINE s == client.script
<1>0. PICK d, e : Serves(d, e)
  BY DEF Serving
<1>1. /\ TypeInv /\ ControlInv /\ conn \in ConnType /\ Done(s, conn)
      /\ s \in Script
  <2>1. TypeInv /\ HistoryInv /\ ControlInv
    BY DEF IInv
  <2> QED BY <2>1, ClientScript DEF TypeInv, HistoryInv
<1>2. /\ e \in ConnType /\ e.status = "ok" /\ After(e)
      /\ Kept(conn, d) /\ (Kept(d, e) \/ Served(s, rd', d, e))
      /\ UNCHANGED <<client, got, peer>> /\ pc \in {"wait", "parsing"}
  BY <1>0 DEF Serving, Serves, Settled
<1>3. Kept(conn, e) \/ Served(s, rd', conn, e)
  BY <1>2 DEF Kept, SameHistory, Served
<1>4. /\ conn' = e /\ pc' \in {"wait", "parsing", "closed", "stopped"}
      /\ pc' \in {"closed", "stopped"} => ~e.is_connect_ \/ ~e.keepRunning
  BY <1>2, Continued
<1>5. ~conn.is_connect_ \/ ~conn.keepRunning =>
        \E i \in DOMAIN conn.executed : EndsIt(conn.executed[i])
  BY <1>1, <1>2 DEF ControlInv
<1>6. ~e.is_connect_ \/ ~e.keepRunning =>
        \E i \in DOMAIN e.executed : EndsIt(e.executed[i])
  <2>1. rd' \in Nat
    <3>1. Len(client.wire) \in Nat
      BY <1>1, ClientScript, WireSteps
    <3> QED BY <3>1 DEF Serving
  <2>2. Progress(s, conn, e)
    BY <1>3, <2>1 DEF Progress
  <2> QED BY <1>1, <1>2, <1>5, <2>2, EndStep
<1>7. pc \notin {"closed", "stopped"}
  BY <1>2
<1>8. CASE Kept(conn, e)
  <2>1. e.executed = conn.executed
    BY <1>8 DEF Kept, SameHistory
  <2>2. CASE pc' \in {"wait", "parsing"}
    <3>1. (pc' \notin {"closed", "stopped"}) = (pc \notin {"closed", "stopped"})
      BY <1>7, <2>2
    <3> QED BY <1>2, <1>4, <2>1, <3>1 DEF Stream!vars
  <2>3. CASE pc' \in {"closed", "stopped"}
    <3>1. \E i \in DOMAIN conn.executed :
             Effect(conn.executed[i]) \in {"exit", "shutdown"}
      BY <1>4, <1>6, <2>1, <2>3 DEF EndsIt
    <3>2. Stream!Ended(conn.executed)
      BY <3>1 DEF Stream!Ended
    <3>3. Stream!Hangup
      BY <1>2, <1>4, <2>1, <2>3, <3>2 DEF Stream!Hangup
    <3> QED BY <3>3 DEF Stream!Next
  <2> QED BY <1>4, <2>2, <2>3
<1>9. CASE Served(s, rd', conn, e)
  <2>1. /\ Len(conn.executed) < Len(s)
        /\ e.executed = Append(conn.executed, s[Len(conn.executed) + 1])
    BY <1>9 DEF Served
  <2>2. (pc' \notin {"closed", "stopped"})
          \in {TRUE, ~Stream!Ended(e.executed)}
    <3>1. CASE pc' \in {"closed", "stopped"}
      <4>1. \E i \in DOMAIN e.executed :
               Effect(e.executed[i]) \in {"exit", "shutdown"}
        BY <1>4, <1>6, <3>1 DEF EndsIt
      <4>2. Stream!Ended(e.executed)
        BY <4>1 DEF Stream!Ended
      <4> QED BY <3>1, <4>2
    <3>2. CASE pc' \notin {"closed", "stopped"}
      BY <3>2
    <3> QED BY <3>1, <3>2
  <2>3. Stream!Execute
    BY <1>2, <1>4, <1>7, <2>1, <2>2 DEF Stream!Execute
  <2> QED BY <2>3 DEF Stream!Next
<1> QED BY <1>3, <1>8, <1>9

\* How the handlers of a reset connection look to the client: like nothing.
LEMMA FailingStream ==
  ASSUME Failing
  PROVE  UNCHANGED Stream!vars
<1>1. PICK e : Fails(e)
  BY DEF Failing
<1>2. e \in ConnType /\ After(e)
      /\ e.executed = conn.executed /\ e.is_connect_ /\ e.keepRunning
  BY <1>1 DEF Fails, Failing, Kept, SameHistory
<1>3. conn' = e /\ pc' \notin {"closed", "stopped"}
  BY <1>2, Continued DEF ConnType
<1>4. /\ pc \notin {"closed", "stopped"} /\ peer # "up" /\ peer' # "up"
      /\ client' = client /\ got' = got
  BY DEF Failing
<1>5. /\ (pc' \notin {"closed", "stopped"}) = (pc \notin {"closed", "stopped"})
      /\ (peer' # "up") = (peer # "up")
  BY <1>3, <1>4
<1> QED BY <1>2, <1>3, <1>4, <1>5 DEF Stream!vars

\* A client whose requests were all read, while the connection waits to read,
\* has all its replies.
LEMMA AllServed ==
  ASSUME IInv, Regular, ~Silent, pc = "wait", interest = "IN",
         rd = Len(client.wire)
  PROVE  got = Len(client.script)
<1> DEFINE s == client.script
           q == Len(conn.executed)
<1>1. TypeInv /\ HistoryInv /\ QuietInv
  BY DEF IInv
<1>2. /\ s \in Script /\ client.wire = Wire(s)
  BY <1>1, ClientScript
<1>3. /\ rd \in Nat /\ q \in 0..Len(s) /\ Whole(s, rd, q)
  BY WaitsWhole
<1>4. Len(s) \in 0..Len(s) /\ EndOfRequest(s, Len(s)) = rd
  BY <1>2, WireSteps DEF Script
<1>5. Len(s) = q
  BY <1>2, <1>3, <1>4, WholeRequests
<1>6. conn.Reply_ = 0 /\ got + conn.Reply_ = q /\ got \in Nat
  BY <1>1, <1>4, <1>5 DEF QuietInv, HistoryInv, TypeInv
<1> QED BY <1>5, <1>6

\* Refinement: without silent commands a connection implements RequestStream;
\* each step is one of the stream, or a stutter.
THEOREM IsStream ==
  ASSUME Regular, ~Silent
  PROVE  Spec /\ [][Avoids37Bytes]_vars => StreamSpec
<1>1. Init => Stream!Init
  <2> SUFFICES ASSUME Init PROVE Stream!Init
    OBVIOUS
  <2>1. IInv
    BY InitHolds
  <2>2. client.script \in Scripts
    BY <2>1, ClientScript DEF IInv
  <2>3. conn.executed = <<>> /\ got = 0 /\ peer = "up" /\ pc = "wait"
    BY DEF Init, NewConn
  <2> QED BY <2>2, <2>3 DEF Stream!Init
<1>2. IInv /\ [Next]_vars /\ [Avoids37Bytes]_vars => [Stream!Next]_(Stream!vars)
  <2> SUFFICES ASSUME IInv, [Next]_vars, [Avoids37Bytes]_vars
               PROVE  Stream!Next \/ UNCHANGED Stream!vars
    OBVIOUS
  <2>1. CASE Read /\ Avoids37Bytes
    BY <2>1, ReadServes, ServingStream
  <2>2. CASE ReadZero
    <3>1. /\ pc = "wait" /\ interest = "IN" /\ pc' = "closed"
          /\ Unread = 0 \/ peer = "gone" \/ conn.offset_ >= MaxLine
          /\ conn' = [conn EXCEPT !.is_connect_ = FALSE]
          /\ UNCHANGED <<client, got, peer>>
      BY <2>2 DEF ReadZero
    <3>2. /\ conn.offset_ < MaxLine /\ rd \in Nat /\ Len(client.wire) \in Nat
          /\ conn \in ConnType /\ MaxLine \in Nat
      <4>1. Len(client.wire) \in Nat
        BY ClientScript, WireSteps DEF IInv
      <4> QED BY <3>1, <4>1, ConnAssumption DEF IInv, ControlInv, TypeInv
    <3>3. got = Len(client.script) \/ peer # "up"
      <4>1. CASE Unread = 0
        <5>1. rd = Len(client.wire)
          BY <3>2, <4>1 DEF Unread
        <5> QED BY <3>1, <5>1, AllServed
      <4>2. CASE peer = "gone"
        BY <4>2
      <4>3. CASE conn.offset_ >= MaxLine
        BY <3>2, <4>3 DEF ConnType
      <4> QED BY <3>1, <4>1, <4>2, <4>3
    <3>4. conn'.executed = conn.executed
      BY <3>1, <3>2 DEF ConnType
    <3>5. Stream!Hangup
      BY <3>1, <3>3, <3>4 DEF Stream!Hangup
    <3> QED BY <3>5 DEF Stream!Next
  <2>3. CASE ReadError
    BY <2>3, ReadErrorFails, FailingStream
  <2>4. CASE ParseLoop /\ Avoids37Bytes
    BY <2>4, LoopServesOrFails, ServingStream, FailingStream
  <2>5. CASE SendReply
    <3>1. /\ pc = "wait" /\ conn.Reply_ > 0 /\ got' = got + conn.Reply_
          /\ conn'.executed = conn.executed
          /\ UNCHANGED <<client, pc, peer>>
      BY <2>5 DEF SendReply, Sent, IInv, TypeInv, ConnType
    <3>2. /\ got \in Nat /\ conn.Reply_ \in Nat /\ Len(conn.executed) \in Nat
          /\ got + conn.Reply_ <= Len(conn.executed)
      BY DEF IInv, TypeInv, HistoryInv, ConnType
    <3>3. got' \in (got + 1)..Len(conn.executed)
      BY <3>1, <3>2
    <3>4. Stream!Reply
      BY <3>1, <3>3 DEF Stream!Reply
    <3> QED BY <3>4 DEF Stream!Next
  <2>6. CASE SendError
    BY <2>6 DEF SendError, Stream!vars
  <2>7. CASE ResetByPeer
    <3>1. Stream!Leave
      BY <2>7 DEF ResetByPeer, Stream!Leave
    <3> QED BY <3>1 DEF Stream!Next
  <2>8. CASE UNCHANGED vars
    BY <2>8 DEF vars, Stream!vars
  <2> QED BY <2>1, <2>2, <2>3, <2>4, <2>5, <2>6, <2>7, <2>8 DEF Next
<1>3. Spec /\ [][Avoids37Bytes]_vars => []IInv
  BY InvHolds
<1> QED BY <1>1, <1>2, <1>3, PTL DEF Spec, StreamSpec, Stream!Spec
=============================================================================
