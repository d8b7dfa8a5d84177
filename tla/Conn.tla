--------------------------------- MODULE Conn ---------------------------------
(***************************************************************************)
(* One client connection: class Conn (src/kv_conn.cc), the incremental     *)
(* request parser and the reply side, driven by readiness events.  Every   *)
(* wake-up appends the bytes of one read to read_buffer_, resumes the      *)
(* parser where the previous read left it, and runs each request at the    *)
(* byte that completes it.  The members of the C++ object are the fields   *)
(* of the record conn and its methods are operators on that record; the    *)
(* while loop of Finterpreter is one step (ParseLoop) per iteration.       *)
(*                                                                         *)
(* Positions are 0-based as in the code.  read_buffer_ holds the bytes     *)
(* that were read and not dropped; no decision depends on the bytes beyond *)
(* them, and they are NUL here.  The client may send its whole script all  *)
(* at once; a read returns any part of what is there, so every pacing and  *)
(* fragmentation of the client is covered.                                 *)
(***************************************************************************)
EXTENDS RespWire, FiniteSets, TLC

CONSTANTS
  MaxLine,       \* MAXLINE, the size of read_buffer_
  Scripts,       \* the request sequences a client may send
  SplitKinds,    \* frames whose CR and LF may arrive in different reads
  Effect(_),     \* what the command of a request does: see Effects
  Uninit,        \* the values the uninitialised left_ of a new Conn may have
  PeerResets     \* may the client reset the connection?

Effects == {"reply", "silent", "exit", "shutdown"}

ASSUME ConnAssumption ==
  /\ MaxLine \in Nat \ {0}
  /\ SplitKinds \subseteq {"array", "length", "payload"}
  /\ Uninit \subseteq Int /\ Uninit # {}
  /\ PeerResets \in BOOLEAN
  /\ \A s \in Scripts : \A i \in DOMAIN s : Effect(s[i]) \in Effects

VARIABLES
  client,        \* the client: its script and the encoding, chosen once
  rd,            \* how many bytes of the script's encoding the server has read
  conn,          \* the Conn object
  interest,      \* what epoll watches the socket for: "IN" or "OUT"
  pc,            \* where the server is with this connection
  got,           \* how many replies the client received
  peer           \* "up"; "reset", the reset not yet read; or "gone"

vars == <<client, rd, conn, interest, pc, got, peer>>

\* A client's requests, their bytes, the number of bytes up to the end of
\* each request, and the positions where no read ends.
ClientOf(script) ==
  [ script |-> script,
    wire   |-> Wire(script),
    ends   |-> {EndOfRequest(script, k) : k \in 1..Len(script)},
    sealed |-> CrLfCuts(script, {"array", "length", "payload"} \ SplitKinds) ]

-----------------------------------------------------------------------------
\* The constructor Conn::Conn.  left_ is not in its initialiser list.
NewConn(garbage) ==
  [ state_ |-> "kBluk",            \* kBluk, kMultiBluk or kParseString
    read_buffer_ |-> <<>>,
    read_buffer_size_ |-> 0,
    left_ |-> garbage,             \* bytes of the payload still to come
    bluk_length_ |-> -1,           \* arguments still to come
    offset_ |-> 0,                 \* bytes kept for the next read
    analysis_pos_ |-> 0,
    read_pos_ |-> 0,
    is_connect_ |-> TRUE,
    is_end_parsing_ |-> FALSE,
    is_end_read_ |-> FALSE,
    argv_ |-> <<>>,
    data_ |-> <<>>,
    Reply_ |-> 0,                  \* replies appended to the string Reply_
    status |-> "ok",               \* "abort": an assert failed; "ub"
    keepRunning |-> TRUE,
    executed |-> <<>> ]            \* history: the argv_ of every GetRequest

\* A failed assert or undefined behaviour ends the handler on the spot: every
\* method called after another leaves a Conn that is not Ok as it is.
Ok(c) == c.status = "ok"

At(c, i) == IF i \in 0..(Len(c.read_buffer_) - 1) THEN c.read_buffer_[i + 1]
                                                  ELSE NUL

\* strchr: where b first stands in s, counted from 1; 0 if it does not.
StrChr(s, b) == SelectInSeq(s, LAMBDA x : x = b)

\* buffer_ = read_buffer_ copies a C string: it ends at the first NUL.
CString(c) ==
  LET nul == StrChr(c.read_buffer_, NUL)
  IN  IF nul = 0 THEN c.read_buffer_ ELSE SubSeq(c.read_buffer_, 1, nul - 1)

\* std::string::substr and append: at most n bytes from pos, all if n < 0.
Substr(s, pos, n) ==
  IF n < 0 \/ pos + n > Len(s) THEN SubSeq(s, pos + 1, Len(s))
                               ELSE SubSeq(s, pos + 1, pos + n)

EndParsing(c) == [c EXCEPT !.is_end_parsing_ = TRUE]

\* Mutant: analysis_pos_ is reset, read_pos_ is not.
MemmoveKeepsReadPos(c) ==
  [c EXCEPT !.offset_ = c.read_buffer_size_ - c.read_pos_,
            !.read_buffer_ = SubSeq(@, c.read_pos_ + 1, c.read_buffer_size_),
            !.read_buffer_size_ = c.read_buffer_size_ - c.read_pos_,
            !.analysis_pos_ = 0]

\* Keeps the bytes from read_pos_ on.  A negative count is undefined.
Memmove(c) ==
  LET offset == c.read_buffer_size_ - c.read_pos_
  IN  IF ~Ok(c) THEN c
      ELSE [c EXCEPT
        !.offset_ = offset,
        !.read_buffer_ = SubSeq(@, c.read_pos_ + 1, c.read_buffer_size_),
        !.read_buffer_size_ = offset,
        !.analysis_pos_ = 0,
        !.read_pos_ = 0,
        !.status = IF offset < 0 THEN "ub" ELSE @]

\* Mutant: argv_ is not cleared.
ResetKeepsArgv(c) ==
  [c EXCEPT !.bluk_length_ = -1, !.left_ = -1, !.state_ = "kBluk",
            !.data_ = <<>>]

Reset(c) ==
  IF ~Ok(c) THEN c
  ELSE [c EXCEPT !.bluk_length_ = -1, !.left_ = -1, !.state_ = "kBluk",
                 !.argv_ = <<>>, !.data_ = <<>>]

\* Runs the command.  argv_[0] of an empty argv_ is undefined.
GetRequest(c) ==
  IF c.argv_ = <<>> THEN [c EXCEPT !.status = "ub"]
  ELSE LET effect == Effect(c.argv_)
       IN  [c EXCEPT !.executed = Append(@, c.argv_),
                     !.Reply_ = IF effect = "silent" THEN @ ELSE @ + 1,
                     !.is_connect_ = @ /\ effect # "exit",
                     !.keepRunning = @ /\ effect # "shutdown"]

-----------------------------------------------------------------------------
(***************************************************************************)
(* Assert checks the CRLF at read_pos_ and moves the parser on.            *)
(***************************************************************************)

\* After "$N" comes its payload; after "*N" and after a payload comes "$".
NextFrame(c) ==
  IF c.state_ = "kMultiBluk"
    THEN [c EXCEPT !.state_ = "kParseString"]
    ELSE [c EXCEPT !.state_ = "kMultiBluk",
                   !.bluk_length_ = IF c.state_ = "kParseString" THEN @ - 1
                                                                 ELSE @]

\* Mutant: a request always ends the parsing of the buffer.
RequestCompleteStops(c) ==
  Reset(GetRequest([EndParsing(c) EXCEPT !.read_pos_ = c.read_buffer_size_,
                                         !.is_end_read_ = TRUE]))

\* The last argument is complete: run the request.  It is the last one of
\* the buffer unless a '*' follows.
RequestComplete(c) ==
  LET last == c.read_buffer_size_ - 1
      stop == [EndParsing(c) EXCEPT !.read_pos_ = c.read_buffer_size_]
      next == IF c.read_pos_ + 1 = last \/ At(c, c.read_pos_ + 2) # Star
                THEN [stop EXCEPT !.is_end_read_ = TRUE]
              ELSE IF c.read_pos_ + 2 = last THEN stop
              ELSE [c EXCEPT !.read_pos_ = @ + 3]
  IN  Reset(GetRequest(next))

\* The comparison of the character '$' with the index is the code's.
SkipToFrame(c) ==
  LET last == c.read_buffer_size_ - 1
  IN  IF c.read_pos_ + 1 = last
        THEN [EndParsing(c) EXCEPT !.read_pos_ = c.read_buffer_size_]
      ELSE IF At(c, c.read_pos_ + 2) = Dollar /\ c.state_ = "kMultiBluk"
        THEN IF At(c, c.read_pos_ + 2) = last
               THEN [EndParsing(c) EXCEPT !.read_pos_ = c.read_buffer_size_]
               ELSE [c EXCEPT !.read_pos_ = @ + 3]
      ELSE [c EXCEPT !.read_pos_ = @ + 2, !.analysis_pos_ = c.read_pos_ + 2]

\* Mutant: a CR at the end of the buffer is not left for the next read.
AssertNoSplitCrLf(c) ==
  LET r == c.read_pos_
      d == NextFrame(c)
  IN  IF r = c.read_buffer_size_ THEN EndParsing(c)
      ELSE IF At(c, r) # CR \/ At(c, r + 1) # LF THEN [c EXCEPT !.status = "abort"]
      ELSE IF d.bluk_length_ = 0 /\ d.left_ = 0 THEN RequestComplete(d)
      ELSE SkipToFrame(d)

Assert_(c) ==
  LET r == c.read_pos_
      n == c.read_buffer_size_
      d == NextFrame(c)
  IN  IF ~Ok(c) THEN c
      ELSE IF r = n THEN EndParsing(c)
      ELSE IF At(c, r) # CR THEN [c EXCEPT !.status = "abort"]
      ELSE IF r = n - 1 THEN EndParsing(c)
      ELSE IF At(c, r + 1) # LF THEN [c EXCEPT !.status = "abort"]
      ELSE IF d.bluk_length_ = 0 /\ d.left_ = 0 THEN RequestComplete(d)
      ELSE SkipToFrame(d)

\* Mutant: the payload is taken only when the buffer has all of it.
AddWhole(c) ==
  IF c.left_ = 0 THEN Assert_(c)
  ELSE IF c.left_ > c.read_buffer_size_ - c.analysis_pos_
    THEN [EndParsing(c) EXCEPT !.read_pos_ = c.analysis_pos_]
  ELSE Assert_([c EXCEPT !.left_ = 0, !.read_pos_ = @ + c.left_,
                         !.argv_ = Append(@, Substr(CString(c), c.analysis_pos_,
                                                    c.left_))])

\* Takes what the buffer has of the payload.
Add(c) ==
  LET room  == c.read_buffer_size_ - c.analysis_pos_
      num   == IF c.left_ < room THEN c.left_ ELSE room
      taken == c.data_ \o Substr(CString(c), c.analysis_pos_, num)
      d == CASE c.analysis_pos_ > Len(CString(c)) ->     \* std::out_of_range
                  [c EXCEPT !.status = "abort"]
             [] num = 0 -> [c EXCEPT !.data_ = taken]
             [] num # 0 /\ num = c.left_ ->
                  [c EXCEPT !.left_ = 0, !.argv_ = Append(@, taken),
                            !.data_ = <<>>, !.read_pos_ = @ + num]
             [] OTHER ->
                  [c EXCEPT !.left_ = @ - num, !.data_ = taken,
                            !.read_pos_ = c.read_buffer_size_]
  IN  IF Ok(c) THEN Assert_(d) ELSE c

\* The number of "*N" or "$N" ends at read_pos_.
Splice(c) ==
  LET number == Atoi(Substr(CString(c), c.analysis_pos_,
                            c.read_pos_ - c.analysis_pos_))
  IN  CASE c.state_ = "kBluk" -> Assert_([c EXCEPT !.bluk_length_ = number])
        [] c.state_ = "kMultiBluk" ->
             LET d == Assert_([c EXCEPT !.left_ = number])
             IN  IF d.is_end_parsing_ THEN d ELSE Add(d)
        [] OTHER -> c

\* The CR that ends the number, if it has arrived.
Parsing(c) ==
  LET pos == StrChr(CString(c), CR) - 1
  IN  IF pos < 0 \/ pos >= c.read_buffer_size_
        THEN [EndParsing(c) EXCEPT !.read_pos_ = c.analysis_pos_]
        ELSE Splice([c EXCEPT !.read_pos_ = pos])

\* The part of Finterpreter before its loop: resume with the bytes of a read
\* (chunk) that returned actual.
Finterpreter(c0, chunk, actual) ==
  LET c == [c0 EXCEPT !.is_end_parsing_ = FALSE,
                      !.read_buffer_ = @ \o chunk,
                      !.read_buffer_size_ = actual + c0.offset_]
      first == At(c, c.read_pos_)
  IN  IF first = Star /\ c.bluk_length_ = -1
        THEN [c EXCEPT !.state_ = "kBluk", !.analysis_pos_ = 1, !.read_pos_ = 1]
      ELSE IF c.state_ = "kParseString" THEN Memmove(Add(c))
      ELSE IF c.state_ = "kMultiBluk" /\ first = Dollar
        THEN Memmove([c EXCEPT !.read_pos_ = @ + 1])
      ELSE IF first \in {CR, LF}
        THEN LET d == Assert_(c)
             IN  Memmove(IF d.state_ # "kBluk" THEN Add(d) ELSE d)
      ELSE c

-----------------------------------------------------------------------------
(***************************************************************************)
(* The handlers of the event loop for this connection.                     *)
(***************************************************************************)
Init ==
  /\ client \in {ClientOf(script) : script \in Scripts}
  /\ rd = 0
  /\ \E garbage \in Uninit : conn = NewConn(garbage)
  /\ interest = "IN"
  /\ pc = "wait"
  /\ got = 0
  /\ peer = "up"

\* Where the server stands once a part of AnalyticData left the Conn as c:
\* in the loop, or back in main, which drops a connection that ended.
Continue(c, watch) ==
  /\ conn' = c
  /\ pc' = CASE ~Ok(c) -> c.status
             [] Ok(c) /\ ~c.is_end_parsing_ -> "parsing"
             [] Ok(c) /\ c.is_end_parsing_ /\ ~c.is_connect_ -> "closed"
             [] OTHER -> IF c.keepRunning THEN "wait" ELSE "stopped"
  /\ interest' = watch

\* Mutant: SetWrite is never called.
AfterNoSetWrite(c) == Continue(c, interest)

\* GetRequest calls ClusterEpoll::SetWrite when is_end_read_ is set.
After(c) == Continue(c, IF c.is_end_read_ THEN "OUT" ELSE interest)

Unread == Len(client.wire) - rd

\* AnalyticData: one read of up to MAXLINE - offset_ bytes.
Read ==
  /\ pc = "wait" /\ interest = "IN" /\ peer = "up"
  /\ \E n \in 1..(MaxLine - conn.offset_) :
       /\ n <= Unread
       /\ rd + n \notin client.sealed
       /\ rd' = rd + n
       /\ \E c \in {Finterpreter(conn, SubSeq(client.wire, rd + 1, rd + n), n)} :
            After(c)
  /\ UNCHANGED <<client, got, peer>>

\* AnalyticData when read returns 0: the client has closed, which it does after
\* its last byte, or the buffer is full.  main erases and deletes the connection.
ReadZero ==
  /\ pc = "wait" /\ interest = "IN" /\ peer # "reset"
  /\ Unread = 0 \/ peer = "gone" \/ conn.offset_ >= MaxLine
  /\ conn' = [conn EXCEPT !.is_connect_ = FALSE]
  /\ pc' = "closed"
  /\ UNCHANGED <<client, rd, interest, got, peer>>

\* AnalyticData when read returns -1: it parses all the same.
ReadError ==
  /\ pc = "wait" /\ interest = "IN" /\ peer = "reset"
  /\ After(Finterpreter(conn, <<>>, -1))
  /\ peer' = "gone"
  /\ UNCHANGED <<client, rd, got>>

\* One iteration of the loop.  memmove of a negative count is undefined: it
\* kills the server or, as source and destination coincide, does nothing.
ParseLoop ==
  /\ pc = "parsing"
  /\ \E c \in {Memmove(Parsing(conn))} :
       \/ After(c)
       \/ c.status = "ub" /\ c.offset_ < 0 /\ After([c EXCEPT !.status = "ok"])
  /\ UNCHANGED <<client, rd, got, peer>>

\* SendReply on a socket that takes everything.  With nothing to send write
\* returns 0 and the handler returns early, still registered for writing.
Sent(c, watch) ==
  /\ pc = "wait" /\ interest = "OUT" /\ peer # "reset"
  /\ conn.Reply_ > 0
  /\ got' = got + conn.Reply_
  /\ conn' = c
  /\ interest' = watch
  /\ UNCHANGED <<client, rd, pc, peer>>

\* Mutants: a reply that leaves the socket registered for writing, or the text in
\* Reply_.
SendReplyNoSetRead == Sent([conn EXCEPT !.Reply_ = 0, !.is_end_read_ = FALSE], "OUT")
SendReplyKeepsReply == Sent([conn EXCEPT !.is_end_read_ = FALSE], "IN")

SendReply == Sent([conn EXCEPT !.Reply_ = 0, !.is_end_read_ = FALSE], "IN")

\* SendReply on a reset socket: the loop ignores the error and writes again,
\* which raises SIGPIPE.
SendError ==
  /\ pc = "wait" /\ interest = "OUT" /\ peer = "reset"
  /\ conn.Reply_ > 0
  /\ pc' = "killed"
  /\ UNCHANGED <<client, rd, conn, interest, got, peer>>

ResetByPeer ==
  /\ PeerResets /\ pc = "wait" /\ peer = "up"
  /\ peer' = "reset"
  /\ UNCHANGED <<client, rd, conn, interest, pc, got>>

Next ==
  \/ Read \/ ReadZero \/ ReadError \/ ParseLoop
  \/ SendReply \/ SendError \/ ResetByPeer

\* The server runs on; a client that began a script sends all of it.  The first
\* two conjuncts are WF_vars(Read) and WF_vars(ParseLoop) with ENABLED written
\* out, which TLC would find by running the parser.
Fairness ==
  /\ []<>~(pc = "wait" /\ interest = "IN" /\ peer = "up" /\ Unread > 0)
       \/ []<><<Read>>_vars
  /\ []<>~(pc = "parsing") \/ []<><<ParseLoop>>_vars
  /\ WF_vars(SendReply)

Spec == Init /\ [][Next]_vars /\ Fairness

-----------------------------------------------------------------------------
\* The fields keep their types and the parser its bounds: what it keeps
\* between reads starts at 0 and fits the buffer.
TypeOK ==
  /\ client.script \in Scripts
  /\ rd \in 0..Len(client.wire)
  /\ conn.state_ \in {"kBluk", "kMultiBluk", "kParseString"}
  /\ {conn.is_connect_, conn.is_end_parsing_, conn.is_end_read_,
      conn.keepRunning} \subseteq BOOLEAN
  /\ peer \in {"up", "reset", "gone"}
  /\ {conn.Reply_, got} \subseteq Nat
  /\ conn.status \in {"ok", "abort", "ub"}
  /\ conn.status = "ok" /\ pc # "parsing" =>
       conn.read_pos_ = 0 /\ conn.offset_ \in -1..MaxLine
  /\ interest \in {"IN", "OUT"}
  /\ pc \in {"wait", "parsing", "closed", "stopped", "abort", "ub", "killed"}

\* The asserts of Assert never fail, and nothing undefined is executed, unless
\* the connection is reset: see ReadError.
NoAssertFailure == peer = "up" => pc \notin {"abort", "ub"}

\* The requests that ran are those the client sent, in its order: none is
\* altered, skipped, repeated or made up, however the bytes were cut.
ExecutedPrefix == IsPrefix(conn.executed, client.script)

\* When the server waits again it has run every request that it has read
\* completely: none stays in the buffer until more bytes arrive.
NoRequestLeftBehind ==
  pc = "wait" =>
    Len(conn.executed) = Cardinality({b \in client.ends : b <= rd})

\* A client that stopped after a complete request is owed no reply while the
\* server watches only for its input: the replies go out before that.
NothingOwedAtBoundary ==
  pc = "wait" /\ interest = "IN" /\ rd \in client.ends => conn.Reply_ = 0

\* What the parser keeps leaves room for the next read.  A read of 0 bytes
\* would be taken for the end of the connection.
RoomToRead == pc = "wait" => conn.offset_ < MaxLine

\* Every client has all its requests run and gets all the replies to them, or
\* is disconnected: no connection is left waiting for an event that cannot come.
AllAnswered ==
  <>(\/ /\ Len(conn.executed) = Len(client.script)
        /\ got = Cardinality({i \in DOMAIN client.script :
                                 Effect(client.script[i]) # "silent"})
     \/ pc \in {"closed", "stopped"} \/ peer # "up")

\* Seen from its client, the connection is a stream of requests: complete, in
\* order, each run once, no reply before its request, and closed early only by
\* a request that asks for it (GetRequest, SendReply and main's close).
Stream == INSTANCE RequestStream WITH
  Ends     <- LAMBDA request : Effect(request) \in {"exit", "shutdown"},
  script   <- client.script,
  executed <- conn.executed,
  replied  <- got,
  left     <- peer # "up",
  open     <- pc \notin {"closed", "stopped"}
StreamSpec == Stream!Spec
=============================================================================
