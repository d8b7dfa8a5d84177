--------------------------- MODULE ConnParserProofs ---------------------------
(***************************************************************************)
(* Lemmas about the methods of Conn, as operators on its record: what a    *)
(* read, and an iteration of the loop of Finterpreter, make of a parser    *)
(* that stands at a known place of the wire.                               *)
(*                                                                         *)
(* Between two steps read_pos_ stands in one of few places: before a       *)
(* request (AtRequest), at the number behind its header (AtCount), before  *)
(* an argument (AtArgument), at the number that is its length (AtLength),  *)
(* within its bytes (InPayload), or at the CR LF behind them               *)
(* (AfterPayload), and each fixes state_, bluk_length_, left_, argv_ and   *)
(* data_.  The lemmas follow the methods from the inside out: Memmove,     *)
(* SkipToFrame, GetRequest and Reset, Assert, Add, Parsing and Splice,     *)
(* the loop, Finterpreter; the last ones are about reads that failed.      *)
(***************************************************************************)
EXTENDS Conn, RespWireProofs, FiniteSetTheorems

\* The types of the members.
ConnType ==
  [ state_ : {"kBluk", "kMultiBluk", "kParseString"},
    read_buffer_ : Seq(Char), read_buffer_size_ : Int,
    left_ : Int, bluk_length_ : Int, offset_ : Int,
    analysis_pos_ : Int, read_pos_ : Int,
    is_connect_ : BOOLEAN, is_end_parsing_ : BOOLEAN, is_end_read_ : BOOLEAN,
    argv_ : Seq(Seq(Char)), data_ : Seq(Char), Reply_ : Nat,
    status : {"ok", "abort", "ub"}, keepRunning : BOOLEAN,
    executed : Seq(Seq(Seq(Char))) ]

\* read_buffer_ holds the last bytes that were read.
Buffered(s, n, c) ==
  /\ c.read_buffer_size_ = Len(c.read_buffer_)
  /\ c.read_buffer_size_ <= n
  /\ \A i \in 1..c.read_buffer_size_ :
       c.read_buffer_[i] = Wire(s)[n - c.read_buffer_size_ + i]

\* The requests that ran are the first q of the script.
Done(s, c) ==
  /\ Len(c.executed) \in 0..Len(s)
  /\ \A i \in 1..Len(c.executed) : c.executed[i] = s[i]

\* argv_ holds the first arguments of the request after them.
Args(s, c) ==
  /\ Len(c.executed) < Len(s)
  /\ Len(c.argv_) <= ArgCount(s, Len(c.executed))
  /\ \A i \in 1..Len(c.argv_) : c.argv_[i] = s[Len(c.executed) + 1][i]

\* Where read_pos_ may stand on the wire, with what the fields then are.
AtRequest(s, c, p) ==
  /\ c.state_ = "kBluk" /\ c.bluk_length_ = -1
  /\ c.argv_ = <<>> /\ c.data_ = <<>>
  /\ p = EndOfRequest(s, Len(c.executed))

AtCount(s, c, p) ==
  /\ c.state_ = "kBluk" /\ c.bluk_length_ = -1
  /\ c.argv_ = <<>> /\ c.data_ = <<>>
  /\ Len(c.executed) < Len(s)
  /\ p = CountAt(s, Len(c.executed))

\* Some arguments are missing, and as many as bluk_length_ says.
Missing(s, c) ==
  /\ Args(s, c)
  /\ Len(c.argv_) < ArgCount(s, Len(c.executed))
  /\ c.bluk_length_ = ArgCount(s, Len(c.executed)) - Len(c.argv_)

AtArgument(s, c, p) ==
  /\ c.state_ = "kMultiBluk" /\ c.data_ = <<>> /\ Missing(s, c)
  /\ p = EndOfArgument(s, Len(c.executed), Len(c.argv_))

AtLength(s, c, p) ==
  /\ c.state_ = "kMultiBluk" /\ c.data_ = <<>> /\ Missing(s, c)
  /\ p = LengthAt(s, Len(c.executed), Len(c.argv_))

InPayload(s, c, p) ==
  /\ c.state_ = "kParseString" /\ Missing(s, c)
  /\ c.left_ \in 1..ArgLen(s, Len(c.executed), Len(c.argv_))
  /\ Len(c.data_) = ArgLen(s, Len(c.executed), Len(c.argv_)) - c.left_
  /\ \A i \in 1..Len(c.data_) :
       c.data_[i] = Arg(s, Len(c.executed), Len(c.argv_))[i]
  /\ p = PayloadAt(s, Len(c.executed), Len(c.argv_)) + Len(c.data_)

AfterPayload(s, c, p) ==
  /\ c.state_ = "kParseString" /\ c.left_ = 0 /\ c.data_ = <<>>
  /\ Args(s, c)
  /\ Len(c.argv_) >= 1
  /\ c.bluk_length_ = ArgCount(s, Len(c.executed)) - Len(c.argv_) + 1
  /\ p = EndOfArgument(s, Len(c.executed), Len(c.argv_)) - 2

\* The parser goes on with the number at p.
Ahead(s, c, p) == AtCount(s, c, p) \/ AtLength(s, c, p)

\* The parser waits at p for the bytes after n.
Starved(s, n, c, p) ==
  \/ AtRequest(s, c, p) /\ n = p
  \/ AtArgument(s, c, p) /\ n = p
  \/ InPayload(s, c, p) /\ n = p
  \/ AfterPayload(s, c, p) /\ n \in p..(p + 1)
  \/ /\ AtCount(s, c, p)
     /\ n \in p..(p + NumLen(ArgCount(s, Len(c.executed))))
  \/ /\ AtLength(s, c, p)
     /\ n \in p..(p + NumLen(ArgLen(s, Len(c.executed), Len(c.argv_))))

ReadPos(n, c) == n - c.read_buffer_size_ + c.read_pos_

\* A Conn between two iterations of the loop, and between two reads.
InLoop(s, n, c) ==
  /\ Buffered(s, n, c)
  /\ c.read_pos_ \in {0, 1} /\ c.read_pos_ <= c.read_buffer_size_
  /\ c.analysis_pos_ = c.read_pos_
  /\ Ahead(s, c, ReadPos(n, c))

Waiting(s, n, c) ==
  /\ Buffered(s, n, c)
  /\ c.offset_ = c.read_buffer_size_
  /\ c.read_pos_ = 0 /\ c.analysis_pos_ = 0
  /\ Starved(s, n, c, ReadPos(n, c))

\* After a failed read the size is one less than the buffer holds.
AfterError(c) ==
  /\ c.read_buffer_size_ = Len(c.read_buffer_) - 1
  /\ c.read_buffer_size_ < MaxLine - 1
  /\ c.read_pos_ = 0 /\ c.analysis_pos_ = 0
  /\ \A i \in 1..Len(c.read_buffer_) : c.read_buffer_[i] # CR

\* The first n bytes hold exactly q whole requests.
Whole(s, n, q) ==
  /\ EndOfRequest(s, q) <= n
  /\ q < Len(s) => n < EndOfRequest(s, q + 1)

-----------------------------------------------------------------------------
\* What the parser knows of the request, the bytes it has, and what the server
\* and the client saw of it.
SameParser(c, d) ==
  /\ d.state_ = c.state_ /\ d.left_ = c.left_
  /\ d.bluk_length_ = c.bluk_length_
  /\ d.argv_ = c.argv_ /\ d.data_ = c.data_

SameBuffer(c, d) ==
  /\ d.read_buffer_ = c.read_buffer_
  /\ d.read_buffer_size_ = c.read_buffer_size_

SameHistory(c, d) ==
  /\ d.executed = c.executed /\ d.Reply_ = c.Reply_
  /\ d.is_connect_ = c.is_connect_ /\ d.keepRunning = c.keepRunning

\* What the methods leave behind: read_pos_ at a place of the wire.
Landed(s, n, d) ==
  /\ d \in ConnType /\ d.status = "ok" /\ Buffered(s, n, d)
  /\ d.read_pos_ \in 0..d.read_buffer_size_
  /\ d.is_end_parsing_ => Starved(s, n, d, ReadPos(n, d))
  /\ ~d.is_end_parsing_ => Ahead(s, d, ReadPos(n, d))

\* An assignment of the right type keeps the types.
LEMMA FieldTypes ==
  /\ \A c \in ConnType : \A v \in {"kBluk", "kMultiBluk", "kParseString"} :
       [c EXCEPT !.state_ = v] \in ConnType
  /\ \A c \in ConnType : \A v \in Seq(Char) :
       [c EXCEPT !.read_buffer_ = v] \in ConnType
  /\ \A c \in ConnType : \A v \in Int :
       [c EXCEPT !.read_buffer_size_ = v] \in ConnType
  /\ \A c \in ConnType : \A v \in Int :
       [c EXCEPT !.left_ = v] \in ConnType
  /\ \A c \in ConnType : \A v \in Int :
       [c EXCEPT !.bluk_length_ = v] \in ConnType
  /\ \A c \in ConnType : \A v \in Int :
       [c EXCEPT !.offset_ = v] \in ConnType
  /\ \A c \in ConnType : \A v \in Int :
       [c EXCEPT !.analysis_pos_ = v] \in ConnType
  /\ \A c \in ConnType : \A v \in Int :
       [c EXCEPT !.read_pos_ = v] \in ConnType
  /\ \A c \in ConnType : \A v \in BOOLEAN :
       [c EXCEPT !.is_connect_ = v] \in ConnType
  /\ \A c \in ConnType : \A v \in BOOLEAN :
       [c EXCEPT !.is_end_parsing_ = v] \in ConnType
  /\ \A c \in ConnType : \A v \in BOOLEAN :
       [c EXCEPT !.is_end_read_ = v] \in ConnType
  /\ \A c \in ConnType : \A v \in Seq(Seq(Char)) :
       [c EXCEPT !.argv_ = v] \in ConnType
  /\ \A c \in ConnType : \A v \in Seq(Char) :
       [c EXCEPT !.data_ = v] \in ConnType
  /\ \A c \in ConnType : \A v \in Nat :
       [c EXCEPT !.Reply_ = v] \in ConnType
  /\ \A c \in ConnType : \A v \in {"ok", "abort", "ub"} :
       [c EXCEPT !.status = v] \in ConnType
  /\ \A c \in ConnType : \A v \in BOOLEAN :
       [c EXCEPT !.keepRunning = v] \in ConnType
  /\ \A c \in ConnType : \A v \in Seq(Seq(Seq(Char))) :
       [c EXCEPT !.executed = v] \in ConnType
<1>1. \A c \in ConnType : \A v \in {"kBluk", "kMultiBluk", "kParseString"} :
       [c EXCEPT !.state_ = v] \in ConnType
  BY DEF ConnType
<1>2. \A c \in ConnType : \A v \in Seq(Char) :
       [c EXCEPT !.read_buffer_ = v] \in ConnType
  BY DEF ConnType
<1>3. \A c \in ConnType : \A v \in Int :
       [c EXCEPT !.read_buffer_size_ = v] \in ConnType
  BY DEF ConnType
<1>4. \A c \in ConnType : \A v \in Int :
       [c EXCEPT !.left_ = v] \in ConnType
  BY DEF ConnType
<1>5. \A c \in ConnType : \A v \in Int :
       [c EXCEPT !.bluk_length_ = v] \in ConnType
  BY DEF ConnType
<1>6. \A c \in ConnType : \A v \in Int :
       [c EXCEPT !.offset_ = v] \in ConnType
  BY DEF ConnType
<1>7. \A c \in ConnType : \A v \in Int :
       [c EXCEPT !.analysis_pos_ = v] \in ConnType
  BY DEF ConnType
<1>8. \A c \in ConnType : \A v \in Int :
       [c EXCEPT !.read_pos_ = v] \in ConnType
  BY DEF ConnType
<1>9. \A c \in ConnType : \A v \in BOOLEAN :
       [c EXCEPT !.is_connect_ = v] \in ConnType
  BY DEF ConnType
<1>10. \A c \in ConnType : \A v \in BOOLEAN :
       [c EXCEPT !.is_end_parsing_ = v] \in ConnType
  BY DEF ConnType
<1>11. \A c \in ConnType : \A v \in BOOLEAN :
       [c EXCEPT !.is_end_read_ = v] \in ConnType
  BY DEF ConnType
<1>12. \A c \in ConnType : \A v \in Seq(Seq(Char)) :
       [c EXCEPT !.argv_ = v] \in ConnType
  BY DEF ConnType
<1>13. \A c \in ConnType : \A v \in Seq(Char) :
       [c EXCEPT !.data_ = v] \in ConnType
  BY DEF ConnType
<1>14. \A c \in ConnType : \A v \in Nat :
       [c EXCEPT !.Reply_ = v] \in ConnType
  BY DEF ConnType
<1>15. \A c \in ConnType : \A v \in {"ok", "abort", "ub"} :
       [c EXCEPT !.status = v] \in ConnType
  BY DEF ConnType
<1>16. \A c \in ConnType : \A v \in BOOLEAN :
       [c EXCEPT !.keepRunning = v] \in ConnType
  BY DEF ConnType
<1>17. \A c \in ConnType : \A v \in Seq(Seq(Seq(Char))) :
       [c EXCEPT !.executed = v] \in ConnType
  BY DEF ConnType
<1> QED BY <1>1, <1>2, <1>3, <1>4, <1>5, <1>6, <1>7, <1>8, <1>9,
          <1>10, <1>11, <1>12, <1>13, <1>14, <1>15, <1>16, <1>17

\* A set of numbers with a member has a smallest one.
LEMMA SmallestOf ==
  ASSUME NEW I \in SUBSET Nat, I # {}
  PROVE  Min(I) \in I /\ \A i \in I : Min(I) <= i
<1> DEFINE R == {p \in Nat \X Nat : p[1] < p[2]}
<1>1. R = {p \in Nat \X Nat : p[1] < p[2]}
  OBVIOUS
<1>2. IsWellFoundedOn(R, Nat)
  BY NatLessThanWellFounded DEF OpToRel
<1> HIDE DEF R
<1>3. PICK m \in I : \A y \in I : ~(<<y, m>> \in R)
  BY <1>2, WFMin
<1>4. ASSUME NEW y \in I PROVE m <= y
  <2>1. m \in Nat /\ y \in Nat
    OBVIOUS
  <2>2. y < m => <<y, m>> \in R
    BY <1>1, <2>1
  <2> QED BY <1>3, <2>1, <2>2
<1> QED BY <1>4 DEF Min

\* strchr finds the first occurrence.
LEMMA StrChrFirst ==
  ASSUME NEW b \in Seq(Char), NEW x
  PROVE  /\ StrChr(b, x) \in 0..Len(b)
         /\ StrChr(b, x) = 0 => \A i \in 1..Len(b) : b[i] # x
         /\ StrChr(b, x) # 0 =>
              /\ b[StrChr(b, x)] = x
              /\ \A i \in 1..(StrChr(b, x) - 1) : b[i] # x
<1> DEFINE I == {i \in 1..Len(b) : b[i] = x}
<1>1. StrChr(b, x) = IF I # {} THEN Min(I) ELSE 0
  BY DEF StrChr, SelectInSeq
<1>2. CASE I = {}
  BY <1>1, <1>2
<1>3. CASE I # {}
  <2>1. I \in SUBSET Nat
    OBVIOUS
  <2> DEFINE m == Min(I)
  <2>2. m \in I /\ \A i \in I : m <= i
    BY <1>3, <2>1, SmallestOf
  <2> HIDE DEF m
  <2>3. m \in 1..Len(b) /\ b[m] = x /\ \A i \in 1..(m - 1) : b[i] # x
    BY <2>2
  <2>4. StrChr(b, x) = m
    BY <1>1, <1>3 DEF m
  <2> QED BY <2>3, <2>4
<1> QED BY <1>2, <1>3

\* The first occurrence is the one that strchr finds.
LEMMA StrChrAt ==
  ASSUME NEW b \in Seq(Char), NEW x, NEW k \in 1..Len(b),
         b[k] = x, \A i \in 1..(k - 1) : b[i] # x
  PROVE  StrChr(b, x) = k
<1> DEFINE m == StrChr(b, x)
<1>1. /\ m \in 0..Len(b)
      /\ m = 0 => \A i \in 1..Len(b) : b[i] # x
      /\ m # 0 => b[m] = x /\ \A i \in 1..(m - 1) : b[i] # x
  BY StrChrFirst
<1> HIDE DEF m
<1>2. m # 0
  BY <1>1
<1>3. ~(m < k) /\ ~(k < m)
  BY <1>1, <1>2
<1>4. m \in Nat /\ k \in Nat
  BY <1>1
<1> QED BY <1>3, <1>4 DEF m

\* Without NUL bytes the C string of the buffer is all of it.
LEMMA CStringIsBuffer ==
  ASSUME NEW c \in ConnType
  PROVE  CString(c) = c.read_buffer_
<1> DEFINE b == c.read_buffer_
<1>1. b \in Seq(Char)
  BY DEF ConnType
<1>2. \A i \in 1..Len(b) : b[i] # NUL
  BY <1>1 DEF Char
<1> HIDE DEF b
<1>3. StrChr(b, NUL) = 0
  <2>1. /\ StrChr(b, NUL) \in 0..Len(b)
        /\ StrChr(b, NUL) # 0 => b[StrChr(b, NUL)] = NUL
    BY <1>1, StrChrFirst
  <2> QED BY <1>2, <2>1
<1> QED BY <1>3 DEF CString, b

\* A byte of the buffer is a byte of the wire.
LEMMA BytesAt ==
  ASSUME NEW s, NEW n \in Nat, NEW c \in ConnType, Buffered(s, n, c),
         NEW i \in 0..(c.read_buffer_size_ - 1)
  PROVE  At(c, i) = Wire(s)[n - c.read_buffer_size_ + i + 1]
<1> DEFINE m == c.read_buffer_size_
<1>1. m \in Int /\ m = Len(c.read_buffer_)
  BY DEF ConnType, Buffered
<1>2. i + 1 \in 1..m /\ n - m + (i + 1) = n - m + i + 1
  BY <1>1
<1>3. c.read_buffer_[i + 1] = Wire(s)[n - m + (i + 1)]
  BY <1>2 DEF Buffered
<1>4. At(c, i) = c.read_buffer_[i + 1]
  BY <1>1 DEF At
<1> QED BY <1>2, <1>3, <1>4

\* A place depends on what the parser knows and on what ran, not on the flags.
LEMMA SamePlace ==
  ASSUME NEW s, NEW n, NEW c, NEW d, NEW p,
         SameParser(c, d), d.executed = c.executed
  PROVE  /\ Starved(s, n, c, p) => Starved(s, n, d, p)
         /\ Ahead(s, c, p) => Ahead(s, d, p)
BY DEF SameParser, Starved, Ahead, AtRequest, AtCount, AtArgument, AtLength,
       InPayload, AfterPayload, Missing, Args

\* Conn::Memmove drops the bytes before read_pos_ and keeps the place on the
\* wire.
LEMMA MemmoveLanded ==
  ASSUME NEW s, NEW n \in Nat, NEW c, Landed(s, n, c)
  PROVE  /\ Landed(s, n, Memmove(c))
         /\ Memmove(c).read_pos_ = 0 /\ Memmove(c).analysis_pos_ = 0
         /\ Memmove(c).offset_ = Memmove(c).read_buffer_size_
         /\ Memmove(c).read_buffer_size_
              = c.read_buffer_size_ - c.read_pos_
         /\ Memmove(c).is_end_parsing_ = c.is_end_parsing_
         /\ Memmove(c).is_end_read_ = c.is_end_read_
         /\ SameHistory(c, Memmove(c))
<1> DEFINE d == Memmove(c)
           b == c.read_buffer_
           m == c.read_buffer_size_
           r == c.read_pos_
           k == m - r
           e == SubSeq(b, r + 1, m)
<1>1. /\ c \in ConnType /\ c.status = "ok" /\ m \in Nat /\ r \in 0..m
      /\ b \in Seq(Char) /\ m = Len(b) /\ m <= n
      /\ \A i \in 1..m : b[i] = Wire(s)[n - m + i]
  BY DEF Landed, Buffered, ConnType
<1>2. /\ e \in Seq(Char) /\ Len(e) = k /\ k \in Nat
      /\ \A i \in 1..k : e[i] = b[r + i]
  <2> HIDE DEF b, m, r
  <2> QED BY <1>1
<1>3. d = [c EXCEPT !.offset_ = k, !.read_buffer_ = e,
                    !.read_buffer_size_ = k, !.analysis_pos_ = 0,
                    !.read_pos_ = 0, !.status = c.status]
  <2>1. Ok(c) /\ ~(k < 0)
    BY <1>1, <1>2 DEF Ok
  <2> HIDE DEF k
  <2> QED BY <2>1, Zenon DEF Memmove, k, e
<1> HIDE DEF d, e, k
<1>4. /\ d.read_buffer_ = e /\ d.read_buffer_size_ = k
      /\ d.offset_ = k /\ d.analysis_pos_ = 0 /\ d.read_pos_ = 0
      /\ d.status = "ok"
      /\ d.is_end_parsing_ = c.is_end_parsing_
      /\ d.is_end_read_ = c.is_end_read_
      /\ SameHistory(c, d) /\ SameParser(c, d)
  <2>1. c \in ConnType /\ c.status = "ok"
    BY <1>1
  <2> QED BY <2>1, <1>3 DEF ConnType, SameHistory, SameParser
<1>5. d \in ConnType
  <2>1. c \in ConnType /\ k \in Int /\ e \in Seq(Char) /\ 0 \in Int
        /\ c.status \in {"ok", "abort", "ub"}
    BY <1>1, <1>2
  <2> QED BY <2>1, <1>3, FieldTypes
<1> HIDE DEF b, m, r
<1>6. Buffered(s, n, d)
  <2>1. ASSUME NEW i \in 1..k
        PROVE  e[i] = Wire(s)[n - k + i]
    <3>1. r + i \in 1..m /\ n - m + (r + i) = n - k + i
      BY <1>1 DEF k
    <3> QED BY <1>1, <1>2, <3>1
  <2>2. k <= n
    BY <1>1, <1>2 DEF k
  <2> QED BY <1>2, <1>4, <2>1, <2>2 DEF Buffered
<1>7. ReadPos(n, d) = ReadPos(n, c)
  BY <1>1, <1>4 DEF ReadPos, m, r, k
<1>8. /\ Starved(s, n, c, ReadPos(n, c)) => Starved(s, n, d, ReadPos(n, d))
      /\ Ahead(s, c, ReadPos(n, c)) => Ahead(s, d, ReadPos(n, d))
  BY <1>4, <1>7, SamePlace DEF SameHistory
<1>9. d.read_pos_ \in 0..d.read_buffer_size_
  BY <1>2, <1>4
<1>10. Landed(s, n, d)
  BY <1>4, <1>5, <1>6, <1>8, <1>9 DEF Landed
<1> QED BY <1>4, <1>10 DEF d, k, m, r

\* The next request of the script ran: once, with its reply if it has one, and
\* if all that was read is consumed the connection asks to write.
Served(s, n, c, d) ==
  /\ Len(c.executed) < Len(s)
  /\ d.executed = Append(c.executed, s[Len(c.executed) + 1])
  /\ d.Reply_ = IF Effect(s[Len(c.executed) + 1]) = "silent"
                  THEN c.Reply_ ELSE c.Reply_ + 1
  /\ d.is_connect_
       <=> c.is_connect_ /\ Effect(s[Len(c.executed) + 1]) # "exit"
  /\ d.keepRunning
       <=> c.keepRunning /\ Effect(s[Len(c.executed) + 1]) # "shutdown"
  /\ n = EndOfRequest(s, Len(c.executed) + 1) => d.is_end_read_

\* A Conn that has read n bytes of s, with at least k of them from read_pos_ on.
Holds(s, n, c, k) ==
  /\ s \in Script /\ n \in 0..Len(Wire(s))
  /\ c \in ConnType /\ c.status = "ok" /\ ~c.is_end_parsing_
  /\ Buffered(s, n, c)
  /\ c.read_pos_ \in Nat /\ c.read_pos_ + k <= c.read_buffer_size_
  /\ Done(s, c)

\* The bytes from read_pos_ on are those of the wire.
LEMMA HoldsBytes ==
  ASSUME NEW s, NEW n, NEW c, NEW k \in Nat, Holds(s, n, c, k)
  PROVE  /\ n \in Nat /\ c.read_buffer_size_ \in Nat
         /\ c.read_buffer_size_ <= n
         /\ ReadPos(n, c) \in Nat /\ ReadPos(n, c) + k <= n
         /\ \A i \in Nat : c.read_pos_ + i < c.read_buffer_size_ =>
              At(c, c.read_pos_ + i) = Wire(s)[ReadPos(n, c) + i + 1]
<1> DEFINE m == c.read_buffer_size_
           r == c.read_pos_
<1>1. /\ n \in Nat /\ m \in Nat /\ m <= n /\ r \in Nat /\ r + k <= m
      /\ c \in ConnType /\ Buffered(s, n, c)
  <2>1. m \in Int /\ m = Len(c.read_buffer_) /\ c.read_buffer_ \in Seq(Char)
    BY DEF Holds, ConnType, Buffered
  <2>2. Len(Wire(s)) \in Nat
    BY WireSteps DEF Holds
  <2>3. /\ n \in 0..Len(Wire(s)) /\ c \in ConnType /\ Buffered(s, n, c)
        /\ r \in Nat /\ r + k <= m
    BY DEF Holds
  <2>4. m = Len(c.read_buffer_) /\ m <= n
    BY <2>3 DEF Buffered
  <2>5. Len(c.read_buffer_) \in Nat
    BY <2>1
  <2> HIDE DEF m, r
  <2>6. n \in Nat /\ m \in Nat
    BY <2>2, <2>3, <2>4, <2>5
  <2> QED BY <2>3, <2>4, <2>6
<1>2. ReadPos(n, c) = n - m + r
  BY DEF ReadPos
<1>3. ASSUME NEW i \in Nat, r + i < m
      PROVE  At(c, r + i) = Wire(s)[ReadPos(n, c) + i + 1]
  <2>1. r + i \in 0..(m - 1)
    BY <1>1, <1>3
  <2>2. At(c, r + i) = Wire(s)[n - m + (r + i) + 1]
    BY <1>1, <2>1, BytesAt
  <2>3. n - m + (r + i) + 1 = ReadPos(n, c) + i + 1
    BY <1>1, <1>2
  <2> QED BY <2>2, <2>3
<1>4. ReadPos(n, c) \in Nat /\ ReadPos(n, c) + k <= n
  <2> HIDE DEF m, r
  <2> QED BY <1>1, <1>2
<1> QED BY <1>1, <1>3, <1>4

\* Only read_pos_ and the flags of the loop changed.
Moved(c, d) ==
  /\ d \in ConnType /\ d.status = "ok"
  /\ SameBuffer(c, d) /\ SameParser(c, d) /\ d.executed = c.executed

\* A parser that moved to a place has landed there.
LEMMA MovedLands ==
  ASSUME NEW s, NEW n, NEW c, NEW d, NEW p, Holds(s, n, c, 0), Moved(c, d),
         d.read_pos_ \in 0..c.read_buffer_size_,
         p = n - c.read_buffer_size_ + d.read_pos_,
         d.is_end_parsing_ => Starved(s, n, c, p),
         ~d.is_end_parsing_ => Ahead(s, c, p)
  PROVE  Landed(s, n, d)
<1>1. ReadPos(n, d) = p /\ d.read_buffer_size_ = c.read_buffer_size_
  BY DEF ReadPos, Moved, SameBuffer
<1>2. Buffered(s, n, d)
  BY DEF Holds, Buffered, Moved, SameBuffer
<1>3. /\ Starved(s, n, c, p) => Starved(s, n, d, p)
      /\ Ahead(s, c, p) => Ahead(s, d, p)
  BY SamePlace DEF Moved
<1> QED BY <1>1, <1>2, <1>3 DEF Landed, Moved

\* EndParsing with read_pos_ at the end of the buffer, or where it is.
LEMMA StopMoves ==
  ASSUME NEW c \in ConnType, c.status = "ok"
  PROVE  /\ Moved(c, EndParsing(c)) /\ SameHistory(c, EndParsing(c))
         /\ EndParsing(c).is_end_parsing_
         /\ EndParsing(c).is_end_read_ = c.is_end_read_
         /\ EndParsing(c).read_pos_ = c.read_pos_
         /\ \A r \in Int :
              LET d == [EndParsing(c) EXCEPT !.read_pos_ = r]
              IN  /\ Moved(c, d) /\ SameHistory(c, d) /\ d.is_end_parsing_
                  /\ d.is_end_read_ = c.is_end_read_
                  /\ d.read_pos_ = r
<1> DEFINE e == [c EXCEPT !.is_end_parsing_ = TRUE]
<1>1. e \in ConnType
  BY FieldTypes
<1>2. Moved(c, e) /\ SameHistory(c, e) /\ e.is_end_parsing_
      /\ e.is_end_read_ = c.is_end_read_ /\ e.read_pos_ = c.read_pos_
  BY <1>1 DEF ConnType, Moved, SameHistory, SameBuffer, SameParser
<1> HIDE DEF e
<1>3. ASSUME NEW r \in Int, NEW d, d = [e EXCEPT !.read_pos_ = r]
      PROVE  /\ Moved(e, d) /\ SameHistory(e, d) /\ d.is_end_parsing_
             /\ d.is_end_read_ = e.is_end_read_ /\ d.read_pos_ = r
  <2>1. d \in ConnType
    BY <1>1, <1>3, FieldTypes
  <2> QED BY <1>1, <1>2, <1>3, <2>1
          DEF ConnType, Moved, SameHistory, SameBuffer, SameParser
<1>4. ASSUME NEW r \in Int
      PROVE  LET d == [e EXCEPT !.read_pos_ = r]
             IN  /\ Moved(c, d) /\ SameHistory(c, d) /\ d.is_end_parsing_
                 /\ d.is_end_read_ = c.is_end_read_
                 /\ d.read_pos_ = r
  <2> DEFINE d == [e EXCEPT !.read_pos_ = r]
  <2>1. /\ Moved(e, d) /\ SameHistory(e, d) /\ d.is_end_parsing_
        /\ d.is_end_read_ = e.is_end_read_ /\ d.read_pos_ = r
    BY <1>3
  <2> HIDE DEF d
  <2>2. /\ Moved(c, d) /\ SameHistory(c, d) /\ d.is_end_parsing_
        /\ d.is_end_read_ = c.is_end_read_ /\ d.read_pos_ = r
    BY <1>2, <2>1 DEF Moved, SameHistory, SameBuffer, SameParser
  <2> QED BY <2>2 DEF d
<1> QED BY <1>2, <1>4 DEF e, EndParsing

\* read_pos_ may move without an end of the loop.
LEMMA MoveTo ==
  ASSUME NEW c \in ConnType, c.status = "ok", NEW r \in Int
  PROVE  LET d == [c EXCEPT !.read_pos_ = r]
         IN  /\ Moved(c, d) /\ SameHistory(c, d)
             /\ d.is_end_parsing_ = c.is_end_parsing_
             /\ d.is_end_read_ = c.is_end_read_
             /\ d.read_pos_ = r
<1> DEFINE d == [c EXCEPT !.read_pos_ = r]
<1>1. d \in ConnType
  BY FieldTypes
<1> QED BY <1>1 DEF ConnType, Moved, SameHistory, SameBuffer, SameParser

SameSize(c, d) == d.read_buffer_size_ = c.read_buffer_size_

\* Nothing ran: the same history and no request for writing.
Kept(c, d) == SameHistory(c, d) /\ d.is_end_read_ = c.is_end_read_

\* What is missing of a request has a place on the wire.
LEMMA MissingPlace ==
  ASSUME NEW s \in Script, NEW c \in ConnType, Done(s, c), Missing(s, c)
  PROVE  /\ Len(c.executed) \in 0..(Len(s) - 1)
         /\ Len(c.argv_) \in 0..(ArgCount(s, Len(c.executed)) - 1)
<1> DEFINE q == Len(c.executed)
           a == Len(c.argv_)
           k == ArgCount(s, q)
<1>1. q \in 0..Len(s) /\ q < Len(s) /\ a <= k /\ a < k
  BY DEF Done, Missing, Args
<1>2. a \in Nat
  <2>1. c.argv_ \in Seq(Seq(Char))
    BY DEF ConnType
  <2> QED BY <2>1
<1>3. Len(s) \in Nat
  BY DEF Script
<1> HIDE DEF q, a
<1>4. q \in 0..(Len(s) - 1)
  BY <1>1, <1>3
<1>5. k \in Nat
  BY <1>4, CountBytes
<1> HIDE DEF k
<1>6. a \in 0..(k - 1)
  BY <1>1, <1>2, <1>5
<1> QED BY <1>4, <1>6 DEF q, a, k

\* Conn::Assert before an argument: the parser goes to the '$' or waits for
\* it. The code compares the buffer size with '$' + 1 there, which the last
\* assumption excludes.
LEMMA SkipToArgument ==
  ASSUME NEW s, NEW n, NEW c, Holds(s, n, c, 2),
         AtArgument(s, c, ReadPos(n, c) + 2),
         c.read_buffer_size_ # Dollar + 1
  PROVE  /\ Landed(s, n, SkipToFrame(c)) /\ Kept(c, SkipToFrame(c))
         /\ SameSize(c, SkipToFrame(c))
<1> DEFINE m == c.read_buffer_size_
           r == c.read_pos_
           p == ReadPos(n, c)
           q == Len(c.executed)
           a == Len(c.argv_)
<1>1. /\ s \in Script /\ c \in ConnType /\ c.status = "ok"
      /\ ~c.is_end_parsing_ /\ r \in Nat /\ r + 2 <= m /\ Done(s, c)
  BY DEF Holds
<1>2. /\ n \in Nat /\ m \in Nat /\ m <= n /\ p \in Nat /\ p = n - m + r
      /\ \A i \in Nat : r + i < m => At(c, r + i) = Wire(s)[p + i + 1]
  BY HoldsBytes DEF ReadPos
<1>3. Holds(s, n, c, 0)
  BY <1>1, <1>2 DEF Holds
<1>4. q \in 0..(Len(s) - 1) /\ a \in 0..(ArgCount(s, q) - 1)
  BY <1>1, MissingPlace DEF AtArgument
<1> HIDE DEF p, m, r
<1>5. CASE r + 1 = m - 1
  <2>1. SkipToFrame(c) = [EndParsing(c) EXCEPT !.read_pos_ = m]
    BY <1>5, Zenon DEF SkipToFrame, m, r
  <2>2. m \in Int /\ m \in 0..m /\ n = p + 2 /\ n = n - m + m
    BY <1>1, <1>2, <1>5
  <2>3. /\ Moved(c, SkipToFrame(c)) /\ SameHistory(c, SkipToFrame(c))
        /\ SkipToFrame(c).is_end_parsing_
        /\ SkipToFrame(c).is_end_read_ = c.is_end_read_
        /\ SkipToFrame(c).read_pos_ = m
    BY <1>1, <2>1, <2>2, StopMoves
  <2>4. Starved(s, n, c, n)
    BY <2>2 DEF Starved, p
  <2>5. Landed(s, n, SkipToFrame(c))
    BY <1>3, <2>2, <2>3, <2>4, MovedLands DEF m
  <2> QED BY <2>3, <2>5 DEF Kept, SameSize, Moved, SameBuffer
<1>6. CASE r + 1 # m - 1
  <2>1. r + 2 < m /\ m - 1 # Dollar /\ r + 3 \in Int /\ r + 3 \in 0..m
        /\ p + 3 = n - m + (r + 3)
    BY <1>1, <1>2, <1>6 DEF m, Dollar
  <2>2. LengthAt(s, q, a) = p + 3
    <3>1. EndOfArgument(s, q, a) = p + 2
      BY DEF AtArgument, p
    <3> QED BY <1>2, <3>1 DEF LengthAt
  <2>3. At(c, r + 2) = Dollar
    <3>1. At(c, r + 2) = Wire(s)[p + 2 + 1]
      BY <1>2, <2>1
    <3>2. Wire(s)[LengthAt(s, q, a)] = Dollar
      BY <1>1, <1>4, ArgumentBytes
    <3>3. p + 2 + 1 = p + 3
      BY <1>2
    <3> QED BY <2>2, <3>1, <3>2, <3>3
  <2>4. c.state_ = "kMultiBluk"
    BY DEF AtArgument
  <2>5. SkipToFrame(c) = [c EXCEPT !.read_pos_ = r + 3]
    <3>1. At(c, r + 2) # m - 1
      BY <2>1, <2>3
    <3> QED BY <1>6, <2>3, <2>4, <3>1, Zenon DEF SkipToFrame, m, r
  <2>6. /\ Moved(c, SkipToFrame(c)) /\ SameHistory(c, SkipToFrame(c))
        /\ SkipToFrame(c).is_end_parsing_ = c.is_end_parsing_
        /\ SkipToFrame(c).is_end_read_ = c.is_end_read_
        /\ SkipToFrame(c).read_pos_ = r + 3
    BY <1>1, <2>1, <2>5, MoveTo
  <2>7. Ahead(s, c, p + 3)
    BY <2>2 DEF Ahead, AtArgument, AtLength
  <2>8. Landed(s, n, SkipToFrame(c))
    BY <1>1, <1>3, <2>1, <2>6, <2>7, MovedLands DEF m
  <2> QED BY <2>6, <2>8 DEF Kept, SameSize, Moved, SameBuffer
<1> QED BY <1>5, <1>6

\* Before a payload the parser stops, or goes on with Add.
LEMMA SkipToPayload ==
  ASSUME NEW s, NEW n, NEW c, Holds(s, n, c, 2),
         InPayload(s, c, ReadPos(n, c) + 2)
  PROVE  LET d == SkipToFrame(c)
         IN  /\ Kept(c, d) /\ SameSize(c, d)
             /\ d.is_end_parsing_ => Landed(s, n, d)
             /\ ~d.is_end_parsing_ =>
                  /\ Holds(s, n, d, 1)
                  /\ d.analysis_pos_ = d.read_pos_
                  /\ InPayload(s, d, ReadPos(n, d))
<1> DEFINE d == SkipToFrame(c)
           m == c.read_buffer_size_
           r == c.read_pos_
           p == ReadPos(n, c)
<1>1. /\ s \in Script /\ n \in 0..Len(Wire(s)) /\ c \in ConnType
      /\ c.status = "ok" /\ Buffered(s, n, c)
      /\ ~c.is_end_parsing_ /\ r \in Nat /\ r + 2 <= m /\ Done(s, c)
  BY DEF Holds
<1>2. /\ n \in Nat /\ m \in Nat /\ m <= n /\ p \in Nat /\ p = n - m + r
  BY HoldsBytes DEF ReadPos
<1>3. Holds(s, n, c, 0)
  BY <1>1, <1>2 DEF Holds
<1> HIDE DEF p, m, r
<1>5. CASE r + 1 = m - 1
  <2>1. d = [EndParsing(c) EXCEPT !.read_pos_ = m]
    BY <1>5, Zenon DEF SkipToFrame, m, r
  <2>2. m \in Int /\ m \in 0..m /\ n = p + 2 /\ n = n - m + m
    BY <1>1, <1>2, <1>5
  <2> HIDE DEF d
  <2>3. /\ Moved(c, d) /\ SameHistory(c, d) /\ d.is_end_parsing_
        /\ d.is_end_read_ = c.is_end_read_ /\ d.read_pos_ = m
    BY <1>1, <2>1, <2>2, StopMoves
  <2>4. Starved(s, n, c, n)
    BY <2>2 DEF Starved, p
  <2>5. Landed(s, n, d)
    BY <1>3, <2>2, <2>3, <2>4, MovedLands DEF m
  <2> QED BY <2>3, <2>5 DEF Kept, SameSize, Moved, SameBuffer, d
<1>6. CASE r + 1 # m - 1
  <2>1. r + 2 < m /\ r + 2 \in Int /\ p + 2 = n - m + (r + 2)
    BY <1>1, <1>2, <1>6
  <2>2. c.state_ = "kParseString"
    BY DEF InPayload
  <2> DEFINE e == [c EXCEPT !.read_pos_ = r + 2]
  <2>3. d = [c EXCEPT !.read_pos_ = r + 2, !.analysis_pos_ = r + 2]
    <3>1. c.state_ # "kMultiBluk"
      BY <2>2
    <3> QED BY <1>6, <3>1, Zenon DEF SkipToFrame, m, r
  <2> HIDE DEF d
  <2>4. d \in ConnType
    <3>1. e \in ConnType
      BY <1>1, <2>1, FieldTypes
    <3>2. d = [e EXCEPT !.analysis_pos_ = r + 2]
      BY <2>3
    <3> HIDE DEF e
    <3> QED BY <2>1, <3>1, <3>2, FieldTypes
  <2>5. /\ SameBuffer(c, d) /\ SameParser(c, d) /\ Kept(c, d)
        /\ d.status = "ok" /\ d.is_end_parsing_ = c.is_end_parsing_
        /\ d.read_pos_ = r + 2 /\ d.analysis_pos_ = r + 2
    BY <1>1, <2>3 DEF ConnType, SameBuffer, SameParser, Kept, SameHistory
  <2>6. ReadPos(n, d) = p + 2
    BY <2>1, <2>5 DEF ReadPos, SameBuffer, m
  <2>7. InPayload(s, d, p + 2)
    BY <2>5 DEF p, InPayload, Missing, Args, SameParser, Kept, SameHistory
  <2>8. d.read_pos_ + 1 <= d.read_buffer_size_ /\ d.read_pos_ \in Nat
    BY <1>1, <1>2, <2>1, <2>5, SMTT(30) DEF SameBuffer, m
  <2>9. Buffered(s, n, d) /\ Done(s, d)
    BY <1>1, <2>5 DEF Buffered, Done, SameBuffer, Kept, SameHistory
  <2>10. Holds(s, n, d, 1)
    BY <1>1, <2>4, <2>5, <2>8, <2>9 DEF Holds
  <2> QED BY <1>1, <2>5, <2>6, <2>7, <2>10 DEF SameBuffer, SameSize, d
<1> QED BY <1>5, <1>6

\* A request ran, and the parser is ready for the next.
Ran(c, d) ==
  /\ d \in ConnType /\ d.status = "ok" /\ SameBuffer(c, d)
  /\ d.read_pos_ = c.read_pos_
  /\ d.is_end_parsing_ = c.is_end_parsing_
  /\ d.is_end_read_ = c.is_end_read_
  /\ d.state_ = "kBluk" /\ d.bluk_length_ = -1
  /\ d.argv_ = <<>> /\ d.data_ = <<>>
  /\ d.executed = Append(c.executed, c.argv_)
  /\ d.Reply_ = IF Effect(c.argv_) = "silent" THEN c.Reply_ ELSE c.Reply_ + 1
  /\ d.is_connect_ <=> c.is_connect_ /\ Effect(c.argv_) # "exit"
  /\ d.keepRunning <=> c.keepRunning /\ Effect(c.argv_) # "shutdown"

\* Conn::GetRequest runs what is in argv_ and Reset forgets it.
LEMMA RequestRuns ==
  ASSUME NEW c \in ConnType, c.status = "ok", c.argv_ # <<>>
  PROVE  Ran(c, Reset(GetRequest(c)))
<1> DEFINE f == Effect(c.argv_)
           g == GetRequest(c)
           d == Reset(g)
           v == IF f = "silent" THEN c.Reply_ ELSE c.Reply_ + 1
           u == c.is_connect_ /\ f # "exit"
           k == c.keepRunning /\ f # "shutdown"
           e1 == [c EXCEPT !.executed = Append(c.executed, c.argv_)]
           e2 == [e1 EXCEPT !.Reply_ = v]
           e3 == [e2 EXCEPT !.is_connect_ = u]
<1>1. /\ c.executed \in Seq(Seq(Seq(Char))) /\ c.argv_ \in Seq(Seq(Char))
      /\ c.Reply_ \in Nat /\ c.is_connect_ \in BOOLEAN
      /\ c.keepRunning \in BOOLEAN
  BY DEF ConnType
<1>2. g = [c EXCEPT !.executed = Append(c.executed, c.argv_),
                    !.Reply_ = v, !.is_connect_ = u, !.keepRunning = k]
  BY Zenon DEF GetRequest
<1>3. g = [e3 EXCEPT !.keepRunning = k]
  BY <1>2
<1> HIDE DEF g
<1>4. v \in Nat /\ u \in BOOLEAN /\ k \in BOOLEAN
  BY <1>1
<1>5. Append(c.executed, c.argv_) \in Seq(Seq(Seq(Char)))
  BY <1>1
<1>6. /\ v = IF Effect(c.argv_) = "silent" THEN c.Reply_ ELSE c.Reply_ + 1
      /\ u <=> c.is_connect_ /\ Effect(c.argv_) # "exit"
      /\ k <=> c.keepRunning /\ Effect(c.argv_) # "shutdown"
  BY Zenon
<1> HIDE DEF v, u, k, f
<1>7. g \in ConnType
  <2>1. e1 \in ConnType
    BY <1>5, FieldTypes
  <2> HIDE DEF e1
  <2>2. e2 \in ConnType
    BY <1>4, <2>1, FieldTypes
  <2> HIDE DEF e2
  <2>3. e3 \in ConnType
    BY <1>4, <2>2, FieldTypes
  <2> HIDE DEF e3
  <2> QED BY <1>3, <1>4, <2>3, FieldTypes
<1>8. /\ g.status = "ok" /\ SameBuffer(c, g)
      /\ g.read_pos_ = c.read_pos_
      /\ g.is_end_parsing_ = c.is_end_parsing_
      /\ g.is_end_read_ = c.is_end_read_
      /\ g.executed = Append(c.executed, c.argv_)
      /\ g.Reply_ = v /\ g.is_connect_ = u /\ g.keepRunning = k
  BY <1>2 DEF ConnType, SameBuffer
<1> HIDE DEF e1, e2, e3
<1>9. d = [g EXCEPT !.bluk_length_ = -1, !.left_ = -1, !.state_ = "kBluk",
                    !.argv_ = <<>>, !.data_ = <<>>]
  <2>1. Ok(g)
    BY <1>8 DEF Ok
  <2> QED BY <2>1, Zenon DEF Reset
<1>10. d \in ConnType
  <2> DEFINE h1 == [g EXCEPT !.bluk_length_ = -1]
             h2 == [h1 EXCEPT !.left_ = -1]
             h3 == [h2 EXCEPT !.state_ = "kBluk"]
             h4 == [h3 EXCEPT !.argv_ = <<>>]
             h5 == [h4 EXCEPT !.data_ = <<>>]
  <2>0. /\ -1 \in Int /\ <<>> \in Seq(Char) /\ <<>> \in Seq(Seq(Char))
        /\ "kBluk" \in {"kBluk", "kMultiBluk", "kParseString"}
    OBVIOUS
  <2>1. d = h5
    BY <1>9
  <2> HIDE DEF d
  <2>2. h1 \in ConnType
    BY <1>7, <2>0, FieldTypes
  <2> HIDE DEF h1
  <2>3. h2 \in ConnType
    BY <2>2, <2>0, FieldTypes
  <2> HIDE DEF h2
  <2>4. h3 \in ConnType
    BY <2>3, <2>0, FieldTypes
  <2> HIDE DEF h3
  <2>5. h4 \in ConnType
    BY <2>4, <2>0, FieldTypes
  <2> HIDE DEF h4
  <2>6. h5 \in ConnType
    BY <2>5, <2>0, FieldTypes
  <2> QED BY <2>1, <2>6
<1> HIDE DEF d
<1>11. /\ d.state_ = "kBluk" /\ d.bluk_length_ = -1
       /\ d.argv_ = <<>> /\ d.data_ = <<>>
       /\ d.status = g.status /\ SameBuffer(g, d)
       /\ d.read_pos_ = g.read_pos_
       /\ d.is_end_parsing_ = g.is_end_parsing_
       /\ d.is_end_read_ = g.is_end_read_
       /\ d.executed = g.executed /\ d.Reply_ = g.Reply_
       /\ d.is_connect_ = g.is_connect_ /\ d.keepRunning = g.keepRunning
  BY <1>7, <1>9 DEF ConnType, SameBuffer
<1>12. SameBuffer(c, d)
  BY <1>8, <1>11 DEF SameBuffer
<1> QED BY <1>6, <1>8, <1>10, <1>11, <1>12 DEF Ran, d, g

\* The last byte of a request runs it, and the parser stops unless the number
\* of the next request follows.
LEMMA RequestLands ==
  ASSUME NEW s, NEW n, NEW c, Holds(s, n, c, 2), Len(c.executed) < Len(s),
         c.argv_ = s[Len(c.executed) + 1],
         ReadPos(n, c) + 2 = EndOfRequest(s, Len(c.executed) + 1)
  PROVE  /\ Landed(s, n, RequestComplete(c)) /\ Served(s, n, c, RequestComplete(c))
         /\ SameSize(c, RequestComplete(c))
<1> DEFINE m == c.read_buffer_size_
           r == c.read_pos_
           p == ReadPos(n, c)
           q == Len(c.executed)
           stop == [EndParsing(c) EXCEPT !.read_pos_ = m]
           d == RequestComplete(c)
<1>1. /\ s \in Script /\ c \in ConnType /\ c.status = "ok"
      /\ ~c.is_end_parsing_ /\ r \in Nat /\ r + 2 <= m /\ Done(s, c)
      /\ n \in 0..Len(Wire(s)) /\ Buffered(s, n, c)
  BY DEF Holds
<1>2. /\ n \in Nat /\ m \in Nat /\ m <= n /\ p \in Nat /\ p = n - m + r
      /\ \A i \in Nat : r + i < m => At(c, r + i) = Wire(s)[p + i + 1]
  BY HoldsBytes DEF ReadPos
<1>3. /\ q \in Nat /\ q + 1 \in 0..Len(s) /\ q \in 0..(Len(s) - 1)
      /\ Len(s) \in Nat
  BY <1>1 DEF Done, Script
<1>4. c.argv_ # <<>>
  <2>1. s[q + 1] \in Request
    BY <1>1, <1>3 DEF Script
  <2> QED BY <2>1 DEF Request
<1>5. c.executed \in Seq(Seq(Seq(Char)))
  BY <1>1 DEF ConnType
<1>6. /\ Moved(c, stop) /\ SameHistory(c, stop) /\ stop.is_end_parsing_
      /\ stop.is_end_read_ = c.is_end_read_ /\ stop.read_pos_ = m
  <2>1. m \in Int
    BY <1>2
  <2> HIDE DEF m
  <2> QED BY <1>1, <2>1, StopMoves
<1> HIDE DEF p, m, r, stop, d
\* What running the request in e brings.
<1> DEFINE Next1(e) == /\ e \in ConnType /\ e.status = "ok" /\ SameBuffer(c, e)
                       /\ e.argv_ = c.argv_ /\ SameHistory(c, e)
<1>7. ASSUME NEW e, Next1(e), d = Reset(GetRequest(e)),
             n = EndOfRequest(s, q + 1) => e.is_end_read_
      PROVE  /\ Served(s, n, c, d) /\ Buffered(s, n, d)
             /\ d \in ConnType /\ d.status = "ok"
             /\ d.read_buffer_size_ = m
             /\ d.is_end_parsing_ = e.is_end_parsing_
             /\ d.read_pos_ = e.read_pos_
             /\ Len(d.executed) = q + 1
             /\ d.state_ = "kBluk" /\ d.bluk_length_ = -1
             /\ d.argv_ = <<>> /\ d.data_ = <<>>
  <2>1. Ran(e, d)
    BY <1>4, <1>7, RequestRuns
  <2>2. /\ d.executed = Append(c.executed, s[q + 1])
        /\ d.Reply_ = IF Effect(s[q + 1]) = "silent" THEN c.Reply_
                                                     ELSE c.Reply_ + 1
        /\ d.is_connect_ <=> c.is_connect_ /\ Effect(s[q + 1]) # "exit"
        /\ d.keepRunning <=> c.keepRunning /\ Effect(s[q + 1]) # "shutdown"
        /\ d.is_end_read_ = e.is_end_read_
    BY <1>7, <2>1 DEF Ran, SameHistory
  <2>3. Served(s, n, c, d)
    BY <1>7, <2>2 DEF Served
  <2>4. SameBuffer(c, d)
    BY <1>7, <2>1 DEF Ran, SameBuffer
  <2>5. Buffered(s, n, d) /\ d.read_buffer_size_ = m
    BY <1>1, <2>4 DEF Buffered, SameBuffer, m
  <2>6. Len(d.executed) = q + 1
    BY <1>5, <2>2
  <2> QED BY <2>1, <2>3, <2>5, <2>6 DEF Ran
<1>8. m # r + 2 => /\ m > r + 2 /\ q + 1 < Len(s)
                   /\ At(c, r + 2) = Star
                   /\ CountAt(s, q + 1) = p + 3
  <2> SUFFICES ASSUME m # r + 2
               PROVE  /\ m > r + 2 /\ q + 1 < Len(s)
                      /\ At(c, r + 2) = Star
                      /\ CountAt(s, q + 1) = p + 3
    OBVIOUS
  <2>1. m > r + 2 /\ n > p + 2
    BY <1>1, <1>2, SMTT(30) DEF m, r
  <2>2. q + 1 < Len(s)
    <3>1. EndOfRequest(s, q + 1) < n
      BY <2>1, <1>2 DEF p
    <3>2. EndOfRequest(s, Len(s)) = Len(Wire(s)) /\ n <= Len(Wire(s))
          /\ Len(Wire(s)) \in Nat
      BY <1>1, WireSteps
    <3>3. q + 1 # Len(s)
      BY <3>1, <3>2, <1>2
    <3> QED BY <1>3, <3>3
  <2>3. q + 1 \in 0..(Len(s) - 1)
    BY <1>3, <2>2
  <2>4. Wire(s)[CountAt(s, q + 1)] = Star
    BY <1>1, <2>3, CountBytes
  <2>5. CountAt(s, q + 1) = p + 3
    BY <1>2 DEF CountAt, p
  <2>6. At(c, r + 2) = Wire(s)[p + 3]
    BY <1>2, <2>1
  <2> QED BY <2>1, <2>2, <2>4, <2>5, <2>6
<1>9. NumLen(ArgCount(s, q + 1)) >= 1 \/ ~(q + 1 < Len(s))
  <2>1. q + 1 < Len(s) => q + 1 \in 0..(Len(s) - 1)
    BY <1>3
  <2> QED BY <1>1, <2>1, CountBytes, DecimalBytes
<1>10. CASE r + 1 = m - 1 \/ At(c, r + 2) # Star
  <2> DEFINE e == [stop EXCEPT !.is_end_read_ = TRUE]
  <2>1. d = Reset(GetRequest(e))
    BY <1>10, Zenon DEF d, RequestComplete, m, r, stop
  <2>2. m = r + 2 /\ n = p + 2
    <3>1. r \in Nat /\ m \in Nat /\ n \in Nat /\ p = n - m + r
      BY <1>1, <1>2, Zenon
    <3>2. r + 1 = m - 1 => m = r + 2
      BY <3>1
    <3>3. m = r + 2
      BY <1>8, <1>10, <3>2, Zenon
    <3> QED BY <3>1, <3>3
  <2>3. e \in ConnType
    BY <1>6, FieldTypes DEF Moved
  <2>4. /\ Next1(e) /\ e.is_end_parsing_ /\ e.is_end_read_
        /\ e.read_pos_ = m
    <3>1. stop \in ConnType /\ stop.status = "ok" /\ SameBuffer(c, stop)
          /\ stop.argv_ = c.argv_ /\ SameHistory(c, stop)
      BY <1>6 DEF Moved, SameParser
    <3> QED BY <1>6, <2>3, <3>1 DEF ConnType, SameBuffer, SameHistory
  <2> HIDE DEF e, Next1
  <2>5. /\ Served(s, n, c, d) /\ Buffered(s, n, d)
        /\ d \in ConnType /\ d.status = "ok"
        /\ d.read_buffer_size_ = m /\ d.is_end_parsing_ /\ d.read_pos_ = m
        /\ Len(d.executed) = q + 1
        /\ d.state_ = "kBluk" /\ d.bluk_length_ = -1
        /\ d.argv_ = <<>> /\ d.data_ = <<>>
    BY <1>7, <2>1, <2>4
  <2>6. ReadPos(n, d) = n /\ EndOfRequest(s, q + 1) = n
    BY <1>2, <2>2, <2>5 DEF ReadPos, p
  <2>7. Starved(s, n, d, ReadPos(n, d))
    BY <2>5, <2>6 DEF Starved, AtRequest
  <2>8. Landed(s, n, d)
    BY <1>2, <2>5, <2>7 DEF Landed
  <2> QED BY <2>5, <2>8 DEF d, SameSize, m
<1>11. CASE ~(r + 1 = m - 1 \/ At(c, r + 2) # Star) /\ r + 2 = m - 1
  <2>1. d = Reset(GetRequest(stop))
    BY <1>11, Zenon DEF d, RequestComplete, m, r, stop
  <2>2. m # r + 2 /\ n = p + 3
    BY <1>1, <1>2, <1>11, SMTT(30) DEF m, r
  <2>3. n # EndOfRequest(s, q + 1)
    BY <1>2, <2>2 DEF p
  <2>4. Next1(stop)
    BY <1>6 DEF Moved, SameParser
  <2> HIDE DEF Next1
  <2>5. /\ Served(s, n, c, d) /\ Buffered(s, n, d)
        /\ d \in ConnType /\ d.status = "ok"
        /\ d.read_buffer_size_ = m /\ d.is_end_parsing_ /\ d.read_pos_ = m
        /\ Len(d.executed) = q + 1
        /\ d.state_ = "kBluk" /\ d.bluk_length_ = -1
        /\ d.argv_ = <<>> /\ d.data_ = <<>>
    BY <1>6, <1>7, <2>1, <2>3, <2>4
  <2>6. ReadPos(n, d) = n /\ CountAt(s, q + 1) = n /\ q + 1 < Len(s)
    BY <1>2, <1>8, <2>2, <2>5 DEF ReadPos
  <2>7. Starved(s, n, d, ReadPos(n, d))
    <3>1. n \in n..(n + NumLen(ArgCount(s, q + 1)))
      <4>1. q + 1 \in 0..(Len(s) - 1)
        BY <1>3, <2>6
      <4>2. NumLen(ArgCount(s, q + 1)) \in Nat
        BY <1>1, <4>1, CountBytes, DecimalBytes
      <4> QED BY <1>2, <4>2
    <3> QED BY <2>5, <2>6, <3>1 DEF Starved, AtCount
  <2>8. Landed(s, n, d)
    BY <1>2, <2>5, <2>7 DEF Landed
  <2> QED BY <2>5, <2>8 DEF d, SameSize, m
<1>12. CASE ~(r + 1 = m - 1 \/ At(c, r + 2) # Star) /\ r + 2 # m - 1
  <2> DEFINE e == [c EXCEPT !.read_pos_ = r + 3]
  <2>1. d = Reset(GetRequest(e))
    BY <1>12, Zenon DEF d, RequestComplete, m, r
  <2>2. m # r + 2 /\ m >= r + 4 /\ r + 3 \in Int /\ n = p + (m - r)
    <3>1. /\ r \in Nat /\ m \in Nat /\ p \in Nat /\ n \in Nat
          /\ p = n - m + r /\ r + 2 <= m /\ r + 2 # m - 1 /\ r + 1 # m - 1
      BY <1>1, <1>2, <1>12
    <3> QED BY <3>1
  <2>3. n # EndOfRequest(s, q + 1)
    <3>1. p + 2 = EndOfRequest(s, q + 1)
      BY DEF p
    <3>2. r \in Nat /\ m \in Nat /\ p \in Nat
      BY <1>1, <1>2, Zenon
    <3> QED BY <2>2, <3>1, <3>2
  <2>4. /\ Moved(c, e) /\ SameHistory(c, e)
        /\ e.is_end_parsing_ = c.is_end_parsing_ /\ e.read_pos_ = r + 3
    BY <1>1, <2>2, MoveTo
  <2>5. Next1(e)
    BY <2>4 DEF Moved, SameParser
  <2> HIDE DEF e, Next1
  <2>6. /\ Served(s, n, c, d) /\ Buffered(s, n, d)
        /\ d \in ConnType /\ d.status = "ok"
        /\ d.read_buffer_size_ = m /\ ~d.is_end_parsing_
        /\ d.read_pos_ = r + 3 /\ Len(d.executed) = q + 1
        /\ d.state_ = "kBluk" /\ d.bluk_length_ = -1
        /\ d.argv_ = <<>> /\ d.data_ = <<>>
    BY <1>1, <1>7, <2>1, <2>3, <2>4, <2>5
  <2>7. ReadPos(n, d) = p + 3 /\ CountAt(s, q + 1) = p + 3 /\ q + 1 < Len(s)
    <3>1. ReadPos(n, d) = n - m + (r + 3)
      BY <2>6 DEF ReadPos
    <3>2. r \in Nat /\ m \in Nat /\ n \in Nat /\ p = n - m + r
      BY <1>1, <1>2
    <3> QED BY <1>8, <2>2, <3>1, <3>2
  <2>8. Ahead(s, d, ReadPos(n, d))
    BY <2>6, <2>7 DEF Ahead, AtCount
  <2>9. d.read_pos_ \in 0..d.read_buffer_size_
    <3>1. r \in Nat /\ m \in Nat /\ m >= r + 4
      BY <1>1, <1>2, <2>2
    <3> QED BY <2>6, <3>1
  <2> QED BY <2>6, <2>8, <2>9 DEF Landed, d, SameSize, m
<1> QED BY <1>10, <1>11, <1>12

\* The states follow each other: number of arguments, length, payload, length;
\* each payload takes one from bluk_length_.
LEMMA NextFrameHolds ==
  ASSUME NEW s, NEW n, NEW c, NEW k, Holds(s, n, c, k)
  PROVE  LET d == NextFrame(c)
         IN  /\ Holds(s, n, d, k) /\ Kept(c, d) /\ SameBuffer(c, d)
             /\ ReadPos(n, d) = ReadPos(n, c)
             /\ d.left_ = c.left_ /\ d.argv_ = c.argv_ /\ d.data_ = c.data_
             /\ c.state_ = "kMultiBluk" =>
                  d.state_ = "kParseString" /\ d.bluk_length_ = c.bluk_length_
             /\ c.state_ = "kBluk" =>
                  d.state_ = "kMultiBluk" /\ d.bluk_length_ = c.bluk_length_
             /\ c.state_ = "kParseString" =>
                  /\ d.state_ = "kMultiBluk"
                  /\ d.bluk_length_ = c.bluk_length_ - 1
<1> DEFINE d == NextFrame(c)
           b == IF c.state_ = "kParseString" THEN c.bluk_length_ - 1
                                             ELSE c.bluk_length_
           t == IF c.state_ = "kMultiBluk" THEN "kParseString" ELSE "kMultiBluk"
<1>1. c \in ConnType /\ c.status = "ok" /\ ~c.is_end_parsing_
  BY DEF Holds
<1>2. b \in Int /\ t \in {"kBluk", "kMultiBluk", "kParseString"}
  BY <1>1 DEF ConnType
<1>3. CASE c.state_ = "kMultiBluk"
  <2>1. d = [c EXCEPT !.state_ = "kParseString"]
    BY <1>3, Zenon DEF NextFrame
  <2>2. d \in ConnType
    <3>1. "kParseString" \in {"kBluk", "kMultiBluk", "kParseString"}
      OBVIOUS
    <3>2. [c EXCEPT !.state_ = "kParseString"] \in ConnType
      BY <1>1, <3>1, FieldTypes, Zenon
    <3> HIDE DEF d
    <3> QED BY <2>1, <3>2
  <2> HIDE DEF d
  <2>3. /\ SameBuffer(c, d) /\ Kept(c, d) /\ d.status = "ok"
        /\ ~d.is_end_parsing_ /\ d.read_pos_ = c.read_pos_
        /\ d.left_ = c.left_ /\ d.argv_ = c.argv_ /\ d.data_ = c.data_
        /\ d.state_ = "kParseString" /\ d.bluk_length_ = c.bluk_length_
    BY <1>1, <2>1 DEF ConnType, SameBuffer, Kept, SameHistory
  <2>4. Holds(s, n, d, k) /\ ReadPos(n, d) = ReadPos(n, c)
    BY <2>2, <2>3 DEF Holds, SameBuffer, Buffered, Done, Kept, SameHistory,
                      ReadPos
  <2> QED BY <1>3, <2>3, <2>4 DEF d
<1>4. CASE c.state_ # "kMultiBluk"
  <2> DEFINE e == [c EXCEPT !.state_ = "kMultiBluk"]
  <2>1. d = [e EXCEPT !.bluk_length_ = b]
    BY <1>4 DEF NextFrame
  <2>2. d \in ConnType
    <3>1. e \in ConnType
      BY <1>1, FieldTypes
    <3> HIDE DEF d, e, b
    <3> QED BY <1>2, <2>1, <3>1, FieldTypes
  <2> HIDE DEF d, b
  <2>3. /\ SameBuffer(c, d) /\ Kept(c, d) /\ d.status = "ok"
        /\ ~d.is_end_parsing_ /\ d.read_pos_ = c.read_pos_
        /\ d.left_ = c.left_ /\ d.argv_ = c.argv_ /\ d.data_ = c.data_
        /\ d.state_ = "kMultiBluk" /\ d.bluk_length_ = b
    BY <1>1, <2>1 DEF ConnType, SameBuffer, Kept, SameHistory
  <2>4. Holds(s, n, d, k) /\ ReadPos(n, d) = ReadPos(n, c)
    BY <2>2, <2>3 DEF Holds, SameBuffer, Buffered, Done, Kept, SameHistory,
                      ReadPos
  <2> QED BY <1>4, <2>3, <2>4 DEF d, b
<1> QED BY <1>3, <1>4

\* With CR and LF at read_pos_ the assert holds.
LEMMA AssertPasses ==
  ASSUME NEW s, NEW n, NEW c, Holds(s, n, c, 2),
         Wire(s)[ReadPos(n, c) + 1] = CR, Wire(s)[ReadPos(n, c) + 2] = LF
  PROVE  Assert_(c) =
           LET d == NextFrame(c)
           IN  IF d.bluk_length_ = 0 /\ d.left_ = 0 THEN RequestComplete(d)
                                                   ELSE SkipToFrame(d)
<1> DEFINE m == c.read_buffer_size_
           r == c.read_pos_
           p == ReadPos(n, c)
<1>1. c.status = "ok" /\ r \in Nat /\ r + 2 <= m
  BY DEF Holds
<1>2. /\ m \in Nat /\ p \in Nat
      /\ \A i \in Nat : r + i < m => At(c, r + i) = Wire(s)[p + i + 1]
  BY HoldsBytes
<1> HIDE DEF m, r, p
<1>3. At(c, r) = CR
  <2>1. r + 0 = r /\ r + 0 < m /\ p + 0 + 1 = p + 1
    BY <1>1, <1>2
  <2>2. At(c, r + 0) = Wire(s)[p + 0 + 1]
    BY <1>2, <2>1
  <2> QED BY <2>1, <2>2 DEF p
<1>4. At(c, r + 1) = LF
  <2>1. r + 1 < m /\ p + 1 + 1 = p + 2
    BY <1>1, <1>2
  <2>2. At(c, r + 1) = Wire(s)[p + 1 + 1]
    BY <1>2, <2>1
  <2> QED BY <2>1, <2>2 DEF p
<1>5. r # m /\ r # m - 1
  BY <1>1, <1>2
<1> QED BY <1>1, <1>3, <1>4, <1>5, Zenon DEF Assert_, Ok, m, r

\* A step that runs nothing changes nothing for the step after it.
LEMMA KeptTwice ==
  ASSUME NEW c, NEW d, NEW e, Kept(c, d)
  PROVE  /\ Kept(d, e) => Kept(c, e)
         /\ \A s, n : Served(s, n, d, e) => Served(s, n, c, e)
<1>1. Kept(d, e) => Kept(c, e)
  BY DEF Kept, SameHistory
<1>2. ASSUME NEW s, NEW n, Served(s, n, d, e)
      PROVE  Served(s, n, c, e)
  BY <1>2, Zenon DEF Kept, SameHistory, Served
<1> QED BY <1>1, <1>2

\* With its last argument argv_ is the request.
LEMMA WholeRequest ==
  ASSUME NEW s \in Script, NEW c \in ConnType, Args(s, c), Done(s, c),
         Len(c.argv_) = ArgCount(s, Len(c.executed))
  PROVE  c.argv_ = s[Len(c.executed) + 1]
<1> DEFINE r == s[Len(c.executed) + 1]
<1>1. r \in Seq(Text) /\ c.argv_ \in Seq(Seq(Char))
  <2>1. Len(c.executed) + 1 \in DOMAIN s
    BY DEF Args, Done, Script
  <2>2. r \in Request
    BY <2>1 DEF Script
  <2> QED BY <2>2 DEF Request, ConnType
<1>2. Len(c.argv_) = Len(r) /\ \A i \in 1..Len(c.argv_) : c.argv_[i] = r[i]
  BY DEF Args, ArgCount
<1> HIDE DEF r
<1>3. DOMAIN r = 1..Len(r) /\ DOMAIN c.argv_ = 1..Len(c.argv_)
      /\ r = [i \in DOMAIN r |-> r[i]]
      /\ c.argv_ = [i \in DOMAIN c.argv_ |-> c.argv_[i]]
  BY <1>1
<1>4. DOMAIN r = DOMAIN c.argv_ /\ \A i \in DOMAIN r : c.argv_[i] = r[i]
  BY <1>2, <1>3
<1> QED BY <1>3, <1>4, Zenon DEF r

\* What a method leaves: a place of the wire, with no request run or with one.
Moves(s, n, c, d) ==
  /\ Landed(s, n, d) /\ SameSize(c, d)
  /\ Kept(c, d) \/ Served(s, n, c, d)

\* Conn::Assert behind a payload, with CR and LF in the buffer or not: it
\* waits, goes to the next argument, or runs the request with its last one.
LEMMA AfterPayloadMoves ==
  ASSUME NEW s, NEW n, NEW c, Holds(s, n, c, 0),
         AfterPayload(s, c, ReadPos(n, c)), c.read_buffer_size_ # Dollar + 1
  PROVE  Moves(s, n, c, Assert_(c))
<1> DEFINE m == c.read_buffer_size_
           r == c.read_pos_
           p == ReadPos(n, c)
           q == Len(c.executed)
           a == Len(c.argv_)
           e == NextFrame(c)
<1>1. /\ s \in Script /\ c \in ConnType /\ c.status = "ok"
      /\ ~c.is_end_parsing_ /\ r \in Nat /\ r <= m /\ Done(s, c)
  BY DEF Holds
<1>2. /\ n \in Nat /\ m \in Nat /\ m <= n /\ p \in Nat /\ p = n - m + r
  BY HoldsBytes DEF ReadPos
<1>3. /\ Args(s, c) /\ a >= 1 /\ c.left_ = 0 /\ c.data_ = <<>>
      /\ c.state_ = "kParseString"
      /\ c.bluk_length_ = ArgCount(s, q) - a + 1
      /\ p = EndOfArgument(s, q, a) - 2
  BY DEF AfterPayload
<1>4. /\ q \in 0..(Len(s) - 1) /\ a \in Nat /\ a <= ArgCount(s, q)
      /\ a - 1 \in 0..(ArgCount(s, q) - 1) /\ ArgCount(s, q) \in Nat
  <2>1. q \in 0..(Len(s) - 1)
    BY <1>1, <1>3 DEF Done, Args, Script
  <2>2. ArgCount(s, q) \in Nat
    BY <1>1, <2>1, CountBytes
  <2>3. a \in Nat /\ a <= ArgCount(s, q)
    BY <1>1, <1>3 DEF ConnType, Args
  <2> HIDE DEF a, q
  <2> QED BY <1>3, <2>1, <2>2, <2>3
<1>5. Wire(s)[p + 1] = CR /\ Wire(s)[p + 2] = LF
  <2> DEFINE x == PayloadAt(s, q, a - 1)
             l == ArgLen(s, q, a - 1)
  <2>1. /\ Wire(s)[x + l + 1] = CR /\ Wire(s)[x + l + 2] = LF
        /\ EndOfArgument(s, q, (a - 1) + 1) = x + l + 2
        /\ x \in Nat /\ l \in Nat
    BY <1>1, <1>4, ArgumentBytes
  <2> HIDE DEF x, l, p, q, a
  <2>2. (a - 1) + 1 = a
    BY <1>4
  <2>3. p = x + l
    BY <1>3, <2>1, <2>2
  <2> QED BY <2>1, <2>3
<1>6. CASE m < r + 2
  <2> HIDE DEF m, r, p
  <2>1. m = r \/ m = r + 1
    BY <1>1, <1>2, <1>6
  <2>2. Assert_(c) = EndParsing(c)
    <3>1. CASE m = r
      BY <1>1, <3>1, Zenon DEF Assert_, Ok, m, r
    <3>2. CASE m = r + 1
      <4>1. r = m - 1 /\ r # m /\ r + 0 = r /\ r + 0 < m
            /\ p + 0 + 1 = p + 1
        BY <1>1, <1>2, <3>2
      <4>2. At(c, r + 0) = Wire(s)[p + 0 + 1]
        BY <1>1, <4>1, HoldsBytes DEF p, m, r
      <4>3. At(c, r) = CR
        BY <1>5, <4>1, <4>2
      <4> QED BY <1>1, <4>1, <4>3, Zenon DEF Assert_, Ok, m, r
    <3> QED BY <2>1, <3>1, <3>2
  <2> DEFINE d == EndParsing(c)
  <2>3. /\ Moved(c, d) /\ SameHistory(c, d) /\ d.is_end_parsing_
        /\ d.is_end_read_ = c.is_end_read_ /\ d.read_pos_ = r
    BY <1>1, StopMoves DEF r
  <2> HIDE DEF d
  <2>4. n \in p..(p + 1) /\ r \in 0..m
    BY <1>1, <1>2, <2>1
  <2>5. Starved(s, n, c, p)
    BY <2>4 DEF Starved, p
  <2>6. Landed(s, n, d)
    BY <1>2, <2>3, <2>4, <2>5, MovedLands DEF m
  <2> QED BY <2>2, <2>3, <2>6 DEF Moves, Kept, d, SameSize, Moved, SameBuffer
<1>7. CASE ~(m < r + 2)
  <2>1. Holds(s, n, c, 2)
    <3>1. r + 2 <= m
      <4> HIDE DEF m, r
      <4> QED BY <1>1, <1>2, <1>7
    <3> QED BY <3>1 DEF Holds
  <2>2. Assert_(c) = IF e.bluk_length_ = 0 /\ e.left_ = 0
                       THEN RequestComplete(e) ELSE SkipToFrame(e)
    BY <1>5, <2>1, AssertPasses
  <2>3. /\ Holds(s, n, e, 2) /\ Kept(c, e) /\ SameBuffer(c, e)
        /\ ReadPos(n, e) = p
        /\ e.left_ = 0 /\ e.argv_ = c.argv_ /\ e.data_ = <<>>
        /\ e.state_ = "kMultiBluk" /\ e.bluk_length_ = c.bluk_length_ - 1
    BY <1>3, <2>1, NextFrameHolds
  <2> HIDE DEF e
  <2>4. Len(e.executed) = q /\ Len(e.argv_) = a /\ Args(s, e)
    BY <1>3, <2>3 DEF Kept, SameHistory, Args
  <2>5. e.bluk_length_ = ArgCount(s, q) - a
    BY <1>3, <1>4, <2>3
  <2>6. p \in Nat /\ p + 2 = EndOfArgument(s, q, a)
    <3>1. EndOfArgument(s, q, a) \in Nat
      BY <1>1, <1>4, ArgumentEnds
    <3> QED BY <1>2, <1>3, <3>1
  <2>7. CASE e.bluk_length_ = 0
    <3>1. a = ArgCount(s, q)
      BY <1>4, <2>5, <2>7
    <3>2. e.argv_ = s[q + 1]
      BY <2>3, <2>4, <3>1, WholeRequest DEF Holds
    <3>3. ReadPos(n, e) + 2 = EndOfRequest(s, q + 1)
      <4>1. EndOfArgument(s, q, ArgCount(s, q)) = EndOfRequest(s, q + 1)
        BY <1>1, <1>4, WireLayout DEF ArgCount
      <4> QED BY <2>3, <2>6, <3>1, <4>1
    <3>4. Len(e.executed) < Len(s)
      BY <2>4 DEF Args
    <3>5. /\ Landed(s, n, RequestComplete(e))
          /\ Served(s, n, e, RequestComplete(e))
          /\ SameSize(e, RequestComplete(e))
      BY <2>3, <2>4, <3>2, <3>3, <3>4, RequestLands
    <3>6. Assert_(c) = RequestComplete(e)
      BY <2>2, <2>3, <2>7
    <3> QED BY <2>3, <3>5, <3>6, KeptTwice DEF Moves, SameSize, SameBuffer
  <2>8. CASE e.bluk_length_ # 0
    <3>1. a < ArgCount(s, q)
      BY <1>4, <2>5, <2>8
    <3>2. AtArgument(s, e, ReadPos(n, e) + 2)
      BY <2>3, <2>4, <2>5, <2>6, <3>1 DEF AtArgument, Missing
    <3>3. e.read_buffer_size_ # Dollar + 1
      BY <2>3 DEF SameBuffer
    <3>4. /\ Landed(s, n, SkipToFrame(e)) /\ Kept(e, SkipToFrame(e))
          /\ SameSize(e, SkipToFrame(e))
      BY <2>3, <3>2, <3>3, SkipToArgument
    <3>5. Assert_(c) = SkipToFrame(e)
      BY <2>2, <2>8
    <3> QED BY <2>3, <3>4, <3>5, KeptTwice DEF Moves, SameSize, SameBuffer
  <2> QED BY <2>7, <2>8
<1> QED BY <1>6, <1>7

\* After the number of arguments the parser looks for the first of them.
LEMMA CountLands ==
  ASSUME NEW s, NEW n, NEW c, Holds(s, n, c, 2),
         Len(c.executed) < Len(s),
         c.state_ = "kBluk", c.argv_ = <<>>, c.data_ = <<>>,
         c.bluk_length_ = ArgCount(s, Len(c.executed)),
         ReadPos(n, c) = CountAt(s, Len(c.executed))
                           + NumLen(ArgCount(s, Len(c.executed))),
         c.read_buffer_size_ # Dollar + 1
  PROVE  /\ Landed(s, n, Assert_(c)) /\ Kept(c, Assert_(c))
         /\ SameSize(c, Assert_(c))
<1> DEFINE p == ReadPos(n, c)
           q == Len(c.executed)
           e == NextFrame(c)
<1>1. s \in Script /\ q \in 0..(Len(s) - 1)
  BY DEF Holds, Done, Script
<1>2. /\ ArgCount(s, q) \in Nat /\ ArgCount(s, q) >= 1
      /\ NumLen(ArgCount(s, q)) \in Nat /\ CountAt(s, q) \in Nat
      /\ Wire(s)[CountAt(s, q) + NumLen(ArgCount(s, q)) + 1] = CR
      /\ Wire(s)[CountAt(s, q) + NumLen(ArgCount(s, q)) + 2] = LF
      /\ EndOfArgument(s, q, 0) = CountAt(s, q) + NumLen(ArgCount(s, q)) + 2
  BY <1>1, CountBytes, DecimalBytes
<1>3. Wire(s)[p + 1] = CR /\ Wire(s)[p + 2] = LF
      /\ p + 2 = EndOfArgument(s, q, 0)
  BY <1>2
<1>4. /\ Holds(s, n, e, 2) /\ Kept(c, e) /\ SameBuffer(c, e)
      /\ ReadPos(n, e) = p
      /\ e.left_ = c.left_ /\ e.argv_ = c.argv_ /\ e.data_ = c.data_
      /\ e.state_ = "kMultiBluk" /\ e.bluk_length_ = c.bluk_length_
  BY NextFrameHolds
<1>5. Assert_(c) = IF e.bluk_length_ = 0 /\ e.left_ = 0
                     THEN RequestComplete(e) ELSE SkipToFrame(e)
  BY <1>3, AssertPasses
<1> HIDE DEF e, p
<1>6. e.bluk_length_ # 0
  BY <1>2, <1>4
<1>7. Assert_(c) = SkipToFrame(e)
  BY <1>5, <1>6
<1>8. Len(e.executed) = q /\ Len(e.argv_) = 0 /\ e.argv_ = <<>>
  BY <1>4 DEF Kept, SameHistory
<1>9. Args(s, e)
  BY <1>1, <1>2, <1>8 DEF Args
<1>10. Missing(s, e)
  BY <1>2, <1>4, <1>8, <1>9 DEF Missing
<1>11. AtArgument(s, e, ReadPos(n, e) + 2)
  BY <1>3, <1>4, <1>8, <1>10 DEF AtArgument
<1>12. e.read_buffer_size_ # Dollar + 1
  BY <1>4 DEF SameBuffer
<1>13. /\ Landed(s, n, SkipToFrame(e)) /\ Kept(e, SkipToFrame(e))
       /\ SameSize(e, SkipToFrame(e))
  BY <1>4, <1>11, <1>12, SkipToArgument
<1> QED BY <1>4, <1>7, <1>13, KeptTwice DEF SameSize, SameBuffer

\* A Conn with bytes of a payload to take.
Taking(s, n, d) ==
  /\ Holds(s, n, d, 1)
  /\ d.analysis_pos_ = d.read_pos_
  /\ InPayload(s, d, ReadPos(n, d))

\* After the length of a payload the parser stops, or goes on with the payload.
LEMMA LengthLands ==
  ASSUME NEW s, NEW n, NEW c, Holds(s, n, c, 2),
         c.state_ = "kMultiBluk", c.data_ = <<>>, Missing(s, c),
         c.left_ = ArgLen(s, Len(c.executed), Len(c.argv_)),
         ReadPos(n, c)
           = LengthAt(s, Len(c.executed), Len(c.argv_))
               + NumLen(ArgLen(s, Len(c.executed), Len(c.argv_)))
  PROVE  LET d == Assert_(c)
         IN  /\ Kept(c, d) /\ SameSize(c, d)
             /\ d.is_end_parsing_ => Landed(s, n, d)
             /\ ~d.is_end_parsing_ => Taking(s, n, d)
<1> DEFINE p == ReadPos(n, c)
           q == Len(c.executed)
           a == Len(c.argv_)
           l == ArgLen(s, q, a)
           e == NextFrame(c)
           d == Assert_(c)
<1>1. /\ s \in Script /\ c \in ConnType
      /\ q \in 0..(Len(s) - 1) /\ a \in 0..(ArgCount(s, q) - 1)
  BY MissingPlace DEF Holds
<1>2. /\ l \in Nat /\ l >= 1 /\ NumLen(l) \in Nat
      /\ LengthAt(s, q, a) \in Nat
      /\ Wire(s)[LengthAt(s, q, a) + NumLen(l) + 1] = CR
      /\ Wire(s)[LengthAt(s, q, a) + NumLen(l) + 2] = LF
  BY <1>1, ArgumentBytes, DecimalBytes
<1>3. /\ Wire(s)[p + 1] = CR /\ Wire(s)[p + 2] = LF
      /\ p + 2 = PayloadAt(s, q, a)
  BY <1>2 DEF PayloadAt
<1>4. /\ Holds(s, n, e, 2) /\ Kept(c, e) /\ SameBuffer(c, e)
      /\ ReadPos(n, e) = p
      /\ e.left_ = c.left_ /\ e.argv_ = c.argv_ /\ e.data_ = c.data_
      /\ e.state_ = "kParseString" /\ e.bluk_length_ = c.bluk_length_
  BY NextFrameHolds
<1>5. d = IF e.bluk_length_ = 0 /\ e.left_ = 0
            THEN RequestComplete(e) ELSE SkipToFrame(e)
  BY <1>3, AssertPasses
<1> HIDE DEF e, p, d
<1>6. e.left_ # 0
  BY <1>2, <1>4
<1>7. d = SkipToFrame(e)
  BY <1>5, <1>6
<1>8. Len(e.executed) = q /\ Len(e.argv_) = a /\ e.data_ = <<>>
  BY <1>4 DEF Kept, SameHistory
<1>9. Missing(s, e)
  BY <1>4, <1>8 DEF Missing, Args, Kept, SameHistory
<1>10. Len(e.data_) = 0 /\ l - e.left_ = 0 /\ e.left_ \in 1..l
  <2>1. e.left_ = l
    BY <1>4
  <2> HIDE DEF l
  <2> QED BY <1>2, <1>8, <2>1
<1>11. p \in Nat /\ PayloadAt(s, q, a) + 0 = PayloadAt(s, q, a)
  <2>1. p \in Nat
    BY HoldsBytes DEF p
  <2> QED BY <1>3, <2>1
<1>12. InPayload(s, e, ReadPos(n, e) + 2)
  BY <1>3, <1>4, <1>8, <1>9, <1>10, <1>11 DEF InPayload
<1>13. /\ Kept(e, d) /\ SameSize(e, d)
       /\ d.is_end_parsing_ => Landed(s, n, d)
       /\ ~d.is_end_parsing_ =>
            /\ Holds(s, n, d, 1)
            /\ d.analysis_pos_ = d.read_pos_
            /\ InPayload(s, d, ReadPos(n, d))
  BY <1>4, <1>7, <1>12, SkipToPayload
<1> QED BY <1>4, <1>7, <1>13, KeptTwice DEF Taking, SameSize, SameBuffer, d

\* Add took num bytes of the payload and has u of it.
Takes(s, n, d, num, u) ==
  /\ Taking(s, n, d)
  /\ num \in 1..d.left_ /\ d.read_pos_ + num <= d.read_buffer_size_
  /\ u = d.data_ \o Substr(CString(d), d.analysis_pos_, num)

Has(d, num, u, arg) ==
  /\ u \in Seq(Char) /\ Len(u) = Len(d.data_) + num
  /\ \A i \in 1..Len(u) : u[i] = arg[i]
  /\ num = d.left_ => u = arg

\* What Add took with what it had is a prefix of the argument, and with all
\* that was left, the argument.
LEMMA Taken ==
  ASSUME NEW s, NEW n, NEW d, NEW num, NEW u, Takes(s, n, d, num, u)
  PROVE  Has(d, num, u, Arg(s, Len(d.executed), Len(d.argv_)))
<1> DEFINE m == d.read_buffer_size_
           r == d.read_pos_
           p == ReadPos(n, d)
           b == d.read_buffer_
           q == Len(d.executed)
           a == Len(d.argv_)
           arg == Arg(s, q, a)
           l == ArgLen(s, q, a)
           x == PayloadAt(s, q, a)
           data == d.data_
           t == SubSeq(b, r + 1, r + num)
<1>1. /\ s \in Script /\ d \in ConnType /\ r \in Nat /\ Done(s, d)
      /\ Buffered(s, n, d) /\ d.analysis_pos_ = r
  BY DEF Takes, Taking, Holds
<1>2. /\ n \in Nat /\ m \in Nat /\ m <= n /\ p \in Nat /\ p = n - m + r
  BY HoldsBytes DEF ReadPos, Takes, Taking
<1>3. /\ Missing(s, d) /\ d.left_ \in 1..l /\ Len(data) = l - d.left_
      /\ \A i \in 1..Len(data) : data[i] = arg[i]
      /\ p = x + Len(data)
  BY DEF Takes, Taking, InPayload
<1>4. q \in 0..(Len(s) - 1) /\ a \in 0..(ArgCount(s, q) - 1)
  BY <1>1, <1>3, MissingPlace
<1>5. /\ arg \in Seq(Char) /\ l = Len(arg) /\ l \in Nat /\ x \in Nat
      /\ \A i \in 1..l : Wire(s)[x + i] = arg[i]
  BY <1>1, <1>4, ArgumentBytes DEF Text, ArgLen
<1>6. /\ b \in Seq(Char) /\ m = Len(b) /\ data \in Seq(Char)
      /\ \A i \in 1..m : b[i] = Wire(s)[n - m + i]
  BY <1>1 DEF ConnType, Buffered
<1>0. /\ num \in 1..d.left_ /\ r + num <= m
      /\ u = data \o Substr(CString(d), d.analysis_pos_, num)
  BY DEF Takes
<1>7. Substr(CString(d), d.analysis_pos_, num) = t
  <2>1. CString(d) = b
    BY <1>1, CStringIsBuffer
  <2>2. ~(num < 0) /\ ~(r + num > Len(b))
    <3>1. d.left_ \in Nat
      BY <1>3, <1>5
    <3> QED BY <1>0, <1>1, <1>2, <1>6, <3>1
  <2> HIDE DEF b, r, t
  <2> QED BY <1>1, <2>1, <2>2, Zenon DEF Substr, t, r
<1> HIDE DEF m, r, p, b, q, a, arg, l, x, data
<1>8. num \in Nat /\ num >= 1 /\ r + num <= m /\ num <= d.left_
      /\ d.left_ \in Nat
  <2>1. num \in 1..d.left_ /\ d.left_ \in Nat /\ r + num <= m
    BY <1>0, <1>3, <1>5
  <2> QED BY <2>1
<1>9. t \in Seq(Char) /\ Len(t) = num /\ \A i \in 1..num : t[i] = b[r + i]
  <2>1. b \in Seq(Char) /\ r \in Nat /\ num \in Nat /\ r + num <= Len(b)
    BY <1>1, <1>6, <1>8 DEF r
  <2> HIDE DEF r
  <2> QED BY <2>1, SMTT(30)
<1> HIDE DEF t
<1>10. ASSUME NEW i \in 1..num
       PROVE  t[i] = arg[Len(data) + i]
  <2>1. r + i \in 1..m /\ n - m + (r + i) = p + i
    BY <1>1, <1>2, <1>8 DEF r
  <2>2. t[i] = Wire(s)[p + i]
    BY <1>6, <1>9, <2>1
  <2>3. Len(data) \in Nat
    BY <1>6
  <2>4. Len(data) + i \in 1..l /\ x + (Len(data) + i) = p + i
    <3> DEFINE k == Len(data)
    <3>1. /\ d.left_ \in Nat /\ num <= d.left_ /\ k = l - d.left_
          /\ k \in Nat /\ l \in Nat /\ x \in Nat /\ p = x + k /\ num \in Nat
      BY <1>3, <1>5, <1>8, <2>3
    <3> HIDE DEF k
    <3>2. k + i \in 1..l /\ x + (k + i) = p + i
      BY <3>1
    <3> QED BY <3>2 DEF k
  <2>5. Wire(s)[x + (Len(data) + i)] = arg[Len(data) + i]
    BY <1>5, <2>4
  <2> QED BY <2>2, <2>4, <2>5
<1>15. u = data \o t
  BY <1>0, <1>7
<1> DEFINE k == Len(data)
<1>11. /\ u \in Seq(Char) /\ k \in Nat /\ Len(u) = k + num
       /\ \A i \in 1..k : u[i] = data[i]
       /\ \A i \in 1..num : u[k + i] = t[i]
  <2>1. /\ data \o t \in Seq(Char) /\ Len(data) \in Nat
        /\ Len(data \o t) = Len(data) + Len(t)
        /\ \A i \in 1..Len(data) : (data \o t)[i] = data[i]
        /\ \A i \in 1..Len(t) : (data \o t)[Len(data) + i] = t[i]
    BY <1>6, <1>9, ConcatParts, Zenon
  <2>2. Len(t) = num
    BY <1>9, Zenon
  <2> QED BY <1>15, <2>1, <2>2, Zenon
<1>12. k + num <= l /\ (num = d.left_ => k + num = l)
  <2>1. /\ d.left_ \in Nat /\ num <= d.left_ /\ k = l - d.left_
        /\ k \in Nat /\ l \in Nat /\ num \in Nat
    BY <1>3, <1>5, <1>8, <1>11
  <2> HIDE DEF k
  <2> QED BY <2>1
<1> HIDE DEF k
<1>13. ASSUME NEW i \in 1..Len(u)
       PROVE  u[i] = arg[i]
  <2>1. CASE i <= k
    <3>1. i \in 1..k
      BY <1>11, <2>1
    <3> QED BY <1>3, <1>11, <3>1 DEF k
  <2>2. CASE ~(i <= k)
    <3>1. i - k \in 1..num /\ k + (i - k) = i
      BY <1>8, <1>11, <2>2
    <3>2. u[k + (i - k)] = arg[k + (i - k)]
      BY <1>10, <1>11, <3>1 DEF k
    <3> QED BY <3>1, <3>2
  <2> QED BY <2>1, <2>2
<1>14. num = d.left_ => u = arg
  <2> SUFFICES ASSUME num = d.left_ PROVE u = arg
    OBVIOUS
  <2>1. DOMAIN u = 1..Len(u) /\ DOMAIN arg = 1..l
        /\ u = [i \in DOMAIN u |-> u[i]] /\ arg = [i \in DOMAIN arg |-> arg[i]]
    BY <1>5, <1>11
  <2>2. DOMAIN u = DOMAIN arg /\ \A i \in DOMAIN u : u[i] = arg[i]
    BY <1>11, <1>12, <1>13, <2>1
  <2> QED BY <2>1, <2>2, Zenon
<1> QED BY <1>11, <1>13, <1>14 DEF Has, k, data, arg, q, a

\* Conn::Add takes what is there of a payload: the rest of the argument, after
\* which the parser goes on, or all of the buffer.
LEMMA AddMoves ==
  ASSUME NEW s, NEW n, NEW c, Taking(s, n, c),
         c.read_buffer_size_ # Dollar + 1
  PROVE  Moves(s, n, c, Add(c))
<1> DEFINE m == c.read_buffer_size_
           r == c.read_pos_
           p == ReadPos(n, c)
           q == Len(c.executed)
           a == Len(c.argv_)
           l == ArgLen(s, q, a)
           left == c.left_
           room == m - c.analysis_pos_
           num == IF left < room THEN left ELSE room
           t == c.data_ \o Substr(CString(c), c.analysis_pos_, num)
           u == Append(c.argv_, t)
<1>1. /\ s \in Script /\ c \in ConnType /\ c.status = "ok" /\ n \in 0..Len(Wire(s))
      /\ ~c.is_end_parsing_ /\ r \in Nat /\ r + 1 <= m /\ Done(s, c)
      /\ c.analysis_pos_ = r /\ Buffered(s, n, c)
  BY DEF Taking, Holds
<1>2. /\ n \in Nat /\ m \in Nat /\ m <= n /\ p \in Nat /\ p = n - m + r
  BY HoldsBytes DEF ReadPos, Taking
<1>3. /\ Missing(s, c) /\ left \in 1..l /\ Len(c.data_) = l - left
      /\ p = PayloadAt(s, q, a) + Len(c.data_) /\ c.state_ = "kParseString"
  BY DEF Taking, InPayload
<1>4. q \in 0..(Len(s) - 1) /\ a \in 0..(ArgCount(s, q) - 1)
      /\ ArgCount(s, q) \in Nat
  BY <1>1, <1>3, MissingPlace, CountBytes
<1>5. /\ l \in Nat /\ PayloadAt(s, q, a) \in Nat
      /\ EndOfArgument(s, q, a + 1) = PayloadAt(s, q, a) + l + 2
  BY <1>1, <1>4, ArgumentBytes
<1>6. num \in 1..left /\ r + num <= m /\ num \in Nat /\ num # 0
      /\ (num # left => num = m - r)
  <2>1. left \in Nat /\ left >= 1
    BY <1>3, <1>5
  <2> HIDE DEF left, m, r
  <2> QED BY <1>1, <1>2, <2>1
<1>7. /\ t \in Seq(Char) /\ Len(t) = Len(c.data_) + num
      /\ \A i \in 1..Len(t) : t[i] = Arg(s, q, a)[i]
      /\ num = left => t = Arg(s, q, a)
  <2>1. t = c.data_ \o Substr(CString(c), c.analysis_pos_, num)
    OBVIOUS
  <2> HIDE DEF num, t
  <2>2. Takes(s, n, c, num, t)
    BY <1>6, <2>1 DEF Takes
  <2> QED BY <2>2, Taken DEF Has
<1>8. ~(c.analysis_pos_ > Len(CString(c)))
  <2>1. CString(c) = c.read_buffer_
    BY <1>1, CStringIsBuffer
  <2>2. Len(CString(c)) = m
    BY <1>1, <2>1 DEF Buffered
  <2> QED BY <1>1, <1>2, <2>2
<1> DEFINE da == [c EXCEPT !.left_ = 0, !.argv_ = u, !.data_ = <<>>,
                           !.read_pos_ = r + num]
           db == [c EXCEPT !.left_ = left - num, !.data_ = t,
                           !.read_pos_ = m]
<1>9. Add(c) = IF num = left THEN Assert_(da) ELSE Assert_(db)
  <2>1. Ok(c) /\ ~(num = 0)
    BY <1>1, <1>6 DEF Ok
  <2> QED BY <1>8, <2>1, Zenon DEF Add
<1> HIDE DEF da, db, t, num, u, left, room, m, r, p, l
<1>10. CASE num = left
  <2> DEFINE d == da
  <2>1. u \in Seq(Seq(Char)) /\ r + num \in Int
    BY <1>1, <1>6, <1>7 DEF ConnType, u
  <2>2. d \in ConnType
    <3> DEFINE e1 == [c EXCEPT !.left_ = 0]
               e2 == [e1 EXCEPT !.argv_ = u]
               e3 == [e2 EXCEPT !.data_ = <<>>]
               e4 == [e3 EXCEPT !.read_pos_ = r + num]
    <3>0. 0 \in Int /\ <<>> \in Seq(Char)
      OBVIOUS
    <3>1. e1 \in ConnType
      BY <1>1, <3>0, FieldTypes
    <3> HIDE DEF e1
    <3>2. e2 \in ConnType
      BY <3>1, <2>1, FieldTypes
    <3> HIDE DEF e2
    <3>3. e3 \in ConnType
      BY <3>2, <3>0, FieldTypes
    <3> HIDE DEF e3
    <3>4. e4 \in ConnType
      BY <3>3, <2>1, FieldTypes
    <3> QED BY <3>4 DEF da, e1, e2, e3
  <2>3. /\ SameBuffer(c, d) /\ Kept(c, d) /\ d.status = "ok"
        /\ ~d.is_end_parsing_ /\ d.read_pos_ = r + num
        /\ d.left_ = 0 /\ d.argv_ = u /\ d.data_ = <<>>
        /\ d.state_ = "kParseString" /\ d.bluk_length_ = c.bluk_length_
    BY <1>1, <1>3 DEF da, ConnType, SameBuffer, Kept, SameHistory
  <2> HIDE DEF d
  <2>4. ReadPos(n, d) = p + num
    BY <1>1, <1>2, <1>6, <2>3 DEF ReadPos, SameBuffer, m
  <2>5. Holds(s, n, d, 0)
    <3>1. d.read_pos_ \in Nat /\ d.read_pos_ + 0 <= d.read_buffer_size_
      BY <1>1, <1>6, <2>3 DEF SameBuffer, m
    <3>2. Buffered(s, n, d) /\ Done(s, d)
      BY <1>1, <2>3 DEF Buffered, Done, SameBuffer, Kept, SameHistory
    <3> QED BY <1>1, <2>2, <2>3, <3>1, <3>2 DEF Holds
  <2>6. /\ Len(d.executed) = q /\ Len(d.argv_) = a + 1
        /\ \A i \in 1..(a + 1) : d.argv_[i] = s[q + 1][i]
    <3>1. c.argv_ \in Seq(Seq(Char))
      BY <1>1 DEF ConnType
    <3>2. Len(u) = a + 1 /\ u[a + 1] = t /\ \A i \in 1..a : u[i] = c.argv_[i]
      BY <1>7, <3>1 DEF u
    <3>3. t = s[q + 1][a + 1]
      BY <1>7, <1>10 DEF Arg
    <3>4. \A i \in 1..a : c.argv_[i] = s[q + 1][i]
      BY <1>3 DEF Missing, Args
    <3>5. ASSUME NEW i \in 1..(a + 1)
          PROVE  u[i] = s[q + 1][i]
      <4>1. CASE i = a + 1
        BY <3>2, <3>3, <4>1
      <4>2. CASE i # a + 1
        <5>1. i \in 1..a
          BY <1>4, <4>2
        <5> QED BY <3>2, <3>4, <5>1
      <4> QED BY <4>1, <4>2
    <3>6. d.executed = c.executed
      BY <2>3 DEF Kept, SameHistory
    <3> QED BY <2>3, <3>2, <3>5, <3>6
  <2>7. Args(s, d)
    <3>1. q < Len(s) /\ a + 1 <= ArgCount(s, q)
      BY <1>3, <1>4 DEF Missing, Args
    <3> QED BY <2>6, <3>1 DEF Args
  <2>8. /\ Len(d.argv_) >= 1
        /\ d.bluk_length_ = ArgCount(s, q) - Len(d.argv_) + 1
        /\ p + num = EndOfArgument(s, q, Len(d.argv_)) - 2
    <3>1. c.bluk_length_ = ArgCount(s, q) - a /\ a \in Nat
      BY <1>3, <1>4 DEF Missing
    <3>2. p + num = PayloadAt(s, q, a) + l
      <4>1. Len(c.data_) \in Nat
        BY <1>1 DEF ConnType
      <4> QED BY <1>3, <1>5, <1>6, <1>10, <4>1 DEF p, l, left
    <3>3. d.bluk_length_ = ArgCount(s, q) - (a + 1) + 1
      BY <1>4, <2>3, <3>1
    <3>4. p + num = EndOfArgument(s, q, a + 1) - 2
      BY <1>5, <3>2 DEF l
    <3>5. a + 1 >= 1
      BY <3>1
    <3> QED BY <2>6, <3>3, <3>4, <3>5
  <2>9. AfterPayload(s, d, ReadPos(n, d))
    BY <2>3, <2>4, <2>6, <2>7, <2>8 DEF AfterPayload
  <2>10. d.read_buffer_size_ # Dollar + 1
    BY <2>3 DEF SameBuffer
  <2>11. Moves(s, n, d, Assert_(d))
    BY <2>5, <2>9, <2>10, AfterPayloadMoves
  <2> QED BY <1>9, <1>10, <2>3, <2>11, KeptTwice
          DEF Moves, d, SameSize, SameBuffer
<1>11. CASE num # left
  <2> DEFINE d == db
             e == EndParsing(d)
  <2>1. left - num \in Int /\ m \in Int /\ left \in Nat /\ left - num \in 1..l
    <3>1. left \in 1..l /\ l \in Nat
      BY <1>3, <1>5 DEF l, left
    <3> QED BY <1>2, <1>6, <1>11, <3>1
  <2>2. d \in ConnType
    <3> DEFINE e1 == [c EXCEPT !.left_ = left - num]
               e2 == [e1 EXCEPT !.data_ = t]
               e3 == [e2 EXCEPT !.read_pos_ = m]
    <3>1. e1 \in ConnType
      BY <1>1, <2>1, FieldTypes
    <3> HIDE DEF e1
    <3>2. e2 \in ConnType
      BY <3>1, <1>7, FieldTypes
    <3> HIDE DEF e2
    <3>3. e3 \in ConnType
      BY <3>2, <2>1, FieldTypes
    <3> QED BY <3>3 DEF db, e1, e2
  <2>3. /\ SameBuffer(c, d) /\ Kept(c, d) /\ d.status = "ok"
        /\ ~d.is_end_parsing_ /\ d.read_pos_ = m
        /\ d.left_ = left - num /\ d.argv_ = c.argv_ /\ d.data_ = t
        /\ d.state_ = "kParseString" /\ d.bluk_length_ = c.bluk_length_
    BY <1>1, <1>3 DEF db, ConnType, SameBuffer, Kept, SameHistory
  <2> HIDE DEF d
  <2>4. ReadPos(n, d) = n /\ n = p + num
    BY <1>1, <1>2, <1>6, <1>11, <2>3 DEF ReadPos, SameBuffer, m
  <2>5. Holds(s, n, d, 0)
    <3>1. d.read_pos_ \in Nat /\ d.read_pos_ + 0 <= d.read_buffer_size_
      BY <1>2, <2>3 DEF SameBuffer, m
    <3>2. Buffered(s, n, d) /\ Done(s, d)
      BY <1>1, <2>3 DEF Buffered, Done, SameBuffer, Kept, SameHistory
    <3> QED BY <1>1, <2>2, <2>3, <3>1, <3>2 DEF Holds
  <2>6. Missing(s, d) /\ Len(d.executed) = q /\ Len(d.argv_) = a
    BY <1>3, <2>3 DEF Missing, Args, Kept, SameHistory
  <2>7. Len(d.data_) = l - d.left_ /\ n = PayloadAt(s, q, a) + Len(d.data_)
    <3>1. left \in Nat /\ Len(c.data_) = l - left
          /\ p = PayloadAt(s, q, a) + Len(c.data_) /\ l \in Nat
          /\ PayloadAt(s, q, a) \in Nat
      BY <1>3, <1>5, <2>1 DEF l, left, p
    <3>2. Len(d.data_) = Len(c.data_) + num /\ d.left_ = left - num
      BY <1>7, <2>3
    <3> QED BY <1>6, <2>4, <3>1, <3>2
  <2>8. InPayload(s, d, n)
    <3>1. d.left_ \in 1..ArgLen(s, q, a)
      BY <2>1, <2>3 DEF l
    <3>2. \A i \in 1..Len(d.data_) : d.data_[i] = Arg(s, q, a)[i]
      BY <1>7, <2>3
    <3> QED BY <2>3, <2>6, <2>7, <3>1, <3>2 DEF InPayload, l
  <2>9. Assert_(d) = e
    <3>1. d.read_pos_ = d.read_buffer_size_
      BY <2>3 DEF SameBuffer, m
    <3> QED BY <2>3, <3>1, Zenon DEF Assert_, Ok
  <2>10. /\ Moved(d, e) /\ SameHistory(d, e) /\ e.is_end_parsing_
         /\ e.is_end_read_ = d.is_end_read_ /\ e.read_pos_ = m
    BY <2>2, <2>3, StopMoves
  <2> HIDE DEF e
  <2>11. Starved(s, n, d, n)
    BY <2>8 DEF Starved
  <2>12. Landed(s, n, e)
    <3>1. e.read_pos_ \in 0..d.read_buffer_size_
          /\ n = n - d.read_buffer_size_ + e.read_pos_
      BY <1>2, <2>3, <2>10 DEF SameBuffer, m
    <3> QED BY <2>5, <2>10, <2>11, <3>1, MovedLands
  <2> QED BY <1>9, <1>11, <2>3, <2>9, <2>10, <2>12, KeptTwice
          DEF Moves, Moved, Kept, d, SameSize, SameBuffer
<1> QED BY <1>10, <1>11

\* Add with nothing to take goes straight to the assert.
LEMMA AddAfterPayload ==
  ASSUME NEW s, NEW n, NEW c, Holds(s, n, c, 0),
         AfterPayload(s, c, ReadPos(n, c)),
         c.analysis_pos_ = 0, c.read_buffer_size_ # Dollar + 1
  PROVE  Moves(s, n, c, Add(c))
<1> DEFINE m == c.read_buffer_size_
           room == m - c.analysis_pos_
           num == IF c.left_ < room THEN c.left_ ELSE room
           t == c.data_ \o Substr(CString(c), c.analysis_pos_, num)
           d == [c EXCEPT !.data_ = t]
<1>1. /\ c \in ConnType /\ c.status = "ok" /\ ~c.is_end_parsing_
      /\ Buffered(s, n, c) /\ c.read_buffer_ \in Seq(Char)
  BY DEF Holds, ConnType
<1>2. m \in Nat
  BY HoldsBytes
<1>3. c.left_ = 0 /\ c.data_ = <<>>
  BY DEF AfterPayload
<1>4. num = 0
  BY <1>2, <1>3
<1>5. CString(c) = c.read_buffer_ /\ Len(CString(c)) = m
  BY <1>1, CStringIsBuffer DEF Buffered
<1>6. t = <<>>
  <2>1. ~(0 < 0) /\ ~(0 + 0 > m) /\ 0 + 0 = 0 /\ 0 + 1 = 1
    BY <1>2
  <2>2. Substr(CString(c), c.analysis_pos_, num) = SubSeq(c.read_buffer_, 1, 0)
    <3> HIDE DEF num, m
    <3> QED BY <1>4, <1>5, <2>1, Zenon DEF Substr
  <2>3. SubSeq(c.read_buffer_, 1, 0) = <<>>
    BY <1>1
  <2> HIDE DEF num
  <2> QED BY <1>3, <2>2, <2>3
<1>7. Add(c) = Assert_(d)
  <2>1. Ok(c) /\ ~(c.analysis_pos_ > Len(CString(c)))
    BY <1>1, <1>2, <1>5 DEF Ok
  <2> QED BY <1>4, <2>1, Zenon DEF Add
<1> HIDE DEF t
<1>8. d \in ConnType
  <2>1. t \in Seq(Char)
    BY <1>6
  <2> QED BY <1>1, <2>1, FieldTypes
<1> HIDE DEF d, m
<1>9. /\ SameBuffer(c, d) /\ SameParser(c, d) /\ Kept(c, d)
      /\ d.status = "ok" /\ ~d.is_end_parsing_
      /\ d.read_pos_ = c.read_pos_
  BY <1>1, <1>3, <1>6
     DEF d, ConnType, SameBuffer, SameParser, Kept, SameHistory
<1>10. Holds(s, n, d, 0) /\ ReadPos(n, d) = ReadPos(n, c)
  BY <1>8, <1>9 DEF Holds, SameBuffer, Buffered, Done, Kept, SameHistory,
                    ReadPos
<1>11. AfterPayload(s, d, ReadPos(n, d))
  BY <1>9, <1>10 DEF AfterPayload, Args, SameParser, Kept, SameHistory
<1>12. d.read_buffer_size_ # Dollar + 1
  BY <1>9 DEF SameBuffer
<1>13. Moves(s, n, d, Assert_(d))
  BY <1>10, <1>11, <1>12, AfterPayloadMoves
<1> QED BY <1>7, <1>9, <1>13, KeptTwice DEF Moves, SameSize, SameBuffer

\* The digits of N stand in w behind p, and a CR behind them.
NumberAt(w, p, N) ==
  /\ \A i \in 1..NumLen(N) : w[p + i] = Decimal(N)[i]
  /\ w[p + NumLen(N) + 1] = CR

\* The strchr and atoi of Conn::Parsing read the number at read_pos_ if its CR
\* is in the buffer, and find no CR otherwise.
LEMMA FindsNumber ==
  ASSUME NEW s, NEW n, NEW c, NEW N \in Nat, Holds(s, n, c, 0),
         c.read_pos_ \in {0, 1}, Wire(s)[ReadPos(n, c)] # CR,
         NumberAt(Wire(s), ReadPos(n, c), N)
  PROVE  LET end == c.read_pos_ + NumLen(N)
         IN  /\ end + 1 <= c.read_buffer_size_ =>
                  /\ StrChr(CString(c), CR) = end + 1
                  /\ Atoi(Substr(CString(c), c.read_pos_, NumLen(N))) = N
             /\ ~(end + 1 <= c.read_buffer_size_) => StrChr(CString(c), CR) = 0
<1> DEFINE m == c.read_buffer_size_
           r == c.read_pos_
           p == ReadPos(n, c)
           b == c.read_buffer_
           k == NumLen(N)
           dec == Decimal(N)
           w == Wire(s)
<1>1. /\ c \in ConnType /\ r \in Nat /\ r <= m /\ b \in Seq(Char) /\ m = Len(b)
      /\ \A i \in 1..m : b[i] = w[n - m + i]
  <2>1. /\ c \in ConnType /\ r \in Nat /\ r + 0 <= m /\ Buffered(s, n, c)
    BY DEF Holds
  <2>2. b \in Seq(Char) /\ m \in Int
    BY <2>1 DEF ConnType
  <2>3. m = Len(b) /\ \A i \in 1..m : b[i] = w[n - m + i]
    BY <2>1 DEF Buffered
  <2> HIDE DEF m, r, b, w
  <2>4. r <= m
    BY <2>1, <2>2
  <2> QED BY <2>1, <2>2, <2>3, <2>4
<1>2. /\ n \in Nat /\ m \in Nat /\ m <= n /\ p \in Nat /\ p = n - m + r
  BY HoldsBytes DEF ReadPos
<1>3. CString(c) = b
  BY <1>1, CStringIsBuffer
<1>4. /\ dec \in Seq(Digit) /\ dec \in Seq(Char) /\ k = Len(dec)
      /\ Atoi(dec) = N /\ k \in Nat /\ k >= 1
  BY DecimalDigits, DecimalBytes DEF NumLen
<1>5. /\ \A i \in 1..k : w[p + i] = dec[i]
      /\ w[p + k + 1] = CR /\ w[p] # CR
  BY DEF NumberAt
<1>6. r \in {0, 1}
  OBVIOUS
<1> HIDE DEF m, r, p, b, k, dec, w
<1>7. ASSUME NEW i \in 1..m
      PROVE  b[i] = w[p + (i - r)]
  <2>1. n - m + i = p + (i - r)
    BY <1>1, <1>2
  <2> QED BY <1>1, <2>1
<1>8. \A i \in 1..k : dec[i] \in Digit
  BY <1>4
<1>9. ASSUME NEW i \in 1..m, i <= r + k
      PROVE  b[i] # CR
  <2>1. CASE i <= r
    <3>1. i - r = 0 /\ p + (i - r) = p
      BY <1>2, <1>6, <2>1
    <3> QED BY <1>5, <1>7, <3>1
  <2>2. CASE ~(i <= r)
    <3>1. i - r \in 1..k
      BY <1>1, <1>4, <1>9, <2>2
    <3>2. dec[i - r] \in Digit
      BY <1>8, <3>1
    <3>3. b[i] \in Digit
      BY <1>5, <1>7, <3>1, <3>2
    <3> QED BY <3>3 DEF Digit, Zero, CR
  <2> QED BY <2>1, <2>2
<1>10. CASE r + k + 1 <= m
  <2>1. r + k + 1 \in 1..m /\ (r + k + 1) - r = k + 1 /\ p + (k + 1) = p + k + 1
    BY <1>1, <1>2, <1>4, <1>10
  <2>2. b[r + k + 1] = CR
    BY <1>5, <1>7, <2>1
  <2>3. \A i \in 1..((r + k + 1) - 1) : b[i] # CR
    <3> SUFFICES ASSUME NEW i \in 1..((r + k + 1) - 1) PROVE b[i] # CR
      OBVIOUS
    <3>1. i \in 1..m /\ i <= r + k
      BY <1>1, <1>4, <1>10, <2>1
    <3> QED BY <1>9, <3>1
  <2>4. StrChr(b, CR) = r + k + 1
    <3>1. r + k + 1 \in 1..Len(b)
      BY <1>1, <2>1
    <3> QED BY <1>1, <2>2, <2>3, <3>1, StrChrAt
  <2> DEFINE t == SubSeq(b, r + 1, r + k)
  <2>5. Substr(b, r, k) = t
    <3>1. ~(k < 0) /\ ~(r + k > Len(b))
      BY <1>1, <1>4, <1>10
    <3> QED BY <3>1, Zenon DEF Substr
  <2>6. t \in Seq(Char) /\ Len(t) = k /\ \A i \in 1..k : t[i] = b[r + i]
    <3>1. b \in Seq(Char) /\ r \in Nat /\ k \in Nat /\ r + k <= Len(b)
      BY <1>1, <1>4, <1>10
    <3> QED BY <3>1
  <2> HIDE DEF t
  <2>7. t = dec
    <3>1. ASSUME NEW i \in 1..k
          PROVE  t[i] = dec[i]
      <4>1. r + i \in 1..m /\ (r + i) - r = i
        BY <1>1, <1>2, <1>4, <1>10
      <4> QED BY <1>5, <1>7, <2>6, <4>1
    <3>2. DOMAIN t = 1..k /\ DOMAIN dec = 1..k
          /\ t = [i \in DOMAIN t |-> t[i]] /\ dec = [i \in DOMAIN dec |-> dec[i]]
      BY <1>4, <2>6
    <3>3. \A i \in DOMAIN t : t[i] = dec[i]
      BY <3>1, <3>2
    <3> QED BY <3>2, <3>3, Zenon
  <2>8. Atoi(Substr(b, r, k)) = N
    BY <1>4, <2>5, <2>7
  <2> QED BY <1>3, <1>10, <2>4, <2>8 DEF m, r, k
<1>11. CASE ~(r + k + 1 <= m)
  <2>1. \A i \in 1..m : b[i] # CR
    <3> SUFFICES ASSUME NEW i \in 1..m PROVE b[i] # CR
      OBVIOUS
    <3>1. i <= r + k
      BY <1>1, <1>2, <1>4, <1>11
    <3> QED BY <1>9, <3>1
  <2>2. StrChr(b, CR) = 0
    <3>1. /\ StrChr(b, CR) \in 0..Len(b)
          /\ StrChr(b, CR) # 0 => b[StrChr(b, CR)] = CR
      BY <1>1, StrChrFirst
    <3>2. StrChr(b, CR) # 0 => StrChr(b, CR) \in 1..m
      BY <1>1, <1>2, <3>1
    <3> QED BY <2>1, <3>1, <3>2
  <2> QED BY <1>3, <1>11, <2>2 DEF m, r, k
<1> QED BY <1>10, <1>11

\* One iteration of the loop: it takes the number at read_pos_ and what stands
\* behind it, or waits for the rest of the number.
LEMMA ParsingMoves ==
  ASSUME NEW s, NEW n, NEW c, Holds(s, n, c, 0), InLoop(s, n, c),
         n \notin CrLfCuts(s, {"array", "length"}),
         c.read_buffer_size_ # Dollar + 1
  PROVE  Moves(s, n, c, Parsing(c))
<1> DEFINE m == c.read_buffer_size_
           r == c.read_pos_
           p == ReadPos(n, c)
           q == Len(c.executed)
           a == Len(c.argv_)
           w == Wire(s)
           N == IF AtCount(s, c, p) THEN ArgCount(s, q) ELSE ArgLen(s, q, a)
           k == NumLen(N)
           pos == StrChr(CString(c), CR) - 1
           e == [c EXCEPT !.read_pos_ = pos]
<1>1. /\ s \in Script /\ c \in ConnType /\ c.status = "ok"
      /\ ~c.is_end_parsing_ /\ r \in Nat /\ r <= m /\ Done(s, c)
      /\ r \in {0, 1} /\ c.analysis_pos_ = r /\ Ahead(s, c, p)
      /\ Buffered(s, n, c) /\ n \in 0..Len(w)
  BY DEF Holds, InLoop
<1>2. /\ n \in Nat /\ m \in Nat /\ m <= n /\ p \in Nat /\ p = n - m + r
  BY HoldsBytes DEF ReadPos
<1>3. AtCount(s, c, p) => /\ q \in 0..(Len(s) - 1) /\ p = CountAt(s, q)
                          /\ N = ArgCount(s, q) /\ N >= 1
                          /\ EndOfArgument(s, q, 0) = p + k + 2
  <2> SUFFICES ASSUME AtCount(s, c, p)
               PROVE  /\ q \in 0..(Len(s) - 1) /\ p = CountAt(s, q)
                      /\ N = ArgCount(s, q) /\ N >= 1
                      /\ EndOfArgument(s, q, 0) = p + k + 2
    OBVIOUS
  <2>1. q \in 0..(Len(s) - 1)
    BY <1>1 DEF AtCount, Done, Script
  <2>2. p = CountAt(s, q) /\ N = ArgCount(s, q)
    BY DEF AtCount
  <2> QED BY <1>1, <2>1, <2>2, CountBytes
<1>4. ~AtCount(s, c, p) =>
        /\ AtLength(s, c, p)
        /\ q \in 0..(Len(s) - 1) /\ a \in 0..(ArgCount(s, q) - 1)
        /\ p = LengthAt(s, q, a) /\ N = ArgLen(s, q, a) /\ N >= 1
  <2> SUFFICES ASSUME ~AtCount(s, c, p)
               PROVE  /\ AtLength(s, c, p)
                      /\ q \in 0..(Len(s) - 1) /\ a \in 0..(ArgCount(s, q) - 1)
                      /\ p = LengthAt(s, q, a) /\ N = ArgLen(s, q, a) /\ N >= 1
    OBVIOUS
  <2>1. AtLength(s, c, p)
    BY <1>1 DEF Ahead
  <2>2. q \in 0..(Len(s) - 1) /\ a \in 0..(ArgCount(s, q) - 1)
    BY <1>1, <2>1, MissingPlace DEF AtLength
  <2>3. p = LengthAt(s, q, a) /\ N = ArgLen(s, q, a)
    BY <2>1 DEF AtLength
  <2> QED BY <1>1, <2>1, <2>2, <2>3, ArgumentBytes
<1>5. /\ N \in Nat /\ NumberAt(w, p, N) /\ w[p] # CR
      /\ n # p + k + 1
  <2>1. CASE AtCount(s, c, p)
    <3>1. /\ ArgCount(s, q) \in Nat /\ w[CountAt(s, q)] = Star
          /\ \A i \in 1..NumLen(ArgCount(s, q)) :
                w[CountAt(s, q) + i] = Decimal(ArgCount(s, q))[i]
          /\ w[CountAt(s, q) + NumLen(ArgCount(s, q)) + 1] = CR
      BY <1>1, <1>3, <2>1, CountBytes
    <3>2. CountAt(s, q) + NumLen(ArgCount(s, q)) + 1
            \in CrLfCuts(s, {"array", "length"})
      BY <1>1, <1>3, <2>1, Cuts
    <3>3. p = CountAt(s, q) /\ N = ArgCount(s, q)
      BY <1>3, <2>1
    <3> HIDE DEF p, N, w
    <3> QED BY <3>1, <3>2, <3>3 DEF NumberAt, Star, CR
  <2>2. CASE ~AtCount(s, c, p)
    <3>1. /\ ArgLen(s, q, a) \in Nat /\ w[LengthAt(s, q, a)] = Dollar
          /\ \A i \in 1..NumLen(ArgLen(s, q, a)) :
                w[LengthAt(s, q, a) + i] = Decimal(ArgLen(s, q, a))[i]
          /\ w[LengthAt(s, q, a) + NumLen(ArgLen(s, q, a)) + 1] = CR
      BY <1>1, <1>4, <2>2, ArgumentBytes
    <3>2. LengthAt(s, q, a) + NumLen(ArgLen(s, q, a)) + 1
            \in CrLfCuts(s, {"array", "length"})
      BY <1>1, <1>4, <2>2, Cuts
    <3>3. p = LengthAt(s, q, a) /\ N = ArgLen(s, q, a)
      BY <1>4, <2>2
    <3> HIDE DEF p, N, w
    <3> QED BY <3>1, <3>2, <3>3 DEF NumberAt, Dollar, CR
  <2> QED BY <2>1, <2>2
<1> HIDE DEF N
<1>6. k \in Nat /\ k >= 1
  BY <1>5, DecimalBytes
<1>7. /\ r + k + 1 <= m => /\ StrChr(CString(c), CR) = r + k + 1
                          /\ Atoi(Substr(CString(c), r, k)) = N
      /\ ~(r + k + 1 <= m) => StrChr(CString(c), CR) = 0
  BY <1>1, <1>5, FindsNumber
<1> HIDE DEF m, r, p, q, a, w, k, pos, e
<1>8. CASE ~(r + k + 1 <= m)
  <2> DEFINE d == [EndParsing(c) EXCEPT !.read_pos_ = r]
  <2>1. Parsing(c) = d
    <3>1. pos < 0
      BY <1>7, <1>8 DEF pos
    <3> QED BY <1>1, <3>1, Zenon DEF Parsing, pos
  <2>2. r \in Int /\ r \in 0..m
    BY <1>1, <1>2
  <2>3. /\ Moved(c, d) /\ SameHistory(c, d) /\ d.is_end_parsing_
        /\ d.is_end_read_ = c.is_end_read_ /\ d.read_pos_ = r
    BY <1>1, <2>2, StopMoves
  <2> HIDE DEF d
  <2>4. n \in p..(p + k)
    BY <1>1, <1>2, <1>6, <1>8
  <2>5. Starved(s, n, c, p)
    <3>1. CASE AtCount(s, c, p)
      BY <1>3, <2>4, <3>1 DEF Starved, k, q
    <3>2. CASE ~AtCount(s, c, p)
      BY <1>4, <2>4, <3>2 DEF Starved, k, q, a
    <3> QED BY <3>1, <3>2
  <2>6. Landed(s, n, d)
    BY <1>2, <2>2, <2>3, <2>5, MovedLands DEF m
  <2> QED BY <2>1, <2>3, <2>6 DEF Moves, Kept, SameSize, Moved, SameBuffer
<1>9. CASE r + k + 1 <= m
  <2>1. /\ pos = r + k /\ pos \in Int /\ ~(pos < 0) /\ ~(pos >= m)
        /\ pos - r = k
        /\ r + k + 2 <= m /\ pos \in Nat /\ pos + 2 <= m
        /\ n - m + pos = p + k
    <3>1. pos = r + k
      <4>1. StrChr(CString(c), CR) = r + k + 1
        BY <1>7, <1>9
      <4> QED BY <1>1, <1>6, <4>1 DEF pos
    <3>2. m # r + k + 1
      BY <1>1, <1>2, <1>5, <1>6
    <3> QED BY <1>1, <1>2, <1>6, <1>9, <3>1, <3>2
  <2>2. Parsing(c) = Splice(e)
    BY <2>1, Zenon DEF Parsing, pos, m, e
  <2>3. /\ Moved(c, e) /\ SameHistory(c, e)
        /\ e.is_end_parsing_ = c.is_end_parsing_
        /\ e.is_end_read_ = c.is_end_read_ /\ e.read_pos_ = pos
    BY <1>1, <2>1, MoveTo DEF e
  <2>4. e.analysis_pos_ = r /\ e.state_ = c.state_ /\ CString(e) = CString(c)
    <3>1. e.analysis_pos_ = r /\ e.state_ = c.state_
      BY <1>1 DEF e, ConnType
    <3>2. e \in ConnType /\ e.read_buffer_ = c.read_buffer_
      BY <2>3 DEF Moved, SameBuffer
    <3> QED BY <1>1, <3>1, <3>2, CStringIsBuffer
  <2>5. Atoi(Substr(CString(e), e.analysis_pos_, e.read_pos_ - e.analysis_pos_))
          = N
    BY <1>7, <1>9, <2>1, <2>3, <2>4
  <2>6. CASE AtCount(s, c, p)
    <3> DEFINE f == [e EXCEPT !.bluk_length_ = N]
    <3>1. /\ c.state_ = "kBluk" /\ c.argv_ = <<>> /\ c.data_ = <<>>
          /\ q < Len(s)
      BY <2>6 DEF AtCount, q
    <3>2. Splice(e) = Assert_(f)
      BY <2>4, <2>5, <3>1, Zenon DEF Splice
    <3>3. f \in ConnType
      <4>1. e \in ConnType /\ N \in Int
        BY <1>5, <2>3 DEF Moved
      <4> QED BY <4>1, FieldTypes
    <3>4. /\ SameBuffer(e, f) /\ Kept(e, f) /\ f.status = e.status
          /\ f.is_end_parsing_ = e.is_end_parsing_
          /\ f.read_pos_ = e.read_pos_ /\ f.state_ = e.state_
          /\ f.argv_ = e.argv_ /\ f.data_ = e.data_ /\ f.bluk_length_ = N
      <4>1. e \in ConnType
        BY <2>3 DEF Moved
      <4> QED BY <4>1 DEF ConnType, SameBuffer, Kept, SameHistory
    <3> HIDE DEF f
    <3>5. /\ SameBuffer(c, f) /\ Kept(c, f) /\ f.status = "ok"
          /\ ~f.is_end_parsing_ /\ f.read_pos_ = pos
          /\ f.state_ = "kBluk" /\ f.argv_ = <<>> /\ f.data_ = <<>>
          /\ f.executed = c.executed
      BY <1>1, <2>3, <2>4, <3>1, <3>4
         DEF Moved, SameBuffer, SameParser, Kept, SameHistory
    <3>6. Holds(s, n, f, 2)
      <4>1. Buffered(s, n, f) /\ Done(s, f) /\ f.read_buffer_size_ = m
        BY <1>1, <3>5 DEF Buffered, Done, SameBuffer, m
      <4> QED BY <1>1, <2>1, <3>3, <3>5, <4>1 DEF Holds, w
    <3>7. ReadPos(n, f) = p + k
      BY <2>1, <3>5 DEF ReadPos, SameBuffer, m
    <3>8. /\ Len(f.executed) = q /\ N = ArgCount(s, q)
          /\ p + k = CountAt(s, q) + NumLen(ArgCount(s, q))
      BY <1>3, <2>6, <3>5 DEF q, k
    <3>9. f.read_buffer_size_ # Dollar + 1
      BY <3>5 DEF SameBuffer
    <3>10. /\ Landed(s, n, Assert_(f)) /\ Kept(f, Assert_(f))
           /\ SameSize(f, Assert_(f))
      BY <3>1, <3>4, <3>5, <3>6, <3>7, <3>8, <3>9, CountLands
    <3> QED BY <2>2, <3>2, <3>5, <3>10, KeptTwice DEF Moves, SameSize, SameBuffer
  <2>7. CASE ~AtCount(s, c, p)
    <3> DEFINE f == [e EXCEPT !.left_ = N]
               g == Assert_(f)
    <3>1. AtLength(s, c, p) /\ c.state_ = "kMultiBluk" /\ c.data_ = <<>>
          /\ Missing(s, c)
      BY <1>4, <2>7 DEF AtLength
    <3>2. Splice(e) = IF g.is_end_parsing_ THEN g ELSE Add(g)
      <4>1. e.state_ = "kMultiBluk" /\ "kMultiBluk" # "kBluk"
        BY <2>4, <3>1
      <4> QED BY <2>5, <4>1, Zenon DEF Splice
    <3>3. f \in ConnType
      <4>1. e \in ConnType /\ N \in Int
        BY <1>5, <2>3 DEF Moved
      <4> QED BY <4>1, FieldTypes
    <3>4. /\ SameBuffer(e, f) /\ Kept(e, f) /\ f.status = e.status
          /\ f.is_end_parsing_ = e.is_end_parsing_
          /\ f.read_pos_ = e.read_pos_ /\ f.state_ = e.state_
          /\ f.argv_ = e.argv_ /\ f.data_ = e.data_ /\ f.left_ = N
          /\ f.bluk_length_ = e.bluk_length_
      <4>1. e \in ConnType
        BY <2>3 DEF Moved
      <4> QED BY <4>1 DEF ConnType, SameBuffer, Kept, SameHistory
    <3> HIDE DEF f, g
    <3>5. /\ SameBuffer(c, f) /\ Kept(c, f) /\ f.status = "ok"
          /\ ~f.is_end_parsing_ /\ f.read_pos_ = pos
          /\ f.state_ = "kMultiBluk" /\ f.argv_ = c.argv_ /\ f.data_ = <<>>
          /\ f.executed = c.executed /\ f.bluk_length_ = c.bluk_length_
      BY <1>1, <2>3, <2>4, <3>1, <3>4
         DEF Moved, SameBuffer, SameParser, Kept, SameHistory
    <3>6. Holds(s, n, f, 2)
      <4>1. Buffered(s, n, f) /\ Done(s, f) /\ f.read_buffer_size_ = m
        BY <1>1, <3>5 DEF Buffered, Done, SameBuffer, m
      <4> QED BY <1>1, <2>1, <3>3, <3>5, <4>1 DEF Holds, w
    <3>7. ReadPos(n, f) = p + k
      BY <2>1, <3>5 DEF ReadPos, SameBuffer, m
    <3>8. /\ Len(f.executed) = q /\ Len(f.argv_) = a /\ N = ArgLen(s, q, a)
          /\ p + k = LengthAt(s, q, a) + NumLen(ArgLen(s, q, a))
      BY <1>4, <2>7, <3>5 DEF q, a, k
    <3>9. f.read_buffer_size_ # Dollar + 1
      BY <3>5 DEF SameBuffer
    <3>10. Missing(s, f)
      BY <3>1, <3>5 DEF Missing, Args
    <3>11. /\ Kept(f, g) /\ SameSize(f, g)
           /\ g.is_end_parsing_ => Landed(s, n, g)
           /\ ~g.is_end_parsing_ => Taking(s, n, g)
      BY <3>4, <3>5, <3>6, <3>7, <3>8, <3>10, LengthLands DEF g
    <3>12. Kept(c, g) /\ SameSize(c, g)
      BY <3>5, <3>11, KeptTwice DEF SameSize, SameBuffer
    <3>13. CASE g.is_end_parsing_
      BY <2>2, <3>2, <3>11, <3>12, <3>13 DEF Moves
    <3>14. CASE ~g.is_end_parsing_
      <4>1. Moves(s, n, g, Add(g))
        BY <3>9, <3>11, <3>14, AddMoves DEF SameSize
      <4> QED BY <2>2, <3>2, <3>12, <3>14, <4>1, KeptTwice DEF Moves, SameSize
    <3> QED BY <3>13, <3>14
  <2> QED BY <2>6, <2>7
<1> QED BY <1>8, <1>9

\* What a step leaves: the parser in its loop or waiting, no request run or one.
Settled(s, n, c, e) ==
  /\ e \in ConnType /\ e.status = "ok"
  /\ Kept(c, e) \/ Served(s, n, c, e)
  /\ IF e.is_end_parsing_ THEN Waiting(s, n, e) ELSE InLoop(s, n, e)
  /\ e.read_buffer_size_ <= c.read_buffer_size_

\* After Memmove the parser is in its loop or waits.
LEMMA MemmoveSettles ==
  ASSUME NEW s, NEW n \in Nat, NEW c, NEW g, Moves(s, n, c, g)
  PROVE  Settled(s, n, c, Memmove(g))
<1> DEFINE e == Memmove(g)
<1>1. Landed(s, n, g) /\ SameSize(c, g)
  BY DEF Moves
<1>2. /\ Landed(s, n, e) /\ e.read_pos_ = 0 /\ e.analysis_pos_ = 0
      /\ e.offset_ = e.read_buffer_size_
      /\ e.read_buffer_size_ = g.read_buffer_size_ - g.read_pos_
      /\ e.is_end_parsing_ = g.is_end_parsing_
      /\ e.is_end_read_ = g.is_end_read_
      /\ SameHistory(g, e)
  BY <1>1, MemmoveLanded
<1> HIDE DEF e
<1>3. Kept(c, e) \/ Served(s, n, c, e)
  <2>1. CASE Kept(c, g)
    BY <1>2, <2>1 DEF Kept, SameHistory
  <2>2. CASE Served(s, n, c, g)
    BY <1>2, <2>2, Zenon DEF Served, SameHistory
  <2> QED BY <2>1, <2>2 DEF Moves
<1>4. e.read_buffer_size_ \in Nat /\ e.read_buffer_size_ <= c.read_buffer_size_
  <2>1. g.read_buffer_size_ \in Nat /\ g.read_pos_ \in 0..g.read_buffer_size_
    BY <1>1 DEF Landed, Buffered, ConnType
  <2> QED BY <1>1, <1>2, <2>1 DEF SameSize
<1>5. e.is_end_parsing_ => Waiting(s, n, e)
  BY <1>2 DEF Landed, Waiting
<1>6. ~e.is_end_parsing_ => InLoop(s, n, e)
  BY <1>2, <1>4 DEF Landed, InLoop
<1>7. e \in ConnType /\ e.status = "ok"
  BY <1>2 DEF Landed
<1> QED BY <1>3, <1>4, <1>5, <1>6, <1>7 DEF Settled, e

\* An iteration of the loop in Conn::Finterpreter goes on with the script from
\* any place where it goes on.
LEMMA LoopSettles ==
  ASSUME NEW s, NEW n, NEW c, Holds(s, n, c, 0), InLoop(s, n, c),
         n \notin CrLfCuts(s, {"array", "length"}),
         c.read_buffer_size_ # Dollar + 1
  PROVE  Settled(s, n, c, Memmove(Parsing(c)))
BY ParsingMoves, MemmoveSettles, HoldsBytes

\* The bytes of a read are in the buffer.
Arrive(c, chunk, actual) ==
  [c EXCEPT !.is_end_parsing_ = FALSE,
            !.read_buffer_ = c.read_buffer_ \o chunk,
            !.read_buffer_size_ = actual + c.offset_]

\* A Conn that waits for a read.
Rests(s, n, c) ==
  /\ s \in Script /\ n \in 0..Len(Wire(s))
  /\ c \in ConnType /\ c.status = "ok" /\ Done(s, c)
  /\ Waiting(s, n, c)

\* The bytes of a read follow those that were kept.
LEMMA ArriveHolds ==
  ASSUME NEW s, NEW n, NEW c, Rests(s, n, c),
         NEW k \in Nat, k >= 1, n + k <= Len(Wire(s))
  PROVE  LET d == Arrive(c, SubSeq(Wire(s), n + 1, n + k), k)
         IN  /\ Holds(s, n + k, d, 1) /\ Kept(c, d) /\ SameParser(c, d)
             /\ d.read_pos_ = 0 /\ d.analysis_pos_ = 0
             /\ d.read_buffer_size_ = k + c.offset_
             /\ ReadPos(n + k, d) = ReadPos(n, c)
             /\ At(d, 0) = Wire(s)[ReadPos(n, c) + 1]
<1> DEFINE w == Wire(s)
           chunk == SubSeq(w, n + 1, n + k)
           b == c.read_buffer_
           m == c.read_buffer_size_
           d == Arrive(c, chunk, k)
           u == b \o chunk
<1>1. /\ s \in Script /\ n \in 0..Len(w) /\ c \in ConnType /\ c.status = "ok"
      /\ Done(s, c) /\ Buffered(s, n, c) /\ c.offset_ = m
      /\ c.read_pos_ = 0 /\ c.analysis_pos_ = 0
  BY DEF Rests, Waiting
<1>2. /\ w \in Seq(Char) /\ Len(w) \in Nat
      /\ EndOfRequest(s, Len(s)) = Len(w)
  BY <1>1, WireSteps
<1>3. /\ b \in Seq(Char) /\ m = Len(b) /\ m <= n /\ m \in Nat /\ n \in Nat
      /\ \A i \in 1..m : b[i] = w[n - m + i]
  BY <1>1, <1>2 DEF ConnType, Buffered
<1> HIDE DEF w, b, m, d
<1>4. /\ chunk \in Seq(Char) /\ Len(chunk) = k
      /\ \A i \in 1..k : chunk[i] = w[n + i]
  <2>1. n \in Nat /\ k \in Nat /\ n + k <= Len(w) /\ w \in Seq(Char)
    BY <1>2, <1>3 DEF w
  <2> QED BY <2>1
<1> HIDE DEF chunk
<1>5. /\ u \in Seq(Char) /\ Len(u) = m + k
      /\ \A i \in 1..m : u[i] = b[i]
      /\ \A i \in 1..k : u[m + i] = chunk[i]
  BY <1>3, <1>4, ConcatParts
<1> HIDE DEF u
<1>6. d \in ConnType
  <2> DEFINE e1 == [c EXCEPT !.is_end_parsing_ = FALSE]
             e2 == [e1 EXCEPT !.read_buffer_ = u]
             e3 == [e2 EXCEPT !.read_buffer_size_ = k + c.offset_]
  <2>0. FALSE \in BOOLEAN /\ k + c.offset_ \in Int
    BY <1>1, <1>3
  <2>1. e1 \in ConnType
    BY <1>1, <2>0, FieldTypes
  <2> HIDE DEF e1
  <2>2. e2 \in ConnType
    BY <1>5, <2>1, FieldTypes
  <2> HIDE DEF e2
  <2>3. e3 \in ConnType
    BY <2>0, <2>2, FieldTypes
  <2> QED BY <2>3 DEF d, u, b, Arrive, e1, e2
<1>7. /\ d.read_buffer_ = u /\ d.read_buffer_size_ = k + c.offset_
      /\ SameParser(c, d) /\ Kept(c, d) /\ d.status = "ok"
      /\ ~d.is_end_parsing_ /\ d.read_pos_ = 0 /\ d.analysis_pos_ = 0
  BY <1>1 DEF d, u, b, Arrive, ConnType, SameParser, Kept, SameHistory
<1>8. k + c.offset_ = m + k /\ m + k \in Nat /\ m + k <= n + k /\ n + k \in Nat
  BY <1>1, <1>3
<1>9. ASSUME NEW i \in 1..(m + k)
      PROVE  u[i] = w[(n + k) - (m + k) + i]
  <2>1. (n + k) - (m + k) + i = n - m + i
    BY <1>3
  <2>2. CASE i <= m
    <3>1. i \in 1..m
      BY <1>3, <2>2
    <3> QED BY <1>3, <1>5, <2>1, <3>1
  <2>3. CASE ~(i <= m)
    <3>1. i - m \in 1..k /\ m + (i - m) = i /\ n + (i - m) = n - m + i
      BY <1>3, <2>3
    <3>2. u[m + (i - m)] = w[n + (i - m)]
      BY <1>4, <1>5, <3>1
    <3> QED BY <2>1, <3>1, <3>2
  <2> QED BY <2>2, <2>3
<1>10. Buffered(s, n + k, d)
  BY <1>5, <1>7, <1>8, <1>9 DEF Buffered, w
<1>11. Holds(s, n + k, d, 1)
  <2>1. n + k \in 0..Len(Wire(s))
    BY <1>2, <1>8 DEF w
  <2>2. d.read_pos_ \in Nat /\ d.read_pos_ + 1 <= d.read_buffer_size_
    BY <1>3, <1>7, <1>8
  <2>3. Done(s, d)
    BY <1>1, <1>7 DEF Done, Kept, SameHistory
  <2> QED BY <1>1, <1>6, <1>7, <1>10, <2>1, <2>2, <2>3 DEF Holds
<1>12. ReadPos(n + k, d) = ReadPos(n, c) /\ ReadPos(n, c) \in Nat
  <2>1. m \in Nat /\ n \in Nat /\ m <= n
    BY <1>3
  <2>2. ReadPos(n + k, d) = (n + k) - (m + k) + 0
    BY <1>7, <1>8 DEF ReadPos
  <2>3. ReadPos(n, c) = n - m + 0
    BY <1>1 DEF ReadPos, m
  <2> QED BY <2>1, <2>2, <2>3
<1>13. At(d, 0) = w[ReadPos(n, c) + 1]
  <2>1. d.read_pos_ + 0 = 0 /\ 0 \in Nat
        /\ d.read_pos_ + 0 < d.read_buffer_size_
        /\ ReadPos(n + k, d) + 0 + 1 = ReadPos(n, c) + 1
    BY <1>3, <1>7, <1>8, <1>12
  <2>2. At(d, d.read_pos_ + 0) = Wire(s)[ReadPos(n + k, d) + 0 + 1]
    BY <1>11, <2>1, HoldsBytes
  <2> QED BY <2>1, <2>2 DEF w
<1> QED BY <1>7, <1>11, <1>12, <1>13 DEF d, w, chunk

\* The bytes that end or begin a number are no digits.
LEMMA NoDigit == {Star, Dollar, CR, LF} \cap Digit = {}
BY DEF Star, Dollar, CR, LF, Digit, Zero

\* Conn::Finterpreter with any bytes of the wire goes on with the script from
\* any place where it waits: one proof for each place, which is one for each
\* way the resumption code begins.
LEMMA ReadSettles ==
  ASSUME NEW s, NEW n, NEW c, Rests(s, n, c),
         NEW k \in Nat, k >= 1, n + k <= Len(Wire(s)),
         k + c.offset_ # Dollar + 1
  PROVE  LET chunk == SubSeq(Wire(s), n + 1, n + k)
         IN  Settled(s, n + k, Arrive(c, chunk, k), Finterpreter(c, chunk, k))
<1> DEFINE w == Wire(s)
           chunk == SubSeq(w, n + 1, n + k)
           d == Arrive(c, chunk, k)
           e == Finterpreter(c, chunk, k)
           p == ReadPos(n, c)
           q == Len(c.executed)
           a == Len(c.argv_)
           first == At(d, d.read_pos_)
           N == n + k
<1>1. /\ Holds(s, N, d, 1) /\ Kept(c, d) /\ SameParser(c, d)
      /\ d.read_pos_ = 0 /\ d.analysis_pos_ = 0
      /\ d.read_buffer_size_ = k + c.offset_
      /\ ReadPos(N, d) = p /\ first = w[p + 1]
  BY ArriveHolds
<1>2. /\ s \in Script /\ Done(s, c) /\ n \in 0..Len(w) /\ c \in ConnType
      /\ Starved(s, n, c, p)
  BY DEF Rests, Waiting
<1>3. /\ Len(d.executed) = q /\ Len(d.argv_) = a /\ d.executed = c.executed
      /\ d.state_ = c.state_ /\ d.bluk_length_ = c.bluk_length_
      /\ d.argv_ = c.argv_ /\ d.data_ = c.data_ /\ d.left_ = c.left_
  BY <1>1 DEF Kept, SameHistory, SameParser
<1>4. /\ N \in Nat /\ p \in Nat /\ d.read_buffer_size_ \in Nat
      /\ p + 1 <= N /\ N = p + d.read_buffer_size_ /\ N <= Len(w)
      /\ d.read_buffer_size_ >= 1
  <2>1. /\ N \in Nat /\ d.read_buffer_size_ \in Nat /\ p \in Nat
        /\ p + 1 <= N
    BY <1>1, HoldsBytes
  <2>2. p = N - d.read_buffer_size_ + 0
    BY <1>1 DEF ReadPos
  <2> HIDE DEF N, p, d
  <2> QED BY <2>1, <2>2 DEF N
<1>5. /\ d \in ConnType /\ d.status = "ok" /\ ~d.is_end_parsing_
      /\ Buffered(s, N, d) /\ Holds(s, N, d, 0)
  <2>1. d.read_pos_ + 0 <= d.read_buffer_size_
    BY <1>1, <1>4
  <2> QED BY <1>1, <2>1 DEF Holds
<1>6. e = IF first = Star /\ d.bluk_length_ = -1
            THEN [d EXCEPT !.state_ = "kBluk", !.analysis_pos_ = 1,
                           !.read_pos_ = 1]
          ELSE IF d.state_ = "kParseString" THEN Memmove(Add(d))
          ELSE IF d.state_ = "kMultiBluk" /\ first = Dollar
            THEN Memmove([d EXCEPT !.read_pos_ = d.read_pos_ + 1])
          ELSE IF first \in {CR, LF}
            THEN LET f == Assert_(d)
                 IN  Memmove(IF f.state_ # "kBluk" THEN Add(f) ELSE f)
          ELSE d
  BY Zenon DEF Finterpreter, Arrive
<1>7. Kept(d, d) /\ d.read_buffer_size_ <= d.read_buffer_size_
  BY <1>4 DEF Kept, SameHistory
<1>8. d.read_buffer_size_ # Dollar + 1
  BY <1>1
<1> HIDE DEF w, chunk, d, e, p, first, N
<1>9. CASE AtRequest(s, c, p) /\ n = p
  <2>1. /\ c.bluk_length_ = -1 /\ c.argv_ = <<>> /\ c.data_ = <<>>
        /\ p = EndOfRequest(s, q)
    BY <1>9 DEF AtRequest
  <2>2. q \in 0..(Len(s) - 1)
    <3>1. q \in 0..Len(s) /\ Len(s) \in Nat
      BY <1>2 DEF Done, Script
    <3>2. EndOfRequest(s, Len(s)) = Len(w) /\ Len(w) \in Nat
      BY <1>2, WireSteps DEF w
    <3>3. q # Len(s)
      BY <1>4, <2>1, <3>2
    <3> QED BY <3>1, <3>3
  <2>3. CountAt(s, q) = p + 1 /\ w[CountAt(s, q)] = Star
    BY <1>2, <2>1, <2>2, CountBytes DEF CountAt, w
  <2>4. first = Star
    BY <1>1, <2>3
  <2> DEFINE e1 == [d EXCEPT !.state_ = "kBluk"]
             e2 == [e1 EXCEPT !.analysis_pos_ = 1]
             e3 == [e2 EXCEPT !.read_pos_ = 1]
  <2>5. e = e3
    BY <1>3, <1>6, <2>1, <2>4
  <2>6. e \in ConnType
    <3>0. 1 \in Int /\ "kBluk" \in {"kBluk", "kMultiBluk", "kParseString"}
      OBVIOUS
    <3>1. e1 \in ConnType
      BY <1>5, <3>0, FieldTypes
    <3> HIDE DEF e1
    <3>2. e2 \in ConnType
      BY <3>0, <3>1, FieldTypes
    <3> HIDE DEF e2
    <3>3. e3 \in ConnType
      BY <3>0, <3>2, FieldTypes
    <3> QED BY <2>5, <3>3
  <2>7. /\ e.state_ = "kBluk" /\ e.analysis_pos_ = 1 /\ e.read_pos_ = 1
        /\ e.status = "ok" /\ ~e.is_end_parsing_
        /\ e.argv_ = d.argv_ /\ e.data_ = d.data_
        /\ e.bluk_length_ = d.bluk_length_
        /\ SameBuffer(d, e) /\ Kept(d, e)
    BY <1>5, <2>5 DEF ConnType, SameBuffer, Kept, SameHistory
  <2>8. ReadPos(N, e) = p + 1
    <3>1. ReadPos(N, e) = N - d.read_buffer_size_ + 1
      BY <2>7 DEF ReadPos, SameBuffer
    <3> QED BY <1>4, <3>1
  <2>9. AtCount(s, e, p + 1)
    <3>1. Len(e.executed) = q /\ q < Len(s)
      BY <1>3, <2>2, <2>7 DEF Kept, SameHistory, Script
    <3> QED BY <1>3, <2>1, <2>3, <2>7, <3>1 DEF AtCount
  <2>10. Buffered(s, N, e) /\ e.read_buffer_size_ = d.read_buffer_size_
    BY <1>5, <2>7 DEF Buffered, SameBuffer
  <2>11. InLoop(s, N, e)
    BY <1>4, <2>7, <2>8, <2>9, <2>10 DEF InLoop, Ahead
  <2> QED BY <1>7, <2>6, <2>7, <2>10, <2>11 DEF Settled, d, e, w, chunk, N
<1>10. CASE AtArgument(s, c, p) /\ n = p
  <2>1. /\ c.state_ = "kMultiBluk" /\ c.data_ = <<>> /\ Missing(s, c)
        /\ p = EndOfArgument(s, q, a)
    BY <1>10 DEF AtArgument
  <2>2. q \in 0..(Len(s) - 1) /\ a \in 0..(ArgCount(s, q) - 1)
    BY <1>2, <2>1, MissingPlace
  <2>3. LengthAt(s, q, a) = p + 1 /\ w[LengthAt(s, q, a)] = Dollar
    BY <1>2, <2>1, <2>2, ArgumentBytes DEF LengthAt, w
  <2>4. first = Dollar /\ first # Star
    BY <1>1, <2>3 DEF Dollar, Star
  <2> DEFINE f == [d EXCEPT !.read_pos_ = 1]
  <2>5. e = Memmove(f)
    <3>1. d.read_pos_ + 1 = 1
      BY <1>1
    <3>2. e = Memmove([d EXCEPT !.read_pos_ = d.read_pos_ + 1])
      BY <1>3, <1>6, <2>1, <2>4
    <3> QED BY <3>1, <3>2
  <2>6. 1 \in Int
    OBVIOUS
  <2>7. /\ Moved(d, f) /\ SameHistory(d, f)
        /\ f.is_end_parsing_ = d.is_end_parsing_
        /\ f.is_end_read_ = d.is_end_read_ /\ f.read_pos_ = 1
    BY <1>5, <2>6, MoveTo, Zenon
  <2> HIDE DEF f
  <2>8. AtLength(s, d, p + 1)
    <3>1. Missing(s, d)
      BY <1>3, <2>1 DEF Missing, Args
    <3> QED BY <1>3, <2>1, <2>3, <3>1 DEF AtLength
  <2>9. Landed(s, N, f)
    <3>1. /\ f.read_pos_ \in 0..d.read_buffer_size_
          /\ p + 1 = N - d.read_buffer_size_ + f.read_pos_
      BY <1>4, <2>7
    <3> QED BY <1>5, <2>7, <2>8, <3>1, MovedLands DEF Ahead
  <2>10. Moves(s, N, d, f)
    BY <2>7, <2>9 DEF Moves, Kept, SameSize, Moved, SameBuffer
  <2> QED BY <1>4, <2>5, <2>10, MemmoveSettles DEF d, e, w, chunk, N
<1>11. CASE InPayload(s, c, p) /\ n = p
  <2>1. c.state_ = "kParseString" /\ Missing(s, c)
    BY <1>11 DEF InPayload
  <2>2. d.bluk_length_ # -1
    <3>1. ArgCount(s, q) \in Nat /\ a \in 0..(ArgCount(s, q) - 1)
      BY <1>2, <2>1, MissingPlace, CountBytes
    <3>2. c.bluk_length_ = ArgCount(s, q) - a
      BY <2>1 DEF Missing
    <3> QED BY <1>3, <3>1, <3>2
  <2>3. e = Memmove(Add(d))
    BY <1>3, <1>6, <2>1, <2>2
  <2>4. InPayload(s, d, ReadPos(N, d))
    BY <1>1, <1>3, <1>11 DEF InPayload, Missing, Args
  <2>5. Taking(s, N, d)
    BY <1>1, <2>4 DEF Taking
  <2>6. Moves(s, N, d, Add(d))
    BY <1>8, <2>5, AddMoves
  <2> QED BY <1>4, <2>3, <2>6, MemmoveSettles DEF d, e, w, chunk, N
<1>12. CASE AfterPayload(s, c, p) /\ n \in p..(p + 1)
  <2>1. c.state_ = "kParseString"
    BY <1>12 DEF AfterPayload
  <2>2. d.bluk_length_ # -1
    <3>1. c.bluk_length_ = ArgCount(s, q) - a + 1 /\ a <= ArgCount(s, q)
          /\ q < Len(s)
      BY <1>12 DEF AfterPayload, Args
    <3>2. ArgCount(s, q) \in Nat
      <4>1. q \in 0..(Len(s) - 1)
        BY <1>2, <3>1 DEF Done, Script
      <4> QED BY <1>2, <4>1, CountBytes
    <3>3. a \in Nat
      BY <1>2 DEF ConnType
    <3> QED BY <1>3, <3>1, <3>2, <3>3
  <2>3. e = Memmove(Add(d))
    BY <1>3, <1>6, <2>1, <2>2
  <2>4. AfterPayload(s, d, ReadPos(N, d))
    BY <1>1, <1>3, <1>12 DEF AfterPayload, Args
  <2>5. Moves(s, N, d, Add(d))
    BY <1>1, <1>5, <1>8, <2>4, AddAfterPayload
  <2> QED BY <1>4, <2>3, <2>5, MemmoveSettles DEF d, e, w, chunk, N
<1>13. ASSUME Ahead(s, c, p), first \in Digit,
              c.state_ \in {"kBluk", "kMultiBluk"}
       PROVE  Settled(s, N, d, e)
  <2>1. first \notin {Star, Dollar, CR, LF}
    BY <1>13, NoDigit
  <2>2. e = d
    BY <1>3, <1>6, <1>13, <2>1
  <2>3. Ahead(s, d, p)
    BY <1>1, <1>3, <1>13, SamePlace
  <2>4. InLoop(s, N, d)
    BY <1>1, <1>4, <1>5, <2>3 DEF InLoop
  <2> QED BY <1>5, <1>7, <2>2, <2>4 DEF Settled
<1>14. ASSUME NEW K \in Nat
       PROVE  Decimal(K)[1] \in Digit /\ 1 \in 1..NumLen(K)
  <2>1. Decimal(K) \in Seq(Digit) /\ Len(Decimal(K)) >= 1
    BY DecimalDigits
  <2> QED BY <2>1 DEF NumLen
<1>15. CASE AtCount(s, c, p)
  <2>1. q \in 0..(Len(s) - 1) /\ p = CountAt(s, q) /\ c.state_ = "kBluk"
    BY <1>2, <1>15 DEF AtCount, Done, Script
  <2>2. w[p + 1] = Decimal(ArgCount(s, q))[1] /\ ArgCount(s, q) \in Nat
    <3>1. /\ ArgCount(s, q) \in Nat
          /\ \A i \in 1..NumLen(ArgCount(s, q)) :
               Wire(s)[CountAt(s, q) + i] = Decimal(ArgCount(s, q))[i]
      BY <1>2, <2>1, CountBytes
    <3> QED BY <1>14, <2>1, <3>1 DEF w
  <2>3. first \in Digit
    BY <1>1, <1>14, <2>2
  <2> QED BY <1>13, <1>15, <2>1, <2>3 DEF Ahead, d, e, w, chunk, N
<1>16. CASE AtLength(s, c, p)
  <2>1. /\ q \in 0..(Len(s) - 1) /\ a \in 0..(ArgCount(s, q) - 1)
        /\ p = LengthAt(s, q, a) /\ c.state_ = "kMultiBluk"
    BY <1>2, <1>16, MissingPlace DEF AtLength
  <2>2. w[p + 1] = Decimal(ArgLen(s, q, a))[1] /\ ArgLen(s, q, a) \in Nat
    <3>1. /\ ArgLen(s, q, a) \in Nat
          /\ \A i \in 1..NumLen(ArgLen(s, q, a)) :
               Wire(s)[LengthAt(s, q, a) + i] = Decimal(ArgLen(s, q, a))[i]
      BY <1>2, <2>1, ArgumentBytes
    <3> QED BY <1>14, <2>1, <3>1 DEF w
  <2>3. first \in Digit
    BY <1>1, <1>14, <2>2
  <2> QED BY <1>13, <1>16, <2>1, <2>3 DEF Ahead, d, e, w, chunk, N
<1> QED BY <1>2, <1>9, <1>10, <1>11, <1>12, <1>15, <1>16 DEF Starved

-----------------------------------------------------------------------------
\* The numbers on the wire have fewer digits than the buffer has bytes.
NumbersFit(s) ==
  \A q \in 0..(Len(s) - 1) :
    /\ NumLen(ArgCount(s, q)) < MaxLine
    /\ \A a \in 0..(ArgCount(s, q) - 1) : NumLen(ArgLen(s, q, a)) < MaxLine

\* When the parser waits, n is inside the request after those that ran, and
\* the buffer keeps no more than a number or a CR, which is fewer than MaxLine
\* bytes.
LEMMA RestsWhole ==
  ASSUME NEW s, NEW n, NEW c, Rests(s, n, c), MaxLine \in Nat \ {0}
  PROVE  /\ Whole(s, n, Len(c.executed))
         /\ NumbersFit(s) => c.offset_ \in 0..(MaxLine - 1)
<1> DEFINE m == c.read_buffer_size_
           p == ReadPos(n, c)
           q == Len(c.executed)
           a == Len(c.argv_)
           N == ArgCount(s, q)
           l == ArgLen(s, q, a)
           E(j) == EndOfRequest(s, j)
<1>1. /\ s \in Script /\ n \in 0..Len(Wire(s)) /\ c \in ConnType
      /\ Done(s, c) /\ Starved(s, n, c, p) /\ Buffered(s, n, c)
      /\ c.offset_ = m /\ c.read_pos_ = 0
  BY DEF Rests, Waiting
<1>2. /\ n \in Nat /\ m \in Nat /\ m <= n /\ p = n - m /\ p \in Nat
      /\ a \in Nat
  <2>1. Len(Wire(s)) \in Nat /\ m = Len(c.read_buffer_) /\ m <= n
        /\ c.read_buffer_ \in Seq(Char) /\ c.argv_ \in Seq(Seq(Char))
    BY <1>1, WireSteps DEF Buffered, ConnType
  <2>2. n \in Nat /\ m \in Nat /\ a \in Nat
    BY <1>1, <2>1
  <2>3. p = n - m + 0
    BY <1>1 DEF ReadPos
  <2> HIDE DEF m, p
  <2> QED BY <2>1, <2>2, <2>3
<1>3. q \in 0..Len(s) /\ Len(s) \in Nat
  BY <1>1 DEF Done, Script
<1>4. q < Len(s) =>
        /\ q \in 0..(Len(s) - 1)
        /\ E(q) \in Nat /\ E(q + 1) \in Nat /\ E(q) < E(q + 1)
        /\ N \in Nat /\ N >= 1 /\ NumLen(N) \in Nat /\ NumLen(N) >= 1
        /\ CountAt(s, q) = E(q) + 1
        /\ E(q) + NumLen(N) + 3 <= E(q + 1)
        /\ NumbersFit(s) => NumLen(N) < MaxLine
  <2> SUFFICES ASSUME q < Len(s)
               PROVE  /\ q \in 0..(Len(s) - 1)
                      /\ E(q) \in Nat /\ E(q + 1) \in Nat /\ E(q) < E(q + 1)
                      /\ N \in Nat /\ N >= 1
                      /\ NumLen(N) \in Nat /\ NumLen(N) >= 1
                      /\ CountAt(s, q) = E(q) + 1
                      /\ E(q) + NumLen(N) + 3 <= E(q + 1)
                      /\ NumbersFit(s) => NumLen(N) < MaxLine
    OBVIOUS
  <2>1. /\ q \in 0..(Len(s) - 1) /\ q \in 0..Len(s) /\ q + 1 \in 0..Len(s)
        /\ q < q + 1
    BY <1>3
  <2>2. E(q) \in Nat /\ E(q + 1) \in Nat /\ E(q) < E(q + 1)
    BY <1>1, <2>1, WireSteps, RequestEnds
  <2>3. /\ N \in Nat /\ N >= 1 /\ CountAt(s, q) = E(q) + 1
        /\ EndOfArgument(s, q, 0) = CountAt(s, q) + NumLen(N) + 2
    BY <1>1, <2>1, CountBytes DEF CountAt
  <2>4. NumLen(N) \in Nat /\ NumLen(N) >= 1
    BY <2>3, DecimalBytes
  <2>5. EndOfArgument(s, q, 0) <= E(q + 1)
    <3>1. 0 \in 0..N
      BY <2>3
    <3> QED BY <1>1, <2>1, <3>1, ArgumentEnds
  <2>6. NumbersFit(s) => NumLen(N) < MaxLine
    BY <2>1 DEF NumbersFit
  <2> HIDE DEF E, N, q
  <2>7. E(q) + NumLen(N) + 3 <= E(q + 1)
    BY <2>2, <2>3, <2>4, <2>5
  <2> QED BY <2>1, <2>2, <2>3, <2>4, <2>6, <2>7
<1>5. Missing(s, c) =>
        /\ q < Len(s)
        /\ l \in Nat /\ l >= 1 /\ NumLen(l) \in Nat /\ NumLen(l) >= 1
        /\ EndOfArgument(s, q, a) \in Nat
        /\ LengthAt(s, q, a) = EndOfArgument(s, q, a) + 1
        /\ PayloadAt(s, q, a) = LengthAt(s, q, a) + NumLen(l) + 2
        /\ E(q) < EndOfArgument(s, q, a)
        /\ PayloadAt(s, q, a) + l + 2 <= E(q + 1)
        /\ NumbersFit(s) => NumLen(l) < MaxLine
  <2> SUFFICES ASSUME Missing(s, c)
               PROVE  /\ q < Len(s)
                      /\ l \in Nat /\ l >= 1
                      /\ NumLen(l) \in Nat /\ NumLen(l) >= 1
                      /\ EndOfArgument(s, q, a) \in Nat
                      /\ LengthAt(s, q, a) = EndOfArgument(s, q, a) + 1
                      /\ PayloadAt(s, q, a) = LengthAt(s, q, a) + NumLen(l) + 2
                      /\ E(q) < EndOfArgument(s, q, a)
                      /\ PayloadAt(s, q, a) + l + 2 <= E(q + 1)
                      /\ NumbersFit(s) => NumLen(l) < MaxLine
    OBVIOUS
  <2>1. q \in 0..(Len(s) - 1) /\ a \in 0..(N - 1)
    BY <1>1, MissingPlace
  <2>2. N \in Nat /\ q < Len(s)
    BY <1>1, <1>3, <2>1, CountBytes
  <2>3. a \in 0..N /\ a + 1 \in 0..N
    BY <2>1, <2>2
  <2>4. /\ l \in Nat /\ l >= 1
        /\ EndOfArgument(s, q, a + 1) = PayloadAt(s, q, a) + l + 2
    BY <1>1, <2>1, ArgumentBytes
  <2>5. NumLen(l) \in Nat /\ NumLen(l) >= 1
    BY <2>4, DecimalBytes
  <2>6. /\ EndOfArgument(s, q, a) \in Nat
        /\ E(q) + 2 < EndOfArgument(s, q, a)
        /\ EndOfArgument(s, q, a + 1) <= E(q + 1)
    BY <1>1, <2>1, <2>3, ArgumentEnds
  <2>7. NumbersFit(s) => NumLen(l) < MaxLine
    BY <2>1 DEF NumbersFit
  <2>8. E(q) \in Nat
    BY <1>4, <2>2
  <2>9. E(q) < EndOfArgument(s, q, a)
    <3> HIDE DEF E
    <3> QED BY <2>6, <2>8
  <2> QED BY <2>2, <2>4, <2>5, <2>6, <2>7, <2>9 DEF LengthAt, PayloadAt
<1> DEFINE Goal == /\ E(q) <= n /\ (q < Len(s) => n < E(q + 1))
                   /\ NumbersFit(s) => m <= MaxLine - 1
<1> SUFFICES Goal
  BY <1>1, <1>2 DEF Whole
<1>6. MaxLine \in Nat /\ MaxLine >= 1
  OBVIOUS
<1>7. CASE AtRequest(s, c, p) /\ n = p
  <2>1. p = E(q) /\ m = 0
    BY <1>2, <1>7 DEF AtRequest
  <2> HIDE DEF E, m, p, q, N, l
  <2> QED BY <1>2, <1>4, <1>6, <1>7, <2>1
<1>8. CASE AtArgument(s, c, p) /\ n = p
  <2>1. Missing(s, c) /\ p = EndOfArgument(s, q, a) /\ m = 0
    BY <1>2, <1>8 DEF AtArgument
  <2>2. q < Len(s) /\ E(q) \in Nat /\ E(q + 1) \in Nat
    BY <1>4, <1>5, <2>1
  <2> HIDE DEF E, m, p, q, a, N, l
  <2> QED BY <1>2, <1>5, <1>6, <1>8, <2>1, <2>2, SMTT(30)
<1>9. CASE InPayload(s, c, p) /\ n = p
  <2>1. /\ Missing(s, c) /\ m = 0 /\ p = PayloadAt(s, q, a) + Len(c.data_)
        /\ c.left_ \in 1..l /\ Len(c.data_) = l - c.left_
    BY <1>2, <1>9 DEF InPayload
  <2>2. q < Len(s) /\ E(q) \in Nat /\ E(q + 1) \in Nat
    BY <1>4, <1>5, <2>1
  <2> HIDE DEF E, m, p, q, a, N, l
  <2>3. p < PayloadAt(s, q, a) + l /\ p >= PayloadAt(s, q, a)
        /\ PayloadAt(s, q, a) \in Nat
    <3> DEFINE x == PayloadAt(s, q, a)
               k == Len(c.data_)
    <3>1. x \in Nat /\ l \in Nat
      BY <1>5, <2>1, SMTT(30)
    <3>2. p = x + k /\ c.left_ \in 1..l /\ k = l - c.left_
      BY <2>1
    <3> HIDE DEF x, k
    <3>3. k \in 0..(l - 1)
      BY <3>1, <3>2
    <3>4. p < x + l /\ p >= x
      BY <3>1, <3>2, <3>3
    <3> QED BY <3>1, <3>4 DEF x
  <2>4. /\ E(q) < PayloadAt(s, q, a) /\ PayloadAt(s, q, a) + l + 2 <= E(q + 1)
        /\ l \in Nat
    <3>1. /\ NumLen(l) \in Nat /\ EndOfArgument(s, q, a) \in Nat
          /\ LengthAt(s, q, a) = EndOfArgument(s, q, a) + 1
          /\ PayloadAt(s, q, a) = LengthAt(s, q, a) + NumLen(l) + 2
          /\ E(q) < EndOfArgument(s, q, a)
          /\ PayloadAt(s, q, a) + l + 2 <= E(q + 1) /\ l \in Nat
      BY <1>5, <2>1
    <3> QED BY <2>2, <3>1
  <2>5. n = p /\ p \in Nat /\ m = 0
    BY <1>2, <1>9, <2>1
  <2>6. E(q) <= n /\ n < E(q + 1)
    BY <2>2, <2>3, <2>4, <2>5
  <2>7. m <= MaxLine - 1
    BY <1>6, <2>5
  <2> QED BY <2>6, <2>7
<1>10. CASE AfterPayload(s, c, p) /\ n \in p..(p + 1)
  <2>1. /\ q < Len(s) /\ a <= N /\ a >= 1 /\ p = EndOfArgument(s, q, a) - 2
    BY <1>10 DEF AfterPayload, Args
  <2>2. /\ q \in 0..(Len(s) - 1) /\ E(q) \in Nat /\ E(q + 1) \in Nat
        /\ N \in Nat /\ (NumbersFit(s) => MaxLine >= 2)
    BY <1>4, <1>6, <2>1
  <2>3. a \in 0..N
    BY <1>2, <2>1, <2>2
  <2>4. /\ EndOfArgument(s, q, a) \in Nat /\ E(q) + 2 < EndOfArgument(s, q, a)
        /\ EndOfArgument(s, q, a) <= E(q + 1)
    BY <1>1, <2>2, <2>3, ArgumentEnds
  <2> HIDE DEF E, m, p, q, a, N, l
  <2>5. m <= 1 /\ n <= p + 1 /\ p <= n
    BY <1>2, <1>10
  <2> QED BY <1>2, <1>6, <2>1, <2>2, <2>4, <2>5, SMTT(30)
<1>11. CASE AtCount(s, c, p) /\ n \in p..(p + NumLen(N))
  <2>1. q < Len(s) /\ p = CountAt(s, q)
    BY <1>11 DEF AtCount
  <2> HIDE DEF E, m, p, q, a, N, l
  <2>2. NumLen(N) \in Nat
    BY <1>4, <2>1
  <2>3. m <= NumLen(N) /\ n <= p + NumLen(N) /\ p <= n
    BY <1>2, <1>11, <2>2
  <2>4. /\ E(q) \in Nat /\ E(q + 1) \in Nat /\ p = E(q) + 1
        /\ E(q) + NumLen(N) + 3 <= E(q + 1)
    BY <1>4, <2>1
  <2>5. E(q) <= n /\ n < E(q + 1)
    BY <1>2, <2>2, <2>3, <2>4
  <2>6. NumbersFit(s) => m <= MaxLine - 1
    <3>1. NumbersFit(s) => NumLen(N) < MaxLine
      BY <1>4, <2>1
    <3>2. m \in Nat
      BY <1>2
    <3> QED BY <1>6, <2>2, <2>3, <3>1, <3>2
  <2> QED BY <2>5, <2>6
<1>12. CASE AtLength(s, c, p) /\ n \in p..(p + NumLen(l))
  <2>1. Missing(s, c) /\ p = LengthAt(s, q, a)
    BY <1>12 DEF AtLength
  <2>2. q < Len(s) /\ E(q) \in Nat /\ E(q + 1) \in Nat
    BY <1>4, <1>5, <2>1
  <2> HIDE DEF E, m, p, q, a, N, l
  <2>3. NumLen(l) \in Nat
    BY <1>5, <2>1
  <2>4. m <= NumLen(l) /\ n <= p + NumLen(l) /\ p <= n
    BY <1>2, <1>12, <2>3
  <2>5. /\ EndOfArgument(s, q, a) \in Nat /\ l \in Nat
        /\ p = EndOfArgument(s, q, a) + 1
        /\ E(q) < EndOfArgument(s, q, a)
        /\ p + NumLen(l) + 2 + l + 2 <= E(q + 1)
    BY <1>5, <2>1
  <2>6. E(q) <= n /\ n < E(q + 1)
    <3>1. n \in Nat
      BY <1>2, Zenon
    <3>2. p \in Nat /\ E(q) <= p
      BY <2>2, <2>5
    <3>3. p + NumLen(l) < E(q + 1)
      BY <2>2, <2>3, <2>5, <3>2, SMTT(30)
    <3> QED BY <2>2, <2>3, <2>4, <3>1, <3>2, <3>3
  <2>7. NumbersFit(s) => m <= MaxLine - 1
    <3>1. NumbersFit(s) => NumLen(l) < MaxLine
      BY <1>5, <2>1
    <3>2. m \in Nat
      BY <1>2
    <3> QED BY <1>6, <2>3, <2>4, <3>1, <3>2
  <2> QED BY <2>6, <2>7
<1> QED BY <1>1, <1>7, <1>8, <1>9, <1>10, <1>11, <1>12 DEF Starved

\* In the loop the parser is inside the request after those that ran.
LEMMA LoopBeyond ==
  ASSUME NEW s \in Script, NEW n, NEW c \in ConnType, n \in 0..Len(Wire(s)),
         Done(s, c), InLoop(s, n, c)
  PROVE  EndOfRequest(s, Len(c.executed)) < n
<1> DEFINE m == c.read_buffer_size_
           r == c.read_pos_
           p == ReadPos(n, c)
           q == Len(c.executed)
           a == Len(c.argv_)
<1>1. /\ Ahead(s, c, p) /\ r \in {0, 1} /\ r <= m /\ Buffered(s, n, c)
  BY DEF InLoop
<1>2. /\ p <= n /\ n \in Nat /\ p \in Int
  <2>1. Len(Wire(s)) \in Nat /\ m \in Int /\ p = n - m + r
    BY WireSteps DEF ConnType, ReadPos
  <2>2. n \in Nat
    BY <2>1
  <2> HIDE DEF m, r, p
  <2> QED BY <1>1, <2>1, <2>2
<1>3. CASE AtCount(s, c, p)
  <2>1. q < Len(s) /\ p = CountAt(s, q)
    BY <1>3 DEF AtCount
  <2>2. q \in 0..Len(s)
    BY DEF Done
  <2>3. EndOfRequest(s, q) \in Nat
    BY <2>2, WireSteps
  <2>4. p = EndOfRequest(s, q) + 1
    BY <2>1 DEF CountAt
  <2> HIDE DEF p, q
  <2>5. EndOfRequest(s, q) < n
    BY <1>2, <2>3, <2>4
  <2> QED BY <2>5 DEF q
<1>4. CASE AtLength(s, c, p)
  <2>1. Missing(s, c) /\ p = LengthAt(s, q, a)
    BY <1>4 DEF AtLength
  <2>2. q \in 0..(Len(s) - 1) /\ a \in 0..(ArgCount(s, q) - 1)
    BY <2>1, MissingPlace
  <2>3. a \in 0..ArgCount(s, q)
    BY <2>2, CountBytes
  <2>4. /\ EndOfArgument(s, q, a) \in Nat
        /\ EndOfRequest(s, q) + 2 < EndOfArgument(s, q, a)
    BY <2>2, <2>3, ArgumentEnds
  <2>5. EndOfRequest(s, q) \in Nat
    BY <2>2, WireSteps
  <2>6. p = EndOfArgument(s, q, a) + 1
    BY <2>1 DEF LengthAt
  <2> HIDE DEF p, q, a
  <2>7. EndOfRequest(s, q) < n
    BY <1>2, <2>4, <2>5, <2>6
  <2> QED BY <2>7 DEF q
<1> QED BY <1>1, <1>3, <1>4 DEF Ahead

-----------------------------------------------------------------------------
\* What a read that failed leaves: nothing ran and what is kept has a size.
LEMMA FailedRead ==
  ASSUME NEW s, NEW n, NEW c, Rests(s, n, c), c.offset_ < MaxLine,
         MaxLine \in Nat \ {0}
  PROVE  LET e == Finterpreter(c, <<>>, -1)
         IN  /\ e \in ConnType /\ e.status = "ok" /\ Kept(c, e)
             /\ IF e.is_end_parsing_ THEN e.read_pos_ = 0 /\ e.offset_ = 0
                                     ELSE AfterError(e)
<1> DEFINE w == Wire(s)
           d == Arrive(c, <<>>, -1)
           e == Finterpreter(c, <<>>, -1)
           p == ReadPos(n, c)
           q == Len(c.executed)
           a == Len(c.argv_)
           b == c.read_buffer_
           m == c.read_buffer_size_
           first == At(d, d.read_pos_)
<1>1. /\ s \in Script /\ n \in 0..Len(w) /\ c \in ConnType /\ c.status = "ok"
      /\ Done(s, c) /\ Buffered(s, n, c) /\ c.offset_ = m
      /\ c.read_pos_ = 0 /\ c.analysis_pos_ = 0 /\ Starved(s, n, c, p)
  BY DEF Rests, Waiting
<1>2. /\ b \in Seq(Char) /\ m = Len(b) /\ m \in Nat /\ m <= n /\ n \in Nat
      /\ \A i \in 1..m : b[i] = w[n - m + i]
  <2>1. b \in Seq(Char) /\ m = Len(b) /\ m <= n /\ Len(w) \in Nat
        /\ \A i \in 1..m : b[i] = w[n - m + i]
    BY <1>1, WireSteps DEF ConnType, Buffered
  <2>2. m \in Nat /\ n \in Nat
    BY <1>1, <2>1
  <2> QED BY <2>1, <2>2
<1>3. p = n - m /\ p \in Nat
  <2>1. p = n - m + 0
    BY <1>1 DEF ReadPos
  <2> HIDE DEF p, m
  <2> QED BY <1>2, <2>1
<1> HIDE DEF w, p, b, m, d, e, first
<1>4. d = [c EXCEPT !.is_end_parsing_ = FALSE, !.read_buffer_ = b,
                    !.read_buffer_size_ = m - 1]
  <2>1. b \o <<>> = b
    BY <1>2
  <2>2. -1 + c.offset_ = m - 1
    BY <1>1, <1>2
  <2> QED BY <2>1, <2>2 DEF d, Arrive, b
<1>5. d \in ConnType
  <2> DEFINE e1 == [c EXCEPT !.is_end_parsing_ = FALSE]
             e2 == [e1 EXCEPT !.read_buffer_ = b]
             e3 == [e2 EXCEPT !.read_buffer_size_ = m - 1]
  <2>0. FALSE \in BOOLEAN /\ m - 1 \in Int
    BY <1>2
  <2>1. e1 \in ConnType
    BY <1>1, <2>0, FieldTypes
  <2> HIDE DEF e1
  <2>2. e2 \in ConnType
    BY <1>2, <2>1, FieldTypes
  <2> HIDE DEF e2
  <2>3. e3 \in ConnType
    BY <2>0, <2>2, FieldTypes
  <2> QED BY <1>4, <2>3 DEF e1, e2
<1>6. /\ d.read_buffer_ = b /\ d.read_buffer_size_ = m - 1
      /\ SameParser(c, d) /\ Kept(c, d) /\ d.status = "ok"
      /\ ~d.is_end_parsing_ /\ d.read_pos_ = 0 /\ d.analysis_pos_ = 0
  BY <1>1, <1>4 DEF ConnType, SameParser, Kept, SameHistory
<1>7. /\ Len(d.executed) = q /\ Len(d.argv_) = a
      /\ d.state_ = c.state_ /\ d.bluk_length_ = c.bluk_length_
      /\ d.data_ = c.data_ /\ d.left_ = c.left_
  BY <1>6 DEF Kept, SameHistory, SameParser
<1>8. first = IF m = 0 THEN NUL ELSE b[1]
  <2>1. 0 \in 0..(Len(b) - 1) <=> m # 0
    BY <1>2
  <2>2. 0 + 1 = 1
    OBVIOUS
  <2> QED BY <1>6, <2>1, <2>2 DEF first, At
<1>9. e = IF first = Star /\ d.bluk_length_ = -1
            THEN [d EXCEPT !.state_ = "kBluk", !.analysis_pos_ = 1,
                           !.read_pos_ = 1]
          ELSE IF d.state_ = "kParseString" THEN Memmove(Add(d))
          ELSE IF d.state_ = "kMultiBluk" /\ first = Dollar
            THEN Memmove([d EXCEPT !.read_pos_ = d.read_pos_ + 1])
          ELSE IF first \in {CR, LF}
            THEN LET f == Assert_(d)
                 IN  Memmove(IF f.state_ # "kBluk" THEN Add(f) ELSE f)
          ELSE d
  BY Zenon DEF Finterpreter, Arrive, d, e, first
<1>10. ASSUME c.state_ # "kParseString",
              \A i \in 1..m : b[i] \in Digit
       PROVE  e = d /\ AfterError(d)
  <2>1. first \notin {Star, Dollar, CR, LF}
    <3>1. CASE m = 0
      BY <1>8, <3>1 DEF NUL, Star, Dollar, CR, LF
    <3>2. CASE m # 0
      <4>1. first \in Digit
        BY <1>2, <1>8, <1>10, <3>2
      <4> QED BY <4>1, NoDigit
    <3> QED BY <3>1, <3>2
  <2>2. e = d
    BY <1>7, <1>9, <1>10, <2>1
  <2>3. \A i \in 1..Len(b) : b[i] # CR
    BY <1>2, <1>10, NoDigit
  <2>4. m - 1 = Len(b) - 1 /\ m - 1 < MaxLine - 1
    BY <1>1, <1>2
  <2> QED BY <1>6, <2>2, <2>3, <2>4 DEF AfterError
<1>11. ASSUME NEW N \in Nat, NumberAt(w, p, N), n <= p + NumLen(N)
       PROVE  \A i \in 1..m : b[i] \in Digit
  <2> SUFFICES ASSUME NEW i \in 1..m PROVE b[i] \in Digit
    OBVIOUS
  <2>1. Decimal(N) \in Seq(Digit) /\ NumLen(N) = Len(Decimal(N))
        /\ NumLen(N) \in Nat
    BY DecimalDigits, DecimalBytes DEF NumLen
  <2> DEFINE k == NumLen(N)
             dec == Decimal(N)
  <2>2. dec \in Seq(Digit) /\ k = Len(dec) /\ k \in Nat
        /\ (\A j \in 1..k : w[p + j] = dec[j]) /\ n <= p + k
    BY <1>11, <2>1 DEF NumberAt
  <2> HIDE DEF k, dec
  <2>3. i \in 1..k /\ n - m + i = p + i
    BY <1>2, <1>3, <2>2
  <2>4. b[i] = dec[i]
    BY <1>2, <2>2, <2>3
  <2> QED BY <2>2, <2>3, <2>4
<1> DEFINE Goal == /\ e \in ConnType /\ e.status = "ok" /\ Kept(c, e)
                   /\ IF e.is_end_parsing_
                        THEN e.read_pos_ = 0 /\ e.offset_ = 0
                        ELSE AfterError(e)
<1>12. e = d /\ AfterError(d) => Goal
  BY <1>5, <1>6
<1>13. ASSUME c.state_ = "kParseString", d.bluk_length_ # -1,
              (m = 0 /\ c.left_ >= 0) \/ (m = 1 /\ c.left_ = 0)
       PROVE  Goal
  <2> DEFINE room == d.read_buffer_size_ - d.analysis_pos_
             num == IF d.left_ < room THEN d.left_ ELSE room
             t == d.data_ \o Substr(CString(d), d.analysis_pos_, num)
             f0 == [d EXCEPT !.data_ = t]
             f1 == [d EXCEPT !.left_ = d.left_ - num, !.data_ = t,
                             !.read_pos_ = d.read_buffer_size_]
             f == IF num = 0 THEN f0 ELSE f1
  <2>1. e = Memmove(Add(d))
    BY <1>7, <1>9, <1>13
  <2>2. d.left_ = c.left_ /\ d.left_ \in Int /\ room = m - 1
    BY <1>1, <1>2, <1>6, <1>7 DEF ConnType
  <2>3. num = m - 1 /\ num \in Int /\ (num = 0 <=> m = 1)
        /\ ~(num # 0 /\ num = d.left_)
    BY <1>2, <1>13, <2>2
  <2>4. CString(d) = b /\ ~(d.analysis_pos_ > Len(CString(d)))
    <3>1. CString(d) = b
      BY <1>5, <1>6, CStringIsBuffer
    <3> QED BY <1>2, <1>6, <3>1
  <2>5. t \in Seq(Char)
    <3>1. d.data_ \in Seq(Char)
      BY <1>5 DEF ConnType
    <3> HIDE DEF num, t
    <3>2. Substr(b, 0, num) \in Seq(Char)
      <4>0. 0 + 1 = 1 /\ SubSeq(b, 1, Len(b)) \in Seq(Char)
        BY <1>2
      <4>1. CASE num < 0
        <5>1. Substr(b, 0, num) = SubSeq(b, 0 + 1, Len(b))
          BY <4>1, Zenon DEF Substr
        <5> QED BY <4>0, <5>1
      <4>2. CASE ~(num < 0)
        <5>1. num = 0 /\ ~(0 + num > Len(b))
          BY <1>2, <1>13, <2>3, <4>2
        <5>2. Substr(b, 0, num) = SubSeq(b, 0 + 1, 0 + num)
          BY <4>2, <5>1, Zenon DEF Substr
        <5>3. 0 + 1 = 1 /\ 0 + num = 0
          BY <5>1
        <5> QED BY <1>2, <5>2, <5>3
      <4> QED BY <4>1, <4>2
    <3> QED BY <1>6, <2>4, <3>1, <3>2 DEF t
  <2>6. Add(d) = Assert_(f)
    <3>1. Ok(d)
      BY <1>6 DEF Ok
    <3> HIDE DEF num, t
    <3>2. CASE num = 0
      BY <2>4, <3>1, <3>2, Zenon DEF Add, num, t
    <3>3. CASE num # 0
      <4>1. ~(num = 0) /\ ~(num # 0 /\ num = d.left_)
        BY <2>3, <3>3
      <4> QED BY <2>4, <3>1, <4>1, Zenon DEF Add, num, t
    <3> QED BY <3>2, <3>3
  <2> HIDE DEF t, num
  <2>7. f \in ConnType
    <3> DEFINE e1 == [d EXCEPT !.left_ = d.left_ - num]
               e2 == [e1 EXCEPT !.data_ = t]
               e3 == [e2 EXCEPT !.read_pos_ = d.read_buffer_size_]
    <3>0. d.left_ - num \in Int /\ d.read_buffer_size_ \in Int
      BY <1>2, <1>6, <2>2, <2>3
    <3>1. e1 \in ConnType
      BY <1>5, <3>0, FieldTypes
    <3> HIDE DEF e1
    <3>2. e2 \in ConnType
      BY <2>5, <3>1, FieldTypes
    <3> HIDE DEF e2
    <3>3. e3 \in ConnType
      BY <3>0, <3>2, FieldTypes
    <3>4. f1 = e3
      BY DEF e1, e2
    <3>5. f0 \in ConnType
      BY <1>5, <2>5, FieldTypes
    <3> HIDE DEF e3, f0, f1
    <3> QED BY <3>3, <3>4, <3>5
  <2>8. /\ f.read_buffer_ = b /\ f.read_buffer_size_ = m - 1
        /\ Kept(d, f) /\ f.status = "ok" /\ f.read_pos_ = m - 1
    <3>1. CASE num = 0
      <4>1. f = f0
        BY <3>1
      <4>2. m - 1 = 0
        BY <2>3, <3>1
      <4> HIDE DEF f
      <4> QED BY <1>5, <1>6, <4>1, <4>2 DEF ConnType, Kept, SameHistory
    <3>2. CASE num # 0
      <4>1. f = f1
        BY <3>2
      <4> HIDE DEF f
      <4> QED BY <1>5, <1>6, <4>1 DEF ConnType, Kept, SameHistory
    <3> QED BY <3>1, <3>2
  <2> HIDE DEF f
  <2> DEFINE g == EndParsing(f)
  <2>9. Assert_(f) = g
    BY <2>8, Zenon DEF Assert_, Ok
  <2>10. /\ g \in ConnType /\ g.status = "ok" /\ SameBuffer(f, g)
         /\ SameHistory(f, g) /\ g.is_end_parsing_
         /\ g.is_end_read_ = f.is_end_read_ /\ g.read_pos_ = m - 1
    BY <2>7, <2>8, StopMoves DEF Moved
  <2> HIDE DEF g
  <2> DEFINE x == SubSeq(b, m, m - 1)
  <2>11. e = [g EXCEPT !.offset_ = 0, !.read_buffer_ = x,
                       !.read_buffer_size_ = 0, !.analysis_pos_ = 0,
                       !.read_pos_ = 0, !.status = g.status]
    <3>1. e = Memmove(g)
      BY <2>1, <2>6, <2>9
    <3>2. /\ g.read_buffer_size_ - g.read_pos_ = 0
          /\ g.read_pos_ + 1 = m /\ g.read_buffer_size_ = m - 1
          /\ g.read_buffer_ = b
      BY <1>2, <2>8, <2>10 DEF SameBuffer
    <3>3. Ok(g) /\ ~(0 < 0)
      BY <2>10 DEF Ok
    <3> QED BY <3>1, <3>2, <3>3, Zenon DEF Memmove
  <2>12. x \in Seq(Char)
    <3>1. m = 0 \/ m = 1
      BY <1>13
    <3>2. CASE m = 0
      <4>1. x = SubSeq(b, 0, -1)
        BY <3>2
      <4> QED BY <1>2, <4>1
    <3>3. CASE m = 1
      <4>1. x = SubSeq(b, 1, 0)
        BY <3>3
      <4> QED BY <1>2, <4>1
    <3> QED BY <3>1, <3>2, <3>3
  <2> HIDE DEF x
  <2>13. e \in ConnType
    <3> DEFINE e1 == [g EXCEPT !.offset_ = 0]
               e2 == [e1 EXCEPT !.read_buffer_ = x]
               e3 == [e2 EXCEPT !.read_buffer_size_ = 0]
               e4 == [e3 EXCEPT !.analysis_pos_ = 0]
               e5 == [e4 EXCEPT !.read_pos_ = 0]
               e6 == [e5 EXCEPT !.status = g.status]
    <3>0. 0 \in Int /\ g.status \in {"ok", "abort", "ub"}
      BY <2>10
    <3>1. e1 \in ConnType
      BY <2>10, <3>0, FieldTypes
    <3> HIDE DEF e1
    <3>2. e2 \in ConnType
      BY <2>12, <3>1, FieldTypes
    <3> HIDE DEF e2
    <3>3. e3 \in ConnType
      BY <3>0, <3>2, FieldTypes
    <3> HIDE DEF e3
    <3>4. e4 \in ConnType
      BY <3>0, <3>3, FieldTypes
    <3> HIDE DEF e4
    <3>5. e5 \in ConnType
      BY <3>0, <3>4, FieldTypes
    <3> HIDE DEF e5
    <3>6. e6 \in ConnType
      BY <3>0, <3>5, FieldTypes
    <3> QED BY <2>11, <3>6 DEF e1, e2, e3, e4, e5
  <2>14. /\ e.status = "ok" /\ e.is_end_parsing_ /\ e.read_pos_ = 0
         /\ e.offset_ = 0 /\ Kept(g, e)
    BY <2>10, <2>11 DEF ConnType, Kept, SameHistory
  <2>15. Kept(c, e)
    BY <1>6, <2>8, <2>10, <2>14 DEF Kept, SameHistory
  <2> QED BY <2>13, <2>14, <2>15
<1>14. CASE AtRequest(s, c, p) /\ n = p
  <2>1. m = 0 /\ c.state_ # "kParseString"
    BY <1>2, <1>3, <1>14 DEF AtRequest
  <2>2. \A i \in 1..m : b[i] \in Digit
    BY <2>1
  <2> QED BY <1>10, <1>12, <2>1, <2>2 DEF e
<1>15. CASE AtArgument(s, c, p) /\ n = p
  <2>1. m = 0 /\ c.state_ # "kParseString"
    BY <1>2, <1>3, <1>15 DEF AtArgument
  <2>2. \A i \in 1..m : b[i] \in Digit
    BY <2>1
  <2> QED BY <1>10, <1>12, <2>1, <2>2 DEF e
<1>16. CASE InPayload(s, c, p) /\ n = p
  <2>1. c.state_ = "kParseString" /\ Missing(s, c)
        /\ c.left_ \in 1..ArgLen(s, q, a)
    BY <1>16 DEF InPayload
  <2>2. q \in 0..(Len(s) - 1) /\ a \in 0..(ArgCount(s, q) - 1)
    BY <1>1, <2>1, MissingPlace
  <2>3. ArgCount(s, q) \in Nat /\ ArgLen(s, q, a) \in Nat
    BY <1>1, <2>2, CountBytes, ArgumentBytes
  <2>4. d.bluk_length_ # -1
    <3>1. c.bluk_length_ = ArgCount(s, q) - a
      BY <2>1 DEF Missing
    <3> QED BY <1>7, <2>2, <2>3, <3>1
  <2>5. m = 0 /\ c.left_ >= 0
    BY <1>2, <1>3, <1>16, <2>1, <2>3
  <2> QED BY <1>13, <2>1, <2>4, <2>5 DEF e
<1>17. CASE AfterPayload(s, c, p) /\ n \in p..(p + 1)
  <2>1. /\ c.state_ = "kParseString" /\ c.left_ = 0
        /\ c.bluk_length_ = ArgCount(s, q) - a + 1 /\ a <= ArgCount(s, q)
        /\ q < Len(s)
    BY <1>17 DEF AfterPayload, Args
  <2>2. ArgCount(s, q) \in Nat /\ a \in Nat
    <3>1. q \in 0..(Len(s) - 1)
      BY <1>1, <2>1 DEF Done, Script
    <3> QED BY <1>1, <3>1, CountBytes DEF ConnType
  <2>3. d.bluk_length_ # -1
    BY <1>7, <2>1, <2>2
  <2>4. (m = 0 /\ c.left_ >= 0) \/ (m = 1 /\ c.left_ = 0)
    BY <1>2, <1>3, <1>17, <2>1
  <2> QED BY <1>13, <2>1, <2>3, <2>4 DEF e
<1>18. CASE AtCount(s, c, p) /\ n \in p..(p + NumLen(ArgCount(s, q)))
  <2>1. q \in 0..(Len(s) - 1) /\ p = CountAt(s, q) /\ c.state_ = "kBluk"
    BY <1>1, <1>18 DEF AtCount, Done, Script
  <2>2. ArgCount(s, q) \in Nat /\ NumberAt(w, p, ArgCount(s, q))
    BY <1>1, <2>1, CountBytes DEF NumberAt, w
  <2>3. n <= p + NumLen(ArgCount(s, q))
    BY <1>18
  <2>4. \A i \in 1..m : b[i] \in Digit
    BY <1>11, <2>2, <2>3
  <2> QED BY <1>10, <1>12, <2>1, <2>4 DEF e
<1>19. CASE AtLength(s, c, p) /\ n \in p..(p + NumLen(ArgLen(s, q, a)))
  <2>1. /\ q \in 0..(Len(s) - 1) /\ a \in 0..(ArgCount(s, q) - 1)
        /\ p = LengthAt(s, q, a) /\ c.state_ = "kMultiBluk"
    BY <1>1, <1>19, MissingPlace DEF AtLength
  <2>2. ArgLen(s, q, a) \in Nat /\ NumberAt(w, p, ArgLen(s, q, a))
    BY <1>1, <2>1, ArgumentBytes DEF NumberAt, w
  <2>3. n <= p + NumLen(ArgLen(s, q, a))
    BY <1>19
  <2>4. \A i \in 1..m : b[i] \in Digit
    BY <1>11, <2>2, <2>3
  <2> QED BY <1>10, <1>12, <2>1, <2>4 DEF e
<1> QED BY <1>1, <1>14, <1>15, <1>16, <1>17, <1>18, <1>19 DEF Starved, e

\* The handler is done with the buffer and leaves nothing but its offset.
Halted(c, e) ==
  /\ e \in ConnType /\ Kept(c, e) /\ e.is_end_parsing_
  /\ e.read_pos_ = 0 /\ e.offset_ \in -1..(MaxLine - 1)

\* No number ends in the buffer after a failed read, and the size that memmove
\* then keeps may be negative.
LEMMA FailedLoop ==
  ASSUME NEW c \in ConnType, c.status = "ok", AfterError(c),
         MaxLine \in Nat \ {0}
  PROVE  /\ Halted(c, Memmove(Parsing(c)))
         /\ Halted(c, [Memmove(Parsing(c)) EXCEPT !.status = "ok"])
<1> DEFINE b == c.read_buffer_
           m == c.read_buffer_size_
           g == [EndParsing(c) EXCEPT !.read_pos_ = 0]
           x == SubSeq(b, 1, m)
           v == IF m < 0 THEN "ub" ELSE "ok"
           e == Memmove(Parsing(c))
<1>1. /\ b \in Seq(Char) /\ m = Len(b) - 1 /\ m < MaxLine - 1
      /\ c.read_pos_ = 0 /\ c.analysis_pos_ = 0
      /\ \A i \in 1..Len(b) : b[i] # CR
  BY DEF ConnType, AfterError
<1>2. m \in -1..(MaxLine - 1) /\ m \in Int
  BY <1>1
<1>3. Parsing(c) = g
  <2>1. CString(c) = b
    BY CStringIsBuffer
  <2>2. StrChr(b, CR) = 0
    BY <1>1, StrChrFirst
  <2>3. StrChr(CString(c), CR) - 1 < 0
    BY <2>1, <2>2
  <2> QED BY <1>1, <2>3, Zenon DEF Parsing
<1>4. /\ g \in ConnType /\ g.status = "ok" /\ Kept(c, g)
      /\ g.is_end_parsing_ /\ g.read_pos_ = 0
      /\ g.read_buffer_ = b /\ g.read_buffer_size_ = m
  <2>1. 0 \in Int
    OBVIOUS
  <2> QED BY <2>1, StopMoves DEF Moved, Kept, SameBuffer
<1> HIDE DEF g, m, b
<1>5. x \in Seq(Char)
  <2>1. m \in 0..Len(b) \/ m = -1
    BY <1>1, <1>2
  <2>2. CASE m \in 0..Len(b)
    BY <1>1, <2>2
  <2>3. CASE m = -1
    <3>1. x = SubSeq(b, 1, -1)
      BY <2>3
    <3> QED BY <1>1, <3>1
  <2> QED BY <2>1, <2>2, <2>3
<1> HIDE DEF x, v
<1>6. e = [g EXCEPT !.offset_ = m, !.read_buffer_ = x,
                    !.read_buffer_size_ = m, !.analysis_pos_ = 0,
                    !.read_pos_ = 0, !.status = v]
  <2>1. e = Memmove(g)
    BY <1>3
  <2>2. g.read_buffer_size_ - g.read_pos_ = m /\ g.read_pos_ + 1 = 1 /\ Ok(g)
    BY <1>2, <1>4 DEF Ok
  <2>3. Memmove(g)
          = [g EXCEPT
               !.offset_ = g.read_buffer_size_ - g.read_pos_,
               !.read_buffer_ = SubSeq(g.read_buffer_, g.read_pos_ + 1,
                                       g.read_buffer_size_),
               !.read_buffer_size_ = g.read_buffer_size_ - g.read_pos_,
               !.analysis_pos_ = 0,
               !.read_pos_ = 0,
               !.status = IF g.read_buffer_size_ - g.read_pos_ < 0
                            THEN "ub" ELSE g.status]
    BY <2>2, Zenon DEF Memmove
  <2>4. SubSeq(g.read_buffer_, g.read_pos_ + 1, g.read_buffer_size_) = x
    BY <1>4, <2>2, Zenon DEF x
  <2>5. (IF g.read_buffer_size_ - g.read_pos_ < 0 THEN "ub" ELSE g.status) = v
    BY <1>4, <2>2, Zenon DEF v
  <2> QED BY <2>1, <2>2, <2>3, <2>4, <2>5, Zenon
<1> HIDE DEF e
<1>7. ASSUME NEW u \in {"ok", "abort", "ub"}
      PROVE  [g EXCEPT !.offset_ = m, !.read_buffer_ = x,
                       !.read_buffer_size_ = m, !.analysis_pos_ = 0,
                       !.read_pos_ = 0, !.status = u] \in ConnType
  <2> DEFINE e1 == [g EXCEPT !.offset_ = m]
             e2 == [e1 EXCEPT !.read_buffer_ = x]
             e3 == [e2 EXCEPT !.read_buffer_size_ = m]
             e4 == [e3 EXCEPT !.analysis_pos_ = 0]
             e5 == [e4 EXCEPT !.read_pos_ = 0]
             e6 == [e5 EXCEPT !.status = u]
  <2>0. 0 \in Int /\ m \in Int
    BY <1>2
  <2>1. e1 \in ConnType
    BY <1>4, <2>0, FieldTypes
  <2> HIDE DEF e1
  <2>2. e2 \in ConnType
    BY <1>5, <2>1, FieldTypes
  <2> HIDE DEF e2
  <2>3. e3 \in ConnType
    BY <2>0, <2>2, FieldTypes
  <2> HIDE DEF e3
  <2>4. e4 \in ConnType
    BY <2>0, <2>3, FieldTypes
  <2> HIDE DEF e4
  <2>5. e5 \in ConnType
    BY <2>0, <2>4, FieldTypes
  <2> HIDE DEF e5
  <2>6. e6 \in ConnType
    BY <2>5, FieldTypes
  <2> QED BY <2>6 DEF e1, e2, e3, e4, e5
<1>8. v \in {"ok", "abort", "ub"}
  BY DEF v
<1> DEFINE f == [e EXCEPT !.status = "ok"]
<1>9. e \in ConnType /\ f \in ConnType
  <2>1. e \in ConnType
    BY <1>6, <1>7, <1>8
  <2> QED BY <2>1, FieldTypes
<1>10. /\ e.executed = g.executed /\ e.Reply_ = g.Reply_
       /\ e.is_connect_ = g.is_connect_ /\ e.keepRunning = g.keepRunning
       /\ e.is_end_read_ = g.is_end_read_
       /\ e.is_end_parsing_ = g.is_end_parsing_
       /\ e.read_pos_ = 0 /\ e.offset_ = m
  BY <1>4, <1>6 DEF ConnType
<1>11. /\ f.executed = e.executed /\ f.Reply_ = e.Reply_
       /\ f.is_connect_ = e.is_connect_ /\ f.keepRunning = e.keepRunning
       /\ f.is_end_read_ = e.is_end_read_
       /\ f.is_end_parsing_ = e.is_end_parsing_
       /\ f.read_pos_ = e.read_pos_ /\ f.offset_ = e.offset_
  BY <1>9 DEF ConnType
<1> HIDE DEF f
<1>12. Halted(c, e)
  BY <1>2, <1>4, <1>9, <1>10 DEF Halted, Kept, SameHistory
<1>13. Halted(c, f)
  BY <1>9, <1>11, <1>12 DEF Halted, Kept, SameHistory
<1> QED BY <1>12, <1>13 DEF e, f
=============================================================================
