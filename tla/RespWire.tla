------------------------------- MODULE RespWire -------------------------------
(***************************************************************************)
(* The bytes a client puts on the wire.  A request is a non-empty sequence *)
(* of arguments, an argument a sequence of bytes, and a byte its character *)
(* code, because Conn::Assert compares a character with a buffer index.    *)
(* The encoding is the client's (RESP arrays of bulk strings, what the     *)
(* comments of include/kv_conn.h expect), so it is external to src/.       *)
(***************************************************************************)
EXTENDS Integers, Sequences, SequencesExt

NUL    == 0
LF     == 10
CR     == 13
Dollar == 36     \* '$'
Star   == 42     \* '*'
Zero   == 48     \* '0'
Byte   == 0..255

Digit == Zero..(Zero + 9)
CrLf  == <<CR, LF>>

\* atoi on a string of digits: it stops at the first byte that is not one.
Atoi(s) ==
  LET stop   == SelectInSeq(s, LAMBDA b : b \notin Digit)
      digits == IF stop = 0 THEN Len(s) ELSE stop - 1
      value[k \in 0..digits] ==
        IF k = 0 THEN 0 ELSE 10 * value[k - 1] + (s[k] - Zero)
  IN  value[digits]

Decimal(n) ==
  LET numeral[m \in 0..n] ==
        IF m < 10 THEN <<Zero + m>>
                  ELSE Append(numeral[m \div 10], Zero + (m % 10))
  IN  numeral[n]

-----------------------------------------------------------------------------
\* first and the first k of pieces, one after the other, for each k.
Joined(first, pieces) ==
  LET upto[k \in 0..Len(pieces)] ==
        IF k = 0 THEN first ELSE upto[k - 1] \o pieces[k]
  IN  upto

ArrayLine(request) == <<Star>> \o Decimal(Len(request)) \o CrLf
LengthLine(arg)    == <<Dollar>> \o Decimal(Len(arg)) \o CrLf
PayloadLine(arg)   == arg \o CrLf

\* A request up to its a-th argument, and a script up to its k-th request.
RequestUpTo(request) ==
  Joined(ArrayLine(request),
         [a \in DOMAIN request |->
            LengthLine(request[a]) \o PayloadLine(request[a])])

RequestBytes(request) == RequestUpTo(request)[Len(request)]

WireUpTo(script) ==
  Joined(<<>>, [k \in DOMAIN script |-> RequestBytes(script[k])])

Wire(script) == WireUpTo(script)[Len(script)]

\* The number of bytes up to the end of the k-th request, and up to the end of
\* the a-th argument of the request after it.
EndOfRequest(script, k) == Len(WireUpTo(script)[k])

EndOfArgument(script, k, a) ==
  EndOfRequest(script, k) + Len(RequestUpTo(script[k + 1])[a])

\* The lines of a script: what each is and where it ends.
Line(kind, end) == [kind |-> kind, end |-> end]

Lines(script) ==
  UNION { {Line("array", EndOfArgument(script, k - 1, 0))}
          \cup UNION { { Line("length", EndOfArgument(script, k - 1, a - 1)
                                          + Len(LengthLine(script[k][a]))),
                         Line("payload", EndOfArgument(script, k - 1, a)) }
                       : a \in DOMAIN script[k] }
        : k \in DOMAIN script }

\* The positions between the CR and the LF of a line of one of the kinds.
CrLfCuts(script, kinds) ==
  { line.end - 1 : line \in { l \in Lines(script) : l.kind \in kinds } }
=============================================================================
