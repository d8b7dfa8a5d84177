\* A buffer of two bytes, lines of up to four with room for three in buf, and
\* servers that answer with no, one or two lines.  The client may wait for
\* ever or end.
SPECIFICATION Spec
CONSTANTS
  RIO_BUFSIZE = 2
  maxlen = 4
  MaxTyped = 2
  LineLen = 2
  MaxReplyLine = 4
  Answers = {0, 1, 2}
  MaxSignals = 1
INVARIANTS TypeOK NoByteLost LinesWhole SentOnce OwnLineOnlyAfterEof AnswersInStep
PROPERTY Prompt
CHECK_DEADLOCK FALSE
