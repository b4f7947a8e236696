------------------------------- MODULE Parser -------------------------------
(***************************************************************************)
(* How a connection cuts the bytes it reads into messages: Parser.cpp and  *)
(* the reads of SocketConnection.cpp on an acceptor, whose first read      *)
(* looks for the session.  Reads split the stream anywhere.                *)
(*                                                                         *)
(* The stream is made of pieces, sound messages and noise, chosen at the   *)
(* start; `handed' is what the connection passes to Session::next.         *)
(* Positions count from 1, and 0 is std::string::npos.                     *)
(***************************************************************************)
EXTENDS Integers, Sequences, FiniteSets, SequencesExt

CONSTANTS
  Streams,  \* what a peer may send: sequences of pieces
  MaxChunk, \* the size of SocketConnection::m_buffer
  MaxSize   \* Parser::MAX_MESSAGE_SIZE

\* A piece is [sound, text]: a message as FIX wants it, or anything else.
ASSUME StreamsAssumption ==
  /\ MaxChunk \in Nat \ {0} /\ MaxSize \in Nat
  /\ \A s \in Streams : \A i \in DOMAIN s : s[i].sound \in BOOLEAN /\ s[i].text \in Seq(0..255)

VARIABLES
  stream,     \* the pieces the peer sends
  read,       \* how many of their bytes were read
  buffer,     \* m_buffer
  lengthFrom, \* m_lengthSearchFrom, counted from 1
  conn,       \* "new", "found" its session, "bound" since the next read, "dropped", "refused"
  busy,       \* readMessages is in its loop
  message,    \* its variable `message'
  handed,     \* what was passed to Session::next
  erased,     \* the value of `read' when a length that is no number last cleared the buffer
  mark        \* the length of `handed' then

vars == <<stream, read, buffer, lengthFrom, conn, busy, message, handed, erased, mark>>

Text == FlattenSeq([i \in DOMAIN stream |-> stream[i].text])

Init ==
  /\ stream \in Streams /\ read = 0 /\ buffer = <<>> /\ lengthFrom = 1
  /\ conn = "new" /\ busy = FALSE /\ message = <<>> /\ handed = <<>>
  /\ erased = 0 /\ mark = 0

-----------------------------------------------------------------------------
(* Parser *)

\* std::string::find.
Find(s, w, from) ==
  LET at == {i \in from..(Len(s) - Len(w) + 1) : SubSeq(s, i, i + Len(w) - 1) = w}
  IN IF at = {} THEN 0 ELSE Min(at)
From(s, i) == SubSeq(s, i, Len(s))

\* Bytes are ASCII codes.
Soh == 1
Eq == 61
Digit(n) == 48 + n

BeginString == <<Digit(8), Eq>>
BodyLength == <<Soh, Digit(9), Eq>>
CheckSum == <<Soh, Digit(1), Digit(0), Eq>>

\* IntConvertor::convert of a field's value; -1 where it throws, or is negative.
Convert(s) ==
  IF s = <<>> \/ \E i \in DOMAIN s : s[i] \notin Digit(0)..Digit(9) THEN -1
  ELSE FoldLeft(LAMBDA n, d : 10 * n + (d - Digit(0)), 0, s)

\* extractLength: the value of the first BodyLength and the position after it.
NoLength == [found |-> FALSE, length |-> 0, pos |-> 0]
ExtractLength(s, from) ==
  LET start == Find(s, BodyLength, from)
      end == Find(s, <<Soh>>, start + 3)
  IN IF start = 0 \/ end = 0 THEN NoLength
     ELSE [found |-> TRUE, length |-> Convert(SubSeq(s, start + 3, end - 1)), pos |-> end + 1]

\* The end of the message at the front of s, 0 while it has not arrived.
EndOfMessage(s, len) ==
  LET pos == len.pos + len.length
      sum == Find(s, CheckSum, pos - 1)
  IN IF Len(s) < pos - 1 \/ sum = 0 THEN 0 ELSE Find(s, <<Soh>>, sum + 4)

\* readFixMessage: what it returns ("none", "message" or "error"), its argument,
\* and what is left in the buffer.
Result(ret, str, buf, from) == [ret |-> ret, str |-> str, buffer |-> buf, from |-> from]

\* Where the next search for the length starts.
ResumeAtEnd(s, from) == \* mutant: a length that has begun to arrive is passed over
  IF Len(s) > 2 THEN Len(s) - 1 ELSE 1
Resume(s, from) ==
  LET header == Find(s, BodyLength, from)
  IN IF header # 0 THEN header ELSE IF Len(s) > 2 THEN Len(s) - 1 ELSE 1

DiscardNoiseNot(s) == s      \* mutant: noise stays in the buffer
DiscardNoise(s) == From(s, Len(s))

ReadFixMessage(s, from) ==
  LET begin == Find(s, BeginString, 1)
      front == From(s, begin)
      start == IF begin > 1 THEN 1 ELSE from
      len == ExtractLength(front, start)
      end == EndOfMessage(front, len)
  IN CASE Len(s) < 2 -> Result("none", message, s, from)
       [] Len(s) >= 2 /\ begin = 0 -> Result("none", message, DiscardNoise(s), 1)
       [] begin # 0 /\ ~len.found -> Result("none", message, front, Resume(front, start))
       [] begin # 0 /\ len.found /\ len.length < 0 -> Result("error", message, <<>>, 1)
       [] begin # 0 /\ len.found /\ len.length >= 0 /\ end = 0 -> Result("none", message, front, 1)
       [] OTHER -> Result("message", SubSeq(front, 1, end), From(front, end + 1), 1)

-----------------------------------------------------------------------------
(* SocketConnection *)

Keep(r) == buffer' = r.buffer /\ lengthFrom' = r.from
Cleared(r, at) ==
  IF r.ret = "error" THEN erased' = at /\ mark' = Len(handed') ELSE UNCHANGED <<erased, mark>>

\* readFromSocket: some of what the peer sent; addToStream throws at the limit,
\* which costs the connection.
ReadFromSocket(n) ==
  /\ conn \in {"new", "found", "bound"} /\ ~busy
  /\ n \in 1..MaxChunk /\ read + n <= Len(Text) /\ read' = read + n

Refused(n) ==
  /\ ReadFromSocket(n) /\ Len(buffer) + n > MaxSize
  /\ conn' = "refused"
  /\ UNCHANGED <<stream, buffer, lengthFrom, busy, message, handed, erased, mark>>

\* The first reads, until a message names the session.  What follows that message
\* in the same read stays in the buffer until the next read.  A message with a
\* broken length is no message: no session is found.
FirstRead(n) ==
  /\ conn = "new" /\ ReadFromSocket(n) /\ Len(buffer) + n <= MaxSize
  /\ LET r == ReadFixMessage(buffer \o SubSeq(Text, read + 1, read + n), lengthFrom)
     IN /\ Keep(r)
        /\ conn' = CASE r.ret = "none" -> "new" [] r.ret = "message" -> "found"
                     [] r.ret = "error" -> "dropped"
        /\ handed' = IF r.ret = "message" THEN Append(handed, r.str) ELSE handed
        /\ Cleared(r, read + n)
  /\ UNCHANGED <<stream, busy, message>>

\* A read of a connection with a session, and the loop of readMessages over what is
\* complete.
Read(n) ==
  /\ conn \in {"found", "bound"} /\ ReadFromSocket(n) /\ Len(buffer) + n <= MaxSize
  /\ buffer' = buffer \o SubSeq(Text, read + 1, read + n)
  /\ conn' = "bound" /\ busy' = TRUE /\ message' = <<>>
  /\ UNCHANGED <<stream, lengthFrom, handed, erased, mark>>

\* readMessage and Session::next.  After a broken length readMessage returns true
\* without having changed `message'.
ReadMessage ==
  /\ busy
  /\ LET r == ReadFixMessage(buffer, lengthFrom)
     IN /\ Keep(r)
        /\ busy' = (r.ret # "none") /\ message' = r.str
        /\ handed' = IF r.ret = "none" THEN handed ELSE Append(handed, r.str)
        /\ Cleared(r, read)
  /\ UNCHANGED <<stream, read, conn>>

Next == ReadMessage \/ \E n \in 1..MaxChunk : Refused(n) \/ FirstRead(n) \/ Read(n)

Spec == Init /\ [][Next]_vars

-----------------------------------------------------------------------------
(* Properties *)

\* The bytes before piece i, and the sound messages that lie between two places.
Before(i) == Len(FlattenSeq([k \in 1..(i - 1) |-> stream[k].text]))
SoundBetween(from, to) ==
  LET in == {i \in DOMAIN stream :
               stream[i].sound /\ Before(i) >= from /\ Before(i) + Len(stream[i].text) <= to}
  IN [k \in 1..Cardinality(in) |->
        stream[CHOOSE i \in in : Cardinality({j \in in : j <= i}) = k].text]

\* However the stream is split over reads, what the session is handed is exactly
\* the sound messages that have arrived, whole, in order and at once: noise between
\* them, a header cut in two and a body that looks like a header lose none of them
\* (readFixMessage's DiscardNoise and m_lengthSearchFrom).  After a length that is no
\* number this holds again from the next read on.
Framed ==
  /\ (conn = "bound" /\ ~busy) =>
       SubSeq(handed, mark + 1, Len(handed)) = SoundBetween(erased, read)
  /\ conn = "found" => handed = SubSeq(SoundBetween(0, read), 1, 1)

\* A connection is refused for the size of its buffer only when a message is too
\* large: messages that fit and any amount of noise between them never are, since
\* nothing but the message that is arriving stays in the buffer.
RefusedForSize ==
  conn = "refused" =>
    \E i \in DOMAIN stream :
      Find(stream[i].text, BeginString, 1) = 1 /\ Len(stream[i].text) > MaxSize - MaxChunk

=============================================================================
