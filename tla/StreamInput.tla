---------------------------- MODULE StreamInput -----------------------------
(***************************************************************************)
(* The body of an incoming message: StreamBufInput of                      *)
(* NisseHTTP/StreamInput.cpp, over the buffer of a base stream, as         *)
(* Request::buildStream() sets it up.                                      *)
(*                                                                         *)
(* The bytes of a body are numbered 1, 2, ...  The base stream holds the   *)
(* rest of the body and what the connection carries behind it; it delivers *)
(* bytes in pieces of any size, and nothing more when the peer has closed. *)
(* One turn of a loop of the code is one step here.                        *)
(***************************************************************************)
EXTENDS Integers, Sequences, FiniteSets

CONSTANTS
  ChunkBufferSize,  \* chunkBufferSize
  Lengths,          \* content lengths
  ChunkedBodies,    \* chunked bodies as they are sent, some of them malformed
  High,             \* positions of the bytes 16#FF#
  MaxRead,          \* bound: bytes of one xsgetn() or seekoff()
  MayOverRead       \* whether a reader asks for more than the body has

ASSUME SizesAssumption ==
  /\ ChunkBufferSize \in Nat \ {0}
  /\ Lengths \subseteq Nat
  /\ MaxRead \in Nat
  /\ MayOverRead \in BOOLEAN

VARIABLES
  body,       \* remaining, chunked, firstChunk, and the base stream
  area,       \* the bytes from eback() to egptr()
  gptr,       \* how many of them are read: gptr() - eback()
  processed,  \* StreamBufInput::processed
  capacity,   \* chunkBuffer.size()
  call,       \* the loop in progress, and how much it still wants
  eof,        \* the reader was told that the body is at its end
  phase       \* "open", "drain" in the destructor, "gone"

vars == <<body, area, gptr, processed, capacity, call, eof, phase>>

-----------------------------------------------------------------------------
(* What the base stream holds: a chunk size line, bytes of the body, the   *)
(* end of a chunk, the line of the chunk of size 0, the trailers with the  *)
(* empty line, a line that is no chunk size; and the next message.         *)

Size(n)  == [kind |-> "size", n |-> n]
Byte(b)  == [kind |-> "byte", n |-> b]
Crlf     == [kind |-> "crlf", n |-> 0]
LastSize == [kind |-> "last", n |-> 0]
Trailers == [kind |-> "trailers", n |-> 0]
Junk     == [kind |-> "junk", n |-> 0]
Other(i) == [kind |-> "other", n |-> i]

\* The bytes of the next message, of which three are enough to see some taken.
Behind == [i \in 1 .. 3 |-> Other(i)]

Starts(s, kind) == s # <<>> /\ Head(s).kind = kind
Without(s, n)   == SubSeq(s, n + 1, Len(s))
Lesser(a, b)    == IF a < b THEN a ELSE b

\* The bytes of the body that the base stream still has.
BytesIn(s) == Cardinality({i \in DOMAIN s : s[i].kind = "byte"})

-----------------------------------------------------------------------------
(* What a sender sends, which may be malformed where a size should be.     *)

Token == [kind : {"size", "byte", "crlf", "last", "trailers", "junk", "other"}, n : Nat]

\* The bytes in s are those behind number p, up to number q, in their order.
Numbered(s, p, q) ==
  LET places == {i \in DOMAIN s : s[i].kind = "byte"}
  IN  /\ {s[i].n : i \in places} = p + 1 .. q
      /\ \A i, j \in places : i < j => s[i].n < s[j].n

\* A size stands in front of its bytes and the end of the chunk; behind that
\* stands a size or what takes its place.
Chunks(s) ==
  \A i, j \in DOMAIN s :
    /\ s[i].kind = "size" => s[i].n > 0
    /\ s[i].kind = "size" /\ j \in i + 1 .. i + s[i].n => s[j].kind = "byte"
    /\ s[i].kind = "size" /\ j = i + s[i].n + 1 => s[j].kind = "crlf"
    /\ s[i].kind = "crlf" /\ j = i + 1 => s[j].kind \in {"size", "last", "junk"}
    /\ s[i].kind = "last" /\ j = i + 1 => s[j].kind = "trailers"

\* No chunk is cut off by the end of the body, which is at e.
Closed(s, e) ==
  \A i \in DOMAIN s :
    /\ s[i].kind = "size" => i + s[i].n < e
    /\ s[i].kind = "crlf" => i < e
    /\ s[i].kind = "last" => i + 1 = e

ASSUME BodiesAssumption ==
  \A wire \in ChunkedBodies :
    /\ wire \in Seq(Token) /\ wire # <<>>
    /\ \A cut \in 0 .. Len(wire) :
         \E q \in 0 .. Len(wire) : Numbered(SubSeq(wire, 1, cut), 0, q)
    /\ wire[1].kind \in {"size", "last", "junk"}
    /\ Chunks(wire) /\ Closed(wire, Len(wire))

-----------------------------------------------------------------------------
None == [op |-> "none", want |-> 0]

Base(remaining, chunked, whole, input) ==
  [remaining |-> remaining, chunked |-> chunked, firstChunk |-> chunked,
   whole |-> whole, failed |-> FALSE, input |-> input]

\* The base stream holds a body and the next message, or a part of a body whose
\* sender went away.
Init ==
  /\ \/ \E n \in Lengths :
          LET wire == [i \in 1 .. n |-> Byte(i)]
          IN  \/ body = Base(n, FALSE, TRUE, wire \o Behind)
              \/ \E cut \in 0 .. n : body = Base(n, FALSE, FALSE, SubSeq(wire, 1, cut))
     \/ \E wire \in ChunkedBodies :
          \/ body = Base(0, TRUE, \A i \in DOMAIN wire : wire[i].kind # "junk", wire \o Behind)
          \/ \E cut \in 0 .. Len(wire) : body = Base(0, TRUE, FALSE, SubSeq(wire, 1, cut))
  /\ area = <<>>
  /\ gptr = 0
  /\ processed = 0
  /\ capacity = ChunkBufferSize
  /\ call = None
  /\ eof = FALSE
  /\ phase = "open"

Avail == Len(area) - gptr

(* Definitions whose comment names a change of the code they stand next to *)
(* are that changed code.  Nothing uses them; put in place of the original *)
(* they make a property fail, which shows that it depends on that line.    *)

\* getNextChunk() with a callback that does not read the trailers.
NextChunkNoTrailers(b) ==
  LET rest == IF b.firstChunk THEN b.input ELSE Without(b.input, 1)
  IN  IF Starts(rest, "size")
      THEN [b EXCEPT !.firstChunk = FALSE, !.remaining = Head(rest).n,
                     !.input = Without(rest, 1)]
      ELSE [b EXCEPT !.firstChunk = FALSE, !.chunked = FALSE,
                     !.input = Without(rest, 1)]

\* getNextChunk(), and the callback of Request::buildStream() that it calls:
\* at the chunk of size 0 the callback reads the trailers from the base stream.
\* The check of the end of a chunk takes two characters also when they are not
\* the end of a chunk.  A base stream at its end looks like the size 0.
NextChunk(b) ==
  LET open   == [b EXCEPT !.firstChunk = FALSE]
      rest   == IF b.firstChunk THEN b.input ELSE Without(b.input, 1)
      Bad(s) == [open EXCEPT !.chunked = FALSE, !.failed = TRUE, !.input = s]
  IN  CASE ~b.firstChunk /\ ~Starts(b.input, "crlf") -> Bad(Without(b.input, 2))
        [] (b.firstChunk \/ Starts(b.input, "crlf")) /\ Starts(rest, "size") ->
             [open EXCEPT !.remaining = Head(rest).n, !.input = Without(rest, 1)]
        [] (b.firstChunk \/ Starts(b.input, "crlf")) /\ Starts(rest, "junk") ->
             Bad(Without(rest, 1))
        [] OTHER -> [open EXCEPT !.chunked = FALSE, !.input = Without(rest, 2)]

\* How much sgetn() may return of n > 0 bytes.
Pieces(b, n) == IF b.input = <<>> THEN {0} ELSE 1 .. Lesser(n, Len(b.input))

\* What sgetn() leaves and what it returns.
Taken(b, k) == [b EXCEPT !.remaining = @ - k, !.input = Without(@, k)]
Got(b, k)   == [i \in 1 .. k |-> b.input[i].n]

\* underflow() gives up, or shows the k bytes it got.
GiveUp(b, old) ==
  /\ body' = b
  /\ eof' = TRUE
  /\ area' = old
  /\ UNCHANGED <<gptr, processed>>

Show(b, k) ==
  /\ body' = Taken(b, k)
  /\ area' = Got(b, k)
  /\ gptr' = 0

\* underflow() that forgets what the buffer held.
RefillForgets(b, old) ==
  IF b.remaining = 0 \/ b.input = <<>>
  THEN GiveUp(b, old)
  ELSE \E k \in Pieces(b, Lesser(b.remaining, capacity)) :
         Show(b, k) /\ eof' = FALSE /\ UNCHANGED processed

\* underflow() without the test of got.
RefillUntested(b, old) ==
  IF b.remaining = 0
  THEN GiveUp(b, old)
  ELSE \E k \in Pieces(b, Lesser(b.remaining, capacity)) :
         Show(b, k) /\ eof' = FALSE /\ processed' = processed + Len(old)

\* underflow() from the test of what remains: old is what the buffer held.  A byte
\* 16#FF# in front comes back as the end of the file: chunkBuffer[0] is a char.
Refill(b, old) ==
  IF b.remaining = 0
  THEN GiveUp(b, old)
  ELSE \E k \in Pieces(b, Lesser(b.remaining, capacity)) :
         IF k = 0
         THEN GiveUp(b, old)
         ELSE /\ Show(b, k)
              /\ processed' = processed + Len(old)
              /\ eof' = (area'[1] \in High)

\* underflow() without the test of chunked before getNextChunk().
UnderflowAnyBody(old) ==
  Refill(IF body.remaining = 0 THEN NextChunk(body) ELSE body, old)

Underflow(old) ==
  Refill(IF body.remaining = 0 /\ body.chunked THEN NextChunk(body) ELSE body, old)

Ready == phase = "open" /\ call = None /\ ~eof

\* A reader that asks for n bytes; a body that can tell its end may be asked
\* for more than it has.
Asks(n) == MayOverRead \/ body.chunked \/ n <= Avail + body.remaining

-----------------------------------------------------------------------------
\* One byte out of the buffer (sbumpc()).
GetByte ==
  /\ Ready
  /\ Avail > 0
  /\ gptr' = gptr + 1
  /\ UNCHANGED <<body, area, processed, capacity, call, eof, phase>>

\* A byte is asked for and the buffer has none.
FillBuffer ==
  /\ Ready
  /\ Avail = 0
  /\ Underflow(area)
  /\ UNCHANGED <<capacity, call, phase>>

\* The part of xsgetn() and of a forward seekoff() that uses up the buffer.
Begin(op, n, within) ==
  /\ Ready
  /\ Asks(n)
  /\ IF within
     THEN /\ gptr' = gptr + n
          /\ UNCHANGED <<area, processed, call>>
     ELSE /\ processed' = processed + Len(area)
          /\ area' = <<>>
          /\ gptr' = 0
          /\ call' = IF n = Avail THEN None ELSE [op |-> op, want |-> n - Avail]
  /\ UNCHANGED <<body, capacity, eof, phase>>

Xsgetn(n)      == Begin("xsgetn", n, n < Avail)
SeekForward(n) == Begin("seek", n, n < Avail)

\* A backward seekoff() stays inside of the buffer.
SeekBack(n) ==
  /\ Ready
  /\ gptr > 0
  /\ gptr' = IF n < gptr THEN gptr - n ELSE 0
  /\ UNCHANGED <<body, area, processed, capacity, call, eof, phase>>

\* One turn of the loop of xsgetn().  A result that is too short tells the
\* reader that the body is at its end.
XsgetnStep ==
  /\ call.op = "xsgetn"
  /\ LET b == IF body.remaining = 0 THEN NextChunk(body) ELSE body
     IN  IF b.remaining = 0
         THEN body' = b /\ eof' = TRUE /\ call' = None /\ UNCHANGED processed
         ELSE \E k \in Pieces(b, Lesser(b.remaining, call.want)) :
                /\ body' = Taken(b, k)
                /\ processed' = processed + k
                /\ eof' = (k = 0)
                /\ call' = IF k = 0 \/ k = call.want THEN None
                           ELSE [call EXCEPT !.want = @ - k]
  /\ UNCHANGED <<area, gptr, capacity, phase>>

\* One turn of the loop of seekoff(), which moves the base stream; that fails
\* when it would move past its end.
SeekStep ==
  /\ call.op = "seek"
  /\ LET b == IF body.remaining = 0 THEN NextChunk(body) ELSE body
         n == Lesser(b.remaining, call.want)
     IN  IF b.remaining = 0 \/ n > Len(b.input)
         THEN body' = b /\ call' = None /\ UNCHANGED processed
         ELSE /\ body' = Taken(b, n)
              /\ processed' = processed + n
              /\ call' = IF n = call.want THEN None ELSE [call EXCEPT !.want = @ - n]
  /\ UNCHANGED <<area, gptr, capacity, eof, phase>>

\* preloadStreamIntoBuffer(true): the buffer grows so that the rest of the chunk
\* fits behind what it holds.
Preload ==
  /\ phase = "open"
  /\ call = None
  /\ body.chunked \/ body.remaining > 0
  /\ LET b == IF body.remaining = 0 THEN NextChunk(body) ELSE body
     IN  /\ body' = b
         /\ capacity' = IF b.remaining > capacity - Len(area)
                        THEN Len(area) + b.remaining
                        ELSE capacity
         /\ call' = [op |-> "preload", want |-> b.remaining]
  /\ UNCHANGED <<area, gptr, processed, eof, phase>>

PreloadStep ==
  /\ call.op = "preload"
  /\ IF call.want = 0
     THEN call' = None /\ UNCHANGED <<body, area>>
     ELSE \E k \in Pieces(body, call.want) :
            /\ body' = Taken(body, k)
            /\ area' = area \o Got(body, k)
            /\ call' = IF k = 0 THEN None ELSE [call EXCEPT !.want = @ - k]
  /\ UNCHANGED <<gptr, processed, capacity, eof, phase>>

\* ~StreamBufInput()
Destroy ==
  /\ phase = "open"
  /\ call = None
  /\ phase' = "drain"
  /\ area' = <<>>
  /\ gptr' = 0
  /\ eof' = FALSE
  /\ UNCHANGED <<body, processed, capacity, call>>

\* One turn of its loop, which empties the buffer and fills it again.
Drain ==
  /\ phase = "drain"
  /\ Underflow(<<>>)
  /\ phase' = IF eof' THEN "gone" ELSE "drain"
  /\ UNCHANGED <<capacity, call>>

Next ==
  \/ GetByte
  \/ FillBuffer
  \/ \E n \in 1 .. MaxRead : Xsgetn(n)
  \/ \E n \in 1 .. MaxRead : SeekForward(n)
  \/ \E n \in 1 .. MaxRead : SeekBack(n)
  \/ XsgetnStep
  \/ SeekStep
  \/ Preload
  \/ PreloadStep
  \/ Destroy
  \/ Drain

\* A call that was begun goes on; the base stream delivers or ends.
Fairness ==
  /\ WF_vars(XsgetnStep)
  /\ WF_vars(SeekStep)
  /\ WF_vars(PreloadStep)
  /\ WF_vars(Drain)

Spec == Init /\ [][Next]_vars /\ Fairness

-----------------------------------------------------------------------------
\* Every variable has its type (StreamBufInput's fields).
TypeOK ==
  /\ body.remaining \in Nat
  /\ body.chunked \in BOOLEAN /\ body.firstChunk \in BOOLEAN
  /\ body.whole \in BOOLEAN /\ body.failed \in BOOLEAN
  /\ area \in Seq(Nat)
  /\ gptr \in 0 .. Len(area)
  /\ processed \in Nat
  /\ capacity \in Nat
  /\ call \in [op : {"none", "xsgetn", "seek", "preload"}, want : Nat]
  /\ eof \in BOOLEAN
  /\ phase \in {"open", "drain", "gone"}

\* currentPosition() is the truth in every mix of reads, seeks, preloads and
\* pieces: the buffer holds the bytes behind `processed`, and the base stream
\* goes on with the byte behind the buffer.  No byte of a body is skipped,
\* repeated or counted twice (underflow(), xsgetn(), seekoff()).
PositionTrue ==
  phase = "open" =>
    /\ \A i \in DOMAIN area : area[i] = processed + i
    /\ {body.input[i].n : i \in {j \in DOMAIN body.input : body.input[j].kind = "byte"}}
         = processed + Len(area) + 1 .. processed + Len(area) + BytesIn(body.input)

\* `remaining` is what the base stream still has of the body or of the chunk: the
\* next read ends where the chunk ends (getNextChunk(), preloadStreamIntoBuffer()).
RemainingTrue ==
  body.whole =>
    body.remaining =
      Cardinality({i \in DOMAIN body.input : \A j \in 1 .. i : body.input[j].kind = "byte"})

\* "Should not be able to read this" (test/StreamInputTest.cpp): the reader of a
\* body does not take a byte of the message behind it from the base stream.
NextMessageWhole ==
  body.whole => /\ Len(body.input) >= Len(Behind)
                /\ Without(body.input, Len(body.input) - Len(Behind)) = Behind

\* Request.h: the body "will auto eof() when no more data is available", and
\* after eof() "trailers have been read".  The end a reader is told of, and with
\* it the end of the destructor's loop, is the end of the body, trailers included:
\* the base stream is where the next message starts.
EofMeansEnd == eof /\ body.whole => body.input = Behind

\* preloadStreamIntoBuffer() writes inside of chunkBuffer.
BufferFits ==
  Len(area) + (IF call.op = "preload" THEN call.want ELSE 0) <= capacity

\* What the buffer, `processed`, `remaining` and the base stream say of the body
\* agrees after every turn of every read, seek and preload: a reader that goes on
\* gets the byte it expects, whatever pieces the base stream delivered before.
BookkeepingTrue == PositionTrue /\ RemainingTrue /\ BufferFits

\* The destructor returns, of malformed and cut off bodies too: each turn of its
\* loop takes something or sees an end.
DrainEnds == (phase = "drain") ~> (phase = "gone")

=============================================================================
