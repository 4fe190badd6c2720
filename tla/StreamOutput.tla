---------------------------- MODULE StreamOutput ----------------------------
(***************************************************************************)
(* The body of an outgoing message: StreamBufOutput of                     *)
(* NisseHTTP/StreamOutput.cpp, over the buffer of a base stream.           *)
(*                                                                         *)
(* A body is either chunked or has a content length.  The bytes a writer   *)
(* gives are numbered 1, 2, ... in the order they are accepted; 0 is the   *)
(* padding that done() sends.  A call of the writer fixes the calls it     *)
(* makes on the base stream (unsent), which the base stream then takes     *)
(* one at a time: nothing else runs in the buffer until the call returns.  *)
(***************************************************************************)
EXTENDS Integers, Sequences, FiniteSets

CONSTANTS
  ChunkBufferSize,  \* chunkBufferSize
  MaxChunk,         \* the largest size outputChunkSize() can print (#FFFF)
  Lengths,          \* content lengths of the bodies that are not chunked
  MaxWrite,         \* bound: bytes of one xsputn()
  MaxBody           \* bound: bytes accepted in all

ASSUME SizesAssumption ==
  /\ ChunkBufferSize \in Nat \ {0}
  /\ MaxChunk \in Nat
  /\ Lengths \subseteq Nat
  /\ MaxWrite \in Nat
  /\ MaxBody \in Nat

VARIABLES
  chunked,      \* StreamBufOutput::chunked
  remaining,    \* StreamBufOutput::remaining
  chunkBuffer,  \* StreamBufOutput::chunkBuffer
  unsent,       \* what the call in progress has still to ask of the base
  phase,        \* "open", "closing" in done(), "closed" after it
  base,         \* the base stream: broken, and dirty when it was not flushed
  reader,       \* the peer that parses the body
  accepted      \* the number of bytes the writer was told are taken

vars == <<chunked, remaining, chunkBuffer, unsent, phase, base, reader, accepted>>

-----------------------------------------------------------------------------
(* What is asked of the base stream: a chunk size line, a byte, the end of *)
(* a chunk, the end of the body, a flush.                                  *)

Size(n)   == [kind |-> "size", n |-> n]
Byte(b)   == [kind |-> "byte", n |-> b]
Crlf      == [kind |-> "crlf", n |-> 0]
LastChunk == [kind |-> "last", n |-> 0]
Flush     == [kind |-> "flush", n |-> 0]

Bytes(s) == [i \in DOMAIN s |-> Byte(s[i])]
Chunk(s) == <<Size(Len(s))>> \o Bytes(s) \o <<Crlf>>

\* The bytes of a call that gives count more of them.
Given(count) == [i \in 1 .. count |-> accepted + i]

Lesser(a, b) == IF a < b THEN a ELSE b

\* The filled part of chunkBuffer.
Buffered == SubSeq(chunkBuffer, 1, ChunkBufferSize - remaining)

-----------------------------------------------------------------------------
(* The peer.  It knows from the header which of the two framings to expect *)
(* and is "bad" as soon as it meets something else, a byte out of order or *)
(* anything behind the end of the body.                                    *)

Expect(r, what) == [r EXCEPT !.expects = what]

ReadByte(r, b) ==
  LET next == [r EXCEPT !.need = @ - 1, !.got = IF b = 0 THEN @ ELSE @ + 1]
  IN  IF b \notin {0, r.got + 1} THEN Expect(r, "bad")
      ELSE IF next.need > 0 THEN next
      ELSE Expect(next, IF r.sized THEN "end" ELSE "crlf")

ReadToken(r, t) ==
  CASE t.kind = "byte" /\ r.expects = "byte" -> ReadByte(r, t.n)
    [] t.kind = "crlf" /\ r.expects = "crlf" -> Expect(r, "size")
    [] t.kind = "last" /\ r.expects = "size" -> Expect(r, "end")
    [] t.kind = "size" /\ r.expects = "size" /\ t.n \in 0 .. MaxChunk ->
         IF t.n = 0 THEN Expect(r, "end")
         ELSE [r EXCEPT !.expects = "byte", !.need = t.n]
    [] OTHER -> Expect(r, "bad")

-----------------------------------------------------------------------------
Fresh(sized, n) ==
  [sized |-> sized, need |-> n, got |-> 0,
   expects |-> IF ~sized THEN "size" ELSE IF n = 0 THEN "end" ELSE "byte"]

(* Definitions whose comment names a change of the code they stand next to *)
(* are that changed code.  Nothing uses them; put in place of the original *)
(* they make a property fail, which shows that it depends on that line.    *)

\* The constructor with chunkBuffer(0), an empty buffer, for chunkBuffer{0}.
InitEmptyBuffer ==
  /\ chunked = FALSE
  /\ remaining \in Lengths
  /\ chunkBuffer = <<>>
  /\ reader = Fresh(TRUE, remaining)
  /\ unsent = <<>>
  /\ phase = "open"
  /\ base = [broken |-> FALSE, dirty |-> FALSE]
  /\ accepted = 0

Init ==
  /\ \/ /\ chunked = TRUE
        /\ remaining = ChunkBufferSize
        /\ chunkBuffer = [i \in 1 .. ChunkBufferSize |-> 0]
        /\ reader = Fresh(FALSE, 0)
     \/ /\ chunked = FALSE
        /\ remaining \in Lengths
        /\ chunkBuffer = <<0>>
        /\ reader = Fresh(TRUE, remaining)
  /\ unsent = <<>>
  /\ phase = "open"
  /\ base = [broken |-> FALSE, dirty |-> FALSE]
  /\ accepted = 0

\* No call is in progress.
Idle == unsent = <<>> /\ phase # "closing"

\* dumpBuffer() without the test of chunkSize.
DumpAlways == (IF chunked THEN Chunk(Buffered) ELSE <<>>) \o <<Flush>>

\* dumpBuffer()
Dump == (IF chunked /\ remaining # ChunkBufferSize THEN Chunk(Buffered) ELSE <<>>)
        \o <<Flush>>

\* sync() and dumpBuffer() without the reset of remaining.
SyncKeepsRemaining ==
  /\ Idle
  /\ unsent' = Dump \o <<Flush>>
  /\ UNCHANGED <<chunked, remaining, chunkBuffer, phase, base, reader, accepted>>

\* sync(): dumpBuffer(), then a flush of its own.
Sync ==
  /\ Idle
  /\ unsent' = Dump \o <<Flush>>
  /\ remaining' = IF chunked THEN ChunkBufferSize ELSE remaining
  /\ UNCHANGED <<chunked, chunkBuffer, phase, base, reader, accepted>>

\* xsputnChunked() when the bytes fit into chunkBuffer; also overflowChunked()
\* with count = 1.
PutBuffered(count) ==
  LET used == ChunkBufferSize - remaining
  IN  /\ Idle
      /\ chunked
      /\ count <= remaining
      /\ chunkBuffer' = [i \in DOMAIN chunkBuffer |->
                           IF i \in used + 1 .. used + count
                           THEN Given(count)[i - used]
                           ELSE chunkBuffer[i]]
      /\ remaining' = remaining - count
      /\ accepted' = accepted + count
      /\ UNCHANGED <<chunked, unsent, phase, base, reader>>

\* xsputnChunked() when they do not: one chunk of what is buffered and of all
\* that is given.
PutChunk(count) ==
  /\ Idle
  /\ chunked
  /\ count > remaining
  /\ unsent' = Chunk(Buffered \o Given(count))
  /\ remaining' = ChunkBufferSize
  /\ accepted' = accepted + count
  /\ UNCHANGED <<chunked, chunkBuffer, phase, base, reader>>

\* xsputnLength() without sync().
PutLengthUnflushed(count) ==
  LET taken == Lesser(count, remaining)
  IN  /\ Idle
      /\ ~chunked
      /\ unsent' = Bytes(Given(taken))
      /\ remaining' = remaining - taken
      /\ accepted' = accepted + taken
      /\ UNCHANGED <<chunked, chunkBuffer, phase, base, reader>>

\* xsputnLength(): the bytes above the content length are refused.  The loop
\* lowers remaining as the base takes bytes; the sync() of a body that is
\* complete is part of the call.
PutLength(count) ==
  LET taken == Lesser(count, remaining)
  IN  /\ Idle
      /\ ~chunked
      /\ unsent' = Bytes(Given(taken))
                     \o (IF taken = remaining THEN <<Flush, Flush>> ELSE <<>>)
      /\ remaining' = remaining - taken
      /\ accepted' = accepted + taken
      /\ UNCHANGED <<chunked, chunkBuffer, phase, base, reader>>

\* overflowLength(): one byte, which the base stream takes or refuses; a refused
\* byte is not repeated.
PutCharLength ==
  /\ Idle
  /\ ~chunked
  /\ remaining > 0
  /\ ~base.broken
  /\ remaining' = remaining - 1
  /\ accepted' = accepted + 1
  /\ reader' = ReadToken(reader, Byte(accepted + 1))
  /\ base' = [base EXCEPT !.dirty = remaining > 1]
  /\ UNCHANGED <<chunked, chunkBuffer, unsent, phase>>

\* done() that leaves chunked set.
DoneChunkedAgain ==
  /\ Idle
  /\ chunked
  /\ unsent' = Dump \o <<LastChunk>>
  /\ remaining' = 0
  /\ phase' = "closing"
  /\ UNCHANGED <<chunked, chunkBuffer, base, reader, accepted>>

\* done(), called by the destructor and open to everyone, of a chunked body.
DoneChunked ==
  /\ Idle
  /\ chunked
  /\ unsent' = Dump \o <<LastChunk>>
  /\ remaining' = 0
  /\ chunked' = FALSE
  /\ phase' = "closing"
  /\ UNCHANGED <<chunkBuffer, base, reader, accepted>>

\* done() of a body with a content length.
DoneLength ==
  /\ Idle
  /\ ~chunked
  /\ phase' = "closing"
  /\ UNCHANGED <<chunked, remaining, chunkBuffer, unsent, base, reader, accepted>>

\* One turn of the loop that fills the body up.  It does not look at what the
\* base stream took.
Fill ==
  LET next == Lesser(Len(chunkBuffer), remaining)
  IN  /\ phase = "closing"
      /\ unsent = <<>>
      /\ remaining > 0
      /\ remaining' = remaining - next
      /\ IF base.broken \/ next = 0
         THEN UNCHANGED <<reader, base>>
         ELSE /\ reader' = ReadToken(reader, Byte(0))
              /\ base' = [base EXCEPT !.dirty = TRUE]
      /\ UNCHANGED <<chunked, chunkBuffer, unsent, phase, accepted>>

\* The flush at the end of done().
FinishDone ==
  /\ phase = "closing"
  /\ unsent = <<>>
  /\ remaining = 0
  /\ phase' = "closed"
  /\ base' = [base EXCEPT !.dirty = @ /\ base.broken]
  /\ UNCHANGED <<chunked, remaining, chunkBuffer, unsent, reader, accepted>>

-----------------------------------------------------------------------------
(* The base stream.  sputn() may take less than it is given, which the     *)
(* loops of sendAllData() and xsputnLength() repeat: it takes bytes one by *)
(* one here.  When its connection fails it takes nothing any more.         *)

Take ==
  LET t == Head(unsent)
  IN  /\ unsent # <<>>
      /\ ~base.broken
      /\ unsent' = Tail(unsent)
      /\ IF t.kind = "flush"
         THEN base' = [base EXCEPT !.dirty = FALSE] /\ UNCHANGED reader
         ELSE /\ base' = [base EXCEPT !.dirty = TRUE]
              /\ reader' = ReadToken(reader, t)
      /\ UNCHANGED <<chunked, remaining, chunkBuffer, phase, accepted>>

\* A broken base stream: the result of a flush, and of the sputc() that puts
\* a digit of a size, is not looked at; every other loop goes on forever.
Drop ==
  /\ unsent # <<>>
  /\ base.broken
  /\ Head(unsent).kind \in {"flush", "size"}
  /\ unsent' = Tail(unsent)
  /\ UNCHANGED <<chunked, remaining, chunkBuffer, phase, base, reader, accepted>>

Break ==
  /\ ~base.broken
  /\ base' = [base EXCEPT !.broken = TRUE]
  /\ UNCHANGED <<chunked, remaining, chunkBuffer, unsent, phase, reader, accepted>>

Put == \E count \in 1 .. Lesser(MaxWrite, MaxBody - accepted) :
         PutBuffered(count) \/ PutChunk(count) \/ PutLength(count)

PutChar == accepted < MaxBody /\ PutCharLength

Done == DoneChunked \/ DoneLength

Next ==
  \/ Put
  \/ PutChar
  \/ Sync
  \/ Done
  \/ Fill
  \/ FinishDone
  \/ Take
  \/ Drop
  \/ Break

\* A call that was begun goes on, and the destructor calls done() in the end.
Fairness ==
  /\ WF_vars(Take)
  /\ WF_vars(Fill)
  /\ WF_vars(FinishDone)
  /\ WF_vars(Drop)
  /\ WF_vars(phase = "open" /\ Done)

Spec == Init /\ [][Next]_vars /\ Fairness

-----------------------------------------------------------------------------
\* Every variable has its type; what remains is bounded by the buffer of a
\* chunked body (StreamBufOutput's fields).
TypeOK ==
  /\ chunked \in BOOLEAN
  /\ remaining \in Nat
  /\ chunked => remaining <= ChunkBufferSize
  /\ chunkBuffer \in Seq(0 .. MaxBody)
  /\ chunked => Len(chunkBuffer) = ChunkBufferSize
  /\ \A i \in DOMAIN unsent :
       unsent[i] \in [kind : {"size", "byte", "crlf", "last", "flush"}, n : Nat]
  /\ phase \in {"open", "closing", "closed"}
  /\ base \in [broken : BOOLEAN, dirty : BOOLEAN]
  /\ reader \in [sized : BOOLEAN, need : Nat, got : 0 .. MaxBody,
                 expects : {"size", "byte", "crlf", "end", "bad"}]
  /\ accepted \in 0 .. MaxBody

\* Whatever a writer does, in whatever pieces, and even when the base stream
\* fails between two of them, the peer never meets a size it cannot read, a
\* byte out of order, or a byte behind the end of the body: the next message on
\* the connection starts where the peer looks for it (xsputnChunked(),
\* dumpBuffer(), done(), also called twice).
WellFramed == reader.expects # "bad"

\* A byte the writer was told is taken is with the peer, in a call in progress
\* or in chunkBuffer, and in one of them only (xsputnChunked() buffers or sends,
\* dumpBuffer() empties the buffer).
NothingLost ==
  base.broken \/
  accepted =
    reader.got
      + Cardinality({i \in DOMAIN unsent : unsent[i].kind = "byte"})
      + (IF chunked THEN ChunkBufferSize - remaining ELSE 0)

\* The peer sees the end of a body only when it has all of it: no chunk is empty
\* before done(), and done() sends what is buffered before the last chunk.
EndMeansAll ==
  reader.expects = "end" =>
    reader.got = accepted /\ (reader.sized \/ ~chunked)

\* A body whose end was sent does not stay in the buffer of the base stream once
\* the call that completed it has returned: the peer can answer even when the
\* writer keeps its stream (xsputnLength(), overflowLength(), done()).
CompleteIsFlushed ==
  Idle /\ reader.expects = "end" => ~base.dirty \/ base.broken

\* done(), and so the destructor, returns unless the base stream fails: the loop
\* that fills up a body shorter than its content length makes progress.
DoneReturns == (phase = "closing") ~> (phase = "closed" \/ base.broken)

\* The comment of outputChunkSize(): a size "will never" be larger than #FFFF.
ChunkSizesFit ==
  \A i \in DOMAIN unsent : unsent[i].kind = "size" => unsent[i].n <= MaxChunk

=============================================================================
