--------------------------- MODULE StreamInputMC ----------------------------
(* Chunked bodies for TLC: an empty one, chunks shorter and longer than the *)
(* buffer, and one whose second chunk has no size.                          *)
EXTENDS StreamInput

MCChunkedBodies ==
  { <<LastSize, Trailers>>,
    <<Size(3), Byte(1), Byte(2), Byte(3), Crlf, LastSize, Trailers>>,
    <<Size(1), Byte(1), Crlf, Size(2), Byte(2), Byte(3), Crlf, Size(1), Byte(4), Crlf,
      LastSize, Trailers>>,
    <<Size(2), Byte(1), Byte(2), Crlf, Junk, Byte(3), Crlf, LastSize, Trailers>> }
=============================================================================
