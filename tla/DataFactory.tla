---------------------------- MODULE DataFactory ----------------------------
(***************************************************************************)
(* datafactory.h: capsules, the file source read by the transmitting end   *)
(* and the buffer queue a DataFactory keeps.  The operators are the        *)
(* methods of the class, as functions from the factory's old value to its  *)
(* new one; the session state machine (module Session) calls them.         *)
(*                                                                         *)
(* File contents are abstract: a chunk of the file is its byte offset and  *)
(* its length.  A queue (threadsafe_queue, used by one thread here) is a   *)
(* sequence.                                                               *)
(***************************************************************************)
EXTENDS Integers, Sequences, FiniteSets

CONSTANTS
  CHUNK,         \* bytes of a full capsule body, header included (49152)
  HEADER_SPACE,  \* sizeof(capsuleHdr), at the start of every body (14)
  IntMax,        \* largest value of an int; curSize is an int
  CapMod         \* number of values of the 16-bit header field capid

ASSUME ChunkAssumption ==
  CHUNK \in Nat /\ HEADER_SPACE \in Nat /\ HEADER_SPACE < CHUNK

ASSUME WidthAssumption ==
  IntMax \in Nat /\ CapMod \in Nat /\ CHUNK <= IntMax /\ CapMod > 0

(* A source is read until curSize wraps, at 2 GB; 43703 capsules are fewer *)
(* than the 65536 values of capid.                                         *)
ASSUME KeyAssumption == IntMax \div (CHUNK - HEADER_SPACE) + 1 < CapMod

Chunk == [off : Nat, len : Nat]
NoData == [off |-> 0, len |-> 0]

(* Mutant: curSize is a 64-bit counter. *)
Int64(n) == n

(* Two's complement wrap of an int sum. *)
Int32(n) ==
  ((n + IntMax + 1) % (2 * (IntMax + 1))) - (IntMax + 1)

(* The fields of a transmitting DataFactory, and of its open DataSource    *)
(* (pos is the stream's read position).                                    *)
NewTxFactory ==
  [buffer |-> <<>>, fin |-> FALSE, curSize |-> 0, chunkSize |-> CHUNK, pos |-> 0]

(* fileSize <= (size_t)curSize: a negative curSize converts to a value     *)
(* larger than any file.                                                   *)
SourceExhausted(f, fileSize) == f.curSize < 0 \/ fileSize <= f.curSize

(* The amount fs.read delivers when it is asked for want bytes. *)
readStream(f, fileSize, want) ==
  IF fileSize - f.pos < want THEN fileSize - f.pos ELSE want

(* Mutant: a full capsule is taken for the last one. *)
InputFromSourceEager(f, fileSize) ==
  LET want == f.chunkSize - HEADER_SPACE
      readSize == readStream(f, fileSize, want)
  IN  IF SourceExhausted(f, fileSize)
        THEN [f EXCEPT !.fin = TRUE]
        ELSE [f EXCEPT !.fin = @ \/ readSize <= want,
                       !.buffer = Append(@, [off |-> f.pos, len |-> readSize]),
                       !.pos = @ + readSize,
                       !.curSize = Int32(@ + readSize)]

(* _inputFromSource: read one capsule's worth of the file into the buffer, *)
(* or only set fin when everything has been read already.  A short read    *)
(* also sets fin and shrinks chunkSize.                                    *)
InputFromSource(f, fileSize) ==
  LET want == f.chunkSize - HEADER_SPACE
      readSize == readStream(f, fileSize, want)
      short == readSize < want
  IN  IF SourceExhausted(f, fileSize)
        THEN [f EXCEPT !.fin = TRUE]
        ELSE [f EXCEPT !.fin = @ \/ short,
                       !.chunkSize = IF short THEN readSize + HEADER_SPACE ELSE @,
                       !.buffer = Append(@, [off |-> f.pos, len |-> readSize]),
                       !.pos = @ + readSize,
                       !.curSize = Int32(@ + readSize)]

(* A receiving DataFactory: the queue owns the chunks recvfrom fills. *)
NewRxFactory == [buffer |-> <<>>, fin |-> FALSE]

(* Mutant: the window is written in order of arrival (the order in which   *)
(* its chunks were allocated) instead of in key order.                     *)
InArrivalOrder(W) ==
  [i \in 1..Cardinality(W) |->
     CHOOSE b \in W : Cardinality({x \in W : x.hid <= b.hid}) = i]

(* The order in which a std::map<uint16_t, memBuff *> is walked: the i-th  *)
(* buffer is the one with exactly i keys at or below its own.              *)
Rank(W, b) == Cardinality({x \in W : x.cap.capid <= b.cap.capid})

InCapidOrder(W) ==
  [i \in 1..Cardinality(W) |-> CHOOSE b \in W : Rank(W, b) = i]

(* PresentationProcessor::process at state done: write2Souce for every     *)
(* buffer of the window.                                                   *)
WriteWindow(sink, W) ==
  sink \o [i \in 1..Cardinality(W) |-> InCapidOrder(W)[i].cap.data]
=============================================================================
