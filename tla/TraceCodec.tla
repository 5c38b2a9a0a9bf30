----------------------------- MODULE TraceCodec -----------------------------
(* Trace V2 (packages/protocol/src/trace.ts): canonical input frames and     *)
(* their fixed-width byte encoding.  Pure operators over a schema            *)
(* [buttons |-> sequence of names, axes |-> sequence of names] and limits    *)
(* [minFrames, maxFrames, maxBytes].                                         *)
(*                                                                           *)
(* A byte has ByteBits bits (8 in the code) and an axis two bytes, so that   *)
(* small instances keep the padding, the byte order and the one integer,     *)
(* -32768, that has no canonical meaning.  A canonical axis value is an      *)
(* integer of -AxisScale..AxisScale; a device reports it AxisFine times finer.*)
EXTENDS Integers, Sequences, FiniteSetsExt, SequencesExt

CONSTANTS ByteBits,   \* bits of a byte
          AxisFine    \* raw axis units per canonical unit

ASSUME ByteAssumption == ByteBits \in Nat \ {0, 1}
ASSUME AxisAssumption == AxisFine \in Nat \ {0}

TwoTo[n \in 0..ByteBits] == IF n = 0 THEN 1 ELSE 2 * TwoTo[n - 1]

Radix == TwoTo[ByteBits]
Byte == 0..(Radix - 1)
AxisScale == (Radix * Radix) \div 2 - 1     \* INT16_SCALE
Version == 2                                \* TRACE_ENCODING_VERSION
HeaderBytes == 5                            \* TRACE_HEADER_BYTES

(* validateNames, and the last check of defineInputSchema. *)
ValidSchema(schema) ==
  /\ \A names \in {schema.buttons, schema.axes} : names \in Seq(STRING) /\ IsInjective(names)
  /\ Len(schema.buttons) + Len(schema.axes) > 0

ButtonBytes(schema) == (Len(schema.buttons) + ByteBits - 1) \div ByteBits

FrameByteLength(schema) == ButtonBytes(schema) + 2 * Len(schema.axes)

TraceByteLength(schema, count) == HeaderBytes + count * FrameByteLength(schema)

-----------------------------------------------------------------------------
(* canonicalizeInputFrame: declared names only, missing actions neutral,     *)
(* axes clamped and rounded half up, as Math.round does.                     *)

Undeclared(schema, raw) ==
  \/ DOMAIN raw.buttons \ ToSet(schema.buttons) # {}
  \/ DOMAIN raw.axes \ ToSet(schema.axes) # {}

Clamped(r) ==
  LET one == AxisScale * AxisFine
  IN  IF r > one THEN one ELSE IF r < -one THEN -one ELSE r

Quantized(r) == (2 * Clamped(r) + AxisFine) \div (2 * AxisFine)

Canonicalized(schema, raw) ==
  [buttons |-> [b \in ToSet(schema.buttons) |->
                  b \in DOMAIN raw.buttons /\ raw.buttons[b]],
   axes |-> [x \in ToSet(schema.axes) |->
               IF x \in DOMAIN raw.axes THEN Quantized(raw.axes[x]) ELSE 0]]

-----------------------------------------------------------------------------
(* encodeTrace *)

(* Bug: a trace of exactly maxFrames is over the limit. *)
CeilingExcluded(count, limits) == count < limits.minFrames \/ count >= limits.maxFrames

FrameLimitError(count, limits) == count < limits.minFrames \/ count > limits.maxFrames

EncodeError(schema, frames, limits) ==
  CASE FrameLimitError(Len(frames), limits) -> "frame-limit"
    [] TraceByteLength(schema, Len(frames)) > limits.maxBytes -> "byte-limit"
    [] OTHER -> "none"

(* setUint32, big-endian. *)
CountBytes(count) ==
  <<count \div (Radix * Radix * Radix) % Radix, count \div (Radix * Radix) % Radix,
    count \div Radix % Radix, count % Radix>>

(* A byte from its bits, numbered from the least significant one. *)
ByteOf(bits) ==
  LET above[k \in 0..ByteBits] ==
        IF k = ByteBits THEN 0 ELSE 2 * above[k + 1] + (IF bits[k] THEN 1 ELSE 0)
  IN  above[0]

(* Byte j (from 0) of a frame's buttons. *)
PackedByte(schema, frame, j) ==
  ByteOf([bit \in 0..(ByteBits - 1) |->
            LET index == j * ByteBits + bit + 1
            IN  index <= Len(schema.buttons) /\ frame.buttons[schema.buttons[index]]])

(* setInt16, big-endian two's complement. *)
AxisBytes(n) ==
  LET unsigned == IF n < 0 THEN n + Radix * Radix ELSE n
  IN  <<unsigned \div Radix, unsigned % Radix>>

FrameBytes(schema, frame) ==
  [j \in 1..FrameByteLength(schema) |->
     IF j <= ButtonBytes(schema) THEN PackedByte(schema, frame, j - 1)
     ELSE LET at == j - ButtonBytes(schema) - 1
          IN  AxisBytes(frame.axes[schema.axes[at \div 2 + 1]])[(at % 2) + 1]]

(* Each byte at its offset. *)
Encoded(schema, frames) ==
  LET width == FrameByteLength(schema)
  IN  [n \in 1..TraceByteLength(schema, Len(frames)) |->
         IF n = 1 THEN Version
         ELSE IF n <= HeaderBytes THEN CountBytes(Len(frames))[n - 1]
         ELSE LET at == n - HeaderBytes - 1
              IN  FrameBytes(schema, frames[at \div width + 1])[(at % width) + 1]]

-----------------------------------------------------------------------------
(* decodeTrace.  Its checks fail in the order of the code. *)

CountOf(bytes) ==
  ((bytes[2] * Radix + bytes[3]) * Radix + bytes[4]) * Radix + bytes[5]

(* The bytes of frame i. *)
Chunk(schema, bytes, i) ==
  LET width == FrameByteLength(schema)
  IN  SubSeq(bytes, HeaderBytes + (i - 1) * width + 1, HeaderBytes + i * width)

BitSet(byte, bit) == byte \div TwoTo[bit] % 2 = 1

(* getInt16 of the k-th axis of a frame. *)
AxisOf(schema, chunk, k) ==
  LET high == chunk[ButtonBytes(schema) + 2 * k - 1]
      low == chunk[ButtonBytes(schema) + 2 * k]
      unsigned == high * Radix + low
  IN  IF unsigned > AxisScale THEN unsigned - Radix * Radix ELSE unsigned

(* Bug: unused button bits are ignored. *)
PaddingIgnored(schema, chunk) == FALSE

(* finalButtonMask: a bit of the last button byte beyond the last button. *)
PaddingSet(schema, chunk) ==
  \E bit \in 0..(ByteBits - 1) :
     /\ (ButtonBytes(schema) - 1) * ByteBits + bit >= Len(schema.buttons)
     /\ ButtonBytes(schema) > 0
     /\ BitSet(chunk[ButtonBytes(schema)], bit)

ChunkError(schema, chunk) ==
  CASE PaddingSet(schema, chunk) -> "noncanonical-padding"
    [] \E k \in DOMAIN schema.axes : AxisOf(schema, chunk, k) = -AxisScale - 1 -> "noncanonical-axis"
    [] OTHER -> "none"

PayloadError(schema, bytes) ==
  LET wrong == {i \in 1..CountOf(bytes) :
                  ChunkError(schema, Chunk(schema, bytes, i)) # "none"}
  IN  IF wrong = {} THEN "none" ELSE ChunkError(schema, Chunk(schema, bytes, Min(wrong)))

DecodeError(schema, bytes, limits) ==
  CASE Len(bytes) > limits.maxBytes -> "byte-limit"
    [] Len(bytes) < HeaderBytes -> "length-mismatch"
    [] bytes[1] # Version -> "unsupported-version"
    [] FrameLimitError(CountOf(bytes), limits) -> "frame-limit"
    [] Len(bytes) # TraceByteLength(schema, CountOf(bytes)) -> "length-mismatch"
    [] OTHER -> PayloadError(schema, bytes)

IndexOfName(names, name) == CHOOSE i \in DOMAIN names : names[i] = name

DecodedFrame(schema, chunk) ==
  [buttons |-> [b \in ToSet(schema.buttons) |->
                  LET index == IndexOfName(schema.buttons, b) - 1
                  IN  BitSet(chunk[index \div ByteBits + 1], index % ByteBits)],
   axes |-> [x \in ToSet(schema.axes) |->
               AxisOf(schema, chunk, IndexOfName(schema.axes, x))]]

(* The frames of bytes without a DecodeError. *)
Decoded(schema, bytes) ==
  [i \in 1..CountOf(bytes) |-> DecodedFrame(schema, Chunk(schema, bytes, i))]
=============================================================================
