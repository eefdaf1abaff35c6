---------------------------- MODULE FrameBuffer ----------------------------
(***************************************************************************)
(* The frames of the standalone tool (marstek_basic_info.py): how it       *)
(* builds and takes apart a frame, and how FrameBuffer.feed cuts frames    *)
(* out of a stream of notifications.  Bytes are the real ones.  A frame is *)
(* start byte, length of all of it, identifier, command, payload and the   *)
(* XOR of everything before.                                               *)
(***************************************************************************)
EXTENDS Naturals, Sequences, FiniteSets, FiniteSetsExt

Byte == 0..255

StartByte == 115

IdentifierByte == 35

Shortest == 5

(* The length of a frame is a byte too. *)
Payloads == {payload \in Seq(Byte) : Len(payload) + Shortest \in Byte}

Bit(byte, weight) == (byte \div weight) % 2

Odd(bytes, weight) == Cardinality({i \in DOMAIN bytes : Bit(bytes[i], weight) = 1}) % 2

(* The XOR of bytes: a bit of it is set if it is set in an odd number of them. *)
Checksum(bytes) ==
    Odd(bytes, 1) + 2 * Odd(bytes, 2) + 4 * Odd(bytes, 4) + 8 * Odd(bytes, 8)
    + 16 * Odd(bytes, 16) + 32 * Odd(bytes, 32) + 64 * Odd(bytes, 64) + 128 * Odd(bytes, 128)

Sealed(bytes) == Append(bytes, Checksum(bytes))

(* create_command_frame. *)
NewFrame(command, payload) ==
    Sealed(<<StartByte, Len(payload) + Shortest, IdentifierByte, command>> \o payload)

(* _is_complete_valid_frame, of the frame that may begin at position i; parse_frame accepts *)
(* nothing else. *)
FrameAt(b, i) ==
    /\ Len(b) - i + 1 >= Shortest
    /\ b[i] = StartByte /\ b[i + 2] = IdentifierByte
    /\ b[i + 1] >= Shortest /\ Len(b) - i + 1 >= b[i + 1]
    /\ Checksum(SubSeq(b, i, i + b[i + 1] - 1)) = 0

CommandOf(frame) == frame[4]

PayloadOf(frame) == SubSeq(frame, 5, Len(frame) - 1)

From(b, i) == SubSeq(b, i, Len(b))

StartsIn(b) == {i \in 1..Len(b) : b[i] = StartByte}

(* _find_complete_valid_frame(1): later ones than the first byte's. *)
LaterFrames(b) == {i \in 2..Len(b) : FrameAt(b, i)}

\* Mutant: the search for a later frame is left out while the first one is incomplete.
StalledWaiting(b) == Len(b) < 2 \/ (b[1] = StartByte /\ b[2] >= Shortest /\ Len(b) < b[2])

(* Nothing more to do until the next chunk: the frame that seems to begin is not complete, and *)
(* no complete one follows. *)
Stalled(b) ==
    \/ Len(b) < 2
    \/ b[1] = StartByte /\ b[2] >= Shortest /\ Len(b) < b[2] /\ LaterFrames(b) = {}

(* What one pass of the loop keeps of a buffer without a frame at its beginning. *)
Skipped(b) ==
    CASE b[1] # StartByte -> IF StartsIn(b) = {} THEN <<>> ELSE From(b, Min(StartsIn(b)))
      [] b[1] = StartByte /\ b[2] < Shortest -> Tail(b)
      [] OTHER -> IF LaterFrames(b) = {} THEN Tail(b) ELSE From(b, Min(LaterFrames(b)))

(* The loop of feed: the frames cut out, and the bytes kept for the next call. *)
Cut[b \in Seq(Byte)] ==
    IF Stalled(b) THEN <<<<>>, b>>
    ELSE IF FrameAt(b, 1)
         THEN LET rest == Cut[From(b, b[2] + 1)] IN <<<<SubSeq(b, 1, b[2])>> \o rest[1], rest[2]>>
         ELSE Cut[Skipped(b)]

Feed(buffer, chunk) == Cut[buffer \o chunk]
=============================================================================
