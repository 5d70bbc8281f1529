--------------------------------- MODULE Mkhash ---------------------------------
(***************************************************************************)
(* scripts/mkhash.c: the digests by which the image builder names and      *)
(* checks its files.  The compression functions are left uninterpreted: a  *)
(* digest stands for the blocks that were mixed into it, in their order.   *)
(* A byte is <<"data", i>>, the i-th of the message, <<"80">>, <<"00">>,   *)
(* one of the eight of the length, or what stood in the context before.    *)
(*                                                                         *)
(* hash is the context of either function: lo and hi are those of MD5,     *)
(* count the bits of SHA256; mixed holds the blocks mixed, fed the length  *)
(* of what was read.                                                       *)
(***************************************************************************)
EXTENDS Integers, Sequences

CONSTANTS
  Block,      \* 64: the bytes of a block
  LengthSize, \* 8: those of the length at its end
  LoWrap,     \* 2^29: where the low part of the length of MD5 wraps
  HiWrap,     \* 2^32: where the high part does
  Chunks,     \* how much a read may give
  MaxFed      \* the longest message

(* A block holds the length and more, and the low part of a length wraps at *)
(* the end of a block.                                                      *)
HashSizes ==
  /\ Block \in Nat \ {0} /\ LengthSize \in 1 .. Block - 1
  /\ HiWrap \in Nat \ {0} /\ LoWrap \in Nat \ {0} /\ LoWrap % Block = 0
  /\ Chunks \subseteq Nat

VARIABLE hash

Data(from, n) == [i \in 1 .. n |-> <<"data", from + i>>]
Zeros(n) == [i \in 1 .. n |-> <<"00">>]

(* memcpy into the buffer, behind the first at bytes. *)
Filled(buffer, at, bytes) ==
  [i \in 1 .. Block |-> IF i - at \in DOMAIN bytes THEN bytes[i - at] ELSE buffer[i]]

Mix(h, blocks) == [h EXCEPT !.mixed = @ \o blocks]
MixBuffer(h) == Mix(h, <<h.buffer>>)
BlocksOf(bytes) ==
  [i \in 1 .. Len(bytes) \div Block |-> SubSeq(bytes, (i - 1) * Block + 1, i * Block)]
Behind(bytes, n) == SubSeq(bytes, n + 1, Len(bytes))

(* Whole blocks are mixed where they lie, the rest waits in the buffer. *)
TakeBlocks(h, bytes) ==
  [Mix(h, BlocksOf(bytes)) EXCEPT
     !.buffer = Filled(@, 0, Behind(bytes, (Len(bytes) \div Block) * Block))]

(***************************************************************************)
(* MD5.  The length is kept in bytes, lo below LoWrap.                     *)
(***************************************************************************)
Carry(lo, n) == IF (lo + n) % LoWrap < lo THEN 1 ELSE 0
CountMD5(h, n) ==
  [h EXCEPT !.lo = (@ + n) % LoWrap, !.hi = (@ + Carry(h.lo, n) + n \div LoWrap) % HiWrap]

(* Mutant: a buffer that becomes full waits for the next read. *)
BugFits(n, used) == n <= Block - used

Fits(n, used) == n < Block - used
Buffered(h, used, bytes) == [h EXCEPT !.buffer = Filled(@, used, bytes)]
HashMD5(h, used, bytes) ==
  CASE used > 0 /\ Fits(Len(bytes), used) -> Buffered(h, used, bytes)
    [] used > 0 /\ ~Fits(Len(bytes), used) ->
         TakeBlocks(MixBuffer(Buffered(h, used, SubSeq(bytes, 1, Block - used))),
                    Behind(bytes, Block - used))
    [] OTHER -> TakeBlocks(h, bytes)
UpdateMD5(h, bytes) == HashMD5(CountMD5(h, Len(bytes)), h.lo % Block, bytes)

Length(value) == [i \in 1 .. LengthSize |-> <<"length", value, i>>]

(* Mutant: no block is added when the length would just fit. *)
BugRoomMD5(used) == Block - used >= LengthSize - 1

RoomMD5(used) == Block - used >= LengthSize
AddLength(h, used, value) ==
  MixBuffer(Buffered(h, used, Zeros(Block - LengthSize - used) \o Length(value)))
PadMD5(h, used, value) ==
  IF RoomMD5(used) THEN AddLength(h, used, value)
  ELSE AddLength(MixBuffer(Buffered(h, used, Zeros(Block - used))), 0, value)
EndMD5(h) ==
  PadMD5(Buffered(h, h.lo % Block, <<<<"80">>>>), (h.lo % Block) + 1, h.lo + LoWrap * h.hi)

(***************************************************************************)
(* SHA256.  The length is kept in bits, and count wraps at 2^64.           *)
(***************************************************************************)
Used(h) == (h.count \div 8) % Block
CountSHA(h, n) == [h EXCEPT !.count = (@ + 8 * n) % (8 * LoWrap * HiWrap)]

UpdateAt(h, r, bytes) ==
  IF Len(bytes) < Block - r THEN Buffered(h, r, bytes)
  ELSE TakeBlocks(MixBuffer(Buffered(h, r, SubSeq(bytes, 1, Block - r))), Behind(bytes, Block - r))
UpdateSHA(h, bytes) == UpdateAt(CountSHA(h, Len(bytes)), Used(h), bytes)

Pad == <<<<"80">>>> \o Zeros(Block - 1)
FinishSHA(h) == MixBuffer(Buffered(h, Block - LengthSize, Length(h.count \div 8)))
EndSHA(h) ==
  IF Used(h) < Block - LengthSize
    THEN FinishSHA(Buffered(h, Used(h), SubSeq(Pad, 1, Block - LengthSize - Used(h))))
  ELSE FinishSHA(Buffered(MixBuffer(Buffered(h, Used(h), SubSeq(Pad, 1, Block - Used(h)))),
                          0, Zeros(Block - LengthSize)))

(***************************************************************************)
(* md5_hash and sha256_hash: the file is read until a read gives nothing.  *)
(***************************************************************************)
HashInit ==
  \E kind \in {"md5", "sha256"} :
    hash = [kind |-> kind, lo |-> 0, hi |-> 0, count |-> 0, fed |-> 0, mixed |-> <<>>,
            buffer |-> [i \in 1 .. Block |-> <<"stack">>], ended |-> FALSE]
Update(h, bytes) == IF h.kind = "md5" THEN UpdateMD5(h, bytes) ELSE UpdateSHA(h, bytes)
ReadChunk ==
  \E n \in Chunks :
    /\ ~hash.ended /\ hash.fed + n <= MaxFed
    /\ hash' = [Update(hash, Data(hash.fed, n)) EXCEPT !.fed = @ + n]
EndOfFile ==
  /\ ~hash.ended
  /\ hash' = [(IF hash.kind = "md5" THEN EndMD5(hash) ELSE EndSHA(hash)) EXCEPT !.ended = TRUE]
HashNext == ReadChunk \/ EndOfFile

HashSpec == HashInit /\ [][HashNext]_hash

(***************************************************************************)
(* Properties                                                              *)
(***************************************************************************)
(* What was mixed, byte by byte, and what waits to be. *)
Mixed(h) ==
  [i \in 1 .. Len(h.mixed) * Block |-> h.mixed[(i - 1) \div Block + 1][((i - 1) % Block) + 1]]
Waiting(h) == SubSeq(h.buffer, 1, h.fed % Block)

(* However the reads cut a message up, every byte is mixed once and in its *)
(* place or waits in the buffer.                                           *)
NothingLost == ~hash.ended => Mixed(hash) \o Waiting(hash) = Data(0, hash.fed)

(* What is mixed at the end is the message, a one and zeros up to the length, *)
(* also when the length has wrapped or needs a block of its own: nothing   *)
(* that stood in the context before gets into it.                          *)
PaddingFor(n) == <<<<"80">>>> \o Zeros((Block - LengthSize - 1 - n) % Block)
EndOfMessage ==
  hash.ended =>
    Mixed(hash) =
      Data(0, hash.fed) \o PaddingFor(hash.fed) \o Length(hash.fed % (LoWrap * HiWrap))

(* The digest is that of the message, from its first byte to its end. *)
DigestOfMessage == NothingLost /\ EndOfMessage
=================================================================================
