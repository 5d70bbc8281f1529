------------------------------- MODULE LzmaDecode -------------------------------
(***************************************************************************)
(* The loader in front of a compressed kernel: entry of decompress.c and   *)
(* LzmaDecode of LzmaDecode.c as the loader's Makefile builds it, with     *)
(* _LZMA_IN_CB and without _LZMA_OUT_READ.  What the range decoder makes   *)
(* of the input is a choice among all symbols of the tree it reads: the    *)
(* probabilities are not modelled.  The widths of the trees are constants, *)
(* so that a distance wraps at 2^DistanceBits, which is 2^32 in the code.  *)
(*                                                                         *)
(* lz is the local state of the function: rep[1] to rep[4] are rep0 to     *)
(* rep3, out what is written, nowPos its length.  Decoding copies bytes    *)
(* and never compares them: a literal is named by how many packets came    *)
(* before it.  kernel is history, what the packets decoded so far say;     *)
(* strayed says that one was decoded with a byte that was not written.     *)
(***************************************************************************)
EXTENDS Integers, Sequences

CONSTANTS
  Sizes,         \* uncompressed sizes a header may give
  LowBits, MidBits, HighBits,  \* widths of the three trees of a length: 3, 3, 8
  DistanceBits,  \* 32: half the number of slots
  EndPosModelIndex, AlignBits  \* 14 and 4: from which slot on the low bits are aligned

(* The slots from EndPosModelIndex on have bits above those aligned. *)
LzmaWidths ==
  /\ Sizes \subseteq Nat /\ {LowBits, MidBits, HighBits, DistanceBits, AlignBits} \subseteq Nat
  /\ EndPosModelIndex \in Nat /\ EndPosModelIndex >= 4
  /\ EndPosModelIndex \div 2 - 1 >= AlignBits

VARIABLE lz

(* 1 << n *)
Bit(n) == LET shifted[k \in 0 .. n] == IF k = 0 THEN 1 ELSE 2 * shifted[k - 1] IN shifted[n]

NumLitStates == 7
MatchMinLen == 2
NotWritten == -1
NowPos(z) == Len(z.out)

(* The output at a distance; what lies before it is not the loader's. *)
At(z, distance) ==
  IF NowPos(z) - distance \in 0 .. NowPos(z) - 1 THEN z.out[NowPos(z) - distance + 1]
  ELSE NotWritten
Write(z, b) == [z EXCEPT !.out = Append(@, b)]
FirstReps == <<1, 1, 1, 1>>
Stop(z, result) == [z EXCEPT !.result = result, !.state = 0, !.rep = FirstReps]

(***************************************************************************)
(* Symbols the trees may give.                                             *)
(***************************************************************************)
LenOffset == << 0, Bit(LowBits), Bit(LowBits) + Bit(MidBits) >>
LenBits == << LowBits, MidBits, HighBits >>
Lengths == UNION { { LenOffset[t] + n : n \in 0 .. Bit(LenBits[t]) - 1 } : t \in 1 .. 3 }

DirectBits(slot) == (slot \div 2) - 1
SlotBase(slot) == (2 + (slot % 2)) * Bit(DirectBits(slot))
Aligned(slot) ==
  { SlotBase(slot) + high * Bit(AlignBits) + low :
      high \in 0 .. Bit(DirectBits(slot) - AlignBits) - 1, low \in 0 .. Bit(AlignBits) - 1 }
Modelled(slot) == { SlotBase(slot) + low : low \in 0 .. Bit(DirectBits(slot)) - 1 }
DistancesOf(slot) ==
  CASE slot < 4 -> { slot }
    [] slot \in 4 .. EndPosModelIndex - 1 -> Modelled(slot)
    [] slot >= EndPosModelIndex -> Aligned(slot)
Slots == 0 .. 2 * DistanceBits - 1

(***************************************************************************)
(* What packets say: a queue of the distances used last, the last one in    *)
(* front, and an output that a copy continues with its last bytes, as often *)
(* as they are needed.                                                     *)
(***************************************************************************)
NoPackets == [queue |-> FirstReps, out |-> <<>>, count |-> 0, last |-> "none"]

Copied(out, distance, n) ==
  [i \in 1 .. Len(out) + n |->
     IF i <= Len(out) THEN out[i]
     ELSE out[Len(out) - distance + 1 + ((i - Len(out) - 1) % distance)]]
Pushed(queue, distance) == [k \in 1 .. 4 |-> IF k = 1 THEN distance ELSE queue[k - 1]]
ToFront(queue, which) ==
  [k \in 1 .. 4 |->
     CASE k = 1 -> queue[which] [] k \in 2 .. which -> queue[k - 1] [] k > which /\ k > 1 -> queue[k]]

Says(k, packet) ==
  CASE packet.kind = "literal" -> [k EXCEPT !.out = Append(@, packet.byte)]
    [] packet.kind = "match" ->
         [k EXCEPT !.queue = Pushed(@, packet.distance),
                   !.out = Copied(@, packet.distance, packet.length)]
    [] packet.kind = "rep" ->
         [k EXCEPT !.queue = ToFront(@, packet.which),
                   !.out = Copied(@, k.queue[packet.which], packet.length)]
Counted(k, packet) == [k EXCEPT !.count = @ + 1, !.last = packet.kind]
Note(z, packet) == [z EXCEPT !.kernel = Counted(Says(@, packet), packet)]

(***************************************************************************)
(* A packet                                                                *)
(***************************************************************************)
(* Mutant: state 10 is taken for one behind a literal. *)
BugAfterLiteral(state) ==
  CASE state < 4 -> 0 [] state \in 4 .. 10 -> state - 3 [] state > 10 -> state - 6

AfterLiteral(state) ==
  CASE state < 4 -> 0 [] state \in 4 .. 9 -> state - 3 [] state >= 10 -> state - 6

(* A literal behind a match is decoded with the byte at rep0. *)
StraysBack(z) == z.state >= NumLitStates /\ At(z, z.rep[1]) = NotWritten
Literal(z, b) ==
  Note(Write([z EXCEPT !.state = AfterLiteral(@), !.strayed = @ \/ StraysBack(z)], b),
       [kind |-> "literal", byte |-> b])

ShortRep(z) ==
  IF NowPos(z) = 0 THEN Stop(z, "DATA_ERROR")
  ELSE Note(Write([z EXCEPT !.state = IF @ < NumLitStates THEN 9 ELSE 11], At(z, z.rep[1])),
            [kind |-> "rep", which |-> 1, length |-> 1])

(* The copy runs over what it has just written, and never past outSize. *)
RoomFor(z, n) == IF n < z.outSize - NowPos(z) THEN n ELSE z.outSize - NowPos(z)
Copy(z, n) ==
  LET copied[k \in 0 .. n] ==
        IF k = 0 THEN z ELSE Write(copied[k - 1], At(copied[k - 1], z.rep[1]))
  IN  copied[n]

(* Mutant: a distance one too far is let through. *)
BugTooFar(z) == z.rep[1] > NowPos(z) + 1

TooFar(z) == z.rep[1] > NowPos(z)
CopyMatch(z, n, packet) ==
  IF TooFar(z) THEN Stop(z, "DATA_ERROR")
  ELSE Note(Copy(z, RoomFor(z, n + MatchMinLen)), packet)

(* Mutant: the distance used so far is forgotten. *)
BugRotate(rep, which) ==
  CASE which = 1 -> rep
    [] which = 2 -> <<rep[2], rep[2], rep[3], rep[4]>>
    [] which = 3 -> <<rep[3], rep[3], rep[2], rep[4]>>
    [] which = 4 -> <<rep[4], rep[4], rep[2], rep[3]>>

Rotate(rep, which) ==
  CASE which = 1 -> rep
    [] which = 2 -> <<rep[2], rep[1], rep[3], rep[4]>>
    [] which = 3 -> <<rep[3], rep[1], rep[2], rep[4]>>
    [] which = 4 -> <<rep[4], rep[1], rep[2], rep[3]>>
LongRep(z, which, n) ==
  CopyMatch([z EXCEPT !.rep = Rotate(@, which), !.state = IF @ < NumLitStates THEN 8 ELSE 11],
            n, [kind |-> "rep", which |-> which, length |-> n + MatchMinLen])

(* Behind a new distance the state is at least 7 again; the last distance  *)
(* there is wraps to 0 and ends the stream.                                *)
NewDistance(z, d) ==
  [z EXCEPT !.state = IF @ < NumLitStates THEN 7 ELSE 10,
            !.rep = <<(d + 1) % Bit(DistanceBits), @[1], @[2], @[3]>>]
MatchAt(z, d, n) ==
  IF z.rep[1] = 0 THEN Stop(z, "OK")
  ELSE CopyMatch(z, n, [kind |-> "match", distance |-> d + 1, length |-> n + MatchMinLen])
Match(z, d, n) == MatchAt(NewDistance(z, d), d, n)

(***************************************************************************)
(* LzmaDecode, one round of its loop a step, and entry.                    *)
(***************************************************************************)
LzmaInit ==
  \E size \in Sizes :
    lz = [state |-> 0, rep |-> FirstReps, out |-> <<>>, outSize |-> size, result |-> "none",
          kernel |-> NoPackets, strayed |-> FALSE, jumped |-> FALSE]

Decoding == lz.result = "none" /\ NowPos(lz) < lz.outSize
DecodeLiteral == Decoding /\ lz' = Literal(lz, lz.kernel.count)
DecodeShortRep == Decoding /\ lz' = ShortRep(lz)
DecodeLongRep == Decoding /\ \E which \in 1 .. 4, n \in Lengths : lz' = LongRep(lz, which, n)
DecodeMatch ==
  /\ Decoding
  /\ \E slot \in Slots : \E d \in DistancesOf(slot), n \in Lengths : lz' = Match(lz, d, n)
DecodeEnd == lz.result = "none" /\ NowPos(lz) >= lz.outSize /\ lz' = Stop(lz, "OK")

(* The kernel is started whatever its size came to. *)
Jump == lz.result = "OK" /\ ~lz.jumped /\ lz' = [lz EXCEPT !.jumped = TRUE]
LzmaNext ==
  DecodeLiteral \/ DecodeShortRep \/ DecodeLongRep \/ DecodeMatch \/ DecodeEnd \/ Jump
LzmaSpec == LzmaInit /\ [][LzmaNext]_lz

(***************************************************************************)
(* Properties                                                              *)
(***************************************************************************)
(* NoPackets is copied, and no literal decoded, from what was not written:   *)
(* the remembered distances are not checked again where they are used.     *)
OnlyWritten == (\A i \in 1 .. NowPos(lz) : lz.out[i] # NotWritten) /\ ~lz.strayed

(* The output is what the packets say, cut at the size of the header, and  *)
(* the distances kept are those used last, the last one in front.          *)
OutputOfPackets ==
  /\ lz.out = SubSeq(lz.kernel.out, 1, NowPos(lz))
  /\ NowPos(lz) # Len(lz.kernel.out) => NowPos(lz) = lz.outSize
  /\ lz.result = "none" => lz.rep = lz.kernel.queue

(* Twelve states remember the last packets: those from 7 on that the last  *)
(* was no literal, which decides how the next literal is read.             *)
StateTellsLast ==
  lz.result = "none" => ((lz.state >= NumLitStates) = (lz.kernel.last \in {"match", "rep"}))

(* The kernel that is loaded is the one the packets describe. *)
LoadedAsTold == OnlyWritten /\ OutputOfPackets /\ StateTellsLast
=================================================================================
