-------------------------------- MODULE Obfs --------------------------------
(***************************************************************************)
(* The packets of a session dressed up as RTP (client/obfs.go): what makes *)
(* the nonce of each one, where its padding comes from, and how the length *)
(* of the payload is found again.  Several goroutines of a session write   *)
(* through the same ObfsState (session.go 76-85, 605, 711).                *)
(*                                                                         *)
(* Sequence numbers are SeqSize wide (2^16 in the code) and timestamps the *)
(* square of it (2^32).  A packet is its lengths, its counters and whether *)
(* the cipher would open what lies between header and padding.             *)
(***************************************************************************)
EXTENDS Naturals, FiniteSets

CONSTANTS
  Writers,     \* goroutines that write to the session
  SeqSize,     \* 65536
  Step,        \* timestamp units per packet: 960
  RandChunk,   \* obfsRandChunk: 4096
  Draw,        \* 1 + obfsPaddingCeiling: 61
  PaddingMax,  \* 24 or 60: never 0
  Overhead,    \* chacha20poly1305.Overhead: 16
  Bodies,      \* lengths of payloads
  Nothing      \* no packet

TsSize == SeqSize * SeqSize
Window == SeqSize * TsSize    \* the 48 bits of the packet counter

ASSUME ObfsAssumption ==
  /\ SeqSize \in Nat \ {0} /\ Step \in Nat
  /\ Draw \in Nat \ {0} /\ RandChunk \in Nat /\ Draw <= RandChunk
  /\ PaddingMax \in 1 .. 255 /\ PaddingMax < Draw /\ Overhead \in Nat \ {0}
  /\ Bodies \subseteq Nat \ {0}

VARIABLES
  initSeq, initTs,
  count,    \* packets numbered so far
  randPos,  \* bytes of randBuf used up
  refill,   \* times randBuf was filled (history)
  holds,    \* [Writers -> number and random bytes taken for a packet, or Nothing]
  nonces,   \* nonces sealed with (history)
  sealed,   \* packets sealed (history)
  wire      \* the packet last sent, or Nothing

obfsVars == <<initSeq, initTs, count, randPos, refill, holds, nonces, sealed, wire>>

SeqOf(c) == (initSeq + c) % SeqSize

TsOfPlain(c) == (initTs + c * Step) % TsSize

(* The carry moves the timestamp on when the sequence number wraps.        *)
TsOf(c) == (initTs + c * Step + c \div SeqSize) % TsSize

(* obfsBuildNonce; the SSRC is the session's own.                          *)
Nonce(c) == <<SeqOf(c), TsOf(c)>>

-----------------------------------------------------------------------------
(* Writing.                                                                *)

NeedsRefillWhenEmpty == randPos + 1 > RandChunk

(* fillRandom: what is left of a chunk is thrown away if it is too little. *)
NeedsRefill == randPos + Draw > RandChunk

DrawFrom == IF NeedsRefill THEN 0 ELSE randPos

(* copy stops at the end of the buffer.                                    *)
DrawTo == IF DrawFrom + Draw <= RandChunk THEN DrawFrom + Draw ELSE RandChunk

(* A number and the padding's bytes, taken under mu.                       *)
Take(w) ==
  /\ holds[w] = Nothing /\ count < Window
  /\ count' = count + 1
  /\ randPos' = DrawTo
  /\ refill' = IF NeedsRefill THEN refill + 1 ELSE refill
  /\ holds' = [holds EXCEPT ![w] = [at |-> count, chunk |-> refill', from |-> DrawFrom, to |-> DrawTo]]
  /\ UNCHANGED <<initSeq, initTs, nonces, sealed, wire>>

PadTotalBare(r) == r % PaddingMax

(* The length byte counts itself; rnd is the first of the random bytes.    *)
PadTotal(rnd) == (rnd % PaddingMax) + 1

HeaderLen(ext) == IF ext THEN 24 ELSE 12

(* The whole length, what the header and the last byte say, and where the  *)
(* cipher's text is.                                                       *)
Packet(ext, body, pad) ==
  [len |-> HeaderLen(ext) + body + Overhead + pad, ext |-> ext, last |-> pad % 256,
   text |-> <<HeaderLen(ext), HeaderLen(ext) + body + Overhead>>, body |-> body]

(* Written outside the lock, under the bare header of 12 bytes.            *)
Seal(w) ==
  /\ holds[w] # Nothing
  /\ nonces' = nonces \cup {Nonce(holds[w].at)}
  /\ sealed' = sealed + 1
  /\ \E body \in Bodies, rnd \in 0 .. PaddingMax : wire' = Packet(FALSE, body, PadTotal(rnd))
  /\ holds' = [holds EXCEPT ![w] = Nothing]
  /\ UNCHANGED <<initSeq, initTs, count, randPos, refill>>

-----------------------------------------------------------------------------
(* Reading.                                                                *)

(* obfsUnwrapPacket: the length of the payload, or 0 for an error.  The    *)
(* cipher opens what was sealed and nothing else.                          *)
Unwrap(p) ==
  LET from == HeaderLen(p.ext)
      to == p.len - p.last
  IN  IF /\ p.len >= from + 1
         /\ p.last > 0 /\ from <= to
         /\ to - from > Overhead
         /\ p.text = <<from, to>>
        THEN to - from - Overhead ELSE 0

(* Servers write either header.                                            *)
FromServer ==
  /\ \E ext \in BOOLEAN, body \in Bodies, rnd \in 0 .. PaddingMax : wire' = Packet(ext, body, PadTotal(rnd))
  /\ UNCHANGED <<initSeq, initTs, count, randPos, refill, holds, nonces, sealed>>

-----------------------------------------------------------------------------
ObfsInit ==
  /\ initSeq \in 0 .. SeqSize - 1 /\ initTs \in 0 .. TsSize - 1
  /\ count = 0 /\ randPos = RandChunk /\ refill = 0
  /\ holds = [w \in Writers |-> Nothing]
  /\ nonces = {} /\ sealed = 0
  /\ wire = Nothing

ObfsNext == (\E w \in Writers : Take(w) \/ Seal(w)) \/ FromServer

ObfsSpec == ObfsInit /\ [][ObfsNext]_obfsVars

-----------------------------------------------------------------------------
(* Properties.                                                             *)

(* Every variable has its type.                                            *)
Holding == [at : Nat, chunk : Nat, from : 0 .. RandChunk, to : 0 .. RandChunk]

ObfsTypeOK ==
  /\ initSeq \in 0 .. SeqSize - 1 /\ initTs \in 0 .. TsSize - 1
  /\ count \in 0 .. Window /\ randPos \in 0 .. RandChunk /\ refill \in Nat
  /\ holds \in [Writers -> Holding \cup {Nothing}]
  /\ nonces \subseteq (0 .. SeqSize - 1) \X (0 .. TsSize - 1) /\ sealed \in Nat

(* No two packets of the 2^48 a session may number are sealed with the     *)
(* same nonce, whichever goroutines number and seal them and in whatever   *)
(* order, though the sequence number has wrapped 2^32 times by then and    *)
(* the timestamp's multiples of 960 many times too (obfs.go:162-165).      *)
NonceOnce == Cardinality(nonces) = sealed

(* The padding is random to the last byte, and no byte of it was another   *)
(* packet's (obfs.go:104-110): a packet holds as many bytes as it may need *)
(* of a chunk, and no one else holds or will be given any of them.         *)
PaddingIsItsOwn ==
  \A w \in Writers : holds[w] # Nothing =>
    /\ holds[w].to - holds[w].from = Draw
    /\ holds[w].chunk < refill \/ holds[w].to <= randPos
    /\ \A v \in Writers \ {w} : holds[v] # Nothing /\ holds[v].chunk = holds[w].chunk =>
         holds[v].to <= holds[w].from \/ holds[w].to <= holds[v].from

(* What is wrapped, under either header and with any padding, is unwrapped *)
(* to its whole payload (obfs.go:191-245).                                 *)
UnwrapsToItself == wire # Nothing => Unwrap(wire) = wire.body
=============================================================================
