---------------------------- MODULE RewardCodec ----------------------------
(***************************************************************************)
(* The coinbase record codec of src/consensus/ethash/consensus_reward.go:  *)
(* CoinbaseTxs.Encode (lines 481-496), DecodeFromBytes (lines 503-519)     *)
(* and FormatUint64Bytes (lines 557-567), with big.Int's Bytes/SetBytes.   *)
(*                                                                         *)
(* A byte is a digit in 0 .. ByteBase-1 and a reward field is FieldBytes   *)
(* bytes wide (256 and 8 in the code).  The 20 address bytes are kept as   *)
(* one symbol, the address itself: the codec copies them unchanged.        *)
(***************************************************************************)
EXTENDS Integers, Sequences, SequencesExt

CONSTANTS
  ByteBase,     \* values of one byte: 256
  FieldBytes    \* width of one reward field: 8

ASSUME CodecAssumption == ByteBase \in Nat \ {0, 1} /\ FieldBytes \in Nat \ {0}

(* big.Int.Bytes(): the big-endian bytes of x without leading zeros; the  *)
(* empty slice for 0.                                                      *)
IntBytes[x \in Nat] ==
  IF x = 0 THEN <<>> ELSE IntBytes[x \div ByteBase] \o <<x % ByteBase>>

(* big.Int.SetBytes(b): the value of the big-endian bytes b.              *)
SetBytes(b) == FoldLeft(LAMBDA acc, d : acc * ByteBase + d, 0, b)

(* Fault variant: the zeros appended after Bytes() instead of before.    *)
FormatUint64BytesPadRight(x) ==
  LET l == Len(IntBytes[x])
      pad == IF l < FieldBytes THEN [i \in 1 .. FieldBytes - l |-> 0] ELSE <<>>
  IN  SubSeq(IntBytes[x] \o pad, 1, FieldBytes)

(* Left-pad Bytes() with zeros up to 8 bytes, then keep b[:8]: the first, *)
(* most significant, 8 bytes when the value needs more.                   *)
FormatUint64Bytes(x) ==
  LET l == Len(IntBytes[x])
      pad == IF l < FieldBytes THEN [i \in 1 .. FieldBytes - l |-> 0] ELSE <<>>
  IN  SubSeq(pad \o IntBytes[x], 1, FieldBytes)

(* One entry: addr(20) || poc(8) || pow(8) || pool(8).                     *)
RecordLen == 1 + 3 * FieldBytes

EncodeEntry(addr, v) ==
  <<addr>> \o FormatUint64Bytes(v.poc) \o FormatUint64Bytes(v.pow)
           \o FormatUint64Bytes(v.pool)

(* `for addr, v := range *this`: the entries in the map's iteration order, *)
(* which Go leaves unspecified and randomises; order is one of them.       *)
EncodeOrders(ctxs) == SetToSeqs(DOMAIN ctxs)

Encode(ctxs, order) ==
  FlattenSeq([i \in 1 .. Len(order) |-> EncodeEntry(order[i], ctxs[order[i]])])

(* DecodeFromBytes: walk the entries; Add(addr) keeps an address already  *)
(* present and SetBytes overwrites its fields, so the last entry of an     *)
(* address wins.                                                           *)
Decode(b) ==
  LET n == Len(b) \div RecordLen
      at(k) == (k - 1) * RecordLen
      field(k, f) == SetBytes(SubSeq(b, at(k) + 2 + f * FieldBytes,
                                        at(k) + 1 + (f + 1) * FieldBytes))
      addrs == {b[at(k) + 1] : k \in 1 .. n}
      last(a) == CHOOSE k \in 1 .. n : b[at(k) + 1] = a
                                     /\ \A j \in k + 1 .. n : b[at(j) + 1] # a
  IN  [a \in addrs |-> [poc |-> field(last(a), 0),
                        pow |-> field(last(a), 1),
                        pool |-> field(last(a), 2)]]
=============================================================================
