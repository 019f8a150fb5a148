------------------------------ MODULE SRecord -------------------------------
(* The image that is flashed: S-record lines (SRecordParser in               *)
(* src/flash_engine.cpp), the records they hold, and the extent the shell    *)
(* announces for them (src/diag_shell.cpp). Pure functions, used by          *)
(* FlashImage.                                                               *)
(*                                                                           *)
(* A line is read as far as its hexadecimal digits: a type, the byte that    *)
(* counts the bytes after it, and those bytes, of which there may be fewer   *)
(* or more than announced. A byte is a number below ByteMod (256).           *)
EXTENDS Naturals, Sequences, SequencesExt

CONSTANTS
  ByteMod,
  kMaxFlashBlock

ASSUME ByteAssumption == ByteMod \in Nat \ {0} /\ kMaxFlashBlock \in Nat

Total(numbers) ==
  LET sum[i \in 0 .. Len(numbers)] == IF i = 0 THEN 0 ELSE sum[i - 1] + numbers[i]
  IN  sum[Len(numbers)]

BigEndian(bytes) ==
  LET read[i \in 0 .. Len(bytes)] == IF i = 0 THEN 0 ELSE read[i - 1] * ByteMod + bytes[i]
  IN  read[Len(bytes)]

----------------------------------------------------------------------------
(* parseLine. *)

AddressLength(type) ==
  CASE type \in {0, 1, 5, 9} -> 2
    [] type \in {2, 8} -> 3
    [] type \in {3, 7} -> 4
    [] OTHER -> 0

(* The complement of the sum, first of a sum that leaves out the count and   *)
(* the first byte.                                                           *)
ComplementOfRest(count, bytes) == ByteMod - 1 - (Total(SubSeq(bytes, 2, count - 1)) % ByteMod)

Complement(count, bytes) ==
  ByteMod - 1 - ((count + Total(SubSeq(bytes, 1, count - 1))) % ByteMod)

DataLength(line) == line.count - AddressLength(line.type) - 1

Accepted(line) ==
  /\ line.type \in 0 .. 9
  /\ line.count >= 3 /\ line.count <= Len(line.bytes)
  /\ line.bytes[line.count] = Complement(line.count, line.bytes)
  /\ AddressLength(line.type) # 0
  /\ line.count >= AddressLength(line.type) + 1
  /\ DataLength(line) <= kMaxFlashBlock

Record(line) ==
  LET n == AddressLength(line.type)
  IN  [type |-> line.type,
       address |-> BigEndian(SubSeq(line.bytes, 1, n)),
       data |-> SubSeq(line.bytes, n + 1, line.count - 1)]

isDataRecord(type) == type \in {1, 2, 3}

----------------------------------------------------------------------------
(* The staged image: what RequestDownload announces, and where the ECU puts  *)
(* the blocks, which carry no address: one behind the other.                 *)

End(r) == r.address + Len(r.data)

Lowest(staged) == CHOOSE a \in {r.address : r \in ToSet(staged)} :
                    \A r \in ToSet(staged) : a <= r.address

(* The highest address of a record, not of its last byte. *)
HighestStart(staged) == CHOOSE a \in {r.address : r \in ToSet(staged)} :
                          \A r \in ToSet(staged) : a >= r.address

Highest(staged) == CHOOSE a \in {End(r) : r \in ToSet(staged)} :
                     \A r \in ToSet(staged) : a >= End(r)

Extent(staged) == [address |-> Lowest(staged), size |-> Highest(staged) - Lowest(staged)]

Received(staged) == FlattenSeq([i \in 1 .. Len(staged) |-> staged[i].data])
=============================================================================
