----------------------------- MODULE FlashImage -----------------------------
(* The flash sequence of the shell with the image it sends: the lines the    *)
(* user types are those of a file somebody wrote, of which one byte may have *)
(* been damaged on the way; the records read from them are staged, announced *)
(* and sent. Blocks carry no address, so the ECU puts one behind the other,  *)
(* from the address that was announced.                                      *)
EXTENDS DiagShell, SRecord

CONSTANT Written  (* the lines that may be in a file: [type, address, data] *)

(* An address fits in the bytes its type has for it.                         *)
ASSUME WrittenAssumption ==
  \A w \in Written :
    /\ w.type \in 0 .. 9 /\ w.data \in Seq(0 .. ByteMod - 1)
    /\ w.address \in Nat
    /\ w.address < BigEndian(<<1>> \o [i \in 1 .. AddressLength(w.type) |-> 0])

VARIABLES
  image,      \* staged_records_
  extent,     \* setDownloadExtent: dl_addr_ and dl_size_
  announced   \* ghost: the number of records the extent was computed from

FlashInit ==
  Init /\ image = <<>> /\ extent = [address |-> 0, size |-> 0] /\ announced = 0

----------------------------------------------------------------------------
(* The file. *)

AddressBytes(w) ==
  LET n  == AddressLength(w.type)
      a1 == w.address \div ByteMod
      a2 == a1 \div ByteMod
      a3 == a2 \div ByteMod
  IN  SubSeq(<<a3 % ByteMod, a2 % ByteMod, a1 % ByteMod, w.address % ByteMod>>, 5 - n, 4)

(* The line as it was written, with its checksum. *)
Sound(w) ==
  LET body == AddressBytes(w) \o w.data
      n == Len(body) + 1
  IN  [type |-> w.type, count |-> n, bytes |-> Append(body, Complement(n, Append(body, 0)))]

(* One byte, the count, or the type. The checksum does not cover the type: a *)
(* line whose type becomes that of another data record may be accepted, so   *)
(* here it does not.                                                         *)
Damaged(line) ==
  {[line EXCEPT !.bytes[i] = b] : i \in 1 .. Len(line.bytes), b \in 0 .. ByteMod - 1}
    \cup {[line EXCEPT !.count = n] : n \in 0 .. ByteMod - 1}
    \cup {[line EXCEPT !.type = t] : t \in {n \in 0 .. 9 : ~isDataRecord(n)}}

(* Nor does it cover what follows the bytes that are counted, which is never *)
(* looked at: a count that is too small is accepted if a byte of the data    *)
(* happens to be the checksum of what precedes it. No line here is such.     *)
CountsTell ==
  \A w \in Written : \A n \in 3 .. Sound(w).count - 1 :
    Sound(w).bytes[n] # Complement(n, Sound(w).bytes)

TypedLines == UNION {{Sound(w)} \cup Damaged(Sound(w)) : w \in Written}

----------------------------------------------------------------------------
(* 'flash <S-record>': what cannot be read, and what is not firmware, is not *)
(* staged.                                                                   *)
Readable == {line \in TypedLines : Accepted(line) /\ isDataRecord(line.type)}

StageLine(line) ==
  /\ FlashStage
  /\ image' = Append(image, Record(line))
  /\ UNCHANGED <<extent, announced>>

(* Everything else leaves the records alone, but for 'flash cancel', and     *)
(* sets the extent when it asks for the download.                            *)
Rest ==
  /\ Next
  /\ flash'.staged <= flash.staged
  /\ image' = IF flash'.staged = 0 THEN <<>> ELSE image
  /\ LET asks == asked' # asked /\ asked'.kind = "Download"
     IN  /\ extent'    = IF asks THEN Extent(image) ELSE extent
         /\ announced' = IF asks THEN Len(image) ELSE announced

FlashNext == (\E line \in Readable : StageLine(line)) \/ Rest

flashVars == <<vars, image, extent, announced>>

FlashSpec == FlashInit /\ [][FlashNext]_flashVars /\ Fairness

----------------------------------------------------------------------------
(* Every record that is staged is one of the file, byte for byte and at its  *)
(* address: a line that was damaged is refused, whichever byte it is, and    *)
(* headers and start addresses are skipped (flash_engine.cpp:55-64,          *)
(* diag_shell.cpp:2069-2075). And only what is staged is sent, whether more  *)
(* is staged or all of it dropped meanwhile (flash_index_).                  *)
StagedAsWritten ==
  /\ Len(image) = flash.staged /\ flash.index <= Len(image)
  /\ \A i \in 1 .. Len(image) :
       \E w \in Written :
         isDataRecord(w.type) /\ image[i] = [type |-> w.type, address |-> w.address, data |-> w.data]

Consecutive(records) ==
  \A i \in 1 .. Len(records) - 1 : records[i + 1].address = End(records[i])

(* A flash that is declared complete has put every record it sent where the  *)
(* record says, in a download announced in its full length, if the records   *)
(* are in order and without gaps, and were all staged when the download was  *)
(* announced: "RequestDownload must announce the real extent"                *)
(* (flash_engine.hpp:63). Nothing in the code makes sure of the two ifs.     *)
InPlace(sent) ==
  /\ extent.size = Len(Received(sent))
  /\ \A i \in 1 .. Len(sent) :
       LET first == sent[i].address - extent.address
       IN  SubSeq(Received(sent), first + 1, first + Len(sent[i].data)) = sent[i].data

FlashedInPlace ==
  [][ DeclaredComplete /\ flash.index = announced /\ Consecutive(SubSeq(image, 1, flash.index))
      => InPlace(SubSeq(image, 1, flash.index)) ]_flashVars
=============================================================================
