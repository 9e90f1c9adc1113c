------------------------------- MODULE FatEntry -------------------------------
(***************************************************************************)
(* How the numbers of the FAT lie in its bytes (fat.c:272-413).  The FAT   *)
(* is a function from positions to bytes.  For each width this module has  *)
(* the decoder and the encoder.  Seen through its decoder, a FAT is a      *)
(* table of independent numbers, which is what FatAlloc takes it for       *)
(* (FatCacheProofs, theorems Fat12IsTable to Fat32IsTable).                *)
(*                                                                         *)
(* The bitwise operations of the code are division and remainder by powers *)
(* of two here.  The calls of getAddress, which fetch the sectors of these *)
(* bytes and mark them, are in FatCache; that fat12_decode refuses numbers *)
(* which are no cluster's is in FatAlloc.                                  *)
(***************************************************************************)
EXTENDS Integers

Byte == 0 .. 255
FatBytes(size) == [0 .. size - 1 -> Byte]

-----------------------------------------------------------------------------
(* Words, msdos.h: least significant byte first.                           *)

Word(fat, at) == fat[at] + fat[at + 1] * 256

Dword(fat, at) == Word(fat, at) + Word(fat, at + 2) * 65536

SetWord(fat, at, value) ==
    [fat EXCEPT ![at] = value % 256, ![at + 1] = (value \div 256) % 256]

SetDword(fat, at, value) ==
    [fat EXCEPT ![at]     = value % 256,
                ![at + 1] = (value \div 256) % 256,
                ![at + 2] = (value \div 65536) % 256,
                ![at + 3] = (value \div 16777216) % 256]

-----------------------------------------------------------------------------
(* 12 bits: two entries share the middle one of three bytes.               *)

Start12(num) == (num * 3) \div 2

Decode12(fat, num) ==
    LET byte0 == fat[Start12(num)]
        byte1 == fat[Start12(num) + 1]
    IN  IF num % 2 = 1 THEN byte1 * 16 + byte0 \div 16
                       ELSE (byte1 % 16) * 256 + byte0

Encode12(fat, num, code) ==
    IF num % 2 = 1
    THEN [fat EXCEPT ![Start12(num)]     = (@ % 16) + (code % 16) * 16,
                     ![Start12(num) + 1] = (code \div 16) % 256]
    ELSE [fat EXCEPT ![Start12(num)]     = code % 256,
                     ![Start12(num) + 1] = (@ \div 16) * 16 + ((code \div 256) % 16)]

(* 16 bits; a larger code ends the process, so none comes here.            *)

Decode16(fat, num) == Word(fat, num * 2)

Encode16(fat, num, code) == SetWord(fat, num * 2, code)

(* 32 bits, of which the upper four belong to nobody and are to be kept.   *)

FAT32_ADDR == 268435456          \* what the address bits count up to, 2^28

Decode32(fat, num) == Dword(fat, num * 4) % FAT32_ADDR

Reserved32(fat, num) == Dword(fat, num * 4) \div FAT32_ADDR

Encode32(fat, num, code) ==
    SetDword(fat, num * 4,
             (code % FAT32_ADDR) + Reserved32(fat, num) * FAT32_ADDR)

-----------------------------------------------------------------------------
(* The numbers that fit into a FAT of some bytes, and the table they make. *)

Entries12(size) == {num \in Nat : Start12(num) + 1 < size}
Entries16(size) == {num \in Nat : num * 2 + 1 < size}
Entries32(size) == {num \in Nat : num * 4 + 3 < size}

Table12(fat, size) == [num \in Entries12(size) |-> Decode12(fat, num)]
Table16(fat, size) == [num \in Entries16(size) |-> Decode16(fat, num)]
Table32(fat, size) == [num \in Entries32(size) |-> Decode32(fat, num)]
==============================================================================
