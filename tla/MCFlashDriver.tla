---------------------------- MODULE MCFlashDriver ----------------------------
(***************************************************************************)
(* Instances of FlashDriver for TLC. A cell stands for 16KB: a 64KB block  *)
(* is 4 cells, a 256KB image 16; a 4KB sector is drawn with 2 cells so that *)
(* the two cells of the settings structure fit in it.                      *)
(***************************************************************************)
EXTENDS FlashDriver

MCBits == {0, 1}
Full == MCBits

\* Bytes that hold a BiosIdentifier: {} belongs to a version 2 image whose
\* settings start at 192KB, {0} to a version 1 image (BiosSize is 256KB).
NoBios == [header |-> 255, named |-> FALSE, saveBit |-> TRUE, biosSize |-> 1000]
MCBiosIdOf ==
  [b \in SUBSET MCBits |->
     CASE b = {}  -> [header |-> 2, named |-> TRUE, saveBit |-> TRUE, biosSize |-> 10]
       [] b = {0} -> [header |-> 1, named |-> TRUE, saveBit |-> TRUE, biosSize |-> 16]
       [] OTHER   -> NoBios]

\* The same with {} in an image of 224KB.
LargeBiosIdOf == [MCBiosIdOf EXCEPT ![{}].biosSize = 14]

\* Settings contents of the current version; no CRC is an erased byte.
MCPayloads == {{}, {0}, {1}}
MCCrc == [p \in MCPayloads |-> CASE p = {} -> {0} [] p = {0} -> {1} [] OTHER -> {}]

Image(size, filler, id, md5ok) ==
  [size |-> size, md5ok |-> md5ok,
   data |-> [i \in 0 .. (size - 1) |-> IF i % 16 = 15 THEN id ELSE
                                       IF i % 16 < 12 THEN filler ELSE Full]]
NewOS == Image(16, {1}, {}, TRUE)
OldOS == Image(16, {1}, {0}, TRUE)
BadOS == Image(16, {}, {}, FALSE)
HalfBank == Image(8, {1}, {1}, TRUE)

\* A chip with the OS in the bank at base, settings p stored in it.
Installed(length, base, p) ==
  [c \in 0 .. (length - 1) |->
     CASE c < base      -> {0}
       [] c = base + 15 -> {}
       [] c = base + 12 -> p
       [] c = base + 13 -> MCCrc[p]
       [] c = base + 14 -> Full
       [] OTHER         -> {0}]

MCDefault == {1}

AnyErase == [m \in {"Sector", "Block", "Chip"} |-> {"ignored", "erases"}]

\* A 256KB chip behind a plain modchip.
PlainBanks == {"OSBank"}
PlainBase == [b \in PlainBanks |-> 0]
PlainSize == [b \in PlainBanks |-> 16]
PlainFlash == {Installed(16, 0, {0}), Installed(16, 0, {1})}
Plain512Size == [b \in PlainBanks |-> 32]
Plain512Flash == {Installed(32, 0, {0})}
PlainImages == {HalfBank, OldOS}

\* An XBlast chip on LPC: a 512KB bank, a 256KB bank and the OS bank.
LpcBanks == {"512Bank", "256Bank", "OSBank"}
LpcBase == [b \in LpcBanks |-> CASE b = "512Bank" -> 0 [] b = "256Bank" -> 32
                                 [] OTHER -> 48]
LpcSize == [b \in LpcBanks |-> IF b = "512Bank" THEN 32 ELSE 16]
LpcFlash == {Installed(64, 48, {0})}
LpcImages == {NewOS, OldOS, BadOS, HalfBank}

\* Chips of which only the chip erase can be relied on, that know only the chip
\* erase, and that are write-protected.
ChipErases == [AnyErase EXCEPT !["Chip"] = {"erases"}]
ChipEraseOnly == [m \in {"Sector", "Block", "Chip"} |->
                    IF m = "Chip" THEN {"erases"} ELSE {"ignored"}]
ProtectedErase == [m \in {"Sector", "Block", "Chip"} |-> {"protected"}]
=============================================================================
