------------------------------ MODULE MCFlashUi ------------------------------
(* Instances of FlashUi for TLC.                                            *)
EXTENDS FlashUi

MCErrors == {"NoError", "UserAbort", "FailedErase", "FailedVerify", "UnknownFlash",
             "WriteProtect", "FileSizeError", "InvalidUpdateFile", "MD5Mismatch",
             "FlashContentError", "DowngradeWarning", "UndefinedError"}
\* An XBlast chip on LPC, another modchip, and one with nowhere to save.
XBlastLpc == [onLPC |-> TRUE, noSave |-> FALSE]
OtherModchip == [onLPC |-> FALSE, noSave |-> FALSE]
NowhereToSave == [onLPC |-> FALSE, noSave |-> TRUE]
MCConsoles == {XBlastLpc, OtherModchip, NowhereToSave}
MCBanks == {"512Bank", "256Bank"}
MCChecks == {"NoError", "FileSizeError", "InvalidUpdateFile", "MD5Mismatch",
             "DowngradeWarning"}
MCWriteResults == {"NoError", "FileSizeError", "UndefinedError"}
MCSaveErrors == {"FlashContentError", "UnknownFlash", "WriteProtect"}
=============================================================================
