------------------------------- MODULE FlashUi -------------------------------
(***************************************************************************)
(* The callers of the flash engine: drivers/flash/FlashUi.c (flashing a     *)
(* file and saving the settings, each a loop that drives the engine and     *)
(* shows its progress) and the ways out of the OS that save first           *)
(* (menu/actions/ResetMenuActions.c, xblast/PowerManagement.c).             *)
(* One iteration of a loop is one action: cromwellLoop, Flash_getProgress,  *)
(* executeFlashDriverUI and Flash_executeFlashFSM.                          *)
(***************************************************************************)
EXTENDS FlashEngine

CONSTANTS
  Consoles,        \* [onLPC : isXBlastOnLPC(),
                   \*  noSave : isXBlastOnTSOP(), or an XBE on another modchip]
  UserBanks,       \* banks other than the OS bank
  Checks,          \* what validateOSImage may say of the images at hand
  WriteResults,    \* what Flash_WriteBios may return
  SaveErrors       \* errors with which Flash_SaveXBlastOSSettings may refuse

ASSUME UiAssumption ==
  /\ Consoles \subseteq [onLPC : BOOLEAN, noSave : BOOLEAN]
  /\ "OSBank" \notin UserBanks
  /\ Checks \cup WriteResults \cup SaveErrors \cup BreakErrors
       \cup {"NoError", "UserAbort"} \subseteq EngineErrors

VARIABLES
  console,        \* the hardware that identifyModchipHardware found; never changes
  ui,             \* "menu", in the loop "block" or "save", or "down"
  mustRestart,
  bank,           \* currentFlashBank
  resultSuccess,  \* of SaveXBlastOSSettings
  settings,       \* LPCmodSettings: "clean", "changed", "stored" by a save
  eepromChanged,  \* eeprom differs from origEeprom
  shown,          \* error that FlashPrintResult has put on the screen
  why             \* how the machine went down, and what the user waived

uiVars == <<ui, mustRestart, bank, resultSuccess, settings, eepromChanged, shown, why>>
flashUiVars == <<engine, console, uiVars>>

Init ==
  /\ EngineInit
  /\ console \in Consoles
  /\ ui = "menu" /\ mustRestart = FALSE /\ bank = "OSBank"
  /\ resultSuccess = FALSE /\ settings = "clean" /\ eepromChanged = FALSE
  /\ shown = "nothing" /\ why = "none"

\* Mutant: the bank is released instead.
BankReleased == bank' = IF console.onLPC THEN "NoBank" ELSE bank

OSBankAgain == bank' = IF console.onLPC THEN "OSBank" ELSE bank

-----------------------------------------------------------------------------
(* setBiosJob: the user confirms or not, and the engine takes the job or    *)
(* not. ConfirmDialog returns false for "yes".                              *)

WriteBios(result) ==
  IF result = "NoError" THEN StartJob("WriteBios") ELSE Refuse(result)

Declined == UserAbort /\ UNCHANGED <<mustRestart, bank>>

\* Mutant: a confirmed downgrade is not followed by a restart.
FlashOSNoRestart(check, result) ==
  /\ console.onLPC /\ bank = "OSBank"
  /\ \/ /\ check = "NoError"
        /\ WriteBios(result)
        /\ mustRestart' = (mustRestart \/ result = "NoError")
     \/ /\ check = "DowngradeWarning"
        /\ WriteBios(result)
        /\ UNCHANGED mustRestart
     \/ /\ check = "DowngradeWarning"
        /\ Declined
     \/ /\ check \notin {"NoError", "DowngradeWarning"}
        /\ Refuse(check)
        /\ UNCHANGED mustRestart
  /\ UNCHANGED bank

\* mustRestart is set when the engine reports a pending job.
FlashOS(check, result) ==
  /\ console.onLPC /\ bank = "OSBank"
  /\ \/ /\ check = "NoError"
        /\ WriteBios(result)
        /\ mustRestart' = (mustRestart \/ result = "NoError")
     \/ /\ check = "DowngradeWarning"   \* confirmed, freed and tried again
        /\ WriteBios(result)
        /\ mustRestart' = (mustRestart \/ result = "NoError")
     \/ /\ check = "DowngradeWarning"
        /\ Declined
     \/ /\ check \notin {"NoError", "DowngradeWarning"}
        /\ Refuse(check)
        /\ UNCHANGED mustRestart
  /\ UNCHANGED bank

FlashUserBank(result) ==
  /\ console.onLPC /\ bank # "OSBank"
  /\ WriteBios(result)
  /\ UNCHANGED <<mustRestart, bank>>

FlashActiveBank(result) ==
  /\ ~console.onLPC
  /\ mustRestart' = TRUE
  /\ WriteBios(result)
  /\ UNCHANGED bank

setBiosJob ==
  \/ Declined
  \/ \E result \in WriteResults :
       \/ \E check \in Checks : FlashOS(check, result)
       \/ FlashUserBank(result)
       \/ FlashActiveBank(result)

FlashFileFromBuffer ==
  /\ ui = "menu"
  /\ IF op = "Idle" THEN setBiosJob ELSE UNCHANGED <<engine, mustRestart, bank>>
  /\ ui' = "block"
  /\ shown' = "nothing"
  /\ UNCHANGED <<resultSuccess, settings, eepromChanged, why>>

-----------------------------------------------------------------------------
(* The two loops.                                                           *)

\* Flash_executeFlashFSM, when nobody has freed the job in this iteration.
EngineWorks ==
  \/ Run
  \/ Finish
  \/ \E e \in BreakErrors : Break(e)

WentDown(reason) == ui' = "down" /\ why' = reason

\* FlashPrintResult: a pending restart comes before any message.
FlashPrintResult(reason) ==
  \/ /\ mustRestart
     /\ WentDown(reason)
     /\ UNCHANGED shown
  \/ /\ ~mustRestart
     /\ shown' = err
     /\ UNCHANGED ui

\* Mutant: the loop ends as soon as the job works.
blockOverEarly ==
  /\ ui = "block" /\ op \in {"Idle", "Working"}
  /\ ui' = "menu"
  /\ OSBankAgain
  /\ UNCHANGED <<engine, mustRestart, resultSuccess, settings, eepromChanged, shown, why>>

blockOver ==
  /\ ui = "block" /\ op = "Idle"
  /\ ui' = "menu"
  /\ OSBankAgain
  /\ UNCHANGED <<engine, mustRestart, resultSuccess, settings, eepromChanged, shown, why>>

\* Mutant: a result is reported and never freed.
blockReportsForever ==
  /\ ui = "block" /\ task = "WriteBios" /\ op \in {"Completed", "Error"}
  /\ FlashPrintResult("flashed")
  /\ ~mustRestart => UNCHANGED why
  /\ UNCHANGED <<engine, bank, mustRestart, resultSuccess, settings, eepromChanged>>

blockReports ==
  /\ ui = "block" /\ task = "WriteBios"
  /\ FlashPrintResult("flashed")
  /\ ~mustRestart => UNCHANGED why
  /\ FreeJob
  /\ OSBankAgain
  /\ UNCHANGED <<mustRestart, resultSuccess, settings, eepromChanged>>

blockWorks ==
  /\ ui = "block"
  /\ EngineWorks
  /\ UNCHANGED uiVars

SaveXBlastOSSettings ==
  /\ ui = "menu"
  /\ settings = "changed" /\ ~console.noSave
  /\ OSBankAgain
  /\ \/ StartJob("WriteSettings")
     \/ \E e \in SaveErrors : FailAtOnce(e)
  /\ ui' = "save"
  /\ resultSuccess' = FALSE
  /\ UNCHANGED <<mustRestart, settings, eepromChanged, shown, why>>

canPowerDown == op = "Idle"

\* SlowReboot and its like, after SaveXBlastOSSettings returned true:
\* assertWriteEEPROM, then a restart that canPowerDown allows.
Leave ==
  /\ canPowerDown
  /\ eepromChanged' = FALSE

NothingToSave ==
  /\ ui = "menu"
  /\ settings = "clean" \/ console.noSave
  /\ Leave
  /\ WentDown("saved")
  /\ UNCHANGED <<engine, mustRestart, bank, resultSuccess, settings, shown>>

\* Mutant: the result of the save is not looked at.
saveOverAnyway ==
  /\ ui = "save" /\ op = "Idle"
  /\ Leave
  /\ ui' = "down"
  /\ why' = IF why = "waived" THEN why ELSE "saved"
  /\ UNCHANGED <<engine, mustRestart, bank, resultSuccess, settings, shown>>

saveOver ==
  /\ ui = "save" /\ op = "Idle"
  /\ IF resultSuccess
       THEN /\ Leave
            /\ ui' = "down"
            /\ why' = IF why = "waived" THEN why ELSE "saved"
       ELSE /\ ui' = "menu"
            /\ UNCHANGED <<eepromChanged, why>>
  /\ UNCHANGED <<engine, mustRestart, bank, resultSuccess, settings, shown>>

\* Mutant: a completed save is left for the next iteration to free.
saveCompletedNotFreed ==
  /\ ui = "save" /\ task = "WriteSettings" /\ op = "Completed"
  /\ settings' = "stored"
  /\ resultSuccess' = TRUE
  /\ UNCHANGED <<engine, bank, ui, mustRestart, eepromChanged, shown, why>>

saveCompleted ==
  /\ ui = "save" /\ task = "WriteSettings" /\ op = "Completed"
  /\ FreeJob
  /\ OSBankAgain
  /\ settings' = "stored"
  /\ resultSuccess' = TRUE
  /\ UNCHANGED <<ui, mustRestart, eepromChanged, shown, why>>

\* A failed erase is critical; after any other error the user may continue.
saveFailed ==
  /\ ui = "save" /\ task = "WriteSettings" /\ op = "Error"
  /\ FlashPrintResult("saveFailed")
  /\ IF ~mustRestart
       THEN \E goOn \in BOOLEAN :
              /\ resultSuccess' = (err # "FailedErase" /\ goOn)
              /\ why' = IF resultSuccess' THEN "waived" ELSE why
       ELSE UNCHANGED resultSuccess
  /\ FreeJob
  /\ OSBankAgain
  /\ UNCHANGED <<mustRestart, settings, eepromChanged>>

saveWorks ==
  /\ ui = "save"
  /\ EngineWorks
  /\ resultSuccess' = TRUE
  /\ UNCHANGED <<ui, mustRestart, bank, settings, eepromChanged, shown, why>>

\* executeFlashDriverUI knows no task to report on, and the engine is at rest.
saveSpins ==
  /\ ui = "save" /\ task = "NoTask" /\ op = "Error"
  /\ resultSuccess' = TRUE
  /\ UNCHANGED <<engine, ui, mustRestart, bank, settings, eepromChanged, shown, why>>

-----------------------------------------------------------------------------
(* The rest of the menus, and the machine.                                  *)

BankSelected(b) ==
  /\ ui = "menu" /\ console.onLPC
  /\ bank' = b
  /\ UNCHANGED <<engine, ui, mustRestart, resultSuccess, settings, eepromChanged,
                 shown, why>>

\* A menu edits LPCmodSettings, perhaps back to LPCmodSettingsOrigFromFlash.
SettingChanged ==
  /\ ui = "menu"
  /\ settings' \in {"clean", "changed"}
  /\ UNCHANGED <<engine, ui, mustRestart, bank, resultSuccess, eepromChanged, shown, why>>

\* BootShowFlashDevice: Flash_ReadDeviceInfo frees the engine.
BootShowFlashDevice ==
  /\ ui = "menu"
  /\ Reset
  /\ OSBankAgain
  /\ UNCHANGED <<ui, mustRestart, resultSuccess, settings, eepromChanged, shown, why>>

EepromEdited ==
  /\ ui = "menu"
  /\ eepromChanged' = TRUE
  /\ UNCHANGED <<engine, ui, mustRestart, bank, resultSuccess, settings, shown, why>>

LeaveNoSave ==
  /\ ui = "menu" /\ canPowerDown
  /\ WentDown("noSave")
  /\ UNCHANGED <<engine, mustRestart, bank, resultSuccess, settings, eepromChanged, shown>>

\* The SMC's power-down interrupt is served whatever the engine does.
PowerButton ==
  /\ ui # "down"
  /\ WentDown("button")
  /\ UNCHANGED <<engine, mustRestart, bank, resultSuccess, settings, eepromChanged, shown>>

PowerOn ==
  /\ ui = "down"
  /\ Reset
  /\ ui' = "menu" /\ mustRestart' = FALSE /\ bank' = "OSBank"
  /\ resultSuccess' = FALSE /\ settings' = "clean" /\ eepromChanged' = FALSE
  /\ shown' = "nothing" /\ why' = "none"

SaveLoop ==
  /\ saveOver \/ saveCompleted \/ saveFailed \/ saveWorks \/ saveSpins
  /\ UNCHANGED console
BlockLoop ==
  /\ blockOver \/ blockReports \/ blockWorks
  /\ UNCHANGED console

Next ==
  \/ BlockLoop
  \/ SaveLoop
  \/ /\ \/ FlashFileFromBuffer
        \/ SaveXBlastOSSettings \/ NothingToSave
        \/ \E b \in UserBanks \cup {"OSBank"} : BankSelected(b)
        \/ SettingChanged \/ BootShowFlashDevice \/ EepromEdited \/ LeaveNoSave
        \/ PowerButton \/ PowerOn
     /\ UNCHANGED console

Spec == Init /\ [][Next]_flashUiVars

\* The loops run, and a job of the engine ends (FlashDriver's JobTerminates).
FairSpec == Spec /\ WF_flashUiVars(BlockLoop) /\ WF_flashUiVars(SaveLoop)
-----------------------------------------------------------------------------
(* Correctness.                                                             *)

TypeOK ==
  /\ op \in {"Idle", "PendingOp", "Working", "Completed", "Error"}
  /\ task \in EngineTasks \cup {"NoTask"} /\ err \in EngineErrors
  /\ console \in Consoles /\ ui \in {"menu", "block", "save", "down"}
  /\ mustRestart \in BOOLEAN /\ resultSuccess \in BOOLEAN /\ eepromChanged \in BOOLEAN
  /\ bank \in UserBanks \cup {"OSBank"}
  /\ settings \in {"clean", "changed", "stored"}
  /\ shown \in EngineErrors \cup {"nothing"}
  /\ why \in {"none", "saved", "waived", "noSave", "flashed", "saveFailed", "button"}

\* No loop of FlashUi.c returns to the menus with a job under way: the calls there
\* find the engine idle, and canPowerDown never keeps a menu from leaving.
MenuIsQuiet == ui = "menu" => op = "Idle" /\ task = "NoTask"

\* An exit that saves (SlowReboot, QuickReboot, PowerOff, BootModBios...) loses
\* nothing: the settings were stored, unchanged or have nowhere to go, unless the
\* user chose to continue without them, and the EEPROM was written.
ExitCommits ==
  ui = "down" /\ why \in {"saved", "waived"} =>
    /\ settings = "changed" => why = "waived" \/ console.noSave
    /\ ~eepromChanged

\* A successful flash restarts the console exactly when what was written is the
\* bank the OS runs from, downgrades included; without an XBlast chip it always is.
RestartsExactlyAfterOS ==
  [][ui = "block" /\ op = "Completed" /\ op' = "Idle" =>
       (ui' = "down" <=> bank = "OSBank")]_flashUiVars

\* blockExecuteFlashJob returns or restarts the console.
FlashingEnds == ui = "block" ~> ui # "block"

\* A save that was started is reported and SaveXBlastOSSettings returns: its
\* callers go on to restart or back to the menu.
StartedSaveEnds == ui = "save" /\ task = "WriteSettings" ~> ui # "save"

\* Every save returns, one that is refused at once included: executeFlashDriverUI
\* asks "Settings not saved. Continue anyway?".
SaveEnds == ui = "save" ~> ui # "save"

\* An image that is refused is reported: FlashPrintResult has a message for a file
\* size error, an MD5 mismatch and an invalid update file.
RefusalShown == ui = "menu" => err = "NoError"

\* A user who declines to flash is told "Flashing aborted."
AbortShown ==
  [][ui = "block" /\ err = "UserAbort" /\ op' = "Idle" => shown' = "UserAbort"]_flashUiVars

=============================================================================
