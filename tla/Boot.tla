-------------------------------- MODULE Boot --------------------------------
(***************************************************************************)
(* The bootloader (SOABoot/APP/SOA/USER/app/main.c) and the part of the     *)
(* application that prepares an upgrade for it.  The application downloads  *)
(* an image into the SPI flash and records NEED_UPDAGRADE in sysconfig;     *)
(* after the next reset the bootloader checks the image, copies it page by  *)
(* page over the application, records FINISH_UPDAGRADE and jumps through    *)
(* another reset.  Power may fail at any step, and an erase or a program of *)
(* the internal flash may fail.                                            *)
(*                                                                         *)
(* sysconfig is read back as Sds keeps it: atomically (StableStore).  A     *)
(* page of internal flash holds a page of some image, is Erased or is Torn; *)
(* Corrupt is any content of the SPI flash that fails _app_crc_is_ok.       *)
(***************************************************************************)
EXTENDS Integers

CONSTANTS Images,   \* firmware images whose CRCs are right
          Size,     \* pages an image takes, header page included
          MaxPages, \* pages of internal flash behind the bootloader
          Corrupt, Erased, Torn

Pages      == 1 .. MaxPages
VectorPage == 2 \* page 1 ends with the 64 bytes of Img_head, APP_ADDR follows

ASSUME BootAssumption ==
  /\ MaxPages \in Nat
  /\ Size \in [Images -> 2 .. MaxPages]
  /\ Corrupt \notin Images
  /\ Erased \notin Images /\ Torn \notin Images /\ Erased # Torn

VARIABLES flag, \* sysconfig.upgradeState
          ext,  \* the image area of the SPI flash
          app,  \* the application's pages of internal flash
          jump, \* _jump_to_app, kept by a reset and lost with the power
          mode, \* what the processor executes
          page, \* page that is being erased or programmed
          upg,  \* the update service of the application
          ind   \* a MSG_ID_UPGRADE_IND is queued for it

store  == <<flag, ext, app>>
update == <<upg, ind>>
vars   == <<flag, ext, app, jump, mode, page, upg, ind>>

Flags == {"NO_UPDAGRADE", "NEED_UPDAGRADE", "FINISH_UPDAGRADE", "SELF_TEST_FAIL"}
Modes == {"reset", "event", "erase", "copy", "delay", "setFinish", "setFail", "app"}

TypeOK ==
  /\ flag \in Flags
  /\ ext \in Images \cup {Corrupt}
  /\ app \in [Pages -> Images \cup {Erased, Torn}]
  /\ jump \in BOOLEAN
  /\ mode \in Modes
  /\ page \in Pages
  /\ upg \in {"idle", "loading", "done"}
  /\ ind \in BOOLEAN
  /\ mode \in {"erase", "copy"} => ext \in Images /\ page <= Size[ext]

\* The whole of img is in the internal flash.
Whole(img) == img \in Images /\ \A p \in 1 .. Size[img] : app[p] = img

\* Boards leave the factory with an application and an erased SPI flash.
Init ==
  /\ flag = "NO_UPDAGRADE" /\ ext = Corrupt
  /\ \E img \in Images : app = [p \in Pages |-> IF p <= Size[img] THEN img ELSE Erased]
  /\ jump = FALSE /\ mode = "reset" /\ page = 1
  /\ upg = "idle" /\ ind = FALSE

-----------------------------------------------------------------------------
(* main, User_EventProcess                                                 *)

Goto(from, to) == mode = from /\ mode' = to

\* SDS_Poll may time out or refuse; the caller does not look.
SetFlag(f) == flag' \in {f, flag}

\* JumpToApp: the flag, then a reset.
JumpToApp == jump' = TRUE /\ mode' = "reset"

\* _JumpToApp looks at the stack pointer of the application only: a torn
\* vector page may have one.
RunApp ==
  /\ Goto("reset", "app")
  /\ jump /\ app[VectorPage] # Erased
  /\ jump' = FALSE
  /\ UNCHANGED <<store, page, update>>

StartBoot ==
  /\ Goto("reset", "event")
  /\ ~jump \/ app[VectorPage] \in {Erased, Torn}
  /\ jump' = FALSE
  /\ UNCHANGED <<store, page, update>>

NothingToDo ==
  /\ mode = "event" /\ flag \in {"NO_UPDAGRADE", "FINISH_UPDAGRADE"}
  /\ JumpToApp
  /\ UNCHANGED <<store, page, update>>

\* Fault: FINISH_UPDAGRADE is recorded before the copy.
FinishFirst ==
  /\ Goto("event", "erase")
  /\ flag = "NEED_UPDAGRADE" /\ ext \in Images
  /\ flag' = "FINISH_UPDAGRADE"
  /\ UNCHANGED <<ext, app, jump, page, update>>

CrcOk ==
  /\ Goto("event", "erase")
  /\ flag = "NEED_UPDAGRADE" /\ ext \in Images
  /\ UNCHANGED <<store, jump, page, update>>

\* Fault: a bad image is tried again instead of being given up.
CrcBadRetried ==
  /\ Goto("event", "delay")
  /\ flag = "NEED_UPDAGRADE" /\ ext = Corrupt
  /\ UNCHANGED <<store, jump, page, update>>

CrcBad ==
  /\ Goto("event", "setFail")
  /\ flag = "NEED_UPDAGRADE" /\ ext = Corrupt
  /\ UNCHANGED <<store, jump, page, update>>

SelfTestFailed ==
  /\ mode = "setFail"
  /\ SetFlag("SELF_TEST_FAIL")
  /\ JumpToApp
  /\ UNCHANGED <<ext, app, page, update>>

-----------------------------------------------------------------------------
(* copy_flash_to_app                                                       *)

\* Fault: one page too many, or one too few.
AdvanceLate(next) == IF page <= Size[ext] THEN page' = page + 1 /\ mode' = mode
                                          ELSE page' = 1 /\ mode' = next
AdvanceEarly(next) == IF page < Size[ext] - 1 THEN page' = page + 1 /\ mode' = mode
                                              ELSE page' = 1 /\ mode' = next

\* The next page, or the next mode after the last one.
Advance(next) == IF page < Size[ext] THEN page' = page + 1 /\ mode' = mode
                                     ELSE page' = 1 /\ mode' = next

ErasePage ==
  /\ mode = "erase"
  /\ app' = [app EXCEPT ![page] = Erased]
  /\ Advance("copy")
  /\ UNCHANGED <<flag, ext, jump, update>>

\* HAL_FLASHEx_Erase stops at the page; its result is ignored.
EraseFails ==
  /\ Goto("erase", "copy")
  /\ page' = 1
  /\ app' \in {app, [app EXCEPT ![page] = Torn]}
  /\ UNCHANGED <<flag, ext, jump, update>>

\* Fault: a page that is not erased is taken for the one that was wanted.
SkipProgrammed ==
  /\ mode = "copy"
  /\ app' = [app EXCEPT ![page] = IF @ = Erased THEN ext ELSE @]
  /\ Advance("setFinish")
  /\ UNCHANGED <<flag, ext, jump, update>>

\* Words that already have their value are skipped.
ProgramPage ==
  /\ mode = "copy" /\ app[page] \in {Erased, ext}
  /\ app' = [app EXCEPT ![page] = ext]
  /\ Advance("setFinish")
  /\ UNCHANGED <<flag, ext, jump, update>>

\* Fault: the result of HAL_FLASH_Program is ignored.
ProgramFailsIgnored ==
  /\ mode = "copy" /\ app[page] # ext
  /\ app' = [app EXCEPT ![page] = Torn]
  /\ Advance("setFinish")
  /\ UNCHANGED <<flag, ext, jump, update>>

\* The flash refuses to program what is not erased.
ProgramRefused ==
  /\ Goto("copy", "delay")
  /\ app[page] \notin {Erased, ext}
  /\ page' = 1
  /\ UNCHANGED <<store, jump, update>>

ProgramFails ==
  /\ Goto("copy", "delay")
  /\ app[page] = Erased
  /\ app' = [app EXCEPT ![page] = Torn]
  /\ page' = 1
  /\ UNCHANGED <<flag, ext, jump, update>>

Retry ==
  /\ Goto("delay", "event")
  /\ UNCHANGED <<store, jump, page, update>>

CopySucceeded ==
  /\ mode = "setFinish"
  /\ SetFlag("FINISH_UPDAGRADE")
  /\ JumpToApp
  /\ UNCHANGED <<ext, app, page, update>>

-----------------------------------------------------------------------------
(* The application                                                         *)

AppStep == mode = "app" /\ UNCHANGED <<app, jump, mode, page>>

\* The data service erases the SPI flash on an upgrade request, whatever the
\* update service is doing; the message may not fit its queue.
EraseExt ==
  /\ AppStep
  /\ ext' = Corrupt /\ ind' \in {ind, TRUE}
  /\ UNCHANGED <<flag, upg>>

UpgradeInd ==
  /\ AppStep
  /\ ind /\ upg = "idle"
  /\ ind' = FALSE /\ upg' = "loading"
  /\ UNCHANGED <<flag, ext>>

Packet ==
  /\ AppStep
  /\ upg = "loading" /\ ext' = Corrupt
  /\ UNCHANGED <<flag, update>>

\* The result of sFlash_WriteBytes and the CRC of the image are not looked at.
LastPacket ==
  /\ AppStep
  /\ upg = "loading" /\ upg' = "done"
  /\ ext' \in Images \cup {Corrupt}
  /\ UNCHANGED <<flag, ind>>

NeedUpgrade ==
  /\ AppStep
  /\ upg = "done" /\ upg' = "idle"
  /\ SetFlag("NEED_UPDAGRADE")
  /\ UNCHANGED <<ext, ind>>

AbortUpgrade ==
  /\ AppStep
  /\ upg # "idle" /\ upg' = "idle"
  /\ UNCHANGED <<flag, ext, ind>>

\* report_upgradeFinish on a MSG_ID_LOG_IN, which waits while a download runs.
LogIn ==
  /\ AppStep
  /\ upg = "idle" /\ SetFlag("NO_UPDAGRADE")
  /\ UNCHANGED <<ext, update>>

-----------------------------------------------------------------------------
\* A page that was being erased or programmed is left in any state.
Interrupted ==
  IF mode = "erase" \/ (mode = "copy" /\ app[page] = Erased)
  THEN {app, [app EXCEPT ![page] = Torn]} ELSE {app}

\* The application's tasks write sysconfig under two locks, which Sds shows
\* may leave no readable copy: the next start then finds the defaults.
ResetFlag == IF mode = "app" THEN {flag, "NO_UPDAGRADE"} ELSE {flag}

\* Power fails, the watchdog bites, or the application resets the processor.
PowerFails ==
  /\ mode' = "reset" /\ jump' = FALSE /\ page' = 1
  /\ upg' = "idle" /\ ind' = FALSE
  /\ app' \in Interrupted /\ flag' \in ResetFlag
  /\ UNCHANGED ext

Boot == \/ RunApp \/ StartBoot \/ NothingToDo \/ CrcOk \/ CrcBad \/ SelfTestFailed
        \/ ErasePage \/ ProgramPage \/ ProgramRefused \/ Retry \/ CopySucceeded
App  == \/ EraseExt \/ UpgradeInd \/ Packet \/ LastPacket \/ NeedUpgrade
        \/ AbortUpgrade \/ LogIn
Fault == EraseFails \/ ProgramFails \/ PowerFails

Next == Boot \/ App \/ Fault

Spec     == Init /\ [][Next]_vars
FairSpec == Spec /\ WF_vars(Boot)

-----------------------------------------------------------------------------
\* The processor never executes a half-copied application.
RunsWholeImage == mode = "app" => \E img \in Images : Whole(img)

\* Whenever the application is not whole, what is needed to make it whole
\* again is in place: a good image, and the flag that makes the bootloader
\* copy it.
Recoverable ==
  (\A img \in Images : ~Whole(img)) =>
    flag = "NEED_UPDAGRADE" /\ ext \in Images /\ ~jump

\* FINISH_UPDAGRADE is recorded only when the downloaded image is the one
\* that will run.
FinishMeansInstalled ==
  [][flag # "FINISH_UPDAGRADE" /\ flag' = "FINISH_UPDAGRADE" => Whole(ext)]_vars

\* After the last fault the bootloader gets to an application, whatever state
\* the faults left, unless it found SELF_TEST_FAIL: then it waits for ever.
EndsInApp ==
  \/ []<><<Fault>>_vars
  \/ <>[](mode = "event" /\ flag = "SELF_TEST_FAIL")
  \/ []<>(mode = "app")

\* The image that will run once the bootloader is done.
Installed == IF \E img \in Images : Whole(img) THEN app[1] ELSE ext

\* Page by page copies, retries and restarts amount to an atomic upgrade.
Atomic == INSTANCE Firmware
            WITH installed <- Installed, staged <- ext, running <- (mode = "app")
ImplementsFirmware == Atomic!Spec

=============================================================================
