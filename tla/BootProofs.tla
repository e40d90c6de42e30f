----------------------------- MODULE BootProofs -----------------------------
(***************************************************************************)
(* Proofs about Boot, for any set of images, any sizes and any number of    *)
(* pages: the inductive invariant, the safety properties, and that copying  *)
(* page by page implements the atomic upgrade of Firmware.                 *)
(***************************************************************************)
EXTENDS Boot, TLAPS

SomeWhole == \E img \in Images : Whole(img)

\* The bootloader touches the internal flash only while a good image is
\* flagged for copying, so Recoverable is kept by every partial copy; the
\* pages behind the one being programmed are already the new ones.
ModeInv ==
  /\ mode \in {"erase", "copy", "delay"} => flag = "NEED_UPDAGRADE" /\ ext \in Images
  /\ mode \notin {"erase", "copy"} => page = 1
  /\ mode = "copy" => \A p \in 1 .. page - 1 : app[p] = ext
  /\ mode = "setFinish" => Whole(ext)
  /\ mode = "app" => SomeWhole
  /\ mode = "setFail" => ext = Corrupt
  /\ jump => mode = "reset"

IInv == TypeOK /\ Recoverable /\ ModeInv

USE DEF Pages, VectorPage, Flags, Modes

\* A board leaves the factory in a state of the invariant.
LEMMA InitOK == Init => IInv
<1> USE BootAssumption
<1> SUFFICES ASSUME Init PROVE IInv
  OBVIOUS
<1> PICK img \in Images : app = [p \in Pages |-> IF p <= Size[img] THEN img ELSE Erased]
  BY DEF Init
<1>1. Size[img] \in 2 .. MaxPages
  OBVIOUS
<1>2. Whole(img)
  BY <1>1 DEF Whole
<1>3. TypeOK
  <2>1. MaxPages \in Nat /\ 1 \in Pages
    BY <1>1
  <2>2. app \in [Pages -> Images \cup {Erased, Torn}]
    OBVIOUS
  <2> QED
    BY <2>1, <2>2 DEF Init, TypeOK
<1> QED
  BY <1>2, <1>3 DEF Init, IInv, Recoverable, ModeInv, SomeWhole

\* Steps that leave the flash of the device alone.
LEMMA StoreUnchanged ==
  ASSUME IInv, UNCHANGED <<ext, app>>
  PROVE  /\ \A img : Whole(img)' = Whole(img)
         /\ SomeWhole' = SomeWhole
BY DEF Whole, SomeWhole

\* The steps of main and User_EventProcess.
LEMMA DispatchOK ==
  ASSUME IInv,
         RunApp \/ StartBoot \/ NothingToDo \/ CrcOk \/ CrcBad \/ SelfTestFailed
                \/ Retry \/ CopySucceeded
  PROVE  IInv'
<1> USE BootAssumption
<1> USE DEF IInv, TypeOK, Recoverable, ModeInv, SomeWhole, Whole, Goto, SetFlag,
            JumpToApp, store, update
<1>1. CASE RunApp
  BY <1>1 DEF RunApp
<1>2. CASE StartBoot
  BY <1>2 DEF StartBoot
<1>3. CASE NothingToDo
  BY <1>3 DEF NothingToDo
<1>4. CASE CrcOk
  BY <1>4 DEF CrcOk
<1>5. CASE CrcBad
  BY <1>5 DEF CrcBad
<1>6. CASE SelfTestFailed
  BY <1>6 DEF SelfTestFailed
<1>7. CASE Retry
  BY <1>7 DEF Retry
<1>8. CASE CopySucceeded
  BY <1>8 DEF CopySucceeded
<1> QED
  BY <1>1, <1>2, <1>3, <1>4, <1>5, <1>6, <1>7, <1>8

\* The steps of copy_flash_to_app, failures included.
LEMMA CopyOK ==
  ASSUME IInv,
         ErasePage \/ EraseFails \/ ProgramPage \/ ProgramRefused \/ ProgramFails
  PROVE  IInv'
<1> USE BootAssumption
<1>0. /\ flag = "NEED_UPDAGRADE" /\ ext \in Images /\ jump = FALSE
      /\ page \in 1 .. Size[ext] /\ Size[ext] \in 2 .. MaxPages
      /\ UNCHANGED <<flag, ext, jump, upg, ind>>
  BY DEF IInv, TypeOK, ModeInv, ErasePage, EraseFails, ProgramPage, ProgramRefused,
         ProgramFails, Goto, update, store
<1>1. app' \in [Pages -> Images \cup {Erased, Torn}]
  BY <1>0 DEF IInv, TypeOK, ErasePage, EraseFails, ProgramPage, ProgramRefused,
              ProgramFails, store
<1>2. /\ mode' \in {"erase", "copy", "delay", "setFinish"}
      /\ page' \in 1 .. Size[ext]
      /\ mode' \notin {"erase", "copy"} => page' = 1
  BY <1>0 DEF IInv, TypeOK, ErasePage, EraseFails, ProgramPage, ProgramRefused,
              ProgramFails, Goto, Advance
<1>3. TypeOK'
  BY <1>0, <1>1, <1>2 DEF IInv, TypeOK
<1>4. Recoverable'
  BY <1>0 DEF Recoverable
<1>5. ASSUME mode' \in {"copy", "setFinish"}
      PROVE  \A p \in 1 .. (IF mode' = "copy" THEN page' - 1 ELSE Size[ext]) : app'[p] = ext
  <2>1. CASE ErasePage \/ EraseFails
    BY <1>0, <1>5, <2>1 DEF ErasePage, EraseFails, Goto, Advance
  <2>2. CASE ProgramPage
    <3>1. \A p \in 1 .. page : app'[p] = ext
      BY <1>0, <2>2 DEF ProgramPage, IInv, TypeOK, ModeInv
    <3> QED
      BY <1>0, <1>5, <2>2, <3>1 DEF ProgramPage, Advance
  <2>3. CASE ProgramRefused \/ ProgramFails
    BY <1>5, <2>3 DEF ProgramRefused, ProgramFails, Goto
  <2> QED
    BY <2>1, <2>2, <2>3
<1>6. ModeInv'
  BY <1>0, <1>2, <1>5 DEF ModeInv, Whole
<1> QED
  BY <1>3, <1>4, <1>6 DEF IInv

\* The steps of the application, which never touch its own pages.
LEMMA AppOK ==
  ASSUME IInv, App
  PROVE  IInv'
<1>1. /\ mode = "app" /\ SomeWhole /\ UNCHANGED <<app, jump, mode, page>>
  BY DEF App, EraseExt, UpgradeInd, Packet, LastPacket, NeedUpgrade, AbortUpgrade,
         LogIn, AppStep, IInv, ModeInv
<1>2. TypeOK'
  BY <1>1 DEF App, EraseExt, UpgradeInd, Packet, LastPacket, NeedUpgrade, AbortUpgrade,
              LogIn, SetFlag, update, IInv, TypeOK
<1>3. SomeWhole'
  BY <1>1 DEF SomeWhole, Whole
<1> QED
  BY <1>1, <1>2, <1>3 DEF IInv, Recoverable, ModeInv, SomeWhole

\* A power failure at any instant.
LEMMA PowerOK ==
  ASSUME IInv, PowerFails
  PROVE  IInv'
<1> USE BootAssumption
<1>1. TypeOK'
  <2>1. 1 \in Pages
    BY DEF IInv, TypeOK
  <2>2. app' \in [Pages -> Images \cup {Erased, Torn}]
    BY DEF IInv, TypeOK, PowerFails, Interrupted
  <2>3. flag' \in Flags /\ ext' \in Images \cup {Corrupt}
    BY DEF IInv, TypeOK, PowerFails, ResetFlag
  <2> QED
    BY <2>1, <2>2, <2>3 DEF TypeOK, PowerFails
<1>2. CASE mode \in {"erase", "copy"}
  BY <1>1, <1>2 DEF IInv, TypeOK, Recoverable, ModeInv, PowerFails, ResetFlag
<1>3. CASE mode \notin {"erase", "copy"}
  <2>1. app' = app /\ ext' = ext /\ mode' = "reset" /\ jump' = FALSE /\ page' = 1
    BY <1>3 DEF PowerFails, Interrupted
  <2>2. CASE mode = "app"
    <3>1. SomeWhole'
      BY <2>1, <2>2 DEF IInv, ModeInv, SomeWhole, Whole
    <3> QED
      BY <1>1, <2>1, <3>1 DEF IInv, Recoverable, ModeInv, SomeWhole
  <2>3. CASE mode # "app"
    BY <1>1, <2>1, <2>3 DEF IInv, Recoverable, ModeInv, Whole, PowerFails, ResetFlag
  <2> QED
    BY <2>2, <2>3
<1> QED
  BY <1>2, <1>3

LEMMA NextOK == IInv /\ [Next]_vars => IInv'
<1> SUFFICES ASSUME IInv, [Next]_vars PROVE IInv'
  OBVIOUS
<1>1. CASE Next
  BY <1>1, DispatchOK, CopyOK, AppOK, PowerOK DEF Next, Boot, Fault
<1>2. CASE UNCHANGED vars
  BY <1>2 DEF vars, IInv, TypeOK, Recoverable, ModeInv, SomeWhole, Whole
<1> QED
  BY <1>1, <1>2

THEOREM Invariance == Spec => []IInv
BY InitOK, NextOK, PTL DEF Spec

\* Every variable keeps its type: in particular the page that is erased or
\* programmed is always one of the image (copy_flash_to_app).
THEOREM TypeCorrect == Spec => []TypeOK
<1>1. IInv => TypeOK
  BY DEF IInv
<1> QED
  BY <1>1, Invariance, PTL

\* The processor never runs a half-copied application (_JumpToApp only looks
\* at its stack pointer).
THEOREM NeverRunsHalf == Spec => []RunsWholeImage
<1>1. IInv => RunsWholeImage
  BY DEF IInv, ModeInv, SomeWhole, RunsWholeImage
<1> QED
  BY <1>1, Invariance, PTL

\* A copy that was cut short can always be done again (User_EventProcess).
THEOREM AlwaysRecoverable == Spec => []Recoverable
<1>1. IInv => Recoverable
  BY DEF IInv
<1> QED
  BY <1>1, Invariance, PTL

\* FINISH_UPDAGRADE is only recorded after a complete copy.
THEOREM FinishIsTrue == Spec => FinishMeansInstalled
<1>1. IInv /\ [Next]_vars =>
        [flag # "FINISH_UPDAGRADE" /\ flag' = "FINISH_UPDAGRADE" => Whole(ext)]_vars
  <2> SUFFICES ASSUME IInv, Next, flag # "FINISH_UPDAGRADE", flag' = "FINISH_UPDAGRADE"
               PROVE  mode = "setFinish"
    BY DEF IInv, ModeInv
  <2> QED
    BY DEF Next, Boot, App, Fault, RunApp, StartBoot, NothingToDo, CrcOk, CrcBad,
           SelfTestFailed, ErasePage, ProgramPage, ProgramRefused, Retry, CopySucceeded,
           EraseExt, UpgradeInd, Packet, LastPacket, NeedUpgrade, AbortUpgrade, LogIn,
           EraseFails, ProgramFails, PowerFails, SetFlag, ResetFlag, AppStep, store, update
<1> QED
  BY <1>1, Invariance, PTL DEF Spec, FinishMeansInstalled

-----------------------------------------------------------------------------
(* The refinement.                                                         *)

\* Only one image can be whole: they all start at page 1.
LEMMA WholeIsFirst ==
  ASSUME IInv, NEW img \in Images, Whole(img)
  PROVE  app[1] = img /\ Installed = img
<1> USE BootAssumption
<1>1. app[1] = img
  BY DEF Whole
<1> QED
  BY <1>1 DEF Installed

\* While the bootloader copies, the installed image can only become the one
\* it copies.
LEMMA CopyInstalls ==
  ASSUME IInv,
         ErasePage \/ EraseFails \/ ProgramPage \/ ProgramRefused \/ ProgramFails
           \/ (PowerFails /\ mode # "app")
  PROVE  ext' = ext /\ Installed' \in {Installed, ext}
<1> USE BootAssumption
<1>1. ext' = ext
  BY DEF ErasePage, EraseFails, ProgramPage, ProgramRefused, ProgramFails, PowerFails, store
<1>2. CASE ~SomeWhole'
  BY <1>1, <1>2 DEF Installed, SomeWhole
<1>3. CASE SomeWhole' /\ app' = app
  BY <1>1, <1>3 DEF Installed, SomeWhole, Whole
<1>4. ASSUME SomeWhole', app' # app
      PROVE  Installed' = Installed \/ Installed' = ext
  <2>1. /\ mode \in {"erase", "copy"} /\ ext \in Images /\ page \in 1 .. Size[ext]
        /\ Size[ext] \in 2 .. MaxPages
    BY <1>4 DEF ErasePage, EraseFails, ProgramPage, ProgramRefused, ProgramFails,
                PowerFails, Interrupted, Goto, IInv, TypeOK, store
  <2>2. PICK v \in {Erased, Torn, ext} :
          /\ app' = [app EXCEPT ![page] = v]
          /\ v = ext => ProgramPage
    BY <1>4, <2>1 DEF ErasePage, EraseFails, ProgramPage, ProgramRefused, ProgramFails,
                      PowerFails, Interrupted, store
  <2>3. PICK img \in Images : Whole(img)'
    BY <1>4 DEF SomeWhole
  <2>4. app'[1] = img /\ Installed' = img
    BY <2>3, <1>4 DEF Whole, Installed, SomeWhole
  <2>5. CASE page = 1
    BY <2>1, <2>2, <2>4, <2>5 DEF IInv, TypeOK
  <2>6. CASE page # 1 /\ v = ext
    BY <2>1, <2>2, <2>4, <2>6 DEF IInv, TypeOK, ModeInv, ProgramPage
  <2>7. CASE page # 1 /\ v # ext
    <3>1. Whole(img)
      BY <2>1, <2>2, <2>3, <2>7 DEF Whole, IInv, TypeOK
    <3> QED
      BY <2>4, <3>1, WholeIsFirst
  <2> QED
    BY <2>2, <2>5, <2>6, <2>7
<1> QED
  BY <1>1, <1>2, <1>3, <1>4

\* Every step of the bootloader and of the application is a step of Firmware.
LEMMA StepRefines == IInv /\ [Next]_vars => [Atomic!Next]_(Atomic!vars)
<1> SUFFICES ASSUME IInv, [Next]_vars PROVE [Atomic!Next]_(Atomic!vars)
  OBVIOUS
<1> USE DEF Atomic!Next, Atomic!Start, Atomic!Stop, Atomic!Stage, Atomic!Install, Atomic!vars
<1>1. ASSUME UNCHANGED <<ext, app>>
      PROVE  Installed' = Installed
  BY <1>1 DEF Installed, Whole
<1>2. CASE RunApp \/ StartBoot \/ NothingToDo \/ CrcOk \/ CrcBad \/ SelfTestFailed
             \/ Retry \/ CopySucceeded \/ UNCHANGED vars
  <2>1. UNCHANGED <<ext, app>>
    BY <1>2 DEF RunApp, StartBoot, NothingToDo, CrcOk, CrcBad, SelfTestFailed, Retry,
                CopySucceeded, store, vars
  <2> QED
    BY <1>1, <2>1
<1>3. CASE ErasePage \/ EraseFails \/ ProgramPage \/ ProgramRefused \/ ProgramFails
             \/ (PowerFails /\ mode # "app")
  <2>1. mode # "app" /\ mode' # "app"
    BY <1>3 DEF ErasePage, EraseFails, ProgramPage, ProgramRefused, ProgramFails,
                PowerFails, Goto, Advance
  <2>2. CASE Installed' = Installed
    BY <1>3, <2>1, <2>2, CopyInstalls
  <2>3. CASE Installed' # Installed
    <3>1. Installed' = ext /\ ext' = ext
      BY <1>3, <2>3, CopyInstalls
    <3>2. ext \in Images
      BY <1>3, <2>3, <3>1, <1>1 DEF ErasePage, EraseFails, ProgramPage, ProgramRefused,
         ProgramFails, PowerFails, Interrupted, Goto, IInv, ModeInv, store
    <3> QED
      BY <2>1, <3>1, <3>2
  <2> QED
    BY <2>2, <2>3
<1>4. CASE PowerFails /\ mode = "app"
  <2>1. UNCHANGED <<ext, app>>
    BY <1>4 DEF PowerFails, Interrupted
  <2> QED
    BY <1>1, <1>4, <2>1 DEF PowerFails
<1>5. CASE App
  <2>1. mode = "app" /\ UNCHANGED <<app, mode>>
    BY <1>5 DEF App, EraseExt, UpgradeInd, Packet, LastPacket, NeedUpgrade, AbortUpgrade,
                LogIn, AppStep
  <2>2. PICK img \in Images : Whole(img)
    BY <2>1 DEF IInv, ModeInv, SomeWhole
  <2>3. Whole(img)'
    BY <2>1, <2>2 DEF Whole
  <2>4. Installed' = Installed
    BY <2>1, <2>2, <2>3 DEF Installed
  <2>5. ext' \in Images \cup {Corrupt}
    BY <1>5 DEF App, EraseExt, UpgradeInd, Packet, LastPacket, NeedUpgrade, AbortUpgrade,
                LogIn, IInv, TypeOK
  <2> QED
    BY <2>1, <2>4, <2>5
<1> QED
  BY <1>2, <1>3, <1>4, <1>5 DEF Next, Boot, Fault

\* Copying page by page, with retries and restarts, implements the atomic
\* upgrade.
THEOREM UpgradeIsAtomic == Spec => ImplementsFirmware
<1>1. Init => Atomic!Init
  <2> SUFFICES ASSUME Init PROVE Atomic!Init
    OBVIOUS
  <2>1. IInv
    BY InitOK
  <2>2. PICK img \in Images : Whole(img)
    BY <2>1 DEF Init, IInv, Recoverable
  <2> QED
    BY <2>1, <2>2, WholeIsFirst DEF Init, Atomic!Init
<1> QED
  BY <1>1, StepRefines, Invariance, PTL DEF Spec, ImplementsFirmware, Atomic!Spec

=============================================================================
