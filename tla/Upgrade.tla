------------------------------ MODULE Upgrade ------------------------------
(***************************************************************************)
(* The download of a new application: the platform's packets go through the *)
(* tcp service and update_data_q to upgrade_handler, which writes them page *)
(* by page into the SPI flash that the data service has erased.             *)
(*                                                                         *)
(* A packet is reduced to its file (a version), its cpage and whether its   *)
(* crc is right.  Only the first page of a file has a header, and the check *)
(* compares its version with the one asked for last.  Pages come in any     *)
(* order, again, or not at all, which covers every reaction of the platform *)
(* to the acknowledgements.  The platform is heard while the device works;  *)
(* over UDP and the serial line an upgrade can be asked for at any time.    *)
(* The flash chip may time out: an erase says so, a write does not.         *)
(*                                                                         *)
(* DownloadProofs takes this module together with Stream: what both have    *)
(* (Init, Next, Spec, vars, TypeOK) is called UpInit and so on here.        *)
(***************************************************************************)
EXTENDS Integers, Sequences, SequencesExt

CONSTANTS Files,
          Pages,         \* tpage of every file
          DataCap,       \* size of update_data_q
          MaxSends, MaxEvents,   \* bounds: packets; requests and reconnections
          None, Erased, Garbled                   \* no packet, contents of a page

ASSUME UpgradeAssumption ==
  /\ {Pages, DataCap} \subseteq Nat \ {0}
  /\ {MaxSends, MaxEvents} \subseteq Nat

VARIABLES dev,     \* device_state: UPGRADE, or WORK for what it is without one
          dpc,     \* the data service erases the flash
          held,    \* packet the tcp service has checked device_state for
          dataq, updq,                  \* update_data_q, update_service_q
          upc,                          \* upgrade_handler runs
          first, cpkt, errs, addr, ret, \* firstPktFlag, upindex, dataaddr, ret
          flash,   \* the pages of the SPI flash
          flag,    \* upgradeState
          leaving, \* MSG_ID_LOG_OUT is sent: the reset is on its way
          file,    \* upgrade_software_version
          told,    \* the last answer to the platform
          hurt,    \* pages not blank when the download started, erased during
                   \* it, or left by a write that failed (history)
          unsent,    \* the message that would end the upgrade was lost (history)
          sends, events

taskVars == <<upc, first, cpkt, errs, addr, ret>>
envVars  == <<sends, events>>
upVars == <<dev, dpc, held, dataq, updq, taskVars, flash, flag, leaving, file, told,
          hurt, unsent, envVars>>

PageNos == 1 .. Pages
Pkts == [file : Files, n : PageNos, ok : BOOLEAN]
Page(f, n) == <<f, n>>
Blank   == [i \in PageNos |-> Erased]

UpTypeOK ==
  /\ dev \in {"WORK", "UPGRADE"} /\ dpc \in {"idle", "erase"}
  /\ held \in Pkts \cup {None}
  /\ dataq \in Seq(Pkts) /\ Len(dataq) <= DataCap
  /\ updq \in Seq({"IND", "LOG_IN"}) /\ Len(updq) <= MaxEvents
  /\ upc \in {"idle", "recv"} /\ first \in BOOLEAN
  /\ cpkt \in 0 .. Pages /\ addr \in PageNos /\ errs \in 0 .. 5 /\ ret \in {0, 1, 2}
  /\ flash \in [PageNos -> (Files \X PageNos) \cup {Erased, Garbled}]
  /\ flag \in {"NO", "NEED"} /\ leaving \in BOOLEAN
  /\ file \in Files /\ told \in {"none", "ok", "failed"}
  /\ hurt \subseteq PageNos /\ unsent \in BOOLEAN
  /\ sends \in 0 .. MaxSends /\ events \in 0 .. MaxEvents

UpInit ==
  /\ dev = "WORK" /\ dpc = "idle" /\ held = None /\ dataq = <<>> /\ updq = <<>>
  /\ upc = "idle" /\ first = FALSE /\ cpkt = 0 /\ errs = 0 /\ addr = 1 /\ ret = 0
  /\ leaving = FALSE
  /\ flash = Blank /\ flag = "NO" /\ file \in Files /\ told = "none"
  /\ hurt = {} /\ unsent = FALSE /\ sends = 0 /\ events = 0

-----------------------------------------------------------------------------
(* the platform, the network, the data and tcp services                    *)

\* upgrade_cb: the platform is served in DEVICE_STATE_WORK only, UDP and the
\* serial line in every state, but not while the tcp task, of higher priority,
\* is between two steps.  A refused request leaves its version.
Request(f) ==
  /\ events < MaxEvents /\ dpc = "idle" /\ held = None
  /\ events' = events + 1
  /\ dpc' \in {"idle", "erase"} /\ file' = f
  /\ UNCHANGED <<dev, held, dataq, updq, taskVars, flash, flag, leaving, told, hurt, unsent,
                 sends>>

Changed == hurt' = hurt \cup {i \in PageNos : flash'[i] # flash[i]}

\* sFlash_Erase holds the flash's mutex from the first block to the last.  That
\* MSG_ID_UPGRADE_IND could not be sent is only logged.
Erase ==
  /\ dpc = "erase" /\ held = None
  /\ dpc' = "idle" /\ flash' = Blank /\ dev' = "UPGRADE" /\ Changed
  /\ \/ updq' = Append(updq, "IND") /\ unsent' = FALSE
     \/ UNCHANGED updq /\ unsent' = TRUE
  /\ UNCHANGED <<held, dataq, taskVars, flag, leaving, file, told, envVars>>

\* What sFlash_Erase leaves when it times out in page n, or is cut off there
ErasedUpTo(n) ==
  \E x \in {flash[n], Erased, Garbled} :
    flash' = [i \in PageNos |-> IF i < n THEN Erased ELSE IF i = n THEN x ELSE flash[i]]

EraseFails ==
  /\ dpc = "erase" /\ held = None
  /\ dpc' = "idle" /\ (\E n \in PageNos : ErasedUpTo(n)) /\ Changed
  /\ UNCHANGED <<dev, held, dataq, updq, taskVars, flag, leaving, file, told, unsent, envVars>>

\* tcp_stream_handler looks at device_state before MsgDeal_Send: in any other
\* state the packet goes to the data service, which throws it away.
Arrive(p) ==
  /\ sends < MaxSends /\ held = None
  /\ sends' = sends + 1
  /\ held' = IF dev = "UPGRADE" THEN p ELSE None
  /\ UNCHANGED <<dev, dpc, dataq, updq, taskVars, flash, flag, leaving, file, told,
                 hurt, unsent, events>>

Forward ==
  /\ held # None
  /\ held' = None
  /\ dataq' = IF Len(dataq) < DataCap THEN Append(dataq, held) ELSE dataq
  /\ UNCHANGED <<dev, dpc, updq, taskVars, flash, flag, leaving, file, told, hurt, unsent,
                 envVars>>

\* The connection is lost, made again, and the device logs in; the message to
\* the update service may be lost.
Relogin ==
  /\ events < MaxEvents /\ held = None
  /\ events' = events + 1
  /\ dev' = "WORK" /\ updq' \in {updq, Append(updq, "LOG_IN")} /\ unsent' = FALSE
  /\ UNCHANGED <<dpc, held, dataq, taskVars, flash, flag, leaving, file, told, hurt, sends>>

\* The register and tcp services reset the processor, also during an erase, and
\* the bootloader acts on the flag (see Boot).
Reset ==
  /\ leaving
  /\ dev' = "WORK" /\ dpc' = "idle" /\ held' = None /\ dataq' = <<>> /\ updq' = <<>>
  /\ upc' = "idle" /\ first' = FALSE /\ cpkt' = 0 /\ errs' = 0 /\ addr' = 1 /\ ret' = 0
  /\ leaving' = FALSE /\ flag' = "NO" /\ unsent' = FALSE /\ told' = "none"
  /\ \/ UNCHANGED flash
     \/ dpc = "erase" /\ \E n \in PageNos : ErasedUpTo(n)
  /\ Changed
  /\ UNCHANGED <<file, envVars>>

\* MSG_ID_UPGRADE_RESET cannot be sent, which is only logged.
ResetLost ==
  /\ leaving
  /\ leaving' = FALSE /\ unsent' = TRUE
  /\ UNCHANGED <<dev, dpc, held, dataq, updq, taskVars, flash, flag, file, told, hurt,
                 envVars>>

-----------------------------------------------------------------------------
(* the update service                                                      *)

UpdRest == UNCHANGED <<dpc, held, file, envVars>>

\* set_config_upgradeFlag, whose change may be refused (see Sds)
LogIn ==
  /\ upc = "idle" /\ updq # <<>> /\ Head(updq) = "LOG_IN"
  /\ updq' = Tail(updq) /\ flag' \in {flag, "NO"}
  /\ UNCHANGED <<dev, dataq, taskVars, flash, leaving, told, hurt, unsent>> /\ UpdRest

Written == {i \in PageNos : flash[i] # Erased}

\* Fault: dataaddr is not set back.
StartKept ==
  /\ upc = "idle" /\ updq # <<>> /\ Head(updq) = "IND"
  /\ updq' = Tail(updq)
  /\ upc' = "recv" /\ first' = TRUE /\ cpkt' = 0 /\ errs' = 0 /\ ret' = 0
  /\ told' = "none" /\ hurt' = Written
  /\ UNCHANGED <<dev, dataq, addr, flash, flag, leaving, unsent>> /\ UpdRest

Start ==
  /\ upc = "idle" /\ updq # <<>> /\ Head(updq) = "IND"
  /\ updq' = Tail(updq)
  /\ upc' = "recv" /\ first' = TRUE /\ cpkt' = 0 /\ errs' = 0 /\ addr' = 1 /\ ret' = 0
  /\ told' = "none" /\ hurt' = Written
  /\ UNCHANGED <<dev, dataq, flash, flag, leaving, unsent>> /\ UpdRest

Next1 == Head(dataq)
Fetch == upc = "recv" /\ dataq # <<>> /\ dataq' = Tail(dataq)
FetchRest == UNCHANGED <<dev, updq, upc, flag, leaving, unsent>> /\ UpdRest

TooManyErrors ==
  /\ Fetch /\ errs > 3
  /\ ret' = 1
  /\ UNCHANGED <<first, cpkt, errs, addr, flash, hurt, told>> /\ FetchRest

BadPacket ==
  /\ Fetch /\ errs <= 3 /\ ~Next1.ok
  /\ errs' = errs + 1 /\ ret' = 0
  /\ UNCHANGED <<first, cpkt, addr, flash, hurt, told>> /\ FetchRest

\* The first packet is the one with the header, of the version asked for.
HasHeader == first => Next1.n = 1 /\ Next1.file = file

BadHeader ==
  /\ Fetch /\ errs <= 3 /\ Next1.ok /\ ~HasHeader
  /\ ret' = 1 /\ told' = "failed"
  /\ UNCHANGED <<first, cpkt, errs, addr, flash, hurt>> /\ FetchRest

Acceptable == errs <= 3 /\ Next1.ok /\ HasHeader

\* Fault: any later page is taken for the next one.
NotOld == Next1.n > cpkt
IsNext == Next1.n = cpkt + 1

OutOfOrder ==
  /\ Fetch /\ Acceptable /\ ~IsNext
  /\ first' = FALSE /\ ret' = 0
  /\ UNCHANGED <<cpkt, errs, addr, flash, hurt, told>> /\ FetchRest

\* Fault: dataaddr moves on behind the last page.
AcceptedOn ==
  /\ Fetch /\ Acceptable /\ IsNext
  /\ first' = FALSE /\ cpkt' = Next1.n /\ errs' = 0 /\ addr' = addr + 1
  /\ IF Next1.n # Pages THEN ret' = 0 /\ UNCHANGED told ELSE ret' = 2 /\ told' = "ok"
  /\ FetchRest

Accepted ==
  /\ Fetch /\ Acceptable /\ IsNext
  /\ first' = FALSE /\ cpkt' = Next1.n /\ errs' = 0
  /\ IF Next1.n # Pages
     THEN addr' = addr + 1 /\ ret' = 0 /\ UNCHANGED told
     ELSE ret' = 2 /\ told' = "ok" /\ UNCHANGED addr
  /\ FetchRest

Programmed == IF flash[addr] = Erased THEN Page(Next1.file, Next1.n) ELSE Garbled

WritePage ==
  /\ Accepted
  /\ flash' = [flash EXCEPT ![addr] = Programmed] /\ UNCHANGED hurt

\* What sFlash_WriteBytes returns is not looked at.
WriteFails ==
  /\ Accepted
  /\ \E x \in {flash[addr], Programmed, Garbled} : flash' = [flash EXCEPT ![addr] = x]
  /\ hurt' = hurt \cup {addr}

\* Nothing for five seconds: ret is that of the last packet.
Waited == upc = "recv" /\ dataq = <<>>
WaitRest == UNCHANGED <<dataq, updq, first, cpkt, addr, ret, flash, hurt>> /\ UpdRest

KeepWaiting ==
  /\ Waited /\ errs < 3 /\ ret = 0
  /\ errs' = errs + 1
  /\ UNCHANGED <<dev, upc, flag, leaving, told, unsent>> /\ WaitRest

\* Fault: the state is left to somebody else.
QuitQuietly ==
  /\ Waited /\ (errs >= 3 \/ ret = 1)
  /\ errs' = errs + 1 /\ upc' = "idle"
  /\ told' = IF errs >= 3 THEN "failed" ELSE told
  /\ UNCHANGED <<dev, flag, leaving, unsent>> /\ WaitRest

Quit ==
  /\ Waited /\ (errs >= 3 \/ ret = 1)
  /\ errs' = errs + 1 /\ upc' = "idle" /\ dev' = "WORK" /\ unsent' = FALSE
  /\ told' = IF errs >= 3 THEN "failed" ELSE told
  /\ UNCHANGED <<flag, leaving>> /\ WaitRest

\* set_config_upgradeFlag may be refused, and MSG_ID_LOG_OUT not be sent.
Finish ==
  /\ Waited /\ errs < 3 /\ ret = 2
  /\ errs' = errs + 1 /\ upc' = "idle" /\ flag' \in {flag, "NEED"}
  /\ \/ leaving' = TRUE /\ UNCHANGED unsent
     \/ unsent' = TRUE /\ UNCHANGED leaving
  /\ UNCHANGED <<dev, told>> /\ WaitRest

-----------------------------------------------------------------------------
Update == \/ LogIn \/ Start \/ TooManyErrors \/ BadPacket \/ BadHeader \/ OutOfOrder
          \/ WritePage \/ WriteFails \/ KeepWaiting \/ Quit \/ Finish

UpNext == \/ \E f \in Files : Request(f)
          \/ \E p \in Pkts : Arrive(p)
          \/ Erase \/ EraseFails \/ Forward \/ Relogin \/ Reset \/ ResetLost \/ Update

UpSpec == UpInit /\ [][UpNext]_upVars

\* Tasks run when they can.  The platform owes nothing.
UpFairSpec ==
  /\ UpSpec
  /\ WF_upVars(Update) /\ WF_upVars(Erase \/ EraseFails) /\ WF_upVars(Forward)
  /\ WF_upVars(Reset \/ ResetLost)

-----------------------------------------------------------------------------
Landed(i) == \E f \in Files : flash[i] = Page(f, i)

\* While a download runs, the pages received so far are in the flash, each at
\* its place, and it is blank behind them: but for pages that were not blank to
\* begin with, that another request erased, or whose write failed.
Prefix ==
  upc = "recv" => \A i \in PageNos \ hurt : IF i <= cpkt THEN Landed(i) ELSE flash[i] = Erased

Whole    == \A i \in PageNos \ hurt : Landed(i)
Succeeds == \/ told # "ok" /\ told' = "ok"
            \/ flag # "NEED" /\ flag' = "NEED"

\* When the platform is told of success, and when the bootloader is asked to
\* copy, every page of the image is in its place, with the same exceptions.
FinishIsWhole == [][Succeeds => Whole']_upVars

\* The device does not stay in an upgrade, whatever the platform does or omits
\* and however requests meet, unless the message that ends it was lost.
UpgradeEnds == dev = "UPGRADE" ~> dev # "UPGRADE" \/ unsent

=============================================================================
