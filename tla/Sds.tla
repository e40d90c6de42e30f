-------------------------------- MODULE Sds --------------------------------
(***************************************************************************)
(* Stable Data Storage (drivers/sflash/sds): every row of SDS_Table is kept *)
(* in RAM and twice in the SPI flash, as a "default" and a "backup" copy,   *)
(* each followed by its CRC16.  Tasks change a row through the setters of   *)
(* data_service.c, DA_service.c and lwip.c (SDS_Edit, assign, SDS_Save      *)
(* under the setter's lock, then SDS_Poll outside of it); power may fail    *)
(* between any two flash operations.  Erases and writes of the chip may time *)
(* out; SDS hears of a failed write only (_SDS_Erase drops the result of    *)
(* sFlash_Erase).                                                           *)
(*                                                                         *)
(* A cell of flash holds a value, Blank (erased) or Torn (half erased or    *)
(* half programmed: the CRC never accepts it).  The CRC of a value is the   *)
(* value itself: collisions of CRC16 are abstracted away.                   *)
(***************************************************************************)
EXTENDS Naturals

CONSTANTS Tasks,        \* tasks that run setters
          NItems,       \* rows of SDS_Table
          Vals,         \* contents a row can have
          Default,      \* p_default of each row
          Locks,        \* Datalock, DAlock, the critical section of lwip.c
          LockOf,       \* the lock a task's setters take
          Failing,      \* what may time out: "erase", the writes of _cpy ("cpy")
                        \* and those of SDS_Poll ("poll")
          Blank, Torn, NoVal, NoTask

Items == 0 .. NItems - 1

ASSUME SdsAssumption ==
  /\ NItems \in Nat \ {0}
  /\ Default \in [Items -> Vals]
  /\ LockOf \in [Tasks -> Locks]
  /\ Failing \subseteq {"erase", "cpy", "poll"}
  /\ Blank \notin Vals /\ Torn \notin Vals /\ NoVal \notin Vals
  /\ Blank # Torn
  /\ NoTask \notin Tasks

VARIABLES flash,   \* the two copies of every row
          damaged, \* history: the copies whose last erase timed out, or whose
                   \* last repair ended in a write that did
          ram,     \* the rows as the program reads them
          st,      \* _Items_State
          crc16,   \* _Items_CRC16
          valid,   \* _Items_Valid
          bpc, bi, \* SDS_Init: program counter and loop index
          owner,   \* holder of each setter lock
          pc,      \* where each task is
          row,     \* the row a task's setter edits
          new,     \* the value it stores there
          pi,      \* loop index of its SDS_Poll
          stage,   \* the copy its SDS_Poll is at
          sum      \* checksum_val of its _write

loadVars == <<bpc, bi>>
editVars == <<owner, row, new>>
pollVars == <<pi, stage, sum>>
itemVars == <<st, crc16, valid>>
vars     == <<flash, damaged, ram, itemVars, loadVars, editVars, pollVars, pc>>

-----------------------------------------------------------------------------
States == {"UNINIT", "IDLE", "EDIT", "NEED_SAVE", "SAVING", "DATA_CHANGED_ERROR"}
Word   == Vals \cup {Blank, Torn}
Cells  == [body : Word, crc : Word]
Copies == {"dft", "bkp"}
Empty  == [body |-> Blank, crc |-> Blank]
Scrap  == [body |-> Torn, crc |-> Torn]

\* _read() accepts the copy.
Good(c) == c.body \in Vals /\ c.crc = c.body

\* What is left of a cell by programming v: NOR flash only clears bits, so
\* only an erased cell, or one that held v, surely ends up as v.
Programmed(old, v) == IF old \in {Blank, v} THEN {v} ELSE {old, v, Torn}

\* The same, when the write timed out.
Interrupted(old, v) == {old, v, Torn}

\* The flash after copy c of row i became cell.
Put(i, c, cell) == [flash EXCEPT ![i] = [@ EXCEPT ![c] = cell]]

WriteBody(i, c, words) ==
  \E w \in words : flash' = Put(i, c, [body |-> w, crc |-> flash[i][c].crc])
WriteCrc(i, c, words) ==
  \E w \in words : flash' = Put(i, c, [body |-> flash[i][c].body, crc |-> w])

\* sFlash_Erase as SDS sees it: after a time-out too it goes on, over a copy
\* that is half erased or as it was.
Erase(i, c) ==
  \/ /\ flash' = Put(i, c, Empty)
     /\ damaged' = damaged \ {<<i, c>>}
  \/ /\ "erase" \in Failing
     /\ \E cell \in {flash[i][c], Scrap} : flash' = Put(i, c, cell)
     /\ damaged' = damaged \cup {<<i, c>>}

Other(c) == IF c = "dft" THEN "bkp" ELSE "dft"

\* What a restart would load, whichever of the two copies it finds.
Stored(i) == IF Good(flash[i]["dft"]) THEN flash[i]["dft"].body
             ELSE IF Good(flash[i]["bkp"]) THEN flash[i]["bkp"].body
             ELSE Default[i]

-----------------------------------------------------------------------------
Running == bpc = "run"

\* What a reset leaves in RAM; SDS_Init overwrites the rows before any use.
PowerOn ==
  /\ ram = Default
  /\ st = [i \in Items |-> "UNINIT"]
  /\ crc16 = [i \in Items |-> NoVal]
  /\ valid = [i \in Items |-> 0]
  /\ bpc = "read" /\ bi = 0
  /\ owner = [l \in Locks |-> NoTask]
  /\ pc = [t \in Tasks |-> "idle"]
  /\ row = [t \in Tasks |-> 0]
  /\ new = [t \in Tasks |-> NoVal]
  /\ pi = [t \in Tasks |-> 0]
  /\ stage = [t \in Tasks |-> "dft"]
  /\ sum = [t \in Tasks |-> NoVal]

\* A board leaves the factory with an erased flash.
Init == /\ flash = [i \in Items |-> [c \in Copies |-> Empty]]
        /\ damaged = {}
        /\ PowerOn

-----------------------------------------------------------------------------
(* SDS_Init, run by the startup task (or the bootloader) before any setter. *)

\* Fault: the loop bound of SDS_Init is off by one.
NextRowForever(ok) == /\ st' = [st EXCEPT ![bi] = "IDLE"]
                      /\ valid' = [valid EXCEPT ![bi] = IF ok THEN 1 ELSE 0]
                      /\ bi' = bi + 1
                      /\ bpc' = IF bi = NItems THEN "run" ELSE "read"

NextRow(ok) == /\ st' = [st EXCEPT ![bi] = "IDLE"]
               /\ valid' = [valid EXCEPT ![bi] = IF ok THEN 1 ELSE 0]
               /\ bi' = bi + 1
               /\ bpc' = IF bi + 1 = NItems THEN "run" ELSE "read"

\* Fault: the backup copy is not tried.
LoadDefaultsEarly ==
  /\ ~Good(flash[bi]["dft"])
  /\ ram' = [ram EXCEPT ![bi] = Default[bi]]
  /\ NextRow(FALSE)

LoadDefaults ==
  /\ ~Good(flash[bi]["dft"]) /\ ~Good(flash[bi]["bkp"])
  /\ ram' = [ram EXCEPT ![bi] = Default[bi]]
  /\ NextRow(FALSE)

LoadEqual ==
  /\ Good(flash[bi]["dft"])
  /\ flash[bi]["dft"] = flash[bi]["bkp"]
  /\ ram' = [ram EXCEPT ![bi] = flash[bi]["dft"].body]
  /\ NextRow(TRUE)

\* _load found one copy it must rewrite from the other with _cpy.
LoadRepair(dest) ==
  /\ IF dest = "bkp" THEN Good(flash[bi]["dft"]) /\ flash[bi]["dft"] # flash[bi]["bkp"]
                     ELSE ~Good(flash[bi]["dft"]) /\ Good(flash[bi]["bkp"])
  /\ ram' = [ram EXCEPT ![bi] = flash[bi][Other(dest)].body]
  /\ bpc' = IF dest = "dft" THEN "cpyDft" ELSE "cpyBkp"
  /\ UNCHANGED <<bi, st, valid>>

Load == /\ bpc = "read"
        /\ LoadDefaults \/ LoadEqual \/ \E dest \in Copies : LoadRepair(dest)
        /\ UNCHANGED <<flash, damaged, crc16, editVars, pollVars, pc>>

\* _cpy: erase, then copy the value and then its CRC.
\* Fault: source and destination swapped.
CpyDestSwapped == IF bpc \in {"cpyDft", "cpyDftBody", "cpyDftCrc"} THEN "bkp" ELSE "dft"

CpyDest == IF bpc \in {"cpyDft", "cpyDftBody", "cpyDftCrc"} THEN "dft" ELSE "bkp"

CpySource == flash[bi][Other(CpyDest)]

CpyErase ==
  /\ bpc \in {"cpyDft", "cpyBkp"}
  /\ Erase(bi, CpyDest)
  /\ bpc' = IF bpc = "cpyDft" THEN "cpyDftBody" ELSE "cpyBkpBody"
  /\ UNCHANGED <<ram, itemVars, bi, editVars, pollVars, pc>>

CpyBody ==
  /\ bpc \in {"cpyDftBody", "cpyBkpBody"}
  /\ WriteBody(bi, CpyDest, Programmed(flash[bi][CpyDest].body, CpySource.body))
  /\ bpc' = IF bpc = "cpyDftBody" THEN "cpyDftCrc" ELSE "cpyBkpCrc"
  /\ UNCHANGED <<damaged, ram, itemVars, bi, editVars, pollVars, pc>>

CpyCrc ==
  /\ bpc \in {"cpyDftCrc", "cpyBkpCrc"}
  /\ WriteCrc(bi, CpyDest, Programmed(flash[bi][CpyDest].crc, CpySource.crc))
  /\ NextRow(TRUE)
  /\ UNCHANGED <<damaged, ram, crc16, editVars, pollVars, pc>>

\* A failed write ends _cpy; _load ignores that and reports the row as valid.
CpyFail ==
  /\ "cpy" \in Failing
  /\ \/ /\ bpc \in {"cpyDftBody", "cpyBkpBody"}
        /\ WriteBody(bi, CpyDest, Interrupted(flash[bi][CpyDest].body, CpySource.body))
     \/ /\ bpc \in {"cpyDftCrc", "cpyBkpCrc"}
        /\ WriteCrc(bi, CpyDest, Interrupted(flash[bi][CpyDest].crc, CpySource.crc))
  /\ damaged' = damaged \cup {<<bi, CpyDest>>}
  /\ NextRow(TRUE)
  /\ UNCHANGED <<ram, crc16, editVars, pollVars, pc>>

-----------------------------------------------------------------------------
(* A setter: lock, SDS_Edit, assign, SDS_Save, unlock.  Its callers ignore  *)
(* what SDS_Edit and SDS_Save return.                                       *)

Goto(t, from, to) == Running /\ pc[t] = from /\ pc' = [pc EXCEPT ![t] = to]

Lock(t) ==
  /\ Goto(t, "idle", "edit")
  /\ owner[LockOf[t]] = NoTask
  /\ owner' = [owner EXCEPT ![LockOf[t]] = t]
  /\ \E i \in Items, v \in Vals :
       /\ row' = [row EXCEPT ![t] = i]
       /\ new' = [new EXCEPT ![t] = v]
  /\ UNCHANGED <<flash, damaged, ram, itemVars, loadVars, pollVars>>

\* SDS_Edit refuses a row that is SAVING; the setter goes on all the same.
EditRefused(t) ==
  /\ Goto(t, "edit", "assign")
  /\ st[row[t]] \in {"SAVING", "UNINIT"}
  /\ UNCHANGED <<flash, damaged, ram, itemVars, loadVars, editVars, pollVars>>

EditAccepted(t) ==
  /\ Goto(t, "edit", "setEdit")
  /\ st[row[t]] \notin {"SAVING", "UNINIT"}
  /\ UNCHANGED <<flash, damaged, ram, itemVars, loadVars, editVars, pollVars>>

SetEdit(t) ==
  /\ Goto(t, "setEdit", "assign")
  /\ st' = [st EXCEPT ![row[t]] = "EDIT"]
  /\ UNCHANGED <<flash, damaged, ram, crc16, valid, loadVars, editVars, pollVars>>

Assign(t) ==
  /\ Goto(t, "assign", "save")
  /\ ram' = [ram EXCEPT ![row[t]] = new[t]]
  /\ UNCHANGED <<flash, damaged, itemVars, loadVars, editVars, pollVars>>

SaveRefused(t) ==
  /\ Goto(t, "save", "unlock")
  /\ st[row[t]] # "EDIT"
  /\ UNCHANGED <<flash, damaged, ram, itemVars, loadVars, editVars, pollVars>>

SaveAccepted(t) ==
  /\ Goto(t, "save", "setSave")
  /\ st[row[t]] = "EDIT"
  /\ crc16' = [crc16 EXCEPT ![row[t]] = ram[row[t]]]
  /\ UNCHANGED <<flash, damaged, ram, st, valid, loadVars, editVars, pollVars>>

SetNeedSave(t) ==
  /\ Goto(t, "setSave", "unlock")
  /\ st' = [st EXCEPT ![row[t]] = "NEED_SAVE"]
  /\ UNCHANGED <<flash, damaged, ram, crc16, valid, loadVars, editVars, pollVars>>

\* Fault: the setter forgets SDS_Poll.
UnlockOnly(t) ==
  /\ Goto(t, "unlock", "idle")
  /\ owner' = [owner EXCEPT ![LockOf[t]] = NoTask]
  /\ row' = [row EXCEPT ![t] = 0]
  /\ new' = [new EXCEPT ![t] = NoVal]
  /\ UNCHANGED <<flash, damaged, ram, itemVars, loadVars, pollVars>>

Unlock(t) ==
  /\ Goto(t, "unlock", "poll")
  /\ owner' = [owner EXCEPT ![LockOf[t]] = NoTask]
  /\ row' = [row EXCEPT ![t] = 0]
  /\ new' = [new EXCEPT ![t] = NoVal]
  /\ UNCHANGED <<flash, damaged, ram, itemVars, loadVars, pollVars>>

Setter(t) == \/ Lock(t) \/ EditRefused(t) \/ EditAccepted(t) \/ SetEdit(t) \/ Assign(t)
             \/ SaveRefused(t) \/ SaveAccepted(t) \/ SetNeedSave(t) \/ Unlock(t)

-----------------------------------------------------------------------------
(* SDS_Poll, outside of the setter's lock.                                  *)

PollSkip(t) ==
  /\ Goto(t, "poll", "poll")
  /\ pi[t] \in Items /\ st[pi[t]] # "NEED_SAVE"
  /\ pi' = [pi EXCEPT ![t] = @ + 1]
  /\ UNCHANGED <<flash, damaged, ram, itemVars, loadVars, editVars, stage, sum>>

PollFound(t) ==
  /\ Goto(t, "poll", "claim")
  /\ pi[t] \in Items /\ st[pi[t]] = "NEED_SAVE"
  /\ UNCHANGED <<flash, damaged, ram, itemVars, loadVars, editVars, pollVars>>

PollClaim(t) ==
  /\ Goto(t, "claim", "check")
  /\ st' = [st EXCEPT ![pi[t]] = "SAVING"]
  /\ stage' = [stage EXCEPT ![t] = "dft"]
  /\ UNCHANGED <<flash, damaged, ram, crc16, valid, loadVars, editVars, pi, sum>>

\* Fault: the row stays SAVING.
PollChangedQuietly(t) ==
  /\ Goto(t, "check", "poll")
  /\ crc16[pi[t]] # ram[pi[t]]
  /\ pi' = [pi EXCEPT ![t] = @ + 1]
  /\ stage' = [stage EXCEPT ![t] = "dft"]
  /\ UNCHANGED <<flash, damaged, ram, itemVars, loadVars, editVars, sum>>

\* One of the three comparisons of the row with the CRC of SDS_Save failed.
PollChanged(t) ==
  /\ Goto(t, "check", "poll")
  /\ crc16[pi[t]] # ram[pi[t]]
  /\ st' = [st EXCEPT ![pi[t]] = "DATA_CHANGED_ERROR"]
  /\ pi' = [pi EXCEPT ![t] = @ + 1]
  /\ stage' = [stage EXCEPT ![t] = "dft"]
  /\ UNCHANGED <<flash, damaged, ram, crc16, valid, loadVars, editVars, sum>>

\* _write computes the checksum it will store before it erases the copy.
PollErase(t) ==
  /\ Goto(t, "check", "body")
  /\ stage[t] \in Copies /\ crc16[pi[t]] = ram[pi[t]]
  /\ sum' = [sum EXCEPT ![t] = ram[pi[t]]]
  /\ Erase(pi[t], stage[t])
  /\ UNCHANGED <<ram, itemVars, loadVars, editVars, pi, stage>>

PollBody(t) ==
  /\ Goto(t, "body", "crc")
  /\ WriteBody(pi[t], stage[t], Programmed(flash[pi[t]][stage[t]].body, ram[pi[t]]))
  /\ UNCHANGED <<damaged, ram, itemVars, loadVars, editVars, pollVars>>

PollCrc(t) ==
  /\ Goto(t, "crc", "check")
  /\ WriteCrc(pi[t], stage[t], Programmed(flash[pi[t]][stage[t]].crc, sum[t]))
  /\ stage' = [stage EXCEPT ![t] = IF @ = "dft" THEN "bkp" ELSE "end"]
  /\ sum' = [sum EXCEPT ![t] = NoVal]
  /\ UNCHANGED <<damaged, ram, itemVars, loadVars, editVars, pi>>

\* Fault: the error of _write is ignored.
PollWriteFailIgnored(t) ==
  /\ "poll" \in Failing
  /\ Goto(t, "crc", "check")
  /\ WriteCrc(pi[t], stage[t], Interrupted(flash[pi[t]][stage[t]].crc, sum[t]))
  /\ stage' = [stage EXCEPT ![t] = IF @ = "dft" THEN "bkp" ELSE "end"]
  /\ sum' = [sum EXCEPT ![t] = NoVal]
  /\ UNCHANGED <<damaged, ram, itemVars, loadVars, editVars, pi>>

\* A failed write leaves the row SAVING and goes on with the next one.
PollWriteFail(t) ==
  /\ "poll" \in Failing
  /\ \/ /\ Goto(t, "body", "poll")
        /\ WriteBody(pi[t], stage[t], Interrupted(flash[pi[t]][stage[t]].body, ram[pi[t]]))
     \/ /\ Goto(t, "crc", "poll")
        /\ WriteCrc(pi[t], stage[t], Interrupted(flash[pi[t]][stage[t]].crc, sum[t]))
  /\ pi' = [pi EXCEPT ![t] = @ + 1]
  /\ stage' = [stage EXCEPT ![t] = "dft"]
  /\ sum' = [sum EXCEPT ![t] = NoVal]
  /\ UNCHANGED <<damaged, ram, itemVars, loadVars, editVars>>

PollSaved(t) ==
  /\ Goto(t, "check", "poll")
  /\ stage[t] = "end" /\ crc16[pi[t]] = ram[pi[t]]
  /\ valid' = [valid EXCEPT ![pi[t]] = 1]
  /\ st' = [st EXCEPT ![pi[t]] = "IDLE"]
  /\ pi' = [pi EXCEPT ![t] = @ + 1]
  /\ stage' = [stage EXCEPT ![t] = "dft"]
  /\ UNCHANGED <<flash, damaged, ram, crc16, loadVars, editVars, sum>>

PollReturn(t) ==
  /\ Goto(t, "poll", "idle")
  /\ pi[t] = NItems
  /\ pi' = [pi EXCEPT ![t] = 0]
  /\ UNCHANGED <<flash, damaged, ram, itemVars, loadVars, editVars, stage, sum>>

Poll(t) == \/ PollSkip(t) \/ PollFound(t) \/ PollClaim(t) \/ PollChanged(t)
           \/ PollErase(t) \/ PollBody(t) \/ PollCrc(t) \/ PollWriteFail(t)
           \/ PollSaved(t) \/ PollReturn(t)

-----------------------------------------------------------------------------
\* Power fails or the watchdog bites: RAM is lost, flash stays.  An erase or
\* a program that was under way leaves a copy no CRC accepts, as the state
\* right after PollErase or CpyErase does.
Crash ==
  /\ UNCHANGED <<flash, damaged>>
  /\ ram' = Default
  /\ st' = [i \in Items |-> "UNINIT"]
  /\ crc16' = [i \in Items |-> NoVal]
  /\ valid' = [i \in Items |-> 0]
  /\ bpc' = "read" /\ bi' = 0
  /\ owner' = [l \in Locks |-> NoTask]
  /\ pc' = [t \in Tasks |-> "idle"]
  /\ row' = [t \in Tasks |-> 0]
  /\ new' = [t \in Tasks |-> NoVal]
  /\ pi' = [t \in Tasks |-> 0]
  /\ stage' = [t \in Tasks |-> "dft"]
  /\ sum' = [t \in Tasks |-> NoVal]

SdsInit == Load \/ CpyErase \/ CpyBody \/ CpyCrc \/ CpyFail

Next == SdsInit \/ Crash \/ \E t \in Tasks : Setter(t) \/ Poll(t)

\* The scheduler runs every task that can run; nothing obliges a task to
\* start another setter, and power need not fail.
Step(t) == (Setter(t) \/ Poll(t)) /\ pc[t] # "idle"

Spec     == Init /\ [][Next]_vars
FairSpec == Spec /\ WF_vars(SdsInit) /\ \A t \in Tasks : WF_vars(Step(t))

-----------------------------------------------------------------------------
TypeOK ==
  /\ flash \in [Items -> [Copies -> Cells]]
  /\ damaged \subseteq Items \X Copies
  /\ ram \in [Items -> Vals]
  /\ st \in [Items -> States]
  /\ crc16 \in [Items -> Vals \cup {NoVal}]
  /\ valid \in [Items -> {0, 1}]
  /\ bpc \in {"read", "cpyDft", "cpyDftBody", "cpyDftCrc", "cpyBkp",
              "cpyBkpBody", "cpyBkpCrc", "run"}
  /\ bi \in 0 .. NItems /\ (bpc # "run" => bi \in Items)
  /\ owner \in [Locks -> Tasks \cup {NoTask}]
  /\ pc \in [Tasks -> {"idle", "edit", "setEdit", "assign", "save", "setSave",
                       "unlock", "poll", "claim", "check", "body", "crc"}]
  /\ row \in [Tasks -> Items]
  /\ new \in [Tasks -> Vals \cup {NoVal}]
  /\ pi \in [Tasks -> 0 .. NItems]
  /\ stage \in [Tasks -> Copies \cup {"end"}]
  /\ sum \in [Tasks -> Vals \cup {NoVal}]
  /\ \A t \in Tasks :
       /\ pc[t] \in {"edit", "setEdit", "assign"} => new[t] \in Vals
       /\ pc[t] \in {"claim", "check", "body", "crc"} => pi[t] \in Items
       /\ pc[t] \in {"body", "crc"} => stage[t] \in Copies /\ sum[t] \in Vals

HasCopy(i) == \E c \in Copies : Good(flash[i][c])
Sound(i)   == \A c \in Copies : <<i, c>> \notin damaged
Quiet      == Running /\ \A t \in Tasks : pc[t] = "idle"

\* SDS_Poll and _cpy rewrite the two copies in turn, so a row that can be
\* read back stays so whatever flash step the power fails at: it is lost only
\* after an erase of it timed out (sds_port.c:15 reports none) or a repair of it
\* failed (sds.c:188 and sds.c:197 look at no result).
KeepsACopy == [][\A i \in Items : (Sound(i) /\ HasCopy(i) => HasCopy(i)')]_vars

\* SDS_Poll reports a row as saved only when every copy that could be erased
\* holds what the program reads, even if writes before it failed.
SavedIsStored ==
  [][\A i \in Items : (st[i] = "SAVING" /\ st'[i] = "IDLE") =>
       \A c \in Copies : <<i, c>> \notin damaged =>
         Good(flash[i][c]) /\ flash[i][c].body = ram[i]]_vars

\* SDS_Poll never leaves a row claimed: the state SAVING, which makes SDS_Edit
\* and SDS_Save refuse the row, always has a task about to change it.
SavingHasSaver ==
  \A i \in Items : st[i] = "SAVING" =>
     \E t \in Tasks : pc[t] \in {"check", "body", "crc"} /\ pi[t] = i

\* SDS_Save only marks a row; the SDS_Poll of some task writes it in the end.
SaveIsServed == \A i \in Items : (st[i] = "NEED_SAVE") ~> (st[i] # "NEED_SAVE")

\* sds.h:109: what SDS_Edit .. SDS_Save changed is stored by SDS_Poll.
QuietIsStored == Quiet => \A i \in Items : Stored(i) = ram[i]

\* A row of the flash changes from one committed value to the next, at one
\* instant; what a restart reads is the last committed value, as long as no
\* copy of the row is damaged.
Store == INSTANCE StableStore
           WITH stored <- [i \in Items |-> Stored(i)],
                weak   <- {i \in Items : ~Sound(i)},
                work   <- IF Running THEN ram ELSE [i \in Items |-> Stored(i)]
ImplementsStore == Store!Spec

=============================================================================
