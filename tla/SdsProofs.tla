------------------------------ MODULE SdsProofs ------------------------------
(* Proofs about Sds.  TypeCorrect and NoRowStaysClaimed hold for every set   *)
(* of tasks and rows; LastCopySurvives, SavedIsTrue and SdsIsStableStore     *)
(* where SDS is used by one task at a time, as the bootloader does.  Any     *)
(* erase or write may time out: the invariant says of a damaged copy only    *)
(* what does not depend on it.                                              *)
EXTENDS Sds, TLAPS

SingleWriter == \A t, u \in Tasks : t = u

Copying == {"cpyDft", "cpyDftBody", "cpyDftCrc", "cpyBkp", "cpyBkpBody", "cpyBkpCrc"}
Writing == {"check", "body", "crc"}

Intact(i, c) == <<i, c>> \notin damaged

\* The two copies of a row without damage can both be read and agree, or none
\* can be read.
Mirrored(i) ==
  Sound(i) /\ HasCopy(i) =>
    /\ Good(flash[i]["dft"]) /\ Good(flash[i]["bkp"])
    /\ flash[i]["dft"].body = flash[i]["bkp"].body

Busy(t, i) == pc[t] \in Writing /\ pi[t] = i

\* SDS_Init: the source of _cpy is readable and in RAM; the destination is as
\* far as bpc says, and cannot come between the source and a restart.
CopyInv ==
  bpc \in Copying =>
    /\ Good(CpySource) /\ ram[bi] = CpySource.body
    /\ CpyDest = "dft" /\ Good(flash[bi]["dft"]) => flash[bi]["dft"].body = CpySource.body
    /\ Intact(bi, CpyDest) =>
         /\ bpc \in {"cpyDftBody", "cpyBkpBody"} => flash[bi][CpyDest] = Empty
         /\ bpc \in {"cpyDftCrc", "cpyBkpCrc"} =>
              flash[bi][CpyDest] = [body |-> CpySource.body, crc |-> Blank]

\* A row that was loaded, is not being written, and was not given up by
\* SDS_Poll; what SDS_Init loaded is what is stored.
LoadedInv ==
  /\ Running => bi = NItems
  /\ ~Running => \A i \in Items : i < bi => ram[i] = Stored(i)
  /\ \A i \in Items :
       i < bi /\ st[i] # "SAVING" /\ (\A t \in Tasks : ~Busy(t, i)) => Mirrored(i)

\* The value of a row does not change from SDS_Save to the end of SDS_Poll.
ValueInv ==
  /\ ~Running => \A i \in Items : st[i] \notin {"NEED_SAVE", "SAVING"}
  /\ \A i \in Items : st[i] = "NEED_SAVE" => crc16[i] = ram[i]
  /\ \A t \in Tasks :
       /\ pc[t] # "idle" => Running
       /\ pc[t] = "assign" => st[row[t]] # "NEED_SAVE"
       /\ pc[t] = "setEdit" => st[row[t]] # "SAVING"
       /\ pc[t] = "setSave" => crc16[row[t]] = ram[row[t]] /\ st[row[t]] # "SAVING"
       /\ pc[t] = "claim" => st[pi[t]] # "SAVING"
       /\ pc[t] \in Writing \cup {"claim"} =>
            pi[t] \in Items /\ crc16[pi[t]] = ram[pi[t]]

\* SDS_Poll: a copy that could be erased is as far as pc and stage say.
WriteInv ==
  \A t \in Tasks : pc[t] \in Writing =>
    /\ st[pi[t]] = "SAVING"
    /\ pc[t] = "check" /\ stage[t] = "dft" => Mirrored(pi[t])
    /\ stage[t] # "dft" /\ Intact(pi[t], "dft") =>
         Good(flash[pi[t]]["dft"]) /\ flash[pi[t]]["dft"].body = ram[pi[t]]
    /\ stage[t] = "end" =>
         /\ pc[t] = "check"
         /\ Intact(pi[t], "bkp") =>
              Good(flash[pi[t]]["bkp"]) /\ flash[pi[t]]["bkp"].body = ram[pi[t]]
    /\ pc[t] \in {"body", "crc"} => sum[t] = ram[pi[t]]
    /\ pc[t] = "body" /\ Intact(pi[t], stage[t]) => flash[pi[t]][stage[t]] = Empty
    /\ pc[t] = "crc" /\ Intact(pi[t], stage[t]) =>
         flash[pi[t]][stage[t]] = [body |-> ram[pi[t]], crc |-> Blank]

IInv == TypeOK /\ CopyInv /\ LoadedInv /\ ValueInv /\ WriteInv

-----------------------------------------------------------------------------
LEMMA ItemsFacts ==
  /\ Items \subseteq 0 .. NItems
  /\ 0 \in Items
  /\ \A n \in Items : n + 1 \in 0 .. NItems /\ (n + 1 # NItems => n + 1 \in Items)
BY SdsAssumption DEF Items

LEMMA WordsType ==
  ASSUME NEW old \in Word, NEW v \in Word
  PROVE  /\ Programmed(old, v) \subseteq {old, v, Torn}
         /\ Programmed(old, v) \in SUBSET Word /\ Interrupted(old, v) \in SUBSET Word
BY DEF Programmed, Interrupted, Word

\* Rewriting one copy keeps the flash well formed and touches no other copy.
LEMMA PutLemma ==
  ASSUME flash \in [Items -> [Copies -> Cells]],
         NEW i \in Items, NEW c \in Copies, NEW cell \in Cells
  PROVE  /\ Put(i, c, cell) \in [Items -> [Copies -> Cells]]
         /\ Put(i, c, cell)[i][c] = cell
         /\ \A j \in Items, d \in Copies :
              j # i \/ d # c => Put(i, c, cell)[j][d] = flash[j][d]
BY DEF Put

\* Nothing but copy c of row i changes.
Touches(i, c) ==
  \A j \in Items, d \in Copies : j # i \/ d # c =>
    flash'[j][d] = flash[j][d] /\ (Intact(j, d)' <=> Intact(j, d))

LEMMA BodyCell ==
  ASSUME flash \in [Items -> [Copies -> Cells]],
         NEW i \in Items, NEW c \in Copies, NEW words \in SUBSET Word, WriteBody(i, c, words)
  PROVE  \E w \in words : [body |-> w, crc |-> flash[i][c].crc] \in Cells
                          /\ flash' = Put(i, c, [body |-> w, crc |-> flash[i][c].crc]) /\ flash'[i][c] = [body |-> w, crc |-> flash[i][c].crc]
<1>1. flash[i][c] \in Cells
  OBVIOUS
<1>2. PICK w \in words : flash' = Put(i, c, [body |-> w, crc |-> flash[i][c].crc])
  BY DEF WriteBody
<1>3. [body |-> w, crc |-> flash[i][c].crc] \in Cells
  BY <1>1 DEF Cells
<1>4. flash'[i][c] = [body |-> w, crc |-> flash[i][c].crc]
  BY <1>2, <1>3, PutLemma
<1> QED BY <1>2, <1>3, <1>4

LEMMA BodyLemma ==
  ASSUME flash \in [Items -> [Copies -> Cells]],
         NEW i \in Items, NEW c \in Copies, NEW words \in SUBSET Word, WriteBody(i, c, words)
  PROVE  /\ flash' \in [Items -> [Copies -> Cells]]
         /\ \A j \in Items, d \in Copies : j # i \/ d # c => flash'[j][d] = flash[j][d]
<1>1. \E cell \in Cells : flash' = Put(i, c, cell)
  BY BodyCell
<1> QED BY <1>1, PutLemma

LEMMA CrcCell ==
  ASSUME flash \in [Items -> [Copies -> Cells]],
         NEW i \in Items, NEW c \in Copies, NEW words \in SUBSET Word, WriteCrc(i, c, words)
  PROVE  \E w \in words : [body |-> flash[i][c].body, crc |-> w] \in Cells
                          /\ flash' = Put(i, c, [body |-> flash[i][c].body, crc |-> w]) /\ flash'[i][c] = [body |-> flash[i][c].body, crc |-> w]
<1>1. flash[i][c] \in Cells
  OBVIOUS
<1>2. PICK w \in words : flash' = Put(i, c, [body |-> flash[i][c].body, crc |-> w])
  BY DEF WriteCrc
<1>3. [body |-> flash[i][c].body, crc |-> w] \in Cells
  BY <1>1 DEF Cells
<1>4. flash'[i][c] = [body |-> flash[i][c].body, crc |-> w]
  BY <1>2, <1>3, PutLemma
<1> QED BY <1>2, <1>3, <1>4

LEMMA CrcLemma ==
  ASSUME flash \in [Items -> [Copies -> Cells]],
         NEW i \in Items, NEW c \in Copies, NEW words \in SUBSET Word, WriteCrc(i, c, words)
  PROVE  /\ flash' \in [Items -> [Copies -> Cells]]
         /\ \A j \in Items, d \in Copies : j # i \/ d # c => flash'[j][d] = flash[j][d]
<1>1. \E cell \in Cells : flash' = Put(i, c, cell)
  BY CrcCell
<1> QED BY <1>1, PutLemma

LEMMA EraseLemma ==
  ASSUME flash \in [Items -> [Copies -> Cells]], damaged \subseteq Items \X Copies,
         NEW i \in Items, NEW c \in Copies, Erase(i, c)
  PROVE  /\ flash' \in [Items -> [Copies -> Cells]]
         /\ damaged' \subseteq Items \X Copies
         /\ Touches(i, c)
         /\ flash'[i][c] \in {flash[i][c], Empty, Scrap}
         /\ Intact(i, c)' => flash'[i][c] = Empty
<1>1. Empty \in Cells /\ Scrap \in Cells /\ flash[i][c] \in Cells
  BY DEF Empty, Scrap, Cells, Word
<1>2. PICK cell \in {flash[i][c], Empty, Scrap} : flash' = Put(i, c, cell)
  BY DEF Erase
<1>3. cell \in Cells
  BY <1>1, <1>2
<1>4. /\ flash' \in [Items -> [Copies -> Cells]] /\ flash'[i][c] = cell
      /\ \A j \in Items, d \in Copies : j # i \/ d # c => flash'[j][d] = flash[j][d]
  BY <1>2, <1>3, PutLemma
<1>5. damaged' = damaged \ {<<i, c>>} \/ damaged' = damaged \cup {<<i, c>>}
  BY DEF Erase
<1>6. \A j \in Items, d \in Copies : j # i \/ d # c =>
        (<<j, d>> \in damaged' <=> <<j, d>> \in damaged)
  BY <1>5
<1>7. <<i, c>> \notin damaged' => flash'[i][c] = Empty
  <2>1. CASE flash' = Put(i, c, Empty)
    BY <1>1, <2>1, PutLemma
  <2>2. CASE damaged' = damaged \cup {<<i, c>>}
    BY <2>2
  <2> QED BY <2>1, <2>2 DEF Erase
<1> QED BY <1>2, <1>4, <1>5, <1>6, <1>7 DEF Touches, Intact

\* SDS_Init and SDS_Poll write words only, to one copy.
LEMMA CpyWords ==
  ASSUME TypeOK, CpyErase \/ CpyBody \/ CpyCrc \/ CpyFail
  PROVE  /\ bi \in Items /\ CpyDest \in Copies /\ Other(CpyDest) \in Copies
         /\ Other(CpyDest) # CpyDest
         /\ flash[bi][CpyDest] \in Cells /\ CpySource \in Cells
         /\ Programmed(flash[bi][CpyDest].body, CpySource.body) \in SUBSET Word
         /\ Interrupted(flash[bi][CpyDest].body, CpySource.body) \in SUBSET Word
         /\ Programmed(flash[bi][CpyDest].crc, CpySource.crc) \in SUBSET Word
         /\ Interrupted(flash[bi][CpyDest].crc, CpySource.crc) \in SUBSET Word
<1>1. /\ bi \in Items /\ CpyDest \in Copies /\ Other(CpyDest) \in Copies
      /\ Other(CpyDest) # CpyDest
  BY DEF TypeOK, CpyErase, CpyBody, CpyCrc, CpyFail, CpyDest, Copies, Other
<1>2. flash[bi][CpyDest] \in Cells /\ CpySource \in Cells
  BY <1>1 DEF TypeOK, CpySource
<1>3. /\ flash[bi][CpyDest].body \in Word /\ flash[bi][CpyDest].crc \in Word
      /\ CpySource.body \in Word /\ CpySource.crc \in Word
  BY <1>2 DEF Cells
<1> QED BY <1>1, <1>2, <1>3, WordsType

LEMMA PollWords ==
  ASSUME TypeOK, NEW t \in Tasks, pc[t] \in {"body", "crc"}
  PROVE  /\ pi[t] \in Items /\ stage[t] \in Copies
         /\ flash[pi[t]][stage[t]] \in Cells /\ ram[pi[t]] \in Vals /\ sum[t] \in Vals
         /\ Programmed(flash[pi[t]][stage[t]].body, ram[pi[t]]) \in SUBSET Word
         /\ Interrupted(flash[pi[t]][stage[t]].body, ram[pi[t]]) \in SUBSET Word
         /\ Programmed(flash[pi[t]][stage[t]].crc, sum[t]) \in SUBSET Word
         /\ Interrupted(flash[pi[t]][stage[t]].crc, sum[t]) \in SUBSET Word
<1>1. /\ pi[t] \in Items /\ stage[t] \in Copies /\ ram[pi[t]] \in Vals /\ sum[t] \in Vals
  BY DEF TypeOK
<1>2. flash[pi[t]][stage[t]] \in Cells
  BY <1>1 DEF TypeOK
<1>3. /\ flash[pi[t]][stage[t]].body \in Word /\ flash[pi[t]][stage[t]].crc \in Word
      /\ ram[pi[t]] \in Word /\ sum[t] \in Word
  BY <1>1, <1>2 DEF Cells, Word
<1> QED BY <1>1, <1>2, <1>3, WordsType

LEMMA InitType == Init => TypeOK
BY ItemsFacts, SdsAssumption
   DEF Init, PowerOn, TypeOK, Cells, Word, Empty, States, Copies

LEMMA TypeStep == TypeOK /\ [Next]_vars => TypeOK'
<1> SUFFICES ASSUME TypeOK, [Next]_vars PROVE TypeOK'
  OBVIOUS
<1> USE DEF loadVars, editVars, pollVars, itemVars, vars
<1>0. CASE UNCHANGED vars
  BY <1>0 DEF TypeOK
<1>1. CASE Load
  <2>1. bi \in Items
    BY <1>1 DEF Load, TypeOK
  <2>2. ASSUME NEW v \in Vals PROVE [ram EXCEPT ![bi] = v] \in [Items -> Vals]
    BY <2>1 DEF TypeOK
  <2>3. CASE LoadDefaults
    <3>1. ram' \in [Items -> Vals]
      BY <2>1, <2>2, <2>3, SdsAssumption DEF LoadDefaults
    <3>2. NextRow(FALSE)
      BY <2>3 DEF LoadDefaults
    <3>3. QED
      BY <1>1, <2>1, <3>1, <3>2, ItemsFacts DEF Load, NextRow, TypeOK, States
  <2>4. CASE LoadEqual
    <3>1. ram' \in [Items -> Vals]
      BY <2>2, <2>4 DEF LoadEqual, Good
    <3>2. NextRow(TRUE)
      BY <2>4 DEF LoadEqual
    <3>3. QED
      BY <1>1, <2>1, <3>1, <3>2, ItemsFacts DEF Load, NextRow, TypeOK, States
  <2>5. ASSUME NEW dest \in Copies, LoadRepair(dest) PROVE TypeOK'
    <3>1. ram' \in [Items -> Vals]
      BY <2>2, <2>5 DEF LoadRepair, Good, Other, Copies
    <3>2. QED
      BY <1>1, <2>5, <3>1 DEF Load, LoadRepair, TypeOK
  <2>6. QED
    BY <1>1, <2>3, <2>4, <2>5 DEF Load
<1>2. CASE CpyErase \/ CpyBody \/ CpyCrc \/ CpyFail
  <2>1. bi \in Items
    BY <1>2, CpyWords
  <2>2. CASE CpyErase
    <3>1. flash' \in [Items -> [Copies -> Cells]] /\ damaged' \subseteq Items \X Copies
      BY <2>2, CpyWords, EraseLemma DEF CpyErase, TypeOK
    <3> QED BY <2>1, <2>2, <3>1 DEF CpyErase, TypeOK
  <2>3. CASE CpyBody \/ CpyCrc \/ CpyFail
    <3>1. flash' \in [Items -> [Copies -> Cells]]
      BY <2>3, CpyWords, BodyLemma, CrcLemma DEF CpyBody, CpyCrc, CpyFail, TypeOK
    <3>2. damaged' \subseteq Items \X Copies
      <4>1. damaged' = damaged \/ damaged' = damaged \cup {<<bi, CpyDest>>}
        BY <2>3 DEF CpyBody, CpyCrc, CpyFail
      <4>2. CpyDest \in Copies /\ damaged \subseteq Items \X Copies
        BY <2>3, CpyWords DEF TypeOK
      <4> QED BY <2>1, <4>1, <4>2
    <3>3. CASE CpyBody
      BY <2>1, <3>1, <3>2, <3>3 DEF CpyBody, TypeOK
    <3>4. CASE CpyCrc
      BY <2>1, <3>1, <3>2, <3>4, ItemsFacts DEF CpyCrc, NextRow, TypeOK, States
    <3>5. CASE CpyFail
      BY <2>1, <3>1, <3>2, <3>5, ItemsFacts DEF CpyFail, NextRow, TypeOK, States
    <3> QED BY <2>3, <3>3, <3>4, <3>5
  <2> QED BY <1>2, <2>2, <2>3
<1>3. CASE Crash
  BY <1>3, ItemsFacts, SdsAssumption DEF Crash, TypeOK, States, Copies
<1>4. ASSUME NEW t \in Tasks, Setter(t) PROVE TypeOK'
  <2>1. CASE Lock(t)
    <3>1. PICK i \in Items, v \in Vals : row' = [row EXCEPT ![t] = i]
                                        /\ new' = [new EXCEPT ![t] = v]
      BY <2>1 DEF Lock
    <3>2. owner' \in [Locks -> Tasks \cup {NoTask}]
      BY <2>1 DEF Lock, TypeOK
    <3>3. QED
      BY <2>1, <3>1, <3>2 DEF Lock, Goto, TypeOK
  <2>2. CASE EditRefused(t) \/ EditAccepted(t) \/ SaveRefused(t)
    <3>1. CASE EditRefused(t)
      BY <3>1 DEF EditRefused, Goto, TypeOK
    <3>2. CASE EditAccepted(t)
      BY <3>2 DEF EditAccepted, Goto, TypeOK
    <3>3. CASE SaveRefused(t)
      BY <3>3 DEF SaveRefused, Goto, TypeOK
    <3> QED BY <2>2, <3>1, <3>2, <3>3
  <2>3. CASE SetEdit(t) \/ SetNeedSave(t)
    <3>1. st' \in [Items -> States] /\ row[t] \in Items
      BY <2>3 DEF SetEdit, SetNeedSave, TypeOK, States
    <3>2. pc' \in [Tasks -> {"idle", "edit", "setEdit", "assign", "save", "setSave",
                           "unlock", "poll", "claim", "check", "body", "crc"}]
      <4>1. pc' = [pc EXCEPT ![t] = "assign"] \/ pc' = [pc EXCEPT ![t] = "unlock"]
        BY <2>3 DEF SetEdit, SetNeedSave, Goto
      <4> QED BY <4>1 DEF TypeOK
    <3>3. QED
      BY <2>3, <3>1, <3>2 DEF SetEdit, SetNeedSave, Goto, TypeOK
  <2>4. CASE Assign(t)
    BY <2>4 DEF Assign, Goto, TypeOK
  <2>5. CASE SaveAccepted(t)
    BY <2>5 DEF SaveAccepted, Goto, TypeOK
  <2>6. CASE Unlock(t)
    BY <2>6, ItemsFacts DEF Unlock, Goto, TypeOK
  <2>7. QED
    BY <1>4, <2>1, <2>2, <2>3, <2>4, <2>5, <2>6 DEF Setter
<1>5. ASSUME NEW t \in Tasks, Poll(t) PROVE TypeOK'
  <2>1. CASE PollSkip(t) \/ PollFound(t) \/ PollReturn(t)
    BY <2>1, ItemsFacts DEF PollSkip, PollFound, PollReturn, Goto, TypeOK
  <2>2. CASE PollClaim(t)
    BY <2>2 DEF PollClaim, Goto, TypeOK, States, Copies
  <2>3. CASE PollChanged(t) \/ PollSaved(t)
    <3>1. pi[t] \in Items /\ pi[t] + 1 \in 0 .. NItems
      BY <2>3, ItemsFacts DEF PollChanged, PollSaved, Goto, TypeOK
    <3>2. CASE PollChanged(t)
      BY <3>1, <3>2 DEF PollChanged, Goto, TypeOK, States, Copies
    <3>3. CASE PollSaved(t)
      BY <3>1, <3>3 DEF PollSaved, Goto, TypeOK, States, Copies
    <3>4. QED
      BY <2>3, <3>2, <3>3
  <2>4. CASE PollErase(t)
    <3>1. pi[t] \in Items /\ stage[t] \in Copies /\ ram[pi[t]] \in Vals
      BY <2>4 DEF PollErase, Goto, TypeOK
    <3>2. flash' \in [Items -> [Copies -> Cells]] /\ damaged' \subseteq Items \X Copies
      BY <2>4, <3>1, EraseLemma DEF PollErase, TypeOK
    <3>3. QED
      BY <2>4, <3>1, <3>2 DEF PollErase, Goto, TypeOK
  <2>5. CASE PollBody(t) \/ PollCrc(t) \/ PollWriteFail(t)
    <3>1. pc[t] \in {"body", "crc"}
      BY <2>5 DEF PollBody, PollCrc, PollWriteFail, Goto
    <3>2. pi[t] \in Items /\ stage[t] \in Copies /\ pi[t] + 1 \in 0 .. NItems
      BY <3>1, ItemsFacts DEF TypeOK
    <3>3. flash' \in [Items -> [Copies -> Cells]]
      <4>1. PICK words \in SUBSET Word :
              WriteBody(pi[t], stage[t], words) \/ WriteCrc(pi[t], stage[t], words)
        BY <2>5, <3>1, PollWords DEF PollBody, PollCrc, PollWriteFail
      <4>2. PICK i \in Items, c \in Copies : i = pi[t] /\ c = stage[t]
        BY <3>2
      <4>3. flash \in [Items -> [Copies -> Cells]]
        BY DEF TypeOK
      <4>4. CASE WriteBody(i, c, words)
        BY <4>3, <4>4, BodyLemma
      <4>5. CASE WriteCrc(i, c, words)
        BY <4>3, <4>5, CrcLemma
      <4> QED BY <4>1, <4>2, <4>4, <4>5
    <3>4. CASE PollBody(t)
      BY <3>2, <3>3, <3>4 DEF PollBody, Goto, TypeOK
    <3>5. CASE PollCrc(t)
      BY <3>2, <3>3, <3>5 DEF PollCrc, Goto, TypeOK, Copies
    <3>6. CASE PollWriteFail(t)
      BY <3>2, <3>3, <3>6 DEF PollWriteFail, Goto, TypeOK, Copies
    <3>7. QED
      BY <2>5, <3>4, <3>5, <3>6
  <2>6. QED
    BY <1>5, <2>1, <2>2, <2>3, <2>4, <2>5 DEF Poll
<1>6. QED
  BY <1>0, <1>1, <1>2, <1>3, <1>4, <1>5 DEF Next, SdsInit

\* Every variable has its type, in every reachable state.
THEOREM TypeCorrect == Spec => []TypeOK
BY InitType, TypeStep, PTL DEF Spec
-----------------------------------------------------------------------------
(* One task: what a flash operation can do to a row.                        *)

LEMMA CellFacts ==
  /\ ~Good(Empty) /\ ~Good(Scrap)
  /\ \A v \in Vals : v # Blank /\ v # Torn /\ ~Good([body |-> v, crc |-> Blank])
  /\ \A v \in Vals : Good([body |-> v, crc |-> v])
  /\ \A cell \in Cells : Good(cell) => cell.body \in Vals
BY SdsAssumption DEF Good, Empty, Scrap, Cells

\* A copy that is written with v, or fails to be, can be read as v only, or as
\* what it could be read as before.
LEMMA NoThirdValue ==
  ASSUME NEW cell \in Cells, NEW v \in Vals, NEW w \in Word, NEW after,
         \/ w \in {cell.body, v, Torn} /\ after = [body |-> w, crc |-> cell.crc]
         \/ w \in {cell.crc, v, Torn} /\ after = [body |-> cell.body, crc |-> w],
         Good(cell) => cell.body = v,
         Good(after)
  PROVE  after.body = v
<1>1. v \in Vals /\ Torn \notin Vals
  BY SdsAssumption
<1>2. CASE w \in {cell.body, v, Torn} /\ after = [body |-> w, crc |-> cell.crc]
  <2>1. w \in Vals /\ cell.crc = w
    BY <1>2 DEF Good
  <2> QED BY <1>1, <1>2, <2>1 DEF Good
<1>3. CASE w \in {cell.crc, v, Torn} /\ after = [body |-> cell.body, crc |-> w]
  <2>1. cell.body \in Vals /\ w = cell.body
    BY <1>3 DEF Good
  <2> QED BY <1>1, <1>3, <2>1 DEF Good
<1> QED BY <1>2, <1>3

\* The rows a flash operation is not about stay as they are.
LEMMA OtherRows ==
  ASSUME NEW i \in Items, NEW c \in Copies, Touches(i, c), NEW j \in Items, j # i
  PROVE  /\ Stored(j)' = Stored(j) /\ (HasCopy(j)' <=> HasCopy(j))
         /\ (Sound(j)' <=> Sound(j)) /\ (Mirrored(j)' <=> Mirrored(j))
<1>1. \A d \in Copies : flash'[j][d] = flash[j][d] /\ (Intact(j, d)' <=> Intact(j, d))
  BY DEF Touches
<1>2. flash'[j]["dft"] = flash[j]["dft"] /\ flash'[j]["bkp"] = flash[j]["bkp"]
  BY <1>1 DEF Copies
<1>3. (HasCopy(j)' <=> HasCopy(j)) /\ (Sound(j)' <=> Sound(j))
  BY <1>1 DEF HasCopy, Sound, Intact
<1>4. Stored(j)' = Stored(j)
  BY <1>2 DEF Stored
<1> QED BY <1>2, <1>3, <1>4 DEF Mirrored

\* Nothing in the flash changes.
LEMMA SameFlash ==
  ASSUME UNCHANGED <<flash, damaged>>, NEW i \in Items
  PROVE  /\ Stored(i)' = Stored(i) /\ (HasCopy(i)' <=> HasCopy(i))
         /\ (Sound(i)' <=> Sound(i)) /\ (Mirrored(i)' <=> Mirrored(i))
BY DEF Stored, HasCopy, Sound, Mirrored

-----------------------------------------------------------------------------
(* What a step is to the StableStore.                                       *)

StoredRows == [i \in Items |-> Stored(i)]
WorkRows   == IF Running THEN ram ELSE StoredRows
WeakRows   == {i \in Items : ~Sound(i)}

\* A sound row keeps its value, or takes that of the program and stays sound.
RowStep(i) == Sound(i) => \/ Stored(i)' = Stored(i)
                          \/ Stored(i)' = ram[i] /\ Sound(i)' /\ Running

\* A sound row that can be read stays so.
Keeps(i) == Sound(i) /\ HasCopy(i) => HasCopy(i)'

SameRows == \A i \in Items : /\ Stored(i)' = Stored(i) /\ (Sound(i)' <=> Sound(i))
                             /\ Keeps(i)

LEMMA StoreStep ==
  ASSUME TypeOK, TypeOK', NEW i \in Items, RowStep(i), WorkRows' = WorkRows,
         \A j \in Items : j # i => Stored(j)' = Stored(j) /\ (Sound(j)' <=> Sound(j))
  PROVE  [Store!Next]_Store!vars
<1>0. Stored(i)' \in Vals
  BY SdsAssumption DEF TypeOK, Stored, Good
<1>1. StoredRows' = [StoredRows EXCEPT ![i] = Stored(i)'] /\ Stored(i)' \in Vals
  <2>1. \A j \in Items : StoredRows'[j] = Stored(j)' /\ StoredRows[j] = Stored(j)
    BY DEF StoredRows
  <2>2. StoredRows' = [j \in Items |-> StoredRows'[j]]
    BY DEF StoredRows
  <2>3. [StoredRows EXCEPT ![i] = Stored(i)'] =
          [j \in Items |-> IF j = i THEN Stored(i)' ELSE StoredRows[j]]
    BY DEF StoredRows
  <2> QED BY <1>0, <2>1, <2>2, <2>3
<1>2. CASE ~Sound(i)
  <2>1. i \in WeakRows /\ WeakRows' \in {WeakRows, WeakRows \ {i}}
    <3>1. \A j \in Items : j # i => (j \in WeakRows' <=> j \in WeakRows)
      BY DEF WeakRows
    <3> QED BY <1>2, <3>1 DEF WeakRows
  <2>2. Store!Shake(i)
    BY <1>1, <2>1 DEF Store!Shake, StoredRows, WorkRows, WeakRows
  <2> QED BY <2>2 DEF Store!Next
<1>3. CASE Sound(i) /\ Stored(i)' = Stored(i)
  <2>1. StoredRows' = StoredRows
    BY <1>1, <1>3 DEF StoredRows
  <2>2. WeakRows' \in {WeakRows, WeakRows \cup {i}}
    <3>1. \A j \in Items : j # i => (j \in WeakRows' <=> j \in WeakRows)
      BY DEF WeakRows
    <3> QED BY <1>3, <3>1 DEF WeakRows
  <2>3. CASE WeakRows' = WeakRows
    BY <2>1, <2>3 DEF Store!vars, StoredRows, WorkRows, WeakRows
  <2>4. CASE WeakRows' = WeakRows \cup {i}
    <3>1. Store!Weaken(i)
      BY <2>1, <2>4 DEF Store!Weaken, StoredRows, WorkRows, WeakRows
    <3> QED BY <3>1 DEF Store!Next
  <2> QED BY <2>2, <2>3, <2>4
<1>4. CASE Sound(i) /\ Stored(i)' = ram[i] /\ Sound(i)' /\ Running
  <2>1. WeakRows' = WeakRows
    BY <1>4 DEF WeakRows
  <2>2. StoredRows' = [StoredRows EXCEPT ![i] = WorkRows[i]]
    BY <1>1, <1>4 DEF WorkRows
  <2>3. Store!Commit(i)
    BY <2>1, <2>2 DEF Store!Commit, StoredRows, WorkRows, WeakRows
  <2> QED BY <2>3 DEF Store!Next
<1> QED BY <1>2, <1>3, <1>4 DEF RowStep

\* A step that changes neither the flash nor the working copy.
LEMMA StoreStutter ==
  ASSUME SameRows, WorkRows' = WorkRows
  PROVE  [Store!Next]_Store!vars
<1>1. StoredRows' = StoredRows /\ WeakRows' = WeakRows
  BY DEF SameRows, StoredRows, WeakRows
<1> QED BY <1>1 DEF Store!vars, StoredRows, WorkRows, WeakRows

-----------------------------------------------------------------------------
(* The steps keep the invariant.                                            *)

LEMMA InitInv == Init => IInv
<1> SUFFICES ASSUME Init PROVE IInv
  OBVIOUS
<1>1. TypeOK
  BY InitType
<1>2. CopyInv /\ ValueInv /\ WriteInv
  BY DEF Init, PowerOn, CopyInv, ValueInv, WriteInv, Copying, Writing
<1>3. LoadedInv
  BY SdsAssumption DEF Init, PowerOn, LoadedInv, Running, Items
<1> QED
  BY <1>1, <1>2, <1>3 DEF IInv

\* What _cpy does to the row: the source stays; a restart reads its value.
LEMMA CpyFacts ==
  ASSUME IInv, CpyErase \/ CpyBody \/ CpyCrc \/ CpyFail,
         NEW b \in Items, NEW d \in Copies, b = bi, d = CpyDest
  PROVE  /\ bpc \in Copying /\ Touches(b, d) /\ Other(d) \in Copies /\ Other(d) # d
         /\ Good(CpySource) /\ flash'[b][Other(d)] = CpySource
         /\ d = "dft" /\ Good(flash'[b]["dft"]) => flash'[b]["dft"].body = CpySource.body
         /\ Intact(b, d)' =>
              /\ ~CpyFail
              /\ CpyErase => flash'[b][d] = Empty
              /\ CpyBody => flash'[b][d] = [body |-> CpySource.body, crc |-> Blank]
              /\ CpyCrc => flash'[b][d] = CpySource
<1> DEFINE src == CpySource
           dst == flash[b][d]
<1>1. /\ TypeOK /\ b = bi /\ d = CpyDest /\ Other(d) \in Copies
      /\ Other(d) # d /\ dst \in Cells /\ src \in Cells
      /\ flash \in [Items -> [Copies -> Cells]]
  BY CpyWords DEF IInv, TypeOK
<1>2. bpc \in Copying
  BY DEF CpyErase, CpyBody, CpyCrc, CpyFail, Copying
<1>3. /\ Good(src) /\ (d = "dft" /\ Good(dst) => dst.body = src.body)
  BY <1>2 DEF IInv, CopyInv
<1>4. src.body \in Vals /\ src.crc = src.body /\ src = [body |-> src.body, crc |-> src.body]
  BY <1>1, <1>3 DEF Good, Cells
<1>5. CASE CpyErase
  <2>1. /\ Touches(b, d) /\ flash'[b][d] \in {dst, Empty, Scrap}
        /\ (Intact(b, d)' => flash'[b][d] = Empty)
    BY <1>1, <1>5, EraseLemma DEF CpyErase, TypeOK
  <2>2. ~CpyBody /\ ~CpyCrc /\ ~CpyFail
    BY <1>5 DEF CpyErase, CpyBody, CpyCrc, CpyFail
  <2>3. flash'[b][Other(d)] = src
    BY <1>1, <2>1 DEF Touches, CpySource
  <2>4. d = "dft" /\ Good(flash'[b]["dft"]) => flash'[b]["dft"].body = src.body
    BY <1>3, <2>1, CellFacts
  <2> QED BY <1>1, <1>2, <1>3, <2>1, <2>2, <2>3, <2>4
<1>6. CASE CpyBody \/ CpyCrc \/ CpyFail
  <2>0. flash \in [Items -> [Copies -> Cells]]
    BY <1>1
  <2>1. PICK w \in Word :
          /\ \/ w \in {dst.body, src.body, Torn} /\ flash'[b][d] = [body |-> w, crc |-> dst.crc]
             \/ w \in {dst.crc, src.body, Torn} /\ flash'[b][d] = [body |-> dst.body, crc |-> w]
          /\ CpyBody => /\ w \in Programmed(dst.body, src.body)
                        /\ flash'[b][d] = [body |-> w, crc |-> dst.crc]
          /\ CpyCrc => /\ w \in Programmed(dst.crc, src.body)
                       /\ flash'[b][d] = [body |-> dst.body, crc |-> w]
    <3>1. /\ Programmed(dst.body, src.body) \in SUBSET Word
          /\ Interrupted(dst.body, src.body) \in SUBSET Word
          /\ Programmed(dst.crc, src.body) \in SUBSET Word
          /\ Interrupted(dst.crc, src.body) \in SUBSET Word
      BY <1>1, <1>4, CpyWords
    <3>2. /\ Programmed(dst.body, src.body) \subseteq {dst.body, src.body, Torn}
          /\ Programmed(dst.crc, src.body) \subseteq {dst.crc, src.body, Torn}
      BY <1>1, <1>4, WordsType DEF Cells, Word
    <3>3. CASE CpyBody
      <4>1. ~CpyCrc
        BY <3>3 DEF CpyBody, CpyCrc
      <4>2. PICK words \in SUBSET Word :
              words = Programmed(dst.body, src.body) /\ WriteBody(b, d, words)
        BY <1>1, <3>1, <3>3 DEF CpyBody
      <4>3. WriteBody(b, d, words)
        BY <4>2
      <4>4. PICK w \in words : flash'[b][d] = [body |-> w, crc |-> dst.crc]
        BY <2>0, <4>3, BodyCell
      <4> QED BY <3>2, <4>1, <4>2, <4>4
    <3>4. CASE CpyCrc
      <4>1. ~CpyBody
        BY <3>4 DEF CpyBody, CpyCrc
      <4>2. PICK words \in SUBSET Word :
              words = Programmed(dst.crc, src.body) /\ WriteCrc(b, d, words)
        BY <1>1, <1>4, <3>1, <3>4 DEF CpyCrc
      <4>3. WriteCrc(b, d, words)
        BY <4>2
      <4>4. PICK w \in words : flash'[b][d] = [body |-> dst.body, crc |-> w]
        BY <2>0, <4>3, CrcCell
      <4> QED BY <3>2, <4>1, <4>2, <4>4
    <3>5. CASE CpyFail /\ ~CpyBody /\ ~CpyCrc
      <4>1. ASSUME NEW words \in SUBSET Word, words = Interrupted(dst.body, src.body),
                   WriteBody(b, d, words)
            PROVE  \E w \in Word : /\ w \in {dst.body, src.body, Torn}
                                   /\ flash'[b][d] = [body |-> w, crc |-> dst.crc]
        <5>1. WriteBody(b, d, words)
          BY <4>1
        <5>2. PICK w \in words : flash'[b][d] = [body |-> w, crc |-> dst.crc]
          BY <2>0, <5>1, BodyCell
        <5> QED BY <4>1, <5>2 DEF Interrupted
      <4>2. ASSUME NEW words \in SUBSET Word, words = Interrupted(dst.crc, src.body),
                   WriteCrc(b, d, words)
            PROVE  \E w \in Word : /\ w \in {dst.crc, src.body, Torn}
                                   /\ flash'[b][d] = [body |-> dst.body, crc |-> w]
        <5>1. WriteCrc(b, d, words)
          BY <4>2
        <5>2. PICK w \in words : flash'[b][d] = [body |-> dst.body, crc |-> w]
          BY <2>0, <5>1, CrcCell
        <5> QED BY <4>2, <5>2 DEF Interrupted
      <4>3. \/ WriteBody(b, d, Interrupted(dst.body, src.body))
            \/ WriteCrc(b, d, Interrupted(dst.crc, src.body))
        BY <1>1, <1>4, <3>5 DEF CpyFail
      <4> QED BY <3>1, <3>5, <4>1, <4>2, <4>3
    <3> QED BY <1>6, <3>3, <3>4, <3>5
  <2>2. \A j \in Items, e \in Copies : j # b \/ e # d => flash'[j][e] = flash[j][e]
    <3>1. \E words \in SUBSET Word : WriteBody(b, d, words) \/ WriteCrc(b, d, words)
      BY <1>1, <1>6, CpyWords DEF CpyBody, CpyCrc, CpyFail, IInv
    <3>2. PICK words \in SUBSET Word : WriteBody(b, d, words) \/ WriteCrc(b, d, words)
      BY <3>1
    <3>3. CASE WriteBody(b, d, words)
      BY <1>1, <3>3, BodyLemma
    <3>4. CASE WriteCrc(b, d, words)
      BY <1>1, <3>4, CrcLemma
    <3> QED BY <3>2, <3>3, <3>4
  <2>3. damaged' = damaged \/ damaged' = damaged \cup {<<b, d>>}
    BY <1>6 DEF CpyBody, CpyCrc, CpyFail
  <2>4. Touches(b, d)
    BY <2>2, <2>3 DEF Touches, Intact
  <2>5. flash'[b][Other(d)] = src
    BY <1>1, <2>2 DEF CpySource
  <2>6. d = "dft" /\ Good(flash'[b]["dft"]) => flash'[b]["dft"].body = src.body
    BY <1>1, <1>3, <1>4, <2>1, NoThirdValue
  <2>7. ~CpyErase
    BY <1>6 DEF CpyErase, CpyBody, CpyCrc, CpyFail
  <2>8. Intact(b, d)' =>
          /\ ~CpyFail
          /\ CpyBody => flash'[b][d] = [body |-> src.body, crc |-> Blank]
          /\ CpyCrc => flash'[b][d] = src
    <3> SUFFICES ASSUME Intact(b, d)'
                 PROVE  /\ ~CpyFail
                        /\ CpyBody => flash'[b][d] = [body |-> src.body, crc |-> Blank]
                        /\ CpyCrc => flash'[b][d] = src
      OBVIOUS
    <3>1. ~CpyFail
      BY DEF CpyFail, Intact
    <3>2. Intact(b, d)
      BY <2>3 DEF Intact
    <3>3. ASSUME CpyBody PROVE flash'[b][d] = [body |-> src.body, crc |-> Blank]
      <4>1. dst = Empty
        BY <1>2, <3>2, <3>3 DEF IInv, CopyInv, CpyBody
      <4> QED BY <2>1, <3>3, <4>1 DEF Programmed, Empty
    <3>4. ASSUME CpyCrc PROVE flash'[b][d] = src
      <4>1. dst = [body |-> src.body, crc |-> Blank]
        BY <1>2, <3>2, <3>4 DEF IInv, CopyInv, CpyCrc
      <4>2. w = src.body
        BY <2>1, <3>4, <4>1 DEF Programmed
      <4> QED BY <1>4, <2>1, <3>4, <4>1, <4>2
    <3> QED BY <3>1, <3>3, <3>4
  <2> QED BY <1>1, <1>2, <1>3, <2>4, <2>5, <2>6, <2>7, <2>8
<1> QED BY <1>5, <1>6

\* The load steps of SDS_Init keep the invariant, and what is stored.
LEMMA LoadStep ==
  ASSUME IInv, SdsInit
  PROVE  IInv' /\ (\A i \in Items : Keeps(i)) /\ [Store!Next]_Store!vars
<1> USE DEF loadVars, editVars, pollVars, itemVars, vars
<1>1. TypeOK /\ TypeOK' /\ CopyInv /\ LoadedInv /\ ValueInv
  BY TypeStep DEF IInv, Next
<1>2. bi \in Items /\ ~Running /\ \A t \in Tasks : pc[t] = "idle"
  BY DEF IInv, TypeOK, ValueInv, SdsInit, Load, CpyErase, CpyBody, CpyCrc, CpyFail, Running
<1>3. pc' = pc /\ \A t \in Tasks : pc'[t] = "idle"
  BY <1>2 DEF SdsInit, Load, CpyErase, CpyBody, CpyCrc, CpyFail
<1>4. WriteInv'
  BY <1>3 DEF WriteInv, Writing
<1>5. ValueInv'
  <2>1. \A i \in Items : st[i] \notin {"NEED_SAVE", "SAVING"}
    BY <1>2 DEF IInv, ValueInv
  <2>2. st' = st \/ st' = [st EXCEPT ![bi] = "IDLE"]
    BY DEF SdsInit, Load, LoadDefaults, LoadEqual, LoadRepair, CpyErase, CpyBody,
           CpyCrc, CpyFail, NextRow
  <2>3. \A i \in Items : st'[i] \notin {"NEED_SAVE", "SAVING"}
    BY <1>1, <2>1, <2>2 DEF TypeOK
  <2>4. QED
    BY <1>3, <2>3 DEF ValueInv, Writing
<1>6. PICK b \in Items : b = bi
  BY <1>2
<1>7. \A i \in Items : i < b => Mirrored(i) /\ ram[i] = Stored(i)
  BY <1>1, <1>2, <1>6 DEF LoadedInv, ValueInv, Busy, Writing
<1>8. ASSUME \A j \in Items : j # b => /\ Stored(j)' = Stored(j) /\ ram'[j] = ram[j]
                                       /\ (Mirrored(j)' <=> Mirrored(j)),
             NEW ok, NextRow(ok), Mirrored(b)', ram'[b] = Stored(b)'
      PROVE  CopyInv' /\ LoadedInv' /\ WorkRows' = StoredRows'
  <2>1. bi' = b + 1 /\ bpc' \in {"read", "run"} /\ (bpc' = "run" => bi' = NItems)
    BY <1>6, <1>8 DEF NextRow
  <2>2. \A i \in Items : (i < bi' => i < b \/ i = b) /\ i < NItems
    BY <2>1, SdsAssumption DEF Items
  <2>3. \A i \in Items : i < bi' => Mirrored(i)' /\ ram'[i] = Stored(i)'
    BY <1>7, <1>8, <2>2
  <2>4. CopyInv' /\ LoadedInv'
    BY <2>1, <2>3 DEF CopyInv, LoadedInv, Running, Copying
  <2>5. WorkRows' = StoredRows'
    <3>1. bpc' = "run" => \A i \in Items : ram'[i] = Stored(i)'
      BY <2>1, <2>2, <2>3
    <3>2. ram' = [i \in Items |-> ram'[i]]
      BY <1>1 DEF TypeOK
    <3> QED BY <3>1, <3>2 DEF WorkRows, StoredRows, Running
  <2> QED BY <2>4, <2>5
<1>9. ASSUME \A j \in Items : j # b => /\ Stored(j)' = Stored(j) /\ ram'[j] = ram[j]
                                       /\ (Mirrored(j)' <=> Mirrored(j)),
             bi' = bi, bpc' # "run"
      PROVE  LoadedInv' /\ WorkRows' = StoredRows'
  <2>1. \A i \in Items : i < b => i # b
    BY SdsAssumption DEF Items
  <2> QED BY <1>6, <1>7, <1>9, <2>1 DEF LoadedInv, Running, WorkRows
<1>10. CASE Load
  <2>1. UNCHANGED <<flash, damaged>>
    BY <1>10 DEF Load
  <2>2. SameRows /\ \A i \in Items : Keeps(i)
    BY <2>1, SameFlash DEF SameRows, Keeps
  <2>3. WorkRows = StoredRows /\ StoredRows' = StoredRows
    BY <1>2, <2>2 DEF WorkRows, SameRows, StoredRows
  <2>4. \A j \in Items : j # b => /\ Stored(j)' = Stored(j) /\ ram'[j] = ram[j]
                                  /\ (Mirrored(j)' <=> Mirrored(j))
    BY <1>1, <1>6, <1>10, <2>1, SameFlash DEF Load, LoadDefaults, LoadEqual, LoadRepair, TypeOK
  <2>5. CopyInv' /\ LoadedInv' /\ WorkRows' = StoredRows'
    <3>1. CASE LoadDefaults
      <4>1. ram'[b] = Stored(b)' /\ Mirrored(b)'
        BY <1>1, <1>6, <2>1, <3>1 DEF LoadDefaults, Stored, Mirrored, HasCopy, Copies, TypeOK
      <4> QED BY <1>8, <2>4, <3>1, <4>1 DEF LoadDefaults
    <3>2. CASE LoadEqual
      <4>1. ram'[b] = Stored(b)' /\ Mirrored(b)'
        BY <1>1, <1>6, <2>1, <3>2 DEF LoadEqual, Stored, Mirrored, TypeOK
      <4> QED BY <1>8, <2>4, <3>2, <4>1 DEF LoadEqual
    <3>3. ASSUME NEW dest \in Copies, LoadRepair(dest)
          PROVE  CopyInv' /\ LoadedInv' /\ WorkRows' = StoredRows'
      <4>1. bpc' \in {"cpyDft", "cpyBkp"} /\ CpyDest' = dest /\ bi' = bi
        BY <3>3 DEF LoadRepair, CpyDest, Copies
      <4>2. CpySource' = flash[b][Other(dest)]
        BY <1>6, <2>1, <4>1 DEF CpySource, Other
      <4>3. Good(flash[b][Other(dest)]) /\ ram'[b] = flash[b][Other(dest)].body
            /\ (dest = "dft" => ~Good(flash[b]["dft"]))
        BY <1>1, <1>6, <3>3 DEF LoadRepair, Other, Copies, TypeOK
      <4>4. CopyInv'
        BY <1>6, <2>1, <4>1, <4>2, <4>3 DEF CopyInv, Copying
      <4> QED BY <1>9, <2>4, <4>1, <4>4
    <3> QED BY <1>10, <3>1, <3>2, <3>3 DEF Load
  <2>6. [Store!Next]_Store!vars
    BY <2>2, <2>3, <2>5, StoreStutter
  <2> QED BY <1>1, <1>4, <1>5, <2>2, <2>5, <2>6 DEF IInv
<1>11. CASE CpyErase \/ CpyBody \/ CpyCrc \/ CpyFail
  <2>1. PICK d \in Copies : d = CpyDest
    BY <1>1, <1>11, CpyWords
  <2>2. PICK src \in Cells : src = CpySource
    BY <1>1, <1>11, CpyWords
  <2>3. /\ bpc \in Copying /\ Touches(b, d) /\ Other(d) \in Copies /\ Other(d) # d
        /\ Good(src) /\ flash'[b][Other(d)] = src
        /\ d = "dft" /\ Good(flash'[b]["dft"]) => flash'[b]["dft"].body = src.body
        /\ Intact(b, d)' =>
             /\ ~CpyFail
             /\ CpyErase => flash'[b][d] = Empty
             /\ CpyBody => flash'[b][d] = [body |-> src.body, crc |-> Blank]
             /\ CpyCrc => flash'[b][d] = src
    BY <1>6, <1>11, <2>1, <2>2, CpyFacts
  <2>4. flash[b][Other(d)] = src /\ ram[b] = src.body /\ ram' = ram
        /\ (d = "dft" /\ Good(flash[b]["dft"]) => flash[b]["dft"].body = src.body)
    BY <1>1, <1>6, <1>11, <2>1, <2>2, <2>3
       DEF CopyInv, CpySource, CpyErase, CpyBody, CpyCrc, CpyFail
  <2>5. Stored(b) = src.body /\ Stored(b)' = src.body
    <3>1. CASE d = "dft"
      BY <2>3, <2>4, <3>1 DEF Stored, Other
    <3>2. CASE d = "bkp"
      BY <2>3, <2>4, <3>2 DEF Stored, Other
    <3> QED BY <3>1, <3>2 DEF Copies
  <2>6. \A j \in Items : j # b => /\ Stored(j)' = Stored(j) /\ ram'[j] = ram[j]
                                  /\ (Mirrored(j)' <=> Mirrored(j))
                                  /\ (Sound(j)' <=> Sound(j)) /\ (HasCopy(j)' <=> HasCopy(j))
    BY <2>3, <2>4, OtherRows
  <2>7. \A i \in Items : Keeps(i)
    <3>1. HasCopy(b)'
      BY <2>3 DEF HasCopy
    <3> QED BY <2>6, <3>1 DEF Keeps
  <2>8. StoredRows' = StoredRows /\ WorkRows = StoredRows
    <3>1. \A j \in Items : Stored(j)' = Stored(j)
      BY <2>5, <2>6
    <3> QED BY <1>2, <3>1 DEF WorkRows, StoredRows
  <2>9. CopyInv' /\ LoadedInv' /\ WorkRows' = StoredRows'
    <3>1. CASE CpyErase \/ CpyBody
      <4>1. bpc' \in Copying /\ bi' = bi /\ CpyDest' = d
            /\ (CpyErase => bpc' \in {"cpyDftBody", "cpyBkpBody"})
            /\ (CpyBody => bpc' \in {"cpyDftCrc", "cpyBkpCrc"})
        BY <2>1, <3>1 DEF CpyErase, CpyBody, CpyDest, Copying
      <4>2. CpySource' = src
        BY <1>6, <2>3, <4>1 DEF CpySource, Other
      <4>3. Intact(bi, CpyDest)' <=> Intact(b, d)'
        BY <1>6, <4>1 DEF Intact
      <4>4. CopyInv'
        BY <1>6, <2>3, <2>4, <3>1, <4>1, <4>2, <4>3 DEF CopyInv
      <4>5. bpc' # "run"
        BY <4>1 DEF Copying
      <4> QED BY <1>9, <2>6, <4>1, <4>4, <4>5
    <3>2. CASE CpyCrc \/ CpyFail
      <4>1. Mirrored(b)'
        <5>1. Sound(b)' => Intact(b, d)'
          BY DEF Sound, Intact
        <5>2. Sound(b)' => flash'[b][d] = src
          BY <2>3, <3>2, <5>1
        <5>3. {d, Other(d)} = Copies
          BY <2>3 DEF Copies
        <5> QED BY <2>3, <5>2, <5>3 DEF Mirrored, Copies
      <4>2. \E ok : NextRow(ok)
        BY <3>2 DEF CpyCrc, CpyFail
      <4> QED BY <1>8, <2>4, <2>5, <2>6, <4>1, <4>2
    <3> QED BY <1>11, <3>1, <3>2
  <2>10. [Store!Next]_Store!vars
    <3>1. RowStep(b)
      BY <2>5 DEF RowStep
    <3> QED BY <1>1, <2>6, <2>8, <2>9, <3>1, StoreStep
  <2> QED BY <1>1, <1>4, <1>5, <2>7, <2>9, <2>10 DEF IInv
<1> QED BY <1>10, <1>11 DEF SdsInit
LEMMA CrashStep ==
  ASSUME IInv, Crash
  PROVE  IInv' /\ (\A i \in Items : Keeps(i)) /\ [Store!Next]_Store!vars
<1>1. TypeOK'
  BY TypeStep DEF IInv, Next
<1>2. bpc' = "read" /\ bi' = 0 /\ (\A t \in Tasks : pc'[t] = "idle") /\ UNCHANGED <<flash, damaged>>
  BY DEF Crash
<1>3. CopyInv' /\ WriteInv'
  BY <1>2 DEF CopyInv, WriteInv, Copying, Writing
<1>4. LoadedInv'
  BY <1>2, SdsAssumption DEF LoadedInv, Running, Items
<1>5. ValueInv'
  BY <1>2 DEF Crash, ValueInv, Writing
<1>6. SameRows /\ \A i \in Items : Keeps(i)
  BY <1>2, SameFlash DEF SameRows, Keeps
<1>7. StoredRows' = StoredRows /\ WeakRows' = WeakRows /\ WorkRows' = StoredRows'
  BY <1>2, <1>6 DEF SameRows, StoredRows, WeakRows, WorkRows, Running
<1>8. Store!Restart
  BY <1>7 DEF Store!Restart, StoredRows, WeakRows, WorkRows
<1> QED
  BY <1>1, <1>3, <1>4, <1>5, <1>6, <1>8 DEF IInv, Store!Next

\* A setter changes the working copy of one row and nothing else.
LEMMA SetterStep ==
  ASSUME SingleWriter, IInv, NEW t \in Tasks, Setter(t)
  PROVE  IInv' /\ (\A i \in Items : Keeps(i)) /\ [Store!Next]_Store!vars
<1> USE DEF loadVars, editVars, pollVars, itemVars, vars
<1>1. TypeOK /\ TypeOK'
  BY TypeStep DEF IInv, Next
<1>2. \A u \in Tasks : u = t
  BY DEF SingleWriter
<1>3. Running /\ UNCHANGED <<flash, damaged, loadVars, pollVars>>
      /\ pc[t] \notin Writing /\ pc'[t] \notin Writing \cup {"claim"}
  BY <1>1 DEF Setter, Lock, EditRefused, EditAccepted, SetEdit, Assign, SaveRefused,
              SaveAccepted, SetNeedSave, Unlock, Goto, Writing, TypeOK
<1>4. CopyInv' /\ WriteInv'
  BY <1>2, <1>3 DEF CopyInv, WriteInv, Running, Copying
<1>5. LoadedInv'
  <2>1. bi = NItems /\ \A i \in Items : i < bi /\ st[i] # "SAVING" => Mirrored(i)
    BY <1>2, <1>3 DEF IInv, LoadedInv, Busy
  <2>2. \A i \in Items : st'[i] # "SAVING" => st[i] # "SAVING"
    BY <1>1 DEF Setter, Lock, EditRefused, EditAccepted, SetEdit, Assign, SaveRefused,
                SaveAccepted, SetNeedSave, Unlock, Goto, IInv, ValueInv, TypeOK
  <2>3. QED
    BY <1>3, <2>1, <2>2, SameFlash DEF LoadedInv, Running
<1>6. ValueInv'
  <2> USE <1>1, <1>2, <1>3
  <2>1. row[t] \in Items /\ Running' /\ ValueInv
    BY DEF TypeOK, Running, IInv
  <2>2. CASE Lock(t) \/ EditAccepted(t) \/ SaveRefused(t) \/ Unlock(t)
    BY <2>1, <2>2 DEF Lock, EditAccepted, SaveRefused, Unlock, Goto, ValueInv, TypeOK, Writing
  <2>3. CASE EditRefused(t)
    BY <2>1, <2>3 DEF EditRefused, Goto, ValueInv, TypeOK, Writing
  <2>4. CASE SetEdit(t)
    BY <2>1, <2>4 DEF SetEdit, Goto, ValueInv, TypeOK, Writing
  <2>5. CASE Assign(t)
    BY <2>1, <2>5 DEF Assign, Goto, ValueInv, TypeOK, Writing
  <2>6. CASE SaveAccepted(t)
    BY <2>1, <2>6 DEF SaveAccepted, Goto, ValueInv, TypeOK, Writing
  <2>7. CASE SetNeedSave(t)
    BY <2>1, <2>7 DEF SetNeedSave, Goto, ValueInv, TypeOK, Writing
  <2>8. QED
    BY <2>2, <2>3, <2>4, <2>5, <2>6, <2>7 DEF Setter
<1>7. SameRows /\ (\A i \in Items : Keeps(i)) /\ WorkRows = ram /\ WorkRows' = ram'
  BY <1>3, SameFlash DEF SameRows, Keeps, WorkRows, Running
<1>8. ram' = ram \/ \E i \in Items, v \in Vals : ram' = [ram EXCEPT ![i] = v]
  BY <1>1 DEF Setter, Lock, EditRefused, EditAccepted, SetEdit, Assign, SaveRefused,
              SaveAccepted, SetNeedSave, Unlock, Goto, TypeOK
<1>9. [Store!Next]_Store!vars
  <2>1. CASE ram' = ram
    BY <1>7, <2>1, StoreStutter
  <2>2. ASSUME NEW i \in Items, NEW v \in Vals, ram' = [ram EXCEPT ![i] = v]
        PROVE  Store!Edit(i)
    <3>1. StoredRows' = StoredRows /\ WeakRows' = WeakRows
      BY <1>7 DEF SameRows, StoredRows, WeakRows
    <3> QED BY <1>7, <2>2, <3>1 DEF Store!Edit, StoredRows, WeakRows, WorkRows
  <2> QED BY <1>8, <2>1, <2>2 DEF Store!Next
<1> QED
  BY <1>1, <1>4, <1>5, <1>6, <1>7, <1>9 DEF IInv

\* Between two flash operations SDS_Poll changes neither the flash nor the rows.
LEMMA PollIdleStep ==
  ASSUME SingleWriter, IInv, NEW t \in Tasks,
         PollSkip(t) \/ PollFound(t) \/ PollClaim(t) \/ PollChanged(t) \/ PollSaved(t)
           \/ PollReturn(t)
  PROVE  IInv' /\ (\A i \in Items : Keeps(i)) /\ [Store!Next]_Store!vars
<1> USE DEF loadVars, editVars, pollVars, itemVars, vars
<1>1. TypeOK /\ TypeOK' /\ ValueInv /\ LoadedInv /\ WriteInv
  BY TypeStep DEF IInv, Next, Poll
<1>2. \A u \in Tasks : u = t
  BY DEF SingleWriter
<1>3. Running /\ UNCHANGED <<flash, damaged, ram, crc16, loadVars, editVars>>
  BY DEF PollSkip, PollFound, PollClaim, PollChanged, PollSaved, PollReturn, Goto
<1>4. ~PollChanged(t)
  BY <1>1 DEF PollChanged, Goto, ValueInv, Writing
<1>5. CopyInv' /\ Running'
  BY <1>3 DEF CopyInv, Running, Copying
<1>6. ValueInv'
  BY <1>1, <1>2, <1>3, <1>4, <1>5
     DEF PollSkip, PollFound, PollClaim, PollSaved, PollReturn, Goto, ValueInv, TypeOK, Writing
<1>7. bi = NItems /\ bi' = NItems
  BY <1>1, <1>3 DEF LoadedInv
<1>8. \A i \in Items : Mirrored(i)' <=> Mirrored(i)
  BY <1>3, SameFlash
<1>9. (\A i \in Items : Keeps(i)) /\ [Store!Next]_Store!vars
  <2>1. SameRows /\ \A i \in Items : Keeps(i)
    BY <1>3, SameFlash DEF SameRows, Keeps
  <2>2. WorkRows' = WorkRows
    BY <1>3, <1>5 DEF WorkRows
  <2> QED BY <2>1, <2>2, StoreStutter
<1>10. CASE PollSaved(t)
  <2>1. pi[t] \in Items /\ Mirrored(pi[t])
    <3>1. pi[t] \in Items /\ pc[t] = "check" /\ stage[t] = "end"
      BY <1>1, <1>10 DEF PollSaved, Goto, TypeOK
    <3>2. \A c \in Copies : Intact(pi[t], c) =>
            Good(flash[pi[t]][c]) /\ flash[pi[t]][c].body = ram[pi[t]]
      BY <1>1, <3>1 DEF WriteInv, Writing, Copies
    <3> QED BY <3>1, <3>2 DEF Mirrored, Sound, Intact, Copies
  <2>2. pc'[t] = "poll"
    BY <1>1, <1>10 DEF PollSaved, Goto, TypeOK
  <2>3. \A i \in Items : i < bi /\ (st[i] # "SAVING" \/ i = pi[t]) => Mirrored(i)
    BY <1>1, <1>2, <2>1 DEF LoadedInv, Busy
  <2>4. \A i \in Items : st'[i] # "SAVING" => st[i] # "SAVING" \/ i = pi[t]
    BY <1>1, <1>10 DEF PollSaved, TypeOK
  <2>5. LoadedInv' /\ WriteInv'
    BY <1>2, <1>5, <1>7, <1>8, <2>2, <2>3, <2>4 DEF LoadedInv, WriteInv, Writing
  <2>6. QED
    BY <1>1, <1>5, <1>6, <1>9, <2>5 DEF IInv
<1>11. CASE ~PollSaved(t)
  <2>1. pc[t] \notin Writing /\ (pc'[t] \in Writing => pc'[t] = "check" /\ stage'[t] = "dft"
                                                     /\ pc[t] = "claim" /\ UNCHANGED pi)
    BY <1>1, <1>4, <1>11
       DEF PollSkip, PollFound, PollClaim, PollReturn, Goto, TypeOK, Writing
  <2>2. \A i \in Items : i < bi /\ st[i] # "SAVING" => Mirrored(i)
    BY <1>1, <1>2, <2>1 DEF LoadedInv, Busy
  <2>3. LoadedInv'
    <3>1. \A i \in Items : st'[i] # "SAVING" => st[i] # "SAVING"
      BY <1>1, <1>4, <1>11
         DEF PollSkip, PollFound, PollClaim, PollReturn, Goto, TypeOK
    <3>2. QED
      BY <1>5, <1>7, <1>8, <2>2, <3>1 DEF LoadedInv
  <2>4. WriteInv'
    <3>1. pc'[t] \in Writing => /\ pi'[t] \in Items /\ pi'[t] < bi /\ pi'[t] = pi[t]
                                /\ st[pi[t]] # "SAVING" /\ st'[pi[t]] = "SAVING"
      BY <1>1, <1>4, <1>7, <1>11, <2>1, SdsAssumption
         DEF TypeOK, Items, ValueInv, PollSkip, PollFound, PollClaim, PollReturn, Goto
    <3>2. pc'[t] \in Writing => Mirrored(pi[t])
      BY <2>2, <3>1
    <3>3. ASSUME pc'[t] \in Writing PROVE Mirrored(pi[t])'
      <4>1. PICK i \in Items : i = pi[t]
        BY <3>1, <3>3
      <4>2. Mirrored(i)'
        BY <1>8, <3>2, <3>3, <4>1
      <4>3. pi'[t] = i
        BY <3>1, <3>3, <4>1
      <4> QED BY <4>2, <4>3 DEF Mirrored, Sound, HasCopy
    <3> QED
      BY <1>2, <2>1, <3>1, <3>3 DEF WriteInv
  <2>5. QED
    BY <1>1, <1>5, <1>6, <1>9, <2>3, <2>4 DEF IInv
<1> QED
  BY <1>10, <1>11
\* What a flash operation of SDS_Poll does to copy c of row i.
LEMMA PollFacts ==
  ASSUME IInv, NEW t \in Tasks,
         PollErase(t) \/ PollBody(t) \/ PollCrc(t) \/ PollWriteFail(t),
         NEW i \in Items, NEW c \in Copies, i = pi[t], c = stage[t]
  PROVE  /\ Running /\ UNCHANGED <<ram, itemVars, loadVars, editVars>>
         /\ pc[t] \in Writing /\ ram[i] \in Vals /\ Touches(i, c)
         /\ PollErase(t) => /\ pc[t] = "check" /\ flash'[i][c] \in {flash[i][c], Empty, Scrap}
                            /\ Intact(i, c)' => flash'[i][c] = Empty
         /\ ~PollErase(t) =>
              /\ damaged' = damaged
              /\ Intact(i, c) => /\ ~Good(flash[i][c])
                                 /\ Good(flash'[i][c]) => flash'[i][c].body = ram[i]
         /\ Intact(i, c)' => /\ PollBody(t) => flash'[i][c] = [body |-> ram[i], crc |-> Blank]
                             /\ PollCrc(t) => flash'[i][c] = [body |-> ram[i], crc |-> ram[i]]
<1> USE DEF loadVars, editVars, pollVars, itemVars, vars
<1> DEFINE old == flash[i][c]
<1>1. TypeOK /\ WriteInv /\ flash \in [Items -> [Copies -> Cells]] /\ old \in Cells
  BY DEF IInv, TypeOK
<1>2. /\ Running /\ UNCHANGED <<ram, itemVars, loadVars, editVars>>
      /\ pc[t] \in Writing /\ ram[i] \in Vals
  BY <1>1 DEF PollErase, PollBody, PollCrc, PollWriteFail, Goto, TypeOK, Writing
<1>3. CASE PollErase(t)
  <2>1. pc[t] = "check" /\ Erase(i, c)
    BY <1>3 DEF PollErase, Goto
  <2>2. ~PollBody(t) /\ ~PollCrc(t)
    BY <2>1 DEF PollBody, PollCrc, Goto
  <2>3. /\ Touches(i, c) /\ flash'[i][c] \in {old, Empty, Scrap}
        /\ (Intact(i, c)' => flash'[i][c] = Empty)
    BY <1>1, <2>1, EraseLemma DEF TypeOK
  <2> QED BY <1>2, <1>3, <2>1, <2>2, <2>3
<1>4. CASE PollBody(t) \/ PollCrc(t) \/ PollWriteFail(t)
  <2>1. pc[t] \in {"body", "crc"} /\ damaged' = damaged /\ ~PollErase(t)
    <3>1. pc[t] \in {"body", "crc"}
      BY <1>4 DEF PollBody, PollCrc, PollWriteFail, Goto
    <3> QED BY <1>4, <3>1 DEF PollBody, PollCrc, PollWriteFail, PollErase, Goto
  <2>2. sum[t] = ram[i]
    BY <1>1, <2>1 DEF WriteInv, Writing
  <2>3. /\ Programmed(old.body, ram[i]) \in SUBSET Word
        /\ Interrupted(old.body, ram[i]) \in SUBSET Word
        /\ Programmed(old.crc, ram[i]) \in SUBSET Word
        /\ Interrupted(old.crc, ram[i]) \in SUBSET Word
    BY <1>1, <2>1, <2>2, PollWords
  <2>4. CASE pc[t] = "body"
    <3>1. PICK words \in SUBSET Word :
            /\ WriteBody(i, c, words)
            /\ words \subseteq {old.body, ram[i], Torn}
            /\ PollBody(t) => words = Programmed(old.body, ram[i])
      <4>1. CASE PollBody(t)
        <5>1. WriteBody(i, c, Programmed(old.body, ram[i]))
          BY <4>1 DEF PollBody
        <5> QED BY <2>3, <5>1 DEF Programmed
      <4>2. CASE ~PollBody(t)
        <5>1. WriteBody(i, c, Interrupted(old.body, ram[i]))
          BY <1>4, <2>4, <4>2 DEF PollCrc, PollWriteFail, Goto
        <5> QED BY <2>3, <4>2, <5>1 DEF Interrupted
      <4> QED BY <4>1, <4>2
    <3>2. \A j \in Items, d \in Copies : j # i \/ d # c => flash'[j][d] = flash[j][d]
      BY <1>1, <3>1, BodyLemma
    <3>3. PICK w \in words : flash'[i][c] = [body |-> w, crc |-> old.crc]
      BY <1>1, <3>1, BodyCell
    <3>4. Touches(i, c)
      BY <2>1, <3>2 DEF Touches, Intact
    <3>5. ASSUME Intact(i, c)
          PROVE  /\ ~Good(old) /\ ~Good(flash'[i][c])
                 /\ PollBody(t) => flash'[i][c] = [body |-> ram[i], crc |-> Blank]
      <4>1. old = Empty
        BY <1>1, <1>2, <2>4, <3>5 DEF WriteInv
      <4>2. ~Good(flash'[i][c])
        BY <3>3, <4>1, SdsAssumption DEF Empty, Good
      <4>3. PollBody(t) => w = ram[i]
        BY <3>1, <3>3, <4>1 DEF Programmed, Empty
      <4> QED BY <3>3, <4>1, <4>2, <4>3, CellFacts DEF Empty
    <3>6. ~PollCrc(t)
      BY <2>4 DEF PollCrc, Goto
    <3>7. Intact(i, c)' <=> Intact(i, c)
      BY <2>1 DEF Intact
    <3> QED BY <1>2, <2>1, <3>4, <3>5, <3>6, <3>7
  <2>5. CASE pc[t] = "crc"
    <3>1. PICK words \in SUBSET Word :
            /\ WriteCrc(i, c, words)
            /\ words \subseteq {old.crc, ram[i], Torn}
            /\ PollCrc(t) => words = Programmed(old.crc, ram[i])
      <4>1. CASE PollCrc(t)
        <5>1. WriteCrc(i, c, Programmed(old.crc, ram[i]))
          BY <2>2, <4>1 DEF PollCrc
        <5> QED BY <2>3, <5>1 DEF Programmed
      <4>2. CASE ~PollCrc(t)
        <5>1. WriteCrc(i, c, Interrupted(old.crc, ram[i]))
          BY <1>4, <2>2, <2>5, <4>2 DEF PollBody, PollWriteFail, Goto
        <5> QED BY <2>3, <4>2, <5>1 DEF Interrupted
      <4> QED BY <4>1, <4>2
    <3>2. \A j \in Items, d \in Copies : j # i \/ d # c => flash'[j][d] = flash[j][d]
      BY <1>1, <3>1, CrcLemma
    <3>3. PICK w \in words : flash'[i][c] = [body |-> old.body, crc |-> w]
      BY <1>1, <3>1, CrcCell
    <3>4. Touches(i, c)
      BY <2>1, <3>2 DEF Touches, Intact
    <3>5. ASSUME Intact(i, c)
          PROVE  /\ ~Good(old) /\ (Good(flash'[i][c]) => flash'[i][c].body = ram[i])
                 /\ PollCrc(t) => flash'[i][c] = [body |-> ram[i], crc |-> ram[i]]
      <4>1. old = [body |-> ram[i], crc |-> Blank]
        BY <1>1, <1>2, <2>5, <3>5 DEF WriteInv
      <4>2. PollCrc(t) => w = ram[i]
        BY <3>1, <3>3, <4>1 DEF Programmed
      <4>3. ~Good(old)
        BY <1>2, <4>1, CellFacts
      <4> QED BY <3>3, <4>1, <4>2, <4>3
    <3>6. ~PollBody(t)
      BY <2>5 DEF PollBody, Goto
    <3>7. Intact(i, c)' <=> Intact(i, c)
      BY <2>1 DEF Intact
    <3> QED BY <1>2, <2>1, <3>4, <3>5, <3>6, <3>7
  <2> QED BY <2>1, <2>4, <2>5
<1> QED BY <1>3, <1>4

\* The flash operations of SDS_Poll: one copy of a sound row is unreadable in
\* the meantime, and only while the other is readable or none ever was; the new
\* value replaces the old one with the CRC of the first copy.
LEMMA PollRow ==
  ASSUME IInv, NEW t \in Tasks,
         PollErase(t) \/ PollBody(t) \/ PollCrc(t) \/ PollWriteFail(t),
         NEW i \in Items, NEW c \in Copies, i = pi[t], c = stage[t]
  PROVE  RowStep(i) /\ Keeps(i)
<1>1. WriteInv
  BY DEF IInv
<1>2. /\ Running /\ pc[t] \in Writing /\ ram[i] \in Vals /\ Touches(i, c)
      /\ PollErase(t) => pc[t] = "check" /\ flash'[i][c] \in {flash[i][c], Empty, Scrap}
      /\ ~PollErase(t) =>
           /\ damaged' = damaged
           /\ Intact(i, c) => /\ ~Good(flash[i][c])
                              /\ Good(flash'[i][c]) => flash'[i][c].body = ram[i]
  BY PollFacts
<1> SUFFICES ASSUME Sound(i)
             PROVE  /\ \/ Stored(i)' = Stored(i)
                       \/ Stored(i)' = ram[i] /\ Sound(i)'
                    /\ HasCopy(i) => HasCopy(i)'
  BY <1>2 DEF RowStep, Keeps
<1>3. \A d \in Copies : Intact(i, d)
  BY DEF Sound, Intact
<1>4. CASE c = "bkp"
  <2>1. Good(flash[i]["dft"]) /\ flash'[i]["dft"] = flash[i]["dft"]
    BY <1>1, <1>2, <1>3, <1>4 DEF WriteInv, Touches, Copies
  <2> QED BY <2>1 DEF Stored, HasCopy, Copies
<1>5. CASE c = "dft" /\ PollErase(t)
  <2>1. Mirrored(i) /\ flash'[i]["bkp"] = flash[i]["bkp"]
    BY <1>1, <1>2, <1>5 DEF WriteInv, Touches, Copies
  <2>2. CASE HasCopy(i)
    BY <1>2, <1>5, <2>1, <2>2, CellFacts DEF Mirrored, Stored, HasCopy, Copies
  <2>3. CASE ~HasCopy(i)
    BY <1>2, <1>5, <2>1, <2>3, CellFacts DEF Stored, HasCopy, Copies
  <2> QED BY <2>2, <2>3
<1>6. CASE c = "dft" /\ ~PollErase(t)
  <2>1. /\ ~Good(flash[i]["dft"]) /\ flash'[i]["bkp"] = flash[i]["bkp"] /\ Sound(i)'
        /\ (Good(flash'[i]["dft"]) => flash'[i]["dft"].body = ram[i])
    BY <1>2, <1>3, <1>6 DEF Touches, Copies, Sound
  <2> QED BY <2>1 DEF Stored, HasCopy, Copies
<1> QED BY <1>4, <1>5, <1>6 DEF Copies

LEMMA PollWriteStep ==
  ASSUME SingleWriter, IInv, NEW t \in Tasks,
         PollErase(t) \/ PollBody(t) \/ PollCrc(t) \/ PollWriteFail(t)
  PROVE  IInv' /\ (\A i \in Items : Keeps(i)) /\ [Store!Next]_Store!vars
<1> USE DEF loadVars, editVars, pollVars, itemVars, vars
<1>1. TypeOK /\ TypeOK' /\ ValueInv /\ LoadedInv /\ WriteInv
  BY TypeStep DEF IInv, Next, Poll
<1>2. \A u \in Tasks : u = t
  BY DEF SingleWriter
<1>3. pi[t] \in Items /\ stage[t] \in Copies
  BY <1>1 DEF PollErase, PollBody, PollCrc, PollWriteFail, Goto, TypeOK
<1>4. PICK i \in Items : i = pi[t]
  BY <1>3
<1>5. PICK c \in Copies : c = stage[t]
  BY <1>3
<1>6. /\ Running /\ UNCHANGED <<ram, itemVars, loadVars, editVars>>
      /\ pc[t] \in Writing /\ ram[i] \in Vals /\ Touches(i, c)
      /\ PollErase(t) /\ Intact(i, c)' => flash'[i][c] = Empty
      /\ Intact(i, c)' => /\ PollBody(t) => flash'[i][c] = [body |-> ram[i], crc |-> Blank]
                          /\ PollCrc(t) => flash'[i][c] = [body |-> ram[i], crc |-> ram[i]]
  BY <1>4, <1>5, PollFacts
<1>7. \A j \in Items : j # i => /\ Stored(j)' = Stored(j) /\ (HasCopy(j)' <=> HasCopy(j))
                                /\ (Sound(j)' <=> Sound(j)) /\ (Mirrored(j)' <=> Mirrored(j))
  BY <1>6, OtherRows
<1>8. RowStep(i) /\ Keeps(i)
  BY <1>4, <1>5, PollRow
<1>9. (\A j \in Items : Keeps(j)) /\ [Store!Next]_Store!vars
  <2>1. WorkRows' = WorkRows
    BY <1>6 DEF WorkRows, Running
  <2> QED BY <1>1, <1>7, <1>8, <2>1, StoreStep DEF Keeps
<1>10. CopyInv' /\ Running' /\ bi' = NItems /\ bi = NItems
  BY <1>1, <1>6 DEF CopyInv, LoadedInv, Running, Copying
<1>11. st[i] = "SAVING" /\ st' = st
  BY <1>1, <1>4, <1>6 DEF WriteInv
<1>12. LoadedInv'
  <2>1. \A j \in Items : j < bi /\ st[j] # "SAVING" => Mirrored(j)
    BY <1>1, <1>2, <1>4, <1>11 DEF LoadedInv, Busy
  <2> QED BY <1>7, <1>10, <1>11, <2>1 DEF LoadedInv
<1>13. pc'[t] \in Writing => pi'[t] = i
  BY <1>1, <1>4 DEF PollErase, PollBody, PollCrc, PollWriteFail, Goto, TypeOK, Writing
<1>14. ValueInv'
  <2>1. pc'[t] \notin {"assign", "setEdit", "setSave", "claim"}
    BY <1>1 DEF PollErase, PollBody, PollCrc, PollWriteFail, Goto, TypeOK
  <2> QED BY <1>1, <1>2, <1>4, <1>6, <1>10, <1>13, <2>1 DEF ValueInv
<1>15. WriteInv'
  <2>1. c = "bkp" /\ Intact(i, "dft")' =>
          Good(flash'[i]["dft"]) /\ flash'[i]["dft"].body = ram[i]
    <3> SUFFICES ASSUME c = "bkp", Intact(i, "dft")'
                 PROVE  Good(flash'[i]["dft"]) /\ flash'[i]["dft"].body = ram[i]
      OBVIOUS
    <3>1. flash'[i]["dft"] = flash[i]["dft"] /\ Intact(i, "dft")
      BY <1>6 DEF Touches, Copies
    <3>2. Good(flash[i]["dft"]) /\ flash[i]["dft"].body = ram[i]
      BY <1>1, <1>4, <1>5, <1>6, <3>1 DEF WriteInv
    <3> QED BY <3>1, <3>2
  <2>2. CASE PollErase(t)
    <3>1. /\ pc'[t] = "body" /\ pi'[t] = i /\ stage'[t] = c /\ sum'[t] = ram[i]
      BY <1>1, <1>4, <1>5, <2>2 DEF PollErase, Goto, TypeOK
    <3>2. Intact(pi[t], stage[t])' <=> Intact(i, c)'
      BY <3>1 DEF Intact
    <3>3. Intact(pi[t], "dft")' <=> Intact(i, "dft")'
      BY <3>1 DEF Intact
    <3> QED BY <1>2, <1>6, <1>11, <2>1, <2>2, <3>1, <3>2, <3>3 DEF WriteInv, Copies
  <2>3. CASE PollBody(t)
    <3>1. /\ pc[t] = "body" /\ pc'[t] = "crc" /\ pi'[t] = i /\ stage'[t] = c /\ sum'[t] = sum[t]
      BY <1>1, <1>4, <1>5, <2>3 DEF PollBody, Goto, TypeOK
    <3>2. sum[t] = ram[i]
      BY <1>1, <1>4, <1>6, <3>1 DEF WriteInv
    <3>3. Intact(pi[t], stage[t])' <=> Intact(i, c)'
      BY <3>1 DEF Intact
    <3>4. Intact(pi[t], "dft")' <=> Intact(i, "dft")'
      BY <3>1 DEF Intact
    <3> QED BY <1>2, <1>6, <1>11, <2>1, <2>3, <3>1, <3>2, <3>3, <3>4 DEF WriteInv, Copies
  <2>4. CASE PollCrc(t)
    <3>1. /\ pc'[t] = "check" /\ pi'[t] = i
          /\ stage'[t] = (IF c = "dft" THEN "bkp" ELSE "end")
      BY <1>1, <1>4, <1>5, <2>4 DEF PollCrc, Goto, TypeOK
    <3>2. \A d \in Copies : (d = c \/ c = "bkp") /\ Intact(i, d)' =>
            Good(flash'[i][d]) /\ flash'[i][d].body = ram[i]
      BY <1>6, <2>1, <2>4, CellFacts DEF Copies
    <3>3. \A d \in Copies : Intact(pi[t], d)' <=> Intact(i, d)'
      BY <3>1 DEF Intact
    <3>4. /\ Intact(i, "dft")' => Good(flash'[i]["dft"]) /\ flash'[i]["dft"].body = ram[i]
          /\ stage'[t] = "end" /\ Intact(i, "bkp")' =>
               Good(flash'[i]["bkp"]) /\ flash'[i]["bkp"].body = ram[i]
      BY <3>1, <3>2 DEF Copies
    <3>5. /\ Intact(pi[t], "dft")' <=> Intact(i, "dft")'
          /\ Intact(pi[t], "bkp")' <=> Intact(i, "bkp")'
      BY <3>3 DEF Copies
    <3>6. stage'[t] # "dft"
      BY <3>1
    <3> QED BY <1>2, <1>6, <1>11, <3>1, <3>4, <3>5, <3>6 DEF WriteInv
  <2>5. CASE PollWriteFail(t)
    <3>1. pc'[t] = "poll"
      BY <1>1, <2>5 DEF PollWriteFail, Goto, TypeOK
    <3> QED BY <1>2, <3>1 DEF WriteInv, Writing
  <2> QED BY <2>2, <2>3, <2>4, <2>5
<1> QED BY <1>1, <1>9, <1>10, <1>12, <1>14, <1>15 DEF IInv

LEMMA InductiveStep ==
  ASSUME SingleWriter, IInv, [Next]_vars
  PROVE  IInv' /\ (\A i \in Items : Keeps(i)) /\ [Store!Next]_Store!vars
<1> USE DEF loadVars, editVars, pollVars, itemVars, vars
<1>1. ASSUME NEW t \in Tasks, Poll(t)
      PROVE  IInv' /\ (\A i \in Items : Keeps(i)) /\ [Store!Next]_Store!vars
  BY <1>1, PollWriteStep, PollIdleStep DEF Poll
<1>2. CASE UNCHANGED vars
  <2>1. UNCHANGED <<flash, damaged, ram, st, crc16, valid, bpc, bi, owner, pc, row, new, pi,
                    stage, sum>>
    BY <1>2
  <2>2. /\ CopyInv' = CopyInv /\ LoadedInv' = LoadedInv /\ ValueInv' = ValueInv
        /\ WriteInv' = WriteInv /\ TypeOK' = TypeOK
    BY <2>1 DEF CopyInv, CpyDest, CpySource, LoadedInv, Mirrored, Sound, Intact, HasCopy, Busy,
                ValueInv, WriteInv, TypeOK, Running, Stored
  <2>3. SameRows /\ (\A i \in Items : Keeps(i))
    BY <2>1, SameFlash DEF SameRows, Keeps
  <2>4. WorkRows' = WorkRows
    <3>1. StoredRows' = StoredRows
      BY <2>3 DEF SameRows, StoredRows
    <3> QED BY <2>1, <3>1 DEF WorkRows, Running
  <2> QED BY <2>2, <2>3, <2>4, StoreStutter DEF IInv
<1> QED
  BY <1>1, <1>2, LoadStep, CrashStep, SetterStep DEF Next

\* Where one task at a time uses SDS, no power failure and no step of
\* SDS_Init or SDS_Poll ever makes unreadable a row that could be read, unless
\* a flash operation damaged one of its copies unnoticed.
THEOREM LastCopySurvives ==
  ASSUME SingleWriter
  PROVE  Spec => KeepsACopy
<1>1. IInv /\ [Next]_vars => IInv'
  BY InductiveStep
<1>2. IInv /\ [Next]_vars =>
        [\A i \in Items : (Sound(i) /\ HasCopy(i) => HasCopy(i)')]_vars
  BY InductiveStep DEF Keeps
<1>3. QED
  BY <1>1, <1>2, InitInv, PTL DEF Spec, KeepsACopy

\* sds.h: where one task at a time uses SDS, it is a StableStore: a power
\* failure at any flash operation finds the last committed value of a row,
\* whole, and nothing but a commit changes it, until a copy of the row is
\* damaged unnoticed; an erase of that copy makes the row sound again.
THEOREM SdsIsStableStore ==
  ASSUME SingleWriter
  PROVE  Spec => ImplementsStore
<1>1. Init => IInv /\ Store!Init
  <2> SUFFICES ASSUME Init PROVE IInv /\ Store!Init
    OBVIOUS
  <2>1. \A i \in Items : Stored(i) = Default[i] /\ Sound(i)
    BY SdsAssumption DEF Init, Stored, Good, Empty, Copies, Sound
  <2>2. ~Running
    BY DEF Init, PowerOn, Running
  <2>3. Store!Init
    BY <2>1, <2>2, SdsAssumption DEF Store!Init
  <2> QED BY <2>3, InitInv
<1>2. IInv /\ [Next]_vars => IInv' /\ [Store!Next]_Store!vars
  BY InductiveStep
<1> QED BY <1>1, <1>2, PTL DEF Spec, ImplementsStore, Store!Spec

\* sds.c: SDS_Poll calls a row saved only when every copy that could be erased
\* holds what the program reads, even after writes that failed.
THEOREM SavedIsTrue ==
  ASSUME SingleWriter
  PROVE  Spec => SavedIsStored
<1> USE DEF loadVars, editVars, pollVars, itemVars, vars
<1> DEFINE Saved == \A i \in Items : (st[i] = "SAVING" /\ st'[i] = "IDLE") =>
                      \A c \in Copies : <<i, c>> \notin damaged =>
                        Good(flash[i][c]) /\ flash[i][c].body = ram[i]
<1>1. ASSUME IInv, Next PROVE Saved
  <2> SUFFICES ASSUME NEW i \in Items, st[i] = "SAVING", st'[i] = "IDLE",
                      NEW c \in Copies, <<i, c>> \notin damaged
               PROVE  Good(flash[i][c]) /\ flash[i][c].body = ram[i]
    OBVIOUS
  <2>1. TypeOK /\ ValueInv /\ WriteInv
    BY <1>1 DEF IInv
  <2>2. Running
    BY <2>1 DEF ValueInv
  <2>3. ~SdsInit /\ ~Crash
    BY <2>1, <2>2 DEF SdsInit, Load, CpyErase, CpyBody, CpyCrc, CpyFail, Crash, Running
  <2>4. PICK t \in Tasks : Setter(t) \/ Poll(t)
    BY <1>1, <2>3 DEF Next
  <2>5. PollSaved(t) /\ i = pi[t]
    BY <2>1, <2>4 DEF Setter, Lock, EditRefused, EditAccepted, SetEdit, Assign, SaveRefused,
              SaveAccepted, SetNeedSave, Unlock, Poll, PollSkip, PollFound, PollClaim,
              PollChanged, PollErase, PollBody, PollCrc, PollWriteFail, PollSaved, PollReturn,
              Goto, TypeOK
  <2>6. pc[t] \in Writing /\ stage[t] = "end"
    BY <2>5 DEF PollSaved, Goto, Writing
  <2> QED BY <2>1, <2>5, <2>6 DEF WriteInv, Intact, Copies
<1>2. IInv /\ [Next]_vars => [Saved]_vars
  BY <1>1
<1>3. IInv /\ [Next]_vars => IInv'
  BY InductiveStep
<1> QED BY <1>2, <1>3, InitInv, PTL DEF Spec, SavedIsStored

-----------------------------------------------------------------------------
(* Writes that do not time out: no row stays claimed, for any tasks and     *)
(* locks.                                                                   *)

LEMMA InitSaver == Init => SavingHasSaver
BY DEF Init, PowerOn, SavingHasSaver

\* Who leaves the writing of a row takes the row out of SAVING with it.
LEMMA SaverStep ==
  ASSUME "poll" \notin Failing, TypeOK, SavingHasSaver, [Next]_vars
  PROVE  SavingHasSaver'
<1> USE DEF loadVars, editVars, pollVars, itemVars, vars
<1>1. CASE SdsInit
  <2>1. UNCHANGED <<pc, pi>> /\ \A i \in Items : st'[i] = "SAVING" => st[i] = "SAVING"
    BY <1>1 DEF SdsInit, Load, LoadDefaults, LoadEqual, LoadRepair, CpyErase, CpyBody,
                CpyCrc, CpyFail, NextRow, TypeOK
  <2> QED BY <2>1 DEF SavingHasSaver
<1>2. CASE Crash
  BY <1>2 DEF Crash, SavingHasSaver
<1>3. ASSUME NEW t \in Tasks, Setter(t) PROVE SavingHasSaver'
  <2>1. UNCHANGED pi /\ \A u \in Tasks : pc[u] \in Writing => pc'[u] = pc[u]
    BY <1>3 DEF Setter, Lock, EditRefused, EditAccepted, SetEdit, Assign, SaveRefused,
                SaveAccepted, SetNeedSave, Unlock, Goto, Writing, TypeOK
  <2>2. \A i \in Items : st'[i] = "SAVING" => st[i] = "SAVING"
    BY <1>3 DEF Setter, Lock, EditRefused, EditAccepted, SetEdit, Assign, SaveRefused,
                SaveAccepted, SetNeedSave, Unlock, Goto, TypeOK
  <2> QED BY <2>1, <2>2 DEF SavingHasSaver, Writing
<1>4. ASSUME NEW t \in Tasks, Poll(t) PROVE SavingHasSaver'
  <2>0. \A u \in Tasks : u # t => pc'[u] = pc[u] /\ pi'[u] = pi[u]
    BY <1>4 DEF Poll, PollSkip, PollFound, PollClaim, PollChanged, PollErase, PollBody,
                PollCrc, PollWriteFail, PollSaved, PollReturn, Goto, TypeOK
  <2>1. CASE PollSkip(t) \/ PollFound(t) \/ PollReturn(t)
    <3>1. UNCHANGED st /\ pc[t] \notin Writing
      BY <2>1 DEF PollSkip, PollFound, PollReturn, Goto, Writing
    <3> QED BY <2>0, <3>1 DEF SavingHasSaver, Writing
  <2>2. CASE PollClaim(t)
    <3>1. pc[t] = "claim" /\ pc'[t] = "check" /\ UNCHANGED pi
          /\ \A i \in Items : i # pi[t] => st'[i] = st[i]
      BY <2>2 DEF PollClaim, Goto, TypeOK
    <3> QED BY <2>0, <3>1 DEF SavingHasSaver
  <2>3. CASE PollChanged(t) \/ PollSaved(t)
    <3>1. st'[pi[t]] # "SAVING" /\ \A i \in Items : i # pi[t] => st'[i] = st[i]
      BY <2>3 DEF PollChanged, PollSaved, Goto, TypeOK
    <3> QED BY <2>0, <3>1 DEF SavingHasSaver
  <2>4. CASE PollErase(t) \/ PollBody(t) \/ PollCrc(t)
    <3>1. UNCHANGED <<st, pi>> /\ pc'[t] \in Writing
      BY <2>4 DEF PollErase, PollBody, PollCrc, Goto, TypeOK, Writing
    <3> QED BY <2>0, <3>1 DEF SavingHasSaver, Writing
  <2> QED BY <1>4, <2>1, <2>2, <2>3, <2>4 DEF Poll, PollWriteFail
<1>5. CASE UNCHANGED vars
  BY <1>5 DEF SavingHasSaver
<1> QED BY <1>1, <1>2, <1>3, <1>4, <1>5 DEF Next

\* SDS_Poll: as long as flash writes end, a row in SAVING, which SDS_Edit and
\* SDS_Save refuse, has a task about to take it out of it.
THEOREM NoRowStaysClaimed ==
  ASSUME "poll" \notin Failing
  PROVE  Spec => []SavingHasSaver
BY InitSaver, SaverStep, TypeCorrect, PTL DEF Spec


=============================================================================
