--------------------------- MODULE AuthStoreProofs ---------------------------
(* Theorems about save() on inodes and descriptors, for any number of       *)
(* savers, files, changes of the state and faults: the protocol implements  *)
(* SavedFile, and a save that is alone with the .tmp path always lands.     *)
EXTENDS AuthStore, TLAPS

-----------------------------------------------------------------------------
(* What each action leaves of the types.                                    *)
LEMMA OverwrittenType ==
  ASSUME NEW c, NEW v \in Versions, NEW d \in Overwritten(c, v)
  PROVE  d \in Versions \cup {Garbled}
BY DEF Overwritten

LEMMA OpenType ==
  ASSUME StoreTypeOK, NEW p \in Saver, Open(p)
  PROVE  StoreTypeOK'
<1>1. PICK i \in IF dir.tmp = None THEN FreeInodes ELSE {dir.tmp} :
        /\ fd' = [fd EXCEPT ![p] = i]
        /\ dir' = [dir EXCEPT !.tmp = i]
        /\ content' = [content EXCEPT ![i] = Empty]
  BY DEF Open
<1>2. i \in Inode
  BY <1>1 DEF FreeInodes, StoreTypeOK
<1> QED
  BY <1>1, <1>2 DEF Open, StoreTypeOK, Busy

LEMMA WriteType ==
  ASSUME StoreTypeOK, NEW p \in Saver, WriteText(p)
  PROVE  StoreTypeOK'
<1>1. PICK c \in Overwritten(content[fd[p]], text[p]) : content' = [content EXCEPT ![fd[p]] = c]
  BY DEF WriteText
<1>2. c \in Versions \cup {Garbled}
  BY OverwrittenType DEF StoreTypeOK
<1> QED
  BY <1>1, <1>2 DEF WriteText, StoreTypeOK, Busy

LEMMA RecoveredType == \A c : Recovered(c) \in Versions /\ 0 \in Versions
BY StoreAssumption DEF Recovered, Versions

LEMMA BootType ==
  ASSUME StoreTypeOK, Crash
  PROVE  StoreTypeOK'
<1>1. PICK st \in Versions : Booting(st) /\ (trusted' = trusted \/ trusted' = FALSE)
  BY RecoveredType DEF Crash
<1> QED
  BY <1>1, StoreAssumption DEF Crash, Booting, StoreTypeOK, Busy

LEMMA StoreTypeStep ==
  ASSUME StoreTypeOK, [Next]_storeVars
  PROVE  StoreTypeOK'
<1>1. CASE Change
  BY <1>1, StoreAssumption DEF Change, StoreTypeOK, Busy, Versions
<1>2. ASSUME NEW p \in Saver, Begin(p) PROVE StoreTypeOK'
  BY <1>2 DEF Begin, StoreTypeOK, Busy
<1>3. ASSUME NEW p \in Saver, Rename(p) PROVE StoreTypeOK'
  BY <1>3 DEF Rename, Leave, StoreTypeOK, Busy
<1>4. ASSUME NEW p \in Saver, Fail(p) PROVE StoreTypeOK'
  BY <1>4 DEF Fail, Leave, StoreTypeOK, Busy
<1>5. ASSUME NEW p \in Saver, Cancel(p) PROVE StoreTypeOK'
  BY <1>5 DEF Cancel, StoreTypeOK, Busy
<1>6. CASE UNCHANGED storeVars
  BY <1>6 DEF storeVars, StoreTypeOK, Busy
<1> QED
  BY <1>1, <1>2, <1>3, <1>4, <1>5, <1>6, OpenType, WriteType, BootType DEF Next

LEMMA StoreTypeInit == Init => StoreTypeOK
BY StoreAssumption DEF Init, StoreTypeOK, Busy, Versions

(* The protocol keeps its types, and only busy savers hold the guard.       *)
THEOREM StoreTypes == StoreSpec => []StoreTypeOK
BY StoreTypeInit, StoreTypeStep, PTL DEF StoreSpec

-----------------------------------------------------------------------------
(* A saver has a file open exactly between its open and its write, the two  *)
(* names never mean one file, and a guarded saver writes the state as it    *)
(* is.                                                                      *)
Shape ==
  /\ \A p \in Saver : pc[p] = "write" <=> fd[p] # None
  /\ dir.tmp # None => dir.tmp # dir.state
  /\ \A p \in guards : text[p] = state

(* The file whose content the next rename leaves in place.                  *)
Current == IF dir.tmp # None THEN dir.tmp ELSE dir.state

(* It holds the state, or it is empty and one of the savers will write it.  *)
Covered(i) ==
  \/ content[i] = state
  \/ content[i] = Empty /\ \E q \in Saver : fd[q] = i

(* Until a fault nobody writes without the guard, every open file is empty  *)
(* or holds the state, and once a saver has opened the .tmp path the file   *)
(* in place, or the one that will be, is covered.                           *)
Faultless ==
  /\ guards = Busy
  /\ \A p \in Saver : fd[p] # None => content[fd[p]] \in {Empty, state}
  /\ (\E p \in Saver : pc[p] \in {"write", "rename"}) => Current # None /\ Covered(Current)

(* A saver that has been alone since it began finds its own file again.     *)
Alone(p) ==
  /\ Busy = {p}
  /\ pc[p] = "write" => fd[p] = dir.tmp /\ content[dir.tmp] = Empty
  /\ pc[p] = "rename" => dir.tmp # None /\ content[dir.tmp] = state

StoreInv ==
  /\ StoreTypeOK
  /\ Shape
  /\ trusted => Faultless
  /\ \A p \in clean : Alone(p)

LEMMA StoreInit == Init => StoreInv
<1> SUFFICES ASSUME Init PROVE StoreInv
  OBVIOUS
<1>1. Busy = {Boot}
  BY StoreAssumption DEF Init, Busy
<1> QED
  BY <1>1, StoreTypeInit, StoreAssumption DEF Init, StoreInv, Shape, Faultless, Alone

LEMMA ChangeInv ==
  ASSUME StoreInv, Change
  PROVE  Shape' /\ (trusted' => Faultless') /\ \A p \in clean' : Alone(p)'
<1>1. guards = {} /\ guards' = {} /\ clean' = {}
  BY DEF Change, WriteLockFree, StoreInv, StoreTypeOK
<1>2. trusted => Busy = {} /\ \A p \in Saver : fd[p] = None
  BY <1>1 DEF StoreInv, Shape, Faultless, Busy
<1> QED
  BY <1>1, <1>2 DEF Change, StoreInv, Shape, Faultless, Busy

LEMMA BeginInv ==
  ASSUME StoreInv, NEW p \in Saver, Begin(p)
  PROVE  Shape' /\ (trusted' => Faultless') /\ \A q \in clean' : Alone(q)'
<1>1. Busy' = Busy \cup {p} /\ p \notin Busy
  BY DEF Begin, Busy, StoreInv, StoreTypeOK
<1>2. Shape'
  BY DEF Begin, StoreInv, StoreTypeOK, Shape
<1>3. trusted' => Faultless'
  BY <1>1 DEF Begin, StoreInv, StoreTypeOK, Faultless, Current, Covered
<1>4. \A q \in clean' : Alone(q)'
  BY <1>1 DEF Begin, StoreInv, StoreTypeOK, Alone
<1> QED
  BY <1>2, <1>3, <1>4

LEMMA OpenInv ==
  ASSUME StoreInv, NEW p \in Saver, Open(p)
  PROVE  Shape' /\ (trusted' => Faultless') /\ \A q \in clean' : Alone(q)'
<1>1. PICK i \in IF dir.tmp = None THEN FreeInodes ELSE {dir.tmp} :
        /\ fd' = [fd EXCEPT ![p] = i]
        /\ dir' = [dir EXCEPT !.tmp = i]
        /\ content' = [content EXCEPT ![i] = Empty]
  BY DEF Open
<1>2. i \in Inode /\ i # None /\ i # dir.state
  BY <1>1, StoreAssumption DEF FreeInodes, StoreInv, StoreTypeOK, Shape
<1>3. /\ dir'.tmp = i /\ dir'.state = dir.state /\ fd'[p] = i /\ content'[i] = Empty
      /\ \A q \in Saver : q # p => fd'[q] = fd[q] /\ pc'[q] = pc[q]
      /\ \A j \in Inode : j # i => content'[j] = content[j]
      /\ pc[p] = "open" /\ pc'[p] = "write"
      /\ UNCHANGED <<state, guards, text, clean, trusted>>
  BY <1>1, <1>2 DEF Open, StoreInv, StoreTypeOK
<1>4. Busy' = Busy
  BY <1>3 DEF Busy
<1>5. Shape'
  BY <1>2, <1>3 DEF StoreInv, Shape
<1>6. trusted' => Faultless'
  BY <1>2, <1>3, <1>4 DEF StoreInv, StoreTypeOK, Faultless, Current, Covered
<1>7. \A q \in clean' : Alone(q)'
  BY <1>3, <1>4 DEF StoreInv, StoreTypeOK, Alone, Busy
<1> QED
  BY <1>5, <1>6, <1>7

LEMMA WriteInv ==
  ASSUME StoreInv, NEW p \in Saver, WriteText(p)
  PROVE  Shape' /\ (trusted' => Faultless') /\ \A q \in clean' : Alone(q)'
<1>1. PICK c \in Overwritten(content[fd[p]], text[p]) : content' = [content EXCEPT ![fd[p]] = c]
  BY DEF WriteText
<1> DEFINE i == fd[p]
<1>2. i \in Inode /\ content'[i] = c
  BY <1>1 DEF WriteText, StoreInv, StoreTypeOK, Shape
<1>3. /\ fd'[p] = None
      /\ \A q \in Saver : q # p => fd'[q] = fd[q] /\ pc'[q] = pc[q]
      /\ \A j \in Inode : j # i => content'[j] = content[j]
      /\ pc[p] = "write" /\ pc'[p] = (IF p \in guards THEN "rename" ELSE "idle")
      /\ UNCHANGED <<state, guards, text, dir, clean, trusted>>
  BY <1>1, <1>2 DEF WriteText, StoreInv, StoreTypeOK
<1>4. Shape'
  BY <1>3 DEF StoreInv, Shape
<1>5. ASSUME trusted PROVE Faultless'
  <2>1. p \in guards /\ text[p] = state /\ content[i] \in {Empty, state}
    BY <1>2, <1>3, <1>5, StoreAssumption DEF StoreInv, Shape, Faultless, Busy
  <2>2. content'[i] = state
    BY <1>2, <2>1 DEF Overwritten
  <2>3. Current # None /\ Covered(Current) /\ Current' = Current
    BY <1>3, <1>5 DEF StoreInv, Faultless, Current
  <2>4. Covered(Current)'
    BY <1>2, <1>3, <2>2, <2>3 DEF StoreInv, StoreTypeOK, Covered, Current
  <2>5. Busy' = Busy
    BY <1>3, <2>1 DEF Busy
  <2>6. \A q \in Saver : fd'[q] # None => content'[fd'[q]] \in {Empty, state}
    BY <1>2, <1>3, <1>5, <2>2 DEF StoreInv, StoreTypeOK, Faultless
  <2> QED
    BY <1>3, <1>5, <2>3, <2>4, <2>5, <2>6 DEF StoreInv, Faultless
<1>6. ASSUME NEW q \in clean PROVE Alone(q)'
  <2>1. q = p /\ p \in guards /\ text[p] = state /\ i = dir.tmp /\ content[i] = Empty
    BY <1>3, <1>6 DEF StoreInv, StoreTypeOK, Shape, Alone, Busy
  <2>2. content'[i] = state
    BY <1>2, <2>1 DEF Overwritten
  <2>3. Busy' = {p}
    BY <1>3, <1>6, <2>1 DEF StoreInv, Alone, Busy
  <2> QED
    BY <1>2, <1>3, <2>1, <2>2, <2>3, StoreAssumption DEF Alone
<1> QED
  BY <1>3, <1>4, <1>5, <1>6

LEMMA RenameInv ==
  ASSUME StoreInv, NEW p \in Saver, Rename(p)
  PROVE  Shape' /\ (trusted' => Faultless') /\ \A q \in clean' : Alone(q)'
<1>1. /\ pc[p] = "rename" /\ pc'[p] = "idle"
      /\ \A q \in Saver : q # p => pc'[q] = pc[q]
      /\ guards' = guards \ {p} /\ clean' = clean \ {p}
      /\ dir' = IF dir.tmp = None THEN dir ELSE [tmp |-> None, state |-> dir.tmp]
      /\ UNCHANGED <<state, text, fd, content, trusted>>
  BY DEF Rename, Leave, StoreInv, StoreTypeOK
<1>2. Busy' = Busy \ {p}
  BY <1>1 DEF Busy
<1>3. Current' = Current
  BY <1>1 DEF Current
<1>4. Shape'
  BY <1>1 DEF StoreInv, Shape
<1>5. trusted' => Faultless'
  BY <1>1, <1>2, <1>3 DEF StoreInv, Faultless, Covered
<1>6. clean' = {}
  BY <1>1 DEF StoreInv, Alone, Busy
<1> QED
  BY <1>4, <1>5, <1>6

LEMMA FailInv ==
  ASSUME StoreInv, NEW p \in Saver, Fail(p)
  PROVE  Shape' /\ (trusted' => Faultless') /\ \A q \in clean' : Alone(q)'
<1>1. clean' = {}
  BY DEF Fail, Leave, StoreInv, Alone, Busy
<1> QED
  BY <1>1 DEF Fail, Leave, StoreInv, StoreTypeOK, Shape

LEMMA CancelInv ==
  ASSUME StoreInv, NEW p \in Saver, Cancel(p)
  PROVE  Shape' /\ (trusted' => Faultless') /\ \A q \in clean' : Alone(q)'
<1>1. clean' = {}
  BY DEF Cancel, StoreInv, StoreTypeOK, Alone, Busy
<1> QED
  BY <1>1 DEF Cancel, StoreInv, StoreTypeOK, Shape

LEMMA CrashInv ==
  ASSUME StoreInv, Crash
  PROVE  Shape' /\ (trusted' => Faultless') /\ \A q \in clean' : Alone(q)'
<1>1. PICK st : Booting(st)
  BY DEF Crash
<1>2. Busy' = {Boot}
  BY <1>1, StoreAssumption DEF Booting, Busy
<1> QED
  BY <1>1, <1>2, StoreAssumption DEF Crash, Booting, StoreInv, StoreTypeOK, Shape, Faultless, Alone

LEMMA StoreStep ==
  ASSUME StoreInv, [Next]_storeVars
  PROVE  StoreInv'
<1>1. StoreTypeOK'
  BY StoreTypeStep DEF StoreInv
<1>2. ASSUME UNCHANGED storeVars
      PROVE  Shape' /\ (trusted' => Faultless') /\ \A q \in clean' : Alone(q)'
  BY <1>2 DEF storeVars, StoreInv, Shape, Faultless, Current, Covered, Alone, Busy
<1> QED
  BY <1>1, <1>2, ChangeInv, BeginInv, OpenInv, WriteInv, RenameInv, FailInv, CancelInv, CrashInv
     DEF Next, StoreInv

-----------------------------------------------------------------------------
(* A save that has the .tmp path to itself, and comes to its rename, leaves *)
(* the state in the file, whatever went wrong before it.                    *)
THEOREM SoleSaveWins == StoreSpec => SoleSaveLands
<1>1. StoreInv /\ [Next]_storeVars => StoreInv'
  BY StoreStep
<1>2. ASSUME StoreInv, NEW p \in Saver, pc[p] = "rename", p \in clean, Rename(p)
      PROVE  StateFile' = state
  BY <1>2 DEF Rename, StoreInv, Alone, StateFile
<1>3. StoreInv /\ [Next]_storeVars
        => [\A p \in Saver : pc[p] = "rename" /\ p \in clean /\ Rename(p) => StateFile' = state]_storeVars
  BY <1>2
<1> QED
  BY <1>1, <1>3, StoreInit, PTL DEF StoreSpec, SoleSaveLands
-----------------------------------------------------------------------------
(* The file as SavedFile sees it, and what becomes of it.                   *)
File == IF StateFile \in Versions THEN StateFile ELSE Garbled

LEMMA FileIs ==
  /\ \A c : c \in Versions => c # Empty /\ c # Garbled
  /\ StateFile = Empty => File = Garbled
  /\ \A v \in Versions : StateFile = v => File = v
  /\ Recovered(File) = Recovered(StateFile)
BY StoreAssumption DEF File, Recovered, Versions

(* A step that leaves the state, the guards, the file and its faults alone. *)
LEMMA OffPromise ==
  ASSUME UNCHANGED <<state, guards, File, trusted>>
  PROVE  [Promise!FileNext]_(Promise!fileVars)
BY DEF Promise!fileVars, File

LEMMA OpenPromise ==
  ASSUME StoreInv, NEW p \in Saver, Open(p)
  PROVE  UNCHANGED <<state, guards, File, trusted>>
<1>1. PICK i \in IF dir.tmp = None THEN FreeInodes ELSE {dir.tmp} :
        /\ dir' = [dir EXCEPT !.tmp = i]
        /\ content' = [content EXCEPT ![i] = Empty]
  BY DEF Open
<1>2. i \in Inode /\ i # dir.state
  BY <1>1, StoreAssumption DEF FreeInodes, StoreInv, StoreTypeOK, Shape
<1>3. dir'.state = dir.state /\ (dir.state # None => content'[dir.state] = content[dir.state])
  BY <1>1, <1>2 DEF StoreInv, StoreTypeOK
<1>4. StateFile' = StateFile
  BY <1>3 DEF StateFile
<1> QED
  BY <1>4 DEF Open, File

(* Writing into the state file mends it.                                    *)
LEMMA WritePromise ==
  ASSUME StoreInv, trusted, NEW p \in Saver, WriteText(p)
  PROVE  UNCHANGED <<state, guards, File, trusted>> \/ Promise!Mend
<1>1. PICK c \in Overwritten(content[fd[p]], text[p]) : content' = [content EXCEPT ![fd[p]] = c]
  BY DEF WriteText
<1>2. /\ fd[p] \in Inode /\ fd[p] # None /\ content[fd[p]] \in {Empty, state}
      /\ p \in guards /\ text[p] = state /\ state \in Versions
  BY DEF WriteText, StoreInv, StoreTypeOK, Shape, Faultless, Busy
<1>3. c = state /\ content'[fd[p]] = state
  BY <1>1, <1>2 DEF Overwritten, StoreInv, StoreTypeOK
<1>4. UNCHANGED <<state, guards, dir, trusted>>
  BY DEF WriteText
<1>5. CASE dir.state # fd[p]
  <2>1. StateFile' = StateFile
    BY <1>1, <1>4, <1>5 DEF StateFile, StoreInv, StoreTypeOK
  <2> QED
    BY <1>4, <2>1 DEF File
<1>6. CASE dir.state = fd[p]
  <2>1. StateFile \in {Empty, state} /\ StateFile' = state
    BY <1>2, <1>3, <1>4, <1>6 DEF StateFile
  <2>2. File' = state /\ (File = Garbled \/ File = state)
    BY <1>2, <1>4, <2>1, FileIs DEF File
  <2> QED
    BY <1>2, <1>4, <2>2 DEF Promise!Mend, File
<1> QED
  BY <1>5, <1>6

(* A rename moves a file into place, or finds it in place already, that     *)
(* holds the state or that another save is about to write.                  *)
LEMMA RenamePromise ==
  ASSUME StoreInv, trusted, NEW p \in Saver, Rename(p)
  PROVE  Promise!EndSave
<1>1. /\ pc[p] = "rename" /\ guards' = guards \ {p} /\ p \in guards
      /\ UNCHANGED <<state, fd, content>>
  BY DEF Rename, Leave, StoreInv, Faultless, Busy
<1>2. Current # None /\ Covered(Current)
  BY <1>1 DEF StoreInv, Faultless
<1>3. dir'.state = Current
  BY DEF Rename, Current
<1>4. StateFile' = content[Current]
  BY <1>1, <1>2, <1>3 DEF StateFile
<1>5. CASE content[Current] = state
  <2>1. File' = state
    BY <1>1, <1>4, <1>5 DEF File, StoreInv, StoreTypeOK
  <2> QED
    BY <1>1, <2>1 DEF Promise!EndSave, File
<1>6. CASE content[Current] # state
  <2>1. content[Current] = Empty /\ \E q \in Saver : fd[q] = Current
    BY <1>2, <1>6 DEF Covered
  <2>2. File' = Garbled
    BY <1>4, <2>1, FileIs DEF File
  <2>3. PICK q \in Saver : fd[q] = Current
    BY <2>1
  <2>4. q \in guards \ {p}
    BY <1>1, <1>2, <2>3 DEF StoreInv, Shape, Faultless, Busy
  <2> QED
    BY <1>1, <2>2, <2>4 DEF Promise!EndSave, File
<1> QED
  BY <1>5, <1>6

LEMMA CrashPromise ==
  ASSUME StoreInv, Crash, trusted'
  PROVE  Promise!Reboot
<1>1. Booting(Recovered(StateFile)) /\ UNCHANGED <<dir, content>>
  BY DEF Crash
<1>2. StateFile' = StateFile /\ File' = File
  BY <1>1 DEF StateFile, File
<1>3. state' = Recovered(File) /\ guards' = {Boot}
  BY <1>1, FileIs DEF Booting
<1> QED
  BY <1>2, <1>3, StoreAssumption DEF Promise!Reboot, Promise!BootSave, File

LEMMA StorePromise ==
  ASSUME StoreInv, [Next]_storeVars
  PROVE  [Promise!FileNext]_(Promise!fileVars)
<1> DEFINE Goal == [Promise!FileNext]_(Promise!fileVars)
<1>1. CASE ~trusted'
  <2>1. trusted' = FALSE
    BY <1>1, StoreStep DEF StoreInv, StoreTypeOK
  <2> QED
    BY <2>1 DEF Promise!FileNext
<1>2. CASE trusted'
  <2>1. trusted' = trusted
    BY <1>2 DEF Next, Change, Begin, Open, WriteText, Rename, Fail, Cancel, Crash, storeVars,
                StoreInv, StoreTypeOK
  <2>2. CASE Change
    <3>1. guards = {} /\ UNCHANGED <<guards, dir, content>>
      BY <2>2 DEF Change, WriteLockFree
    <3> QED
      BY <2>1, <3>1 DEF Promise!FileNext, Promise!Change, StateFile
  <2>3. ASSUME NEW p \in Saver, Begin(p) PROVE Goal
    <3>1. p \in Saver \ guards /\ guards' = guards \cup {p} /\ UNCHANGED <<state, dir, content>>
      BY <2>3 DEF Begin, StoreInv, StoreTypeOK, Busy
    <3> QED
      BY <2>1, <3>1 DEF Promise!FileNext, Promise!BeginSave, StateFile
  <2>4. ASSUME NEW p \in Saver, Open(p) PROVE Goal
    BY <2>4, OpenPromise, OffPromise
  <2>5. ASSUME NEW p \in Saver, WriteText(p) PROVE Goal
    BY <1>2, <2>1, <2>5, WritePromise, OffPromise DEF Promise!FileNext
  <2>6. ASSUME NEW p \in Saver, Rename(p) PROVE Goal
    BY <1>2, <2>1, <2>6, RenamePromise DEF Promise!FileNext
  <2>7. ASSUME NEW p \in Saver, Fail(p) \/ Cancel(p) PROVE Goal
    BY <1>2, <2>7 DEF Fail, Cancel
  <2>8. CASE Crash
    BY <1>2, <2>1, <2>8, CrashPromise DEF Promise!FileNext
  <2>9. CASE UNCHANGED storeVars
    BY <2>9, OffPromise DEF storeVars, File, StateFile
  <2> QED
    BY <2>2, <2>3, <2>4, <2>5, <2>6, <2>7, <2>8, <2>9 DEF Next
<1> QED
  BY <1>1, <1>2

LEMMA StorePromiseInit == Init => Promise!FileInit
BY StoreAssumption DEF Init, Promise!FileInit, Promise!BootSave, StateFile, Versions

(* save(), with one .tmp path for all, keeps the promise of SavedFile       *)
(* through any interleaving of saves, changes, faults and restarts.         *)
THEOREM StorePromiseKept == StoreSpec => KeepsPromise
<1>1. StoreInv /\ [Next]_storeVars => StoreInv'
  BY StoreStep
<1>2. StoreInv /\ [Next]_storeVars => [Promise!FileNext]_(Promise!fileVars)
  BY StorePromise
<1> QED
  BY <1>1, <1>2, StoreInit, StorePromiseInit, PTL
     DEF StoreSpec, KeepsPromise, Promise!FileSpec
=============================================================================
