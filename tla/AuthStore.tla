------------------------------ MODULE AuthStore ------------------------------
(* AuthService::save() (src/src/auth.rs) down to the file system: the state  *)
(* is serialised under a read guard that is kept to the end, written to one  *)
(* fixed .tmp path, and renamed over the state file.  tokio::fs::write opens *)
(* and truncates the file, then writes; both happen on the blocking pool,    *)
(* and so does the rename, so they go on when the request that asked for     *)
(* them is dropped.  Two saves may share the .tmp path: an open finds the    *)
(* file another save has created, and its descriptor follows that file when  *)
(* the other save renames it.                                                *)
EXTENDS Naturals, FiniteSets

CONSTANTS
  Saver,        \* the tasks that save
  Boot,         \* the one of them that stands for AuthService::new()
  Inode,        \* the files on the disk
  MaxVersion,   \* the bound on the number of changes of the state
  Faults,       \* a subset of {"io", "cancel", "crash"}
  None,         \* no such file
  Empty,        \* what a file holds once it is truncated
  Garbled       \* what a file holds when its text is incomplete or a mix of two

ASSUME StoreAssumption ==
  /\ Boot \in Saver
  /\ MaxVersion \in Nat
  /\ Faults \subseteq {"io", "cancel", "crash"}
  /\ None \notin Inode
  /\ {Empty, Garbled} \cap (0..MaxVersion) = {}

VARIABLES
  state,     \* AuthState: the number of changes it has seen, 0 on a first run
  guards,    \* the savers that hold the read guard
  pc,        \* what each saver does next: "idle", "open", "write" or "rename"
  text,      \* the state each saver has serialised
  fd,        \* the file each saver has opened
  dir,       \* the directory: the files named tmp and state
  content,   \* the content of each file
  clean,     \* history: the savers that had the .tmp path to themselves
  trusted    \* history: no save has failed or been abandoned

storeVars == <<state, guards, pc, text, fd, dir, content, clean, trusted>>

Versions == 0..MaxVersion

Busy == {p \in Saver : pc[p] # "idle"}

(* What a boot makes of a content: a text that does not parse gives way to  *)
(* the default, version 0.                                                  *)
Recovered(c) == IF c \in Versions THEN c ELSE 0

(* The content of the state file; a missing one also gives way to the       *)
(* default.                                                                 *)
StateFile == IF dir.state = None THEN 0 ELSE content[dir.state]

FreeInodes == {i \in Inode : i # dir.tmp /\ i # dir.state /\ \A p \in Saver : fd[p] # i}

(* A boot has loaded st, and saves it before anything else runs.            *)
Booting(st) ==
  /\ state' = st
  /\ guards' = {Boot}
  /\ pc' = [p \in Saver |-> IF p = Boot THEN "open" ELSE "idle"]
  /\ text' = [p \in Saver |-> st]
  /\ clean' = {Boot}

(* The first boot finds no file.                                            *)
Init ==
  /\ state = 0
  /\ guards = {Boot}
  /\ pc = [p \in Saver |-> IF p = Boot THEN "open" ELSE "idle"]
  /\ text = [p \in Saver |-> 0]
  /\ fd = [p \in Saver |-> None]
  /\ dir = [tmp |-> None, state |-> None]
  /\ content = [i \in Inode |-> Empty]
  /\ clean = {Boot}
  /\ trusted = TRUE

-----------------------------------------------------------------------------
(* Mutation: save() drops its guard once it has serialised the state.       *)
WriteLockFreed == TRUE

(* The write lock is free: no save holds its read guard.                    *)
WriteLockFree == guards = {}

(* Any mutator: the state changes under the write lock.                     *)
Change ==
  /\ state < MaxVersion
  /\ WriteLockFree
  /\ state' = state + 1
  /\ UNCHANGED <<guards, pc, text, fd, dir, content, clean, trusted>>

(* Take the read guard and serialise.                                       *)
Begin(p) ==
  /\ pc[p] = "idle"
  /\ guards' = guards \cup {p}
  /\ pc' = [pc EXCEPT ![p] = "open"]
  /\ text' = [text EXCEPT ![p] = state]
  /\ clean' = IF Busy = {} THEN {p} ELSE {}
  /\ UNCHANGED <<state, fd, dir, content, trusted>>

(* Mutation: the .tmp file that is there is opened without truncating it.   *)
OpenKeeping(p) ==
  /\ pc[p] = "open"
  /\ \E i \in IF dir.tmp = None THEN FreeInodes ELSE {dir.tmp} :
       /\ fd' = [fd EXCEPT ![p] = i]
       /\ dir' = [dir EXCEPT !.tmp = i]
       /\ content' = IF dir.tmp = None THEN [content EXCEPT ![i] = Empty] ELSE content
  /\ pc' = [pc EXCEPT ![p] = "write"]
  /\ UNCHANGED <<state, guards, text, clean, trusted>>

(* tokio::fs::write, first half: create the .tmp file or truncate the one   *)
(* that is there.                                                           *)
Open(p) ==
  /\ pc[p] = "open"
  /\ \E i \in IF dir.tmp = None THEN FreeInodes ELSE {dir.tmp} :
       /\ fd' = [fd EXCEPT ![p] = i]
       /\ dir' = [dir EXCEPT !.tmp = i]
       /\ content' = [content EXCEPT ![i] = Empty]
  /\ pc' = [pc EXCEPT ![p] = "write"]
  /\ UNCHANGED <<state, guards, text, clean, trusted>>

(* What a file holds once text v has been written from its start: v, unless *)
(* a longer text, or part of one, is already there.                         *)
Overwritten(c, v) == IF c \in {Empty, v} THEN {v} ELSE {v, Garbled}

(* tokio::fs::write, second half.  A saver whose request has been dropped   *)
(* stops here: nobody asks for its rename.                                  *)
WriteText(p) ==
  /\ pc[p] = "write"
  /\ \E c \in Overwritten(content[fd[p]], text[p]) :
       content' = [content EXCEPT ![fd[p]] = c]
  /\ fd' = [fd EXCEPT ![p] = None]
  /\ pc' = [pc EXCEPT ![p] = IF p \in guards THEN "rename" ELSE "idle"]
  /\ UNCHANGED <<state, guards, text, dir, clean, trusted>>

(* Mutation: the read guard outlives save().                                *)
LeaveGuarded(p) ==
  /\ pc' = [pc EXCEPT ![p] = "idle"]
  /\ guards' = guards
  /\ clean' = clean \ {p}

(* The end of save(), whatever its result: the guard is released.           *)
Leave(p) ==
  /\ pc' = [pc EXCEPT ![p] = "idle"]
  /\ guards' = guards \ {p}
  /\ clean' = clean \ {p}

(* The rename fails when another save has already moved the .tmp file.      *)
Rename(p) ==
  /\ pc[p] = "rename"
  /\ dir' = IF dir.tmp = None THEN dir ELSE [tmp |-> None, state |-> dir.tmp]
  /\ Leave(p)
  /\ UNCHANGED <<state, text, fd, content, trusted>>

-----------------------------------------------------------------------------
(* An I/O error in the open, the write (part of the text may be there) or   *)
(* the rename: save() returns the error, and its callers only log it.       *)
Fail(p) ==
  /\ "io" \in Faults
  /\ pc[p] # "idle"
  /\ content' \in IF pc[p] = "write"
                  THEN {content, [content EXCEPT ![fd[p]] = Garbled]}
                  ELSE {content}
  /\ fd' = [fd EXCEPT ![p] = None]
  /\ trusted' = FALSE
  /\ Leave(p)
  /\ UNCHANGED <<state, text, dir>>

(* The request is dropped: its guard is released, and what it has handed to *)
(* the blocking pool goes on without it.  Before a rename it may not have   *)
(* handed it over yet.                                                      *)
Cancel(p) ==
  /\ "cancel" \in Faults
  /\ p \in guards
  /\ guards' = guards \ {p}
  /\ \/ UNCHANGED pc
     \/ pc[p] # "write" /\ pc' = [pc EXCEPT ![p] = "idle"]
  /\ clean' = clean \ {p}
  /\ trusted' = FALSE
  /\ UNCHANGED <<state, text, fd, dir, content>>

(* The server stops, and boots from what it reads: a file it cannot read    *)
(* counts as a missing one.                                                 *)
Crash ==
  /\ "crash" \in Faults
  /\ \/ Booting(Recovered(StateFile)) /\ UNCHANGED trusted
     \/ "io" \in Faults /\ Booting(0) /\ trusted' = FALSE
  /\ fd' = [p \in Saver |-> None]
  /\ UNCHANGED <<dir, content>>

(* Until the boot has saved, no other task runs.                            *)
Serving == pc[Boot] = "idle"

Next ==
  \/ Serving /\ Change
  \/ \E p \in Saver \ {Boot} : Serving /\ Begin(p)
  \/ \E p \in Saver : Open(p) \/ WriteText(p) \/ Rename(p) \/ Fail(p)
  \/ \E p \in Saver \ {Boot} : Cancel(p)
  \/ Crash

StoreSpec == Init /\ [][Next]_storeVars

-----------------------------------------------------------------------------
(* The protocol keeps the shapes of its variables.                          *)
StoreTypeOK ==
  /\ state \in Versions
  /\ guards \subseteq Busy
  /\ pc \in [Saver -> {"idle", "open", "write", "rename"}]
  /\ text \in [Saver -> Versions]
  /\ fd \in [Saver -> Inode \cup {None}]
  /\ dir \in [tmp: Inode \cup {None}, state: Inode \cup {None}]
  /\ content \in [Inode -> Versions \cup {Empty, Garbled}]
  /\ clean \subseteq guards
  /\ trusted \in BOOLEAN

(* save() as a whole keeps the promise of SavedFile, through a shared .tmp  *)
(* path, until a save fails or is abandoned.                                *)
Promise == INSTANCE SavedFile WITH
  Task <- Saver,
  Torn <- Garbled,
  file <- IF StateFile \in Versions THEN StateFile ELSE Garbled,
  savers <- guards

KeepsPromise == Promise!FileSpec

(* Whatever went wrong before: a save that has the .tmp path to itself, and *)
(* comes to its rename, leaves the state in the file (auth.rs:188-200).     *)
SoleSaveLands ==
  [][\A p \in Saver : pc[p] = "rename" /\ p \in clean /\ Rename(p) => StateFile' = state]_storeVars
=============================================================================
