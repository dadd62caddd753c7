------------------------------ MODULE SavedFile ------------------------------
(* What the persistence of the authentication state promises: the state may  *)
(* change only between saves, a save puts the state of that moment into the  *)
(* file, and the file is torn at most while several saves overlap, the last  *)
(* of which mends it.  After a restart the state is what can be recovered    *)
(* from the file.  The promise holds until the first fault: a failed or an   *)
(* abandoned write.                                                          *)
CONSTANTS
  Task,          \* the tasks that save
  Torn,          \* the file exists and does not parse
  Recovered(_)   \* what a boot makes of the content of the file

VARIABLES
  state,         \* the state in memory
  file,          \* the content of the file
  savers,        \* the saves under way
  trusted        \* no fault so far

fileVars == <<state, file, savers, trusted>>

(* Nothing but the save of a boot is under way at most.                      *)
BootSave == {{}} \cup {{p} : p \in Task}

FileInit == file = state /\ savers \in BootSave /\ trusted = TRUE

Change == savers = {} /\ UNCHANGED <<file, savers>>

BeginSave == \E p \in Task \ savers : savers' = savers \cup {p} /\ UNCHANGED <<state, file>>

(* A save ends: alone, it leaves the state in the file; among others, it may *)
(* leave the file torn.                                                      *)
EndSave ==
  \E p \in savers :
    /\ savers' = savers \ {p}
    /\ file' = state \/ (savers' # {} /\ file' = Torn)
    /\ UNCHANGED state

(* One of the saves under way writes into the very file that is torn.        *)
Mend == file = Torn /\ savers # {} /\ file' = state /\ UNCHANGED <<state, savers>>

(* A crash, and the boot after it, which saves what it has recovered: this  *)
(* save is over, or is the only one under way.                               *)
Reboot ==
  /\ state' = Recovered(file)
  /\ savers' \in BootSave
  /\ file' = IF savers' = {} THEN state' ELSE file

FileNext ==
  \/ trusted' = trusted /\ (Change \/ BeginSave \/ EndSave \/ Mend \/ Reboot)
  \/ trusted' = FALSE

FileSpec == FileInit /\ [][FileNext]_fileVars
=============================================================================
