----------------------------- MODULE MCTuiModal -----------------------------
(* Small instances of TuiModal for TLC: two rows, of a sort that one of the *)
(* views holds; the other views are empty.                                  *)
EXTENDS TuiModal

CONSTANTS a, b

Holds ==
  [devices |-> {"device"}, filesystems |-> {"filesystem"}, shares |-> {"smb", "iscsi"},
   users |-> {"token", "account", "group"}, protocols |-> {"protocol"},
   snapshots |-> {"snapshot"}, subvolumes |-> {"subvolume"},
   files |-> {"file"}, alerts |-> {"rule"}, system |-> {"channel", "setting"}]

TwoRows(views) ==
  UNION {{[w \in views |-> IF w = v THEN <<NewRow(a, s), NewRow(b, s)>> ELSE <<>>] :
            s \in Holds[v]} : v \in views}

MCBlock == {"devices", "filesystems"}
MCBlockRows == TwoRows(MCBlock)

MCShared == {"shares", "users", "protocols", "subvolumes", "snapshots", "files", "alerts", "system"}
MCSharedRows == TwoRows(MCShared)

MCInit == Init /\ list[tab] # <<>>

MCSpec == MCInit /\ [][Next]_vars
=============================================================================
