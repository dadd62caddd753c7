----------------------------- MODULE MCExports -----------------------------
(* Small instances of Exports for TLC.                                      *)
EXTENDS Exports, TLC

CONSTANTS f1, i1, d1

(* An image file of the filesystem, and the device of another image of it.  *)
MCUnder == i1 :> f1 @@ d1 :> f1
MCNoImage == <<>>
MCSymmetry == Permutations(Task)

Req(op, p, at, r) == [op |-> op, p |-> p, at |-> at, rdma |-> r]

(* Two requests that claim and remove, or take away what a claim needs, on  *)
(* a box whose restore work lies still.                                     *)
MCClaimProtocol == {"nfs", "iscsi", "nvmeof"}
MCClaims ==
  {Req("add", p, IF p = "nfs" THEN f1 ELSE i1, FALSE) : p \in MCClaimProtocol}
  \cup {Req("add", "iscsi", d1, FALSE)}
  \cup {Req("remove", "iscsi", i1, FALSE), Req("destroy", Null, f1, FALSE)}
  \cup {Req("edit", "iscsi", Null, TRUE)}
  \cup {Req(op, "iscsi", Null, FALSE) : op \in {"enable", "disable"}}

MCClaimsInit ==
  /\ Init
  /\ enabled = Protocol /\ running = Protocol /\ rdma /\ fs[f1] = "unmounted"

MCClaimsSpec == MCClaimsInit /\ [][Requesting]_vars

(* Protocols, mounts and evacuations, beside the restore work.              *)
MCBoxProtocol == {"smb", "iscsi"}
MCBox ==
  {Req(op, p, Null, FALSE) : op \in {"enable", "disable"}, p \in {"iscsi"}}
  \cup {Req("edit", "iscsi", Null, TRUE)}
  \cup {Req(op, Null, f1, FALSE) : op \in {"create", "mount", "unmount", "evacuate"}}
=============================================================================
