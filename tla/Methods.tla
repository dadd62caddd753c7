------------------------------ MODULE Methods ------------------------------
(* The RPC methods and what the dispatcher (src/src/rpc/mod.rs) decides by  *)
(* their names.  A method name is the sequence of its segments: "fs.list"   *)
(* is <<"fs", "list">>.                                                     *)
EXTENDS Sequences, SequencesExt

Under(prefix, names) == {prefix \o <<n>> : n \in names}

(* The arms of the routers of src/src/rpc, one set per file.                *)
AuthMethods ==
  Under(<<"auth">>, {"me", "logout", "change_password", "list_users", "create_user",
                     "delete_user"})
  \cup Under(<<"auth", "token">>, {"list", "create", "delete"})

FilesystemMethods ==
  Under(<<"fs">>, {"list", "get", "create", "destroy", "mount", "unmount", "unlock", "lock"})
  \cup Under(<<"fs", "tpm">>, {"status", "bind", "unbind"})
  \cup Under(<<"fs", "key">>, {"export", "delete"})
DeviceMethods ==
  Under(<<"device">>, {"list", "set_type", "wipe"})
  \cup {<<"fs", "options", "update">>, <<"fs", "device", "evacuate", "cancel">>}
  \cup Under(<<"fs", "device">>, {"add", "remove", "evacuate", "set_state", "online",
                                  "offline", "set_label"})
BackgroundMethods ==
  {<<"fs", d, v>> : d \in {"reconcile", "copygc"}, v \in {"status", "enable", "disable"}}
  \cup Under(<<"fs">>, {"usage", "moving_ctxts"})
  \cup Under(<<"fs", "scrub">>, {"start", "status", "cancel"})
  \cup Under(<<"fs", "fsck">>, {"start", "status"})
FsMethods == FilesystemMethods \cup DeviceMethods \cup BackgroundMethods

SubvolumeQueries ==
  Under(<<"subvolume">>, {"list_all", "list", "get", "children", "find_by_property"})
SubvolumeMutations ==
  Under(<<"subvolume">>, {"create", "delete", "attach", "detach", "resize", "update", "clone",
                          "set_properties", "remove_properties"})
SubvolumeMethods == SubvolumeQueries \cup SubvolumeMutations

SnapshotMethods == Under(<<"snapshot">>, {"list", "create", "delete", "clone", "rollback"})

FileShareMethods ==
  {<<"share", p, v>> : p \in {"nfs", "smb"}, v \in {"list", "get", "create", "update", "delete"}}
IscsiMethods ==
  Under(<<"share", "iscsi">>, {"list", "get", "create", "delete", "add_lun", "remove_lun",
                               "add_acl", "remove_acl", "add_portal", "set_portals",
                               "remove_portal"})
NvmeofMethods ==
  Under(<<"share", "nvmeof">>, {"list", "get", "create", "delete", "add_namespace",
                                "remove_namespace", "add_port", "remove_port", "add_host",
                                "remove_host"})
ShareMethods == FileShareMethods \cup IscsiMethods \cup NvmeofMethods

SmbMethods ==
  Under(<<"smb", "user">>, {"list", "create", "delete", "set_password"})
  \cup Under(<<"smb", "group">>, {"list", "create", "delete", "add_member", "remove_member"})

ServiceMethods ==
  Under(<<"service", "protocol">>, {"list", "enable", "disable"})
  \cup Under(<<"service", "base_names">>, {"get", "update"})

FilesMethods == Under(<<"files">>, {"browse", "mkdir", "delete", "rename"})

AlertMethods ==
  {<<"system", "alerts">>} \cup Under(<<"alert", "rules">>, {"list", "create", "update", "delete"})

BcachefsMethods == Under(<<"bcachefs">>, {"usage", "top", "timestats"})

SystemQueries ==
  Under(<<"system">>, {"info", "health", "stats", "disks", "logs"})
  \cup {<<"system", "hardware", "summary">>, <<"system", "logs", "units">>}
  \cup Under(<<"system", "metrics">>, {"history", "prometheus"})
SettingsMethods ==
  Under(<<"system", "settings">>, {"get", "timezones", "update"})
  \cup Under(<<"system", "tuning">>, {"get", "update"})
  \cup {<<"system", "network", "get">>}
  \cup Under(<<"system", "nut", "config">>, {"get", "update"})
  \cup {<<"system", "nut", "status">>}
  \cup Under(<<"system", "firewall">>, {"status", "restrictions", "restrict"})
  \cup Under(<<"notifications", "config">>, {"get", "update"})
  \cup Under(<<"notifications">>, {"test", "test_saved"})
SshMethods == Under(<<"system", "ssh">>, {"status", "add_key", "remove_key"})
SystemMethods == SystemQueries \cup SettingsMethods \cup SshMethods

Method ==
  AuthMethods \cup FsMethods \cup SubvolumeMethods \cup SnapshotMethods \cup ShareMethods
    \cup SmbMethods \cup ServiceMethods \cup FilesMethods \cup AlertMethods
    \cup BcachefsMethods \cup SystemMethods

-----------------------------------------------------------------------------
Starts(m, prefix) == IsPrefix(prefix, m) /\ m # prefix

(* is_read_only: by suffix, or by name.                                     *)
ReadOnly(m) ==
  \/ Len(m) > 1 /\ Last(m) \in {"list", "get", "status"}
  \/ m \in Under(<<"system">>, {"info", "health", "alerts", "stats", "disks", "logs"})
  \/ m \in {<<"system", "hardware", "summary">>, <<"system", "metrics", "history">>,
            <<"system", "metrics", "prometheus">>, <<"system", "network", "get">>,
            <<"system", "firewall", "restrictions">>, <<"system", "logs", "units">>}
  \/ m \in {<<"device", "list">>, <<"auth", "me">>, <<"files", "browse">>, <<"fs", "usage">>,
            <<"fs", "moving_ctxts">>}
  \/ m \in BcachefsMethods
  \/ m \in Under(<<"subvolume">>, {"list_all", "children", "find_by_property"})

SelfService(m) == m \in Under(<<"auth">>, {"logout", "change_password", "me"})

(* is_operator_allowed.                                                     *)
OperatorAllowed(m) ==
  \/ ReadOnly(m)
  \/ SelfService(m)
  \/ Starts(m, <<"subvolume">>) \/ Starts(m, <<"snapshot">>) \/ Starts(m, <<"share">>)
  \/ Starts(m, <<"smb">>) \/ Starts(m, <<"service", "protocol">>) \/ Starts(m, <<"files">>)
  \/ m \in Under(<<"fs">>, {"mount", "unmount", "lock"})
  \/ m \in {<<"fs", d, v>> : d \in {"reconcile", "copygc"}, v \in {"enable", "disable"}}

(* The role matrix of handle_rpc_request.                                   *)
Denied(role, m) ==
  \/ role = "ReadOnly" /\ ~(ReadOnly(m) \/ SelfService(m))
  \/ role = "Operator" /\ ~OperatorAllowed(m)

ShareTable ==
  [nfs |-> "share.nfs", smb |-> "share.smb", iscsi |-> "share.iscsi", nvmeof |-> "share.nvmeof"]

(* collection_for_method: the event a success is announced by, or "none".   *)
Collection(m) ==
  IF ReadOnly(m) THEN "none"
  ELSE CASE Starts(m, <<"fs">>) \/ Starts(m, <<"device">>) -> "filesystem"
         [] Starts(m, <<"subvolume">>) -> "subvolume"
         [] Starts(m, <<"snapshot">>) -> "snapshot"
         [] Starts(m, <<"share">>) -> ShareTable[m[2]]
         [] Starts(m, <<"service", "protocol">>) -> "protocol"
         [] OTHER -> "none"

(* The arms that check the role themselves: "admin only" where settings,    *)
(* tuning, UPS, notifications, firewall, SSH keys or alert rules are        *)
(* written, or another account's password, "read-only role" where files are.*)
AdminOnly(m) ==
  \/ m \in {<<"system", s, "update">> : s \in {"settings", "tuning"}}
  \/ m \in {<<"system", "nut", "config", "update">>, <<"system", "firewall", "restrict">>,
            <<"notifications", "config", "update">>}
  \/ m \in Under(<<"system", "ssh">>, {"add_key", "remove_key"})
  \/ m \in Under(<<"alert", "rules">>, {"create", "update", "delete"})

(* Mutation: whose password is changed is not looked at.                    *)
RefusesByMethod(role, m, other) ==
  \/ AdminOnly(m) /\ role # "Admin"
  \/ m \in FilesMethods \ {<<"files", "browse">>} /\ role = "ReadOnly"

(* auth.change_password has two modes: the caller's own password, and that  *)
(* of another account the request names, which only an administrator sets.  *)
ChangePassword == <<"auth", "change_password">>

RefusesAccount(role, m, other) == m = ChangePassword /\ other /\ role # "Admin"

Refuses(role, m, other) ==
  \/ AdminOnly(m) /\ role # "Admin"
  \/ m \in FilesMethods \ {<<"files", "browse">>} /\ role = "ReadOnly"
  \/ RefusesAccount(role, m, other)

(* The tables a handler writes.  A filesystem that is destroyed, mounted or *)
(* unmounted takes its subvolumes and snapshots with it.                    *)
Writes(m) ==
  IF m \in {<<"fs", v>> : v \in {"destroy", "mount", "unmount"}}
  THEN {"filesystem", "subvolume", "snapshot"}
  ELSE CASE m \in FsMethods \ {<<"fs", "list">>, <<"fs", "get">>, <<"fs", "usage">>,
                               <<"fs", "moving_ctxts">>, <<"fs", "key", "export">>,
                               <<"device", "list">>}
              /\ Last(m) # "status" -> {"filesystem"}
         [] m \in SubvolumeMutations -> {"subvolume"}
         [] m \in Under(<<"snapshot">>, {"create", "delete"}) -> {"snapshot"}
         [] m \in Under(<<"snapshot">>, {"clone", "rollback"}) -> {"subvolume", "snapshot"}
         [] m \in ShareMethods /\ Last(m) \notin {"list", "get"} -> {ShareTable[m[2]]}
         [] m \in Under(<<"service", "protocol">>, {"enable", "disable"}) -> {"protocol"}
         [] m \in SmbMethods /\ Last(m) # "list" -> {"smb"}
         [] m \in Under(<<"auth">>, {"create_user", "delete_user", "change_password"}) -> {"accounts"}
         [] m \in Under(<<"auth", "token">>, {"create", "delete"}) -> {"tokens"}
         [] m \in Under(<<"files">>, {"mkdir", "delete", "rename"}) -> {"files"}
         [] AdminOnly(m) \/ m = <<"service", "base_names", "update">> -> {"system"}
         [] OTHER -> {}

(* The table whose whole contents a method answers with, or "none".         *)
Lists(m) ==
  CASE m = <<"fs", "list">> -> "filesystem"
    [] m = <<"subvolume", "list_all">> -> "subvolume"
    [] m = <<"snapshot", "list">> -> "snapshot"
    [] m \in ShareMethods /\ Last(m) = "list" -> ShareTable[m[2]]
    [] m = <<"service", "protocol", "list">> -> "protocol"
    [] m = <<"smb", "user", "list">> -> "smb"
    [] OTHER -> "none"
=============================================================================
