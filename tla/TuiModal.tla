------------------------------ MODULE TuiModal ------------------------------
(* What the keys of the terminal client do (src/src/tui/app.rs): the views  *)
(* with their selection, the modals that capture the keys, and the requests *)
(* they send, while the lists behind them are replaced by what other        *)
(* clients changed.  How a list comes to be replaced is in module TuiView;  *)
(* here it may happen between any two keys.  What is typed into the fields  *)
(* of a form is left out, up to whether the form is complete and whether    *)
(* the reconcile switch was touched.                                        *)
EXTENDS Naturals, Sequences, FiniteSets

CONSTANTS View,      \* views of the instance
          Name,      \* names of rows
          Member,    \* clients and users listed in a share
          Stored,    \* what the server may hold at first: the rows of each view
          Changes,   \* bound: changes by other clients
          Sends,     \* bound: requests sent
          Null

Views == {"overview", "devices", "filesystems", "subvolumes", "snapshots", "shares", "files",
          "protocols", "users", "alerts", "system"}

VARIABLES
  rows,       \* server: the rows of each view
  changes,    \* changes by other clients so far
  sent,       \* requests under way
  sends,      \* requests sent so far
  minted,     \* tokens created whose reply has not arrived
  list,       \* client: the rows of each view
  strip,      \* client: under each name the filesystem whose status came, if one did
  tab,        \* client: the view
  selected,   \* client: the selected position
  modal,      \* client: the modal
  overlapped, \* history: two token requests were under way at once
  lost        \* history: a secret left the screen without a key

serverVars == <<rows, changes, minted>>
historyVars == <<overlapped, lost>>
vars == <<serverVars, sent, sends, list, strip, tab, selected, modal, historyVars>>

(* A row: "flag" is in_use, mounted or enabled; "switch" the reconcile      *)
(* switch of a filesystem; "rev" a history that counts its changes.         *)
NewRow(n, sort) ==
  [name |-> n, sort |-> sort, flag |-> FALSE, switch |-> TRUE, members |-> {}, rev |-> 0]

-----------------------------------------------------------------------------
(* The keys, as tables.                                                     *)
(* The sorts of rows a view lists; users and shares list one sort after     *)
(* another.                                                                 *)
UserSorts == {"account", "smb_user", "group", "token"}
ShareSorts == {"nfs", "smb", "iscsi", "nvmeof"}
SystemRows == {"field", "setting", "channel", "ssh_key"}
SortsOf(view) ==
  CASE view = "devices" -> {"device"}
    [] view = "filesystems" -> {"filesystem"}
    [] view = "subvolumes" -> {"subvolume"}
    [] view = "snapshots" -> {"snapshot"}
    [] view = "shares" -> ShareSorts
    [] view = "files" -> {"file"}
    [] view = "protocols" -> {"protocol"}
    [] view = "users" -> UserSorts
    [] view = "alerts" -> {"rule"}
    [] view = "system" -> SystemRows
    [] OTHER -> {}

(* The forms about the selected row, per sort of row.                       *)
SubvolumeForms == {"subvol_resize", "subvol_clone", "subvol_update"}
PasswordForms(sort) ==
  {k \in {"reset_password", "set_smb_password"} :
     sort = (IF k = "reset_password" THEN "account" ELSE "smb_user")}
FormsAbout(sort) ==
  CASE sort = "filesystem" -> {"edit_fs"}
    [] sort = "subvolume" -> SubvolumeForms \cup {"create_snapshot"}
    [] sort = "snapshot" -> {"clone_snapshot"}
    [] sort = "device" -> {"disk_type"}
    [] sort = "file" -> {"rename_file"}
    [] sort \in UserSorts -> PasswordForms(sort)
    [] sort = "field" -> {"edit_field"}
    [] OTHER -> {}

(* open_create_form: by the view, and by the sort selected among users.     *)
NewUserForms(sort) ==
  CASE sort = "account" -> {"create_user"}
    [] sort = "smb_user" -> {"create_smb_user"}
    [] sort = "group" -> {"create_group"}
    [] OTHER -> {"create_token"}
FormsNew(view, sort) ==
  CASE view = "filesystems" -> {"create_fs"}
    [] view = "subvolumes" -> {"create_subvolume"}
    [] view = "snapshots" -> {"create_snapshot"}
    [] view = "shares" -> {"create_share"}
    [] view = "alerts" -> {"create_alert_rule"}
    [] view = "system" -> {"add_ssh_key"}
    [] view = "files" -> {"mkdir"}
    [] view = "users" -> NewUserForms(sort)
    [] OTHER -> {}

(* build_request: what each form sends.                                     *)
AccountBuilds ==
  [create_user |-> "auth.create_user", reset_password |-> "auth.change_password",
   create_smb_user |-> "smb.user.create", set_smb_password |-> "smb.user.set_password",
   create_group |-> "smb.group.create", group_member |-> "smb.group.member"]
StorageBuilds ==
  [create_share |-> "share.create", create_fs |-> "fs.create"]
FsBuilds ==
  [edit_fs |-> "fs.options.update", create_subvolume |-> "subvolume.create",
   create_snapshot |-> "snapshot.create", clone_snapshot |-> "snapshot.clone"]
SystemBuilds ==
  [create_alert_rule |-> "alert.rules.create", add_ssh_key |-> "system.ssh.add_key",
   mkdir |-> "files.mkdir", rename_file |-> "files.rename",
   create_token |-> "auth.token.create", edit_field |-> "system.update",
   fs_device_add |-> "fs.device.add"]
PartBuilds ==
  [iscsi_add_lun |-> "share.iscsi.add_lun", iscsi_add_portal |-> "share.iscsi.add_portal",
   iscsi_add_acl |-> "share.iscsi.add_acl",
   nvmeof_add_namespace |-> "share.nvmeof.add_namespace",
   nvmeof_add_port |-> "share.nvmeof.add_port", nvmeof_add_host |-> "share.nvmeof.add_host"]
MemberBuilds ==
  [nfs_add_client |-> "share.nfs.update", smb_add_user |-> "share.smb.update"]
VolumeBuilds ==
  [subvol_clone |-> "subvolume.clone", subvol_update |-> "subvolume.update",
   subvol_resize |-> "subvolume.resize", disk_type |-> "device.set_type"]

Builders == {AccountBuilds, StorageBuilds, FsBuilds, SystemBuilds, PartBuilds, MemberBuilds,
             VolumeBuilds}
FormKinds == UNION {DOMAIN t : t \in Builders}
Builds(kind) == (CHOOSE t \in Builders : kind \in DOMAIN t)[kind]

(* open_delete_confirm.                                                     *)
UserDeletes ==
  [account |-> "auth.delete_user", smb_user |-> "smb.user.delete",
   group |-> "smb.group.delete", token |-> "auth.token.delete"]
Deletes(sort) ==
  CASE sort = "subvolume" -> {"subvolume.delete"}
    [] sort = "snapshot" -> {"snapshot.delete"}
    [] sort \in ShareSorts -> {"share.delete"}
    [] sort = "file" -> {"files.delete"}
    [] sort = "rule" -> {"alert.rules.delete"}
    [] sort = "ssh_key" -> {"system.ssh.remove_key"}
    [] sort \in UserSorts -> {UserDeletes[sort]}
    [] OTHER -> {}

(* mount_toggle, toggle_share_enabled, toggle_alert_rule, toggle_protocol,  *)
(* the toggles of edit_system_row: the flag is flipped from what the list   *)
(* shows.                                                                   *)
MountToggle == {"fs.mount", "fs.unmount"}
ShareToggle == {"share.enable", "share.disable"}
RuleToggle == {"alert.rules.enable", "alert.rules.disable"}
ProtocolToggle == {"service.protocol.enable", "service.protocol.disable"}
Toggles(sort) ==
  CASE sort = "filesystem" -> MountToggle
    [] sort \in {"nfs", "smb"} -> ShareToggle
    [] sort = "rule" -> RuleToggle
    [] sort = "protocol" -> ProtocolToggle
    [] sort = "setting" -> {"system.set", "system.unset"}
    [] OTHER -> {}
TurnsOn == {"fs.mount", "share.enable", "alert.rules.enable", "service.protocol.enable",
            "system.set"}

(* What is sent without a modal or from the status panel, and changes       *)
(* nothing a row shows.                                                     *)
Fires(sort) ==
  CASE sort = "filesystem" -> {"fs.scrub.start"}
    [] sort = "channel" -> {"notifications.test_saved"}
    [] OTHER -> {}
PanelFires == {"fs.scrub.start", "fs.fsck.start", "bcachefs.usage"}    \* and the like

(* The sorts of rows with a flag a key depends on.                          *)
Flagged == {s \in {"device", "filesystem", "nfs", "smb", "rule", "protocol", "setting"} :
              s = "device" \/ Toggles(s) # {}}

(* A detail shows the parts of a listed row: what it adds and removes.      *)
WholeList == {"nfs", "smb"}
DetailForms(sort) ==
  CASE sort = "filesystem" -> {"fs_device_add"}
    [] sort = "iscsi" -> {"iscsi_add_lun", "iscsi_add_portal", "iscsi_add_acl"}
    [] sort = "nvmeof" -> {"nvmeof_add_namespace", "nvmeof_add_port", "nvmeof_add_host"}
    [] sort = "nfs" -> {"nfs_add_client"}
    [] sort = "smb" -> {"smb_add_user"}
FsRemoves == {"fs.device.remove"}
PartRemoves(sort) ==
  CASE sort = "iscsi" -> {"share.iscsi.remove_lun", "share.iscsi.remove_portal",
                          "share.iscsi.remove_acl"}
    [] sort = "nvmeof" -> {"share.nvmeof.remove_namespace", "share.nvmeof.remove_port",
                           "share.nvmeof.remove_host"}
    [] OTHER -> FsRemoves
MemberUpdate(sort) == IF sort = "nfs" THEN "share.nfs.update" ELSE "share.smb.update"
DetailFires == {"fs.device.set_state", "fs.lock"}    \* and online, offline, TPM

Destructive == {"device.wipe", "fs.destroy"}

(* What a row holds.  A name stands for a view and the identifier of a row  *)
(* in it, so that no two rows have one name.                                *)
Sorts == UNION {SortsOf(v) : v \in View}

RowSet == [name : Name, sort : Sorts, flag : BOOLEAN, switch : BOOLEAN,
           members : SUBSET Member, rev : Nat]

NewRows == {NewRow(n, s) : n \in Name, s \in Sorts}

ASSUME TuiModalAssumption ==
  /\ View \subseteq Views /\ Changes \in Nat /\ Sends \in Nat
  /\ Null \notin Name \cup Member \cup BOOLEAN \cup Nat \cup RowSet
  /\ \A s \in SUBSET Member : s # Null
  /\ \A r \in Stored :
       /\ r \in [View -> Seq(NewRows)]
       /\ \A v \in View : \A i \in DOMAIN r[v] : r[v][i].sort \in SortsOf(v)
       /\ \A v, w \in View : \A i \in DOMAIN r[v], j \in DOMAIN r[w] :
            r[v][i].name = r[w][j].name => v = w /\ i = j

-----------------------------------------------------------------------------
(* Modals.  Each names the row it is about as it was when the modal opened. *)
None == [kind |-> "none"]

(* Mutation: the switch of the form starts from the wrong option.           *)
SwitchInverted(n) == strip[n] # Null /\ ~strip[n].switch

(* open_edit_fs_form: an unknown switch counts as on.                       *)
SwitchShown(n) == strip[n] = Null \/ strip[n].switch

(* The strip shows a filesystem's own status, not one filed under its name. *)
OwnStatus(n) == strip[n] # Null /\ strip[n].name = n

Form(kind, r) ==
  [kind |-> "form", form |-> kind, about |-> r,
   switch |-> IF kind = "edit_fs" THEN SwitchShown(r.name) ELSE Null,
   basis |-> IF kind = "edit_fs" /\ OwnStatus(r.name) THEN strip[r.name].rev ELSE Null]

Confirm(method, r) ==
  [kind |-> "confirm", method |-> method, about |-> r, input |-> "nothing",
   typed |-> method \in Destructive]

Modal(kind, r) == [kind |-> kind, about |-> r]

(* "fresh" is a history: no list was replaced since the menu opened.        *)
Menu(r) == [kind |-> "menu", about |-> r, fresh |-> TRUE]

(* A request: "asked" are the members the user wants added or removed,      *)
(* "members" the list that is sent for them, if one is; "switch" the        *)
(* reconcile switch that is sent, and "basis", a history, the revision of   *)
(* the filesystem's own status that a switch the user left alone was read   *)
(* from.                                                                    *)
Request(method, r) ==
  [method |-> method, about |-> r, members |-> Null, asked |-> {}, switch |-> Null,
   basis |-> Null]

Send(r) ==
  /\ sends < Sends
  /\ sends' = sends + 1
  /\ sent' = Append(sent, r)
  /\ overlapped' = (overlapped \/ (r.method = "auth.token.create"
       /\ (minted > 0 \/ \E i \in DOMAIN sent : sent[i].method = "auth.token.create")))

Quiet == UNCHANGED <<sent, sends, overlapped>>

(* A key that closes the modal; one that dismisses a secret.                *)
Close == modal' = None

Selection == IF selected \in DOMAIN list[tab] THEN list[tab][selected] ELSE Null

Sort == IF Selection = Null THEN "none" ELSE Selection.sort

Init ==
  /\ rows \in Stored
  /\ changes = 0
  /\ sent = <<>>
  /\ sends = 0
  /\ minted = 0
  /\ list = rows
  /\ strip = [n \in Name |-> Null]
  /\ tab \in View
  /\ selected = 1
  /\ modal = None
  /\ overlapped = FALSE
  /\ lost = FALSE

-----------------------------------------------------------------------------
(* The server.                                                              *)
Positions(v, n) == {i \in DOMAIN rows[v] : rows[v][i].name = n}

Without(s, i) == SubSeq(s, 1, i - 1) \o SubSeq(s, i + 1, Len(s))

Row(v, n) == rows[v][CHOOSE i \in Positions(v, n) : TRUE]

Revised(v, n, field, value) ==
  rows' = [rows EXCEPT ![v] = [i \in DOMAIN rows[v] |->
             IF rows[v][i].name = n
             THEN [rows[v][i] EXCEPT ![field] = value, !.rev = rows[v][i].rev + 1]
             ELSE rows[v][i]]]

Has(v, sorts) == \E i \in DOMAIN rows[v] : rows[v][i].sort \in sorts

(* Another client changes or removes a row.                                 *)
OtherChanges ==
  /\ changes < Changes
  /\ changes' = changes + 1
  /\ \E v \in View, n \in Name :
       \/ /\ Positions(v, n) # {}
          /\ \/ Has(v, Flagged) /\ Revised(v, n, "flag", ~Row(v, n).flag)
             \/ Has(v, {"filesystem"}) /\ Revised(v, n, "switch", ~Row(v, n).switch)
             \/ /\ Has(v, WholeList)
                /\ \/ \E m \in Member \ Row(v, n).members :
                          Revised(v, n, "members", Row(v, n).members \cup {m})
                   \/ \E m \in Row(v, n).members :
                          Revised(v, n, "members", Row(v, n).members \ {m})
       \/ \E i \in Positions(v, n) : rows' = [rows EXCEPT ![v] = Without(@, i)]
  /\ UNCHANGED <<minted, sent, sends, list, strip, tab, selected, modal, historyVars>>

Applied(r) ==
  LET n == r.about.name
      v == CHOOSE w \in View : Positions(w, n) # {} IN
    IF r.members # Null THEN Revised(v, n, "members", r.members)
    ELSE IF r.switch # Null THEN Revised(v, n, "switch", r.switch)
    ELSE CASE r.method \in Toggles(r.about.sort) -> Revised(v, n, "flag", r.method \in TurnsOn)
           [] r.method \in Deletes(r.about.sort) \cup {"fs.destroy"} ->
                rows' = [rows EXCEPT ![v] = Without(@, CHOOSE i \in Positions(v, n) : TRUE)]
           [] OTHER -> UNCHANGED rows

Served == Head(sent)

Serve ==
  /\ sent # <<>>
  /\ sent' = Tail(sent)
  /\ minted' = minted + (IF Served.method = "auth.token.create" THEN 1 ELSE 0)
  /\ IF Served.about # Null /\ \E v \in View : Positions(v, Served.about.name) # {}
     THEN Applied(Served) ELSE UNCHANGED rows
  /\ UNCHANGED <<changes, sends, list, strip, tab, selected, modal, historyVars>>

(* store_response for a list: the rows are replaced, the selection clamped  *)
(* if there are any; an open modal stays as it is.  Mutation: the selection *)
(* is clamped to an empty list too.                                         *)
ClampedAlways(v) == IF v = tab /\ selected > Len(rows[v]) THEN Len(rows[v]) ELSE selected

Clamped(v) ==
  IF v = tab /\ Len(rows[v]) > 0 /\ selected > Len(rows[v]) THEN Len(rows[v]) ELSE selected

(* Mutation: a list that is replaced closes the modal.                      *)
ModalClosed == None

ModalKept == IF modal.kind = "menu" THEN [modal EXCEPT !.fresh = FALSE] ELSE modal

Refreshed(v) ==
  /\ list[v] # rows[v]
  /\ list' = [list EXCEPT ![v] = rows[v]]
  /\ selected' = Clamped(v)
  /\ modal' = ModalKept
  /\ lost' = (lost \/ (modal.kind = "reveal" /\ modal'.kind # "reveal"))
  /\ Quiet /\ UNCHANGED <<serverVars, strip, tab>>

(* ... and for the status strip: the status of a mounted filesystem is      *)
(* filed under the one at position "i" of the list as it is now.  The       *)
(* position was taken from an earlier list, whose order may have been       *)
(* another (a filesystem created since, say), so it may be anyone's.        *)
StripArrives(i) ==
  /\ "filesystems" \in View /\ i \in DOMAIN list["filesystems"]
  /\ \E j \in DOMAIN rows["filesystems"] :
       LET n == list["filesystems"][i].name
           reported == rows["filesystems"][j] IN
         /\ reported.flag /\ strip[n] # reported
         /\ strip' = [strip EXCEPT ![n] = reported]
  /\ Quiet /\ UNCHANGED <<serverVars, list, tab, selected, modal, lost>>

(* ... and for a new token: the secret takes the place of any modal.        *)
TokenCreated ==
  /\ minted > 0
  /\ minted' = minted - 1
  /\ lost' = (lost \/ modal.kind = "reveal")
  /\ modal' = Modal("reveal", Null)
  /\ Quiet /\ UNCHANGED <<rows, changes, list, strip, tab, selected>>

-----------------------------------------------------------------------------
(* Keys without a modal: handle_input.                                      *)
Free == modal.kind = "none"

KeyRest == UNCHANGED <<serverVars, list, strip, tab, selected, lost>>

(* Mutation: the mouse wheel moves the selection under a modal.             *)
AnyTime == modal.kind # "reveal"

(* handle_mouse returns at once when a modal is open.                       *)
MouseFree == Free

(* Keys and mouse move the selection and switch the view.                   *)
Move(i) ==
  /\ MouseFree /\ i \in DOMAIN list[tab] /\ i # selected
  /\ selected' = i
  /\ Quiet /\ UNCHANGED <<serverVars, list, strip, tab, modal, lost>>

SwitchTo(v) ==
  /\ Free /\ v # tab
  /\ tab' = v
  /\ selected' = 1
  /\ Quiet /\ UNCHANGED <<serverVars, list, strip, modal, lost>>

(* A directory is entered or left.                                          *)
Browse ==
  /\ Free /\ tab = "files"
  /\ selected' = 1
  /\ Quiet /\ UNCHANGED <<serverVars, list, strip, tab, modal, lost>>

OpenEdit ==
  /\ Free
  /\ \E k \in FormsAbout(Sort) : modal' = Form(k, Selection)
  /\ Quiet /\ KeyRest

(* open_create_form, by its key or from the palette.                        *)
OpenNew ==
  /\ Free \/ modal.kind = "palette"
  /\ \E k \in FormsNew(tab, Sort) : modal' = Form(k, Null)
  /\ Quiet /\ KeyRest

(* open_group_member_form: whatever user is selected, if there is a group.  *)
OpenGroupMember ==
  /\ Free /\ \E i \in DOMAIN list[tab] : list[tab][i].sort = "group"
  /\ modal' = Form("group_member", Null)
  /\ Quiet /\ KeyRest

OpenDelete ==
  /\ Free
  /\ \E m \in Deletes(Sort) : modal' = Confirm(m, Selection)
  /\ Quiet /\ KeyRest

OpenDestroy ==
  /\ Free /\ Sort = "filesystem"
  /\ modal' = Confirm("fs.destroy", Selection)
  /\ Quiet /\ KeyRest

(* open_wipe_confirm, by its key or from the device menu: only for a device *)
(* that is listed as free.                                                  *)
WipeConfirm ==
  IF Sort = "device" /\ ~Selection.flag THEN Confirm("device.wipe", Selection) ELSE None

OpenWipe ==
  /\ Free /\ WipeConfirm # None
  /\ modal' = WipeConfirm
  /\ Quiet /\ KeyRest

Toggle ==
  /\ Free /\ Toggles(Sort) # {}
  /\ \E m \in Toggles(Sort) :
       (m \in TurnsOn) = ~Selection.flag /\ Send(Request(m, Selection))
  /\ UNCHANGED modal /\ KeyRest

Fire ==
  /\ Free
  /\ \E m \in Fires(Sort) : Send(Request(m, Selection))
  /\ UNCHANGED modal /\ KeyRest

(* Enter or a key opens a detail, a menu, the status panel, the log.        *)
OpenFsDevices == Sort = "filesystem" /\ modal' = Modal("detail", Selection)
OpenShareDetail == Sort \in ShareSorts /\ modal' = Modal("detail", Selection)
OpenDeviceMenu == Sort = "device" /\ modal' = Menu(Selection)
OpenProtocolMenu == Sort = "protocol" /\ modal' = Menu(Selection)
OpenFsStatus == Sort = "filesystem" /\ modal' = Modal("fs_status", Selection)
OpenLogs == tab = "system" /\ modal' = Modal("logs", Null)
OpenPalette == modal' = Modal("palette", Null)

OpenOther ==
  /\ Free
  /\ \/ OpenFsDevices \/ OpenShareDetail \/ OpenDeviceMenu \/ OpenProtocolMenu
     \/ OpenFsStatus \/ OpenLogs \/ OpenPalette
  /\ Quiet /\ KeyRest

-----------------------------------------------------------------------------
(* Keys in a modal.                                                         *)
Dismiss ==
  /\ modal.kind # "none"
  /\ Close
  /\ Quiet /\ KeyRest

(* handle_form_key and build_request.                                       *)
TouchSwitch ==
  /\ modal.kind = "form" /\ modal.form = "edit_fs"
  /\ modal' = [modal EXCEPT !.switch = ~@, !.basis = Null]
  /\ Quiet /\ KeyRest

(* Mutation: the list that is sent holds the new member only.               *)
AddedOnly(r, m) == {m}
Added(r, m) == r.members \cup {m}

Built(form) ==
  CASE form.form = "edit_fs" ->
         {[Request(Builds(form.form), form.about) EXCEPT !.switch = form.switch,
                                                         !.basis = form.basis]}
    [] form.form \in DOMAIN MemberBuilds ->
         {[Request(Builds(form.form), form.about) EXCEPT !.members = Added(form.about, m),
                                                         !.asked = {m}] : m \in Member}
    [] OTHER -> {Request(Builds(form.form), form.about)}

Submit ==
  /\ modal.kind = "form"
  /\ \E r \in Built(modal) : Send(r)
  /\ Close
  /\ KeyRest

(* handle_confirm_key: `y` answers only where no name is asked for; what is *)
(* typed is one of the names, or something else.                            *)
TypeInput(n) ==
  /\ modal.kind = "confirm" /\ modal.typed
  /\ modal' = [modal EXCEPT !.input = n]
  /\ Quiet /\ KeyRest

(* Mutation: what is typed is compared with the row that is selected now.   *)
ProceedSelected(c) == ~c.typed \/ (Selection # Null /\ c.input = Selection.name)
Proceed(c) == ~c.typed \/ c.input = c.about.name

Confirmed ==
  /\ modal.kind = "confirm" /\ Proceed(modal)
  /\ Send(Request(modal.method, modal.about))
  /\ Close
  /\ KeyRest

(* handle_detail_key: `x` removes a part, or sends the list without it.     *)
DetailRemove ==
  /\ modal.kind = "detail"
  /\ IF modal.about.sort \in WholeList
     THEN \E m \in modal.about.members :
            Send([Request(MemberUpdate(modal.about.sort), modal.about) EXCEPT
                    !.members = modal.about.members \ {m}, !.asked = {m}])
     ELSE \E m \in PartRemoves(modal.about.sort) : Send(Request(m, modal.about))
  /\ Close
  /\ KeyRest

DetailAdd ==
  /\ modal.kind = "detail"
  /\ \E k \in DetailForms(modal.about.sort) : modal' = Form(k, modal.about)
  /\ Quiet /\ KeyRest

(* Evacuation is confirmed, the other device actions are sent at once; an   *)
(* SMB share's flags are toggled.                                           *)
DetailFire ==
  /\ modal.kind = "detail"
  /\ \/ /\ modal.about.sort = "filesystem"
        /\ \/ Close /\ \E m \in DetailFires : Send(Request(m, modal.about))
           \/ modal' = Confirm("fs.device.evacuate", modal.about) /\ Quiet
     \/ modal.about.sort = "smb" /\ Close /\ Send(Request("share.smb.update", modal.about))
  /\ KeyRest

(* handle_context_menu_key: the device's items act on the selection, the    *)
(* protocol's on what the menu holds; the palette and the protocol menu     *)
(* also lead to another view.                                               *)
MenuDevice ==
  /\ modal.kind = "menu" /\ modal.about.sort = "device"
  /\ \/ modal' = IF Sort = "device" THEN Form("disk_type", Selection) ELSE None
     \/ ~modal.about.flag /\ modal' = WipeConfirm
  /\ Quiet /\ KeyRest

MenuProtocol ==
  /\ modal.kind = "menu" /\ modal.about.sort = "protocol"
  /\ \E m \in Toggles("protocol") :
       (m \in TurnsOn) = ~modal.about.flag /\ Send(Request(m, modal.about))
  /\ Close
  /\ KeyRest

GoTo(v, i) ==
  /\ modal.kind = "palette" \/ (modal.kind = "menu" /\ modal.about.sort = "protocol")
  /\ i = 1 \/ modal.kind = "menu"
  /\ tab' = v
  /\ selected' = i
  /\ Close
  /\ Quiet /\ UNCHANGED <<serverVars, list, strip, lost>>

(* handle_fs_status_key; what the panel shows of the reconcile switch is    *)
(* the concern of module TuiView, so either may be sent.                    *)
PanelFire ==
  /\ modal.kind = "fs_status"
  /\ \/ \E m \in PanelFires : Send(Request(m, modal.about))
     \/ \E on \in BOOLEAN :
          Send([Request("fs.reconcile.set", modal.about) EXCEPT !.switch = on])
  /\ UNCHANGED modal /\ KeyRest

-----------------------------------------------------------------------------
Incoming == TokenCreated \/ (\E v \in View : Refreshed(v)) \/ (\E i \in 1..2 : StripArrives(i))

ViewKey ==
  \/ (\E i \in 1..2 : Move(i)) \/ (\E v \in View : SwitchTo(v))
  \/ Browse \/ OpenNew \/ OpenEdit \/ OpenGroupMember \/ OpenDelete \/ OpenDestroy \/ OpenWipe
  \/ OpenOther \/ Toggle \/ Fire

ModalKey ==
  \/ Dismiss \/ TouchSwitch \/ Submit \/ (\E n \in Name : TypeInput(n)) \/ Confirmed
  \/ DetailRemove \/ DetailAdd \/ DetailFire \/ MenuDevice \/ MenuProtocol \/ PanelFire
  \/ (\E v \in View, i \in 1..2 : GoTo(v, i))

Next == OtherChanges \/ Serve \/ Incoming \/ ViewKey \/ ModalKey

Spec == Init /\ [][Next]_vars

-----------------------------------------------------------------------------
TypeOK ==
  /\ tab \in View /\ selected \in 1..2
  /\ modal.kind \in {"none", "form", "confirm", "reveal", "detail", "menu", "fs_status", "logs",
                     "palette"}
  /\ modal.kind = "form" => modal.form \in FormKinds
  /\ sends \in 0..Sends /\ Len(sent) + minted <= sends

(* A filesystem is destroyed or a device wiped only from a modal that named *)
(* it, after its own name was typed there, and a device only if it was      *)
(* listed as free when the modal opened - whatever the lists show by then.  *)
NothingUntyped ==
  [][\A i \in DOMAIN sent' \ DOMAIN sent :
       sent'[i].method \in Destructive =>
         /\ modal.kind = "confirm" /\ modal.about = sent'[i].about
         /\ modal.input = sent'[i].about.name
         /\ sent'[i].method = "device.wipe" => ~sent'[i].about.flag]_vars

(* Adding or removing one client or user sends the whole list: the share    *)
(* changes by that one member if nobody changed it since the list behind    *)
(* the modal, whoever else edits it, this client in an earlier modal        *)
(* included.                                                                *)
OneMemberAtATime ==
  [][\A v \in View : \A i \in DOMAIN rows[v] :
       /\ Len(sent') < Len(sent) /\ Served.members # Null
       /\ rows[v][i].name = Served.about.name /\ rows[v][i].rev = Served.about.rev
       => {m \in Member : (m \in rows[v][i].members) # (m \in rows'[v][i].members)}
            \subseteq Served.asked]_vars

(* A secret that is shown once leaves the screen by a key, or for the       *)
(* secret of a token that was asked for while the first was under way.      *)
SecretStays == lost => overlapped

(* Editing a filesystem's options leaves an untouched reconcile switch as   *)
(* it is, if the form was opened on the filesystem's own status and nobody  *)
(* changed it since that was reported.  (The form may as well show the      *)
(* default, where no status came yet, or the status of another filesystem,  *)
(* where a late reply was filed under this one: it then sends that.)        *)
SwitchKept ==
  [][\A v \in View : \A i \in DOMAIN rows[v] :
       /\ Len(sent') < Len(sent) /\ Served.method = "fs.options.update"
       /\ rows[v][i].name = Served.about.name /\ rows[v][i].rev = Served.basis
       => rows'[v][i].switch = rows[v][i].switch]_vars

(* What the device menu opens is about the device in its title, unless a    *)
(* list was replaced while the menu was open: the items act on the          *)
(* selection, which nothing else moves meanwhile.                           *)
MenuKeepsObject ==
  [][modal.kind = "menu" /\ modal.about.sort = "device" /\ modal'.kind \in {"form", "confirm"}
       => modal'.about.name = modal.about.name \/ ~modal.fresh]_vars
=============================================================================
