--------------------------- MODULE TuiModalProofs ---------------------------
(* The proofs about module TuiModal.  One invariant carries all of them: a  *)
(* row that was copied - into a list, the strip, a modal, a request - is    *)
(* not ahead of the server's row of that name, and is that row if nothing   *)
(* changed it since.  A key touches the client only, and adds at most one   *)
(* request; what a key may open and send is one lemma per key (KeyEffect).  *)
EXTENDS TuiModal, SequenceTheorems, TLAPS

-----------------------------------------------------------------------------
(* What every request under way, and every modal, is known to hold.         *)
(* A row that was seen once is not ahead of the row it was copied from, and *)
(* is that row if nothing has changed it since.                             *)
Copy(h) ==
  \A v \in View : \A i \in DOMAIN rows[v] :
    rows[v][i].name = h.name =>
      h.rev <= rows[v][i].rev /\ (h.rev = rows[v][i].rev => h = rows[v][i])

(* The same of a reconcile switch that was read at a revision.              *)
Shown(n, basis, switch) ==
  \A v \in View : \A i \in DOMAIN rows[v] :
    rows[v][i].name = n =>
      basis <= rows[v][i].rev /\ (basis = rows[v][i].rev => switch = rows[v][i].switch)

(* The methods the keys send: those of the tables, and the two that destroy. *)
KeyMethods(s) ==
  Toggles(s) \cup Fires(s) \cup PartRemoves(s) \cup Deletes(s) \cup {MemberUpdate(s)}
OtherMethods ==
  PanelFires \cup DetailFires
    \cup {"fs.reconcile.set", "fs.device.evacuate", "share.smb.update"}
Harmless ==
  (UNION {KeyMethods(s) : s \in Sorts}) \cup {Builds(k) : k \in FormKinds} \cup OtherMethods
Methods == Harmless \cup Destructive

Requests ==
  [method : Methods, about : RowSet \cup {Null}, members : (SUBSET Member) \cup {Null},
   asked : SUBSET Member, switch : BOOLEAN \cup {Null}, basis : Nat \cup {Null}]

RequestOK(r) ==
  /\ r \in Requests
  /\ r.about # Null => Copy(r.about)
  /\ r.members # Null =>
       /\ r.about # Null
       /\ \A m \in Member : (m \in r.members) # (m \in r.about.members) => m \in r.asked
  /\ r.basis # Null =>
       /\ r.about # Null /\ r.members = Null /\ r.switch # Null
       /\ Shown(r.about.name, r.basis, r.switch)

FormModals ==
  [kind : {"form"}, form : FormKinds, about : RowSet \cup {Null}, switch : BOOLEAN \cup {Null},
   basis : Nat \cup {Null}]
ConfirmModals ==
  [kind : {"confirm"}, method : Methods, about : RowSet, input : Name \cup {"nothing"},
   typed : BOOLEAN]
MenuModals == [kind : {"menu"}, about : RowSet, fresh : BOOLEAN]
RowModals == [kind : {"detail", "fs_status"}, about : RowSet]
PlainModals == [kind : {"reveal", "logs", "palette"}, about : {Null}]
Modals ==
  FormModals \cup ConfirmModals \cup MenuModals \cup RowModals \cup PlainModals \cup {None}

FormOK(m) ==
  /\ m \in FormModals
  /\ m.form \in {"edit_fs"} \cup DOMAIN MemberBuilds => m.about # Null
  /\ m.form = "edit_fs" => m.switch # Null
  /\ m.basis # Null => m.form = "edit_fs" /\ Shown(m.about.name, m.basis, m.switch)

ConfirmOK(m) ==
  /\ m \in ConfirmModals
  /\ m.typed = (m.method \in Destructive)
  /\ m.method = "device.wipe" => ~m.about.flag

ModalOK(m) ==
  /\ m \in Modals
  /\ m.kind \notin {"none", "reveal", "logs", "palette"} /\ m.about # Null => Copy(m.about)
  /\ m.kind = "form" => FormOK(m)
  /\ m.kind = "confirm" => ConfirmOK(m)
  /\ m.kind = "detail" => m.about.sort \in {"filesystem"} \cup ShareSorts

RowsOK ==
  /\ rows \in [View -> Seq(RowSet)]
  /\ \A v, w \in View : \A i \in DOMAIN rows[v], j \in DOMAIN rows[w] :
       rows[v][i].name = rows[w][j].name => v = w /\ i = j

Counters ==
  /\ changes \in 0..Changes /\ sends \in 0..Sends /\ minted \in Nat
  /\ Len(sent) + minted <= sends
  /\ \A v \in View : \A i \in DOMAIN rows[v] : rows[v][i].rev + Len(sent) <= changes + sends

ListsOK ==
  /\ list \in [View -> Seq(RowSet)]
  /\ \A v \in View : \A i \in DOMAIN list[v] : Copy(list[v][i])

StripOK ==
  /\ strip \in [Name -> RowSet \cup {Null}]
  /\ \A n \in Name : strip[n] # Null => Copy(strip[n])

SentOK ==
  /\ sent \in Seq(Requests)
  /\ \A i \in DOMAIN sent : RequestOK(sent[i])

MenuOK == modal.kind = "menu" /\ modal.fresh => Selection = modal.about

Creates == {i \in DOMAIN sent : sent[i].method = "auth.token.create"}

SecretOK ==
  /\ lost => overlapped
  /\ ~overlapped =>
       /\ \A i, j \in Creates : i = j
       /\ minted > 0 => minted = 1 /\ Creates = {}
       /\ modal.kind = "reveal" => minted = 0 /\ Creates = {}

ModalInv ==
  /\ RowsOK /\ Counters /\ ListsOK /\ StripOK /\ SentOK
  /\ tab \in View /\ selected \in 1..2
  /\ ModalOK(modal) /\ MenuOK /\ SecretOK

-----------------------------------------------------------------------------
(* What one key does: at most one request, which is allowed, and a modal    *)
(* that is one of the known ones.                                           *)
Allowed(r) ==
  r.method \in Destructive =>
    /\ modal.kind = "confirm" /\ modal.about = r.about
    /\ modal.input = r.about.name
    /\ r.method = "device.wipe" => ~r.about.flag

Sends1 ==
  /\ modal.kind # "reveal"
  /\ \E r \in Requests : RequestOK(r) /\ Allowed(r) /\ Send(r)

MenuEffect ==
  /\ modal'.kind = "menu" =>
       /\ tab' = tab /\ selected' = selected
       /\ modal' = modal \/ modal'.about = Selection
  /\ modal.kind = "menu" /\ modal'.kind \in {"form", "confirm"} => modal'.about = Selection

KeyEffect ==
  /\ UNCHANGED <<rows, changes, minted, list, strip, lost>>
  /\ tab' \in View /\ selected' \in 1..2
  /\ ModalOK(modal')
  /\ modal'.kind = "reveal" => modal' = modal
  /\ MenuEffect
  /\ Quiet \/ Sends1

(* What a key may rely on.                                                  *)
KeyState == ListsOK /\ StripOK /\ tab \in View /\ selected \in 1..2 /\ ModalOK(modal)

-----------------------------------------------------------------------------
(* The tables.                                                              *)
TableForms ==
  {"create_user", "reset_password", "create_smb_user", "set_smb_password", "create_group",
   "group_member", "create_share", "create_fs", "edit_fs", "create_subvolume",
   "create_snapshot", "clone_snapshot", "create_alert_rule", "add_ssh_key", "mkdir",
   "rename_file", "create_token", "edit_field", "fs_device_add", "iscsi_add_lun",
   "iscsi_add_portal", "iscsi_add_acl", "nvmeof_add_namespace", "nvmeof_add_port",
   "nvmeof_add_host", "nfs_add_client", "smb_add_user", "subvol_clone", "subvol_update",
   "subvol_resize", "disk_type"}

LEMMA FormKindsListed == FormKinds = TableForms
<1> DEFINE T == DOMAIN AccountBuilds \cup DOMAIN StorageBuilds \cup DOMAIN FsBuilds
                  \cup DOMAIN SystemBuilds \cup DOMAIN PartBuilds \cup DOMAIN MemberBuilds
                  \cup DOMAIN VolumeBuilds
<1>1. FormKinds = T
  BY DEF FormKinds, Builders
<1>2. T = TableForms
  BY DEF AccountBuilds, StorageBuilds, FsBuilds, SystemBuilds, PartBuilds, MemberBuilds,
         VolumeBuilds, TableForms
<1> QED BY <1>1, <1>2

LEMMA MemberForms == DOMAIN MemberBuilds = {"nfs_add_client", "smb_add_user"}
BY DEF MemberBuilds

LEMMA BuildsHarmless == \A k \in FormKinds : Builds(k) \notin Destructive
<1>1. \A t \in Builders : \A k \in DOMAIN t : t[k] \notin Destructive
  <2>1. \A k \in DOMAIN AccountBuilds : AccountBuilds[k] \notin Destructive
    BY DEF AccountBuilds, Destructive
  <2>2. \A k \in DOMAIN StorageBuilds : StorageBuilds[k] \notin Destructive
    BY DEF StorageBuilds, Destructive
  <2>3. \A k \in DOMAIN FsBuilds : FsBuilds[k] \notin Destructive
    BY DEF FsBuilds, Destructive
  <2>4. \A k \in DOMAIN SystemBuilds : SystemBuilds[k] \notin Destructive
    BY DEF SystemBuilds, Destructive
  <2>5. \A k \in DOMAIN PartBuilds : PartBuilds[k] \notin Destructive
    BY DEF PartBuilds, Destructive
  <2>6. \A k \in DOMAIN MemberBuilds : MemberBuilds[k] \notin Destructive
    BY DEF MemberBuilds, Destructive
  <2>7. \A k \in DOMAIN VolumeBuilds : VolumeBuilds[k] \notin Destructive
    BY DEF VolumeBuilds, Destructive
  <2> QED BY <2>1, <2>2, <2>3, <2>4, <2>5, <2>6, <2>7 DEF Builders
<1>2. \A k \in FormKinds : \E t \in Builders : k \in DOMAIN t
  BY DEF FormKinds
<1> QED BY <1>1, <1>2 DEF Builds

LEMMA HarmlessApart == \A m \in Harmless : m \notin Destructive
<1>1. ASSUME NEW s PROVE \A m \in KeyMethods(s) : m \notin Destructive
  <2>1. \A m \in Toggles(s) : m \notin Destructive
    BY DEF Destructive, Toggles, MountToggle, ShareToggle, RuleToggle, ProtocolToggle
  <2>2. \A m \in Fires(s) : m \notin Destructive
    BY DEF Destructive, Fires
  <2>3. \A m \in PartRemoves(s) : m \notin Destructive
    BY DEF Destructive, PartRemoves, FsRemoves
  <2>4. \A m \in Deletes(s) : m \notin Destructive
    BY DEF Destructive, Deletes, UserDeletes, UserSorts, ShareSorts
  <2>5. MemberUpdate(s) \notin Destructive
    BY DEF Destructive, MemberUpdate
  <2> QED BY <2>1, <2>2, <2>3, <2>4, <2>5 DEF KeyMethods
<1>2. \A m \in OtherMethods : m \notin Destructive
  BY DEF Destructive, OtherMethods, PanelFires, DetailFires
<1> SUFFICES ASSUME NEW m \in Harmless
             PROVE  m \notin Destructive
  OBVIOUS
<1>3. CASE \E s \in Sorts : m \in KeyMethods(s)
  BY <1>1, <1>3
<1>4. CASE \E k \in FormKinds : m = Builds(k)
  BY <1>4, BuildsHarmless
<1>5. CASE m \in OtherMethods
  BY <1>2, <1>5
<1> QED BY <1>3, <1>4, <1>5 DEF Harmless

(* Which forms are about a row.                                             *)
RowForms == {"edit_fs"} \cup DOMAIN MemberBuilds

LEMMA FormTable ==
  /\ \A s : FormsAbout(s) \subseteq FormKinds
  /\ \A v, s : FormsNew(v, s) \subseteq FormKinds \ RowForms
  /\ \A s \in {"filesystem"} \cup ShareSorts : DetailForms(s) \subseteq FormKinds \ {"edit_fs"}
  /\ {"group_member", "disk_type"} \subseteq FormKinds \ RowForms
<1>1. ASSUME NEW s PROVE FormsAbout(s) \subseteq TableForms
  BY DEF FormsAbout, SubvolumeForms, PasswordForms, UserSorts, TableForms
<1>2. ASSUME NEW v, NEW s PROVE FormsNew(v, s) \subseteq TableForms \ RowForms
  BY MemberForms DEF FormsNew, NewUserForms, TableForms, RowForms
<1>3. ASSUME NEW s \in {"filesystem"} \cup ShareSorts
      PROVE  DetailForms(s) \subseteq TableForms \ {"edit_fs"}
  BY DEF DetailForms, ShareSorts, TableForms
<1>4. {"group_member", "disk_type"} \subseteq TableForms \ RowForms
  BY MemberForms DEF TableForms, RowForms
<1> QED BY <1>1, <1>2, <1>3, <1>4, FormKindsListed

(* Without a selection there is nothing a key could be about.               *)
LEMMA NothingSelected ==
  /\ FormsAbout("none") = {} /\ Deletes("none") = {} /\ Toggles("none") = {}
  /\ Fires("none") = {} /\ "none" \notin {"device", "filesystem", "protocol"} \cup ShareSorts
BY DEF FormsAbout, PasswordForms, UserSorts, Deletes, ShareSorts, Toggles, Fires

-----------------------------------------------------------------------------
(* Rows.                                                                    *)
LEMMA WithoutIs ==
  ASSUME NEW S, NEW s \in Seq(S), NEW i \in DOMAIN s
  PROVE  /\ Without(s, i) \in Seq(S)
         /\ Len(Without(s, i)) = Len(s) - 1
         /\ \A j \in 1..Len(s) - 1 : Without(s, i)[j] = IF j < i THEN s[j] ELSE s[j + 1]
<1> DEFINE a == SubSeq(s, 1, i - 1)
           b == SubSeq(s, i + 1, Len(s))
<1>1. Len(s) \in Nat /\ i \in 1..Len(s) /\ \A j \in 1..Len(s) : s[j] \in S
  BY LenProperties
<1>2. /\ a \in Seq(S) /\ Len(a) = i - 1
      /\ \A j \in 1..i - 1 : a[j] = s[j]
  BY <1>1, SubSeqProperties
<1>3. /\ b \in Seq(S) /\ Len(b) = Len(s) - i
      /\ \A j \in 1..Len(s) - i : b[j] = s[i + j]
  <2>1. \A j \in i + 1..Len(s) : s[j] \in S
    BY <1>1
  <2>2. i + 1 \in Int /\ Len(s) \in Int
    BY <1>1
  <2>3. /\ b \in Seq(S)
        /\ Len(b) = IF i + 1 <= Len(s) THEN Len(s) - (i + 1) + 1 ELSE 0
        /\ \A j \in 1..Len(s) - (i + 1) + 1 : b[j] = s[(i + 1) + j - 1]
    BY <2>1, <2>2, SubSeqProperties
  <2> HIDE DEF b
  <2>4. Len(b) = Len(s) - i
    BY <1>1, <2>3
  <2>5. ASSUME NEW j \in 1..Len(s) - i PROVE b[j] = s[i + j]
    <3>1. j \in 1..Len(s) - (i + 1) + 1 /\ (i + 1) + j - 1 = i + j
      BY <1>1
    <3> QED BY <2>3, <3>1
  <2> QED BY <2>3, <2>4, <2>5
<1>4. /\ a \o b \in Seq(S) /\ Len(a \o b) = Len(a) + Len(b)
      /\ \A j \in 1..Len(a) + Len(b) :
           (a \o b)[j] = IF j <= Len(a) THEN a[j] ELSE b[j - Len(a)]
  BY <1>2, <1>3, ConcatProperties
<1>5. Len(a) + Len(b) = Len(s) - 1
  <2>1. Len(s) \in Nat /\ i \in Nat /\ Len(a) = i - 1 /\ Len(b) = Len(s) - i
    BY <1>1, <1>2, <1>3
  <2> HIDE DEF a, b
  <2> QED BY <2>1
<1>6. ASSUME NEW j \in 1..Len(s) - 1
      PROVE  (a \o b)[j] = IF j < i THEN s[j] ELSE s[j + 1]
  <2>1. CASE j < i
    BY <1>1, <1>2, <1>4, <1>5, <2>1
  <2>2. CASE ~(j < i)
    <3>1. j - Len(a) \in 1..Len(s) - i /\ i + (j - Len(a)) = j + 1 /\ ~(j <= Len(a))
      <4>1. Len(a) = i - 1
        BY <1>2
      <4>2. Len(s) \in Nat /\ i \in 1..Len(s) /\ j \in 1..Len(s) - 1 /\ ~(j < i)
        BY <1>1, <2>2
      <4> HIDE DEF a
      <4> QED BY <4>1, <4>2
    <3>2. (a \o b)[j] = b[j - Len(a)]
      BY <1>4, <1>5, <3>1
    <3>3. b[j - Len(a)] = s[i + (j - Len(a))]
      BY <1>3, <3>1
    <3> QED BY <2>2, <3>1, <3>2, <3>3
  <2> QED BY <2>1, <2>2
<1> QED BY <1>4, <1>5, <1>6 DEF Without

LEMMA NullIsNoRow == Null \notin RowSet
BY TuiModalAssumption

LEMMA NullIsNoSwitch == \A b \in BOOLEAN : b # Null
BY Zenon, TuiModalAssumption

LEMMA NullIsNoRev == \A b \in Nat : b # Null
BY TuiModalAssumption

LEMMA SelectionIs ==
  ASSUME ListsOK, tab \in View
  PROVE  \/ Selection = Null /\ Sort = "none"
         \/ Selection \in RowSet /\ Copy(Selection) /\ Sort = Selection.sort /\ Sort \in Sorts
<1>1. CASE selected \in DOMAIN list[tab]
  <2>1. Selection = list[tab][selected]
    BY <1>1 DEF Selection
  <2>2. list[tab] \in Seq(RowSet)
    BY DEF ListsOK
  <2>3. list[tab][selected] \in RowSet
    BY <1>1, <2>2, LenProperties
  <2>4. Copy(Selection)
    BY <1>1, <2>1 DEF ListsOK
  <2> QED BY <2>1, <2>3, <2>4, NullIsNoRow DEF Sort, RowSet
<1>2. CASE selected \notin DOMAIN list[tab]
  BY <1>2 DEF Selection, Sort
<1> QED BY <1>1, <1>2

(* A step of the server: rows go, or are revised, and keep their names.     *)
RowsStep ==
  \A v \in View : \A j \in DOMAIN rows'[v] : \E i \in DOMAIN rows[v] :
    \/ rows'[v][j] = rows[v][i]
    \/ rows'[v][j].name = rows[v][i].name /\ rows'[v][j].rev = rows[v][i].rev + 1

LEMMA RowTypes ==
  ASSUME RowsOK, NEW v \in View
  PROVE  /\ rows[v] \in Seq(RowSet) /\ Len(rows[v]) \in Nat /\ DOMAIN rows[v] = 1..Len(rows[v])
         /\ \A i \in DOMAIN rows[v] :
              rows[v][i] \in RowSet /\ rows[v][i].rev \in Nat /\ rows[v][i].name \in Name
<1>1. rows[v] \in Seq(RowSet)
  BY DEF RowsOK
<1>2. \A i \in DOMAIN rows[v] : rows[v][i] \in RowSet
  BY <1>1, LenProperties
<1> QED BY <1>1, <1>2, LenProperties DEF RowSet

LEMMA RowsRewritten ==
  ASSUME RowsOK, NEW v \in View, NEW s \in Seq(RowSet), Len(s) = Len(rows[v]),
         rows' = [rows EXCEPT ![v] = s],
         \A i \in DOMAIN rows[v] :
           s[i].name = rows[v][i].name /\ (s[i] = rows[v][i] \/ s[i].rev = rows[v][i].rev + 1)
  PROVE  RowsOK' /\ RowsStep
<1>1. DOMAIN s = DOMAIN rows[v]
  BY RowTypes, LenProperties
<1>2. /\ rows' \in [View -> Seq(RowSet)] /\ rows'[v] = s
      /\ \A w \in View : w # v => rows'[w] = rows[w]
      /\ \A w \in View : DOMAIN rows'[w] = DOMAIN rows[w]
  BY <1>1 DEF RowsOK
<1>3. \A w \in View : \A i \in DOMAIN rows[w] : rows'[w][i].name = rows[w][i].name
  BY <1>2
<1>4. RowsOK'
  BY <1>2, <1>3 DEF RowsOK
<1>5. RowsStep
  BY <1>2, <1>3 DEF RowsStep
<1> QED BY <1>4, <1>5

LEMMA RowRemoved ==
  ASSUME RowsOK, NEW v \in View, NEW k \in DOMAIN rows[v],
         rows' = [rows EXCEPT ![v] = Without(@, k)]
  PROVE  RowsOK' /\ RowsStep
<1> DEFINE old(w, j) == IF w = v /\ j >= k THEN j + 1 ELSE j
<1>1. rows[v] \in Seq(RowSet) /\ rows \in [View -> Seq(RowSet)]
  BY DEF RowsOK
<1>2. /\ Without(rows[v], k) \in Seq(RowSet)
      /\ Len(Without(rows[v], k)) = Len(rows[v]) - 1
      /\ \A j \in 1..Len(rows[v]) - 1 :
           Without(rows[v], k)[j] = IF j < k THEN rows[v][j] ELSE rows[v][j + 1]
  BY <1>1, WithoutIs
<1>3. DOMAIN Without(rows[v], k) = 1..Len(rows[v]) - 1
  BY <1>2, LenProperties
<1>4. /\ rows' \in [View -> Seq(RowSet)] /\ rows'[v] = Without(rows[v], k)
      /\ \A w \in View : w # v => rows'[w] = rows[w]
  BY <1>1, <1>2
<1>5. ASSUME NEW w \in View, NEW j \in DOMAIN rows'[w]
      PROVE  /\ old(w, j) \in DOMAIN rows[w] /\ j \in Nat
             /\ rows'[w][j] = rows[w][old(w, j)]
  <2>1. CASE w = v
    <3>1. j \in 1..Len(rows[v]) - 1
      BY <1>3, <1>4, <1>5, <2>1
    <3>2. k \in 1..Len(rows[v]) /\ DOMAIN rows[v] = 1..Len(rows[v]) /\ Len(rows[v]) \in Nat
      BY RowTypes
    <3> QED BY <1>2, <1>4, <2>1, <3>1, <3>2
  <2>2. CASE w # v
    BY <1>4, <2>2, RowTypes
  <2> QED BY <2>1, <2>2
<1>6. ASSUME NEW w \in View, NEW x \in View, NEW i \in DOMAIN rows'[w], NEW j \in DOMAIN rows'[x],
             rows'[w][i].name = rows'[x][j].name
      PROVE  w = x /\ i = j
  <2>1. w = x /\ old(w, i) = old(x, j)
    BY <1>5, <1>6 DEF RowsOK
  <2>2. i \in Nat /\ j \in Nat
    BY <1>5, <1>6
  <2>3. k \in Nat
    BY RowTypes
  <2> QED BY <2>1, <2>2, <2>3
<1>7. RowsOK'
  BY <1>4, <1>6 DEF RowsOK
<1>8. RowsStep
  BY <1>5 DEF RowsStep
<1> QED BY <1>7, <1>8

LEMMA CopyKept ==
  ASSUME RowsOK, RowsStep, NEW h \in RowSet, Copy(h)
  PROVE  Copy(h)'
<1> SUFFICES ASSUME NEW v \in View, NEW j \in DOMAIN rows'[v], rows'[v][j].name = h.name
             PROVE  /\ h.rev <= rows'[v][j].rev
                    /\ h.rev = rows'[v][j].rev => h = rows'[v][j]
  BY DEF Copy
<1>1. PICK i \in DOMAIN rows[v] :
        \/ rows'[v][j] = rows[v][i]
        \/ rows'[v][j].name = rows[v][i].name /\ rows'[v][j].rev = rows[v][i].rev + 1
  BY DEF RowsStep
<1>2. /\ h.rev <= rows[v][i].rev
      /\ h.rev = rows[v][i].rev => h = rows[v][i]
  BY <1>1 DEF Copy
<1>3. h.rev \in Nat /\ rows[v][i].rev \in Nat
  BY RowTypes DEF RowSet
<1> QED BY <1>1, <1>2, <1>3

LEMMA ShownKept ==
  ASSUME RowsOK, RowsStep, NEW n, NEW b \in Nat, NEW s, Shown(n, b, s)
  PROVE  Shown(n, b, s)'
<1> SUFFICES ASSUME NEW v \in View, NEW j \in DOMAIN rows'[v], rows'[v][j].name = n
             PROVE  /\ b <= rows'[v][j].rev
                    /\ b = rows'[v][j].rev => s = rows'[v][j].switch
  BY DEF Shown
<1>1. PICK i \in DOMAIN rows[v] :
        \/ rows'[v][j] = rows[v][i]
        \/ rows'[v][j].name = rows[v][i].name /\ rows'[v][j].rev = rows[v][i].rev + 1
  BY DEF RowsStep
<1>2. /\ b <= rows[v][i].rev
      /\ b = rows[v][i].rev => s = rows[v][i].switch
  BY <1>1 DEF Shown
<1>3. rows[v][i].rev \in Nat
  BY RowTypes
<1> QED BY <1>1, <1>2, <1>3

-----------------------------------------------------------------------------
(* What a key opens or sends.                                               *)
RowOrNull(r) == r = Null \/ (r \in RowSet /\ Copy(r))

LEMMA FormIsOK ==
  ASSUME StripOK, NEW k \in FormKinds, NEW r, RowOrNull(r), k \in RowForms => r # Null
  PROVE  /\ ModalOK(Form(k, r))
         /\ Form(k, r).kind = "form" /\ Form(k, r).about = r
<1> DEFINE f == Form(k, r)
<1>1. f = [kind |-> "form", form |-> k, about |-> r, switch |-> f.switch, basis |-> f.basis]
  BY DEF Form
<1>2. CASE k # "edit_fs"
  <2>1. f.switch = Null /\ f.basis = Null
    BY <1>2 DEF Form
  <2>2. f \in FormModals
    BY <2>1 DEF Form, FormModals, RowOrNull
  <2>3. FormOK(f)
    BY <1>2, <2>1, <2>2 DEF FormOK, RowForms, Form
  <2> QED BY <2>2, <2>3 DEF ModalOK, Modals, Form, RowOrNull
<1>3. CASE k = "edit_fs"
  <2>1. r \in RowSet /\ Copy(r) /\ r.name \in Name
    BY <1>3 DEF RowForms, RowOrNull, RowSet
  <2>2. /\ f.switch = SwitchShown(r.name)
        /\ f.basis = IF OwnStatus(r.name) THEN strip[r.name].rev ELSE Null
    BY <1>3 DEF Form
  <2>3. CASE strip[r.name] = Null
    <3>1. f.switch = TRUE /\ f.basis = Null
      BY <2>2, <2>3 DEF SwitchShown, OwnStatus
    <3>2. f.switch \in BOOLEAN /\ f.switch # Null
      BY <3>1, NullIsNoSwitch
    <3>3. f \in FormModals
      BY <1>1, <2>1, <3>1, <3>2 DEF FormModals
    <3>4. FormOK(f)
      BY <1>1, <1>3, <2>1, <3>1, <3>2, <3>3, NullIsNoRow DEF FormOK
    <3> QED BY <1>1, <2>1, <3>3, <3>4 DEF ModalOK, Modals
  <2>4. CASE strip[r.name] # Null
    <3>1. strip[r.name] \in RowSet /\ Copy(strip[r.name])
      BY <2>1, <2>4 DEF StripOK
    <3>2. strip[r.name].switch \in BOOLEAN /\ strip[r.name].rev \in Nat
      BY <3>1 DEF RowSet
    <3>3. f.switch = strip[r.name].switch /\ f.basis \in {strip[r.name].rev, Null}
      BY <2>2, <2>4, <3>2 DEF SwitchShown
    <3>4. f \in FormModals
      BY <1>1, <2>1, <3>2, <3>3 DEF FormModals
    <3>5. ASSUME f.basis # Null PROVE Shown(r.name, f.basis, f.switch)
      <4>1. strip[r.name].name = r.name /\ f.basis = strip[r.name].rev
        BY <2>2, <3>5 DEF OwnStatus
      <4> QED BY <3>1, <3>3, <4>1 DEF Shown, Copy
    <3>6. FormOK(f)
      <4>1. f.switch # Null /\ r # Null
        BY <2>1, <3>2, <3>3, NullIsNoSwitch, NullIsNoRow
      <4> QED BY <1>1, <1>3, <3>4, <3>5, <4>1 DEF FormOK
    <3> QED BY <1>1, <2>1, <3>4, <3>6 DEF ModalOK, Modals
  <2> QED BY <2>3, <2>4
<1> QED BY <1>1, <1>2, <1>3

LEMMA ConfirmIsOK ==
  ASSUME NEW m \in Methods, NEW r \in RowSet, Copy(r), m = "device.wipe" => ~r.flag
  PROVE  /\ ModalOK(Confirm(m, r))
         /\ Confirm(m, r).kind = "confirm" /\ Confirm(m, r).about = r
BY DEF Confirm, ModalOK, Modals, ConfirmOK, ConfirmModals

LEMMA PlainIsOK ==
  /\ ModalOK(None) /\ None.kind = "none"
  /\ \A k \in {"reveal", "logs", "palette"} :
       ModalOK(Modal(k, Null)) /\ Modal(k, Null).kind = k
BY DEF None, Modal, ModalOK, Modals, PlainModals

LEMMA RowModalIsOK ==
  ASSUME NEW r \in RowSet, Copy(r)
  PROVE  /\ ModalOK(Menu(r)) /\ Menu(r).kind = "menu" /\ Menu(r).about = r
         /\ ModalOK(Modal("fs_status", r)) /\ Modal("fs_status", r).kind = "fs_status"
         /\ r.sort \in {"filesystem"} \cup ShareSorts => ModalOK(Modal("detail", r))
         /\ Modal("detail", r).kind = "detail"
BY DEF Menu, Modal, ModalOK, Modals, MenuModals, RowModals

LEMMA RequestIsOK ==
  ASSUME NEW m \in Methods, NEW r, RowOrNull(r)
  PROVE  /\ Request(m, r) \in Requests /\ RequestOK(Request(m, r))
         /\ Request(m, r).method = m /\ Request(m, r).about = r
BY DEF Request, Requests, RequestOK, RowOrNull

LEMMA SendIsOne ==
  ASSUME NEW m \in Harmless, NEW r, RowOrNull(r), modal.kind # "reveal", Send(Request(m, r))
  PROVE  Sends1
BY RequestIsOK, HarmlessApart DEF Methods, Sends1, Allowed

LEMMA AboutIsRow ==
  ASSUME ModalOK(modal)
  PROVE  /\ modal.kind \in {"confirm", "menu", "detail", "fs_status"} =>
              modal.about \in RowSet /\ Copy(modal.about)
         /\ modal.kind \in {"confirm", "menu", "detail", "fs_status", "form"} =>
              RowOrNull(modal.about)
<1>1. /\ modal.kind = "form" => modal.about \in RowSet \cup {Null}
      /\ modal.kind \in {"confirm", "menu", "detail", "fs_status"} => modal.about \in RowSet
  BY DEF ModalOK, Modals, FormModals, ConfirmModals, MenuModals, RowModals, PlainModals, None
<1>2. modal.kind \in {"confirm", "menu", "detail", "fs_status", "form"} /\ modal.about # Null =>
        Copy(modal.about)
  BY DEF ModalOK
<1> QED BY <1>1, <1>2, NullIsNoRow DEF RowOrNull

LEMMA Opens ==
  ASSUME KeyState, KeyRest, Quiet, ModalOK(modal'), modal'.kind # "reveal",
         modal'.kind = "menu" => modal'.about = Selection,
         modal.kind = "menu" /\ modal'.kind \in {"form", "confirm"} => modal'.about = Selection
  PROVE  KeyEffect
BY DEF KeyState, KeyRest, KeyEffect, MenuEffect, serverVars

LEMMA SendsRequest ==
  ASSUME KeyState, KeyRest, Sends1, modal' = modal \/ modal' = None
  PROVE  KeyEffect
<1>1. None.kind = "none" /\ ModalOK(None)
  BY PlainIsOK
<1> QED BY <1>1 DEF KeyState, KeyRest, KeyEffect, MenuEffect, serverVars

(* With a row selected, what is selected is a row of the server, or was.    *)
LEMMA SelectionCases ==
  ASSUME KeyState
  PROVE  /\ RowOrNull(Selection)
         /\ Selection # Null => Sort \in Sorts /\ Sort = Selection.sort
         /\ Selection = Null => Sort = "none"
         /\ Sort # "none" => Selection # Null
BY SelectionIs, NullIsNoRow DEF KeyState, RowOrNull

LEMMA MoveEffect ==
  ASSUME KeyState, \/ \E i \in 1..2 : Move(i)
                   \/ \E v \in View : SwitchTo(v)
                   \/ Browse
  PROVE  KeyEffect
BY DEF Move, SwitchTo, Browse, MouseFree, Free, KeyState, KeyEffect, MenuEffect, Quiet, serverVars

LEMMA OpenFormEffect ==
  ASSUME KeyState, OpenEdit \/ OpenNew \/ OpenGroupMember
  PROVE  KeyEffect
<1>1. StripOK
  BY DEF KeyState
<1>2. CASE OpenEdit
  <2>1. PICK k \in FormsAbout(Sort) : modal' = Form(k, Selection)
    BY <1>2 DEF OpenEdit
  <2>2. k \in FormKinds /\ Sort # "none"
    BY FormTable, NothingSelected, <2>1
  <2>3. RowOrNull(Selection) /\ Selection # Null
    BY <2>2, SelectionCases
  <2>4. ModalOK(Form(k, Selection)) /\ Form(k, Selection).kind = "form"
    BY <1>1, <2>2, <2>3, FormIsOK
  <2>5. KeyRest /\ Quiet /\ modal.kind = "none"
    BY <1>2 DEF OpenEdit, Free
  <2> QED BY <2>1, <2>4, <2>5, Opens
<1>3. CASE OpenNew
  <2>1. PICK k \in FormsNew(tab, Sort) : modal' = Form(k, Null)
    BY <1>3 DEF OpenNew
  <2>2. k \in FormKinds /\ k \notin RowForms
    BY FormTable, <2>1
  <2>3. ModalOK(Form(k, Null)) /\ Form(k, Null).kind = "form"
    BY <1>1, <2>2, FormIsOK DEF RowOrNull
  <2>4. KeyRest /\ Quiet /\ modal.kind # "menu"
    BY <1>3 DEF OpenNew, Free
  <2> QED BY <2>1, <2>3, <2>4, Opens
<1>4. CASE OpenGroupMember
  <2>1. ModalOK(Form("group_member", Null)) /\ Form("group_member", Null).kind = "form"
    BY <1>1, FormTable, FormIsOK DEF RowOrNull
  <2>2. KeyRest /\ Quiet /\ modal.kind = "none" /\ modal' = Form("group_member", Null)
    BY <1>4 DEF OpenGroupMember, Free
  <2> QED BY <2>1, <2>2, Opens
<1> QED BY <1>2, <1>3, <1>4

LEMMA KeyMethodsSent ==
  ASSUME NEW s \in Sorts, NEW m \in KeyMethods(s)
  PROVE  m \in Harmless
BY DEF Harmless

LEMMA OpenConfirmEffect ==
  ASSUME KeyState, OpenDelete \/ OpenDestroy \/ OpenWipe
  PROVE  KeyEffect
<1>1. CASE OpenDelete
  <2>1. PICK m \in Deletes(Sort) : modal' = Confirm(m, Selection)
    BY <1>1 DEF OpenDelete
  <2>2. Sort # "none"
    BY <2>1, NothingSelected
  <2>3. Selection \in RowSet /\ Copy(Selection) /\ Sort \in Sorts
    BY <2>2, SelectionCases DEF RowOrNull
  <2>4. m \in Harmless
    BY <2>1, <2>3, KeyMethodsSent DEF KeyMethods
  <2>5. m \in Methods /\ m # "device.wipe"
    BY <2>4, HarmlessApart DEF Methods, Destructive
  <2>6. ModalOK(Confirm(m, Selection)) /\ Confirm(m, Selection).kind = "confirm"
    BY <2>3, <2>5, ConfirmIsOK
  <2>7. KeyRest /\ Quiet /\ modal.kind = "none"
    BY <1>1 DEF OpenDelete, Free
  <2> QED BY <2>1, <2>6, <2>7, Opens
<1>2. CASE OpenDestroy
  <2>1. modal' = Confirm("fs.destroy", Selection) /\ Sort = "filesystem"
    BY <1>2 DEF OpenDestroy
  <2>2. Selection \in RowSet /\ Copy(Selection)
    BY <2>1, SelectionCases DEF RowOrNull
  <2>3. "fs.destroy" \in Methods
    BY DEF Methods, Destructive
  <2>4. ModalOK(modal') /\ modal'.kind = "confirm"
    BY <2>1, <2>2, <2>3, ConfirmIsOK
  <2>5. KeyRest /\ Quiet /\ modal.kind = "none"
    BY <1>2 DEF OpenDestroy, Free
  <2> QED BY <2>4, <2>5, Opens
<1>3. CASE OpenWipe
  <2>1. modal' = Confirm("device.wipe", Selection) /\ Sort = "device" /\ ~Selection.flag
    BY <1>3 DEF OpenWipe, WipeConfirm
  <2>2. Selection \in RowSet /\ Copy(Selection)
    BY <2>1, SelectionCases DEF RowOrNull
  <2>3. "device.wipe" \in Methods
    BY DEF Methods, Destructive
  <2>4. ModalOK(modal') /\ modal'.kind = "confirm"
    BY <2>1, <2>2, <2>3, ConfirmIsOK
  <2>5. KeyRest /\ Quiet /\ modal.kind = "none"
    BY <1>3 DEF OpenWipe, Free
  <2> QED BY <2>4, <2>5, Opens
<1> QED BY <1>1, <1>2, <1>3

LEMMA FireEffect ==
  ASSUME KeyState, Toggle \/ Fire
  PROVE  KeyEffect
<1>1. PICK m \in Toggles(Sort) \cup Fires(Sort) : Send(Request(m, Selection))
  BY DEF Toggle, Fire
<1>2. Sort # "none"
  BY <1>1, NothingSelected
<1>3. RowOrNull(Selection) /\ Sort \in Sorts
  BY <1>2, SelectionCases
<1>4. m \in Harmless
  BY <1>1, <1>3, KeyMethodsSent DEF KeyMethods
<1>5. modal.kind = "none" /\ modal' = modal /\ KeyRest
  BY DEF Toggle, Fire, Free
<1>6. Sends1
  BY <1>1, <1>3, <1>4, <1>5, SendIsOne
<1> QED BY <1>5, <1>6, SendsRequest

LEMMA OpenOtherEffect ==
  ASSUME KeyState, OpenOther
  PROVE  KeyEffect
<1>1. modal.kind = "none" /\ Quiet /\ KeyRest
  BY DEF OpenOther, Free
<1>2. CASE OpenLogs \/ OpenPalette
  <2>1. ModalOK(modal') /\ modal'.kind \in {"logs", "palette"}
    BY <1>2, PlainIsOK DEF OpenLogs, OpenPalette
  <2> QED BY <1>1, <2>1, Opens
<1>3. CASE OpenFsDevices \/ OpenShareDetail \/ OpenDeviceMenu \/ OpenProtocolMenu \/ OpenFsStatus
  <2>1. Sort \in {"device", "filesystem", "protocol"} \cup ShareSorts
    BY <1>3 DEF OpenFsDevices, OpenShareDetail, OpenDeviceMenu, OpenProtocolMenu, OpenFsStatus
  <2>2. Selection \in RowSet /\ Copy(Selection) /\ Sort = Selection.sort
    BY <2>1, NothingSelected, SelectionCases DEF RowOrNull
  <2>3. /\ ModalOK(modal') /\ modal'.kind \in {"menu", "detail", "fs_status"}
        /\ modal'.kind = "menu" => modal'.about = Selection
    BY <1>3, <2>2, RowModalIsOK
       DEF OpenFsDevices, OpenShareDetail, OpenDeviceMenu, OpenProtocolMenu, OpenFsStatus
  <2> QED BY <1>1, <2>3, Opens
<1> QED BY <1>2, <1>3 DEF OpenOther

LEMMA HarmlessIsOne ==
  ASSUME NEW r, RequestOK(r), r.method \in Harmless, modal.kind # "reveal", Send(r)
  PROVE  Sends1
BY HarmlessApart DEF Sends1, Allowed, RequestOK

LEMMA SwitchRequest ==
  ASSUME NEW m \in Methods, NEW r \in RowSet, Copy(r), NEW s \in BOOLEAN,
         NEW b \in Nat \cup {Null}, b # Null => Shown(r.name, b, s),
         NEW q \in Requests, q.method = m, q.about = r, q.members = Null, q.switch = s, q.basis = b
  PROVE  RequestOK(q)
BY NullIsNoSwitch, NullIsNoRow DEF RequestOK

LEMMA MembersRequest ==
  ASSUME NEW k \in Methods, NEW r \in RowSet, Copy(r), NEW a \in SUBSET Member,
         NEW x \in Member, \A m \in Member : (m \in a) # (m \in r.members) => m = x,
         NEW q \in Requests, q.method = k, q.about = r, q.members = a, q.asked = {x}, q.basis = Null
  PROVE  RequestOK(q)
BY NullIsNoRow DEF RequestOK

LEMMA FormIs ==
  ASSUME KeyState, modal.kind = "form"
  PROVE  /\ FormOK(modal) /\ modal.form \in FormKinds /\ RowOrNull(modal.about)
         /\ modal = [kind |-> "form", form |-> modal.form, about |-> modal.about,
                     switch |-> modal.switch, basis |-> modal.basis]
         /\ modal.switch \in BOOLEAN \cup {Null} /\ modal.basis \in Nat \cup {Null}
<1>1. FormOK(modal) /\ RowOrNull(modal.about)
  BY AboutIsRow DEF KeyState, ModalOK
<1>2. modal \in FormModals
  BY <1>1 DEF FormOK
<1> QED BY <1>1, <1>2 DEF FormModals

LEMMA TouchSwitchEffect ==
  ASSUME KeyState, TouchSwitch
  PROVE  KeyEffect
<1>1. modal.kind = "form" /\ modal.form = "edit_fs" /\ Quiet /\ KeyRest
  BY DEF TouchSwitch
<1>2. modal.switch # Null /\ modal.about # Null
  BY <1>1, FormIs DEF FormOK
<1>3. modal.switch \in BOOLEAN /\ modal.about \in RowSet /\ Copy(modal.about)
  BY <1>1, <1>2, FormIs DEF RowOrNull
<1>4. modal' = [kind |-> "form", form |-> "edit_fs", about |-> modal.about,
                switch |-> ~modal.switch, basis |-> Null]
  BY <1>1, FormIs DEF TouchSwitch
<1>5. modal'.switch = ~modal.switch /\ modal'.switch \in BOOLEAN
  <2>1. modal'.switch = ~modal.switch
    BY <1>4
  <2> QED BY <1>3, <2>1
<1>6. modal'.switch # Null
  BY <1>5, NullIsNoSwitch
<1>7. modal' \in FormModals
  <2>1. "edit_fs" \in FormKinds
    BY <1>1, FormIs
  <2> QED BY <1>3, <1>4, <1>5, <2>1 DEF FormModals
<1>8. FormOK(modal')
  BY <1>2, <1>4, <1>6, <1>7 DEF FormOK
<1>9. ModalOK(modal')
  BY <1>3, <1>4, <1>7, <1>8 DEF ModalOK, Modals
<1> QED BY <1>1, <1>4, <1>9, Opens

LEMMA SubmitEffect ==
  ASSUME KeyState, Submit
  PROVE  KeyEffect
<1>1. PICK r \in Built(modal) : Send(r)
  BY DEF Submit
<1>2. modal.kind = "form" /\ modal' = None /\ KeyRest
  BY DEF Submit, Close
<1>3. FormOK(modal) /\ modal.form \in FormKinds /\ RowOrNull(modal.about)
  BY <1>2, FormIs
<1>4. Builds(modal.form) \in Harmless /\ Builds(modal.form) \in Methods
  BY <1>3 DEF Harmless, Methods
<1>5. RequestOK(r) /\ r.method \in Harmless
  <2>1. CASE modal.form = "edit_fs"
    <3>1. modal.switch # Null /\ modal.about # Null
      BY <1>3, <2>1 DEF FormOK
    <3>2. /\ modal.switch \in BOOLEAN /\ modal.basis \in Nat \cup {Null}
          /\ modal.about \in RowSet /\ Copy(modal.about)
      BY <1>2, <1>3, <3>1, FormIs DEF RowOrNull
    <3>3. modal.basis # Null => Shown(modal.about.name, modal.basis, modal.switch)
      BY <1>3 DEF FormOK
    <3>4. /\ r \in Requests /\ r.method = Builds(modal.form) /\ r.about = modal.about
          /\ r.members = Null /\ r.switch = modal.switch /\ r.basis = modal.basis
      <4>1. modal.form \notin DOMAIN MemberBuilds
        BY <2>1, MemberForms
      <4>2. r = [Request(Builds(modal.form), modal.about) EXCEPT !.switch = modal.switch,
                                                                !.basis = modal.basis]
        BY <1>1, <2>1, <4>1 DEF Built
      <4> QED BY <1>4, <3>2, <4>2 DEF Request, Requests
    <3> QED BY <1>4, <3>2, <3>3, <3>4, SwitchRequest
  <2>2. CASE modal.form \in DOMAIN MemberBuilds
    <3>1. modal.about \in RowSet /\ Copy(modal.about)
      BY <1>3, <2>2 DEF FormOK, RowOrNull
    <3>2. modal.form # "edit_fs"
      BY <2>2, MemberForms
    <3>3. PICK m \in Member :
            r = [Request(Builds(modal.form), modal.about) EXCEPT
                   !.members = Added(modal.about, m), !.asked = {m}]
      BY <1>1, <2>2, <3>2 DEF Built
    <3>4. /\ Added(modal.about, m) \in SUBSET Member
          /\ \A x \in Member : (x \in Added(modal.about, m)) # (x \in modal.about.members) => x = m
      BY <3>1 DEF Added, RowSet
    <3>5. /\ r \in Requests /\ r.method = Builds(modal.form) /\ r.about = modal.about
          /\ r.members = Added(modal.about, m) /\ r.asked = {m} /\ r.basis = Null
      BY <1>4, <3>1, <3>3, <3>4 DEF Request, Requests
    <3> QED BY <1>4, <3>1, <3>4, <3>5, MembersRequest
  <2>3. CASE modal.form \notin RowForms
    <3>1. r = Request(Builds(modal.form), modal.about)
      BY <1>1, <2>3 DEF Built, RowForms
    <3> QED BY <1>3, <1>4, <3>1, RequestIsOK
  <2> QED BY <2>1, <2>2, <2>3 DEF RowForms
<1>6. Sends1
  BY <1>1, <1>2, <1>5, HarmlessIsOne
<1> QED BY <1>2, <1>6, SendsRequest

LEMMA ConfirmKeysEffect ==
  ASSUME KeyState, Confirmed \/ \E n \in Name : TypeInput(n)
  PROVE  KeyEffect
<1>1. modal.kind = "confirm" /\ KeyRest
  BY DEF Confirmed, TypeInput
<1>2. ConfirmOK(modal) /\ modal.about \in RowSet /\ Copy(modal.about)
  BY <1>1, AboutIsRow DEF KeyState, ModalOK
<1>3. /\ modal = [kind |-> "confirm", method |-> modal.method, about |-> modal.about,
                  input |-> modal.input, typed |-> modal.typed]
      /\ modal.method \in Methods /\ modal.typed \in BOOLEAN
      /\ modal.typed = (modal.method \in Destructive)
      /\ modal.method = "device.wipe" => ~modal.about.flag
  BY <1>2 DEF ConfirmOK, ConfirmModals
<1>4. CASE Confirmed
  <2>1. Send(Request(modal.method, modal.about)) /\ modal' = None /\ Proceed(modal)
    BY <1>4 DEF Confirmed, Close
  <2>2. RowOrNull(modal.about)
    BY <1>2 DEF RowOrNull
  <2>3. /\ RequestOK(Request(modal.method, modal.about))
        /\ Request(modal.method, modal.about) \in Requests
        /\ Request(modal.method, modal.about).method = modal.method
        /\ Request(modal.method, modal.about).about = modal.about
    BY <1>3, <2>2, RequestIsOK
  <2>4. Allowed(Request(modal.method, modal.about))
    BY <1>1, <1>3, <2>1, <2>3 DEF Allowed, Proceed
  <2>5. Sends1
    BY <1>1, <2>1, <2>3, <2>4 DEF Sends1
  <2> QED BY <1>1, <2>1, <2>5, SendsRequest
<1>5. ASSUME NEW n \in Name, TypeInput(n) PROVE KeyEffect
  <2>1. modal' = [kind |-> "confirm", method |-> modal.method, about |-> modal.about,
                  input |-> n, typed |-> modal.typed] /\ Quiet
    BY <1>3, <1>5 DEF TypeInput
  <2>2. modal' \in ConfirmModals /\ ConfirmOK(modal')
    BY <1>2, <1>3, <2>1 DEF ConfirmModals, ConfirmOK
  <2>3. ModalOK(modal') /\ modal'.kind = "confirm"
    BY <1>2, <2>1, <2>2 DEF ModalOK, Modals
  <2> QED BY <1>1, <2>1, <2>3, Opens
<1> QED BY <1>4, <1>5

LEMMA OtherMethodsSent == OtherMethods \subseteq Harmless
BY DEF Harmless

LEMMA DetailRemoveEffect ==
  ASSUME KeyState, DetailRemove
  PROVE  KeyEffect
<1>1. modal.kind = "detail" /\ modal' = None /\ KeyRest
  BY DEF DetailRemove, Close
<1>2. modal.about \in RowSet /\ Copy(modal.about) /\ RowOrNull(modal.about)
  BY <1>1, AboutIsRow DEF KeyState
<1>3. modal.about.sort \in Sorts /\ modal.about.members \in SUBSET Member
  BY <1>2 DEF RowSet
<1>4. CASE modal.about.sort \in WholeList
  <2>1. PICK m \in modal.about.members :
          Send([Request(MemberUpdate(modal.about.sort), modal.about) EXCEPT
                  !.members = modal.about.members \ {m}, !.asked = {m}])
    BY <1>4 DEF DetailRemove
  <2> DEFINE r == [Request(MemberUpdate(modal.about.sort), modal.about) EXCEPT
                     !.members = modal.about.members \ {m}, !.asked = {m}]
  <2>2. MemberUpdate(modal.about.sort) \in Harmless /\ MemberUpdate(modal.about.sort) \in Methods
    BY <1>3, KeyMethodsSent DEF KeyMethods, Methods
  <2>3. /\ modal.about.members \ {m} \in SUBSET Member /\ m \in Member
        /\ \A x \in Member :
             (x \in modal.about.members \ {m}) # (x \in modal.about.members) => x = m
    BY <1>3
  <2>4. /\ r \in Requests /\ r.method = MemberUpdate(modal.about.sort) /\ r.about = modal.about
        /\ r.members = modal.about.members \ {m} /\ r.asked = {m} /\ r.basis = Null
    BY <1>2, <2>2, <2>3 DEF Request, Requests
  <2>5. RequestOK(r)
    <3> HIDE DEF r
    <3> QED BY <1>2, <2>2, <2>3, <2>4, MembersRequest
  <2>6. Send(r)
    BY <2>1
  <2>7. Sends1
    <3> HIDE DEF r
    <3> QED BY <1>1, <2>2, <2>4, <2>5, <2>6, HarmlessIsOne
  <2> QED BY <1>1, <2>7, SendsRequest
<1>5. CASE modal.about.sort \notin WholeList
  <2>1. PICK m \in PartRemoves(modal.about.sort) : Send(Request(m, modal.about))
    BY <1>5 DEF DetailRemove
  <2>2. m \in Harmless
    BY <1>3, KeyMethodsSent DEF KeyMethods
  <2>3. Sends1
    BY <1>1, <1>2, <2>1, <2>2, SendIsOne
  <2> QED BY <1>1, <2>3, SendsRequest
<1> QED BY <1>4, <1>5

LEMMA DetailAddEffect ==
  ASSUME KeyState, DetailAdd
  PROVE  KeyEffect
<1>1. modal.kind = "detail" /\ Quiet /\ KeyRest
  BY DEF DetailAdd
<1>2. PICK k \in DetailForms(modal.about.sort) : modal' = Form(k, modal.about)
  BY DEF DetailAdd
<1>3. modal.about \in RowSet /\ RowOrNull(modal.about) /\ modal.about # Null
  BY <1>1, AboutIsRow, NullIsNoRow DEF KeyState
<1>4. k \in FormKinds
  BY <1>1, <1>2, FormTable DEF KeyState, ModalOK
<1>5. ModalOK(modal') /\ modal'.kind = "form"
  BY <1>2, <1>3, <1>4, FormIsOK DEF KeyState
<1> QED BY <1>1, <1>5, Opens

LEMMA DetailFireEffect ==
  ASSUME KeyState, DetailFire
  PROVE  KeyEffect
<1>1. modal.kind = "detail" /\ KeyRest
  BY DEF DetailFire
<1>2. modal.about \in RowSet /\ Copy(modal.about) /\ RowOrNull(modal.about)
  BY <1>1, AboutIsRow DEF KeyState
<1>3. CASE Close /\ \E m \in DetailFires \cup {"share.smb.update"} : Send(Request(m, modal.about))
  <2>1. PICK m \in DetailFires \cup {"share.smb.update"} : Send(Request(m, modal.about))
    BY <1>3
  <2>2. m \in Harmless
    BY OtherMethodsSent DEF OtherMethods
  <2>3. Sends1
    BY <1>1, <1>2, <2>1, <2>2, SendIsOne
  <2> QED BY <1>1, <1>3, <2>3, SendsRequest DEF Close
<1>4. CASE modal' = Confirm("fs.device.evacuate", modal.about) /\ Quiet
  <2>1. "fs.device.evacuate" \in Methods
    BY OtherMethodsSent DEF OtherMethods, Methods
  <2>2. ModalOK(modal') /\ modal'.kind = "confirm"
    BY <1>2, <1>4, <2>1, ConfirmIsOK
  <2> QED BY <1>1, <1>4, <2>2, Opens
<1> QED BY <1>3, <1>4 DEF DetailFire

LEMMA MenuDeviceEffect ==
  ASSUME KeyState, MenuDevice
  PROVE  KeyEffect
<1>1. modal.kind = "menu" /\ Quiet /\ KeyRest
  BY DEF MenuDevice
<1>2. CASE modal' = None
  BY <1>1, <1>2, PlainIsOK, Opens
<1>3. CASE Sort = "device" /\ modal' = Form("disk_type", Selection)
  <2>1. RowOrNull(Selection)
    BY SelectionCases
  <2>2. "disk_type" \in FormKinds \ RowForms
    BY FormTable
  <2>3. ModalOK(modal') /\ modal'.kind = "form" /\ modal'.about = Selection
    BY <1>3, <2>1, <2>2, FormIsOK DEF KeyState
  <2> QED BY <1>1, <2>3, Opens
<1>4. CASE Sort = "device" /\ ~Selection.flag /\ modal' = Confirm("device.wipe", Selection)
  <2>1. Selection \in RowSet /\ Copy(Selection)
    BY <1>4, SelectionCases DEF RowOrNull
  <2>2. "device.wipe" \in Methods
    BY DEF Methods, Destructive
  <2>3. ModalOK(modal') /\ modal'.kind = "confirm" /\ modal'.about = Selection
    BY <1>4, <2>1, <2>2, ConfirmIsOK
  <2> QED BY <1>1, <2>3, Opens
<1> QED BY <1>2, <1>3, <1>4 DEF MenuDevice, WipeConfirm

LEMMA MenuProtocolEffect ==
  ASSUME KeyState, MenuProtocol
  PROVE  KeyEffect
<1>1. modal.kind = "menu" /\ modal.about.sort = "protocol" /\ modal' = None /\ KeyRest
  BY DEF MenuProtocol, Close
<1>2. PICK m \in Toggles("protocol") : Send(Request(m, modal.about))
  BY DEF MenuProtocol
<1>3. modal.about \in RowSet /\ RowOrNull(modal.about)
  BY <1>1, AboutIsRow DEF KeyState
<1>4. modal.about.sort \in Sorts /\ m \in KeyMethods(modal.about.sort)
  BY <1>1, <1>3 DEF RowSet, KeyMethods
<1>5. Sends1
  BY <1>1, <1>2, <1>3, <1>4, KeyMethodsSent, SendIsOne
<1> QED BY <1>1, <1>5, SendsRequest

LEMMA PanelFireEffect ==
  ASSUME KeyState, PanelFire
  PROVE  KeyEffect
<1>1. modal.kind = "fs_status" /\ modal' = modal /\ KeyRest
  BY DEF PanelFire
<1>2. modal.about \in RowSet /\ Copy(modal.about) /\ RowOrNull(modal.about)
  BY <1>1, AboutIsRow DEF KeyState
<1>3. CASE \E m \in PanelFires : Send(Request(m, modal.about))
  <2>1. PICK m \in PanelFires : Send(Request(m, modal.about))
    BY <1>3
  <2>2. m \in Harmless
    BY OtherMethodsSent DEF OtherMethods
  <2>3. Sends1
    BY <1>1, <1>2, <2>1, <2>2, SendIsOne
  <2> QED BY <1>1, <2>3, SendsRequest
<1>4. ASSUME NEW on \in BOOLEAN,
             Send([Request("fs.reconcile.set", modal.about) EXCEPT !.switch = on])
      PROVE  KeyEffect
  <2> DEFINE r == [Request("fs.reconcile.set", modal.about) EXCEPT !.switch = on]
  <2>1. "fs.reconcile.set" \in Harmless /\ "fs.reconcile.set" \in Methods
    BY OtherMethodsSent DEF OtherMethods, Methods
  <2>2. /\ r \in Requests /\ r.method = "fs.reconcile.set" /\ r.about = modal.about
        /\ r.members = Null /\ r.switch = on /\ r.basis = Null
    BY <1>2, <2>1 DEF Request, Requests
  <2>3. Sends1
    <3>1. RequestOK(r)
      <4> HIDE DEF r
      <4> QED BY <1>2, <2>1, <2>2, SwitchRequest
    <3>2. Send(r)
      BY <1>4
    <3> HIDE DEF r
    <3> QED BY <1>1, <2>1, <2>2, <3>1, <3>2, HarmlessIsOne
  <2> QED BY <1>1, <2>3, SendsRequest
<1> QED BY <1>3, <1>4 DEF PanelFire

LEMMA LeaveEffect ==
  ASSUME KeyState, Dismiss \/ \E v \in View, i \in 1..2 : GoTo(v, i)
  PROVE  KeyEffect
BY PlainIsOK
   DEF Dismiss, GoTo, Close, KeyState, KeyRest, KeyEffect, MenuEffect, serverVars

LEMMA EveryKey ==
  ASSUME KeyState, ViewKey \/ ModalKey
  PROVE  KeyEffect
<1>1. CASE ViewKey
  BY <1>1, MoveEffect, OpenFormEffect, OpenConfirmEffect, FireEffect, OpenOtherEffect DEF ViewKey
<1>2. CASE ModalKey
  BY <1>2, TouchSwitchEffect, SubmitEffect, ConfirmKeysEffect, DetailRemoveEffect,
     DetailAddEffect, DetailFireEffect, MenuDeviceEffect, MenuProtocolEffect, PanelFireEffect,
     LeaveEffect
     DEF ModalKey
<1> QED BY <1>1, <1>2

-----------------------------------------------------------------------------
(* What the server does.                                                    *)
LEMMA RowsReplaced ==
  ASSUME RowsOK, NEW v \in View, NEW f \in [DOMAIN rows[v] -> RowSet],
         rows' = [rows EXCEPT ![v] = f],
         \A i \in DOMAIN rows[v] :
           f[i].name = rows[v][i].name /\ (f[i] = rows[v][i] \/ f[i].rev = rows[v][i].rev + 1)
  PROVE  RowsOK' /\ RowsStep
<1>1. Len(rows[v]) \in Nat /\ DOMAIN rows[v] = 1..Len(rows[v])
  BY RowTypes
<1>2. f \in Seq(RowSet) /\ Len(f) = Len(rows[v])
  BY <1>1
<1> QED BY <1>2, RowsRewritten

LEMMA RevisedStep ==
  ASSUME RowsOK, NEW v \in View, NEW n, NEW x,
         \/ x \in BOOLEAN /\ Revised(v, n, "flag", x)
         \/ x \in BOOLEAN /\ Revised(v, n, "switch", x)
         \/ x \in SUBSET Member /\ Revised(v, n, "members", x)
  PROVE  RowsOK' /\ RowsStep
<1>1. \A i \in DOMAIN rows[v] : rows[v][i] \in RowSet /\ rows[v][i].rev + 1 \in Nat
  BY RowTypes
<1>2. CASE x \in BOOLEAN /\ Revised(v, n, "flag", x)
  <2> DEFINE new(i) == IF rows[v][i].name = n
                       THEN [rows[v][i] EXCEPT !["flag"] = x, !.rev = rows[v][i].rev + 1]
                       ELSE rows[v][i]
             f == [i \in DOMAIN rows[v] |-> new(i)]
  <2>1. ASSUME NEW i \in DOMAIN rows[v]
        PROVE  /\ new(i) \in RowSet /\ new(i).name = rows[v][i].name
               /\ new(i) = rows[v][i] \/ new(i).rev = rows[v][i].rev + 1
    <3>1. rows[v][i] \in RowSet /\ rows[v][i].rev + 1 \in Nat
      BY <1>1
    <3> QED BY <1>2, <3>1 DEF RowSet
  <2>2. rows' = [rows EXCEPT ![v] = f]
    BY <1>2 DEF Revised
  <2>3. /\ f \in [DOMAIN rows[v] -> RowSet]
        /\ \A i \in DOMAIN rows[v] :
             f[i].name = rows[v][i].name /\ (f[i] = rows[v][i] \/ f[i].rev = rows[v][i].rev + 1)
    <3> HIDE DEF new
    <3> QED BY <2>1
  <2> HIDE DEF f
  <2> QED BY <2>2, <2>3, RowsReplaced
<1>3. CASE x \in BOOLEAN /\ Revised(v, n, "switch", x)
  <2> DEFINE new(i) == IF rows[v][i].name = n
                       THEN [rows[v][i] EXCEPT !["switch"] = x, !.rev = rows[v][i].rev + 1]
                       ELSE rows[v][i]
             f == [i \in DOMAIN rows[v] |-> new(i)]
  <2>1. ASSUME NEW i \in DOMAIN rows[v]
        PROVE  /\ new(i) \in RowSet /\ new(i).name = rows[v][i].name
               /\ new(i) = rows[v][i] \/ new(i).rev = rows[v][i].rev + 1
    <3>1. rows[v][i] \in RowSet /\ rows[v][i].rev + 1 \in Nat
      BY <1>1
    <3> QED BY <1>3, <3>1 DEF RowSet
  <2>2. rows' = [rows EXCEPT ![v] = f]
    BY <1>3 DEF Revised
  <2>3. /\ f \in [DOMAIN rows[v] -> RowSet]
        /\ \A i \in DOMAIN rows[v] :
             f[i].name = rows[v][i].name /\ (f[i] = rows[v][i] \/ f[i].rev = rows[v][i].rev + 1)
    <3> HIDE DEF new
    <3> QED BY <2>1
  <2> HIDE DEF f
  <2> QED BY <2>2, <2>3, RowsReplaced
<1>4. CASE x \in SUBSET Member /\ Revised(v, n, "members", x)
  <2> DEFINE new(i) == IF rows[v][i].name = n
                       THEN [rows[v][i] EXCEPT !["members"] = x, !.rev = rows[v][i].rev + 1]
                       ELSE rows[v][i]
             f == [i \in DOMAIN rows[v] |-> new(i)]
  <2>1. ASSUME NEW i \in DOMAIN rows[v]
        PROVE  /\ new(i) \in RowSet /\ new(i).name = rows[v][i].name
               /\ new(i) = rows[v][i] \/ new(i).rev = rows[v][i].rev + 1
    <3>1. rows[v][i] \in RowSet /\ rows[v][i].rev + 1 \in Nat
      BY <1>1
    <3> QED BY <1>4, <3>1 DEF RowSet
  <2>2. rows' = [rows EXCEPT ![v] = f]
    BY <1>4 DEF Revised
  <2>3. /\ f \in [DOMAIN rows[v] -> RowSet]
        /\ \A i \in DOMAIN rows[v] :
             f[i].name = rows[v][i].name /\ (f[i] = rows[v][i] \/ f[i].rev = rows[v][i].rev + 1)
    <3> HIDE DEF new
    <3> QED BY <2>1
  <2> HIDE DEF f
  <2> QED BY <2>2, <2>3, RowsReplaced
<1> QED BY <1>2, <1>3, <1>4

LEMMA RowIs ==
  ASSUME RowsOK, NEW v \in View, NEW n, Positions(v, n) # {}
  PROVE  Row(v, n) \in RowSet
BY RowTypes DEF Row, Positions

LEMMA OtherChangesStep ==
  ASSUME RowsOK, OtherChanges
  PROVE  RowsOK' /\ RowsStep
<1>1. PICK v \in View, n \in Name :
       \/ /\ Positions(v, n) # {}
          /\ \/ Has(v, Flagged) /\ Revised(v, n, "flag", ~Row(v, n).flag)
             \/ Has(v, {"filesystem"}) /\ Revised(v, n, "switch", ~Row(v, n).switch)
             \/ /\ Has(v, WholeList)
                /\ \/ \E m \in Member \ Row(v, n).members :
                          Revised(v, n, "members", Row(v, n).members \cup {m})
                   \/ \E m \in Row(v, n).members :
                          Revised(v, n, "members", Row(v, n).members \ {m})
       \/ \E i \in Positions(v, n) : rows' = [rows EXCEPT ![v] = Without(@, i)]
  BY DEF OtherChanges
<1>2. CASE \E i \in Positions(v, n) : rows' = [rows EXCEPT ![v] = Without(@, i)]
  BY <1>2, RowRemoved DEF Positions
<1>3. CASE Positions(v, n) # {} /\ Revised(v, n, "flag", ~Row(v, n).flag)
  <2>1. (~Row(v, n).flag) \in BOOLEAN
    OBVIOUS
  <2> QED BY <1>3, <2>1, RevisedStep
<1>4. CASE Positions(v, n) # {} /\ Revised(v, n, "switch", ~Row(v, n).switch)
  <2>1. (~Row(v, n).switch) \in BOOLEAN
    OBVIOUS
  <2> QED BY <1>4, <2>1, RevisedStep
<1>5. ASSUME Positions(v, n) # {}, NEW m \in Member,
             \/ Revised(v, n, "members", Row(v, n).members \cup {m})
             \/ Revised(v, n, "members", Row(v, n).members \ {m})
      PROVE  RowsOK' /\ RowsStep
  <2>1. Row(v, n).members \in SUBSET Member
    BY <1>5, RowIs DEF RowSet
  <2>2. /\ Row(v, n).members \cup {m} \in SUBSET Member
        /\ Row(v, n).members \ {m} \in SUBSET Member
    BY <2>1
  <2> QED BY <1>5, <2>2, RevisedStep
<1>6. Positions(v, n) # {} => Row(v, n).members \subseteq Member
  BY RowIs DEF RowSet
<1> QED BY <1>1, <1>2, <1>3, <1>4, <1>5, <1>6

(* The view in which the row a request is about is found.                   *)
Home(r) == CHOOSE w \in View : Positions(w, r.about.name) # {}

LEMMA AppliedCases ==
  ASSUME NEW r, Applied(r)
  PROVE  \/ r.members # Null /\ Revised(Home(r), r.about.name, "members", r.members)
         \/ /\ r.members = Null /\ r.switch # Null
            /\ Revised(Home(r), r.about.name, "switch", r.switch)
         \/ /\ r.members = Null /\ r.switch = Null
            /\ \/ Revised(Home(r), r.about.name, "flag", r.method \in TurnsOn)
               \/ rows' = [rows EXCEPT ![Home(r)] =
                             Without(@, CHOOSE i \in Positions(Home(r), r.about.name) : TRUE)]
               \/ rows' = rows
BY DEF Applied, Home

LEMMA ServedIs ==
  ASSUME SentOK, Serve
  PROVE  /\ Served = sent[1] /\ Served \in Requests /\ RequestOK(Served)
         /\ sent' \in Seq(Requests) /\ Len(sent') = Len(sent) - 1
         /\ \A i \in DOMAIN sent' : i + 1 \in DOMAIN sent /\ sent'[i] = sent[i + 1]
         /\ Len(sent) \in Nat \ {0} /\ DOMAIN sent = 1..Len(sent)
<1>1. sent \in Seq(Requests) /\ sent # <<>> /\ sent' = Tail(sent)
  BY DEF SentOK, Serve
<1>2. /\ Len(sent) \in Nat \ {0} /\ DOMAIN sent = 1..Len(sent)
      /\ sent[1] \in Requests /\ Served = sent[1]
  BY <1>1 DEF Served
<1>3. RequestOK(Served)
  BY <1>2 DEF SentOK
<1>4. /\ sent' \in Seq(Requests) /\ Len(sent') = Len(sent) - 1
      /\ \A i \in 1..Len(sent') : sent'[i] = sent[i + 1]
  BY <1>1, HeadTailProperties
<1>5. DOMAIN sent' = 1..Len(sent')
  BY <1>4, LenProperties
<1> QED BY <1>2, <1>3, <1>4, <1>5

LEMMA ServeStep ==
  ASSUME RowsOK, SentOK, Serve
  PROVE  RowsOK' /\ RowsStep
<1>1. Served \in Requests /\ RequestOK(Served)
  BY ServedIs
<1>2. CASE rows' = rows
  BY <1>2, RowTypes DEF RowsOK, RowsStep
<1>3. CASE /\ Served.about # Null /\ \E v \in View : Positions(v, Served.about.name) # {}
           /\ Applied(Served)
  <2> DEFINE n == Served.about.name
             v == Home(Served)
  <2>1. v \in View /\ Positions(v, n) # {}
    BY <1>3 DEF Home
  <2>2. CASE Served.members # Null /\ Revised(v, n, "members", Served.members)
    <3>1. Served.members \in SUBSET Member
      BY <1>1, <2>2 DEF Requests
    <3> QED BY <2>1, <2>2, <3>1, RevisedStep
  <2>3. CASE Served.switch # Null /\ Revised(v, n, "switch", Served.switch)
    <3>1. Served.switch \in BOOLEAN
      BY <1>1, <2>3 DEF Requests
    <3> QED BY <2>1, <2>3, <3>1, RevisedStep
  <2>4. CASE Revised(v, n, "flag", Served.method \in TurnsOn)
    <3>1. (Served.method \in TurnsOn) \in BOOLEAN
      OBVIOUS
    <3> QED BY <2>1, <2>4, <3>1, RevisedStep
  <2>5. CASE rows' = [rows EXCEPT ![v] = Without(@, CHOOSE i \in Positions(v, n) : TRUE)]
    <3>1. (CHOOSE i \in Positions(v, n) : TRUE) \in DOMAIN rows[v]
      BY <2>1 DEF Positions
    <3> QED BY <2>1, <2>5, <3>1, RowRemoved
  <2> QED BY <1>2, <1>3, <2>2, <2>3, <2>4, <2>5, AppliedCases
<1> QED BY <1>2, <1>3 DEF Serve

-----------------------------------------------------------------------------
(* The invariant.                                                           *)
LEMMA SeqOfRows ==
  ASSUME NEW s \in Seq(NewRows)
  PROVE  s \in Seq(RowSet) /\ \A i \in DOMAIN s : s[i] \in RowSet /\ s[i].rev = 0
<1>1. ASSUME NEW r \in NewRows PROVE r \in RowSet /\ r.rev = 0
  <2>1. PICK n \in Name, x \in Sorts : r = NewRow(n, x)
    BY DEF NewRows
  <2> QED BY <2>1 DEF NewRow, RowSet
<1>2. /\ Len(s) \in Nat /\ s \in [1..Len(s) -> NewRows] /\ DOMAIN s = 1..Len(s)
  BY LenProperties
<1>3. s \in [1..Len(s) -> RowSet]
  BY <1>1, <1>2
<1> QED BY <1>1, <1>2, <1>3

LEMMA InvInit == Init => ModalInv
<1> SUFFICES ASSUME Init PROVE ModalInv
  OBVIOUS
<1>1. /\ rows \in [View -> Seq(NewRows)]
      /\ \A v, w \in View : \A i \in DOMAIN rows[v], j \in DOMAIN rows[w] :
           rows[v][i].name = rows[w][j].name => v = w /\ i = j
  BY TuiModalAssumption DEF Init
<1>2. \A v \in View : /\ rows[v] \in Seq(RowSet)
                      /\ \A i \in DOMAIN rows[v] : rows[v][i] \in RowSet /\ rows[v][i].rev = 0
  BY <1>1, SeqOfRows
<1>3. RowsOK
  BY <1>1, <1>2 DEF RowsOK
<1>4. Counters
  BY <1>2, TuiModalAssumption DEF Init, Counters
<1>5. ListsOK
  <2>1. list = rows
    BY DEF Init
  <2>2. ASSUME NEW v \in View, NEW i \in DOMAIN rows[v] PROVE Copy(rows[v][i])
    BY <1>1, <1>2 DEF Copy
  <2> QED BY <1>3, <2>1, <2>2 DEF ListsOK, RowsOK
<1>6. StripOK
  BY DEF Init, StripOK
<1>7. SentOK
  BY DEF Init, SentOK
<1>8. ModalOK(modal) /\ MenuOK
  BY PlainIsOK DEF Init, MenuOK
<1>9. SecretOK
  <2>1. Creates = {} /\ minted = 0 /\ ~lost
    BY DEF Init, Creates
  <2> QED BY <2>1 DEF SecretOK
<1> QED BY <1>3, <1>4, <1>5, <1>6, <1>7, <1>8, <1>9 DEF Init, ModalInv

(* What stays true of a copy, a request and a modal when the server steps.  *)
LEMMA KeptByServer ==
  ASSUME RowsOK, RowsStep
  PROVE  /\ \A r : RequestOK(r) => RequestOK(r)'
         /\ \A m : ModalOK(m) => ModalOK(m)'
<1>1. ASSUME NEW h \in RowSet, Copy(h) PROVE Copy(h)'
  BY <1>1, CopyKept
<1>2. ASSUME NEW n, NEW b \in Nat, NEW s, Shown(n, b, s) PROVE Shown(n, b, s)'
  BY <1>2, ShownKept
<1>3. ASSUME NEW r, RequestOK(r) PROVE RequestOK(r)'
  <2>1. /\ r.about # Null => r.about \in RowSet
        /\ r.basis # Null => r.basis \in Nat
    BY <1>3 DEF RequestOK, Requests
  <2>2. r.about # Null => Copy(r.about)'
    BY <1>1, <1>3, <2>1 DEF RequestOK
  <2>3. r.basis # Null => Shown(r.about.name, r.basis, r.switch)'
    BY <1>2, <1>3, <2>1 DEF RequestOK
  <2> QED BY <1>3, <2>2, <2>3 DEF RequestOK
<1>4. ASSUME NEW m, ModalOK(m) PROVE ModalOK(m)'
  <2>1. m.kind \notin {"none", "reveal", "logs", "palette"} /\ m.about # Null => Copy(m.about)'
    <3>1. m.kind \notin {"none", "reveal", "logs", "palette"} /\ m.about # Null =>
            m.about \in RowSet
      BY <1>4 DEF ModalOK, Modals, FormModals, ConfirmModals, MenuModals, RowModals,
                  PlainModals, None
    <3> QED BY <1>1, <1>4, <3>1 DEF ModalOK
  <2>2. m.kind = "form" => FormOK(m)'
    <3> SUFFICES ASSUME m.kind = "form" PROVE FormOK(m)'
      OBVIOUS
    <3>1. FormOK(m) /\ (m.basis # Null => m.basis \in Nat)
      BY <1>4 DEF ModalOK, FormOK, FormModals
    <3>2. m.basis # Null => Shown(m.about.name, m.basis, m.switch)'
      BY <1>2, <3>1 DEF FormOK
    <3> QED BY <3>1, <3>2 DEF FormOK
  <2> QED BY <1>4, <2>1, <2>2 DEF ModalOK, ConfirmOK
<1> QED BY <1>3, <1>4

LEMMA SendIs ==
  ASSUME SentOK, NEW r \in Requests, RequestOK(r), Send(r)
  PROVE  /\ sent' \in Seq(Requests) /\ Len(sent') = Len(sent) + 1 /\ Len(sent) \in Nat
         /\ DOMAIN sent' = 1..Len(sent) + 1 /\ DOMAIN sent = 1..Len(sent)
         /\ \A i \in DOMAIN sent : sent'[i] = sent[i]
         /\ sent'[Len(sent) + 1] = r
         /\ sends < Sends /\ sends' = sends + 1
<1>1. sent \in Seq(Requests) /\ sent' = Append(sent, r)
  BY DEF SentOK, Send
<1>2. /\ sent' \in Seq(Requests) /\ Len(sent') = Len(sent) + 1
      /\ \A i \in 1..Len(sent) : sent'[i] = sent[i]
      /\ sent'[Len(sent) + 1] = r
  BY <1>1, AppendProperties
<1>3. DOMAIN sent' = 1..Len(sent') /\ DOMAIN sent = 1..Len(sent) /\ Len(sent) \in Nat
  BY <1>1, <1>2, LenProperties
<1> QED BY <1>2, <1>3 DEF Send

LEMMA KeyInv ==
  ASSUME ModalInv, KeyEffect
  PROVE  ModalInv'
<1>1. UNCHANGED <<rows, changes, minted, list, strip, lost>>
  BY DEF KeyEffect
<1>2. RowsOK' /\ ListsOK' /\ StripOK'
  BY <1>1 DEF ModalInv, RowsOK, ListsOK, StripOK, Copy
<1>3. tab' \in View /\ selected' \in 1..2
  BY DEF KeyEffect
<1>4. ModalOK(modal)'
  BY <1>1 DEF KeyEffect, ModalOK, FormOK, ConfirmOK, Copy, Shown
<1>5. MenuOK'
  <2> SUFFICES ASSUME modal'.kind = "menu", modal'.fresh PROVE Selection' = modal'.about
    BY DEF MenuOK
  <2>1. Selection' = Selection
    BY <1>1 DEF KeyEffect, MenuEffect, Selection
  <2>2. CASE modal' = modal
    BY <2>1, <2>2 DEF ModalInv, MenuOK
  <2>3. CASE modal'.about = Selection
    BY <2>1, <2>3
  <2> QED BY <2>2, <2>3 DEF KeyEffect, MenuEffect
<1>6. CASE Quiet
  <2>1. SentOK' /\ Counters'
    BY <1>1, <1>6 DEF ModalInv, Quiet, SentOK, Counters, RequestOK, Copy, Shown
  <2>2. SecretOK'
    BY <1>1, <1>6 DEF ModalInv, Quiet, SecretOK, Creates, KeyEffect
  <2> QED BY <1>2, <1>3, <1>4, <1>5, <2>1, <2>2 DEF ModalInv
<1>7. CASE Sends1
  <2>1. PICK r \in Requests : RequestOK(r) /\ Send(r)
    BY <1>7 DEF Sends1
  <2>2. SentOK /\ Counters /\ SecretOK
    BY DEF ModalInv
  <2>3. /\ sent' \in Seq(Requests) /\ Len(sent') = Len(sent) + 1 /\ Len(sent) \in Nat
        /\ DOMAIN sent' = 1..Len(sent) + 1 /\ DOMAIN sent = 1..Len(sent)
        /\ \A i \in DOMAIN sent : sent'[i] = sent[i]
        /\ sent'[Len(sent) + 1] = r
        /\ sends < Sends /\ sends' = sends + 1
    BY <2>1, <2>2, SendIs
  <2>4. ASSUME NEW i \in DOMAIN sent' PROVE RequestOK(sent'[i])
    <3>1. i \in DOMAIN sent \/ i = Len(sent) + 1
      BY <2>3
    <3> QED BY <2>1, <2>2, <2>3, <3>1 DEF SentOK
  <2>5. SentOK'
    BY <1>1, <2>3, <2>4 DEF SentOK, RequestOK, Copy, Shown
  <2>6. Counters'
    <3>1. /\ changes' = changes /\ minted' = minted /\ rows' = rows
          /\ changes \in 0..Changes /\ sends \in 0..Sends /\ minted \in Nat
          /\ Len(sent) + minted <= sends
      BY <1>1, <2>2 DEF Counters
    <3>2. ASSUME NEW v \in View, NEW i \in DOMAIN rows[v]
          PROVE  rows[v][i].rev + Len(sent') <= changes + sends'
      <4>1. rows[v][i].rev + Len(sent) <= changes + sends /\ rows[v][i].rev \in Nat
        BY <2>2, RowTypes DEF Counters, ModalInv
      <4> QED BY <2>3, <3>1, <4>1
    <3> QED BY <2>3, <3>1, <3>2, TuiModalAssumption DEF Counters
  <2>7. SecretOK'
    <3>1. lost' = lost /\ minted' = minted /\ modal'.kind # "reveal"
      BY <1>1, <1>7 DEF Sends1, KeyEffect
    <3>2. /\ overlapped => overlapped'
          /\ ~overlapped' /\ r.method = "auth.token.create" => minted = 0 /\ Creates = {}
      <4>1. overlapped' = (overlapped \/ (r.method = "auth.token.create"
              /\ (minted > 0 \/ \E i \in DOMAIN sent : sent[i].method = "auth.token.create")))
        BY <2>1 DEF Send
      <4>2. minted \in Nat
        BY <2>2 DEF Counters
      <4>3. overlapped => overlapped'
        BY <4>1
      <4>4. ASSUME ~overlapped', r.method = "auth.token.create"
            PROVE  minted = 0 /\ Creates = {}
        <5>1. ~(minted > 0) /\ \A i \in DOMAIN sent : sent[i].method # "auth.token.create"
          BY <4>1, <4>4
        <5> QED BY <4>2, <5>1 DEF Creates
      <4> QED BY <4>3, <4>4
    <3>3. \A i \in Creates' : \/ i \in Creates
                              \/ i = Len(sent) + 1 /\ r.method = "auth.token.create"
      BY <2>3 DEF Creates
    <3> QED BY <2>2, <3>1, <3>2, <3>3 DEF SecretOK
  <2> QED BY <1>2, <1>3, <1>4, <1>5, <2>5, <2>6, <2>7 DEF ModalInv
<1> QED BY <1>6, <1>7 DEF KeyEffect

LEMMA ServerInv ==
  ASSUME ModalInv, RowsOK', RowsStep, UNCHANGED <<list, strip, tab, selected, modal>>
  PROVE  /\ ListsOK' /\ StripOK' /\ MenuOK' /\ ModalOK(modal)' /\ tab' \in View /\ selected' \in 1..2
<1> USE DEF ModalInv
<1>1. ASSUME NEW h \in RowSet, Copy(h) PROVE Copy(h)'
  BY <1>1, CopyKept
<1>2. ListsOK'
  <2>1. ASSUME NEW v \in View, NEW i \in DOMAIN list[v] PROVE list[v][i] \in RowSet /\ Copy(list[v][i])
    <3>1. list[v] \in Seq(RowSet)
      BY DEF ListsOK
    <3> QED BY <3>1, LenProperties DEF ListsOK
  <2> QED BY <1>1, <2>1 DEF ListsOK, Copy
<1>3. StripOK'
  BY <1>1 DEF StripOK, Copy
<1>4. MenuOK'
  BY DEF MenuOK, Selection
<1>5. ModalOK(modal)'
  BY KeptByServer DEF ModalOK, FormOK, ConfirmOK, Copy, Shown
<1> QED BY <1>2, <1>3, <1>4, <1>5

LEMMA OtherChangesInv ==
  ASSUME ModalInv, OtherChanges
  PROVE  ModalInv'
<1>1. RowsOK' /\ RowsStep
  BY OtherChangesStep DEF ModalInv
<1>2. /\ UNCHANGED <<minted, sent, sends, list, strip, tab, selected, modal, overlapped, lost>>
      /\ changes < Changes /\ changes' = changes + 1
  BY DEF OtherChanges, historyVars
<1>3. ListsOK' /\ StripOK' /\ MenuOK' /\ ModalOK(modal)' /\ tab' \in View /\ selected' \in 1..2
  BY <1>1, <1>2, ServerInv
<1>4. SentOK'
  <2>1. \A i \in DOMAIN sent : RequestOK(sent[i])
    BY DEF ModalInv, SentOK
  <2> QED BY <1>1, <1>2, <2>1, KeptByServer DEF ModalInv, SentOK, RequestOK, Copy, Shown
<1>5. Counters'
  <2>1. /\ changes \in 0..Changes /\ sends \in 0..Sends /\ minted \in Nat
        /\ Len(sent) \in Nat /\ Len(sent) + minted <= sends
    BY LenProperties DEF ModalInv, Counters, SentOK
  <2>2. ASSUME NEW v \in View, NEW j \in DOMAIN rows'[v]
        PROVE  rows'[v][j].rev + Len(sent) <= (changes + 1) + sends
    <3>1. PICK i \in DOMAIN rows[v] :
            rows'[v][j] = rows[v][i] \/ rows'[v][j].rev = rows[v][i].rev + 1
      BY <1>1 DEF RowsStep
    <3>2. rows[v][i].rev + Len(sent) <= changes + sends /\ rows[v][i].rev \in Nat
      BY RowTypes DEF ModalInv, Counters
    <3> QED
      <4> DEFINE l == Len(sent)
                 was == rows[v][i].rev
                 is == rows'[v][j].rev
      <4>1. /\ l \in Nat /\ was \in Nat /\ was + l <= changes + sends
            /\ is = was \/ is = was + 1
        BY <2>1, <3>1, <3>2
      <4>2. changes \in Nat /\ sends \in Nat
        BY <2>1
      <4> HIDE DEF l, was, is
      <4>3. is + l <= (changes + 1) + sends
        BY <4>1, <4>2
      <4> QED BY <4>3 DEF is, l
  <2> QED BY <1>2, <2>1, <2>2, TuiModalAssumption DEF Counters
<1>6. SecretOK'
  BY <1>2 DEF ModalInv, SecretOK, Creates
<1> QED BY <1>1, <1>3, <1>4, <1>5, <1>6 DEF ModalInv

LEMMA ServeInv ==
  ASSUME ModalInv, Serve
  PROVE  ModalInv'
<1>1. RowsOK' /\ RowsStep
  BY ServeStep DEF ModalInv
<1>2. /\ UNCHANGED <<changes, sends, list, strip, tab, selected, modal, overlapped, lost>>
      /\ minted' = minted + (IF Served.method = "auth.token.create" THEN 1 ELSE 0)
  BY DEF Serve, historyVars
<1>3. ListsOK' /\ StripOK' /\ MenuOK' /\ ModalOK(modal)' /\ tab' \in View /\ selected' \in 1..2
  BY <1>1, <1>2, ServerInv
<1>4. /\ Served = sent[1] /\ sent' \in Seq(Requests) /\ Len(sent') = Len(sent) - 1
      /\ \A i \in DOMAIN sent' : i + 1 \in DOMAIN sent /\ sent'[i] = sent[i + 1]
      /\ Len(sent) \in Nat \ {0} /\ DOMAIN sent = 1..Len(sent)
  BY ServedIs DEF ModalInv
<1>5. SentOK'
  <2>1. \A i \in DOMAIN sent' : RequestOK(sent[i + 1])
    BY <1>4 DEF ModalInv, SentOK
  <2>2. ASSUME NEW r, RequestOK(r) PROVE RequestOK(r)'
    BY <1>1, <2>2, KeptByServer DEF ModalInv
  <2> QED BY <1>4, <2>1, <2>2 DEF SentOK, RequestOK, Copy, Shown
<1>6. Counters'
  <2>1. /\ changes \in 0..Changes /\ sends \in 0..Sends /\ minted \in Nat
        /\ Len(sent) + minted <= sends
    BY DEF ModalInv, Counters
  <2>2. ASSUME NEW v \in View, NEW j \in DOMAIN rows'[v]
        PROVE  rows'[v][j].rev + Len(sent') <= changes + sends
    <3>1. PICK i \in DOMAIN rows[v] :
            rows'[v][j] = rows[v][i] \/ rows'[v][j].rev = rows[v][i].rev + 1
      BY <1>1 DEF RowsStep
    <3>2. rows[v][i].rev + Len(sent) <= changes + sends /\ rows[v][i].rev \in Nat
      BY RowTypes DEF ModalInv, Counters
    <3> QED
      <4> DEFINE l == Len(sent)
                 k == Len(sent')
                 was == rows[v][i].rev
                 is == rows'[v][j].rev
      <4>1. /\ l \in Nat /\ k = l - 1 /\ was \in Nat /\ was + l <= changes + sends
            /\ is = was \/ is = was + 1
        BY <1>4, <3>1, <3>2
      <4>2. changes \in Nat /\ sends \in Nat
        BY <2>1
      <4> HIDE DEF l, k, was, is
      <4>3. is + k <= changes + sends
        BY <4>1, <4>2
      <4> QED BY <4>3 DEF is, k
  <2>3. minted' \in Nat /\ Len(sent') + minted' <= sends
    BY <1>2, <1>4, <2>1
  <2> QED BY <1>2, <2>1, <2>2, <2>3 DEF Counters
<1>7. SecretOK'
  <2>1. ASSUME NEW i \in Creates' PROVE i + 1 \in Creates
    BY <1>4 DEF Creates
  <2>2. Served.method = "auth.token.create" <=> 1 \in Creates
    BY <1>4 DEF Creates
  <2>3. \A i \in Creates' : i \in Nat /\ i + 1 # 1
    BY <1>4, LenProperties DEF Creates
  <2>4. SecretOK /\ minted \in Nat
    BY DEF ModalInv, Counters
  <2> SUFFICES ASSUME ~overlapped
               PROVE  /\ \A i, j \in Creates' : i = j
                      /\ minted' > 0 => minted' = 1 /\ Creates' = {}
                      /\ modal.kind = "reveal" => minted' = 0 /\ Creates' = {}
    BY <1>2, <2>4 DEF SecretOK
  <2>5. CASE 1 \in Creates
    <3>1. minted = 0 /\ minted' = 1 /\ Creates' = {} /\ modal.kind # "reveal"
      BY <1>2, <2>1, <2>2, <2>3, <2>4, <2>5 DEF SecretOK
    <3> QED BY <3>1
  <2>6. CASE 1 \notin Creates
    <3>1. minted' = minted
      BY <1>2, <2>2, <2>4, <2>6
    <3>2. \A i, j \in Creates' : i = j
      <4> SUFFICES ASSUME NEW i \in Creates', NEW j \in Creates' PROVE i = j
        OBVIOUS
      <4>1. i + 1 = j + 1
        BY <2>1, <2>4 DEF SecretOK
      <4> QED BY <2>3, <4>1
    <3>3. Creates = {} => Creates' = {}
      BY <2>1
    <3> QED BY <2>4, <3>1, <3>2, <3>3 DEF SecretOK
  <2> QED BY <2>5, <2>6
<1> QED BY <1>1, <1>3, <1>5, <1>6, <1>7 DEF ModalInv

LEMMA RefreshedInv ==
  ASSUME ModalInv, NEW v \in View, Refreshed(v)
  PROVE  ModalInv'
<1>1. /\ UNCHANGED <<rows, changes, minted, sent, sends, overlapped, strip, tab>>
      /\ list' = [list EXCEPT ![v] = rows[v]]
      /\ selected' = Clamped(v) /\ modal' = ModalKept
      /\ lost' = (lost \/ (modal.kind = "reveal" /\ modal'.kind # "reveal"))
  BY DEF Refreshed, Quiet, serverVars
<1>2. RowsOK' /\ Counters' /\ StripOK' /\ SentOK' /\ tab' \in View
  BY <1>1 DEF ModalInv, RowsOK, Counters, StripOK, SentOK, RequestOK, Copy, Shown
<1>3. ListsOK'
  <2>1. ASSUME NEW i \in DOMAIN rows[v] PROVE Copy(rows[v][i])
    BY RowTypes DEF ModalInv, RowsOK, Copy
  <2>2. /\ list' \in [View -> Seq(RowSet)] /\ list'[v] = rows[v]
        /\ \A w \in View : w # v => list'[w] = list[w]
    BY <1>1, RowTypes DEF ModalInv, ListsOK
  <2>3. ASSUME NEW w \in View, NEW i \in DOMAIN list'[w] PROVE Copy(list'[w][i])
    BY <2>1, <2>2 DEF ModalInv, ListsOK
  <2> QED BY <1>1, <2>2, <2>3 DEF ListsOK, Copy
<1>4. selected' \in 1..2
  <2>1. Len(rows[v]) \in Nat /\ selected \in 1..2
    BY RowTypes DEF ModalInv
  <2>2. selected' = selected \/ (selected' = Len(rows[v]) /\ Len(rows[v]) > 0 /\ selected > Len(rows[v]))
    BY <1>1 DEF Clamped
  <2> QED BY <2>1, <2>2
<1>5. /\ modal'.kind = modal.kind /\ ModalOK(modal')
      /\ modal'.kind = "menu" => ~modal'.fresh
  <2>1. CASE modal.kind = "menu"
    <3>1. modal \in MenuModals /\ Copy(modal.about)
      BY <2>1, AboutIsRow
         DEF ModalInv, ModalOK, Modals, FormModals, ConfirmModals, MenuModals, RowModals,
             PlainModals, None
    <3>2. modal' = [modal EXCEPT !.fresh = FALSE]
      BY <1>1, <2>1 DEF ModalKept
    <3>3. modal' \in MenuModals /\ modal'.kind = "menu" /\ modal'.about = modal.about /\ ~modal'.fresh
      BY <3>1, <3>2 DEF MenuModals
    <3> QED BY <2>1, <3>1, <3>3 DEF ModalOK, Modals
  <2>2. CASE modal.kind # "menu"
    BY <1>1, <2>2 DEF ModalKept, ModalInv
  <2> QED BY <2>1, <2>2
<1>6. ModalOK(modal)' /\ MenuOK'
  BY <1>1, <1>5 DEF ModalOK, FormOK, ConfirmOK, Copy, Shown, MenuOK
<1>7. SecretOK'
  BY <1>1, <1>5 DEF ModalInv, SecretOK, Creates
<1> QED BY <1>2, <1>3, <1>4, <1>6, <1>7 DEF ModalInv

LEMMA StripInv ==
  ASSUME ModalInv, NEW k \in 1..2, StripArrives(k)
  PROVE  ModalInv'
<1> DEFINE v == "filesystems"
           n == list[v][k].name
<1>0. v \in View /\ k \in DOMAIN list[v]
  BY DEF StripArrives
<1>1. PICK i \in DOMAIN rows[v] : strip' = [strip EXCEPT ![n] = rows[v][i]]
  BY DEF StripArrives
<1>2. UNCHANGED <<rows, changes, minted, sent, sends, overlapped, list, tab, selected, modal, lost>>
  BY DEF StripArrives, Quiet, serverVars
<1>3. rows[v][i] \in RowSet /\ Copy(rows[v][i])
  BY <1>0, RowTypes DEF ModalInv, RowsOK, Copy
<1> HIDE DEF n, v
<1>5. StripOK'
  BY <1>1, <1>2, <1>3 DEF ModalInv, StripOK, Copy
<1>6. RowsOK' /\ Counters' /\ ListsOK' /\ SentOK' /\ tab' \in View /\ selected' \in 1..2
  BY <1>2 DEF ModalInv, RowsOK, Counters, ListsOK, SentOK, RequestOK, Copy, Shown
<1>7. ModalOK(modal)' /\ MenuOK' /\ SecretOK'
  BY <1>2 DEF ModalInv, ModalOK, FormOK, ConfirmOK, Copy, Shown, MenuOK, Selection, SecretOK, Creates
<1> QED BY <1>5, <1>6, <1>7 DEF ModalInv

LEMMA TokenCreatedInv ==
  ASSUME ModalInv, TokenCreated
  PROVE  ModalInv'
<1>1. /\ UNCHANGED <<rows, changes, sent, sends, overlapped, list, strip, tab, selected>>
      /\ minted > 0 /\ minted' = minted - 1 /\ modal' = Modal("reveal", Null)
      /\ lost' = (lost \/ modal.kind = "reveal")
  BY DEF TokenCreated, Quiet
<1>2. RowsOK' /\ ListsOK' /\ StripOK' /\ SentOK' /\ tab' \in View /\ selected' \in 1..2
  BY <1>1 DEF ModalInv, RowsOK, ListsOK, StripOK, SentOK, RequestOK, Copy, Shown
<1>3. Counters'
  <2>1. Len(sent) \in Nat /\ minted \in Nat
    BY LenProperties DEF ModalInv, Counters, SentOK
  <2> QED BY <1>1, <2>1 DEF ModalInv, Counters
<1>4. ModalOK(modal') /\ modal'.kind = "reveal"
  BY <1>1, PlainIsOK
<1>5. ModalOK(modal)' /\ MenuOK'
  BY <1>1, <1>4 DEF ModalOK, FormOK, ConfirmOK, Copy, Shown, MenuOK
<1>6. SecretOK'
  <2>1. minted \in Nat /\ SecretOK /\ Creates' = Creates
    BY <1>1 DEF ModalInv, Counters, Creates
  <2>2. ~overlapped => minted = 1 /\ Creates = {} /\ modal.kind # "reveal"
    BY <1>1, <2>1 DEF SecretOK
  <2>3. lost' => overlapped
    BY <1>1, <2>1, <2>2 DEF SecretOK
  <2>4. ~overlapped => minted' = 0
    BY <1>1, <2>2
  <2> QED BY <1>1, <2>1, <2>2, <2>3, <2>4 DEF SecretOK
<1> QED BY <1>2, <1>3, <1>5, <1>6 DEF ModalInv

LEMMA InvStep == ModalInv /\ [Next]_vars => ModalInv'
<1> SUFFICES ASSUME ModalInv, [Next]_vars PROVE ModalInv'
  OBVIOUS
<1>1. CASE ViewKey \/ ModalKey
  BY <1>1, EveryKey, KeyInv DEF ModalInv, KeyState
<1>2. CASE OtherChanges
  BY <1>2, OtherChangesInv
<1>3. CASE Serve
  BY <1>3, ServeInv
<1>4. CASE Incoming
  BY <1>4, TokenCreatedInv, RefreshedInv, StripInv DEF Incoming
<1>5. CASE UNCHANGED vars
  <2>1. UNCHANGED <<rows, changes, minted, list, strip, lost>> /\ Quiet
        /\ UNCHANGED <<tab, selected, modal>>
    BY <1>5 DEF vars, serverVars, historyVars, Quiet
  <2>2. KeyEffect
    BY <2>1 DEF KeyEffect, MenuEffect, ModalInv
  <2> QED BY <2>2, KeyInv
<1> QED BY <1>1, <1>2, <1>3, <1>4, <1>5 DEF Next

LEMMA InvHolds == Spec => []ModalInv
BY InvInit, InvStep, PTL DEF Spec

-----------------------------------------------------------------------------
(* The types.  Whatever the keys and the server do, a modal is one of the   *)
(* modals the keys know, a form one of the forms build_request knows, the   *)
(* selection within its bound, and no reply comes to a request never sent.  *)
THEOREM ModalTypes == Spec => []TypeOK
<1>1. ASSUME ModalInv PROVE TypeOK
  <2>1. /\ modal.kind \in {"none", "form", "confirm", "reveal", "detail", "menu", "fs_status",
                           "logs", "palette"}
        /\ modal.kind = "form" => modal.form \in FormKinds
    BY <1>1 DEF ModalInv, ModalOK, Modals, FormModals, ConfirmModals, MenuModals, RowModals,
                PlainModals, None
  <2>2. /\ tab \in View /\ selected \in 1..2
        /\ sends \in 0..Sends /\ Len(sent) + minted <= sends
    BY <1>1 DEF ModalInv, Counters
  <2> QED BY <2>1, <2>2 DEF TypeOK
<1> QED BY <1>1, InvHolds, PTL

(* A secret that is shown once stays on the screen until a key dismisses    *)
(* it, unless two tokens were asked for at once (store_response).           *)
THEOREM SecretKept == Spec => []SecretStays
<1>1. ModalInv => SecretStays
  BY DEF ModalInv, SecretOK, SecretStays
<1> QED BY <1>1, InvHolds, PTL

(* What a step does to the requests under way: a key adds one at most, the  *)
(* server takes the first, and nothing else touches them.                   *)
LEMMA StepKinds ==
  ASSUME ModalInv, [Next]_vars
  PROVE  \/ KeyEffect
         \/ Serve
         \/ sent' = sent /\ modal'.kind \in {modal.kind, "reveal"}
<1>1. CASE ViewKey \/ ModalKey
  BY <1>1, EveryKey DEF ModalInv, KeyState
<1>2. CASE OtherChanges
  BY <1>2 DEF OtherChanges
<1>3. CASE TokenCreated
  BY <1>3, PlainIsOK DEF TokenCreated, Quiet
<1>4. ASSUME NEW v \in View, Refreshed(v)
      PROVE  sent' = sent /\ modal'.kind = modal.kind
  <2>1. sent' = sent /\ modal' = ModalKept
    BY <1>4 DEF Refreshed, Quiet
  <2>2. CASE modal.kind = "menu"
    <3>1. modal \in MenuModals
      BY <2>2 DEF ModalInv, ModalOK, Modals, FormModals, ConfirmModals, MenuModals, RowModals,
                  PlainModals, None
    <3> QED BY <2>1, <2>2, <3>1 DEF ModalKept, MenuModals
  <2>3. CASE modal.kind # "menu"
    BY <2>1, <2>3 DEF ModalKept
  <2> QED BY <2>1, <2>2, <2>3
<1>5. ASSUME NEW i \in 1..2, StripArrives(i)
      PROVE  sent' = sent /\ modal' = modal
  BY <1>5 DEF StripArrives, Quiet
<1>6. CASE UNCHANGED vars
  BY <1>6 DEF vars
<1> QED BY <1>1, <1>2, <1>3, <1>4, <1>5, <1>6 DEF Next, Incoming

(* Destroying a filesystem and wiping a device take a modal that names it   *)
(* and its own name typed there; a device was listed as free when the modal *)
(* opened (handle_confirm_key, open_wipe_confirm).                          *)
THEOREM DestructionIsTyped == Spec => NothingUntyped
<1> DEFINE A == \A i \in DOMAIN sent' \ DOMAIN sent :
                  sent'[i].method \in Destructive =>
                    /\ modal.kind = "confirm" /\ modal.about = sent'[i].about
                    /\ modal.input = sent'[i].about.name
                    /\ sent'[i].method = "device.wipe" => ~sent'[i].about.flag
<1>1. ASSUME ModalInv, [Next]_vars PROVE A
  <2>1. SentOK
    BY <1>1 DEF ModalInv
  <2>2. CASE KeyEffect
    <3>1. CASE Quiet
      BY <3>1 DEF Quiet
    <3>2. CASE Sends1
      <4>1. PICK r \in Requests : RequestOK(r) /\ Allowed(r) /\ Send(r)
        BY <3>2 DEF Sends1
      <4>2. \A i \in DOMAIN sent' \ DOMAIN sent : sent'[i] = r
        BY <2>1, <4>1, SendIs
      <4> QED BY <4>1, <4>2 DEF Allowed
    <3> QED BY <2>2, <3>1, <3>2 DEF KeyEffect
  <2>3. CASE Serve
    <3>1. DOMAIN sent' \subseteq DOMAIN sent
      BY <2>1, <2>3, ServedIs, LenProperties
    <3> QED BY <3>1
  <2>4. CASE sent' = sent
    BY <2>4
  <2> QED BY <1>1, <2>2, <2>3, <2>4, StepKinds
<1>2. ModalInv /\ [Next]_vars => [A]_vars
  BY <1>1
<1> QED BY <1>2, InvHolds, PTL DEF Spec, NothingUntyped

(* What the device menu opens is about the device in its title, unless a    *)
(* list was replaced meanwhile (handle_context_menu_key).                   *)
THEOREM MenuObjectKept == Spec => MenuKeepsObject
<1> DEFINE A == modal.kind = "menu" /\ modal.about.sort = "device"
                  /\ modal'.kind \in {"form", "confirm"}
                  => modal'.about.name = modal.about.name \/ ~modal.fresh
<1>1. ASSUME ModalInv, [Next]_vars PROVE A
  <2> SUFFICES ASSUME modal.kind = "menu", modal'.kind \in {"form", "confirm"}, modal.fresh
               PROVE  modal'.about = modal.about
    OBVIOUS
  <2>1. Selection = modal.about
    BY <1>1 DEF ModalInv, MenuOK
  <2>2. CASE KeyEffect
    BY <2>1, <2>2 DEF KeyEffect, MenuEffect
  <2>3. CASE Serve
    BY <2>3 DEF Serve
  <2> QED BY <1>1, <2>2, <2>3, StepKinds
<1>2. ModalInv /\ [Next]_vars => [A]_vars
  BY <1>1
<1> QED BY <1>2, InvHolds, PTL DEF Spec, MenuKeepsObject

(* Where a row has the name a request is about, it is found there.          *)
LEMMA HomeIsView ==
  ASSUME RowsOK, NEW r, NEW v \in View, NEW i \in DOMAIN rows[v], rows[v][i].name = r.about.name
  PROVE  Home(r) = v /\ Positions(v, r.about.name) # {}
<1>1. Positions(v, r.about.name) # {}
  BY DEF Positions
<1>2. Home(r) \in View /\ Positions(Home(r), r.about.name) # {}
  BY <1>1 DEF Home
<1>3. PICK j \in DOMAIN rows[Home(r)] : rows[Home(r)][j].name = r.about.name
  BY <1>2 DEF Positions
<1> QED BY <1>1, <1>2, <1>3 DEF RowsOK

(* The step that serves a request sends the sequence on.                    *)
LEMMA OnlyServeShortens ==
  ASSUME ModalInv, [Next]_vars, Len(sent') < Len(sent)
  PROVE  Serve
<1>1. SentOK /\ Len(sent) \in Nat
  BY LenProperties DEF ModalInv, SentOK
<1>2. CASE KeyEffect
  <2>1. CASE Quiet
    BY <1>1, <2>1 DEF Quiet
  <2>2. CASE Sends1
    <3>1. PICK r \in Requests : RequestOK(r) /\ Send(r)
      BY <2>2 DEF Sends1
    <3>2. Len(sent') = Len(sent) + 1
      BY <1>1, <3>1, SendIs
    <3> QED BY <1>1, <3>2
  <2> QED BY <1>2, <2>1, <2>2 DEF KeyEffect
<1>3. CASE sent' = sent
  BY <1>1, <1>3
<1> QED BY <1>2, <1>3, StepKinds

(* Adding or removing one member changes the share by that one member, if   *)
(* nobody changed it since the list behind the modal (build_request,        *)
(* handle_detail_key, which send the whole list).                           *)
THEOREM OneMemberChanges == Spec => OneMemberAtATime
<1> DEFINE A == \A v \in View : \A i \in DOMAIN rows[v] :
                  /\ Len(sent') < Len(sent) /\ Served.members # Null
                  /\ rows[v][i].name = Served.about.name /\ rows[v][i].rev = Served.about.rev
                  => {m \in Member : (m \in rows[v][i].members) # (m \in rows'[v][i].members)}
                       \subseteq Served.asked
<1>1. ASSUME ModalInv, [Next]_vars PROVE A
  <2> SUFFICES ASSUME NEW v \in View, NEW i \in DOMAIN rows[v],
                      Len(sent') < Len(sent), Served.members # Null,
                      rows[v][i].name = Served.about.name, rows[v][i].rev = Served.about.rev,
                      NEW m \in Member, (m \in rows[v][i].members) # (m \in rows'[v][i].members)
               PROVE  m \in Served.asked
    OBVIOUS
  <2>1. Serve /\ SentOK /\ RowsOK
    BY <1>1, OnlyServeShortens DEF ModalInv
  <2>2. /\ RequestOK(Served) /\ Served.about # Null /\ Copy(Served.about)
        /\ \A x \in Member : (x \in Served.members) # (x \in Served.about.members) => x \in Served.asked
    BY <2>1, ServedIs DEF RequestOK
  <2>3. rows[v][i] = Served.about
    BY <2>2 DEF Copy
  <2>4. Home(Served) = v /\ Positions(v, Served.about.name) # {}
    BY <2>1, HomeIsView
  <2>5. Applied(Served)
    BY <2>1, <2>2, <2>4 DEF Serve
  <2>6. Revised(v, Served.about.name, "members", Served.members)
    BY <2>4, <2>5, AppliedCases
  <2>7. rows'[v][i].members = Served.members
    <3>1. rows[v][i] \in RowSet /\ rows \in [View -> Seq(RowSet)]
      BY <2>1, RowTypes DEF RowsOK
    <3> QED BY <2>6, <3>1 DEF Revised, RowSet
  <2> QED BY <2>2, <2>3, <2>7
<1>2. ModalInv /\ [Next]_vars => [A]_vars
  BY <1>1
<1> QED BY <1>2, InvHolds, PTL DEF Spec, OneMemberAtATime

(* Editing a filesystem leaves a reconcile switch nobody touched as it is,  *)
(* if the form was opened on the filesystem's own status and nobody changed *)
(* it since (store_response, open_edit_fs_form, build_request).             *)
THEOREM SwitchUntouched == Spec => SwitchKept
<1> DEFINE A == \A v \in View : \A i \in DOMAIN rows[v] :
                  /\ Len(sent') < Len(sent) /\ Served.method = "fs.options.update"
                  /\ rows[v][i].name = Served.about.name /\ rows[v][i].rev = Served.basis
                  => rows'[v][i].switch = rows[v][i].switch
<1>1. ASSUME ModalInv, [Next]_vars PROVE A
  <2> SUFFICES ASSUME NEW v \in View, NEW i \in DOMAIN rows[v],
                      Len(sent') < Len(sent),
                      rows[v][i].name = Served.about.name, rows[v][i].rev = Served.basis
               PROVE  rows'[v][i].switch = rows[v][i].switch
    OBVIOUS
  <2>1. Serve /\ SentOK /\ RowsOK
    BY <1>1, OnlyServeShortens DEF ModalInv
  <2>2. rows[v][i] \in RowSet /\ rows \in [View -> Seq(RowSet)] /\ rows[v][i].rev \in Nat
    BY <2>1, RowTypes DEF RowsOK
  <2>3. Served.basis # Null
    BY <2>2, NullIsNoRev
  <2>4. /\ Served.about # Null /\ Served.members = Null /\ Served.switch # Null
        /\ Shown(Served.about.name, Served.basis, Served.switch)
    BY <2>1, <2>3, ServedIs DEF RequestOK
  <2>5. Served.switch = rows[v][i].switch
    BY <2>4 DEF Shown
  <2>6. Home(Served) = v /\ Positions(v, Served.about.name) # {}
    BY <2>1, HomeIsView
  <2>7. Applied(Served)
    BY <2>1, <2>4, <2>6 DEF Serve
  <2>8. Revised(v, Served.about.name, "switch", Served.switch)
    BY <2>4, <2>6, <2>7, AppliedCases
  <2>9. rows'[v][i].switch = Served.switch
    BY <2>2, <2>8 DEF Revised, RowSet
  <2> QED BY <2>5, <2>9
<1>2. ModalInv /\ [Next]_vars => [A]_vars
  BY <1>1
<1> QED BY <1>2, InvHolds, PTL DEF Spec, SwitchKept
=============================================================================
