------------------------------ MODULE Exports ------------------------------
(* Filesystems, the protocols that export them, and the requests that check *)
(* one against the other (src/src/rpc/{mod,share,fs,service,smb}.rs), with  *)
(* the restore work that runs beside them at startup (src/src/serve.rs).    *)
(* The engine that carries a request out is external: a call of it takes    *)
(* effect or fails.  Every check is an await of its own, so that other      *)
(* requests run between a check and what it guards.                         *)
EXTENDS Naturals, Sequences, FiniteSets

CONSTANTS Task,       \* requests in progress, one connection or REST call each
          RestTask,   \* those that are REST calls: the client may hang up
          Fs,         \* filesystems
          Image,      \* paths of block images and of their devices
          Under,      \* the filesystem the image of each lies on
          Named,      \* those that begin with the path of that filesystem: the
                      \* image file does, the loop device of a block subvolume does not
          Protocol,   \* protocols of the instance
          Requests,   \* requests of the instance
          Null

FileSide == {"nfs", "smb"}
BlockSide == {"iscsi", "nvmeof"}
Place == Fs \cup Image

(* A claim puts a place under a protocol: a share of a directory, a LUN or  *)
(* a namespace on an image.  "edit" stands for what changes neither: ACLs,  *)
(* hosts, portals, ports, options.  rdma: an iSER portal or RDMA port.      *)
Request ==
  [op : {"add", "remove"}, p : FileSide, at : Fs, rdma : {FALSE}]
  \cup [op : {"add"}, p : {"iscsi"}, at : Image, rdma : BOOLEAN]
  \cup [op : {"add"}, p : {"nvmeof"}, at : Image, rdma : {FALSE}]
  \cup [op : {"remove"}, p : BlockSide, at : Image, rdma : {FALSE}]
  \cup [op : {"edit"}, p : BlockSide, at : {Null}, rdma : BOOLEAN]
  \cup [op : {"edit"}, p : FileSide, at : {Null}, rdma : {FALSE}]
  \cup [op : {"enable", "disable"}, p : Protocol, at : {Null}, rdma : {FALSE}]
  \cup [op : {"create", "destroy", "mount", "unmount", "evacuate"}, p : {Null}, at : Fs,
        rdma : {FALSE}]

ASSUME ExportsAssumption ==
  /\ RestTask \subseteq Task
  /\ Fs \cap Image = {}
  /\ Under \in [Image -> Fs] /\ Named \subseteq Image
  /\ Protocol \subseteq FileSide \cup BlockSide
  /\ Requests \subseteq Request

VARIABLES
  enabled,    \* protocols enabled (persisted)
  running,    \* protocols whose service runs
  rdma,       \* the RDMA opt-in of the box
  fs,         \* filesystems: absent, unmounted or mounted
  attached,   \* mounted filesystems whose block devices are attached
  exports,    \* claims: which place each protocol exports
  settings,   \* the other settings of each protocol's shares
  job,        \* what each task does
  evac,       \* the background evacuation of each filesystem
  unseen,     \* filesystems whose devices moved since the last event
  restoring,  \* where the restore work stands
  todo,       \* the protocols it still has to enable
  failed,     \* history: protocols whose start failed
  skipped     \* history: filesystems whose mount was cut off before the attach

boxVars == <<enabled, running, rdma, fs, attached, exports, settings>>
restoreVars == <<restoring, todo>>
evacVars == <<evac, unseen>>
vars == <<boxVars, job, evacVars, restoreVars, failed, skipped>>

Base(pl) == IF pl \in Fs THEN pl ELSE Under[pl]

-----------------------------------------------------------------------------
(* The awaits of a handler, in order.                                       *)
Step(what, p) == [what |-> what, p |-> p]

(* Mutation: NVMe-oF namespaces are forgotten.                              *)
InUseWalkShort == <<Step("unused", "nfs"), Step("unused", "smb"), Step("unused", "iscsi")>>

(* check_filesystem_in_use lists the four kinds one after the other.        *)
InUseWalk ==
  <<Step("unused", "nfs"), Step("unused", "smb"), Step("unused", "iscsi"),
    Step("unused", "nvmeof")>>

(* Mutation: the excluded protocol is the wrong one.                        *)
ConflictWalkOwn(p) == <<Step("free", p)>>

(* check_block_device_conflict lists the other block protocol.              *)
ConflictWalk(p) == <<Step("free", IF p = "iscsi" THEN "nvmeof" ELSE "iscsi")>>

RdmaCheck(r) == IF r.rdma THEN <<Step("rdma", r.p)>> ELSE <<>>

(* Mutation: removals and edits are not held back.                          *)
ShareChecksAddOnly(r) ==
  (IF r.op = "add" THEN <<Step("enabled", r.p)>> ELSE <<>>) \o RdmaCheck(r)

(* Every arm of share.* that is not a query: require_protocol first, then   *)
(* require_rdma where a portal or port asks for it.                         *)
ShareChecks(r) == <<Step("enabled", r.p)>> \o RdmaCheck(r)

(* Mutation: the cascade comes before the mount.                            *)
MountStepsSwapped == <<Step("attach", Null), Step("act", Null)>>

(* fs.mount: the mount, then the cascade restore_block_devices.             *)
MountSteps == <<Step("act", Null), Step("attach", Null)>>

Steps(r) ==
  CASE r.op = "add" ->
         ShareChecks(r) \o (IF r.p \in BlockSide THEN ConflictWalk(r.p) ELSE <<>>)
           \o <<Step("act", r.p)>>
    [] r.op \in {"remove", "edit"} -> ShareChecks(r) \o <<Step("act", r.p)>>
    [] r.op = "destroy" -> InUseWalk \o <<Step("act", Null)>>
    [] r.op = "mount" -> MountSteps
    [] OTHER -> <<Step("act", Null)>>

(* A job carries three histories: "late", the claims that appeared where    *)
(* the task had already looked; "blind", the protocols whose listing        *)
(* failed; "seen", what it depends on and was on at some time since it      *)
(* began.                                                                   *)
Idle == [req |-> Null, steps |-> <<>>, late |-> {}, blind |-> {}, seen |-> {}]

Busy(t) == job[t] # Idle

At(t, what) == Busy(t) /\ Head(job[t].steps).what = what

Advanced(j) == IF Len(j.steps) = 1 THEN Idle ELSE [j EXCEPT !.steps = Tail(@)]

Advance(t) == job' = [job EXCEPT ![t] = Advanced(@)]

Answer(t) == job' = [job EXCEPT ![t] = Idle]

(* Whether the check of a request sees a claim, if it is there: the check   *)
(* for a filesystem goes by how the path of the claim begins, the other one *)
(* compares whole paths.                                                    *)
Concerns(r, e) ==
  \/ r.op = "destroy" /\ Base(e[2]) = r.at /\ e[2] \in Fs \cup Named
  \/ r.op = "add" /\ {r.p, e[1]} = BlockSide /\ e[2] = r.at

Looked(j, p) == \A i \in DOMAIN j.steps : j.steps[i] \notin {Step("unused", p), Step("free", p)}

NotedLate(j, e) ==
  IF j # Idle /\ Concerns(j.req, e) /\ Looked(j, e[1]) THEN [j EXCEPT !.late = @ \cup {e}] ELSE j

NotedOn(j, what) ==
  IF j # Idle /\ (j.req.p = what \/ (what = "rdma" /\ j.req.rdma))
  THEN [j EXCEPT !.seen = @ \cup {what}] ELSE j

-----------------------------------------------------------------------------
(* A box that boots: any protocols enabled, any filesystem mounted.         *)
Init ==
  /\ enabled \in SUBSET Protocol
  /\ running \in SUBSET enabled
  /\ rdma \in BOOLEAN
  /\ fs \in [Fs -> {"absent", "unmounted"}]
  /\ attached = {}
  /\ exports = {}
  /\ settings = [p \in Protocol |-> "plain"]
  /\ job = [t \in Task |-> Idle]
  /\ evac = [f \in Fs |-> "none"]
  /\ unseen = {}
  /\ restoring = "mounts"
  /\ todo = {}
  /\ failed = {}
  /\ skipped = {}

(* A request of the dispatcher reaches its arm.                             *)
Begin(t, r) ==
  /\ ~Busy(t)
  /\ job' = [job EXCEPT ![t] =
       [req |-> r, steps |-> Steps(r), late |-> {}, blind |-> {},
        seen |-> (enabled \cap {r.p}) \cup (IF r.rdma /\ rdma THEN {"rdma"} ELSE {})]]
  /\ UNCHANGED <<boxVars, evacVars, restoreVars, failed, skipped>>

(* require_protocol.                                                        *)
RequireProtocol(t) ==
  /\ At(t, "enabled")
  /\ IF Head(job[t].steps).p \in enabled THEN Advance(t) ELSE Answer(t)
  /\ UNCHANGED <<boxVars, evacVars, restoreVars, failed, skipped>>

(* require_rdma: the opt-in, then the kernel module, which may not load.    *)
RequireRdma(t) ==
  /\ At(t, "rdma")
  /\ (rdma /\ Advance(t)) \/ Answer(t)
  /\ UNCHANGED <<boxVars, evacVars, restoreVars, failed, skipped>>

(* A listing that succeeds and names the place ends the request ...         *)
Listed(t) ==
  /\ At(t, "unused") \/ At(t, "free")
  /\ IF \E e \in exports : e[1] = Head(job[t].steps).p /\ Concerns(job[t].req, e)
     THEN Answer(t)
     ELSE Advance(t)
  /\ UNCHANGED <<boxVars, evacVars, restoreVars, failed, skipped>>

(* ... and one that fails counts as empty (`if let Ok`).                    *)
ListingFailed(t) ==
  /\ At(t, "unused") \/ At(t, "free")
  /\ job' = [job EXCEPT ![t] =
       [Advanced(job[t]) EXCEPT !.blind = @ \cup {Head(job[t].steps).p}]]
  /\ UNCHANGED <<boxVars, evacVars, restoreVars, failed, skipped>>

(* The client of a REST call hangs up: its handler is dropped at an await.  *)
HangUp(t) ==
  /\ t \in RestTask /\ Busy(t)
  /\ Answer(t)
  /\ skipped' = IF At(t, "attach") THEN skipped \cup {job[t].req.at} ELSE skipped
  /\ UNCHANGED <<boxVars, evacVars, restoreVars, failed>>

-----------------------------------------------------------------------------
(* The engine calls.                                                        *)
Acting(t, op) == At(t, "act") /\ job[t].req.op = op

EngineFails(t) ==
  /\ At(t, "act")
  /\ Answer(t)
  /\ UNCHANGED <<boxVars, evacVars, restoreVars, failed, skipped>>

Add(t) ==
  /\ Acting(t, "add")
  /\ LET e == <<job[t].req.p, job[t].req.at>> IN
       /\ exports' = exports \cup {e}
       /\ job' = [u \in Task |-> IF u = t THEN Idle ELSE NotedLate(job[u], e)]
  /\ settings' = IF job[t].req.rdma THEN [settings EXCEPT ![job[t].req.p] = "rdma"] ELSE settings
  /\ UNCHANGED <<enabled, running, rdma, fs, attached, evacVars, restoreVars, failed, skipped>>

Remove(t) ==
  /\ Acting(t, "remove")
  /\ exports' = exports \ {<<job[t].req.p, job[t].req.at>>}
  /\ Answer(t)
  /\ UNCHANGED <<enabled, running, rdma, fs, attached, settings, evacVars, restoreVars, failed,
                 skipped>>

Edit(t) ==
  /\ Acting(t, "edit")
  /\ \E v \in IF job[t].req.rdma THEN {"rdma"} ELSE {"plain", "edited"} :
       settings' = [settings EXCEPT ![job[t].req.p] = v]
  /\ Answer(t)
  /\ UNCHANGED <<enabled, running, rdma, fs, attached, exports, evacVars, restoreVars, failed,
                 skipped>>

CreateFs(t) ==
  /\ Acting(t, "create") /\ fs[job[t].req.at] = "absent"
  /\ fs' = [fs EXCEPT ![job[t].req.at] = "mounted"]
  /\ attached' = attached \cup {job[t].req.at}
  /\ Answer(t)
  /\ UNCHANGED <<enabled, running, rdma, exports, settings, evacVars, restoreVars, failed, skipped>>

(* Mutation: the block devices stay attached.                               *)
GoneAlone(f, state) ==
  /\ fs' = [fs EXCEPT ![f] = state]
  /\ skipped' = skipped \ {f}
  /\ UNCHANGED attached

(* A filesystem that goes takes its block devices with it.                  *)
Gone(f, state) ==
  /\ fs' = [fs EXCEPT ![f] = state]
  /\ attached' = attached \ {f}
  /\ skipped' = skipped \ {f}

Destroy(t) ==
  /\ Acting(t, "destroy") /\ fs[job[t].req.at] # "absent"
  /\ Gone(job[t].req.at, "absent")
  /\ Answer(t)
  /\ UNCHANGED <<enabled, running, rdma, exports, settings, evacVars, restoreVars, failed>>

Unmount(t) ==
  /\ Acting(t, "unmount") /\ fs[job[t].req.at] = "mounted"
  /\ Gone(job[t].req.at, "unmounted")
  /\ Answer(t)
  /\ UNCHANGED <<enabled, running, rdma, exports, settings, evacVars, restoreVars, failed>>

Mount(t) ==
  /\ Acting(t, "mount") /\ fs[job[t].req.at] = "unmounted"
  /\ fs' = [fs EXCEPT ![job[t].req.at] = "mounted"]
  /\ Advance(t)
  /\ UNCHANGED <<enabled, running, rdma, attached, exports, settings, evacVars, restoreVars,
                 failed, skipped>>

(* restore_block_devices attaches what lies on any mounted filesystem.      *)
Attached == {f \in Fs : fs[f] = "mounted"}

Attach(t) ==
  /\ At(t, "attach")
  /\ attached' = Attached
  /\ skipped' = {}
  /\ Advance(t)
  /\ UNCHANGED <<enabled, running, rdma, fs, exports, settings, evacVars, restoreVars, failed>>

(* protocols.enable: a start that fails may leave the protocol enabled.     *)
Started(p) ==
  \/ /\ enabled' = enabled \cup {p}
     /\ running' = running \cup {p}
     /\ failed' = failed \ {p}
  \/ /\ enabled' \in {enabled, enabled \cup {p}}
     /\ failed' = failed \cup {p}
     /\ UNCHANGED running

Enable(t) ==
  /\ Acting(t, "enable")
  /\ Started(job[t].req.p)
  /\ job' = [u \in Task |-> IF u = t THEN Idle
                            ELSE IF job[t].req.p \in enabled' THEN NotedOn(job[u], job[t].req.p)
                            ELSE job[u]]
  /\ UNCHANGED <<rdma, fs, attached, exports, settings, evacVars, restoreVars, skipped>>

Disable(t) ==
  /\ Acting(t, "disable")
  /\ enabled' = enabled \ {job[t].req.p}
  /\ running' = running \ {job[t].req.p}
  /\ Answer(t)
  /\ UNCHANGED <<rdma, fs, attached, exports, settings, evacVars, restoreVars, failed, skipped>>

(* The operator of the box switches the RDMA opt-in.                        *)
RdmaSwitched ==
  /\ rdma' = ~rdma
  /\ job' = [t \in Task |-> IF rdma' THEN NotedOn(job[t], "rdma") ELSE job[t]]
  /\ UNCHANGED <<enabled, running, fs, attached, exports, settings, evacVars, restoreVars,
                 failed, skipped>>

-----------------------------------------------------------------------------
(* fs.device.evacuate validates, spawns the evacuation and answers.  Bound: *)
(* one evacuation of a filesystem at a time; nothing in the code limits it. *)
Evacuate(t) ==
  /\ Acting(t, "evacuate") /\ fs[job[t].req.at] = "mounted" /\ evac[job[t].req.at] = "none"
  /\ evac' = [evac EXCEPT ![job[t].req.at] = "moving"]
  /\ Answer(t)
  /\ UNCHANGED <<boxVars, unseen, restoreVars, failed, skipped>>

Moves(f) ==
  /\ evac[f] = "moving"
  /\ unseen' = unseen \cup {f}
  /\ UNCHANGED <<boxVars, job, evac, restoreVars, failed, skipped>>

(* Every 3 s while the evacuation runs.                                     *)
Poll(f) ==
  /\ evac[f] = "moving"
  /\ unseen' = unseen \ {f}
  /\ UNCHANGED <<boxVars, job, evac, restoreVars, failed, skipped>>

(* It ends, is cancelled or fails; the poll task is aborted.                *)
EvacuationEnds(f) ==
  /\ evac[f] = "moving"
  /\ evac' = [evac EXCEPT ![f] = "ended"]
  /\ unseen' = unseen \cup {f}
  /\ UNCHANGED <<boxVars, job, restoreVars, failed, skipped>>

(* Mutation: the last event is the poll's.                                  *)
NothingSent(f) == unseen' = unseen
Sent(f) == unseen' = unseen \ {f}

FinalEvent(f) ==
  /\ evac[f] = "ended"
  /\ evac' = [evac EXCEPT ![f] = "none"]
  /\ Sent(f)
  /\ UNCHANGED <<boxVars, job, restoreVars, failed, skipped>>

-----------------------------------------------------------------------------
(* restore(), spawned before the server listens.                            *)
RestoreMounts ==
  /\ restoring = "mounts"
  /\ \E S \in SUBSET {f \in Fs : fs[f] = "unmounted"} :
       fs' = [f \in Fs |-> IF f \in S THEN "mounted" ELSE fs[f]]
  /\ restoring' = "attach"
  /\ UNCHANGED <<enabled, running, rdma, attached, exports, settings, job, evacVars, todo, failed,
                 skipped>>

RestoreDevices ==
  /\ restoring = "attach"
  /\ attached' = Attached
  /\ skipped' = {}
  /\ restoring' = "list"
  /\ UNCHANGED <<enabled, running, rdma, fs, exports, settings, job, evacVars, todo, failed>>

RestoreList ==
  /\ restoring = "list"
  /\ todo' = enabled \ running
  /\ restoring' = "enable"
  /\ UNCHANGED <<boxVars, job, evacVars, failed, skipped>>

(* Mutation: the first protocol that does not start ends the loop.          *)
RestGivenUp(p) == IF p \in failed' THEN {} ELSE todo \ {p}

RestLeft(p) == todo \ {p}

RestoreProtocol(p) ==
  /\ restoring = "enable" /\ p \in todo
  /\ Started(p)
  /\ todo' = RestLeft(p)
  /\ job' = [t \in Task |-> IF p \in enabled' THEN NotedOn(job[t], p) ELSE job[t]]
  /\ UNCHANGED <<rdma, fs, attached, exports, settings, evacVars, restoring, skipped>>

RestoreDone ==
  /\ restoring = "enable" /\ todo = {}
  /\ restoring' = "done"
  /\ UNCHANGED <<boxVars, job, evacVars, todo, failed, skipped>>

-----------------------------------------------------------------------------
Check(t) == RequireProtocol(t) \/ RequireRdma(t) \/ Listed(t) \/ ListingFailed(t)

Engine(t) ==
  EngineFails(t) \/ Add(t) \/ Remove(t) \/ Edit(t) \/ CreateFs(t) \/ Destroy(t) \/ Mount(t)
  \/ Unmount(t) \/ Attach(t) \/ Enable(t) \/ Disable(t) \/ Evacuate(t)

Restore ==
  \/ RestoreMounts \/ RestoreDevices \/ RestoreList \/ RestoreDone
  \/ \E p \in Protocol : RestoreProtocol(p)

Evacuation(f) == Moves(f) \/ Poll(f) \/ EvacuationEnds(f) \/ FinalEvent(f)

Requesting ==
  \E t \in Task : (\E r \in Requests : Begin(t, r)) \/ Check(t) \/ Engine(t) \/ HangUp(t)

Next ==
  \/ Requesting
  \/ \E f \in Fs : Evacuation(f)
  \/ Restore
  \/ RdmaSwitched

Spec == Init /\ [][Next]_vars

(* The runtime polls the restore task, the poll task and the evacuation's   *)
(* own task; nothing is assumed of the clients' requests.                   *)
Fairness == WF_vars(Restore) /\ \A f \in Fs : WF_vars(Poll(f)) /\ WF_vars(FinalEvent(f))

FairSpec == Spec /\ Fairness

-----------------------------------------------------------------------------
(* Types, and: only a mounted filesystem has its devices attached, only an  *)
(* enabled protocol runs.                                                   *)
TypeOK ==
  /\ enabled \subseteq Protocol /\ running \subseteq enabled
  /\ rdma \in BOOLEAN
  /\ fs \in [Fs -> {"absent", "unmounted", "mounted"}]
  /\ attached \subseteq Attached
  /\ exports \subseteq Protocol \X Place
  /\ settings \in [Protocol -> {"plain", "edited", "rdma"}]
  /\ \A t \in Task : Busy(t) => job[t].req \in Requests /\ job[t].steps # <<>>
  /\ evac \in [Fs -> {"none", "moving", "ended"}] /\ unseen \subseteq Fs
  /\ restoring \in {"mounts", "attach", "list", "enable", "done"}
  /\ todo \subseteq Protocol /\ failed \subseteq Protocol /\ skipped \subseteq Fs

(* A destroyed filesystem leaves claims behind only if they appeared after  *)
(* the request had listed their protocol, or that listing had failed, or    *)
(* they are claims on a device, whose path does not tell the filesystem:    *)
(* each kind of claim has a window of its own, and nothing else slips       *)
(* through (check_filesystem_in_use).                                       *)
DestroySeesExports ==
  [][\A t \in Task, e \in exports :
       fs[Base(e[2])] # "absent" /\ fs'[Base(e[2])] = "absent" /\ Acting(t, "destroy")
         /\ job'[t] = Idle /\ job[t].req.at = Base(e[2])
         => \/ e \in job[t].late \/ e[1] \in job[t].blind
            \/ e[2] \notin Fs \cup Named]_vars

(* One path comes under both block protocols only if the second claim was   *)
(* checked before the first one appeared, or the listing had failed         *)
(* (check_block_device_conflict).                                           *)
ClaimSeesExports ==
  [][\A t \in Task, q \in BlockSide :
       Acting(t, "add") /\ job[t].req.p \in BlockSide /\ exports' # exports /\ job'[t] = Idle
         /\ q # job[t].req.p /\ <<q, job[t].req.at>> \in exports
         => <<q, job[t].req.at>> \in job[t].late \/ q \in job[t].blind]_vars

(* The shares of a protocol change only in requests during which it was     *)
(* enabled, and come under RDMA only in requests during which the opt-in    *)
(* was on; it may be off again by then.                                     *)
GuardedByProtocol ==
  [][\A t \in Task, p \in Protocol :
       At(t, "act") /\ job'[t] = Idle
       /\ (settings'[p] # settings[p] \/ {e \in exports : e[1] = p} # {e \in exports' : e[1] = p})
       => /\ p \in job[t].seen
          /\ (settings'[p] = "rdma" /\ settings[p] # "rdma") => "rdma" \in job[t].seen]_vars

(* Once the restore work has looked after the devices, a mounted filesystem *)
(* has its block devices attached, is about to have them attached by the    *)
(* request that mounts it, or lost that request to a client that hung up.   *)
MountAttaches ==
  restoring \notin {"mounts", "attach"} =>
    \A f \in Fs : fs[f] = "mounted" =>
      f \in attached \cup skipped \/ \E t \in Task : At(t, "attach")

(* Every protocol that was enabled when the box booted runs in the end,     *)
(* unless its start fails or a client disables it.                          *)
RestoreResumes ==
  \A p \in Protocol : p \in enabled ~> p \in running \cup failed \/ p \notin enabled

(* Whatever an evacuation moves is followed by an event, its last move too, *)
(* though the poll task is aborted at some point.                           *)
EveryMoveSeen == \A f \in Fs : f \in unseen ~> f \notin unseen
=============================================================================
