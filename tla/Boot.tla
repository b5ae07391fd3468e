-------------------------------- MODULE Boot --------------------------------
(***************************************************************************)
(* src/src/system/Boot.js: the top-level state machine.  It probes the     *)
(* disks, joins what it needs to know (the bound user sent by the daemon,  *)
(* the bound volume and the preset kept in the chassis), starts Fruitmix   *)
(* on the bound volume, and initialises, imports, repairs, extends or      *)
(* shrinks that volume on request.  Each operation is a chain of awaited   *)
(* commands; other chains, messages, plugged disks and crashes come in     *)
(* between.                                                                *)
(*                                                                         *)
(* Two products are modelled: "winas", which serves whatever USB volume it *)
(* finds and refuses every operation, and "ws215i".                        *)
(***************************************************************************)
EXTENDS Integers, Sequences, FiniteSets

CONSTANTS Devs,           \* device slots
          Vols,           \* 1 .. n, volume uuids
          Users,          \* cloud users
          Requests,       \* 1 .. m, calls of the API
          Machines,       \* what the machine may be when it is first switched on
          Bounds,         \* how often each kind of event may come from outside
          MaxTroubles     \* crashes, failures and changes of disks together

ASSUME NumbersAssumption ==
  /\ IsFiniteSet(Vols) /\ Vols = 1 .. Cardinality(Vols)
  /\ IsFiniteSet(Requests) /\ Requests = 1 .. Cardinality(Requests)
ASSUME BoundsAssumption == /\ Bounds \in [{"crash", "fault", "plug", "tell"} -> Nat]
                           /\ MaxTroubles \in Nat

\* "none" is null, "unknown" is undefined, "legacy" an admin without a winasUserId.
Unowned == {"none", "unknown", "legacy"}
ASSUME UsersAssumption == Users \cap Unowned = {}

VARIABLES product,
          disk,       \* what is on the disks: plugged slots, the volume each slot
                      \* holds, the members and the admin of each volume
          flash,      \* the chassis files volume.json and preset.json
          chassis, loaded,            \* prepareChassisDirs, stores that have loaded
          bound, preset, boundUser,   \* volumeStore.data, preset, boundUser
          state,
          storage,    \* ctx.storage, the last probe
          serving, given,   \* the volume Fruitmix was started on, its bound user
          jobs, busy,       \* Started: jobs, and the one in workingJobs
          starts,           \* entries into Started: numbers its own jobs
          work,             \* the chains in progress
          saves,            \* volumeStore saves, in their order
          changed,          \* udev reported a change that is not probed yet
          asked, answer,    \* the calls of the API
          spent             \* what the environment has done

known == <<chassis, loaded, bound, preset, boundUser>>
running == <<serving, given, jobs, busy, starts>>
chains == <<work, saves>>
process == <<known, state, storage, running, chains, changed>>
client == <<asked, answer>>
vars == <<product, disk, flash, process, client, spent>>

Operations == {"init", "import", "repair", "add", "remove"}
NoVolume == [id |-> 0, devs |-> {}]
Records == [id : Vols \cup {0}, devs : SUBSET Devs]
Disks == [plugged : SUBSET Devs, holds : [Devs -> Vols \cup {0}],
          members : [Vols -> SUBSET Devs], admin : [Vols -> Users \cup Unowned]]
Snapshots == [blocks : SUBSET Devs,
              vols : [Vols -> [devs : SUBSET Devs, found : SUBSET Devs,
                               admin : Users \cup Unowned]]]
NoStorage == [blocks |-> {}, vols |-> [v \in Vols |-> [devs |-> {}, found |-> {},
                                                       admin |-> "none"]]]
Chains == [who : Int, op : Operations \cup {"update"}, dev : SUBSET Devs,
           vol : Vols \cup {0},
           step : {"check", "format", "find", "users", "grow", "prune", "mount",
                   "shrink", "update", "recompute", "save"}]

\* A machine that was bound has a volume with an admin.
ASSUME MachinesAssumption ==
  \A m \in Machines : /\ m.product \in {"winas", "ws215i"} /\ m.disk \in Disks
                      /\ m.volume \in Records /\ m.preset \in BOOLEAN
                      /\ m.volume.id # 0 => m.disk.admin[m.volume.id] # "none"

TypeOK ==
  /\ product \in {"winas", "ws215i"}
  /\ disk \in Disks
  /\ flash \in [volume : Records, preset : BOOLEAN]
  /\ chassis \in {"preparing", "ready", "failed"} /\ loaded \subseteq {"volume", "preset"}
  /\ bound \in Records /\ preset \in {"none", "pending"}
  /\ boundUser \in Users \cup {"none", "unknown"}
  /\ state \in {"Probing", "ProbeFailed", "Pending", "Presetting", "EmbedVolumeFailed",
                "Starting", "Started", "Unavailable", "Initializing", "Importing",
                "Repairing", "Adding"}
  /\ storage \in Snapshots
  /\ serving \in Vols \cup {0} /\ given \in Users \cup {"none"}
  /\ jobs \in Seq(Chains)
  /\ busy \in {0} \cup {c.who : c \in work}
  /\ starts \in Nat
  /\ work \subseteq Chains /\ \A c, d \in work : c.who = d.who => c = d
  /\ saves \in Seq([who : Int, data : Records])
  /\ changed \in BOOLEAN
  /\ asked \in [Requests -> Operations \cup {"none"}]
  /\ answer \in [Requests -> {"none", "waiting", "ok", "error", "lost"}]
  /\ spent \in [{"crash", "fault", "plug", "tell"} -> Nat]

-----------------------------------------------------------------------------
\* A probe: the volumes of which a device is found, and the users of the whole ones.
Found(v) == {d \in disk.members[v] \cap disk.plugged : disk.holds[d] = v}
Whole(v) == Found(v) # {} /\ Found(v) = disk.members[v]
Probed == [blocks |-> disk.plugged,
           vols |-> [v \in Vols |->
             [devs |-> IF Found(v) = {} THEN {} ELSE disk.members[v],
              found |-> Found(v),
              admin |-> IF Whole(v) THEN disk.admin[v] ELSE "none"]]]
Present(s, v) == v # 0 /\ s.vols[v].found # {}
Missing(s, v) == s.vols[v].found # s.vols[v].devs

\* bootable().
Bootable(s, u) == /\ u \in Users /\ Present(s, bound.id) /\ ~Missing(s, bound.id)
                  /\ s.vols[bound.id].admin = u

\* Entering Starting on volume v.
EnterStarting(v, u) ==
  /\ state' = "Starting" /\ serving' = v
  /\ given' = IF u \in Users THEN u ELSE "none"

\* next() of ws215i.
GoOn(s, u) ==
  \/ /\ Bootable(s, u) /\ preset # "pending" /\ EnterStarting(bound.id, u)
  \/ /\ Bootable(s, u) /\ preset = "pending"
     /\ state' = "Presetting" /\ UNCHANGED <<serving, given>>
  \/ /\ ~Bootable(s, u)
     /\ state' = "Unavailable" /\ UNCHANGED <<serving, given>>

\* A new process; calls under way get no answer.
Fresh ==
  /\ chassis' = "preparing" /\ loaded' = {} /\ bound' = NoVolume /\ preset' = "none"
  /\ boundUser' = "unknown" /\ state' = "Probing" /\ storage' = NoStorage
  /\ serving' = 0 /\ given' = "none" /\ jobs' = <<>> /\ busy' = 0 /\ starts' = 0
  /\ work' = {} /\ saves' = <<>> /\ changed' = FALSE
Restart ==
  /\ Fresh
  /\ answer' = [r \in Requests |-> IF answer[r] = "waiting" THEN "lost" ELSE answer[r]]
  /\ UNCHANGED asked

Troubles == spent["crash"] + spent["fault"] + spent["plug"]
Spend(what) ==
  /\ spent[what] < Bounds[what]
  /\ what # "tell" => Troubles < MaxTroubles
  /\ spent' = [spent EXCEPT ![what] = @ + 1]

Init ==
  /\ \E m \in Machines :
       /\ product = m.product /\ disk = m.disk
       /\ flash = [volume |-> m.volume, preset |-> m.preset]
  /\ chassis = "preparing" /\ loaded = {} /\ bound = NoVolume /\ preset = "none"
  /\ boundUser = "unknown" /\ state = "Probing" /\ storage = NoStorage
  /\ serving = 0 /\ given = "none" /\ jobs = <<>> /\ busy = 0 /\ starts = 0
  /\ work = {} /\ saves = <<>> /\ changed = FALSE
  /\ asked = [r \in Requests |-> "none"] /\ answer = [r \in Requests |-> "none"]
  /\ spent = [what \in {"crash", "fault", "plug", "tell"} |-> 0]

-----------------------------------------------------------------------------
\* The chassis of ws215i: its directories are made, then the two stores load.  The
\* constructor only records a failure.
Prepare ==
  /\ product = "ws215i" /\ chassis = "preparing"
  /\ \/ chassis' = "ready" /\ UNCHANGED spent
     \/ chassis' = "failed" /\ Spend("fault")
  /\ UNCHANGED <<product, disk, flash, loaded, bound, preset, boundUser, state, storage,
                 running, chains, changed, client>>

\* The stores' 'Update' events call boundVolumeUpdated and presetLoaded, which Pending
\* does not define: they change no state.
LoadVolume ==
  /\ chassis = "ready" /\ "volume" \notin loaded
  /\ loaded' = loaded \cup {"volume"} /\ bound' = flash.volume
  /\ UNCHANGED <<product, disk, flash, chassis, preset, boundUser, state, storage,
                 running, chains, changed, client, spent>>
LoadPreset ==
  /\ chassis = "ready" /\ "preset" \notin loaded
  /\ loaded' = loaded \cup {"preset"}
  /\ preset' = IF flash.preset THEN "pending" ELSE "none"
  /\ UNCHANGED <<product, disk, flash, chassis, bound, boundUser, state, storage,
                 running, chains, changed, client, spent>>
\* presetStore.save(null) returns.
ClearPreset ==
  /\ preset = "pending" /\ flash.preset
  /\ flash' = [flash EXCEPT !.preset = FALSE]
  /\ UNCHANGED <<product, disk, process, client, spent>>

\* winas serves the first embedded volume that is whole, whatever is bound.
EmbedVolumeCheck ==
  \/ \E v \in Vols : Present(Probed, v) /\ ~Missing(Probed, v) /\ EnterStarting(v, boundUser)
  \/ /\ \A v \in Vols : ~Present(Probed, v) \/ Missing(Probed, v)
     /\ state' = "EmbedVolumeFailed" /\ UNCHANGED <<serving, given>>
\* Probing.  A throw of continuable(), whose volumeStore may not exist yet, is caught
\* with the errors of the probe.
ProbeDone ==
  /\ state = "Probing"
  /\ storage' = Probed
  /\ \/ product = "winas" /\ EmbedVolumeCheck
     \/ /\ product = "ws215i" /\ boundUser \in Users
        /\ \/ /\ chassis # "ready"
              /\ state' = "ProbeFailed" /\ UNCHANGED <<serving, given>>
           \/ /\ chassis = "ready" /\ loaded = {"volume", "preset"}
              /\ GoOn(Probed, boundUser)
           \/ /\ chassis = "ready" /\ loaded # {"volume", "preset"}
              /\ state' = "Pending" /\ UNCHANGED <<serving, given>>
     \/ /\ product = "ws215i" /\ boundUser \notin Users
        /\ state' = "Pending" /\ UNCHANGED <<serving, given>>
  /\ UNCHANGED <<product, disk, flash, known, jobs, busy, starts, chains, changed,
                 client, spent>>
ProbeError ==
  /\ state = "Probing" /\ Spend("fault") /\ state' = "ProbeFailed"
  /\ UNCHANGED <<product, disk, flash, known, storage, running, chains, changed, client>>
Retry ==
  /\ state = "ProbeFailed" /\ state' = "Probing"
  /\ UNCHANGED <<product, disk, flash, known, storage, running, chains, changed, client,
                 spent>>

\* setBoundUser().  In ws215i another user ends the process, and Pending asks
\* continuable(), whose TypeError nobody catches here.  In winas a message is handed on
\* in Started only; bindFirstUser makes the admin, or ends the process when there is
\* another one.  Unbinding a bound device (user null) is left out.
\* Mutant: another user is taken over.
OtherExits(u) == \/ product = "ws215i" /\ state = "Pending" /\ u \in Users /\ chassis # "ready"
                 \/ /\ product = "winas" /\ state = "Started"
                    /\ disk.admin[serving] \notin {"none", u}
Exits(u) ==
  \/ product = "ws215i" /\ {u, boundUser} \subseteq Users /\ u # boundUser
  \/ product = "ws215i" /\ state = "Pending" /\ u \in Users /\ chassis # "ready"
  \/ product = "winas" /\ state = "Started" /\ disk.admin[serving] \notin {"none", u}
\* Of what Pending waits for only boundUserUpdated() is ever called.
Joins(u) ==
  product = "ws215i" /\ state = "Pending" /\ u \in Users /\ loaded = {"volume", "preset"}
Tell(u) ==
  /\ Spend("tell")
  /\ u = "none" => product = "ws215i" /\ boundUser \notin Users
  /\ LET forwarded == product = "winas" /\ state = "Started"
     IN  \/ Exits(u) /\ Restart /\ UNCHANGED disk
         \/ /\ ~Exits(u) /\ boundUser' = u
            /\ \/ /\ forwarded /\ given' = u /\ UNCHANGED <<state, serving>>
                  /\ disk' = [disk EXCEPT !.admin[serving] = u]
               \/ Joins(u) /\ GoOn(storage, u) /\ UNCHANGED disk
               \/ ~forwarded /\ ~Joins(u) /\ UNCHANGED <<state, serving, given, disk>>
            /\ UNCHANGED <<chassis, loaded, bound, preset, storage, jobs, busy, starts,
                           chains, changed, client>>
  /\ UNCHANGED <<product, flash>>

\* A chain, and a save that it waits for.
Record(who, v, D) == [who |-> who, data |-> [id |-> v, devs |-> D]]
Chain(who, op, dev, step) ==
  [who |-> who, op |-> op, dev |-> dev, vol |-> bound.id, step |-> step]

At(c, step) == [c EXCEPT !.step = step]
On(c, v) == [c EXCEPT !.vol = v]
With(c, D) == [c EXCEPT !.dev = D]

\* 'FruitmixStarted', and what Started.enter does; Fruitmix has bound its first user.
\* Mutant: Started does not record the volume.
NoJobs == <<>>
FirstJobs == <<Chain(-(starts + 1), "update", {}, "update")>>
FruitmixStarted ==
  /\ state = "Starting"
  /\ \/ /\ given \in Users /\ disk.admin[serving] \notin {"none", given}
        /\ Restart /\ UNCHANGED disk
     \/ /\ given \in Users => disk.admin[serving] \in {"none", given}
        /\ state' = "Started"
        /\ disk' = IF given \in Users THEN [disk EXCEPT !.admin[serving] = given] ELSE disk
        /\ starts' = starts + 1
        /\ jobs' = IF product = "winas" THEN <<>> ELSE FirstJobs
        /\ busy' = 0
        /\ UNCHANGED <<known, storage, serving, given, chains, changed, client>>
  /\ UNCHANGED <<product, flash, spent>>

\* The StorageUpdater probes after a udev event and stores the result.
Refresh ==
  /\ changed /\ changed' = FALSE /\ storage' = Probed
  /\ UNCHANGED <<product, disk, flash, known, state, running, chains, client, spent>>

-----------------------------------------------------------------------------
\* The calls, taken in the order of their numbers.
Asks(r, op) ==
  /\ answer[r] = "none" /\ \A q \in Requests : q < r => answer[q] # "none"
  /\ asked' = [asked EXCEPT ![r] = op]
  /\ UNCHANGED <<product, disk, flash, known, storage, starts, changed, spent>>
Accepts(op) ==
  /\ product = "ws215i"
  /\ \/ state = "Unavailable" /\ op \in Operations \ {"remove"}
     \/ state = "Started" /\ (op = "remove" \/ (op = "add" /\ jobs = <<>>))
Waits(r) == answer' = [answer EXCEPT ![r] = "waiting"]
NewVolumes == {v \in Vols : disk.members[v] = {}}

\* The defaults of State, 'target busy' in Started, and every call of winas.
Refused(r, op) ==
  /\ Asks(r, op) /\ ~Accepts(op)
  /\ answer' = [answer EXCEPT ![r] = "error"]
  /\ UNCHANGED <<state, serving, given, jobs, busy, chains>>

\* Initializing, Repairing, Adding; exit() of Started forgets Fruitmix.
Enter(op, c) ==
  /\ state' = CASE op = "init" -> "Initializing" [] op = "repair" -> "Repairing"
                [] op = "add" -> "Adding"
  /\ work' = work \cup {c} /\ jobs' = <<>> /\ busy' = 0
  /\ serving' = 0 /\ given' = "none"
  /\ UNCHANGED saves
Begin(r, op, D) ==
  /\ op \in {"init", "repair", "add"} /\ D # {}
  /\ op = "init" => NewVolumes # {}       \* bound: uuids are not used again
  /\ op = "add" => Cardinality(D) = 1
  /\ Asks(r, op) /\ Accepts(op) /\ Waits(r)
  /\ Enter(op, Chain(r, op, D, "check"))

\* Importing checks ctx.storage at once.  boundUser.winasUserId is undefined, so only
\* an admin without one matches.
Importable(v) ==
  Present(storage, v) /\ ~Missing(storage, v) /\ storage.vols[v].admin = "legacy"
Import(r, v) ==
  /\ Asks(r, "import") /\ Accepts("import")
  /\ IF Importable(v)
     THEN /\ state' = "Importing" /\ Waits(r)
          /\ work' = work \cup {Chain(r, "import", {}, "save")}
          /\ saves' = Append(saves, Record(r, v, storage.vols[v].devs))
     ELSE /\ state' = "Probing" /\ answer' = [answer EXCEPT ![r] = "error"]
          /\ UNCHANGED chains
  /\ UNCHANGED <<serving, given, jobs, busy>>

Remove(r, d) ==
  /\ Asks(r, "remove") /\ Accepts("remove") /\ Waits(r)
  /\ jobs' = Append(jobs, Chain(r, "remove", {d}, "shrink"))
  /\ UNCHANGED <<state, serving, given, busy, chains>>

-----------------------------------------------------------------------------
\* A chain ends: the callback is called, and the four states go back to Probing.
\* Mutant: a failure is not answered.
OverSilent(c, result) ==
  /\ work' = work \ {c}
  /\ state' = IF c.op \in {"init", "import", "repair", "add"} THEN "Probing" ELSE state
  /\ answer' = IF c.who \in Requests /\ result = "ok"
               THEN [answer EXCEPT ![c.who] = result] ELSE answer
Over(c, result) ==
  /\ work' = work \ {c}
  /\ state' = IF c.op \in {"init", "import", "repair", "add"} THEN "Probing" ELSE state
  /\ answer' = IF c.who \in Requests THEN [answer EXCEPT ![c.who] = result] ELSE answer
\* Mutant: a job that fails stays in workingJobs.
EndStuck(c, result) ==
  Over(c, result) /\ busy' = IF busy = c.who /\ result = "ok" THEN 0 ELSE busy
End(c, result) == Over(c, result) /\ busy' = IF busy = c.who THEN 0 ELSE busy

Smallest(S) == CHOOSE x \in S : \A y \in S : x <= y
Hold(D, v) == [d \in Devs |-> IF d \in D THEN v ELSE disk.holds[d]]
Go(c, next) == /\ work' = (work \ {c}) \cup {next}
               /\ UNCHANGED <<state, answer, busy>>
To(c, step) == Go(c, At(c, step))
Save(c, v, D) == /\ To(c, "save")
                 /\ saves' = Append(saves, Record(c.who, v, D))
Fails(c) == End(c, "error") /\ UNCHANGED saves
Rest == UNCHANGED <<product, flash, known, serving, given, jobs, starts, changed, asked,
                    spent>>

\* The first probe of init, add and repair and what they verify.  add looks at the
\* storage of an older probe.
Verified(c) ==
  /\ c.dev \subseteq Probed.blocks
  /\ c.op = "add" =>
       /\ Present(storage, bound.id) /\ Cardinality(storage.vols[bound.id].devs) = 1
       /\ c.dev \subseteq storage.blocks \ storage.vols[bound.id].devs
  /\ c.op = "repair" =>
       /\ Present(Probed, bound.id) /\ Missing(Probed, bound.id)
       /\ Cardinality(bound.devs) = 2 /\ Cardinality(Found(bound.id)) = 1
       /\ Found(bound.id) \subseteq c.dev \cap bound.devs
FirstStep == [init |-> "format", add |-> "grow", repair |-> "mount"]
Check(c) ==
  /\ c.step = "check"
  /\ IF Verified(c) THEN To(c, FirstStep[c.op]) /\ UNCHANGED saves ELSE Fails(c)
  /\ UNCHANGED <<disk, storage>> /\ Rest

\* umount and mkfs: a new volume on the devices.
Format(c) ==
  /\ c.step = "format"
  /\ LET v == Smallest(NewVolumes)
     IN  IF c.dev \subseteq disk.plugged
         THEN /\ disk' = [disk EXCEPT !.holds = Hold(c.dev, v), !.members[v] = c.dev]
              /\ Go(c, On(At(c, "find"), v)) /\ UNCHANGED saves
         ELSE Fails(c) /\ UNCHANGED disk
  /\ UNCHANGED storage /\ Rest

\* The probe that finds the new volume, or the repaired one, which is then saved.
\* Mutant: init saves its volume before users.json is written.
FindSaves(c) ==
  /\ c.step = "find"
  /\ IF Whole(c.vol) THEN Save(c, c.vol, disk.members[c.vol]) ELSE Fails(c)
  /\ UNCHANGED <<disk, storage>> /\ Rest
Find(c) ==
  /\ c.step = "find"
  /\ \/ Whole(c.vol) /\ c.op = "init" /\ To(c, "users") /\ UNCHANGED saves
     \/ Whole(c.vol) /\ c.op = "repair" /\ Save(c, c.vol, disk.members[c.vol])
     \/ ~Whole(c.vol) /\ Fails(c)
  /\ UNCHANGED <<disk, storage>> /\ Rest

\* users.json appears with its directory, by rename; then the volume is saved.
\* Mutant: the admin is written without the id of the bound user.
WriteUsersBare(c) ==
  /\ c.step = "users"
  /\ IF Whole(c.vol)
     THEN disk' = [disk EXCEPT !.admin[c.vol] = "legacy"] /\ Save(c, c.vol, c.dev)
     ELSE Fails(c) /\ UNCHANGED disk
  /\ UNCHANGED storage /\ Rest
WriteUsers(c) ==
  /\ c.step = "users"
  /\ IF Whole(c.vol) /\ boundUser \in Users
     THEN /\ disk' = [disk EXCEPT !.admin[c.vol] = boundUser]
          /\ Save(c, c.vol, c.dev)
     ELSE Fails(c) /\ UNCHANGED disk
  /\ UNCHANGED storage /\ Rest

\* mount -o degraded.
Mount(c) ==
  /\ c.step = "mount"
  /\ IF Found(c.vol) # {}
     THEN To(c, IF Cardinality(c.dev) = 1 THEN "prune" ELSE "grow") /\ UNCHANGED saves
     ELSE Fails(c)
  /\ UNCHANGED <<disk, storage>> /\ Rest

\* btrfs device add, with add's balance.
Grow(c) ==
  /\ c.step = "grow"
  /\ IF /\ c.dev \subseteq disk.plugged
        /\ IF c.op = "add" THEN Whole(c.vol) ELSE Found(c.vol) # {}
     THEN /\ disk' = [disk EXCEPT !.members[c.vol] = @ \cup c.dev,
                                  !.holds = Hold(c.dev, c.vol)]
          /\ To(c, IF c.op = "add" THEN "update" ELSE "prune") /\ UNCHANGED saves
     ELSE Fails(c) /\ UNCHANGED disk
  /\ UNCHANGED storage /\ Rest

\* btrfs device delete missing, with its balances.
Prune(c) ==
  /\ c.step = "prune"
  /\ IF Found(c.vol) # {}
     THEN /\ disk' = [disk EXCEPT !.members[c.vol] = Found(c.vol)]
          /\ To(c, "find") /\ UNCHANGED saves
     ELSE Fails(c) /\ UNCHANGED disk
  /\ UNCHANGED storage /\ Rest

\* btrfs device delete, with its balances.
Shrink(c) ==
  /\ c.step = "shrink"
  /\ IF Whole(c.vol)
     THEN /\ disk' = [disk EXCEPT !.members[c.vol] = @ \ c.dev, !.holds = Hold(c.dev, 0)]
          /\ To(c, "update") /\ UNCHANGED saves
     ELSE Fails(c) /\ UNCHANGED disk
  /\ UNCHANGED storage /\ Rest

\* The last probe of add and remove, and updateBoundVolume, which fails when a device
\* of the volume is not there.
Update(c) ==
  /\ c.step = "update"
  /\ storage' = Probed
  /\ IF Whole(c.vol) THEN Save(c, c.vol, disk.members[c.vol]) ELSE Fails(c)
  /\ UNCHANGED disk /\ Rest

\* The update job after its balance: it saves the devices it had read before.
Recompute(c) ==
  /\ c.step = "recompute"
  /\ storage' = Probed
  /\ IF c.dev \subseteq disk.plugged THEN Save(c, c.vol, c.dev) ELSE Fails(c)
  /\ UNCHANGED disk /\ Rest

\* A command, a probe or a write fails.
CommandFails(c) ==
  /\ c.step # "save" /\ Spend("fault") /\ Fails(c)
  /\ UNCHANGED <<product, disk, flash, known, storage, serving, given, jobs, starts,
                 changed, asked>>

\* The volume store finishes its oldest save.
Saved ==
  /\ saves # <<>> /\ saves' = Tail(saves)
  /\ \E c \in work :
       /\ c.who = Head(saves).who
       /\ \/ /\ flash' = [flash EXCEPT !.volume = Head(saves).data]
             /\ bound' = Head(saves).data
             /\ End(c, "ok") /\ UNCHANGED spent
          \/ Spend("fault") /\ End(c, "error") /\ UNCHANGED <<flash, bound>>
  /\ UNCHANGED <<product, disk, chassis, loaded, preset, boundUser, storage, serving,
                 given, jobs, starts, changed, asked>>

\* scheduleJob(): the first job, when none is at work.  Both kinds read ctx.storage.
StartJob ==
  /\ jobs # <<>> /\ busy = 0 /\ jobs' = Tail(jobs)
  /\ LET j == Head(jobs)
         D == IF bound.id = 0 THEN {} ELSE storage.vols[bound.id].devs
         found == IF bound.id = 0 THEN {} ELSE storage.vols[bound.id].found
         Starts(c) == /\ work' = work \cup {On(c, bound.id)}
                      /\ busy' = j.who /\ UNCHANGED answer
     IN  \/ /\ j.op = "remove" /\ Cardinality(D) = 2 /\ j.dev \subseteq found
            /\ Starts(j) /\ UNCHANGED saves
         \/ /\ j.op = "remove" /\ ~(Cardinality(D) = 2 /\ j.dev \subseteq found)
            /\ answer' = [answer EXCEPT ![j.who] = "error"]
            /\ UNCHANGED <<work, saves, busy>>
         \/ /\ j.op = "update" /\ Cardinality(D) = 1
            /\ Starts(At(With(j, D), "recompute")) /\ UNCHANGED saves
         \/ /\ j.op = "update" /\ D # {} /\ found = D
            /\ Starts(At(j, "save"))
            /\ saves' = Append(saves, Record(j.who, bound.id, D))
         \/ /\ j.op = "update" /\ (D = {} \/ found # D)
            /\ UNCHANGED <<work, saves, busy, answer>>
  /\ UNCHANGED <<product, disk, flash, known, state, storage, serving, given, starts,
                 changed, asked, spent>>

-----------------------------------------------------------------------------
\* Disks come and go; udev is watched in Started only.
Plug(d) ==
  /\ Spend("plug")
  /\ disk' = [disk EXCEPT !.plugged = IF d \in @ THEN @ \ {d} ELSE @ \cup {d}]
  /\ changed' = (changed \/ state = "Started")
  /\ UNCHANGED <<product, flash, known, state, storage, running, chains, client>>

Crash == Spend("crash") /\ Restart /\ UNCHANGED <<product, disk, flash>>

Advance(who) ==
  \E c \in work : c.who = who /\ (\/ Check(c) \/ Format(c) \/ Find(c) \/ WriteUsers(c)
                                  \/ Mount(c) \/ Grow(c) \/ Prune(c) \/ Shrink(c)
                                  \/ Update(c) \/ Recompute(c))
Internal == \/ Prepare \/ LoadVolume \/ LoadPreset \/ ClearPreset
            \/ ProbeDone \/ Retry \/ FruitmixStarted \/ Refresh \/ StartJob \/ Saved
Calls == \E r \in Requests :
           \/ \E op \in Operations : Refused(r, op)
           \/ \E op \in Operations, D \in SUBSET Devs : Begin(r, op, D)
           \/ \E v \in Vols : Import(r, v)
           \/ \E d \in Devs : Remove(r, d)
Environment == \/ ProbeError \/ Crash \/ \E c \in work : CommandFails(c)
               \/ \E u \in Users \cup {"none"} : Tell(u)
               \/ \E d \in Devs : Plug(d)
Workers == Requests \cup {-n : n \in 1 .. Cardinality(Requests) + 1}

Next == Internal \/ Calls \/ Environment \/ \E who \in Workers : Advance(who)

Spec == Init /\ [][Next]_vars

\* Timers, callbacks and commands return; Fruitmix starts when its volume is readable.
\* Nothing is assumed of the daemon, of the clients and of the disks.
FairSpec ==
  /\ Spec
  /\ WF_vars(Prepare) /\ WF_vars(LoadVolume) /\ WF_vars(LoadPreset) /\ WF_vars(ClearPreset)
  /\ WF_vars(ProbeDone) /\ WF_vars(Retry) /\ WF_vars(Refresh)
  /\ WF_vars(StartJob) /\ WF_vars(Saved)
  /\ WF_vars(serving # 0 /\ Whole(serving) /\ FruitmixStarted)
  /\ \A who \in Workers : WF_vars(Advance(who))

-----------------------------------------------------------------------------
\* Fruitmix serves a volume for its own admin: the user it was given, who in ws215i is
\* the user the machine is bound to (bootable, setBoundUser, bindFirstUser).
ServesOwner ==
  state = "Started" /\ given \in Users =>
    /\ disk.admin[serving] = given
    /\ product = "ws215i" => given = boundUser

\* A volume is bound only once it has its users.json, whenever the process dies
\* (Initializing steps 6 and 7).
BoundHasAdmin == flash.volume.id # 0 => disk.admin[flash.volume.id] # "none"

\* Import, init, repair and add have a state of their own, which is left when they end.
Exclusive == [init |-> "Initializing", import |-> "Importing",
              repair |-> "Repairing", add |-> "Adding"]
Steps == [init |-> {"check", "format", "find", "users", "save"}, import |-> {"save"},
          repair |-> {"check", "mount", "grow", "prune", "find", "save"},
          add |-> {"check", "grow", "update", "save"},
          remove |-> {"shrink", "update", "save"}, update |-> {"recompute", "save"}]
OneOperation ==
  /\ \A c \in work : /\ c.step \in Steps[c.op]
                     /\ c.op \in DOMAIN Exclusive => state = Exclusive[c.op]
  /\ \A c, d \in work : {c.op, d.op} \subseteq DOMAIN Exclusive => c = d

\* The chain or the job of a call is the call's only one, and whoever called waits for
\* it; Started's own jobs count its starts.
Owned(c) == \/ c.op # "update" /\ c.who \in Requests /\ answer[c.who] = "waiting"
            \/ c.op = "update" /\ c.who < 0 /\ -c.who <= starts
Numbered ==
  /\ \A c \in work : Owned(c)
  /\ \A i \in 1 .. Len(jobs) :
       /\ Owned(jobs[i])
       /\ \/ jobs[i].op = "remove" /\ jobs[i].step = "shrink"
          \/ jobs[i].op = "update" /\ jobs[i].who = -starts
       /\ \A c \in work : c.who # jobs[i].who
       /\ \A k \in 1 .. Len(jobs) : jobs[i].who = jobs[k].who => i = k

\* A save belongs to one chain, which waits for it, and names a volume that can be bound.
SavesWaitedFor ==
  \A i \in 1 .. Len(saves) :
    /\ \E c \in work : c.who = saves[i].who /\ c.step = "save"
    /\ \A k \in 1 .. Len(saves) : saves[i].who = saves[k].who => i = k
    /\ saves[i].data.id # 0 /\ disk.admin[saves[i].data.id] # "none"

\* A chain at work on a volume has one, which has an admin unless the chain makes it;
\* an admin that a probe found is still there.
AimedAt(c) ==
  /\ c.op # "import" /\ c.step \notin {"check", "format"} => c.vol # 0
  /\ c.op \notin {"init", "import"} => (c.vol = 0 <=> bound.id = 0)
  /\ c.op # "init" /\ c.vol # 0 => disk.admin[c.vol] # "none"
  /\ c.op = "init" /\ c.step \in {"check", "format"} => NewVolumes # {}
AdminsLast == \A v \in Vols : storage.vols[v].admin # "none" => disk.admin[v] # "none"
Aimed == AdminsLast /\ \A c \in work : AimedAt(c)

\* Boot works with what it has loaded, and winas loads nothing.
Known ==
  /\ bound = IF "volume" \in loaded THEN flash.volume ELSE NoVolume
  /\ chassis # "ready" => loaded = {}
  /\ product = "winas" => /\ chassis = "preparing" /\ work = {} /\ jobs = <<>>
                          /\ state \in {"Probing", "ProbeFailed", "EmbedVolumeFailed",
                                       "Starting", "Started"}
  /\ product = "ws215i" /\ loaded # {"volume", "preset"} =>
       work = {} /\ jobs = <<>> /\ state \in {"Probing", "ProbeFailed", "Pending"}

\* Fruitmix has a volume, and in ws215i the bound user.
Served ==
  state \in {"Starting", "Started"} =>
    /\ serving # 0
    /\ product = "ws215i" => given \in Users /\ given = boundUser

\* The types, a bound volume that can be served whenever Boot starts, and who works on what.
BootInv == /\ TypeOK /\ BoundHasAdmin
           /\ OneOperation /\ Numbered /\ SavesWaitedFor /\ Aimed /\ Known /\ Served

\* Without failures and with the disks left in place, a machine at rest in Started has
\* recorded the devices its volume consists of, whatever was interrupted before.  Not so
\* after an add: Started takes one while its update job works, which may then save the
\* devices it had read before.
AtRest == state = "Started" /\ jobs = <<>> /\ work = {} /\ product = "ws215i"
Undisturbed == spent["fault"] = 0 /\ spent["plug"] = 0
RecordIsActual ==
  AtRest /\ Undisturbed /\ (\A r \in Requests : asked[r] # "add") =>
    bound.devs = disk.members[bound.id]

\* Every call of the API is answered, unless the process ends.
RequestsAnswered == \A r \in Requests : answer[r] = "waiting" ~> answer[r] # "waiting"

\* A call of init that succeeds leads to Started, unless a disk of the volume is pulled,
\* the process starts anew or a preset waits (station.apib 582).
Interrupted == boundUser \notin Users \/ bound.id = 0 \/ ~Whole(bound.id)
InitBoots ==
  \A r \in Requests :
    asked[r] = "init" /\ answer[r] = "waiting" ~>
      \/ answer[r] \in {"error", "lost"}
      \/ answer[r] = "ok" /\ (state \in {"Started", "Presetting"} \/ Interrupted)

\* station.apib 476: once the stores have loaded and a user is bound, Pending is left.
PendingLeaves ==
  state = "Pending" /\ loaded = {"volume", "preset"} /\ boundUser \in Users ~>
    state # "Pending"
=============================================================================
