------------------------------ MODULE BootProofs ------------------------------
(* Safety of Boot, for any slots, volumes, users, calls, machines and bounds. *)
EXTENDS Boot, SequenceTheorems, FiniteSetTheorems, WellFoundedInduction, TLAPS

-----------------------------------------------------------------------------
(* Numbers, probes and records.                                            *)

\* Volumes and calls are positive numbers.
LEMMA Numbers ==
  /\ \A v \in Vols : v \in Nat /\ v # 0
  /\ \A r \in Requests : r \in Nat /\ r > 0
<1>1. Cardinality(Vols) \in Nat /\ Cardinality(Requests) \in Nat
  BY NumbersAssumption, FS_CardinalityType
<1> QED BY <1>1, NumbersAssumption

\* Smallest finds the smallest member.
LEMMA LeastVolume == ASSUME NEW S \in SUBSET Vols, S # {} PROVE Smallest(S) \in S
<1>1. S \subseteq Nat
  BY Numbers
<1> DEFINE R == {p \in Nat \X Nat : p[1] < p[2]}
<1>2. IsWellFoundedOn(R, Nat)
  BY NatLessThanWellFounded DEF OpToRel
<1>3. \E x \in S : \A y \in S : ~(<<y, x>> \in R)
  BY <1>1, <1>2, WFMin
<1>4. \E x \in S : \A y \in S : x <= y
  <2>1. PICK x \in S : \A y \in S : ~(<<y, x>> \in R)
    BY <1>3
  <2>2. ASSUME NEW y \in S PROVE x <= y
    <3>1. x \in Nat /\ y \in Nat /\ <<y, x>> \notin R
      BY <1>1, <2>1
    <3>2. ~(y < x)
      BY <3>1
    <3> QED BY <3>1, <3>2
  <2> QED BY <2>2
<1> QED BY <1>4 DEF Smallest

\* Probing shows blocks and volumes as they are; an admin it finds is there.
LEMMA ProbeTypes ==
  ASSUME disk \in Disks
  PROVE  /\ Probed \in Snapshots
         /\ \A v \in Vols : Probed.vols[v].admin # "none" => disk.admin[v] # "none"
         /\ \A v \in Vols : Found(v) \in SUBSET Devs /\ Probed.vols[v].found = Found(v)
<1>1. \A v \in Vols : Found(v) \in SUBSET Devs
  BY DEF Found, Disks
<1>2. \A v \in Vols : disk.admin[v] \in Users \cup Unowned /\ disk.members[v] \in SUBSET Devs
  BY DEF Disks
<1>3. disk.plugged \in SUBSET Devs
  BY DEF Disks
<1>4. Probed \in Snapshots
  BY <1>1, <1>2, <1>3 DEF Probed, Snapshots, Unowned
<1>5. \A v \in Vols : /\ Probed.vols[v].found = Found(v)
                      /\ Probed.vols[v].admin = IF Whole(v) THEN disk.admin[v] ELSE "none"
  BY DEF Probed
<1> QED BY <1>1, <1>4, <1>5

\* A bootable volume is a volume.
LEMMA BootableIs ==
  \A s, u : Bootable(s, u) => u \in Users /\ bound.id # 0
  BY DEF Bootable, Present

\* No user is one of the marks.
LEMMA UserNames == \A u \in Users : u \notin {"none", "unknown", "legacy"}
  BY UsersAssumption DEF Unowned

\* A process that starts anew keeps the invariant, with nothing loaded and no chain.
LEMMA FreshInv ==
  ASSUME BootInv, Restart, disk' \in Disks, UNCHANGED <<product, flash>>,
         BoundHasAdmin', spent' \in [{"crash", "fault", "plug", "tell"} -> Nat]
  PROVE  BootInv'
<1>1. TypeOK'
  <2>1. NoStorage \in Snapshots /\ NoVolume \in Records
    BY DEF NoStorage, NoVolume, Snapshots, Records, Unowned
  <2>2. answer' \in [Requests -> {"none", "waiting", "ok", "error", "lost"}]
    BY DEF Restart, BootInv, TypeOK
  <2>3. jobs' \in Seq(Chains) /\ saves' \in Seq([who : Int, data : Records]) /\ starts' \in Nat
    BY DEF Restart, Fresh
  <2>4. /\ work' = {} /\ busy' = 0 /\ storage' \in Snapshots /\ bound' \in Records
        /\ loaded' = {} /\ changed' \in BOOLEAN
    BY <2>1 DEF Restart, Fresh
  <2>5. /\ product' \in {"winas", "ws215i"} /\ flash' \in [volume : Records, preset : BOOLEAN]
        /\ asked' \in [Requests -> Operations \cup {"none"}]
    BY DEF Restart, BootInv, TypeOK
  <2>6. /\ chassis' = "preparing" /\ preset' = "none" /\ boundUser' = "unknown"
        /\ state' = "Probing" /\ serving' = 0 /\ given' = "none"
    BY DEF Restart, Fresh
  <2> QED BY <2>2, <2>3, <2>4, <2>5, <2>6 DEF TypeOK
<1>2. OneOperation' /\ Numbered' /\ SavesWaitedFor'
  BY DEF Restart, Fresh, OneOperation, Numbered, SavesWaitedFor
<1>3. Aimed' /\ Known' /\ Served'
  BY DEF Restart, Fresh, Aimed, AdminsLast, NoStorage, Known, Served
<1> QED BY <1>1, <1>2, <1>3 DEF BootInv

LEMMA InitInv == Init => BootInv
<1> SUFFICES ASSUME Init PROVE BootInv
  OBVIOUS
<1>1. TypeOK /\ BoundHasAdmin
  <2>1. NoStorage \in Snapshots /\ NoVolume \in Records
    BY DEF NoStorage, NoVolume, Snapshots, Records, Unowned
  <2>2. PICK m \in Machines : /\ product = m.product /\ disk = m.disk
                              /\ flash = [volume |-> m.volume, preset |-> m.preset]
    BY DEF Init
  <2>3. /\ product \in {"winas", "ws215i"} /\ disk \in Disks
        /\ flash \in [volume : Records, preset : BOOLEAN] /\ BoundHasAdmin
    BY <2>2, MachinesAssumption DEF BoundHasAdmin
  <2>4. jobs \in Seq(Chains) /\ saves \in Seq([who : Int, data : Records]) /\ starts \in Nat
    BY DEF Init
  <2>5. /\ work = {} /\ busy = 0 /\ storage \in Snapshots /\ bound \in Records
        /\ loaded = {} /\ changed \in BOOLEAN
    BY <2>1 DEF Init
  <2>6. /\ chassis = "preparing" /\ preset = "none" /\ boundUser = "unknown"
        /\ state = "Probing" /\ serving = 0 /\ given = "none"
    BY DEF Init
  <2>7. /\ asked \in [Requests -> Operations \cup {"none"}]
        /\ answer \in [Requests -> {"none", "waiting", "ok", "error", "lost"}]
        /\ spent \in [{"crash", "fault", "plug", "tell"} -> Nat]
    BY DEF Init
  <2> QED BY <2>3, <2>4, <2>5, <2>6, <2>7 DEF TypeOK
<1>2. OneOperation /\ Numbered /\ SavesWaitedFor
  BY DEF Init, OneOperation, Numbered, SavesWaitedFor
<1>3. Aimed /\ Known /\ Served
  BY DEF Init, Aimed, AdminsLast, NoStorage, Known, Served
<1> QED BY <1>1, <1>2, <1>3 DEF BootInv

-----------------------------------------------------------------------------
(* Steps that leave the chains alone.                                      *)

LEMMA SpendType ==
  ASSUME spent \in [{"crash", "fault", "plug", "tell"} -> Nat],
         NEW what \in {"crash", "fault", "plug", "tell"}, Spend(what)
  PROVE  spent' \in [{"crash", "fault", "plug", "tell"} -> Nat]
  BY DEF Spend

LEMMA ExclusiveIs ==
  /\ DOMAIN Exclusive = {"init", "import", "repair", "add"}
  /\ Exclusive["init"] = "Initializing" /\ Exclusive["import"] = "Importing"
  /\ Exclusive["repair"] = "Repairing" /\ Exclusive["add"] = "Adding"
  BY DEF Exclusive

\* What is saved names a volume.
LEMMA SavedVolumes ==
  ASSUME BootInv, NEW i \in 1 .. Len(saves)
  PROVE  saves[i].who \in Int /\ saves[i].data \in Records /\ saves[i].data.id \in Vols
<1>0. saves \in Seq([who : Int, data : Records])
  BY DEF BootInv, TypeOK
<1>1. saves[i] \in [who : Int, data : Records]
  BY <1>0, ElementOfSeq
<1>2. saves[i].data.id # 0
  BY DEF BootInv, SavesWaitedFor
<1> QED BY <1>1, <1>2 DEF Records

\* Disks whose admins or members change, one at a time.
LEMMA DiskTypes ==
  ASSUME disk \in Disks
  PROVE  /\ \A v \in Vols, u \in Users : [disk EXCEPT !.admin[v] = u] \in Disks
         /\ \A v \in Vols, D \in SUBSET Devs : [disk EXCEPT !.members[v] = D] \in Disks
         /\ \A v \in Vols, D \in SUBSET Devs, H \in [Devs -> Vols \cup {0}] :
              /\ [disk EXCEPT !.holds = H, !.members[v] = D] \in Disks
              /\ [disk EXCEPT !.members[v] = D, !.holds = H] \in Disks
<1>1. /\ disk.plugged \in SUBSET Devs /\ disk.holds \in [Devs -> Vols \cup {0}]
      /\ disk.members \in [Vols -> SUBSET Devs] /\ disk.admin \in [Vols -> Users \cup Unowned]
  BY DEF Disks
<1>2. ASSUME NEW v \in Vols, NEW u \in Users PROVE [disk EXCEPT !.admin[v] = u] \in Disks
  <2>1. [disk.admin EXCEPT ![v] = u] \in [Vols -> Users \cup Unowned]
    BY <1>1
  <2> QED BY <1>1, <2>1 DEF Disks
<1>3. ASSUME NEW v \in Vols, NEW D \in SUBSET Devs
      PROVE  [disk EXCEPT !.members[v] = D] \in Disks
  <2>1. [disk.members EXCEPT ![v] = D] \in [Vols -> SUBSET Devs]
    BY <1>1
  <2> QED BY <1>1, <2>1 DEF Disks
<1>4. ASSUME NEW v \in Vols, NEW D \in SUBSET Devs, NEW H \in [Devs -> Vols \cup {0}]
      PROVE  /\ [disk EXCEPT !.holds = H, !.members[v] = D] \in Disks
             /\ [disk EXCEPT !.members[v] = D, !.holds = H] \in Disks
  <2>1. [disk.members EXCEPT ![v] = D] \in [Vols -> SUBSET Devs]
    BY <1>1
  <2> QED BY <1>1, <2>1 DEF Disks
<1> QED BY <1>2, <1>3, <1>4

\* Outside their states there is none of the four operations.
LEMMA Unoccupied ==
  ASSUME BootInv, state \notin {"Initializing", "Importing", "Repairing", "Adding"}
  PROVE  \A c \in work : c.op \notin DOMAIN Exclusive
<1> SUFFICES ASSUME NEW c \in work, c.op \in DOMAIN Exclusive PROVE FALSE
  OBVIOUS
<1>1. state = Exclusive[c.op]
  BY DEF BootInv, OneOperation
<1>2. c.op \in {"init", "import", "repair", "add"}
  BY ExclusiveIs
<1> QED BY <1>1, <1>2, ExclusiveIs

\* What a step that leaves the chains alone need not disturb.
LEMMA Frame ==
  ASSUME BootInv, UNCHANGED <<work, saves, jobs, starts, answer>>,
         state' = state \/ \A c \in work : c.op \notin DOMAIN Exclusive,
         bound' = bound \/ work = {},
         disk'.members = disk.members,
         \A v \in Vols : disk.admin[v] # "none" => disk'.admin[v] # "none",
         AdminsLast'
  PROVE  OneOperation' /\ Numbered' /\ SavesWaitedFor' /\ Aimed'
<1>1. OneOperation'
  BY DEF BootInv, OneOperation
<1>2. Numbered'
  BY DEF BootInv, Numbered, Owned
<1>3. SavesWaitedFor'
  <2>1. \A i \in 1 .. Len(saves) : saves[i].data.id \in Vols
    BY SavedVolumes
  <2> QED BY <2>1 DEF BootInv, SavesWaitedFor
<1>4. ASSUME NEW c \in work PROVE AimedAt(c)'
  <2>1. c.vol # 0 => c.vol \in Vols
    BY DEF BootInv, TypeOK, Chains
  <2> QED BY <1>4, <2>1 DEF BootInv, Aimed, AimedAt, NewVolumes
<1> QED BY <1>1, <1>2, <1>3, <1>4 DEF Aimed

\* The chassis is prepared and the stores load.
LEMMA LoadInv ==
  ASSUME BootInv, Prepare \/ LoadVolume \/ LoadPreset \/ ClearPreset
  PROVE  BootInv'
<1> USE DEF Prepare, LoadVolume, LoadPreset, ClearPreset, process, known, running, chains, client
<1>1. UNCHANGED <<product, disk, boundUser, state, storage, serving, given, jobs, busy, starts,
                  work, saves, changed, asked, answer>>
  OBVIOUS
<1>2. TypeOK'
  <2>1. spent' \in [{"crash", "fault", "plug", "tell"} -> Nat]
    BY SpendType DEF BootInv, TypeOK
  <2>2. /\ flash' \in [volume : Records, preset : BOOLEAN]
        /\ bound' \in Records /\ preset' \in {"none", "pending"}
        /\ chassis' \in {"preparing", "ready", "failed"} /\ loaded' \subseteq {"volume", "preset"}
    BY DEF BootInv, TypeOK
  <2> QED BY <1>1, <2>1, <2>2 DEF BootInv, TypeOK
<1>3. bound' = bound \/ work = {}
  BY DEF BootInv, Known, TypeOK
<1>4. AdminsLast'
  BY <1>1 DEF BootInv, Aimed, AdminsLast
<1>5. OneOperation' /\ Numbered' /\ SavesWaitedFor' /\ Aimed'
  BY <1>1, <1>3, <1>4, Frame
<1>6. BoundHasAdmin'
  BY DEF BootInv, BoundHasAdmin, TypeOK
<1>7. Known'
  BY DEF BootInv, Known, TypeOK
<1>8. Served'
  BY <1>1 DEF BootInv, Served
<1> QED BY <1>2, <1>5, <1>6, <1>7, <1>8 DEF BootInv

\* A probe ends, and Boot goes on as it may; a failed one is repeated.
LEMMA ProbingInv ==
  ASSUME BootInv, ProbeDone \/ ProbeError \/ Retry \/ Refresh
  PROVE  BootInv'
<1> USE DEF ProbeDone, ProbeError, Retry, Refresh, process, known, running, chains, client
<1>1. UNCHANGED <<product, disk, flash, chassis, loaded, bound, preset, boundUser, jobs, busy,
                  starts, work, saves, asked, answer>>
  OBVIOUS
<1>2. storage' \in Snapshots /\ AdminsLast'
  BY <1>1, ProbeTypes DEF BootInv, TypeOK, Aimed, AdminsLast
<1>3. state' = state \/ \A c \in work : c.op \notin DOMAIN Exclusive
  BY Unoccupied
<1>4. OneOperation' /\ Numbered' /\ SavesWaitedFor' /\ Aimed'
  BY <1>1, <1>2, <1>3, Frame
<1>5. \/ UNCHANGED <<state, serving, given>>
      \/ state' \in {"Probing", "ProbeFailed"} /\ UNCHANGED <<serving, given>>
      \/ product = "winas" /\ state' = "EmbedVolumeFailed" /\ UNCHANGED <<serving, given>>
      \/ /\ product = "winas" /\ state' = "Starting" /\ serving' \in Vols
         /\ given' \in Users \cup {"none"}
      \/ product = "ws215i" /\ state' = "Pending" /\ UNCHANGED <<serving, given>>
      \/ /\ product = "ws215i" /\ loaded = {"volume", "preset"}
         /\ \/ /\ state' = "Starting" /\ serving' \in Vols
               /\ given' \in Users /\ given' = boundUser
            \/ state' \in {"Presetting", "Unavailable"} /\ UNCHANGED <<serving, given>>
  <2>1. CASE ProbeDone
    BY <2>1, BootableIs
    DEF EmbedVolumeCheck, GoOn, EnterStarting, BootInv, TypeOK, Records
  <2>2. CASE ProbeError \/ Retry \/ Refresh
    BY <2>2
  <2> QED BY <2>1, <2>2
<1>6. TypeOK'
  <2>1. /\ state' \in {"Probing", "ProbeFailed", "Pending", "Presetting", "EmbedVolumeFailed",
                       "Starting", "Started", "Unavailable", "Initializing", "Importing",
                       "Repairing", "Adding"}
        /\ serving' \in Vols \cup {0} /\ given' \in Users \cup {"none"}
    BY <1>5 DEF BootInv, TypeOK
  <2>2. changed' \in BOOLEAN /\ spent' \in [{"crash", "fault", "plug", "tell"} -> Nat]
    BY SpendType DEF BootInv, TypeOK
  <2> QED BY <1>1, <1>2, <2>1, <2>2 DEF BootInv, TypeOK
<1>7. BoundHasAdmin' /\ Known'
  BY <1>1, <1>5 DEF BootInv, BoundHasAdmin, Known
<1>8. Served'
  BY <1>1, <1>5, Numbers DEF BootInv, Served
<1> QED BY <1>4, <1>6, <1>7, <1>8 DEF BootInv

\* Disks come and go.
LEMMA PlugInv == ASSUME BootInv, NEW d \in Devs, Plug(d) PROVE BootInv'
<1> USE DEF Plug, known, running, chains, client
<1>1. disk' \in Disks /\ disk'.members = disk.members /\ disk'.admin = disk.admin
  BY DEF BootInv, TypeOK, Disks
<1>2. TypeOK'
  <2>1. spent' \in [{"crash", "fault", "plug", "tell"} -> Nat]
    BY SpendType DEF BootInv, TypeOK
  <2>2. changed' \in BOOLEAN
    BY DEF BootInv, TypeOK
  <2> QED BY <1>1, <2>1, <2>2 DEF BootInv, TypeOK
<1>3. AdminsLast' /\ BoundHasAdmin'
  BY <1>1 DEF BootInv, Aimed, AdminsLast, BoundHasAdmin
<1>4. OneOperation' /\ Numbered' /\ SavesWaitedFor' /\ Aimed'
  BY <1>1, <1>3, Frame
<1>5. Known' /\ Served'
  BY DEF BootInv, Known, Served
<1> QED BY <1>2, <1>3, <1>4, <1>5 DEF BootInv

LEMMA CrashInv == ASSUME BootInv, Crash PROVE BootInv'
  BY FreshInv, SpendType DEF Crash, BootInv, TypeOK, BoundHasAdmin

\* A message from the daemon: the process starts anew, its user is handed on, or Pending
\* goes on.
LEMMA TellInv == ASSUME BootInv, NEW u \in Users \cup {"none"}, Tell(u) PROVE BootInv'
<1>1. spent' \in [{"crash", "fault", "plug", "tell"} -> Nat] /\ UNCHANGED <<product, flash>>
  BY SpendType DEF Tell, BootInv, TypeOK
<1>2. CASE Exits(u) /\ Restart /\ UNCHANGED disk
  BY <1>1, <1>2, FreshInv DEF BootInv, TypeOK, BoundHasAdmin
<1>3. CASE ~Exits(u) /\ boundUser' = u /\ UNCHANGED <<chassis, loaded, bound, preset, storage,
                                                      jobs, busy, starts, chains, changed, client>>
  <2>1. UNCHANGED <<chassis, loaded, bound, preset, storage, jobs, busy, starts, work, saves,
                    changed, asked, answer>>
    BY <1>3 DEF chains, client
  <2>2. \/ /\ product = "winas" /\ state = "Started" /\ u \in Users /\ given' = u
           /\ UNCHANGED <<state, serving>> /\ disk' = [disk EXCEPT !.admin[serving] = u]
           /\ serving \in Vols
        \/ /\ product = "ws215i" /\ state = "Pending" /\ u \in Users
           /\ loaded = {"volume", "preset"} /\ UNCHANGED disk
           /\ \/ /\ state' = "Starting" /\ serving' \in Vols /\ given' = u
              \/ state' \in {"Presetting", "Unavailable"} /\ UNCHANGED <<serving, given>>
        \/ UNCHANGED <<state, serving, given, disk>>
    BY <1>3, BootableIs
    DEF Tell, Exits, Joins, GoOn, EnterStarting, BootInv, TypeOK, Served, Records
  <2>3. disk' \in Disks /\ disk'.members = disk.members
    <3>1. disk \in Disks
      BY DEF BootInv, TypeOK
    <3>2. disk' \in Disks
      BY <2>2, <3>1, DiskTypes
    <3> QED BY <2>2, <3>1 DEF Disks
  <2>4. \A v \in Vols : disk.admin[v] # "none" => disk'.admin[v] # "none"
    BY <2>2, UserNames DEF BootInv, TypeOK, Disks
  <2>5. TypeOK'
    <3>1. /\ state' \in {"Probing", "ProbeFailed", "Pending", "Presetting", "EmbedVolumeFailed",
                         "Starting", "Started", "Unavailable", "Initializing", "Importing",
                         "Repairing", "Adding"}
          /\ serving' \in Vols \cup {0} /\ given' \in Users \cup {"none"}
      BY <2>2 DEF BootInv, TypeOK
    <3> QED BY <1>1, <1>3, <2>1, <2>3, <3>1 DEF BootInv, TypeOK
  <2>6. AdminsLast' /\ BoundHasAdmin'
    BY <1>1, <2>1, <2>4 DEF BootInv, TypeOK, Records, Aimed, AdminsLast, BoundHasAdmin
  <2>7. state' = state \/ \A c \in work : c.op \notin DOMAIN Exclusive
    BY <2>2, Unoccupied
  <2>8. OneOperation' /\ Numbered' /\ SavesWaitedFor' /\ Aimed'
    BY <2>1, <2>3, <2>4, <2>6, <2>7, Frame
  <2>9. Known'
    BY <1>1, <2>1, <2>2 DEF BootInv, Known
  <2>10. Served'
    BY <1>1, <1>3, <2>2, Numbers, UserNames DEF BootInv, TypeOK, Served, Tell, Exits
  <2> QED BY <2>5, <2>6, <2>8, <2>9, <2>10 DEF BootInv
<1> QED BY <1>2, <1>3 DEF Tell

-----------------------------------------------------------------------------
(* The queue of saves, and new chains.                                     *)

\* A save whose chain is not the head's stays as it is when its chain does.
LEMMA SavesStay ==
  ASSUME BootInv, saves' = saves, \A d \in work : d.step = "save" => d \in work',
         \A v \in Vols : disk.admin[v] # "none" => disk'.admin[v] # "none"
  PROVE  SavesWaitedFor' /\ saves' \in Seq([who : Int, data : Records])
<1>1. SavesWaitedFor'
  BY SavedVolumes DEF BootInv, SavesWaitedFor
<1> QED BY <1>1 DEF BootInv, TypeOK

\* A chain without a save joins the queue.
LEMMA SavesGrow ==
  ASSUME BootInv, NEW who \in Int, NEW r \in Records, r.id # 0, disk'.admin[r.id] # "none",
         saves' = Append(saves, [who |-> who, data |-> r]),
         \A i \in 1 .. Len(saves) : saves[i].who # who,
         \E d \in work' : d.who = who /\ d.step = "save",
         \A d \in work : d.step = "save" => d \in work',
         \A v \in Vols : disk.admin[v] # "none" => disk'.admin[v] # "none"
  PROVE  SavesWaitedFor' /\ saves' \in Seq([who : Int, data : Records])
<1> DEFINE x == [who |-> who, data |-> r]
           S == [who : Int, data : Records]
<1>0. saves \in Seq(S) /\ x \in S /\ saves' = Append(saves, x)
  BY DEF BootInv, TypeOK
<1>1. x.who = who /\ x.data = r
  OBVIOUS
<1>2. ASSUME NEW i \in 1 .. Len(saves)
      PROVE  /\ \E d \in work' : d.who = saves[i].who /\ d.step = "save"
             /\ \A k \in 1 .. Len(saves) : saves[i].who = saves[k].who => i = k
             /\ saves[i].data.id # 0 /\ disk'.admin[saves[i].data.id] # "none"
  BY <1>2, SavedVolumes DEF BootInv, SavesWaitedFor
<1> HIDE DEF x, S
<1>3. /\ saves' \in Seq(S) /\ Len(saves') = Len(saves) + 1 /\ Len(saves) \in Nat
      /\ \A i \in 1 .. Len(saves') : saves'[i] = IF i <= Len(saves) THEN saves[i] ELSE x
      /\ \A i \in 1 .. Len(saves') : i <= Len(saves) => i \in 1 .. Len(saves)
  BY <1>0
<1>4. \A i, k \in 1 .. Len(saves') : saves'[i].who = saves'[k].who => i = k
  BY <1>1, <1>2, <1>3
<1>5. \A i \in 1 .. Len(saves') :
        /\ \E d \in work' : d.who = saves'[i].who /\ d.step = "save"
        /\ saves'[i].data.id # 0 /\ disk'.admin[saves'[i].data.id] # "none"
  BY <1>1, <1>2, <1>3
<1> QED BY <1>3, <1>4, <1>5 DEF SavesWaitedFor, S

\* The oldest save ends, and its chain with it.
LEMMA SavesShrink ==
  ASSUME BootInv, saves # <<>>, saves' = Tail(saves), NEW c \in work, c.who = Head(saves).who,
         \A d \in work : d # c => d \in work', disk' = disk
  PROVE  SavesWaitedFor' /\ saves' \in Seq([who : Int, data : Records])
<1>0. saves \in Seq([who : Int, data : Records])
  BY DEF BootInv, TypeOK
<1>1. /\ saves' \in Seq([who : Int, data : Records]) /\ Len(saves') = Len(saves) - 1
      /\ \A i \in 1 .. Len(saves') : saves'[i] = saves[i + 1]
      /\ \A i \in 1 .. Len(saves') : i + 1 \in 1 .. Len(saves)
      /\ 1 \in 1 .. Len(saves) /\ Head(saves) = saves[1] /\ Len(saves') \in Nat
  BY <1>0
<1>2. ASSUME NEW i \in 1 .. Len(saves')
      PROVE  \E d \in work' : d.who = saves'[i].who /\ d.step = "save"
  <2>1. PICK d \in work : d.who = saves[i + 1].who /\ d.step = "save"
    BY <1>1 DEF BootInv, SavesWaitedFor
  <2>2. saves[i + 1].who # saves[1].who
    BY <1>1 DEF BootInv, SavesWaitedFor
  <2> QED BY <1>1, <2>1, <2>2
<1>3. ASSUME NEW i \in 1 .. Len(saves'), NEW k \in 1 .. Len(saves'), saves'[i].who = saves'[k].who
      PROVE  i = k
  <2>1. saves[i + 1].who = saves[k + 1].who
    BY <1>1, <1>3
  <2>2. i + 1 = k + 1
    BY <1>1, <2>1 DEF BootInv, SavesWaitedFor
  <2> QED BY <2>2
<1>4. \A i \in 1 .. Len(saves') : saves'[i].data.id # 0 /\ disk'.admin[saves'[i].data.id] # "none"
  BY <1>1 DEF BootInv, SavesWaitedFor
<1> QED BY <1>1, <1>2, <1>3, <1>4 DEF SavesWaitedFor

\* A new chain, whose caller has no other, joins the ones at work.
LEMMA Joining ==
  ASSUME BootInv, NEW c \in Chains, work' = work \cup {c}, c.step \in Steps[c.op],
         \A d \in work : d.who # c.who,
         c.op \in DOMAIN Exclusive =>
           state' = Exclusive[c.op] /\ \A d \in work : d.op \notin DOMAIN Exclusive,
         state' = state \/ \A d \in work : d.op \notin DOMAIN Exclusive,
         AimedAt(c), UNCHANGED <<disk, bound, storage>>,
         \/ UNCHANGED saves
         \/ /\ c.step = "save"
            /\ \E r \in Records : /\ r.id # 0 /\ disk.admin[r.id] # "none"
                                  /\ saves' = Append(saves, [who |-> c.who, data |-> r])
  PROVE  /\ work' \subseteq Chains /\ \A d, e \in work' : d.who = e.who => d = e
         /\ OneOperation' /\ SavesWaitedFor' /\ saves' \in Seq([who : Int, data : Records])
         /\ Aimed'
<1>0. work \subseteq Chains /\ \A d, e \in work : d.who = e.who => d = e
  BY DEF BootInv, TypeOK
<1>1. OneOperation'
  <2>1. ASSUME NEW d \in work'
        PROVE  d.step \in Steps[d.op] /\ (d.op \in DOMAIN Exclusive => state' = Exclusive[d.op])
    BY <2>1 DEF BootInv, OneOperation
  <2>2. ASSUME NEW d \in work', NEW e \in work', {d.op, e.op} \subseteq DOMAIN Exclusive
        PROVE  d = e
    BY <2>2 DEF BootInv, OneOperation
  <2> QED BY <2>1, <2>2 DEF OneOperation
<1>2. SavesWaitedFor' /\ saves' \in Seq([who : Int, data : Records])
  <2>1. CASE UNCHANGED saves
    BY <2>1, SavesStay
  <2>2. CASE ~UNCHANGED saves
    <3>1. PICK r \in Records : /\ r.id # 0 /\ disk.admin[r.id] # "none"
                               /\ saves' = Append(saves, [who |-> c.who, data |-> r])
      BY <2>2
    <3>2. \A i \in 1 .. Len(saves) : saves[i].who # c.who
      BY DEF BootInv, SavesWaitedFor
    <3>3. c.who \in Int
      BY DEF Chains
    <3> QED BY <2>2, <3>1, <3>2, <3>3, SavesGrow
  <2> QED BY <2>1, <2>2
<1>3. Aimed'
  <2>1. ASSUME NEW d \in work' PROVE AimedAt(d)'
    <3>1. AimedAt(d)
      BY <2>1 DEF BootInv, Aimed
    <3> QED BY <3>1 DEF AimedAt, NewVolumes
  <2> QED BY <2>1 DEF BootInv, Aimed, AdminsLast
<1> QED BY <1>0, <1>1, <1>2, <1>3

\* The chains that Boot makes.
LEMMA ChainTypes ==
  ASSUME BootInv, NEW who \in Int, NEW op \in Operations \cup {"update"},
         NEW dev \in SUBSET Devs, NEW step \in {"check", "shrink", "update", "save"}
  PROVE  /\ Chain(who, op, dev, step) \in Chains
         /\ Chain(who, op, dev, step).who = who /\ Chain(who, op, dev, step).op = op
         /\ Chain(who, op, dev, step).dev = dev /\ Chain(who, op, dev, step).step = step
         /\ Chain(who, op, dev, step).vol = bound.id /\ bound.id \in Vols \cup {0}
         /\ bound.id # 0 => disk.admin[bound.id] # "none"
<1>1. bound.id \in Vols \cup {0}
  BY DEF BootInv, TypeOK, Records
<1>2. bound.id # 0 => disk.admin[bound.id] # "none"
  BY DEF BootInv, BoundHasAdmin, Known, NoVolume
<1> QED BY <1>1, <1>2 DEF Chain, Chains

\* The ways in which a chain goes on.
StepNames == {"check", "format", "find", "users", "grow", "prune", "mount",
              "shrink", "update", "recompute", "save"}

LEMMA ChainChanges ==
  ASSUME NEW c \in Chains
  PROVE  /\ \A s \in StepNames :
              /\ At(c, s) \in Chains /\ At(c, s).step = s /\ At(c, s).who = c.who
              /\ At(c, s).op = c.op /\ At(c, s).vol = c.vol /\ At(c, s).dev = c.dev
         /\ \A v \in Vols \cup {0} :
              /\ On(c, v) \in Chains /\ On(c, v).step = c.step /\ On(c, v).who = c.who
              /\ On(c, v).op = c.op /\ On(c, v).vol = v /\ On(c, v).dev = c.dev
         /\ \A D \in SUBSET Devs :
              /\ With(c, D) \in Chains /\ With(c, D).step = c.step /\ With(c, D).who = c.who
              /\ With(c, D).op = c.op /\ With(c, D).vol = c.vol /\ With(c, D).dev = D
  BY DEF At, On, With, Chains, StepNames

\* Every chain was begun by a caller who waits, or by a start of Started.
LEMMA Owners ==
  ASSUME BootInv
  PROVE  /\ \A c \in work : c \in Chains /\ Owned(c)
         /\ \A i \in 1 .. Len(jobs) : jobs[i] \in Chains /\ Owned(jobs[i])
         /\ jobs \in Seq(Chains)
<1>1. jobs \in Seq(Chains)
  BY DEF BootInv, TypeOK
<1>2. \A i \in 1 .. Len(jobs) : jobs[i] \in Chains
  BY <1>1, ElementOfSeq
<1> QED BY <1>1, <1>2 DEF BootInv, TypeOK, Numbered

\* Fruitmix starts, or ends the process; Started has its first job.
LEMMA FruitmixInv == ASSUME BootInv, FruitmixStarted PROVE BootInv'
<1>1. CASE Restart /\ UNCHANGED disk
  BY <1>1, FreshInv DEF FruitmixStarted, BootInv, TypeOK, BoundHasAdmin
<1>2. CASE ~(Restart /\ UNCHANGED disk)
  <2> DEFINE c == Chain(-(starts + 1), "update", {}, "update")
  <2>1. /\ state = "Starting" /\ state' = "Started" /\ starts' = starts + 1 /\ starts \in Nat
        /\ jobs' = (IF product = "winas" THEN <<>> ELSE <<c>>) /\ busy' = 0
        /\ disk' = IF given \in Users THEN [disk EXCEPT !.admin[serving] = given] ELSE disk
        /\ UNCHANGED <<product, flash, chassis, loaded, bound, preset, boundUser, storage,
                       serving, given, work, saves, changed, asked, answer, spent>>
    BY <1>2 DEF FruitmixStarted, FirstJobs, known, chains, client, BootInv, TypeOK
  <2>2. serving \in Vols
    BY <2>1 DEF BootInv, TypeOK, Served
  <2>3. disk' \in Disks /\ disk'.members = disk.members
    <3>1. disk \in Disks
      BY DEF BootInv, TypeOK
    <3>2. disk' \in Disks
      BY <2>1, <2>2, <3>1, DiskTypes
    <3> QED BY <2>1, <3>1 DEF Disks
  <2>4. \A v \in Vols : disk.admin[v] # "none" => disk'.admin[v] # "none"
    BY <2>1, <2>2, UserNames DEF BootInv, TypeOK, Disks
  <2>5. c \in Chains /\ c.who = -(starts + 1) /\ c.op = "update"
    <3> DEFINE n == -(starts + 1)
    <3>1. n \in Int
      BY <2>1
    <3>2. {} \in SUBSET Devs /\ "update" \in Operations \cup {"update"}
      OBVIOUS
    <3> HIDE DEF n
    <3>3. Chain(n, "update", {}, "update") \in Chains
      BY <3>1, <3>2, ChainTypes
    <3>4. /\ Chain(n, "update", {}, "update").who = n
          /\ Chain(n, "update", {}, "update").op = "update"
      BY DEF Chain
    <3> QED BY <3>3, <3>4 DEF n
  <2>6. TypeOK'
    <3>1. jobs' \in Seq(Chains) /\ starts' \in Nat
      BY <2>1, <2>5
    <3>2. busy' \in {0} \cup {d.who : d \in work'}
      BY <2>1
    <3> QED BY <2>1, <2>3, <3>1, <3>2 DEF BootInv, TypeOK
  <2>7. \A d \in work : d.op \notin DOMAIN Exclusive
    BY <2>1, Unoccupied
  <2>8. OneOperation' /\ SavesWaitedFor'
    BY <2>1, <2>4, <2>7, SavesStay DEF BootInv, OneOperation
  <2>9. Numbered'
    <3>1. \A d \in work : Owned(d)' /\ d.who # -(starts + 1)
      BY <2>1, Owners, Numbers DEF Owned, Chains
    <3>2. ASSUME NEW d, d.op = "update", d.who = -(starts + 1) PROVE Owned(d)'
      BY <2>1, <3>2 DEF Owned
    <3> HIDE DEF c
    <3>3. \A i \in 1 .. Len(jobs') : i = 1 /\ jobs'[i] = c
      BY <2>1
    <3>4. ASSUME NEW i \in 1 .. Len(jobs')
          PROVE  /\ Owned(jobs[i])' /\ jobs'[i].op = "update" /\ jobs'[i].who = -starts'
                 /\ \A d \in work' : d.who # jobs'[i].who
                 /\ \A k \in 1 .. Len(jobs') : jobs'[i].who = jobs'[k].who => i = k
      BY <2>1, <2>5, <3>1, <3>2, <3>3
    <3>5. \A d \in work' : Owned(d)'
      BY <2>1, <3>1
    <3> QED BY <3>4, <3>5 DEF Numbered
  <2>10. Aimed'
    <3>1. ASSUME NEW d \in work PROVE AimedAt(d)'
      <4>1. d.vol # 0 => d.vol \in Vols
        BY Owners DEF Chains
      <4> QED BY <2>1, <2>3, <2>4, <4>1 DEF BootInv, Aimed, AimedAt, NewVolumes
    <3>2. AdminsLast'
      BY <2>1, <2>4 DEF BootInv, Aimed, AdminsLast
    <3> QED BY <2>1, <3>1, <3>2 DEF Aimed
  <2>11. BoundHasAdmin'
    BY <2>1, <2>4 DEF BootInv, TypeOK, Records, BoundHasAdmin
  <2>12. Known' /\ Served'
    BY <2>1 DEF BootInv, TypeOK, Known, Served
  <2> QED BY <2>6, <2>8, <2>9, <2>10, <2>11, <2>12 DEF BootInv
<1> QED BY <1>1, <1>2

-----------------------------------------------------------------------------
(* The calls of the API.                                                   *)

\* Whose call was not made yet has no chain and no job.
LEMMA Asking ==
  ASSUME BootInv, NEW r \in Requests, NEW op \in Operations, Asks(r, op)
  PROVE  /\ \A c \in work : c.who # r
         /\ \A i \in 1 .. Len(jobs) : jobs[i].who # r
         /\ asked' \in [Requests -> Operations \cup {"none"}] /\ answer[r] = "none"
         /\ \A a \in {"waiting", "error"} :
              answer' = [answer EXCEPT ![r] = a] =>
                /\ answer' \in [Requests -> {"none", "waiting", "ok", "error", "lost"}]
                /\ answer'[r] = a /\ \A q \in Requests : q # r => answer'[q] = answer[q]
         /\ UNCHANGED <<product, disk, flash, chassis, loaded, bound, preset, boundUser, storage,
                        starts, changed, spent>>
<1>1. answer[r] = "none"
  BY DEF Asks
<1>2. /\ \A c \in work : c.who # r
      /\ \A i \in 1 .. Len(jobs) : jobs[i].who # r
  BY <1>1, Owners, Numbers DEF Owned
<1> QED BY <1>1, <1>2 DEF Asks, known, BootInv, TypeOK

\* An answer to one caller is nobody else's.
LEMMA OthersOwn ==
  ASSUME NEW r, NEW c, c.who # r, Owned(c), UNCHANGED starts,
         \A q \in Requests : q # r => answer'[q] = answer[q]
  PROVE  Owned(c)'
  BY DEF Owned

LEMMA RefusedInv ==
  ASSUME BootInv, NEW r \in Requests, NEW op \in Operations, Refused(r, op)
  PROVE  BootInv'
<1>1. /\ Asks(r, op) /\ answer' = [answer EXCEPT ![r] = "error"]
      /\ UNCHANGED <<state, serving, given, jobs, busy, work, saves>>
  BY DEF Refused, chains
<1>2. /\ \A c \in work : c.who # r
      /\ \A i \in 1 .. Len(jobs) : jobs[i].who # r
      /\ asked' \in [Requests -> Operations \cup {"none"}]
      /\ answer' \in [Requests -> {"none", "waiting", "ok", "error", "lost"}]
      /\ \A q \in Requests : q # r => answer'[q] = answer[q]
      /\ UNCHANGED <<product, disk, flash, chassis, loaded, bound, preset, boundUser, storage,
                     starts, changed, spent>>
  BY <1>1, Asking
<1>3. TypeOK'
  BY <1>1, <1>2 DEF BootInv, TypeOK
<1>4. Numbered'
  <2>1. \A c \in work : Owned(c)'
    BY <1>2, Owners, OthersOwn
  <2>2. \A i \in 1 .. Len(jobs) : Owned(jobs[i])'
    <3> SUFFICES ASSUME NEW i \in 1 .. Len(jobs) PROVE Owned(jobs[i])'
      OBVIOUS
    <3>1. PICK j : j = jobs[i]
      OBVIOUS
    <3>2. Owned(j) /\ j.who # r
      BY <1>2, <3>1, Owners
    <3>3. Owned(j)'
      BY <1>2, <3>2, OthersOwn
    <3> QED BY <1>1, <3>1, <3>3 DEF Owned
  <2> QED BY <1>1, <1>2, <2>1, <2>2 DEF BootInv, Numbered
<1>5. OneOperation' /\ SavesWaitedFor'
  BY <1>1, <1>2 DEF BootInv, OneOperation, SavesWaitedFor
<1>6. BoundHasAdmin' /\ Known' /\ Served'
  BY <1>1, <1>2 DEF BootInv, BoundHasAdmin, Known, Served
<1>7. Aimed'
  BY <1>1, <1>2 DEF BootInv, Aimed, AimedAt, AdminsLast, NewVolumes
<1> QED BY <1>3, <1>4, <1>5, <1>6, <1>7 DEF BootInv

\* What a call is refused or accepted in.
LEMMA Accepting ==
  ASSUME BootInv, NEW op \in Operations, Accepts(op)
  PROVE  /\ product = "ws215i" /\ loaded = {"volume", "preset"}
         /\ state \in {"Unavailable", "Started"} /\ (op = "import" => state = "Unavailable")
         /\ \A c \in work : c.op \notin DOMAIN Exclusive
<1>1. product = "ws215i" /\ state \in {"Unavailable", "Started"} /\ (op = "import" => state = "Unavailable")
  BY DEF Accepts
<1>2. loaded = {"volume", "preset"}
  BY <1>1 DEF BootInv, Known
<1> QED BY <1>1, <1>2, Unoccupied

\* An operation begins.
LEMMA BeginInv ==
  ASSUME BootInv, NEW r \in Requests, NEW op \in Operations, NEW D \in SUBSET Devs,
         Begin(r, op, D)
  PROVE  BootInv'
<1>0. PICK c \in Chains : /\ c = Chain(r, op, D, "check")
                          /\ c.who = r /\ c.op = op /\ c.step = "check" /\ c.vol = bound.id
                          /\ bound.id # 0 => disk.admin[bound.id] # "none"
  BY ChainTypes, Numbers
<1>1. /\ Asks(r, op) /\ Accepts(op) /\ answer' = [answer EXCEPT ![r] = "waiting"]
      /\ op \in {"init", "repair", "add"} /\ (op = "init" => NewVolumes # {})
      /\ state' = Exclusive[op] /\ state' \in {"Initializing", "Repairing", "Adding"}
      /\ work' = work \cup {c} /\ jobs' = <<>> /\ busy' = 0 /\ serving' = 0 /\ given' = "none"
      /\ UNCHANGED saves
  BY <1>0, ExclusiveIs DEF Begin, Enter, Waits
<1>2. /\ \A d \in work : d.who # r
      /\ asked' \in [Requests -> Operations \cup {"none"}]
      /\ answer' \in [Requests -> {"none", "waiting", "ok", "error", "lost"}] /\ answer'[r] = "waiting"
      /\ \A q \in Requests : q # r => answer'[q] = answer[q]
      /\ UNCHANGED <<product, disk, flash, chassis, loaded, bound, preset, boundUser, storage,
                     starts, changed, spent>>
  BY <1>1, Asking
<1>3. /\ product = "ws215i" /\ loaded = {"volume", "preset"}
      /\ \A d \in work : d.op \notin DOMAIN Exclusive
  BY <1>1, Accepting
<1>5. AimedAt(c) /\ c.step \in Steps[c.op] /\ c.op \in DOMAIN Exclusive /\ state' = Exclusive[c.op]
  BY <1>1, <1>0, ExclusiveIs DEF AimedAt, Steps
<1>6. /\ work' \subseteq Chains /\ \A d, e \in work' : d.who = e.who => d = e
      /\ OneOperation' /\ SavesWaitedFor' /\ saves' \in Seq([who : Int, data : Records])
      /\ Aimed'
  <2>1. c \in Chains /\ \A d \in work : d.who # c.who
    BY <1>0, <1>2
  <2> QED BY <1>1, <1>2, <1>3, <1>5, <2>1, Joining
<1>7. TypeOK'
  <2>1. jobs' \in Seq(Chains) /\ busy' \in {0} \cup {d.who : d \in work'}
    BY <1>1
  <2> QED BY <1>1, <1>2, <1>6, <2>1 DEF BootInv, TypeOK
<1>8. Numbered'
  <2>1. \A d \in work : Owned(d)'
    BY <1>2, Owners, OthersOwn
  <2>2. Owned(c)'
    BY <1>1, <1>2, <1>0 DEF Owned
  <2> QED BY <1>1, <2>1, <2>2 DEF Numbered
<1>9. BoundHasAdmin' /\ Known' /\ Served'
  BY <1>1, <1>2, <1>3 DEF BootInv, BoundHasAdmin, Known, Served
<1> QED BY <1>6, <1>7, <1>8, <1>9 DEF BootInv

\* A volume is imported, or the call is refused and Boot probes again.
LEMMA ImportInv ==
  ASSUME BootInv, NEW r \in Requests, NEW v \in Vols, Import(r, v)
  PROVE  BootInv'
<1> DEFINE x == [id |-> v, devs |-> storage.vols[v].devs]
<1>4. PICK c \in Chains : /\ c = Chain(r, "import", {}, "save") /\ c.who = r
                          /\ c.op = "import" /\ c.step = "save" /\ c.vol = bound.id
                          /\ bound.id # 0 => disk.admin[bound.id] # "none"
  <2>1. r \in Int /\ "import" \in Operations \cup {"update"}
    BY Numbers DEF Operations
  <2> QED BY <2>1, ChainTypes
<1>1. /\ Asks(r, "import") /\ Accepts("import")
      /\ UNCHANGED <<serving, given, jobs, busy>>
      /\ \/ /\ Importable(v) /\ state' = "Importing" /\ answer' = [answer EXCEPT ![r] = "waiting"]
            /\ work' = work \cup {c} /\ saves' = Append(saves, [who |-> r, data |-> x])
         \/ /\ state' = "Probing" /\ answer' = [answer EXCEPT ![r] = "error"]
            /\ UNCHANGED <<work, saves>>
  BY <1>4 DEF Import, Waits, chains, Record
<1>2. /\ \A d \in work : d.who # r
      /\ \A i \in 1 .. Len(jobs) : jobs[i].who # r
      /\ asked' \in [Requests -> Operations \cup {"none"}]
      /\ answer' \in [Requests -> {"none", "waiting", "ok", "error", "lost"}]
      /\ answer' = [answer EXCEPT ![r] = "waiting"] => answer'[r] = "waiting"
      /\ \A q \in Requests : q # r => answer'[q] = answer[q]
      /\ UNCHANGED <<product, disk, flash, chassis, loaded, bound, preset, boundUser, storage,
                     starts, changed, spent>>
  BY <1>1, Asking DEF Operations
<1>3. /\ product = "ws215i" /\ loaded = {"volume", "preset"}
      /\ \A d \in work : d.op \notin DOMAIN Exclusive
  BY <1>1, Accepting DEF Operations
<1>5. x \in Records /\ x.id = v /\ v # 0
  <2>1. storage.vols[v].devs \in SUBSET Devs
    BY DEF BootInv, TypeOK, Snapshots
  <2> QED BY <2>1, Numbers DEF Records
<1>6. Importable(v) => disk.admin[v] # "none"
  BY DEF Importable, BootInv, Aimed, AdminsLast
<1> HIDE DEF x
<1>7. AimedAt(c) /\ c.step \in Steps[c.op] /\ c.op \in DOMAIN Exclusive /\ Exclusive[c.op] = "Importing"
  BY <1>4, ExclusiveIs DEF AimedAt, Steps
<1>8. /\ work' \subseteq Chains /\ \A d, e \in work' : d.who = e.who => d = e
      /\ OneOperation' /\ SavesWaitedFor' /\ saves' \in Seq([who : Int, data : Records])
      /\ Aimed'
  <2>1. CASE UNCHANGED <<work, saves>>
    <3>1. AdminsLast'
      BY <1>2 DEF BootInv, Aimed, AdminsLast
    <3>2. OneOperation'
      BY <2>1, <1>3 DEF BootInv, OneOperation
    <3>3. SavesWaitedFor'
      BY <2>1, <1>2 DEF BootInv, SavesWaitedFor
    <3>4. Aimed'
      BY <2>1, <1>2, <3>1 DEF BootInv, Aimed, AimedAt, NewVolumes
    <3> QED BY <2>1, <3>2, <3>3, <3>4 DEF BootInv, TypeOK
  <2>2. CASE ~UNCHANGED <<work, saves>>
    <3>1. c \in Chains /\ \A d \in work : d.who # c.who
      BY <1>2, <1>4
    <3>2. /\ work' = work \cup {c} /\ state' = "Importing" /\ c.step = "save"
          /\ \E y \in Records : /\ y.id # 0 /\ disk.admin[y.id] # "none"
                                /\ saves' = Append(saves, [who |-> c.who, data |-> y])
      BY <2>2, <1>1, <1>4, <1>5, <1>6
    <3> QED BY <1>2, <1>3, <1>7, <3>1, <3>2, Joining
  <2> QED BY <2>1, <2>2
<1>9. TypeOK'
  <2>1. jobs' \in Seq(Chains) /\ busy' \in {0} \cup {d.who : d \in work'}
    BY <1>1 DEF BootInv, TypeOK
  <2> QED BY <1>1, <1>2, <1>8, <2>1 DEF BootInv, TypeOK
<1>10. Numbered'
  <2>1. \A d \in work : Owned(d)'
    BY <1>2, Owners, OthersOwn
  <2>2. c \in work' \ work => Owned(c)'
    BY <1>1, <1>2, <1>4 DEF Owned
  <2>3. \A i \in 1 .. Len(jobs) : Owned(jobs[i])'
    <3> SUFFICES ASSUME NEW i \in 1 .. Len(jobs) PROVE Owned(jobs[i])'
      OBVIOUS
    <3>1. PICK j : j = jobs[i]
      OBVIOUS
    <3>2. Owned(j) /\ j.who # r
      BY <1>2, <3>1, Owners
    <3>3. Owned(j)'
      BY <1>2, <3>2, OthersOwn
    <3> QED BY <1>1, <3>1, <3>3 DEF Owned
  <2>4. \A d \in work' : d \in work \/ d = c
    BY <1>1
  <2> QED BY <1>1, <1>2, <1>4, <2>1, <2>2, <2>3, <2>4 DEF BootInv, Numbered
<1>11. BoundHasAdmin' /\ Known' /\ Served'
  BY <1>1, <1>2, <1>3 DEF BootInv, BoundHasAdmin, Known, Served
<1> QED BY <1>8, <1>9, <1>10, <1>11 DEF BootInv

\* A removal waits among the jobs of Started.
LEMMA RemoveInv ==
  ASSUME BootInv, NEW r \in Requests, NEW d \in Devs, Remove(r, d)
  PROVE  BootInv'
<1>0. PICK c \in Chains : /\ c = Chain(r, "remove", {d}, "shrink") /\ c.who = r
                          /\ c.op = "remove" /\ c.step = "shrink"
  <2>1. r \in Int /\ "remove" \in Operations \cup {"update"} /\ {d} \in SUBSET Devs
    BY Numbers DEF Operations
  <2> QED BY <2>1, ChainTypes
<1>1. /\ Asks(r, "remove") /\ Accepts("remove") /\ answer' = [answer EXCEPT ![r] = "waiting"]
      /\ jobs' = Append(jobs, c) /\ UNCHANGED <<state, serving, given, busy, work, saves>>
  BY <1>0 DEF Remove, Waits, chains
<1>2. /\ \A e \in work : e.who # r
      /\ \A i \in 1 .. Len(jobs) : jobs[i].who # r
      /\ asked' \in [Requests -> Operations \cup {"none"}]
      /\ answer' \in [Requests -> {"none", "waiting", "ok", "error", "lost"}] /\ answer'[r] = "waiting"
      /\ \A q \in Requests : q # r => answer'[q] = answer[q]
      /\ UNCHANGED <<product, disk, flash, chassis, loaded, bound, preset, boundUser, storage,
                     starts, changed, spent>>
  BY <1>1, Asking DEF Operations
<1>3. product = "ws215i" /\ loaded = {"volume", "preset"}
  BY <1>1, Accepting DEF Operations
<1>4. c \in Chains /\ c.who = r /\ c.op = "remove" /\ c.step = "shrink"
  BY <1>0
<1>5. /\ jobs \in Seq(Chains) /\ jobs' \in Seq(Chains)
      /\ Len(jobs') = Len(jobs) + 1 /\ Len(jobs) \in Nat
      /\ \A i \in 1 .. Len(jobs') : jobs'[i] = IF i <= Len(jobs) THEN jobs[i] ELSE c
      /\ \A i \in 1 .. Len(jobs') : i <= Len(jobs) => i \in 1 .. Len(jobs)
  BY <1>1, <1>4, Owners
<1>6. TypeOK'
  BY <1>1, <1>2, <1>5 DEF BootInv, TypeOK
<1>7. Numbered'
  <2>1. \A e \in work : Owned(e)'
    BY <1>2, Owners, OthersOwn
  <2>2. Owned(c)'
    BY <1>2, <1>4 DEF Owned
  <2>3. \A e : e.who # r /\ Owned(e) => Owned(e)'
    BY <1>2, OthersOwn
  <2>4. ASSUME NEW i \in 1 .. Len(jobs')
        PROVE  /\ Owned(jobs[i])'
               /\ \/ jobs'[i].op = "remove" /\ jobs'[i].step = "shrink"
                  \/ jobs'[i].op = "update" /\ jobs'[i].who = -starts'
               /\ \A e \in work' : e.who # jobs'[i].who
    <3>1. CASE i <= Len(jobs)
      <4>1. PICK e : e = jobs[i]
        OBVIOUS
      <4>2. /\ Owned(e) /\ e.who # r /\ \A g \in work : g.who # e.who
            /\ \/ e.op = "remove" /\ e.step = "shrink"
               \/ e.op = "update" /\ e.who = -starts
        BY <1>2, <1>5, <3>1, <4>1 DEF BootInv, Numbered
      <4>3. e = jobs'[i] /\ Owned(e)'
        BY <1>5, <2>3, <3>1, <4>1, <4>2
      <4> QED BY <1>1, <1>2, <4>2, <4>3 DEF Owned
    <3>2. CASE ~(i <= Len(jobs))
      <4>1. jobs'[i] = c
        BY <1>5, <3>2
      <4> QED BY <1>1, <1>2, <1>4, <2>2, <4>1 DEF Owned
    <3> QED BY <3>1, <3>2
  <2>5. \A i, k \in 1 .. Len(jobs') : jobs'[i].who = jobs'[k].who => i = k
    <3>1. \A i, k \in 1 .. Len(jobs) : jobs[i].who = jobs[k].who => i = k
      BY DEF BootInv, Numbered
    <3> QED BY <1>2, <1>4, <1>5, <3>1
  <2> QED BY <1>1, <2>1, <2>4, <2>5 DEF Numbered
<1>8. OneOperation' /\ SavesWaitedFor'
  BY <1>1, <1>2 DEF BootInv, OneOperation, SavesWaitedFor
<1>9. BoundHasAdmin' /\ Known' /\ Served'
  BY <1>1, <1>2, <1>3 DEF BootInv, BoundHasAdmin, Known, Served
<1>10. Aimed'
  BY <1>1, <1>2 DEF BootInv, Aimed, AimedAt, AdminsLast, NewVolumes
<1> QED BY <1>6, <1>7, <1>8, <1>9, <1>10 DEF BootInv

\* The first job leaves the others; its number is theirs no more.
LEMMA JobTaken ==
  ASSUME BootInv, jobs # <<>>, jobs' = Tail(jobs)
  PROVE  /\ jobs' \in Seq(Chains) /\ Len(jobs') \in Nat /\ 1 \in 1 .. Len(jobs)
         /\ Head(jobs) = jobs[1]
         /\ \A i \in 1 .. Len(jobs') : /\ i + 1 \in 1 .. Len(jobs) /\ jobs'[i] = jobs[i + 1]
                                       /\ jobs'[i].who # Head(jobs).who
         /\ \A i, k \in 1 .. Len(jobs') : jobs'[i].who = jobs'[k].who => i = k
<1>1. /\ jobs \in Seq(Chains) /\ jobs' \in Seq(Chains) /\ Len(jobs') = Len(jobs) - 1
      /\ \A i \in 1 .. Len(jobs') : i + 1 \in 1 .. Len(jobs) /\ jobs'[i] = jobs[i + 1]
      /\ 1 \in 1 .. Len(jobs) /\ Head(jobs) = jobs[1] /\ Len(jobs') \in Nat
  BY Owners
<1>2. \A i, k \in 1 .. Len(jobs) : jobs[i].who = jobs[k].who => i = k
  BY DEF BootInv, Numbered
<1>3. ASSUME NEW i \in 1 .. Len(jobs') PROVE jobs'[i].who # Head(jobs).who
  <2>1. i + 1 # 1 /\ i + 1 \in 1 .. Len(jobs)
    BY <1>1
  <2> QED BY <1>1, <1>2, <2>1
<1>4. ASSUME NEW i \in 1 .. Len(jobs'), NEW k \in 1 .. Len(jobs'), jobs'[i].who = jobs'[k].who
      PROVE  i = k
  <2>1. i + 1 \in 1 .. Len(jobs) /\ k + 1 \in 1 .. Len(jobs) /\ jobs[i + 1].who = jobs[k + 1].who
    BY <1>1, <1>4
  <2>2. i + 1 = k + 1
    BY <1>2, <2>1
  <2> QED BY <2>2
<1> QED BY <1>1, <1>3, <1>4

\* A job starts, is refused, or has nothing to do.
LEMMA StartJobInv == ASSUME BootInv, StartJob PROVE BootInv'
<1>0. PICK j \in Chains : j = Head(jobs)
  BY Owners DEF StartJob
<1>1. /\ jobs # <<>> /\ busy = 0 /\ jobs' = Tail(jobs)
      /\ UNCHANGED <<product, disk, flash, chassis, loaded, bound, preset, boundUser, state,
                     storage, serving, given, starts, changed, asked, spent>>
  BY DEF StartJob, known
<1>2. /\ jobs' \in Seq(Chains) /\ Len(jobs') \in Nat /\ 1 \in 1 .. Len(jobs) /\ j = jobs[1]
      /\ \A i \in 1 .. Len(jobs') : /\ i + 1 \in 1 .. Len(jobs) /\ jobs'[i] = jobs[i + 1]
                                    /\ jobs'[i].who # j.who
      /\ \A i, k \in 1 .. Len(jobs') : jobs'[i].who = jobs'[k].who => i = k
  BY <1>0, <1>1, JobTaken
<1>3. /\ j \in Chains /\ Owned(j) /\ \A c \in work : c.who # j.who
      /\ (j.op = "remove" /\ j.step = "shrink") \/ j.op = "update"
      /\ bound.id \in Vols \cup {0} /\ (bound.id # 0 => disk.admin[bound.id] # "none")
  <2>1. bound.id # 0 => disk.admin[bound.id] # "none"
    BY DEF BootInv, BoundHasAdmin, Known, NoVolume
  <2> QED BY <1>0, <1>2, <2>1 DEF BootInv, TypeOK, Records, Numbered
<1>4. product = "ws215i" /\ loaded = {"volume", "preset"}
  BY <1>1 DEF BootInv, TypeOK, Known
<1>5. \/ \E c \in Chains :
           /\ work' = work \cup {c} /\ c.who = j.who /\ c.op = j.op /\ c.vol = bound.id
           /\ bound.id # 0 /\ busy' = j.who /\ UNCHANGED answer
           /\ \/ UNCHANGED saves /\ c.step \in {"shrink", "recompute"} /\ c.step \in Steps[c.op]
              \/ /\ c.step = "save" /\ c.op = "update"
                 /\ \E r \in Records : /\ r.id = bound.id
                                       /\ saves' = Append(saves, [who |-> c.who, data |-> r])
      \/ /\ UNCHANGED <<work, saves, busy>> /\ j.op = "remove"
         /\ answer' = [answer EXCEPT ![j.who] = "error"]
      \/ UNCHANGED <<work, saves, busy, answer>>
  <2> DEFINE D == IF bound.id = 0 THEN {} ELSE storage.vols[bound.id].devs
             found == IF bound.id = 0 THEN {} ELSE storage.vols[bound.id].found
  <2>1. D \in SUBSET Devs /\ (D # {} => bound.id # 0) /\ Cardinality({}) = 0
    BY <1>3, FS_EmptySet DEF BootInv, TypeOK, Snapshots
  <2>2. [id |-> bound.id, devs |-> D] \in Records
    BY <1>3, <2>1 DEF Records
  <2> HIDE DEF D, found
  <2>4. \/ /\ j.op = "remove" /\ Cardinality(D) = 2
           /\ work' = work \cup {On(j, bound.id)}
           /\ busy' = j.who /\ UNCHANGED <<answer, saves>>
        \/ /\ j.op = "remove" /\ answer' = [answer EXCEPT ![j.who] = "error"]
           /\ UNCHANGED <<work, saves, busy>>
        \/ /\ j.op = "update" /\ Cardinality(D) = 1
           /\ work' = work \cup {On(At(With(j, D), "recompute"), bound.id)}
           /\ busy' = j.who /\ UNCHANGED <<answer, saves>>
        \/ /\ j.op = "update" /\ D # {}
           /\ work' = work \cup {On(At(j, "save"), bound.id)}
           /\ busy' = j.who /\ UNCHANGED answer
           /\ saves' = Append(saves, [who |-> j.who, data |-> [id |-> bound.id, devs |-> D]])
        \/ UNCHANGED <<work, saves, busy, answer>>
    BY <1>0 DEF StartJob, Record, D, found
  <2>5. /\ Steps["remove"] = {"shrink", "update", "save"} /\ Steps["update"] = {"recompute", "save"}
        /\ {"recompute", "save"} \subseteq StepNames
    BY DEF Steps, StepNames
  <2>6. CASE /\ j.op = "remove" /\ Cardinality(D) = 2
             /\ work' = work \cup {On(j, bound.id)}
             /\ busy' = j.who /\ UNCHANGED <<answer, saves>>
    <3>1. PICK c \in Chains : /\ c = On(j, bound.id) /\ c.who = j.who /\ c.op = j.op
                              /\ c.vol = bound.id /\ c.step = "shrink"
      BY <1>3, <2>6, ChainChanges
    <3>2. work' = work \cup {c} /\ bound.id # 0
      BY <2>1, <2>6, <3>1
    <3>3. c.step \in {"shrink", "recompute"} /\ c.step \in Steps[c.op]
      BY <2>5, <2>6, <3>1
    <3> QED BY <2>6, <3>1, <3>2, <3>3
  <2>7. CASE /\ j.op = "update" /\ Cardinality(D) = 1
             /\ work' = work \cup {On(At(With(j, D), "recompute"), bound.id)}
             /\ busy' = j.who /\ UNCHANGED <<answer, saves>>
    <3>1. PICK a \in Chains : a = With(j, D) /\ a.who = j.who /\ a.op = j.op
      BY <1>3, <2>1, ChainChanges
    <3>2. PICK b \in Chains : b = At(a, "recompute") /\ b.who = j.who /\ b.op = j.op /\ b.step = "recompute"
      BY <2>5, <3>1, ChainChanges
    <3>3. PICK c \in Chains : /\ c = On(b, bound.id) /\ c.who = j.who /\ c.op = j.op
                              /\ c.vol = bound.id /\ c.step = "recompute"
      BY <1>3, <3>2, ChainChanges
    <3>4. work' = work \cup {c} /\ bound.id # 0
      BY <2>1, <2>7, <3>1, <3>2, <3>3
    <3>5. c.step \in {"shrink", "recompute"} /\ c.step \in Steps[c.op]
      BY <2>5, <2>7, <3>3
    <3> QED BY <2>7, <3>3, <3>4, <3>5
  <2>8. CASE /\ j.op = "update" /\ D # {}
             /\ work' = work \cup {On(At(j, "save"), bound.id)}
             /\ busy' = j.who /\ UNCHANGED answer
             /\ saves' = Append(saves, [who |-> j.who, data |-> [id |-> bound.id, devs |-> D]])
    <3>1. PICK b \in Chains : b = At(j, "save") /\ b.who = j.who /\ b.op = j.op /\ b.step = "save"
      BY <1>3, <2>5, ChainChanges
    <3>2. PICK c \in Chains : /\ c = On(b, bound.id) /\ c.who = j.who /\ c.op = j.op
                              /\ c.vol = bound.id /\ c.step = "save"
      BY <1>3, <3>1, ChainChanges
    <3>3. work' = work \cup {c} /\ bound.id # 0
      BY <2>1, <2>8, <3>1, <3>2
    <3>4. PICK x \in Records : x = [id |-> bound.id, devs |-> D] /\ x.id = bound.id
      BY <2>2
    <3>5. x \in Records /\ x.id = bound.id /\ saves' = Append(saves, [who |-> c.who, data |-> x])
      BY <2>8, <3>2, <3>4
    <3> QED BY <2>8, <3>2, <3>3, <3>5
  <2> QED BY <2>4, <2>6, <2>7, <2>8
<1>6. \A c : c.who # j.who /\ Owned(c) => Owned(c)'
  BY <1>1, <1>3, <1>5 DEF Owned, BootInv, TypeOK
<1>7. /\ work' \subseteq Chains /\ \A d, e \in work' : d.who = e.who => d = e
      /\ OneOperation' /\ SavesWaitedFor' /\ saves' \in Seq([who : Int, data : Records])
      /\ Aimed' /\ busy' \in {0} \cup {d.who : d \in work'}
      /\ answer' \in [Requests -> {"none", "waiting", "ok", "error", "lost"}]
      /\ \A d \in work' : Owned(d)' /\ \A i \in 1 .. Len(jobs') : d.who # jobs'[i].who
  <2>1. CASE UNCHANGED <<work, saves, busy>>
    <3>1. OneOperation' /\ SavesWaitedFor'
      BY <1>1, <2>1 DEF BootInv, OneOperation, SavesWaitedFor
    <3>2. Aimed'
      BY <1>1, <2>1 DEF BootInv, Aimed, AimedAt, AdminsLast, NewVolumes
    <3>3. answer' \in [Requests -> {"none", "waiting", "ok", "error", "lost"}]
      BY <1>5 DEF BootInv, TypeOK
    <3>4. \A d \in work : Owned(d)' /\ \A i \in 1 .. Len(jobs') : d.who # jobs'[i].who
      BY <1>2, <1>3, <1>6, Owners DEF BootInv, Numbered
    <3> QED BY <2>1, <3>1, <3>2, <3>3, <3>4 DEF BootInv, TypeOK
  <2>2. CASE ~UNCHANGED <<work, saves, busy>>
    <3>1. PICK c \in Chains :
            /\ work' = work \cup {c} /\ c.who = j.who /\ c.op = j.op /\ c.vol = bound.id
            /\ bound.id # 0 /\ busy' = j.who /\ UNCHANGED answer
            /\ \/ UNCHANGED saves /\ c.step \in {"shrink", "recompute"} /\ c.step \in Steps[c.op]
               \/ /\ c.step = "save" /\ c.op = "update"
                  /\ \E r \in Records : /\ r.id = bound.id
                                        /\ saves' = Append(saves, [who |-> c.who, data |-> r])
      BY <1>5, <2>2
    <3>2. /\ c \in Chains /\ c.op \notin DOMAIN Exclusive /\ c.step \in Steps[c.op]
          /\ c.op \in {"remove", "update"}
      BY <1>3, <3>1, ExclusiveIs DEF Steps
    <3>3. AimedAt(c)
      BY <1>3, <3>1, <3>2 DEF AimedAt
    <3>4. \A d \in work : d.who # c.who
      BY <1>3, <3>1
    <3>5. \/ UNCHANGED saves
          \/ /\ c.step = "save"
             /\ \E r \in Records : /\ r.id # 0 /\ disk.admin[r.id] # "none"
                                   /\ saves' = Append(saves, [who |-> c.who, data |-> r])
      BY <1>3, <3>1
    <3>6. /\ work' \subseteq Chains /\ \A d, e \in work' : d.who = e.who => d = e
          /\ OneOperation' /\ SavesWaitedFor' /\ saves' \in Seq([who : Int, data : Records])
          /\ Aimed'
      BY <1>1, <3>1, <3>2, <3>3, <3>4, <3>5, Joining
    <3>7. \A d \in work : Owned(d)' /\ \A i \in 1 .. Len(jobs') : d.who # jobs'[i].who
      BY <1>2, <1>3, <1>6, Owners DEF BootInv, Numbered
    <3>8. Owned(c)' /\ \A i \in 1 .. Len(jobs') : c.who # jobs'[i].who
      BY <1>1, <1>2, <1>3, <3>1 DEF Owned
    <3>9. answer' \in [Requests -> {"none", "waiting", "ok", "error", "lost"}]
      BY <3>1 DEF BootInv, TypeOK
    <3> QED BY <3>1, <3>6, <3>7, <3>8, <3>9
  <2> QED BY <2>1, <2>2
<1>8. TypeOK'
  BY <1>1, <1>2, <1>7 DEF BootInv, TypeOK
<1>9. Numbered'
  <2>1. ASSUME NEW i \in 1 .. Len(jobs')
        PROVE  /\ Owned(jobs[i])'
               /\ \/ jobs'[i].op = "remove" /\ jobs'[i].step = "shrink"
                  \/ jobs'[i].op = "update" /\ jobs'[i].who = -starts'
    <3>1. PICK e : e = jobs'[i]
      OBVIOUS
    <3>2. /\ Owned(e) /\ e.who # j.who
          /\ \/ e.op = "remove" /\ e.step = "shrink"
             \/ e.op = "update" /\ e.who = -starts
      BY <1>2, <3>1 DEF BootInv, Numbered
    <3>3. Owned(e)'
      BY <1>6, <3>2
    <3> QED BY <1>1, <3>1, <3>2, <3>3 DEF Owned
  <2> QED BY <1>2, <1>7, <2>1 DEF Numbered
<1>10. BoundHasAdmin' /\ Known' /\ Served'
  BY <1>1, <1>4 DEF BootInv, BoundHasAdmin, Known, Served
<1> QED BY <1>7, <1>8, <1>9, <1>10 DEF BootInv

-----------------------------------------------------------------------------
(* The chains go on and end.                                               *)

\* A chain with a next step keeps its caller and its operation; it joins the queue of
\* saves with the step that waits for it.
LEMMA Going ==
  ASSUME BootInv, NEW c \in work, c.step # "save", NEW n \in Chains, Go(c, n), Rest,
         n.who = c.who, n.op = c.op, n.step \in Steps[c.op], AimedAt(n)',
         storage' \in Snapshots, AdminsLast', disk' \in Disks,
         \A v \in Vols : disk.admin[v] # "none" => disk'.admin[v] # "none",
         c.op \in DOMAIN Exclusive \/ (NewVolumes # {} => NewVolumes' # {}),
         \/ UNCHANGED saves
         \/ /\ n.step = "save"
            /\ \E r \in Records : /\ r.id # 0 /\ disk'.admin[r.id] # "none"
                                  /\ saves' = Append(saves, [who |-> c.who, data |-> r])
  PROVE  BootInv'
<1>1. /\ work' = (work \ {c}) \cup {n}
      /\ UNCHANGED <<state, answer, busy, product, flash, chassis, loaded, bound, preset,
                     boundUser, serving, given, jobs, starts, changed, asked, spent>>
  BY DEF Go, Rest, known
<1>2. /\ c \in Chains /\ Owned(c) /\ c.who \in Int
      /\ \A d \in work : d.who = c.who => d = c
      /\ work \subseteq Chains /\ \A d, e \in work : d.who = e.who => d = e
  BY Owners DEF BootInv, TypeOK, Chains
<1>3. SavesWaitedFor' /\ saves' \in Seq([who : Int, data : Records])
  <2>1. \A d \in work : d.step = "save" => d \in work'
    BY <1>1
  <2>2. CASE UNCHANGED saves
    BY <2>1, <2>2, SavesStay
  <2>3. CASE ~UNCHANGED saves
    <3>1. PICK r \in Records : /\ r.id # 0 /\ disk'.admin[r.id] # "none"
                               /\ saves' = Append(saves, [who |-> c.who, data |-> r])
      BY <2>3
    <3>2. \A i \in 1 .. Len(saves) : saves[i].who # c.who
      BY <1>2 DEF BootInv, SavesWaitedFor
    <3>3. \E d \in work' : d.who = c.who /\ d.step = "save"
      BY <1>1, <2>3
    <3> QED BY <1>2, <2>1, <3>1, <3>2, <3>3, SavesGrow
  <2> QED BY <2>2, <2>3
<1>4. OneOperation'
  <2>1. ASSUME NEW d \in work'
        PROVE  d.step \in Steps[d.op] /\ (d.op \in DOMAIN Exclusive => state' = Exclusive[d.op])
    BY <1>1, <2>1 DEF BootInv, OneOperation
  <2>2. ASSUME NEW d \in work', NEW e \in work', {d.op, e.op} \subseteq DOMAIN Exclusive
        PROVE  d = e
    BY <1>1, <2>2 DEF BootInv, OneOperation
  <2> QED BY <2>1, <2>2 DEF OneOperation
<1>5. Numbered'
  <2>1. Owned(n)' /\ \A d \in work : Owned(d)'
    BY <1>1, <1>2, Owners DEF Owned
  <2>2. \A d \in work' : \A i \in 1 .. Len(jobs) : d.who # jobs[i].who
    BY <1>1 DEF BootInv, Numbered
  <2>3. \A i \in 1 .. Len(jobs) : Owned(jobs[i])'
    BY <1>1 DEF BootInv, Numbered, Owned
  <2> QED BY <1>1, <2>1, <2>2, <2>3 DEF BootInv, Numbered
<1>6. TypeOK'
  <2>1. /\ work' \subseteq Chains /\ \A d, e \in work' : d.who = e.who => d = e
        /\ busy' \in {0} \cup {d.who : d \in work'}
    BY <1>1, <1>2 DEF BootInv, TypeOK
  <2> QED BY <1>1, <1>3, <2>1 DEF BootInv, TypeOK
<1>7. Aimed'
  <2>1. ASSUME NEW d \in work, d # c PROVE AimedAt(d)'
    <3>1. AimedAt(d) /\ (d.vol # 0 => d.vol \in Vols)
      BY <1>2 DEF BootInv, Aimed, Chains
    <3>2. d.op = "init" => c.op \notin DOMAIN Exclusive
      BY <2>1, ExclusiveIs DEF BootInv, OneOperation
    <3> QED BY <1>1, <3>1, <3>2 DEF AimedAt
  <2> QED BY <1>1, <2>1 DEF Aimed
<1>8. BoundHasAdmin' /\ Known' /\ Served'
  <2>1. product = "ws215i" /\ loaded = {"volume", "preset"}
    BY DEF BootInv, TypeOK, Known
  <2>2. BoundHasAdmin'
    BY <1>1 DEF BootInv, TypeOK, Records, BoundHasAdmin
  <2> QED BY <1>1, <2>1, <2>2 DEF BootInv, Known, Served
<1> QED BY <1>3, <1>4, <1>5, <1>6, <1>7, <1>8 DEF BootInv

\* A chain ends: its caller is answered, its state left, and nobody else's chain, job or
\* save disturbed.
LEMMA Ending ==
  ASSUME BootInv, NEW c \in work, NEW result \in {"ok", "error"}, End(c, result),
         SavesWaitedFor', saves' \in Seq([who : Int, data : Records]),
         storage' \in Snapshots, AdminsLast', UNCHANGED disk,
         spent' \in [{"crash", "fault", "plug", "tell"} -> Nat],
         flash' \in [volume : Records, preset : BOOLEAN], bound' \in Records, BoundHasAdmin',
         bound' = IF "volume" \in loaded THEN flash'.volume ELSE NoVolume,
         \A d \in work : d # c /\ d.op \notin {"init", "import"} =>
                           (bound'.id = 0 <=> bound.id = 0),
         UNCHANGED <<product, chassis, loaded, preset, boundUser, serving, given, jobs, starts,
                     changed, asked>>
  PROVE  BootInv'
<1>1. /\ work' = work \ {c}
      /\ state' = IF c.op \in {"init", "import", "repair", "add"} THEN "Probing" ELSE state
      /\ answer' = IF c.who \in Requests THEN [answer EXCEPT ![c.who] = result] ELSE answer
      /\ busy' = IF busy = c.who THEN 0 ELSE busy
  BY DEF End, Over
<1>2. /\ work \subseteq Chains /\ \A d, e \in work : d.who = e.who => d = e
      /\ \A q \in Requests : q # c.who => answer'[q] = answer[q]
  BY <1>1 DEF BootInv, TypeOK
<1>3. TypeOK'
  <2>1. /\ work' \subseteq Chains /\ \A d, e \in work' : d.who = e.who => d = e
        /\ busy' \in {0} \cup {d.who : d \in work'}
    BY <1>1, <1>2 DEF BootInv, TypeOK
  <2>2. answer' \in [Requests -> {"none", "waiting", "ok", "error", "lost"}]
    BY <1>1 DEF BootInv, TypeOK
  <2>3. state' \in {"Probing", "ProbeFailed", "Pending", "Presetting", "EmbedVolumeFailed",
                    "Starting", "Started", "Unavailable", "Initializing", "Importing",
                    "Repairing", "Adding"}
    BY <1>1 DEF BootInv, TypeOK
  <2> QED BY <2>1, <2>2, <2>3 DEF BootInv, TypeOK
<1>4. OneOperation'
  <2>1. \A d \in work' : d.op \in DOMAIN Exclusive => state' = Exclusive[d.op]
    BY <1>1, ExclusiveIs DEF BootInv, OneOperation
  <2> QED BY <1>1, <2>1 DEF BootInv, OneOperation
<1>5. Numbered'
  <2>1. \A d \in work' : Owned(d)' /\ \A i \in 1 .. Len(jobs) : jobs[i].who # d.who
    <3> SUFFICES ASSUME NEW d \in work'
                 PROVE  Owned(d)' /\ \A i \in 1 .. Len(jobs) : jobs[i].who # d.who
      OBVIOUS
    <3>1. Owned(d) /\ d.who # c.who /\ \A i \in 1 .. Len(jobs) : jobs[i].who # d.who
      BY <1>1, <1>2 DEF BootInv, Numbered
    <3> QED BY <1>2, <3>1, OthersOwn
  <2>2. \A i \in 1 .. Len(jobs) : Owned(jobs[i])'
    <3> SUFFICES ASSUME NEW i \in 1 .. Len(jobs) PROVE Owned(jobs[i])'
      OBVIOUS
    <3>1. PICK j : j = jobs[i]
      OBVIOUS
    <3>2. Owned(j) /\ j.who # c.who
      BY <3>1 DEF BootInv, Numbered
    <3>3. Owned(j)'
      BY <1>2, <3>2, OthersOwn
    <3> QED BY <3>1, <3>3 DEF Owned
  <2> QED BY <2>1, <2>2 DEF BootInv, Numbered
<1>6. Aimed'
  <2>1. ASSUME NEW d \in work, d # c PROVE AimedAt(d)'
    BY <2>1 DEF BootInv, Aimed, AimedAt, NewVolumes
  <2> QED BY <1>1, <2>1 DEF Aimed
<1>7. Known' /\ Served'
  <2>1. product = "ws215i" /\ loaded = {"volume", "preset"} /\ (chassis # "ready" => loaded = {})
    BY DEF BootInv, TypeOK, Known
  <2> QED BY <1>1, <2>1 DEF BootInv, Known, Served
<1> QED BY <1>3, <1>4, <1>5, <1>6, <1>7 DEF BootInv

\* A chain that fails leaves the disks as they are.
LEMMA Failing ==
  ASSUME BootInv, NEW c \in work, c.step # "save", Fails(c), UNCHANGED disk,
         storage' \in Snapshots, AdminsLast',
         spent' \in [{"crash", "fault", "plug", "tell"} -> Nat],
         UNCHANGED <<product, flash, chassis, loaded, bound, preset, boundUser, serving, given,
                     jobs, starts, changed, asked>>
  PROVE  BootInv'
<1>1. End(c, "error") /\ UNCHANGED saves
  BY DEF Fails
<1>2. \A d \in work : d.step = "save" => d \in work'
  BY <1>1 DEF End, Over
<1>3. SavesWaitedFor' /\ saves' \in Seq([who : Int, data : Records])
  BY <1>1, <1>2, SavesStay
<1>4. /\ flash' \in [volume : Records, preset : BOOLEAN] /\ bound' \in Records /\ BoundHasAdmin'
      /\ bound' = IF "volume" \in loaded THEN flash'.volume ELSE NoVolume
  BY DEF BootInv, TypeOK, BoundHasAdmin, Known
<1> QED BY <1>1, <1>3, <1>4, Ending

\* What a chain at work is known to be.
LEMMA Working ==
  ASSUME BootInv, NEW c \in work
  PROVE  /\ c \in Chains /\ c.vol \in Vols \cup {0} /\ c.step \in Steps[c.op] /\ AimedAt(c)
         /\ disk \in Disks /\ storage \in Snapshots /\ AdminsLast
         /\ c.step = "check" => c.op \in {"init", "repair", "add"}
         /\ c.step \in {"format", "users"} => c.op = "init"
         /\ c.step = "find" => c.op \in {"init", "repair"}
         /\ c.step \in {"mount", "prune"} => c.op = "repair"
         /\ c.step = "grow" => c.op \in {"repair", "add"}
         /\ c.step = "shrink" => c.op = "remove"
         /\ c.step = "update" => c.op \in {"add", "remove"}
         /\ c.step = "recompute" => c.op = "update"
<1>1. c \in Chains /\ c.step \in Steps[c.op] /\ AimedAt(c)
  BY Owners DEF BootInv, OneOperation, Aimed
<1>2. c.op \in {"init", "import", "repair", "add", "remove", "update"} /\ c.vol \in Vols \cup {0}
  BY <1>1 DEF Chains, Operations
<1>3. disk \in Disks /\ storage \in Snapshots /\ AdminsLast
  BY DEF BootInv, TypeOK, Aimed
<1> QED BY <1>1, <1>2, <1>3 DEF Steps

\* A chain that has its volume takes a step of its operation.
LEMMA Stepping ==
  ASSUME BootInv, NEW c \in work, c.step # "save", NEW s \in StepNames, s \in Steps[c.op],
         To(c, s), Rest, s # "check",
         c.op # "import", s = "format" => NewVolumes' # {}, s # "format" => c.vol # 0,
         storage' \in Snapshots, AdminsLast', disk' \in Disks,
         \A v \in Vols : disk.admin[v] # "none" => disk'.admin[v] # "none",
         c.op \in DOMAIN Exclusive \/ (NewVolumes # {} => NewVolumes' # {}),
         \/ UNCHANGED saves
         \/ /\ s = "save"
            /\ \E r \in Records : /\ r.id # 0 /\ disk'.admin[r.id] # "none"
                                  /\ saves' = Append(saves, [who |-> c.who, data |-> r])
  PROVE  BootInv'
<1>1. c \in Chains /\ AimedAt(c) /\ c.vol \in Vols \cup {0}
  BY Working
<1>2. PICK n \in Chains : /\ n = At(c, s) /\ n.who = c.who /\ n.op = c.op /\ n.vol = c.vol
                          /\ n.step = s
  BY <1>1, ChainChanges
<1>3. Go(c, n)
  BY <1>2 DEF To
<1>4. UNCHANGED bound
  BY DEF Rest, known
<1>5. AimedAt(n)'
  BY <1>1, <1>2, <1>4 DEF AimedAt
<1>6. n.step \in Steps[c.op]
  BY <1>2
<1> QED BY <1>2, <1>3, <1>5, <1>6, Going

\* A chain that saves a volume with an admin.
LEMMA Saving ==
  ASSUME BootInv, NEW c \in work, c.step # "save", NEW D \in SUBSET Devs,
         Save(c, c.vol, D), Rest, "save" \in Steps[c.op], c.op # "import", c.vol # 0,
         storage' \in Snapshots, AdminsLast', disk' \in Disks, disk'.admin[c.vol] # "none",
         \A v \in Vols : disk.admin[v] # "none" => disk'.admin[v] # "none",
         disk'.members = disk.members
  PROVE  BootInv'
<1>1. To(c, "save") /\ saves' = Append(saves, Record(c.who, c.vol, D))
  BY DEF Save
<1>2. PICK r \in Records : r = [id |-> c.vol, devs |-> D] /\ r.id = c.vol
  <2>1. c.vol \in Vols \cup {0}
    BY Working
  <2>2. [id |-> c.vol, devs |-> D] \in Records
    BY <2>1 DEF Records
  <2> QED BY <2>2
<1>3. saves' = Append(saves, [who |-> c.who, data |-> r])
  BY <1>1, <1>2 DEF Record
<1>4. NewVolumes # {} => NewVolumes' # {}
  BY DEF NewVolumes
<1>5. "save" \in StepNames
  BY DEF StepNames
<1> QED BY <1>1, <1>2, <1>3, <1>4, <1>5, Stepping

\* Of every operation there is a save; the other steps that come next.
LEMMA NextSteps ==
  /\ \A op \in {"init", "repair", "add", "remove", "update"} : "save" \in Steps[op]
  /\ \A op \in {"init", "repair", "add"} :
       FirstStep[op] \in Steps[op] \cap StepNames /\ FirstStep[op] # "check"
  /\ FirstStep["init"] = "format" /\ FirstStep["repair"] = "mount" /\ FirstStep["add"] = "grow"
  /\ {"find", "users"} \subseteq Steps["init"]
  /\ {"grow", "prune", "find"} \subseteq Steps["repair"]
  /\ "update" \in Steps["add"] \cap Steps["remove"]
  /\ {"find", "users", "grow", "prune", "update"} \subseteq StepNames
  BY DEF Steps, FirstStep, StepNames

LEMMA HoldType ==
  ASSUME disk \in Disks, NEW D, NEW v \in Vols \cup {0}
  PROVE  Hold(D, v) \in [Devs -> Vols \cup {0}]
  BY DEF Hold, Disks

\* Nothing of the disks is written.
LEMMA DiskKept ==
  ASSUME BootInv, UNCHANGED disk, UNCHANGED storage \/ storage' = Probed
  PROVE  /\ storage' \in Snapshots /\ AdminsLast' /\ disk' \in Disks
         /\ disk'.members = disk.members
         /\ \A v \in Vols : disk.admin[v] # "none" => disk'.admin[v] # "none"
         /\ NewVolumes # {} => NewVolumes' # {}
<1>1. storage \in Snapshots /\ disk \in Disks /\ AdminsLast
  BY DEF BootInv, TypeOK, Aimed
<1> QED BY <1>1, ProbeTypes DEF AdminsLast, NewVolumes

\* The devices or the holders change, and no admin.
LEMMA DiskGrows ==
  ASSUME BootInv, disk' \in Disks, disk'.admin = disk.admin, UNCHANGED storage
  PROVE  /\ storage' \in Snapshots /\ AdminsLast'
         /\ \A v \in Vols : disk.admin[v] # "none" => disk'.admin[v] # "none"
  BY DEF BootInv, TypeOK, Aimed, AdminsLast

\* A step that fails and leaves the disks as they are.
LEMMA FailingStep ==
  ASSUME BootInv, NEW c \in work, c.step # "save", Fails(c), UNCHANGED disk, Rest,
         UNCHANGED storage \/ storage' = Probed
  PROVE  BootInv'
<1>1. UNCHANGED <<product, flash, chassis, loaded, bound, preset, boundUser, serving, given,
                  jobs, starts, changed, asked, spent>>
  BY DEF Rest, known
<1>2. spent \in [{"crash", "fault", "plug", "tell"} -> Nat]
  BY DEF BootInv, TypeOK
<1> QED BY <1>1, <1>2, DiskKept, Failing

LEMMA CheckInv == ASSUME BootInv, NEW c \in work, Check(c) PROVE BootInv'
<1>1. c.step = "check" /\ UNCHANGED <<disk, storage>> /\ Rest
  BY DEF Check
<1>2. c.op \in {"init", "repair", "add"} /\ AimedAt(c)
  BY <1>1, Working
<1>3. CASE Verified(c) /\ To(c, FirstStep[c.op]) /\ UNCHANGED saves
  <2>1. c.op # "init" => c.vol # 0
    BY <1>2, <1>3 DEF Verified, Present, AimedAt
  <2>2. c.op = "init" => NewVolumes' # {}
    BY <1>1, <1>2 DEF AimedAt, NewVolumes
  <2>3. PICK s \in StepNames : /\ s = FirstStep[c.op] /\ s \in Steps[c.op] /\ s # "check"
                               /\ s = "format" <=> c.op = "init"
    BY <1>2, NextSteps
  <2> QED BY <1>1, <1>2, <1>3, <2>1, <2>2, <2>3, DiskKept, Stepping
<1>4. CASE Fails(c)
  BY <1>1, <1>4, FailingStep
<1> QED BY <1>3, <1>4 DEF Check

\* mkfs takes a volume that was never there.
LEMMA FormatInv == ASSUME BootInv, NEW c \in work, Format(c) PROVE BootInv'
<1>1. c.step = "format" /\ UNCHANGED storage /\ Rest
  BY DEF Format
<1>2. c.op = "init" /\ c \in Chains /\ disk \in Disks /\ NewVolumes # {}
  BY <1>1, Working DEF AimedAt
<1>3. CASE Fails(c) /\ UNCHANGED disk
  BY <1>1, <1>3, FailingStep
<1>4. CASE ~(Fails(c) /\ UNCHANGED disk)
  <2>1. PICK v \in Vols :
          /\ disk' = [disk EXCEPT !.holds = Hold(c.dev, v), !.members[v] = c.dev]
          /\ Go(c, On(At(c, "find"), v)) /\ UNCHANGED saves
    BY <1>2, <1>4, LeastVolume DEF Format, NewVolumes
  <2>2. disk' \in Disks
    <3>1. Hold(c.dev, v) \in [Devs -> Vols \cup {0}] /\ c.dev \in SUBSET Devs
      BY <1>2, HoldType DEF Chains
    <3> QED BY <1>2, <2>1, <3>1, DiskTypes
  <2>3. disk'.admin = disk.admin
    BY <1>2, <2>1 DEF Disks
  <2>4. PICK b \in Chains : b = At(c, "find") /\ b.who = c.who /\ b.op = c.op /\ b.step = "find"
    BY <1>2, NextSteps, ChainChanges
  <2>5. PICK n \in Chains : /\ n = On(b, v) /\ n.who = c.who /\ n.op = c.op /\ n.step = "find"
                            /\ n.vol = v
    BY <2>4, ChainChanges
  <2>6. Go(c, n) /\ n.step \in Steps[c.op] /\ c.op \in DOMAIN Exclusive
    BY <1>2, <2>1, <2>4, <2>5, NextSteps, ExclusiveIs
  <2>7. AimedAt(n)'
    BY <1>2, <2>5, Numbers DEF AimedAt
  <2> QED BY <1>1, <1>2, <2>1, <2>2, <2>3, <2>5, <2>6, <2>7, DiskGrows, Going
<1> QED BY <1>3, <1>4

LEMMA FindInv == ASSUME BootInv, NEW c \in work, Find(c) PROVE BootInv'
<1>1. c.step = "find" /\ UNCHANGED <<disk, storage>> /\ Rest
  BY DEF Find
<1>2. /\ c.op \in {"init", "repair"} /\ c.vol # 0 /\ c.vol \in Vols
      /\ c.op = "repair" => disk.admin[c.vol] # "none"
  BY <1>1, Working DEF AimedAt
<1>3. CASE Whole(c.vol) /\ c.op = "init" /\ To(c, "users") /\ UNCHANGED saves
  BY <1>1, <1>2, <1>3, NextSteps, DiskKept, Stepping
<1>4. CASE Whole(c.vol) /\ c.op = "repair" /\ Save(c, c.vol, disk.members[c.vol])
  <2>1. disk.members[c.vol] \in SUBSET Devs
    BY <1>2, Working DEF Disks
  <2> QED BY <1>1, <1>2, <1>4, <2>1, NextSteps, DiskKept, Saving
<1>5. CASE ~Whole(c.vol) /\ Fails(c)
  BY <1>1, <1>5, FailingStep
<1> QED BY <1>3, <1>4, <1>5 DEF Find

\* users.json gives the new volume its admin, the bound user.
LEMMA WriteUsersInv == ASSUME BootInv, NEW c \in work, WriteUsers(c) PROVE BootInv'
<1>1. c.step = "users" /\ UNCHANGED storage /\ Rest
  BY DEF WriteUsers
<1>2. /\ c.op = "init" /\ c.vol # 0 /\ c.vol \in Vols /\ c.dev \in SUBSET Devs
      /\ disk \in Disks /\ storage \in Snapshots /\ AdminsLast
  BY <1>1, Working DEF AimedAt, Chains
<1>3. CASE /\ boundUser \in Users /\ disk' = [disk EXCEPT !.admin[c.vol] = boundUser]
           /\ Save(c, c.vol, c.dev)
  <2>1. disk' \in Disks
    BY <1>2, <1>3, DiskTypes
  <2>2. disk'.members = disk.members /\ disk'.admin = [disk.admin EXCEPT ![c.vol] = boundUser]
    BY <1>2, <1>3 DEF Disks
  <2>3. /\ disk'.admin[c.vol] # "none"
        /\ \A v \in Vols : disk.admin[v] # "none" => disk'.admin[v] # "none"
    BY <1>2, <1>3, <2>2, UserNames DEF Disks
  <2>4. AdminsLast'
    BY <1>1, <1>2, <2>3 DEF AdminsLast
  <2> QED BY <1>1, <1>2, <1>3, <2>1, <2>2, <2>3, <2>4, NextSteps, Saving
<1>4. CASE Fails(c) /\ UNCHANGED disk
  BY <1>1, <1>4, FailingStep
<1> QED BY <1>3, <1>4 DEF WriteUsers

LEMMA MountInv == ASSUME BootInv, NEW c \in work, Mount(c) PROVE BootInv'
<1>1. c.step = "mount" /\ UNCHANGED <<disk, storage>> /\ Rest
  BY DEF Mount
<1>2. c.op = "repair" /\ c.vol # 0
  BY <1>1, Working DEF AimedAt
<1>3. CASE \E s \in {"prune", "grow"} : To(c, s) /\ UNCHANGED saves
  BY <1>1, <1>2, <1>3, NextSteps, DiskKept, Stepping
<1>4. CASE Fails(c)
  BY <1>1, <1>4, FailingStep
<1> QED BY <1>3, <1>4 DEF Mount

\* A step that changes the devices of the chain's volume.
LEMMA Reshaping ==
  ASSUME BootInv, NEW c \in work, c.step \in {"grow", "prune", "shrink"}, Rest,
         NEW s \in {"update", "prune", "find"}, s \in Steps[c.op], To(c, s), UNCHANGED saves,
         UNCHANGED storage, NEW D \in SUBSET Devs, NEW H \in [Devs -> Vols \cup {0}],
         disk' = [disk EXCEPT !.members[c.vol] = D, !.holds = H],
         c.op \in DOMAIN Exclusive \/ D \subseteq disk.members[c.vol]
  PROVE  BootInv'
<1>1. /\ c.op \in {"repair", "add", "remove"} /\ c.vol # 0 /\ c.vol \in Vols /\ disk \in Disks
  BY Working DEF AimedAt
<1>2. /\ disk' \in Disks /\ disk'.admin = disk.admin
      /\ disk'.members = [disk.members EXCEPT ![c.vol] = D]
  BY <1>1, DiskTypes DEF Disks
<1>3. c.op \in DOMAIN Exclusive \/ (NewVolumes # {} => NewVolumes' # {})
  BY <1>1, <1>2 DEF NewVolumes, Disks
<1>4. c.step # "save" /\ s # "check" /\ s # "format" /\ s \in StepNames /\ c.op # "import"
  BY <1>1, NextSteps
<1> QED BY <1>1, <1>2, <1>3, <1>4, DiskGrows, Stepping

LEMMA GrowInv == ASSUME BootInv, NEW c \in work, Grow(c) PROVE BootInv'
<1>1. c.step = "grow" /\ UNCHANGED storage /\ Rest
  BY DEF Grow
<1>2. /\ c.op \in {"repair", "add"} /\ c.op \in DOMAIN Exclusive /\ c.vol \in Vols
      /\ c.dev \in SUBSET Devs /\ disk \in Disks
  BY <1>1, Working, ExclusiveIs DEF AimedAt, Chains
<1>3. CASE Fails(c) /\ UNCHANGED disk
  BY <1>1, <1>3, FailingStep
<1>4. CASE ~(Fails(c) /\ UNCHANGED disk)
  <2>1. /\ disk' = [disk EXCEPT !.members[c.vol] = @ \cup c.dev, !.holds = Hold(c.dev, c.vol)]
        /\ To(c, IF c.op = "add" THEN "update" ELSE "prune") /\ UNCHANGED saves
    BY <1>4 DEF Grow
  <2>2. PICK D \in SUBSET Devs : D = disk.members[c.vol] \cup c.dev
    BY <1>2 DEF Disks
  <2>3. PICK H \in [Devs -> Vols \cup {0}] : H = Hold(c.dev, c.vol)
    BY <1>2, HoldType
  <2>4. disk' = [disk EXCEPT !.members[c.vol] = D, !.holds = H]
    BY <1>2, <2>1, <2>2, <2>3 DEF Disks
  <2>5. PICK s \in {"update", "prune", "find"} : s \in Steps[c.op] /\ To(c, s)
    BY <1>2, <2>1, NextSteps
  <2> QED BY <1>1, <1>2, <2>1, <2>4, <2>5, Reshaping
<1> QED BY <1>3, <1>4

LEMMA PruneInv == ASSUME BootInv, NEW c \in work, Prune(c) PROVE BootInv'
<1>1. c.step = "prune" /\ UNCHANGED storage /\ Rest
  BY DEF Prune
<1>2. c.op = "repair" /\ c.op \in DOMAIN Exclusive /\ c.vol \in Vols /\ disk \in Disks
  BY <1>1, Working, ExclusiveIs DEF AimedAt
<1>3. CASE Fails(c) /\ UNCHANGED disk
  BY <1>1, <1>3, FailingStep
<1>4. CASE ~(Fails(c) /\ UNCHANGED disk)
  <2>1. /\ disk' = [disk EXCEPT !.members[c.vol] = Found(c.vol)]
        /\ To(c, "find") /\ UNCHANGED saves
    BY <1>4 DEF Prune
  <2>2. PICK D \in SUBSET Devs : D = Found(c.vol)
    BY <1>2, ProbeTypes
  <2>3. PICK H \in [Devs -> Vols \cup {0}] : H = disk.holds
    BY <1>2 DEF Disks
  <2>4. disk' = [disk EXCEPT !.members[c.vol] = D, !.holds = H]
    BY <1>2, <2>1, <2>2, <2>3 DEF Disks
  <2>5. "find" \in Steps[c.op]
    BY <1>2, NextSteps
  <2> QED BY <1>1, <1>2, <2>1, <2>4, <2>5, Reshaping
<1> QED BY <1>3, <1>4

LEMMA ShrinkInv == ASSUME BootInv, NEW c \in work, Shrink(c) PROVE BootInv'
<1>1. c.step = "shrink" /\ UNCHANGED storage /\ Rest
  BY DEF Shrink
<1>2. c.op = "remove" /\ c.vol \in Vols /\ c.dev \in SUBSET Devs /\ disk \in Disks
  BY <1>1, Working DEF AimedAt, Chains
<1>3. CASE Fails(c) /\ UNCHANGED disk
  BY <1>1, <1>3, FailingStep
<1>4. CASE ~(Fails(c) /\ UNCHANGED disk)
  <2>1. /\ disk' = [disk EXCEPT !.members[c.vol] = @ \ c.dev, !.holds = Hold(c.dev, 0)]
        /\ To(c, "update") /\ UNCHANGED saves
    BY <1>4 DEF Shrink
  <2>2. PICK D \in SUBSET Devs : D = disk.members[c.vol] \ c.dev /\ D \subseteq disk.members[c.vol]
    BY <1>2 DEF Disks
  <2>3. PICK H \in [Devs -> Vols \cup {0}] : H = Hold(c.dev, 0)
    BY <1>2, HoldType
  <2>4. disk' = [disk EXCEPT !.members[c.vol] = D, !.holds = H]
    BY <1>2, <2>1, <2>2, <2>3 DEF Disks
  <2>5. "update" \in Steps[c.op]
    BY <1>2, NextSteps
  <2> QED BY <1>1, <1>2, <2>1, <2>2, <2>4, <2>5, Reshaping
<1> QED BY <1>3, <1>4

\* The volume is saved with the devices it has, or with those the job had read.
LEMMA UpdateInv ==
  ASSUME BootInv, NEW c \in work, Update(c) \/ Recompute(c)
  PROVE  BootInv'
<1>1. c.step \in {"update", "recompute"} /\ UNCHANGED disk /\ storage' = Probed /\ Rest
  BY DEF Update, Recompute
<1>2. /\ c.op \in {"add", "remove", "update"} /\ c.vol # 0 /\ c.vol \in Vols
      /\ c.dev \in SUBSET Devs /\ disk \in Disks /\ disk.admin[c.vol] # "none"
  BY <1>1, Working DEF AimedAt, Chains
<1>3. CASE Fails(c)
  BY <1>1, <1>3, FailingStep
<1>4. CASE \E D \in SUBSET Devs : Save(c, c.vol, D)
  BY <1>1, <1>2, <1>4, NextSteps, DiskKept, Saving
<1>5. disk.members[c.vol] \in SUBSET Devs
  BY <1>2 DEF Disks
<1> QED BY <1>2, <1>3, <1>4, <1>5 DEF Update, Recompute

LEMMA CommandFailsInv == ASSUME BootInv, NEW c \in work, CommandFails(c) PROVE BootInv'
<1>1. spent' \in [{"crash", "fault", "plug", "tell"} -> Nat]
  BY SpendType DEF CommandFails, BootInv, TypeOK
<1>2. c.step # "save" /\ Fails(c) /\ UNCHANGED <<disk, storage>>
  BY DEF CommandFails
<1>3. UNCHANGED <<product, flash, chassis, loaded, bound, preset, boundUser, serving, given,
                  jobs, starts, changed, asked>>
  BY DEF CommandFails, known
<1> QED BY <1>1, <1>2, <1>3, DiskKept, Failing

\* A save ends.  A chain that binds the first volume is at work alone, but for chains
\* that have a volume, and so there was one before.
LEMMA SavedInv == ASSUME BootInv, Saved PROVE BootInv'
<1>1. /\ saves # <<>> /\ saves' = Tail(saves)
      /\ UNCHANGED <<product, disk, chassis, loaded, preset, boundUser, storage, serving, given,
                     jobs, starts, changed, asked>>
  BY DEF Saved
<1>2. PICK c \in work :
        /\ c.who = Head(saves).who
        /\ \/ /\ flash' = [flash EXCEPT !.volume = Head(saves).data]
              /\ bound' = Head(saves).data
              /\ End(c, "ok") /\ UNCHANGED spent
           \/ Spend("fault") /\ End(c, "error") /\ UNCHANGED <<flash, bound>>
  BY DEF Saved
<1>3. PICK x \in Records : /\ x = Head(saves).data /\ x.id \in Vols /\ x.id # 0
                           /\ disk.admin[x.id] # "none"
  <2>1. saves \in Seq([who : Int, data : Records])
    BY DEF BootInv, TypeOK
  <2>2. 1 \in 1 .. Len(saves) /\ Head(saves) = saves[1]
    BY <1>1, <2>1
  <2>3. saves[1].data \in Records /\ saves[1].data.id \in Vols
    BY <2>2, SavedVolumes
  <2>4. saves[1].data.id # 0 /\ disk.admin[saves[1].data.id] # "none"
    BY <2>2 DEF BootInv, SavesWaitedFor
  <2> QED BY <2>2, <2>3, <2>4
<1>4. c.step = "save"
  <2>1. saves \in Seq([who : Int, data : Records])
    BY DEF BootInv, TypeOK
  <2>2. 1 \in 1 .. Len(saves) /\ Head(saves) = saves[1]
    BY <1>1, <2>1
  <2>3. PICK d \in work : d.who = saves[1].who /\ d.step = "save"
    BY <2>2 DEF BootInv, SavesWaitedFor
  <2> QED BY <1>2, <2>2, <2>3 DEF BootInv, TypeOK
<1>5. loaded = {"volume", "preset"} /\ bound = flash.volume
  BY DEF BootInv, TypeOK, Known
<1>6. \A d \in work : d # c /\ d.op \notin {"init", "import"} => bound.id # 0
  <2> SUFFICES ASSUME NEW d \in work, d # c, d.op \notin {"init", "import"} PROVE bound.id # 0
    OBVIOUS
  <2>1. AimedAt(c) /\ AimedAt(d)
    BY Working
  <2>2. CASE c.op \in {"init", "import"}
    <3>1. d.op \notin DOMAIN Exclusive
      BY <2>2, ExclusiveIs DEF BootInv, OneOperation
    <3>2. d.step \notin {"check", "format"}
      BY <3>1, Working, ExclusiveIs
    <3> QED BY <2>1, <3>2 DEF AimedAt
  <2>3. CASE c.op \notin {"init", "import"}
    BY <1>4, <2>1, <2>3 DEF AimedAt
  <2> QED BY <2>2, <2>3
<1>7. SavesWaitedFor' /\ saves' \in Seq([who : Int, data : Records])
  <2>1. \A d \in work : d # c => d \in work'
    BY <1>2 DEF End, Over
  <2> QED BY <1>1, <1>2, <2>1, SavesShrink
<1>8. storage' \in Snapshots /\ AdminsLast'
  BY <1>1, DiskKept
<1>9. CASE /\ flash' = [flash EXCEPT !.volume = Head(saves).data] /\ bound' = Head(saves).data
           /\ End(c, "ok") /\ UNCHANGED spent
  <2>1. flash' \in [volume : Records, preset : BOOLEAN] /\ flash'.volume = x
    BY <1>3, <1>9 DEF BootInv, TypeOK
  <2>2. bound' \in Records /\ bound' = x /\ BoundHasAdmin'
    BY <1>1, <1>3, <1>9, <2>1 DEF BoundHasAdmin
  <2>3. spent' \in [{"crash", "fault", "plug", "tell"} -> Nat]
    BY <1>9 DEF BootInv, TypeOK
  <2>4. bound' = IF "volume" \in loaded THEN flash'.volume ELSE NoVolume
    BY <1>5, <2>1, <2>2
  <2>5. \A d \in work : d # c /\ d.op \notin {"init", "import"} => (bound'.id = 0 <=> bound.id = 0)
    BY <1>3, <1>6, <2>2
  <2> QED BY <1>1, <1>7, <1>8, <1>9, <2>1, <2>2, <2>3, <2>4, <2>5, Ending
<1>10. CASE Spend("fault") /\ End(c, "error") /\ UNCHANGED <<flash, bound>>
  <2>1. /\ flash' \in [volume : Records, preset : BOOLEAN] /\ bound' \in Records
        /\ spent' \in [{"crash", "fault", "plug", "tell"} -> Nat]
    BY <1>10, SpendType DEF BootInv, TypeOK
  <2>2. BoundHasAdmin' /\ bound' = IF "volume" \in loaded THEN flash'.volume ELSE NoVolume
    BY <1>1, <1>5, <1>10 DEF BootInv, BoundHasAdmin
  <2> QED BY <1>1, <1>7, <1>8, <1>10, <2>1, <2>2, Ending
<1> QED BY <1>2, <1>9, <1>10

-----------------------------------------------------------------------------
(* The theorems.                                                           *)

LEMMA AdvanceInv == ASSUME BootInv, NEW who \in Workers, Advance(who) PROVE BootInv'
<1>1. PICK c \in work : \/ Check(c) \/ Format(c) \/ Find(c) \/ WriteUsers(c) \/ Mount(c)
                        \/ Grow(c) \/ Prune(c) \/ Shrink(c) \/ Update(c) \/ Recompute(c)
  BY DEF Advance
<1> QED BY <1>1, CheckInv, FormatInv, FindInv, WriteUsersInv, MountInv, GrowInv, PruneInv,
           ShrinkInv, UpdateInv

LEMMA StutterInv == ASSUME BootInv, UNCHANGED vars PROVE BootInv'
<1>1. UNCHANGED <<product, disk, flash, chassis, loaded, bound, preset, boundUser, state, storage,
                  serving, given, jobs, busy, starts, work, saves, changed, asked, answer, spent>>
  BY DEF vars, process, client, known, running, chains
<1>2. AdminsLast'
  BY <1>1 DEF BootInv, Aimed, AdminsLast
<1>3. OneOperation' /\ Numbered' /\ SavesWaitedFor' /\ Aimed'
  BY <1>1, <1>2, Frame
<1> QED BY <1>1, <1>3 DEF BootInv, TypeOK, BoundHasAdmin, Known, Served

LEMMA NextInv == BootInv /\ [Next]_vars => BootInv'
<1> SUFFICES ASSUME BootInv, [Next]_vars PROVE BootInv'
  OBVIOUS
<1>1. ASSUME Internal PROVE BootInv'
  BY <1>1, LoadInv, ProbingInv, FruitmixInv, StartJobInv, SavedInv DEF Internal
<1>2. ASSUME Calls PROVE BootInv'
  BY <1>2, RefusedInv, BeginInv, ImportInv, RemoveInv DEF Calls
<1>3. ASSUME Environment PROVE BootInv'
  BY <1>3, ProbingInv, CrashInv, CommandFailsInv, TellInv, PlugInv DEF Environment
<1>4. ASSUME NEW who \in Workers, Advance(who) PROVE BootInv'
  BY <1>4, AdvanceInv
<1> QED BY <1>1, <1>2, <1>3, <1>4, StutterInv DEF Next

\* Boot always knows what is bound; a bound volume has its users.json, whenever the
\* process dies; an operation is alone in its state, every chain aims at its volume, and
\* every caller of a chain waits for it.
THEOREM Invariant == Spec => []BootInv
  BY InitInv, NextInv, PTL DEF Spec

\* A step that leaves Fruitmix with its volume, its user and the admin of that volume, or
\* that is not in Started afterwards.
LEMMA SameOwner ==
  ASSUME ServesOwner,
         \/ state' # "Started"
         \/ given' \notin Users
         \/ UNCHANGED <<product, state, serving, given, boundUser>> /\ disk'.admin = disk.admin
  PROVE  ServesOwner'
  BY DEF ServesOwner

\* Messages and the start of Fruitmix make the admin; a chain that writes one does so
\* outside Started.
LEMMA ServesStep == BootInv /\ ServesOwner /\ [Next]_vars => ServesOwner'
<1> SUFFICES ASSUME BootInv, ServesOwner, [Next]_vars PROVE ServesOwner'
  OBVIOUS
<1>1. ASSUME Prepare \/ LoadVolume \/ LoadPreset \/ ClearPreset PROVE ServesOwner'
  BY <1>1, SameOwner
  DEF Prepare, LoadVolume, LoadPreset, ClearPreset, running, process, known
<1>2. ASSUME ProbeDone \/ ProbeError \/ Retry \/ Refresh PROVE ServesOwner'
  BY <1>2, SameOwner
  DEF ProbeDone, ProbeError, Retry, Refresh, EmbedVolumeCheck, GoOn, EnterStarting, running, known
<1>3. ASSUME FruitmixStarted PROVE ServesOwner'
  <2>1. CASE Restart
    BY <2>1, SameOwner DEF Restart, Fresh
  <2>2. CASE ~Restart
    <3>1. /\ state = "Starting" /\ UNCHANGED <<product, boundUser, serving, given>>
          /\ disk' = IF given \in Users THEN [disk EXCEPT !.admin[serving] = given] ELSE disk
      BY <1>3, <2>2 DEF FruitmixStarted, known
    <3>2. serving \in Vols /\ disk \in Disks
      BY <3>1 DEF BootInv, TypeOK, Served
    <3>3. given \in Users => disk'.admin[serving] = given
      BY <3>1, <3>2 DEF Disks
    <3> QED BY <3>1, <3>3 DEF BootInv, Served, ServesOwner
  <2> QED BY <2>1, <2>2
<1>4. ASSUME Calls PROVE ServesOwner'
  <2>1. ASSUME NEW r \in Requests, NEW op \in Operations, Refused(r, op) PROVE ServesOwner'
    BY <2>1, SameOwner DEF Refused, Asks, known
  <2>2. ASSUME NEW r \in Requests, NEW op \in Operations, NEW D \in SUBSET Devs, Begin(r, op, D)
        PROVE  ServesOwner'
    BY <2>2, UserNames, SameOwner DEF Begin, Enter
  <2>3. ASSUME NEW r \in Requests, NEW v \in Vols, Import(r, v) PROVE ServesOwner'
    BY <2>3, SameOwner DEF Import
  <2>4. ASSUME NEW r \in Requests, NEW d \in Devs, Remove(r, d) PROVE ServesOwner'
    BY <2>4, SameOwner DEF Remove, Asks, known
  <2> QED BY <1>4, <2>1, <2>2, <2>3, <2>4 DEF Calls
<1>5. ASSUME StartJob PROVE ServesOwner'
  BY <1>5, SameOwner DEF StartJob, known
<1>6. ASSUME Saved \/ \E c \in work : CommandFails(c) PROVE ServesOwner'
  BY <1>6, SameOwner DEF Saved, CommandFails, Fails, End, Over, known
<1>7. ASSUME Crash PROVE ServesOwner'
  BY <1>7, SameOwner DEF Crash, Restart, Fresh
<1>8. ASSUME NEW d \in Devs, Plug(d) PROVE ServesOwner'
  <2>1. disk'.admin = disk.admin
    BY <1>8 DEF Plug, BootInv, TypeOK, Disks
  <2> QED BY <1>8, <2>1, SameOwner DEF Plug, running, known
<1>9. ASSUME NEW u \in Users \cup {"none"}, Tell(u) PROVE ServesOwner'
  <2>1. CASE Restart
    BY <2>1, SameOwner DEF Restart, Fresh
  <2>2. CASE ~Restart /\ state' = "Started"
    <3>1. /\ ~Exits(u) /\ boundUser' = u /\ UNCHANGED product
          /\ u = "none" => product = "ws215i" /\ boundUser \notin Users
          /\ \/ /\ product = "winas" /\ state = "Started" /\ given' = u
                /\ UNCHANGED <<state, serving>> /\ disk' = [disk EXCEPT !.admin[serving] = u]
             \/ /\ ~(product = "winas" /\ state = "Started")
                /\ UNCHANGED <<state, serving, given, disk>>
      BY <1>9, <2>2 DEF Tell, GoOn, EnterStarting
    <3>2. CASE product = "winas" /\ state = "Started"
      <4>1. serving \in Vols /\ disk \in Disks /\ u \in Users
        BY <3>1, <3>2 DEF BootInv, TypeOK, Served
      <4>2. disk'.admin[serving'] = given'
        BY <3>1, <3>2, <4>1 DEF Disks
      <4> QED BY <3>1, <3>2, <4>2 DEF ServesOwner
    <3>3. CASE product = "ws215i"
      <4>1. state = "Started" /\ given = boundUser /\ boundUser \in Users /\ UNCHANGED <<given, disk>>
        BY <2>2, <3>1, <3>3 DEF BootInv, Served
      <4>2. u = boundUser
        BY <3>1, <3>3, <4>1 DEF Exits
      <4> QED BY <3>1, <3>3, <4>1, <4>2 DEF ServesOwner
    <3> QED BY <2>2, <3>1, <3>2, <3>3 DEF BootInv, TypeOK
  <2>3. CASE state' # "Started"
    BY <2>3, SameOwner
  <2> QED BY <2>1, <2>2, <2>3
<1>10. ASSUME NEW who \in Workers, Advance(who) PROVE ServesOwner'
  <2>1. PICK c \in work : \/ Check(c) \/ Format(c) \/ Find(c) \/ WriteUsers(c) \/ Mount(c)
                          \/ Grow(c) \/ Prune(c) \/ Shrink(c) \/ Update(c) \/ Recompute(c)
    BY <1>10 DEF Advance
  <2>2. /\ state' = "Probing" \/ state' = state
        /\ UNCHANGED <<product, serving, given, boundUser>>
    BY <2>1 DEF Check, Format, Find, WriteUsers, Mount, Grow, Prune, Shrink, Update, Recompute,
                Save, To, Go, Fails, End, Over, Rest, known
  <2>3. CASE disk'.admin = disk.admin
    BY <2>2, <2>3, SameOwner
  <2>4. CASE WriteUsers(c)
    <3>1. c.op = "init" /\ state = "Initializing"
      BY <2>4, Working, ExclusiveIs DEF WriteUsers, BootInv, OneOperation
    <3> QED BY <2>2, <3>1, SameOwner
  <2>5. ~WriteUsers(c) => disk'.admin = disk.admin
    <3>1. disk \in Disks
      BY Working
    <3> QED BY <2>1, <3>1
        DEF Check, Format, Find, Mount, Grow, Prune, Shrink, Update, Recompute, Disks
  <2> QED BY <2>3, <2>4, <2>5
<1>11. ASSUME UNCHANGED vars PROVE ServesOwner'
  BY <1>11, SameOwner DEF vars, process, running, known
<1> QED BY <1>1, <1>2, <1>3, <1>4, <1>5, <1>6, <1>7, <1>8, <1>9, <1>10, <1>11
    DEF Next, Internal, Environment

\* Fruitmix serves a volume for its own admin, the user it was given, who in ws215i is
\* the user the machine is bound to: whatever messages, chains, disks and crashes come
\* between the probe that found the admin and the start.
THEOREM OwnerServed == Spec => []ServesOwner
<1>1. Init => ServesOwner
  BY DEF Init, ServesOwner
<1>2. BootInv /\ ServesOwner /\ [Next]_vars => ServesOwner'
  BY ServesStep
<1> QED BY <1>1, <1>2, Invariant, PTL DEF Spec

-----------------------------------------------------------------------------
(* What is recorded.                                                       *)

\* A call that was made and a call that was asked are the same.
Unasked == \A r \in Requests : answer[r] = "none" => asked[r] = "none"

\* Unless an add was asked, the jobs and their chains are Started's, one at a time.
Adds == \E r \in Requests : asked[r] = "add"
Confined ==
  ~Adds => /\ \A c \in work : c.op \notin DOMAIN Exclusive => state = "Started" /\ c.who = busy
           /\ jobs # <<>> => state = "Started"

\* A remove job is for one device.
Removals ==
  \A i \in 1 .. Len(jobs) : jobs[i].op = "remove" => \E d \in Devs : jobs[i].dev = {d}

\* The last probe still tells which devices make up the volumes, and the bound one is whole.
Latest == \A v \in Vols : /\ storage.vols[v].devs = Probed.vols[v].devs
                          /\ storage.vols[v].found = Probed.vols[v].found
Ready == bound.id # 0 /\ Whole(bound.id)

\* The chain of a job works on the bound volume, with the devices it has, and never
\* takes the last one away.
Jobbing(c) ==
  /\ c.vol = bound.id
  /\ c.step = "recompute" => c.dev = disk.members[bound.id]
  /\ c.step = "shrink" => disk.members[bound.id] \ c.dev # {}
\* What is recorded is what is there, or a job or its chain will record it.
Recording == \/ \E i \in 1 .. Len(jobs) : jobs[i].op = "update"
             \/ \E c \in work : c.step \in {"recompute", "save", "update"}
             \/ bound.devs = disk.members[bound.id]
Calm == product = "ws215i" /\ Undisturbed /\ ~Adds
Tracked ==
  /\ state \in {"Pending", "Starting"} => Latest
  /\ state \in {"Starting", "Started"} => Ready
  /\ state = "Started" =>
       /\ Latest \/ \E c \in work : c.step = "update"
       /\ \A c \in work : Jobbing(c)
       /\ \A i \in 1 .. Len(saves) : /\ saves[i].data.id = bound.id
                                     /\ saves[i].data.devs = disk.members[bound.id]
       /\ Recording
CalmInv == Unasked /\ Confined /\ Removals /\ (Calm => Tracked)

\* The volumes are made up of what they were.
SameDisks == /\ disk'.members = disk.members /\ disk'.holds = disk.holds
             /\ disk'.plugged = disk.plugged

LEMMA ProbedAre ==
  \A v \in Vols : /\ Probed.vols[v].found = Found(v)
                  /\ Probed.vols[v].devs = IF Found(v) = {} THEN {} ELSE disk.members[v]
  BY DEF Probed

LEMMA DisksKept ==
  ASSUME SameDisks
  PROVE  /\ \A v : Found(v)' = Found(v) /\ Whole(v)' = Whole(v)
         /\ \A v \in Vols : /\ Probed'.vols[v].found = Probed.vols[v].found
                            /\ Probed'.vols[v].devs = Probed.vols[v].devs
         /\ storage' = Probed => Latest'
         /\ storage' = storage /\ Latest => Latest'
         /\ bound' = bound /\ Ready => Ready'
<1>1. \A v : Found(v)' = Found(v) /\ Whole(v)' = Whole(v)
  BY DEF SameDisks, Found, Whole
<1>2. \A v \in Vols : /\ Probed'.vols[v].found = Probed.vols[v].found
                      /\ Probed'.vols[v].devs = Probed.vols[v].devs
  BY <1>1 DEF SameDisks, Probed
<1>3. storage' = Probed => Latest'
  BY <1>2 DEF Latest
<1>4. storage' = storage /\ Latest => Latest'
  BY <1>2 DEF Latest
<1>5. bound' = bound /\ Ready => Ready'
  BY <1>1 DEF Ready
<1> QED BY <1>1, <1>2, <1>3, <1>4, <1>5

\* Calls and troubles are never taken back, so what was calm was calm before.
LEMMA Troubled ==
  ASSUME spent \in [{"crash", "fault", "plug", "tell"} -> Nat],
         NEW what \in {"crash", "fault", "plug", "tell"}, Spend(what)
  PROVE  /\ Undisturbed' => Undisturbed
         /\ Undisturbed' => what \notin {"fault", "plug"}
  BY DEF Spend, Undisturbed

Grown == /\ product' = product
         /\ Undisturbed' => Undisturbed
         /\ \A r \in Requests : /\ answer[r] # "none" => answer'[r] # "none"
                                /\ answer'[r] = "none" => asked'[r] = asked[r]
                                /\ answer[r] # "none" => asked'[r] = asked[r]

LEMMA Before ==
  ASSUME Unasked, Grown
  PROVE  Unasked' /\ (~Adds' => ~Adds) /\ (Calm' => Calm)
<1>1. Unasked'
  BY DEF Unasked, Grown
<1>2. Adds => Adds'
  <2>1. ASSUME NEW r \in Requests, asked[r] = "add" PROVE asked'[r] = "add"
    BY <2>1 DEF Unasked, Grown
  <2> QED BY <2>1 DEF Adds
<1> QED BY <1>1, <1>2 DEF Calm, Grown

LEMMA Grows ==
  ASSUME BootInv, [Next]_vars PROVE Grown
<1>0. /\ spent \in [{"crash", "fault", "plug", "tell"} -> Nat]
      /\ asked \in [Requests -> Operations \cup {"none"}]
      /\ answer \in [Requests -> {"none", "waiting", "ok", "error", "lost"}]
  BY DEF BootInv, TypeOK
<1>1. ASSUME Restart, UNCHANGED product, Undisturbed' => Undisturbed PROVE Grown
  BY <1>0, <1>1 DEF Restart, Grown
<1>2. ASSUME UNCHANGED <<product, asked, answer>>, Undisturbed' => Undisturbed PROVE Grown
  BY <1>2 DEF Grown
<1>3. ASSUME NEW r \in Requests, NEW op \in Operations, Asks(r, op), Waits(r) \/ answer' = [answer EXCEPT ![r] = "error"]
      PROVE  Grown
  <2>1. UNCHANGED <<product, spent>> /\ answer[r] = "none" /\ asked' = [asked EXCEPT ![r] = op]
    BY <1>3 DEF Asks
  <2>2. \A q \in Requests : q # r => answer'[q] = answer[q] /\ asked'[q] = asked[q]
    BY <1>0, <1>3, <2>1 DEF Waits
  <2>3. answer'[r] # "none"
    BY <1>0, <1>3 DEF Waits
  <2> QED BY <2>1, <2>2, <2>3 DEF Grown, Undisturbed
<1>4. ASSUME NEW c, NEW result \in {"ok", "error"}, End(c, result), UNCHANGED <<product, asked>>,
             Undisturbed' => Undisturbed
      PROVE  Grown
  <2>1. answer' = IF c.who \in Requests THEN [answer EXCEPT ![c.who] = result] ELSE answer
    BY <1>4 DEF End, Over
  <2>2. \A q \in Requests : answer'[q] = answer[q] \/ answer'[q] = result
    BY <1>0, <2>1
  <2> QED BY <1>4, <2>2 DEF Grown
<1>5. ASSUME Internal PROVE Grown
  <2>1. ASSUME Prepare \/ LoadVolume \/ LoadPreset \/ ClearPreset \/ ProbeDone \/ Retry \/ Refresh
        PROVE  Grown
    <3>1. UNCHANGED <<product, asked, answer>>
      BY <2>1 DEF Prepare, LoadVolume, LoadPreset, ClearPreset, ProbeDone, Retry, Refresh, client
    <3>2. Undisturbed' => Undisturbed
      BY <1>0, <2>1, Troubled
      DEF Prepare, LoadVolume, LoadPreset, ClearPreset, ProbeDone, Retry, Refresh, Undisturbed
    <3> QED BY <1>2, <3>1, <3>2
  <2>2. ASSUME FruitmixStarted PROVE Grown
    <3>1. UNCHANGED <<product, spent>> /\ (Restart \/ UNCHANGED <<asked, answer>>)
      BY <2>2 DEF FruitmixStarted, client
    <3>2. Undisturbed' => Undisturbed
      BY <3>1 DEF Undisturbed
    <3> QED BY <1>1, <1>2, <3>1, <3>2
  <2>3. ASSUME StartJob PROVE Grown
    <3>1. PICK j \in Chains : j = Head(jobs)
      BY <2>3, Owners DEF StartJob
    <3>2. /\ UNCHANGED <<product, spent, asked>>
          /\ answer' = answer \/ answer' = [answer EXCEPT ![j.who] = "error"]
      BY <2>3, <3>1 DEF StartJob
    <3>3. \A q \in Requests : answer'[q] = answer[q] \/ answer'[q] = "error"
      BY <1>0, <3>2
    <3> QED BY <3>2, <3>3 DEF Grown, Undisturbed
  <2>4. ASSUME Saved PROVE Grown
    <3>1. PICK c \in work : \/ End(c, "ok") /\ UNCHANGED spent
                            \/ Spend("fault") /\ End(c, "error")
      BY <2>4 DEF Saved
    <3>2. UNCHANGED <<product, asked>>
      BY <2>4 DEF Saved
    <3>3. Undisturbed' => Undisturbed
      BY <1>0, <3>1, Troubled DEF Undisturbed
    <3> QED BY <1>4, <3>1, <3>2, <3>3
  <2> QED BY <1>5, <2>1, <2>2, <2>3, <2>4 DEF Internal
<1>6. ASSUME Calls PROVE Grown
  <2>1. PICK r \in Requests, op \in Operations :
          /\ Asks(r, op) /\ (Waits(r) \/ answer' = [answer EXCEPT ![r] = "error"])
    <3>1. \A r \in Requests, op \in Operations : Refused(r, op) => Asks(r, op) /\ answer' = [answer EXCEPT ![r] = "error"]
      BY DEF Refused
    <3>2. \A r \in Requests, op \in Operations, D \in SUBSET Devs : Begin(r, op, D) => Asks(r, op) /\ Waits(r)
      BY DEF Begin
    <3>3. \A r \in Requests, v \in Vols : Import(r, v) => Asks(r, "import") /\ (Waits(r) \/ answer' = [answer EXCEPT ![r] = "error"])
      BY DEF Import
    <3>4. \A r \in Requests, d \in Devs : Remove(r, d) => Asks(r, "remove") /\ Waits(r)
      BY DEF Remove
    <3>5. {"import", "remove"} \subseteq Operations
      BY DEF Operations
    <3> QED BY <1>6, <3>1, <3>2, <3>3, <3>4, <3>5 DEF Calls
  <2> QED BY <1>3, <2>1
<1>7. ASSUME Environment PROVE Grown
  <2>1. ASSUME ProbeError PROVE Grown
    BY <1>0, <1>2, <2>1, Troubled DEF ProbeError, client
  <2>2. ASSUME Crash PROVE Grown
    BY <1>0, <1>1, <2>2, Troubled DEF Crash
  <2>3. ASSUME NEW c \in work, CommandFails(c) PROVE Grown
    BY <1>0, <1>4, <2>3, Troubled DEF CommandFails, Fails
  <2>4. ASSUME NEW u \in Users \cup {"none"}, Tell(u) PROVE Grown
    <3>1. Undisturbed' => Undisturbed
      BY <1>0, <2>4, Troubled DEF Tell
    <3>2. UNCHANGED product /\ (Restart \/ UNCHANGED <<asked, answer>>)
      BY <2>4 DEF Tell, client
    <3> QED BY <1>1, <1>2, <3>1, <3>2
  <2>5. ASSUME NEW d \in Devs, Plug(d) PROVE Grown
    BY <1>0, <1>2, <2>5, Troubled DEF Plug, client
  <2> QED BY <1>7, <2>1, <2>2, <2>3, <2>4, <2>5 DEF Environment
<1>8. ASSUME NEW who \in Workers, Advance(who) PROVE Grown
  <2>1. PICK c \in work : \/ Check(c) \/ Format(c) \/ Find(c) \/ WriteUsers(c) \/ Mount(c)
                          \/ Grow(c) \/ Prune(c) \/ Shrink(c) \/ Update(c) \/ Recompute(c)
    BY <1>8 DEF Advance
  <2>2. /\ UNCHANGED <<product, asked, spent>>
        /\ UNCHANGED answer \/ End(c, "error")
    BY <2>1 DEF Check, Format, Find, WriteUsers, Mount, Grow, Prune, Shrink, Update, Recompute,
                Save, To, Go, Fails, Rest
  <2>3. Undisturbed' => Undisturbed
    BY <2>2 DEF Undisturbed
  <2> QED BY <1>2, <1>4, <2>2, <2>3
<1>9. ASSUME UNCHANGED vars PROVE Grown
  BY <1>2, <1>9 DEF vars, client, Undisturbed
<1> QED BY <1>5, <1>6, <1>7, <1>8, <1>9 DEF Next

-----------------------------------------------------------------------------
(* Steps in the calm.                                                      *)

\* Away from Pending, Starting and Started nothing is said.
LEMMA Elsewhere ==
  ASSUME state' \notin {"Pending", "Starting", "Started"} PROVE Tracked'
  BY DEF Tracked

\* Steps that leave the chains, the jobs and the disks alone.
LEMMA JobsKept ==
  ASSUME Confined, Removals, ~Adds' => ~Adds, UNCHANGED <<work, jobs, busy>>,
         state = "Started" => state' = "Started"
  PROVE  Confined' /\ Removals'
  BY DEF Confined, Removals

LEMMA TrackedKept ==
  ASSUME Tracked, SameDisks, UNCHANGED <<work, jobs, saves, state, bound>>,
         storage' \in {storage, Probed}
  PROVE  Tracked'
<1>1. (Latest => Latest') /\ (Ready => Ready') /\ disk'.members = disk.members
  BY DisksKept DEF SameDisks
<1>2. \A c : Jobbing(c) => Jobbing(c)'
  BY <1>1 DEF Jobbing
<1>3. Recording => Recording'
  BY <1>1 DEF Recording
<1> QED BY <1>1, <1>2, <1>3 DEF Tracked

\* Nothing is left of a process that ends.
LEMMA Anew == ASSUME Restart PROVE Confined' /\ Removals' /\ Tracked'
  BY DEF Restart, Fresh, Confined, Removals, Tracked

\* While Started runs, the chain of its job is alone.
LEMMA Alone ==
  ASSUME BootInv, Confined, ~Adds, NEW c \in work
  PROVE  /\ c.op \in DOMAIN Exclusive \/ c.op \in {"remove", "update"}
         /\ c.op \notin DOMAIN Exclusive => state = "Started"
         /\ c.op \in DOMAIN Exclusive =>
              state \in {"Initializing", "Importing", "Repairing", "Adding"}
         /\ state = "Started" => c.who = busy /\ c.who # 0 /\ \A d \in work : d = c
<1>1. c \in Chains /\ c.op \in Operations \cup {"update"}
  BY DEF BootInv, TypeOK, Chains
<1>2. c.op \in DOMAIN Exclusive => state = Exclusive[c.op]
  BY DEF BootInv, OneOperation
<1>3. c.op \notin DOMAIN Exclusive => state = "Started" /\ c.who = busy
  BY DEF Confined
<1>4. \A d \in work : state = "Started" => d.who = busy
  BY ExclusiveIs DEF BootInv, OneOperation, Confined
<1>5. c.who # 0
  BY <1>1, Numbers DEF BootInv, Numbered, Owned
<1> QED BY <1>1, <1>2, <1>3, <1>4, <1>5, ExclusiveIs DEF BootInv, TypeOK, Operations

\* What a record says.
LEMMA RecordIs ==
  ASSUME NEW v \in Vols \cup {0}, NEW D \in SUBSET Devs
  PROVE  \E z \in Records : z = [id |-> v, devs |-> D] /\ z.id = v /\ z.devs = D
<1>1. PICK z : z = [id |-> v, devs |-> D]
  OBVIOUS
<1>2. z \in Records /\ z.id = v /\ z.devs = D
  BY <1>1 DEF Records
<1> QED BY <1>1, <1>2

\* Between two chains, nothing waits to be saved.
LEMMA NoSaves ==
  ASSUME BootInv, \A c \in work : c.step # "save"
  PROVE  \A i \in 1 .. Len(saves) : FALSE
  BY DEF BootInv, SavesWaitedFor

\* What can be booted is ready, if the probe was the last word.
LEMMA BootableReady ==
  ASSUME BootInv, NEW s, NEW u, Bootable(s, u),
         \A v \in Vols : /\ s.vols[v].devs = Probed.vols[v].devs
                         /\ s.vols[v].found = Probed.vols[v].found
  PROVE  Ready
<1>1. bound.id # 0 /\ bound.id \in Vols
  BY BootableIs DEF BootInv, TypeOK, Records
<1>2. /\ Probed.vols[bound.id].found # {}
      /\ Probed.vols[bound.id].found = Probed.vols[bound.id].devs
  BY <1>1 DEF Bootable, Present, Missing
<1> QED BY <1>1, <1>2, ProbedAre DEF Ready, Whole

LEMMA CalmLoad ==
  ASSUME BootInv, CalmInv, ~Adds' => ~Adds, Calm' => Calm,
         Prepare \/ LoadVolume \/ LoadPreset \/ ClearPreset
  PROVE  Confined' /\ Removals' /\ (Calm' => Tracked')
<1> USE DEF Prepare, LoadVolume, LoadPreset, ClearPreset, process, known, running, chains, client
<1>1. UNCHANGED <<disk, state, storage, jobs, busy, work, saves>> /\ SameDisks
  BY DEF SameDisks
<1>2. Confined' /\ Removals'
  BY <1>1, JobsKept DEF CalmInv
<1>3. ASSUME Calm' PROVE Tracked'
  <2>1. Calm /\ Tracked
    BY <1>3 DEF CalmInv
  <2>2. CASE UNCHANGED bound
    BY <1>1, <2>1, <2>2, TrackedKept
  <2>3. CASE LoadVolume
    <3>1. state \in {"Probing", "ProbeFailed", "Pending"}
      BY <2>1, <2>3 DEF BootInv, Known, Calm
    <3>2. state \in {"Pending", "Starting"} => Latest
      BY <2>1 DEF Tracked
    <3> QED BY <1>1, <3>1, <3>2, DisksKept DEF Tracked
  <2> QED BY <2>2, <2>3
<1> QED BY <1>2, <1>3

\* A probe tells what there is; what it finds bootable is whole.
LEMMA CalmProbing ==
  ASSUME BootInv, CalmInv, ~Adds' => ~Adds, Calm' => Calm,
         ProbeDone \/ ProbeError \/ Retry \/ Refresh
  PROVE  Confined' /\ Removals' /\ (Calm' => Tracked')
<1> USE DEF process, known, running, chains, client
<1>1. UNCHANGED <<disk, bound, product, jobs, busy, work, saves>> /\ SameDisks
  BY DEF SameDisks, ProbeDone, ProbeError, Retry, Refresh
<1>2. state = "Started" => state' = "Started"
  BY DEF ProbeDone, ProbeError, Retry, Refresh
<1>3. Confined' /\ Removals'
  BY <1>1, <1>2, JobsKept DEF CalmInv
<1>4. ASSUME Calm' PROVE Tracked'
  <2>1. Calm /\ Tracked /\ product = "ws215i"
    BY <1>4 DEF CalmInv, Calm
  <2>2. CASE Refresh
    BY <1>1, <2>1, <2>2, TrackedKept DEF Refresh
  <2>3. CASE ProbeError \/ Retry
    BY <2>3, Elsewhere DEF ProbeError, Retry
  <2>4. CASE ProbeDone
    <3>1. storage' = Probed /\ Latest'
      BY <1>1, <2>4, DisksKept DEF ProbeDone
    <3>2. \/ state' \notin {"Starting", "Started"}
          \/ state' = "Starting" /\ Bootable(Probed, boundUser)
      BY <2>1, <2>4 DEF ProbeDone, GoOn, EnterStarting
    <3>3. state' = "Starting" => Ready'
      BY <1>1, <3>2, BootableReady, DisksKept
    <3> QED BY <3>1, <3>2, <3>3 DEF Tracked
  <2> QED BY <2>2, <2>3, <2>4
<1> QED BY <1>3, <1>4

LEMMA CalmTell ==
  ASSUME BootInv, CalmInv, ~Adds' => ~Adds, Calm' => Calm, NEW u \in Users \cup {"none"}, Tell(u)
  PROVE  Confined' /\ Removals' /\ (Calm' => Tracked')
<1>1. CASE Restart
  BY <1>1, Anew
<1>2. CASE ~Restart
  <2>1. UNCHANGED <<bound, storage, jobs, busy, work, saves>>
    BY <1>2 DEF Tell, chains
  <2>2. \/ UNCHANGED state
        \/ state = "Pending" /\ state' \in {"Starting", "Presetting", "Unavailable"}
    BY <1>2 DEF Tell, Joins, GoOn, EnterStarting
  <2>3. Confined' /\ Removals'
    BY <2>1, <2>2, JobsKept DEF CalmInv
  <2>4. ASSUME Calm' PROVE Tracked'
    <3>1. Calm /\ Tracked
      BY <2>4 DEF CalmInv
    <3>2. UNCHANGED disk /\ (UNCHANGED state \/ (Joins(u) /\ GoOn(storage, u)))
      BY <1>2, <3>1 DEF Tell, Calm
    <3>3. SameDisks
      BY <3>2 DEF SameDisks
    <3>4. CASE UNCHANGED state
      BY <2>1, <3>1, <3>3, <3>4, TrackedKept
    <3>5. CASE Joins(u) /\ GoOn(storage, u)
      <4>1. Latest
        BY <3>1, <3>5 DEF Joins, Tracked
      <4>2. \/ state' \notin {"Pending", "Starting", "Started"}
            \/ state' = "Starting" /\ Bootable(storage, u)
        BY <3>5 DEF GoOn, EnterStarting
      <4>3. state' = "Starting" => Ready
        BY <4>1, <4>2, BootableReady DEF Latest
      <4> QED BY <2>1, <3>3, <4>1, <4>2, <4>3, DisksKept DEF Tracked
    <3> QED BY <3>2, <3>4, <3>5
  <2> QED BY <2>3, <2>4
<1> QED BY <1>1, <1>2

\* Started begins with the job that records the devices.
LEMMA CalmStart ==
  ASSUME BootInv, CalmInv, ~Adds' => ~Adds, Calm' => Calm, FruitmixStarted
  PROVE  Confined' /\ Removals' /\ (Calm' => Tracked')
<1>1. CASE Restart
  BY <1>1, Anew
<1>2. CASE ~Restart
  <2>1. /\ state = "Starting" /\ state' = "Started" /\ UNCHANGED <<storage, bound, work, saves>>
        /\ disk' = IF given \in Users THEN [disk EXCEPT !.admin[serving] = given] ELSE disk
        /\ jobs' = <<>> \/ jobs' = FirstJobs
        /\ product = "ws215i" => jobs' = FirstJobs
    BY <1>2 DEF FruitmixStarted, known, chains
  <2>2. SameDisks
    BY <2>1 DEF SameDisks, BootInv, TypeOK, Disks
  <2>3. Len(FirstJobs) = 1 /\ FirstJobs[1].op = "update"
    BY DEF FirstJobs, Chain
  <2>4. Removals'
    BY <2>1, <2>3 DEF Removals
  <2>5. ~Adds' => work = {}
    BY <2>1, Alone DEF CalmInv
  <2>6. Confined'
    BY <2>1, <2>5 DEF Confined
  <2>7. ASSUME Calm' PROVE Tracked'
    <3>1. Calm /\ Latest /\ Ready /\ product = "ws215i" /\ work = {}
      BY <2>1, <2>5, <2>7 DEF CalmInv, Calm, Tracked
    <3>2. Latest' /\ Ready'
      BY <2>1, <2>2, <3>1, DisksKept
    <3>3. \A i \in 1 .. Len(saves) : FALSE
      BY <3>1, NoSaves
    <3>4. Recording'
      BY <2>1, <2>3, <3>1 DEF Recording
    <3> QED BY <2>1, <3>1, <3>2, <3>3, <3>4 DEF Tracked
  <2> QED BY <2>4, <2>6, <2>7
<1> QED BY <1>1, <1>2

\* Calls: Started takes only the removal of a device, unless an add is asked.
LEMMA CalmCalls ==
  ASSUME BootInv, CalmInv, ~Adds' => ~Adds, Calm' => Calm, Calls
  PROVE  Confined' /\ Removals' /\ (Calm' => Tracked')
<1>1. ASSUME NEW r \in Requests, NEW op \in Operations, Refused(r, op)
      PROVE  Confined' /\ Removals' /\ (Calm' => Tracked')
  <2>1. UNCHANGED <<disk, storage, bound, state, jobs, busy, work, saves>>
    BY <1>1 DEF Refused, Asks, known, chains
  <2>2. SameDisks
    BY <2>1 DEF SameDisks
  <2> QED BY <2>1, <2>2, JobsKept, TrackedKept DEF CalmInv
<1>2. ASSUME NEW r \in Requests, NEW op \in Operations, NEW D \in SUBSET Devs, Begin(r, op, D)
      PROVE  Confined' /\ Removals' /\ (Calm' => Tracked')
  <2>1. /\ op \in {"init", "repair", "add"} /\ Asks(r, op) /\ Accepts(op)
        /\ state' \in {"Initializing", "Repairing", "Adding"} /\ jobs' = <<>>
        /\ work' = work \cup {Chain(r, op, D, "check")}
    BY <1>2 DEF Begin, Enter
  <2>2. Tracked' /\ Removals'
    BY <2>1, Elsewhere DEF Removals
  <2>3. op = "add" => Adds'
    BY <2>1 DEF Asks, Adds, BootInv, TypeOK
  <2>4. Chain(r, op, D, "check").op \in DOMAIN Exclusive
    BY <2>1, ExclusiveIs DEF Chain
  <2>5. ~Adds' => state = "Unavailable"
    BY <2>1, <2>3 DEF Accepts
  <2>6. Confined'
    BY <2>1, <2>4, <2>5 DEF Confined, CalmInv
  <2> QED BY <2>2, <2>6
<1>3. ASSUME NEW r \in Requests, NEW v \in Vols, Import(r, v)
      PROVE  Confined' /\ Removals' /\ (Calm' => Tracked')
  <2>1. /\ state = "Unavailable" /\ state' \in {"Importing", "Probing"} /\ UNCHANGED <<jobs, busy>>
        /\ work' = work \/ work' = work \cup {Chain(r, "import", {}, "save")}
    BY <1>3 DEF Import, Accepts, chains
  <2>2. Tracked' /\ Removals'
    BY <2>1, Elsewhere DEF Removals, CalmInv
  <2>3. Chain(r, "import", {}, "save").op \in DOMAIN Exclusive
    BY ExclusiveIs DEF Chain
  <2>4. Confined'
    BY <2>1, <2>3 DEF Confined, CalmInv
  <2> QED BY <2>2, <2>4
<1>4. ASSUME NEW r \in Requests, NEW d \in Devs, Remove(r, d)
      PROVE  Confined' /\ Removals' /\ (Calm' => Tracked')
  <2>1. /\ state = "Started" /\ UNCHANGED <<disk, storage, bound, state, busy, work, saves>>
        /\ jobs' = Append(jobs, Chain(r, "remove", {d}, "shrink"))
    BY <1>4 DEF Remove, Accepts, Asks, known, chains
  <2>2. PICK j \in Chains : j = Chain(r, "remove", {d}, "shrink") /\ j.dev = {d} /\ j.op = "remove"
    <3>1. r \in Int /\ {d} \in SUBSET Devs /\ "remove" \in Operations
      BY Numbers DEF Operations
    <3> QED BY <3>1, ChainTypes
  <2>3. jobs \in Seq(Chains) /\ Len(jobs) \in Nat
    BY DEF BootInv, TypeOK
  <2>4. PICK n \in Nat : n = Len(jobs)
    BY <2>3
  <2>5. /\ Len(jobs') = n + 1 /\ jobs'[n + 1] = j
        /\ \A i \in 1 .. n : jobs'[i] = jobs[i]
    BY <2>1, <2>2, <2>3, <2>4
  <2>6. Removals'
    <3>1. ASSUME NEW i \in 1 .. n + 1, jobs'[i].op = "remove" PROVE \E e \in Devs : jobs'[i].dev = {e}
      <4>1. CASE i \in 1 .. n
        BY <2>4, <2>5, <3>1, <4>1 DEF Removals, CalmInv
      <4>2. CASE i = n + 1
        BY <2>2, <2>5, <4>2
      <4> QED BY <2>4, <4>1, <4>2
    <3> QED BY <2>5, <3>1 DEF Removals
  <2>7. Confined'
    BY <2>1 DEF Confined, CalmInv
  <2>8. ASSUME Calm' PROVE Tracked'
    <3>1. SameDisks /\ Tracked
      BY <2>1, <2>8 DEF SameDisks, CalmInv
    <3>2. Latest => Latest'
      BY <2>1, <3>1, DisksKept
    <3>3. Ready'
      BY <2>1, <3>1, DisksKept DEF Tracked
    <3>4. \A c : Jobbing(c) => Jobbing(c)'
      BY <2>1 DEF Jobbing
    <3>5. Recording => Recording'
      <4>1. ASSUME NEW i \in 1 .. Len(jobs), jobs[i].op = "update"
            PROVE  \E k \in 1 .. Len(jobs') : jobs'[k].op = "update"
        BY <2>4, <2>5, <4>1
      <4> QED BY <2>1, <4>1 DEF Recording
    <3> QED BY <2>1, <3>1, <3>2, <3>3, <3>4, <3>5 DEF Tracked
  <2> QED BY <2>6, <2>7, <2>8
<1> QED BY <1>1, <1>2, <1>3, <1>4 DEF Calls

\* A job reads the devices its volume has: the update job has something to record, and a
\* removal leaves one device.
LEMMA CalmJob ==
  ASSUME BootInv, CalmInv, ~Adds' => ~Adds, Calm' => Calm, StartJob
  PROVE  Confined' /\ Removals' /\ (Calm' => Tracked')
<1>0. PICK j \in Chains : j = Head(jobs)
  BY Owners DEF StartJob
<1>1. /\ jobs # <<>> /\ busy = 0 /\ jobs' = Tail(jobs)
      /\ UNCHANGED <<product, disk, bound, state, storage>>
  BY DEF StartJob, known
<1>2. /\ Len(jobs') \in Nat /\ 1 \in 1 .. Len(jobs) /\ j = jobs[1]
      /\ \A i \in 1 .. Len(jobs') : i + 1 \in 1 .. Len(jobs) /\ jobs'[i] = jobs[i + 1]
  BY <1>0, <1>1, JobTaken
<1>3. (j.op = "remove" /\ j.step = "shrink") \/ j.op = "update"
  BY <1>2 DEF BootInv, Numbered
<1>4. /\ On(j, bound.id).who = j.who
      /\ \A D : On(At(With(j, D), "recompute"), bound.id).who = j.who
      /\ On(At(j, "save"), bound.id).who = j.who
  BY DEF On, At, With, Chains
<1>5. Removals'
  BY <1>2 DEF Removals, CalmInv
<1>6. ASSUME ~Adds' PROVE state = "Started" /\ work = {}
  <2>1. state = "Started"
    BY <1>1, <1>6 DEF Confined, CalmInv
  <2> QED BY <1>1, <1>6, <2>1, Alone DEF CalmInv
<1>7. Confined'
  <2>1. \/ UNCHANGED work
        \/ \E c : work' = work \cup {c} /\ c.who = j.who /\ busy' = j.who
    BY <1>0, <1>4 DEF StartJob
  <2> QED BY <1>1, <1>6, <2>1 DEF Confined
<1>8. ASSUME Calm' PROVE Tracked'
  <2>1. Tracked /\ state = "Started" /\ work = {} /\ SameDisks
    BY <1>1, <1>6, <1>8 DEF CalmInv, Calm, SameDisks
  <2>2. Latest /\ Ready /\ bound.id \in Vols /\ bound.id # 0
    BY <2>1 DEF Tracked, Ready, BootInv, TypeOK, Records
  <2>3. Latest' /\ Ready' /\ state' = "Started"
    BY <1>1, <2>1, <2>2, DisksKept
  <2>4. PICK D \in SUBSET Devs : /\ D = storage.vols[bound.id].devs /\ D = storage.vols[bound.id].found
                                 /\ D = disk.members[bound.id] /\ D # {}
    <3>1. Found(bound.id) # {} /\ Found(bound.id) = disk.members[bound.id]
      BY <2>2 DEF Ready, Whole
    <3>2. disk.members[bound.id] \in SUBSET Devs
      BY <2>2 DEF BootInv, TypeOK, Disks
    <3> QED BY <2>2, <3>1, <3>2, ProbedAre DEF Latest
  <2>5. \A i \in 1 .. Len(saves) : FALSE
    BY <2>1, NoSaves
  <2>6. \/ /\ j.op = "remove" /\ Cardinality(D) = 2
           /\ work' = {On(j, bound.id)} /\ UNCHANGED saves
        \/ j.op = "remove" /\ UNCHANGED <<work, saves>>
        \/ /\ j.op = "update" /\ work' = {On(At(With(j, D), "recompute"), bound.id)}
           /\ UNCHANGED saves
        \/ /\ j.op = "update" /\ work' = {On(At(j, "save"), bound.id)}
           /\ saves' = Append(saves, Record(j.who, bound.id, D))
    BY <1>0, <2>1, <2>2, <2>4 DEF StartJob
  <2>7. j.op = "remove" => (Recording => Recording')
    <3>1. ASSUME NEW i \in 1 .. Len(jobs), jobs[i].op = "update", j.op = "remove"
          PROVE  \E k \in 1 .. Len(jobs') : jobs'[k].op = "update"
      <4>1. PICK n \in Nat : n = Len(jobs)
        BY DEF BootInv, TypeOK
      <4>2. i # 1 /\ i - 1 \in 1 .. Len(jobs')
        BY <1>1, <1>2, <3>1, <4>1 DEF BootInv, TypeOK
      <4>3. jobs'[i - 1] = jobs[i - 1 + 1] /\ i - 1 + 1 = i
        BY <1>2, <4>1, <4>2
      <4> QED BY <3>1, <4>2, <4>3
    <3> QED BY <1>1, <2>1, <3>1 DEF Recording
  <2>8. CASE /\ j.op = "remove" /\ Cardinality(D) = 2
             /\ work' = {On(j, bound.id)} /\ UNCHANGED saves
    <3>1. PICK c \in Chains : c = On(j, bound.id) /\ c.dev = j.dev /\ c.vol = bound.id /\ c.step = "shrink"
      BY <1>3, <2>2, <2>8, ChainChanges
    <3>2. PICK d \in Devs : c.dev = {d}
      BY <1>2, <2>8, <3>1 DEF Removals, CalmInv
    <3>3. D \ {d} # {}
      <4>1. Cardinality({}) = 0 /\ Cardinality({d}) = 1
        BY FS_EmptySet, FS_Singleton
      <4>2. D # {} /\ D # {d}
        BY <2>8, <4>1
      <4> QED BY <4>2
    <3>4. Jobbing(c)'
      BY <1>1, <2>4, <3>1, <3>2, <3>3 DEF Jobbing
    <3>5. Recording'
      BY <2>1, <2>7, <2>8 DEF Tracked
    <3> QED BY <2>3, <2>5, <2>8, <3>1, <3>4, <3>5 DEF Tracked
  <2>9. CASE j.op = "remove" /\ UNCHANGED <<work, saves>>
    BY <2>1, <2>3, <2>5, <2>7, <2>9 DEF Tracked
  <2>10. CASE /\ j.op = "update" /\ work' = {On(At(With(j, D), "recompute"), bound.id)}
              /\ UNCHANGED saves
    <3>0. PICK a \in Chains : a = At(With(j, D), "recompute") /\ a.dev = D /\ a.step = "recompute"
      BY ChainChanges DEF StepNames
    <3>1. PICK c \in Chains : /\ c = On(At(With(j, D), "recompute"), bound.id)
                              /\ c.dev = D /\ c.vol = bound.id /\ c.step = "recompute"
      BY <2>2, <3>0, ChainChanges
    <3>2. Jobbing(c)' /\ Recording'
      BY <1>1, <2>4, <2>10, <3>1 DEF Jobbing, Recording
    <3> QED BY <2>3, <2>5, <2>10, <3>1, <3>2 DEF Tracked
  <2>11. CASE /\ j.op = "update" /\ work' = {On(At(j, "save"), bound.id)}
              /\ saves' = Append(saves, Record(j.who, bound.id, D))
    <3>0. PICK a \in Chains : a = At(j, "save") /\ a.step = "save"
      BY ChainChanges DEF StepNames
    <3>1. PICK c \in Chains : c = On(At(j, "save"), bound.id) /\ c.vol = bound.id /\ c.step = "save"
      BY <2>2, <3>0, ChainChanges
    <3>2. Jobbing(c)' /\ Recording'
      BY <1>1, <2>11, <3>1 DEF Jobbing, Recording
    <3>3. PICK x \in [who : Int, data : Records] :
            x = Record(j.who, bound.id, D) /\ x.data.id = bound.id /\ x.data.devs = D
      <4>1. PICK z \in Records : z = [id |-> bound.id, devs |-> D] /\ z.id = bound.id /\ z.devs = D
        BY <2>2, RecordIs
      <4>2. j.who \in Int /\ Record(j.who, bound.id, D) = [who |-> j.who, data |-> z]
        BY <4>1 DEF Chains, Record
      <4> QED BY <4>1, <4>2
    <3>4. \A i \in 1 .. Len(saves') : saves'[i] = x
      <4>1. PICK n \in Nat : n = Len(saves)
        BY DEF BootInv, TypeOK
      <4>2. n = 0
        BY <2>5, <4>1
      <4>3. saves \in Seq([who : Int, data : Records])
        BY DEF BootInv, TypeOK
      <4>4. Len(saves') = n + 1 /\ saves'[n + 1] = x
        BY <2>11, <3>3, <4>1, <4>3
      <4>5. \A i \in 1 .. 0 + 1 : i = 0 + 1
        OBVIOUS
      <4> QED BY <4>2, <4>4, <4>5
    <3> QED BY <1>1, <2>3, <2>4, <2>11, <3>1, <3>2, <3>3, <3>4 DEF Tracked
  <2> QED BY <2>6, <2>8, <2>9, <2>10, <2>11
<1> QED BY <1>5, <1>7, <1>8

\* A chain goes on, or ends in its place.
LEMMA GoesConfined ==
  ASSUME BootInv, CalmInv, ~Adds' => ~Adds, UNCHANGED jobs, NEW c \in work,
         \/ \E n : n.who = c.who /\ n.op = c.op /\ Go(c, n)
         \/ \E result : End(c, result)
  PROVE  /\ Confined' /\ Removals'
         /\ ~Adds /\ state # "Started" => state' \notin {"Pending", "Starting", "Started"}
<1>1. Removals'
  BY DEF Removals, CalmInv
<1>2. CASE \E n : n.who = c.who /\ n.op = c.op /\ Go(c, n)
  <2>1. PICK n : n.who = c.who /\ n.op = c.op /\ Go(c, n)
    BY <1>2
  <2>2. work' = (work \ {c}) \cup {n} /\ UNCHANGED <<state, busy>>
    BY <2>1 DEF Go
  <2>3. Confined'
    BY <2>1, <2>2 DEF Confined, CalmInv
  <2>4. ~Adds /\ state # "Started" => state \notin {"Pending", "Starting", "Started"}
    BY Alone DEF CalmInv
  <2> QED BY <1>1, <2>2, <2>3, <2>4
<1>3. CASE \E result : End(c, result)
  <2>1. /\ work' = work \ {c} /\ busy' = IF busy = c.who THEN 0 ELSE busy
        /\ state' = IF c.op \in {"init", "import", "repair", "add"} THEN "Probing" ELSE state
    BY <1>3 DEF End, Over
  <2>2. ~Adds /\ state = "Started" => work' = {} /\ state' = state
    BY <2>1, Alone, ExclusiveIs DEF CalmInv
  <2>3. ~Adds /\ state # "Started" => /\ state' \notin {"Pending", "Starting", "Started"}
                                      /\ jobs = <<>> /\ \A d \in work : d.op \in DOMAIN Exclusive
    BY <2>1, Alone DEF CalmInv, Confined
  <2>4. Confined'
    BY <2>1, <2>2, <2>3 DEF Confined
  <2> QED BY <1>1, <2>3, <2>4
<1> QED BY <1>2, <1>3

\* The last job's chain shrinks the volume, reads what is left, and records it.
LEMMA CalmAdvance ==
  ASSUME BootInv, CalmInv, ~Adds' => ~Adds, Calm' => Calm, NEW who \in Workers, Advance(who)
  PROVE  Confined' /\ Removals' /\ (Calm' => Tracked')
<1>1. PICK c \in work : \/ Check(c) \/ Format(c) \/ Find(c) \/ WriteUsers(c) \/ Mount(c)
                        \/ Grow(c) \/ Prune(c) \/ Shrink(c) \/ Update(c) \/ Recompute(c)
  BY DEF Advance
<1>2. UNCHANGED <<jobs, bound>> /\ c \in Chains
  BY <1>1 DEF Check, Format, Find, WriteUsers, Mount, Grow, Prune, Shrink, Update, Recompute,
              Rest, known, BootInv, TypeOK
<1>3. (\E s \in StepNames, v \in Vols \cup {0} : Go(c, On(At(c, s), v))) \/ (\E s \in StepNames : To(c, s)) \/ Fails(c)
  <2>1. FirstStep[c.op] \in StepNames \/ ~Check(c)
    <3>1. Check(c) => c.op \in {"init", "add", "repair"}
      BY Working DEF Check, Steps
    <3> QED BY <3>1 DEF FirstStep, StepNames
  <2>2. Format(c) => Fails(c) \/ Smallest(NewVolumes) \in Vols
    <3>1. ASSUME Format(c) PROVE Smallest(NewVolumes) \in Vols
      <4>1. NewVolumes # {} /\ NewVolumes \in SUBSET Vols
        BY <3>1, Working DEF Format, AimedAt, Steps, NewVolumes
      <4> QED BY <4>1, LeastVolume
    <3> QED BY <3>1
  <2>3. {"check", "format", "find", "users", "grow", "prune", "mount", "shrink", "update",
         "recompute", "save"} \subseteq StepNames
    BY DEF StepNames
  <2> QED BY <1>1, <2>1, <2>2, <2>3
      DEF Check, Format, Find, WriteUsers, Mount, Grow, Prune, Shrink, Update, Recompute, Save, To
<1>4. \/ \E n : n.who = c.who /\ n.op = c.op /\ Go(c, n)
      \/ \E result : End(c, result)
  <2>1. \A s \in StepNames : At(c, s) \in Chains /\ At(c, s).who = c.who /\ At(c, s).op = c.op
    BY <1>2, ChainChanges
  <2>2. \A s \in StepNames, v \in Vols \cup {0} :
          On(At(c, s), v).who = c.who /\ On(At(c, s), v).op = c.op
    BY <2>1, ChainChanges
  <2> QED BY <1>3, <2>1, <2>2 DEF To, Fails
<1>5. /\ Confined' /\ Removals'
      /\ ~Adds /\ state # "Started" => state' \notin {"Pending", "Starting", "Started"}
  BY <1>2, <1>4, GoesConfined
<1>6. ASSUME Calm', state = "Started" PROVE Tracked'
  <2>1. Calm /\ Tracked /\ ~Adds /\ Confined
    BY <1>6 DEF CalmInv, Calm
  <2>2. c.op \in {"remove", "update"} /\ (\A d \in work : d = c) /\ c.step \in Steps[c.op]
    BY <1>6, <2>1, Alone, ExclusiveIs DEF BootInv, OneOperation
  <2>3. c.step \in {"shrink", "update", "recompute", "save"}
    BY <2>2 DEF Steps
  <2>4. Shrink(c) \/ Update(c) \/ Recompute(c)
    BY <1>1, <2>3 DEF Check, Format, Find, WriteUsers, Mount, Grow, Prune
  <2>5. /\ Ready /\ Jobbing(c) /\ c.vol = bound.id /\ bound.id \in Vols /\ bound.id # 0
        /\ Found(bound.id) = disk.members[bound.id] /\ Found(bound.id) # {}
        /\ disk \in Disks /\ disk.members[bound.id] \in SUBSET Devs
    <3>1. Ready /\ Jobbing(c)
      BY <1>6, <2>1 DEF Tracked
    <3> QED BY <3>1 DEF Ready, Whole, Jobbing, BootInv, TypeOK, Records, Disks
  <2>6. c.step # "save" /\ \A i \in 1 .. Len(saves) : FALSE
    <3>1. c.step # "save"
      BY <2>4 DEF Shrink, Update, Recompute
    <3> QED BY <2>2, <3>1, NoSaves
  <2>7. CASE Shrink(c)
    <3>1. /\ To(c, "update") /\ UNCHANGED saves
          /\ disk' = [disk EXCEPT !.members[c.vol] = @ \ c.dev, !.holds = Hold(c.dev, 0)]
      BY <2>5, <2>7 DEF Shrink, Ready
    <3>2. PICK n \in Chains : n = At(c, "update") /\ n.step = "update" /\ n.vol = c.vol
      BY <1>2, ChainChanges DEF StepNames
    <3>3. work' = {n} /\ UNCHANGED state
      BY <2>2, <3>1, <3>2 DEF To, Go
    <3>4. Ready'
      <4>1. PICK M : M = disk.members[bound.id] \ c.dev
        OBVIOUS
      <4>2. /\ disk'.members[bound.id] = M /\ disk'.plugged = disk.plugged
            /\ \A d \in M : d \in Devs => disk'.holds[d] = disk.holds[d]
        BY <2>5, <3>1, <4>1 DEF Disks, Hold
      <4>3. \A d \in disk.members[bound.id] : d \in Devs /\ d \in disk.plugged /\ disk.holds[d] = bound.id
        BY <2>5 DEF Found
      <4>4. M # {} /\ M \subseteq disk.members[bound.id]
        BY <2>5, <2>7, <4>1 DEF Shrink, Jobbing
      <4>5. Found(bound.id)' = M
        BY <1>2, <4>2, <4>3, <4>4 DEF Found
      <4> QED BY <1>2, <2>5, <4>2, <4>4, <4>5 DEF Ready, Whole
    <3>5. Jobbing(n)' /\ Recording'
      BY <1>2, <2>5, <3>2, <3>3 DEF Jobbing, Recording
    <3> QED BY <1>6, <2>6, <3>1, <3>2, <3>3, <3>4, <3>5 DEF Tracked
  <2>8. CASE Update(c) \/ Recompute(c)
    <3>1. Save(c, bound.id, disk.members[bound.id]) /\ storage' = Probed /\ UNCHANGED disk
      BY <2>5, <2>8 DEF Update, Recompute, Ready, Jobbing, Found
    <3>2. PICK n \in Chains : n = At(c, "save") /\ n.step = "save" /\ n.vol = c.vol
      BY <1>2, ChainChanges DEF StepNames
    <3>3. work' = {n} /\ UNCHANGED state
      BY <2>2, <3>1, <3>2 DEF Save, To, Go
    <3>4. Latest' /\ Ready'
      <4>1. SameDisks
        BY <3>1 DEF SameDisks
      <4> QED BY <1>2, <2>5, <3>1, <4>1, DisksKept
    <3>5. Jobbing(n)' /\ Recording'
      BY <1>2, <2>5, <3>2, <3>3 DEF Jobbing, Recording
    <3>6. \A i \in 1 .. Len(saves') : /\ saves'[i].data.id = bound.id
                                      /\ saves'[i].data.devs = disk.members[bound.id]
      <4>1. PICK x \in [who : Int, data : Records] :
              /\ x = Record(c.who, bound.id, disk.members[bound.id])
              /\ x.data.id = bound.id /\ x.data.devs = disk.members[bound.id]
        <5>1. PICK z \in Records : /\ z = [id |-> bound.id, devs |-> disk.members[bound.id]]
                                   /\ z.id = bound.id /\ z.devs = disk.members[bound.id]
          BY <2>5, RecordIs
        <5>2. c.who \in Int /\ Record(c.who, bound.id, disk.members[bound.id]) = [who |-> c.who, data |-> z]
          BY <1>2, <5>1 DEF Chains, Record
        <5> QED BY <5>1, <5>2
      <4>2. PICK k \in Nat : k = Len(saves)
        <5>1. saves \in Seq([who : Int, data : Records])
          BY DEF BootInv, TypeOK
        <5> QED BY <5>1
      <4>3. k = 0
        BY <2>6, <4>2
      <4>4. Len(saves') = k + 1 /\ saves'[k + 1] = x
        BY <3>1, <4>1, <4>2 DEF Save, BootInv, TypeOK
      <4>5. \A i \in 1 .. 0 + 1 : i = 0 + 1
        OBVIOUS
      <4> QED BY <4>1, <4>3, <4>4, <4>5
    <3> QED BY <1>2, <1>6, <3>1, <3>2, <3>3, <3>4, <3>5, <3>6 DEF Tracked
  <2> QED BY <2>4, <2>7, <2>8
<1>7. ASSUME Calm', state # "Started" PROVE Tracked'
  BY <1>5, <1>7, Elsewhere DEF Calm
<1> QED BY <1>5, <1>6, <1>7

\* What the volume store saves is what the volume has.
LEMMA CalmSaved ==
  ASSUME BootInv, CalmInv, ~Adds' => ~Adds, Calm' => Calm, Saved
  PROVE  Confined' /\ Removals' /\ (Calm' => Tracked')
<1>1. /\ saves # <<>> /\ saves' = Tail(saves) /\ UNCHANGED <<product, disk, storage, jobs>>
  BY DEF Saved
<1>2. PICK c \in work :
        /\ c.who = Head(saves).who
        /\ \/ bound' = Head(saves).data /\ End(c, "ok") /\ UNCHANGED spent
           \/ Spend("fault") /\ End(c, "error")
  BY DEF Saved
<1>3. PICK x \in [who : Int, data : Records] :
        x = Head(saves) /\ x = saves[1] /\ 1 \in 1 .. Len(saves)
  <2>1. saves \in Seq([who : Int, data : Records])
    BY DEF BootInv, TypeOK
  <2>2. 1 \in 1 .. Len(saves) /\ Head(saves) = saves[1]
    BY <1>1, <2>1
  <2> QED BY <2>1, <2>2, ElementOfSeq
<1>4. /\ Confined' /\ Removals'
      /\ ~Adds /\ state # "Started" => state' \notin {"Pending", "Starting", "Started"}
  BY <1>1, <1>2, GoesConfined
<1>5. ASSUME Calm', state = "Started" PROVE Tracked'
  <2>1. Calm /\ Tracked /\ ~Adds /\ Confined /\ Ready /\ SameDisks
    BY <1>1, <1>5 DEF CalmInv, Calm, Tracked, SameDisks
  <2>2. bound' = x.data /\ End(c, "ok")
    BY <1>2, <1>3, <1>5, Troubled DEF Calm, BootInv, TypeOK
  <2>3. x.data.id = bound.id /\ x.data.devs = disk.members[bound.id]
    BY <1>3, <1>5, <2>1 DEF Tracked
  <2>4. c.op \in {"remove", "update"} /\ \A d \in work : d = c
    BY <1>5, <2>1, Alone, ExclusiveIs
  <2>5. work' = {} /\ state' = state
    BY <2>2, <2>4 DEF End, Over
  <2>6. \A d \in work : d.step = "save"
    BY <1>2, <1>3, <2>4 DEF BootInv, SavesWaitedFor
  <2>7. Latest
    BY <1>5, <2>1, <2>6 DEF Tracked
  <2>8. Latest' /\ Ready'
    <3>1. Latest'
      BY <1>1, <2>1, <2>7, DisksKept
    <3>2. Whole(bound.id)'
      BY <2>1, <2>2, <2>3, DisksKept DEF Ready, SameDisks, Whole, Found
    <3> QED BY <2>1, <2>2, <2>3, <3>1, <3>2 DEF Ready
  <2>9. Recording'
    BY <1>1, <2>2, <2>3 DEF Recording
  <2>10. \A i \in 1 .. Len(saves') : /\ saves'[i].data.id = bound'.id
                                     /\ saves'[i].data.devs = disk'.members[bound'.id]
    <3>1. PICK n \in Nat : n = Len(saves)
      <4>1. saves \in Seq([who : Int, data : Records])
        BY DEF BootInv, TypeOK
      <4> QED BY <4>1
    <3>2. ASSUME NEW i \in 1 .. Len(saves') PROVE i + 1 \in 1 .. Len(saves) /\ saves'[i] = saves[i + 1]
      BY <1>1, <3>1 DEF BootInv, TypeOK
    <3>3. \A i \in 1 .. Len(saves) : /\ saves[i].data.id = bound.id
                                     /\ saves[i].data.devs = disk.members[bound.id]
      BY <1>5, <2>1 DEF Tracked
    <3> QED BY <1>1, <2>2, <2>3, <3>2, <3>3
  <2> QED BY <1>5, <2>5, <2>8, <2>9, <2>10 DEF Tracked
<1>6. ASSUME Calm', state # "Started" PROVE Tracked'
  BY <1>4, <1>6, Elsewhere DEF Calm
<1> QED BY <1>4, <1>5, <1>6

\* Troubles: nothing is promised then, but the jobs stay where they are.
LEMMA CalmEnvironment ==
  ASSUME BootInv, CalmInv, ~Adds' => ~Adds, Calm' => Calm, Environment
  PROVE  Confined' /\ Removals' /\ (Calm' => Tracked')
<1>0. spent \in [{"crash", "fault", "plug", "tell"} -> Nat]
  BY DEF BootInv, TypeOK
<1>1. ASSUME Crash PROVE Confined' /\ Removals' /\ Tracked'
  BY <1>1, Anew DEF Crash
<1>2. ASSUME NEW c \in work, CommandFails(c) PROVE Confined' /\ Removals' /\ ~Calm'
  <2>1. UNCHANGED jobs /\ (\E result : End(c, result)) /\ ~Undisturbed'
    BY <1>0, <1>2, Troubled DEF CommandFails, Fails
  <2> QED BY <2>1, GoesConfined DEF Calm
<1>3. ASSUME NEW d \in Devs, Plug(d) PROVE Confined' /\ Removals' /\ ~Calm'
  <2>1. UNCHANGED <<work, jobs, busy, state>> /\ ~Undisturbed'
    BY <1>0, <1>3, Troubled DEF Plug, chains, running
  <2> QED BY <2>1, JobsKept DEF Calm, CalmInv
<1> QED BY <1>1, <1>2, <1>3, CalmProbing, CalmTell DEF Environment

LEMMA CalmStutter ==
  ASSUME CalmInv, UNCHANGED vars PROVE CalmInv'
<1>1. /\ UNCHANGED <<product, disk, bound, state, storage, jobs, busy, work, saves, asked, answer, spent>>
      /\ SameDisks
  BY DEF vars, process, client, known, running, chains, SameDisks
<1>2. ~Adds' => ~Adds
  BY <1>1 DEF Adds
<1>3. Calm' => Calm
  BY <1>1 DEF Calm, Adds, Undisturbed
<1>4. Unasked'
  BY <1>1 DEF Unasked, CalmInv
<1> QED BY <1>1, <1>2, <1>3, <1>4, JobsKept, TrackedKept DEF CalmInv

LEMMA CalmStep == BootInv /\ CalmInv /\ [Next]_vars => CalmInv'
<1> SUFFICES ASSUME BootInv, CalmInv, [Next]_vars PROVE CalmInv'
  OBVIOUS
<1>1. Unasked' /\ (~Adds' => ~Adds) /\ (Calm' => Calm)
  BY Grows, Before DEF CalmInv
<1>2. CASE UNCHANGED vars
  BY <1>2, CalmStutter
<1>3. CASE Next
  <2>1. CASE Internal
    BY <1>1, <2>1, CalmLoad, CalmProbing, CalmStart, CalmJob, CalmSaved DEF Internal, CalmInv
  <2>2. CASE Calls
    BY <1>1, <2>2, CalmCalls DEF CalmInv
  <2>3. CASE Environment
    BY <1>1, <2>3, CalmEnvironment DEF CalmInv
  <2>4. CASE \E who \in Workers : Advance(who)
    BY <1>1, <2>4, CalmAdvance DEF CalmInv
  <2> QED BY <1>3, <2>1, <2>2, <2>3, <2>4 DEF Next
<1> QED BY <1>2, <1>3

\* Without failures, pulled disks and an add, a machine at rest in Started has recorded
\* the devices its volume consists of: whatever calls, messages, crashes and restarts
\* came before, and whichever removal was interrupted (Started's update job).
THEOREM DevicesRecorded == Spec => []RecordIsActual
<1>1. Init => CalmInv
  BY DEF Init, CalmInv, Unasked, Confined, Removals, Tracked
<1>2. CalmInv => RecordIsActual
  <2> SUFFICES ASSUME CalmInv, AtRest, Undisturbed, \A r \in Requests : asked[r] # "add"
               PROVE  bound.devs = disk.members[bound.id]
    BY DEF RecordIsActual
  <2>1. Tracked /\ state = "Started" /\ jobs = <<>> /\ work = {}
    BY DEF CalmInv, Calm, Adds, AtRest
  <2> QED BY <2>1 DEF Tracked, Recording
<1> QED BY <1>1, <1>2, CalmStep, Invariant, PTL DEF Spec
=============================================================================
