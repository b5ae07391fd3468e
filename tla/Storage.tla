------------------------------- MODULE Storage -------------------------------
(***************************************************************************)
(* src/src/system/storage.js: the probe, which mounts every file system it *)
(* finds, and mkfsBtrfsAsync(), which probes, refuses what is in use,      *)
(* unmounts the rest of the target one by one and makes a file system.     *)
(*                                                                         *)
(* A block is a disk, its partition table, or a partition; a btrfs volume  *)
(* spans blocks.  What the commands do (mount, umount, mkfs.btrfs) is      *)
(* external, and others may mount or swap on meanwhile.                    *)
(***************************************************************************)
EXTENDS Integers, Sequences, FiniteSets, Functions

CONSTANTS Machines,    \* [blocks, mounts, swaps] to begin with
          Targets,     \* sets of disks
          MaxFaults

VARIABLES blocks,      \* block -> [disk, use, vol]: the disk it is on, its content
          mounts,      \* /proc/mounts: a sequence of [dev, at]
          swaps,       \* active
          fmt,         \* the call of mkfsBtrfsAsync()
          faults

vars == <<blocks, mounts, swaps, fmt, faults>>

Root == <<"/", 0>>
Nowhere == <<"nowhere", 0>>
NewVolume == 9

\* Only a btrfs block is of a volume, only partitioned disks have partitions.  A file system
\* is mounted as the root, which is the first mount, by the probe, or by another program.
Spots == {"/", "other", "volume", "block"} \X Nat
Places(B, b) == {<<"other", b>>} \cup IF B[b].use = "fs" THEN {<<"block", b>>} ELSE {<<"volume", B[b].vol>>}
WellFormed(B, M, S) ==
  /\ B \in [DOMAIN B -> [disk : DOMAIN B, use : {"fs", "btrfs", "swap", "table", "none"}, vol : Nat]]
  /\ IsFiniteSet(DOMAIN B) /\ DOMAIN B \subseteq Nat
  /\ \A b \in DOMAIN B : /\ B[b].vol # 0 <=> B[b].use = "btrfs"
                         /\ B[b].disk # b => B[B[b].disk].use = "table" /\ B[B[b].disk].disk = B[b].disk
  /\ M \in Seq([dev : DOMAIN B, at : Spots])
  /\ \A i \in DOMAIN M : /\ B[M[i].dev].use \in {"fs", "btrfs"}
                         /\ M[i].at \in Places(B, M[i].dev) \/ (M[i].at = Root /\ i = 1)
  /\ \A b \in S : b \in DOMAIN B /\ B[b].use = "swap"
Inputs ==
  \A m \in Machines :
    /\ WellFormed(m.blocks, m.mounts, m.swaps)
    /\ \A b \in DOMAIN m.blocks : m.blocks[b].vol # NewVolume
    /\ \A t \in Targets : \A d \in t : d \in DOMAIN m.blocks /\ m.blocks[d].disk = d

TypeOK ==
  /\ WellFormed(blocks, mounts, swaps)
  /\ fmt.pc \in {"idle", "probe", "mount", "again", "umount", "done"}
  /\ fmt.result \in {"none", "ok", "refused", "error"} /\ (fmt.pc = "done" <=> fmt.result # "none")

-----------------------------------------------------------------------------
\* volumeMount() and blockVolume(): the first mount of a device of the volume.
Devices(vol) == {b \in DOMAIN blocks : blocks[b].vol = vol}
First(D, M) ==
  LET of == {i \in DOMAIN M : M[i].dev \in D}
  IN  IF of = {} THEN Nowhere ELSE M[CHOOSE i \in of : \A j \in of : i <= j].at
Volumes == {blocks[b].vol : b \in DOMAIN blocks} \ {0}
IsDisk(b) == blocks[b].disk = b
Parts(d) == {b \in DOMAIN blocks : blocks[b].disk = d /\ b # d}

\* statVolumes() and statBlocks(): a block of a volume is mounted where its volume is.
\* Mutant: where it is named in /proc/mounts itself.
MountpointOwn(b, M) == IF blocks[b].use \in {"fs", "btrfs"} THEN First({b}, M) ELSE Nowhere
Mountpoint(b, M) ==
  CASE blocks[b].use = "btrfs" -> First(Devices(blocks[b].vol), M)
    [] blocks[b].use = "fs" -> First({b}, M)
    [] OTHER -> Nowhere
InUse(b, M, S) == Mountpoint(b, M) = Root \/ (blocks[b].use = "swap" /\ b \in S)
\* Mutant: the partitions of a disk are not asked.
UnformattableAlone(d, M, S) == InUse(d, M, S)
Unformattable(d, M, S) ==
  IF blocks[d].use = "table" THEN \E p \in Parts(d) : InUse(p, M, S) ELSE InUse(d, M, S)

-----------------------------------------------------------------------------
\* mountVolumesAsync() and mountNonVolumesAsync(): what was not mounted when it was probed.
UnmountedVolumes(M) == {v \in Volumes : First(Devices(v), M) = Nowhere}
UnmountedBlocks(M) == {b \in DOMAIN blocks : blocks[b].use = "fs" /\ First({b}, M) = Nowhere}
Min1(S) == CHOOSE b \in S : \A x \in S : b <= x
MountsOf(s, t) ==
  [i \in DOMAIN s |-> [dev |-> Min1(Devices(s[i])), at |-> <<"volume", s[i]>>]]
  \o [i \in DOMAIN t |-> [dev |-> t[i], at |-> <<"block", t[i]>>]]
\* Each loop waits for all its commands together, which end in any order.
Orders(S) == Bijection(1 .. Cardinality(S), S)
MountIn(V, B) == \E s \in Orders(V), t \in Orders(B) : mounts' = mounts \o MountsOf(s, t)

\* umountBlocksAsync(): the volumes of the target, then the partitions of its disks, then the
\* disks that are file systems themselves, each kind in order.
Umounts(target, M) ==
  LET disks(use) == {d \in target : blocks[d].use = use}
      mounted(S) == {b \in S : Mountpoint(b, M) # Nowhere}
      x(kind, of, b) == [kind |-> kind, of |-> of, at |-> Mountpoint(b, M)]
  IN  {x(1, blocks[d].vol, d) : d \in mounted(disks("btrfs"))}
      \cup {x(2, p, p) : p \in mounted(UNION {Parts(d) : d \in disks("table")})}
      \cup {x(3, d, d) : d \in mounted(disks("fs"))}

-----------------------------------------------------------------------------
Ask(target) ==
  /\ fmt.pc = "idle" /\ fmt' = [fmt EXCEPT !.pc = "probe", !.target = target]
  /\ UNCHANGED <<blocks, mounts, swaps, faults>>
\* probeAsync(): mounts and swaps, what is to be mounted, and the mounts again.
Probe ==
  /\ fmt.pc = "probe"
  /\ fmt' = [fmt EXCEPT !.pc = "mount", !.mounts = mounts, !.swaps = swaps]
  /\ UNCHANGED <<blocks, mounts, swaps, faults>>
MountAll ==
  /\ fmt.pc = "mount" /\ fmt' = [fmt EXCEPT !.pc = "again"]
  /\ MountIn(UnmountedVolumes(fmt.mounts), UnmountedBlocks(fmt.mounts))
  /\ UNCHANGED <<blocks, swaps, faults>>
\* A volume or a block that cannot be mounted is noted, and the probe goes on.
MountFails ==
  /\ fmt.pc = "mount" /\ fmt' = [fmt EXCEPT !.pc = "again"]
  /\ faults < MaxFaults /\ faults' = faults + 1
  /\ \/ \E v \in UnmountedVolumes(fmt.mounts) :
          MountIn(UnmountedVolumes(fmt.mounts) \ {v}, UnmountedBlocks(fmt.mounts))
     \/ \E b \in UnmountedBlocks(fmt.mounts) :
          MountIn(UnmountedVolumes(fmt.mounts), UnmountedBlocks(fmt.mounts) \ {b})
  /\ UNCHANGED <<blocks, swaps>>
Ends(result) == fmt' = [fmt EXCEPT !.pc = "done", !.result = result, !.todo = {}]
Again ==
  /\ fmt.pc = "again"
  /\ IF \E d \in fmt.target : Unformattable(d, mounts, fmt.swaps)
     THEN Ends("refused")
     ELSE fmt' = [fmt EXCEPT !.pc = "umount", !.todo = Umounts(fmt.target, mounts), !.mounts = mounts]
  /\ UNCHANGED <<blocks, mounts, swaps, faults>>

\* umount: what is mounted there last; if nothing is, or it is busy, all ends.
Removed(M, i) == [k \in 1 .. Len(M) - 1 |-> IF k < i THEN M[k] ELSE M[k + 1]]
Umount ==
  /\ fmt.pc = "umount"
  /\ \E x \in fmt.todo :
       /\ \A y \in fmt.todo : x.kind < y.kind \/ (x.kind = y.kind /\ x.of <= y.of)
       /\ LET there == {i \in DOMAIN mounts : mounts[i].at = x.at}
          IN  IF there = {} THEN Ends("error") /\ UNCHANGED mounts
              ELSE /\ \E i \in there : (\A j \in there : j <= i) /\ mounts' = Removed(mounts, i)
                   /\ fmt' = [fmt EXCEPT !.todo = @ \ {x}]
  /\ UNCHANGED <<blocks, swaps, faults>>
UmountFails ==
  /\ fmt.pc = "umount" /\ fmt.todo # {} /\ faults < MaxFaults /\ faults' = faults + 1
  /\ Ends("error") /\ UNCHANGED <<blocks, mounts, swaps>>

\* mkfs.btrfs -f refuses a disk that is mounted or has something that is.
Busy(d) == \E b \in {d} \cup Parts(d) :
             b \in swaps \/ \E i \in DOMAIN mounts : mounts[i].dev = b \/ (blocks[b].vol # 0 /\ mounts[i].dev \in Devices(blocks[b].vol))
Mkfs ==
  /\ fmt.pc = "umount" /\ fmt.todo = {}
  /\ IF \E d \in fmt.target : Busy(d) THEN Ends("error") /\ UNCHANGED blocks
     ELSE /\ Ends("ok")
          /\ blocks' = [b \in DOMAIN blocks \ UNION {Parts(d) : d \in fmt.target} |->
               IF b \in fmt.target THEN [disk |-> b, use |-> "btrfs", vol |-> NewVolume] ELSE blocks[b]]
  /\ UNCHANGED <<mounts, swaps, faults>>

\* Others mount a file system elsewhere, or swap on.
OtherMounts(b) ==
  /\ fmt.pc \in {"mount", "again", "umount"} /\ faults < MaxFaults /\ faults' = faults + 1
  /\ blocks[b].use \in {"fs", "btrfs"}
  /\ mounts' = Append(mounts, [dev |-> b, at |-> <<"other", b>>])
  /\ UNCHANGED <<blocks, swaps, fmt>>
SwapOn(b) ==
  /\ fmt.pc \in {"mount", "again", "umount"} /\ faults < MaxFaults /\ faults' = faults + 1
  /\ blocks[b].use = "swap" /\ b \notin swaps /\ swaps' = swaps \cup {b}
  /\ UNCHANGED <<blocks, mounts, fmt>>

Init ==
  /\ \E m \in Machines : blocks = m.blocks /\ mounts = m.mounts /\ swaps = m.swaps
  /\ fmt = [pc |-> "idle", target |-> {}, mounts |-> <<>>, swaps |-> {}, todo |-> {}, result |-> "none"]
  /\ faults = 0
Proceed == Probe \/ MountAll \/ Again \/ Umount \/ Mkfs
Next ==
  \/ \E t \in Targets : Ask(t)
  \/ Proceed \/ MountFails \/ UmountFails
  \/ \E b \in DOMAIN blocks : OtherMounts(b) \/ SwapOn(b)
Spec == Init /\ [][Next]_vars

-----------------------------------------------------------------------------
\* A disk is refused if, and only if, the root file system or an active swap lies on it or on
\* a partition of it, the root file system being a volume over several disks, perhaps.
Holds(m) == IF blocks[m.dev].vol = 0 THEN {m.dev} ELSE Devices(blocks[m.dev].vol)
Needed(d) == \E b \in {d} \cup Parts(d) :
               b \in swaps \/ \E i \in DOMAIN mounts : mounts[i].at = Root /\ b \in Holds(mounts[i])
RefusesRightly == \A d \in {b \in DOMAIN blocks : IsDisk(b)} : Unformattable(d, mounts, swaps) <=> Needed(d)

\* Nothing that is needed is unmounted or made anew; and what is not needed is, when no
\* command fails and nobody interferes: but a file system that is mounted twice stays, and
\* of a volume that lies on two places, one a partition, both are unmounted, which fails.
Twice == \E i, j \in DOMAIN fmt.mounts : i # j /\ fmt.mounts[j].dev \in Holds(fmt.mounts[i])
Shared == \E p, q \in DOMAIN blocks :
            p # q /\ ~IsDisk(p) /\ blocks[p].vol # 0 /\ blocks[p].vol = blocks[q].vol
SparesTheNeeded ==
  /\ fmt.pc = "umount" => \A x \in fmt.todo : x.at # Root
  /\ fmt.pc = "umount" /\ swaps = fmt.swaps => \A d \in fmt.target : ~Needed(d)
  /\ fmt.result = "error" /\ faults = 0 => Twice \/ Shared
==============================================================================
