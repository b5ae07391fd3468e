-------------------------------- MODULE XCopy --------------------------------
(***************************************************************************)
(* src/src/fruitmix/xcopy: one copy or move task.  The task holds a tree   *)
(* of nodes, a directory (xdir.js) or a file (xfile.js) each, every one a  *)
(* small state machine over an asynchronous file system call; a scheduler  *)
(* (xcopy.js) keeps at most FileLimit files and DirLimit directories at    *)
(* work.  A name conflict waits for the client to set a policy.            *)
(*                                                                         *)
(* Mode "copy" is copy, icopy, ecopy and ncopy; "move" is move and nmove   *)
(* inside a drive, by rename; "clean" is imove, emove and nmove between    *)
(* drives, a copy that removes its source afterwards.                      *)
(***************************************************************************)
EXTENDS Integers, FiniteSets

CONSTANTS Nodes, Files, Root, Parent,   \* the source tree
          Tasks,          \* the modes of a task and whether it is stepping
          FileLimit, DirLimit,
          Clashes,        \* what may stand in the target under each name
          Globals,        \* the task's policies at the start
          Updates,        \* the policies a client may set
          SyncFailures    \* may VFS.DIR answer an error synchronously?

Clean == "none"
Policies == [1 .. 2 -> {"none", "skip", "replace", "keep"}]

\* The source is a tree: whatever is not the root is below it.
ASSUME TreeAssumption ==
  /\ IsFiniteSet(Nodes) /\ Files \subseteq Nodes /\ Root \in Nodes \ Files
  /\ Parent \in [Nodes \ {Root} -> Nodes \ Files]
  /\ \A S \in SUBSET (Nodes \ {Root}) : S # {} => \E n \in S : Parent[n] \notin S
ASSUME TasksAssumption ==
  Tasks \subseteq [mode : {"copy", "move", "clean"}, stepping : BOOLEAN]
ASSUME LimitAssumption == FileLimit \in Nat \ {0} /\ DirLimit \in Nat \ {0}
ASSUME ClashAssumption == Clashes \subseteq [Nodes -> {Clean, "same", "diff"}]
ASSUME PolicyAssumption == /\ Updates \subseteq Policies
                           /\ Globals \subseteq [{"file", "dir"} -> Policies]

VARIABLES task,      \* one of Tasks
          st,        \* each node's state; "none" is a node not yet seen,
                     \* "waiting" one in its parent's dstats or fstats
          call,      \* the call the node waits for
          used,      \* the policy in that call's closure
          local,     \* node.policy
          global,    \* task.policies
          kept,      \* dir.kept
          src, dst,  \* nodes present in the source, placed in the target
          clash,     \* what stands in the target under each name
          scheduled, step, watching, destroyed,
          broken     \* a callback dereferenced a destroyed node

vars == <<task, st, call, used, local, global, kept, src, dst, clash, scheduled, step,
          watching, destroyed, broken>>
given == <<task, clash>>
policies == <<local, global>>
client == <<step, watching, destroyed>>

Dirs == Nodes \ Files
Kind(n) == IF n \in Files THEN "file" ELSE "dir"
Children(d) == {n \in Nodes \ {Root} : Parent[n] = d}
\* n and what is above it: in every set that holds n and the parents of its members.
Upward(S) == \A n \in S \ {Root} : Parent[n] \in S
Path(n) == {a \in Nodes : \A S \in SUBSET Nodes : n \in S /\ Upward(S) => a \in S}
Ancestors[n \in Nodes] == IF n = Root THEN {} ELSE Path(Parent[n])
Below(d) == {n \in Nodes : d \in Ancestors[n]}

Unset == [i \in 1 .. 2 |-> "none"]
Mode == task.mode
Stepping == task.stepping

\* Mutant: getPolicy without its "|| null".
MergeLoose(p, q) == [i \in 1 .. 2 |-> IF p[i] # "none" THEN p[i]
                                      ELSE IF q[i] # "none" THEN q[i] ELSE "undefined"]
Merge(p, q) == [i \in 1 .. 2 |-> IF p[i] # "none" THEN p[i] ELSE q[i]]
GetPolicy(n) == Merge(local[n], global[Kind(n)])

Live(n) == st[n] \notin {"none", "waiting", "Failed", "Finish"}
Pending(n) == st[n] \notin {"none", "Failed", "Finish"}
RunningFiles == {n \in Files : st[n] = "Working"}
RunningDirs == {n \in Dirs : st[n] \in {"Mkdir", "Preparing", "Finishing"}}
Running == IF destroyed THEN {} ELSE RunningFiles \cup RunningDirs
finished == st[Root] \in {"Failed", "Finish"}

States == {"none", "waiting", "Working", "Mkdir", "Preparing", "Parent", "Conflict",
           "Finishing", "Failed", "Finish"}
TypeOK ==
  /\ task \in Tasks
  /\ st \in [Nodes -> States]
  /\ call \in [Nodes -> {"none", "op", "batch", "delete"}]
  /\ used \in [Nodes -> Policies] /\ local \in [Nodes -> Policies]
  /\ global \in [{"file", "dir"} -> Policies]
  /\ kept \subseteq Dirs /\ src \subseteq Nodes /\ dst \subseteq Nodes
  /\ step \in {"Stopped", "Stepping"}
  /\ {scheduled, watching, destroyed, broken} \subseteq BOOLEAN

-----------------------------------------------------------------------------
\* The calls of nodes N that enter their first state: with SyncFailures a file's may
\* have failed inside the constructor, whose caller then overwrites Failed.
Started(N) == [N -> {"op"}] \cup
  (IF SyncFailures THEN {c \in [N -> {"op", "none"}] : \A n \in N \ Files : c[n] = "op"} ELSE {})

\* What mkdir, mkfile, mvdir and mvfile (vfs/underlying.js) do about a name under
\* policy p: the target is free, it is in the way, it is left alone, or merged with.
Resolve(n, p) ==
  IF clash[n] = Clean THEN "place"
  ELSE LET rule == p[IF clash[n] = "same" THEN 1 ELSE 2]
       IN  IF rule = "none" THEN "conflict"
           ELSE IF rule = "skip" THEN "skip"
           ELSE IF rule = "keep" THEN "merge" ELSE "place"

\* tryFinish: does a directory that is done still clean its source?
Cleans(d) == d # Root /\ (Mode = "clean" \/ (Mode = "move" /\ d \in kept))

\* Mutants: the listener forgets tryFinish; it forgets dstats and fstats.
ClosingNone(n, S) == {}
ClosingEager(n, S) == {a \in Ancestors[n] :
                        \A m \in Below(a) \ {n} :
                          \/ S[m] \in {"none", "waiting", "Failed", "Finish"}
                          \/ m \in Ancestors[n] /\ ~Cleans(m)}

\* The ancestors that tryFinish when node n ends: nothing below them is pending
\* but n and directories that finish along with it.
Closing(n, S) == {a \in Ancestors[n] :
                   \A m \in Below(a) \ {n} :
                     S[m] \in {"none", "Failed", "Finish"} \/ (m \in Ancestors[n] /\ ~Cleans(m))}

\* Node n ends in state s: it is destroyed and leaves the tree, and the directories
\* above it that have nothing left to do finish, in one synchronous stretch.
End(n, s, S) ==
  LET up == Closing(n, S)
  IN  /\ st' = [m \in Nodes |-> IF m = n THEN s
                                ELSE IF m \notin up THEN S[m]
                                ELSE IF Cleans(m) THEN "Finishing" ELSE "Finish"]
      /\ call' = [m \in Nodes |-> IF m \in up /\ Cleans(m) THEN "op"
                                  ELSE IF m = n THEN "none" ELSE call[m]]

TryFinish(d, S) ==
  IF Cleans(d) THEN /\ st' = [S EXCEPT ![d] = "Finishing"]
                    /\ call' = [call EXCEPT ![d] = "op"]
  ELSE End(d, "Finish", S)

\* A state was entered: reqSched.
\* Mutant: it is not.
GoesSilently == UNCHANGED <<scheduled, given, client, broken>>
Goes == scheduled' = TRUE /\ UNCHANGED <<given, client, broken>>

Init ==
  /\ task \in Tasks
  /\ clash \in Clashes
  /\ st = [n \in Nodes |-> IF n = Root /\ ~Stepping THEN "Preparing" ELSE "none"]
  /\ call = [n \in Nodes |-> IF n = Root /\ ~Stepping THEN "op" ELSE "none"]
  /\ used = [n \in Nodes |-> Unset] /\ local = [n \in Nodes |-> Unset]
  /\ global \in Globals /\ kept = {}
  /\ src = Nodes /\ dst = {Root}
  /\ scheduled = ~Stepping /\ step = "Stopped"
  /\ watching = FALSE /\ destroyed = FALSE /\ broken = FALSE

-----------------------------------------------------------------------------
\* XFile.Working: the copy or move of file n returns.
Answered(n) == call[n] = "op" /\ ~destroyed

FileFails(n) == /\ st[n] = "Working" /\ Answered(n)
                /\ End(n, "Failed", st) /\ Goes
                /\ UNCHANGED <<used, policies, kept, src, dst>>

\* Mutant: the policy is not looked at again.
FileConflictsStale(n) ==
  /\ st[n] = "Working" /\ Answered(n) /\ Resolve(n, used[n]) = "conflict"
  /\ st' = [st EXCEPT ![n] = "Conflict"] /\ call' = [call EXCEPT ![n] = "none"]
  /\ Goes
  /\ UNCHANGED <<used, policies, kept, src, dst>>

\* EEXIST: wait for the client, unless the policy has changed since the call.
FileConflicts(n) ==
  /\ st[n] = "Working" /\ Answered(n) /\ Resolve(n, used[n]) = "conflict"
  /\ IF GetPolicy(n) = used[n]
     THEN /\ st' = [st EXCEPT ![n] = "Conflict"] /\ call' = [call EXCEPT ![n] = "none"]
          /\ UNCHANGED used
     ELSE /\ used' = [used EXCEPT ![n] = GetPolicy(n)]
          /\ UNCHANGED <<st, call>>
  /\ Goes
  /\ UNCHANGED <<policies, kept, src, dst>>

\* Mutant: the source goes although the file was skipped.
FileSkipsRemoves(n) ==
  /\ st[n] = "Working" /\ Answered(n) /\ Resolve(n, used[n]) = "skip"
  /\ End(n, "Finish", st) /\ Goes /\ src' = src \ {n}
  /\ UNCHANGED <<used, policies, kept, dst>>

FileSkips(n) == /\ st[n] = "Working" /\ Answered(n) /\ Resolve(n, used[n]) = "skip"
                /\ End(n, "Finish", st) /\ Goes
                /\ UNCHANGED <<used, policies, kept, src, dst>>

FilePlaced(n) ==
  /\ st[n] = "Working" /\ Answered(n) /\ Resolve(n, used[n]) = "place"
  /\ dst' = dst \cup {n}
  /\ src' = IF Mode = "move" THEN src \ {n} ELSE src
  /\ IF Mode = "clean"
     THEN /\ call' = [call EXCEPT ![n] = "delete"]
          /\ UNCHANGED <<st, scheduled, given, client, broken>>
     ELSE End(n, "Finish", st) /\ Goes
  /\ UNCHANGED <<used, policies, kept>>

\* The source was removed, or could not be: an error is ignored.  The callback does
\* not ask whether the node was destroyed meanwhile.
FileDeleted(n) ==
  /\ call[n] = "delete"
  /\ src' \in {src, src \ {n}}
  /\ IF destroyed
     THEN /\ broken' = TRUE /\ call' = [call EXCEPT ![n] = "none"]
          /\ UNCHANGED <<st, scheduled, given, client>>
     ELSE End(n, "Finish", st) /\ Goes
  /\ UNCHANGED <<used, policies, kept, dst>>

-----------------------------------------------------------------------------
\* XDir.Preparing, READDIR: nothing, files only, or directories to make or move in
\* one batch under the global policy.
DirRead(d) ==
  /\ st[d] = "Preparing" /\ Answered(d)
  /\ LET kids == Children(d) \cap src
         wait == [n \in Nodes |-> IF n \in kids THEN "waiting" ELSE st[n]]
     IN  \/ End(d, "Failed", st) /\ Goes /\ UNCHANGED used
         \/ kids = {} /\ TryFinish(d, st) /\ Goes /\ UNCHANGED used
         \/ /\ kids # {} /\ kids \subseteq Files
            /\ st' = [wait EXCEPT ![d] = "Parent"]
            /\ call' = [call EXCEPT ![d] = "none"]
            /\ Goes /\ UNCHANGED used
         \/ /\ kids \cap Dirs # {}
            /\ call' = [call EXCEPT ![d] = "batch"]
            /\ used' = [used EXCEPT ![d] = global["dir"]]
            /\ UNCHANGED <<st, scheduled, given, client, broken>>
  /\ UNCHANGED <<policies, kept, src, dst>>

\* A directory n that was made, merged with or moved: a rename takes everything
\* below with it, and nothing is left to do there.
Moves(n, p) == Mode = "move" /\ Resolve(n, p) = "place"
Taken(D, p) == src \cap UNION {{n} \cup Below(n) : n \in {m \in D : Moves(m, p)}}
Made(D, p) == {n \in D : Resolve(n, p) \in {"place", "merge"}}

\* Each name of the batch has a result of its own; errors drop the name.
BatchDone(d) ==
  /\ st[d] = "Preparing" /\ call[d] = "batch" /\ ~destroyed
  /\ \/ End(d, "Failed", st) /\ UNCHANGED <<kept, src, dst>>
     \/ \E bad \in SUBSET (Children(d) \cap Dirs \cap src) :
          LET p == used[d]
              good == (Children(d) \cap Dirs \cap src) \ bad
              S == [n \in Nodes |->
                     IF n \in Children(d) \cap Files \cap src THEN "waiting"
                     ELSE IF n \in bad THEN "Failed"
                     ELSE IF n \notin good THEN st[n]
                     ELSE IF Resolve(n, p) = "conflict" THEN "Conflict"
                     ELSE IF Resolve(n, p) = "skip" \/ Moves(n, p) THEN "Finish"
                     ELSE "waiting"]
          IN  /\ dst' = dst \cup Made(good, p) \cup Taken(good, p)
              /\ src' = src \ Taken(good, p)
              /\ kept' = kept \cup {n \in good : Resolve(n, p) = "merge"}
              /\ IF \E n \in Children(d) : S[n] \in {"waiting", "Conflict"}
                 THEN /\ st' = [S EXCEPT ![d] = "Parent"]
                      /\ call' = [call EXCEPT ![d] = "none"]
                 ELSE TryFinish(d, S)
  /\ Goes
  /\ UNCHANGED <<used, policies>>

\* XDir.Mkdir: the single directory of a conflict, tried again.  On EEXIST it goes
\* back to Conflict, whatever the policy has become since the call.
MkdirDone(d) ==
  /\ st[d] = "Mkdir" /\ Answered(d)
  /\ LET p == used[d]
     IN  \/ End(d, "Failed", st) /\ UNCHANGED <<kept, src, dst>>
         \/ /\ Resolve(d, p) = "conflict"
            /\ st' = [st EXCEPT ![d] = "Conflict"] /\ call' = [call EXCEPT ![d] = "none"]
            /\ UNCHANGED <<kept, src, dst>>
         \/ /\ Resolve(d, p) = "skip" \/ Moves(d, p)
            /\ dst' = dst \cup Taken({d}, p) /\ src' = src \ Taken({d}, p)
            /\ IF Mode = "move" THEN TryFinish(d, st) ELSE End(d, "Finish", st)
            /\ UNCHANGED kept
         \/ /\ Resolve(d, p) \in {"place", "merge"} /\ ~Moves(d, p)
            /\ dst' = dst \cup {d}
            /\ kept' = IF Mode = "move" THEN kept \cup {d} ELSE kept
            /\ st' = [st EXCEPT ![d] = "Preparing"] /\ call' = [call EXCEPT ![d] = "op"]
            /\ UNCHANGED src
  /\ Goes
  /\ UNCHANGED <<used, policies>>

\* XDir.Finishing: rmdir takes an empty directory only.  VFS.RMDIR and NFS.RMDIR both
\* drop its error and answer success; they fail only when the directory is not found.
DirCleaned(d) ==
  /\ st[d] = "Finishing" /\ Answered(d)
  /\ \/ Children(d) \cap src = {} /\ src' = src \ {d} /\ End(d, "Finish", st)
     \/ UNCHANGED src /\ \E s \in {"Failed", "Finish"} : End(d, s, st)
  /\ Goes
  /\ UNCHANGED <<used, policies, kept, dst>>

\* A call of a destroyed task returns: nothing happens but in the file system.
Late(n) == /\ destroyed /\ call[n] \in {"op", "batch"}
           /\ call' = [call EXCEPT ![n] = "none"]
           /\ \/ UNCHANGED <<src, dst>>
              \/ /\ st[n] = "Working" /\ Resolve(n, used[n]) = "place"
                 /\ dst' = dst \cup {n}
                 /\ src' = IF Mode = "move" THEN src \ {n} ELSE src
           /\ UNCHANGED <<st, used, policies, kept, given, scheduled, client, broken>>

-----------------------------------------------------------------------------
Least(a, b) == IF a < b THEN a ELSE b
RoomAlways(limit, running) == limit
Room(limit, running) == IF running < limit THEN limit - running ELSE 0

\* sched(): start waiting files and directories up to the limits.  Retried nodes
\* count as running but are not held back by the limit.
Start(F, D) ==
  LET files == {n \in Files : st[n] = "waiting"}
      dirs == {n \in Dirs : st[n] = "waiting"}
  IN  /\ F \subseteq files /\ D \subseteq dirs
      /\ Cardinality(F) = Least(Cardinality(files), Room(FileLimit, Cardinality(RunningFiles)))
      /\ Cardinality(D) = Least(Cardinality(dirs), Room(DirLimit, Cardinality(RunningDirs)))
      /\ st' = [n \in Nodes |-> IF n \in F THEN "Working"
                                ELSE IF n \in D THEN "Preparing" ELSE st[n]]
      /\ \E o \in Started(F \cup D) :
           call' = [n \in Nodes |-> IF n \in F \cup D THEN o[n] ELSE call[n]]
      /\ used' = [n \in Nodes |-> IF n \in F THEN GetPolicy(n) ELSE used[n]]

\* Is nothing running once the step is taken?
Settled == Running' = {}

\* The nextTick callback of reqSched, in either mode.
Sched ==
  /\ scheduled
  /\ IF Stepping
     THEN /\ scheduled' = FALSE
          /\ step' = IF Running = {} THEN "Stopped" ELSE step
          /\ UNCHANGED <<st, call, used>>
     ELSE /\ IF finished \/ destroyed THEN UNCHANGED <<st, call, used, scheduled>>
             ELSE \E F \in SUBSET Files, D \in SUBSET Dirs :
                    Start(F, D) /\ scheduled' = (F \cup D # {})
          /\ UNCHANGED step
  /\ UNCHANGED <<policies, kept, src, dst, given, destroyed, broken>>
  /\ watching' = IF Settled THEN FALSE ELSE watching

\* step(): the client lets a stopped task go on.
Step ==
  /\ Stepping /\ ~finished /\ ~destroyed /\ step = "Stopped"
  /\ step' = "Stepping"
  /\ UNCHANGED <<policies, kept, src, dst, given, destroyed, broken>>
  /\ IF st[Root] = "none"
     THEN /\ st' = [st EXCEPT ![Root] = "Preparing"]
          /\ call' = [call EXCEPT ![Root] = "op"]
          /\ scheduled' = TRUE
          /\ UNCHANGED <<used, watching>>
     ELSE /\ \E F \in SUBSET Files, D \in SUBSET Dirs :
               Start(F, D) /\ scheduled' = (F \cup D # {})
          /\ watching' = IF Settled THEN FALSE ELSE watching

\* watch(): answered at once when nothing runs, otherwise kept.
Watch == /\ ~watching /\ ~destroyed /\ Running # {}
         /\ watching' = TRUE
         /\ UNCHANGED <<st, call, used, policies, kept, src, dst, given, scheduled, step,
                        destroyed, broken>>

\* Updating a node sets a stopped task going; mutant: it does not.
NoKick == step
Kick == IF Stepping THEN "Stepping" ELSE step

\* updateNode(): the policy of a node in conflict, and with applyToAll the global
\* one; every conflict it may resolve is tried again.
Update(n, p, all) ==
  /\ ~destroyed /\ st[n] = "Conflict"
  /\ p[2] # "keep" /\ (p[1] = "keep" => n \in Dirs)
  /\ local' = [local EXCEPT ![n] = Merge(p, local[n])]
  /\ global' = IF all THEN [global EXCEPT ![Kind(n)] = Merge(p, @)] ELSE global
  /\ LET again == {m \in Nodes : /\ st[m] = "Conflict"
                                 /\ m = n \/ (all /\ Kind(m) = Kind(n))}
     IN  /\ st' = [m \in Nodes |-> IF m \notin again THEN st[m]
                                   ELSE IF m \in Files THEN "Working" ELSE "Mkdir"]
         /\ call' = [m \in Nodes |-> IF m \in again THEN "op" ELSE call[m]]
         /\ used' = [m \in Nodes |-> IF m \notin again THEN used[m]
                                     ELSE Merge(local'[m], (IF m = n THEN global ELSE global')[Kind(m)])]
  /\ step' = Kick
  /\ scheduled' = TRUE
  /\ UNCHANGED <<kept, src, dst, given, watching, destroyed, broken>>

\* The client deletes the task: every node is destroyed, calls go on.
Destroy == /\ ~destroyed /\ ~finished
           /\ destroyed' = TRUE
           /\ UNCHANGED <<st, call, used, policies, kept, src, dst, given, scheduled,
                          step, watching, broken>>

Return(n) == \/ FileFails(n) \/ FileConflicts(n) \/ FileSkips(n) \/ FilePlaced(n)
             \/ FileDeleted(n)
             \/ DirRead(n) \/ BatchDone(n) \/ MkdirDone(n) \/ DirCleaned(n)
             \/ Late(n)

Next == \/ \E n \in Nodes : Return(n)
        \/ Sched \/ Step \/ Watch \/ Destroy
        \/ \E n \in Nodes, p \in Updates, all \in BOOLEAN : Update(n, p, all)

Spec == Init /\ [][Next]_vars

-----------------------------------------------------------------------------
\* "ERROR: reqSched called @ Stopped state in stepping mode" (xcopy.js 214) is never
\* printed.
NoTickWhenStopped == Stepping /\ scheduled /\ ~destroyed => step = "Stepping"

\* The tree has the shape that count() and the listeners of xdir.js rely on: a node
\* is pending only below a directory in Parent, a directory in Parent waits for
\* somebody, and the root is in one of the four states of xcopy.js 86.
TreeShape ==
  /\ \A n \in Nodes \ {Root} : Pending(n) => st[Parent[n]] = "Parent"
  /\ \A d \in Dirs : st[d] = "Parent" => \E n \in Children(d) : Pending(n)
  /\ st[Root] \in {"none", "Preparing", "Parent", "Failed", "Finish"}

\* What the scheduler starts from: types, the shape of the tree, and ticks.
TreeInv == TypeOK /\ TreeShape /\ NoTickWhenStopped

\* A copy, a move, a skip, a failure or a deleted task never leaves a file in neither
\* place.
NothingLost == Files \subseteq src \cup dst

\* A task that finished has treated every entry: it is in the target, or it or a
\* directory above it failed or met something that a policy said to skip.
FinishedIsComplete ==
  st[Root] = "Finish" => \A n \in Nodes : \/ n \in dst
                                          \/ \E a \in Ancestors[n] \cup {n} :
                                               st[a] = "Failed" \/ (clash[a] # Clean /\ a \notin dst)

\* A file waits in Conflict only while its policy and the task's leave the conflict
\* open - however the client's updates and the answers of the calls interleave.  (Of
\* directories this is not so: a batch leaves them in conflict under the policy it was
\* called with, xdir.js 359.)
FileConflictIsOpen ==
  \A n \in Files : st[n] = "Conflict" => Resolve(n, GetPolicy(n)) = "conflict"

\* The scheduler never takes the task over its limits: only retries do.
LimitsKept ==
  [][/\ Cardinality(RunningFiles') > FileLimit =>
          \A n \in RunningFiles' \ RunningFiles : st[n] = "Conflict"
     /\ Cardinality(RunningDirs') > DirLimit =>
          \A n \in RunningDirs' \ RunningDirs : st[n] \in {"Conflict", "Parent"}]_vars
==============================================================================
