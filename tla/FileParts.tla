------------------------------ MODULE FileParts ------------------------------
(***************************************************************************)
(* What fruitmix does with files below the index of directories, side by   *)
(* side: the calls on names (NameOps), the attributes of files (Xstat) and *)
(* the index of files by uuid and hash (FileIndex).  None reads what       *)
(* another one keeps, so that a behaviour is one of the three, chosen at   *)
(* the start; the variables of the others hold 0, the names nothing.  The  *)
(* calls are NameOps itself.                                               *)
(***************************************************************************)
EXTENDS NameOps, Sequences

CONSTANTS Procs, Jobs, MaxWrites, MaxFiles,                           \* of Xstat
          Files, Dirs, FileNames, MaxChanges, MaxObjects, Workers     \* of FileIndex

VARIABLES part,
          file, path, proc, lockset, uuids, writes, kept,
          disk, mem, listing, due, down, changes

Attrs == INSTANCE Xstat
Index == INSTANCE FileIndex WITH Names <- FileNames
ASSUME AttrsAssumption == MaxFiles \in Nat \ {0}
ASSUME IndexAssumption == Index!Inputs

attrVars == <<file, path, proc, lockset, uuids, writes, kept>>
indexVars == <<disk, mem, listing, due, down, changes>>
filesVars == <<part, vars, attrVars, indexVars>>

NoNames == at = [p \in Paths |-> Free] /\ alone = {} /\ call = 0 /\ working = 0 /\ faults = 0 /\ began = 0
NoAttrs == file = 0 /\ path = 0 /\ proc = 0 /\ lockset = 0 /\ uuids = 0 /\ writes = 0 /\ kept = 0
NoIndex == disk = 0 /\ mem = 0 /\ listing = 0 /\ due = 0 /\ down = 0 /\ changes = 0
FilesInit ==
  \/ part = "names" /\ Init /\ NoAttrs /\ NoIndex
  \/ part = "attrs" /\ Attrs!Init /\ NoNames /\ NoIndex
  \/ part = "index" /\ Index!Init /\ NoNames /\ NoAttrs

FilesNext ==
  \/ part = "names" /\ Next /\ UNCHANGED <<part, attrVars, indexVars>>
  \/ part = "attrs" /\ Attrs!Next /\ UNCHANGED <<part, vars, indexVars>>
  \/ part = "index" /\ Index!Next /\ Index!NoReturn /\ UNCHANGED <<part, vars, attrVars>>
\* System calls return, workers end, timers and nextTick callbacks fire.
FilesProceed ==
  \/ part = "names" /\ (\E c \in Calls : Proceed(c)) /\ UNCHANGED <<part, attrVars, indexVars>>
  \/ part = "attrs" /\ (\E p \in Procs : Attrs!Proceed(p)) /\ UNCHANGED <<part, vars, indexVars>>
  \/ part = "index" /\ Index!Proceed /\ UNCHANGED <<part, vars, attrVars>>
FilesSpec == FilesInit /\ [][FilesNext]_filesVars /\ WF_filesVars(FilesProceed)

-----------------------------------------------------------------------------
\* The types of all three, and the index of files: what forest.js finds by uuid, by hash and
\* among those waiting for a hash is what there is (IndicesAgree).
FilesInv ==
  /\ part = "names" => TypeOK
  /\ part = "attrs" => Attrs!TypeOK
  /\ part = "index" => Index!IndicesAgree
  /\ part \in {"names", "attrs", "index"}

\* A recorded hash is that of the content it is recorded for (xstat.js), and the index
\* knows a file by its own hash only (file.js, xfingerprint.js), but for files that come back
\* to their path too late (Index!NoReturn).
HashTrue ==
  /\ part = "attrs" => Attrs!HashSound
  /\ part = "index" => Index!HashIsOwn

\* A file keeps its uuid through everything that repairs and rewrites its attribute, unless the
\* one that writes it had read that of another file, which was at the path before; and it keeps
\* the tags that somebody was told are on it, but for a call that takes them away or sets others,
\* APPEND, which gives the file without them (VFS.js 612), another file put in its place, and a
\* call that had read the attribute before it changed (xstat.js).
MarksStay == [][part = "attrs" => Attrs!OneUuidStep /\ Attrs!TagsStayStep]_filesVars
=============================================================================
