------------------------------- MODULE NativeFs -------------------------------
(***************************************************************************)
(* src/src/fruitmix/NFS.js and nfs/PartStream.js: the drives that are not  *)
(* the volume, used by path: calls that make, copy, move and remove names, *)
(* and forms whose parts are taken one after the other.                    *)
(*                                                                         *)
(* One directory with the names 1, 2, ..., of which calls want the first;  *)
(* Sources are paths elsewhere.  Unlike NameOps a file comes to its name   *)
(* empty and is written there, Units times; a stream goes on in the file   *)
(* it has opened, wherever that is.  What system calls fail or a client    *)
(* breaks off is counted in faults.                                        *)
(***************************************************************************)
EXTENDS Integers, Sequences, FiniteSets, FiniteSetsExt

CONSTANTS Calls, Ops, Names, Sources, Begins, Units, MaxFaults

VARIABLES drives,    \* the drive is among those that storage told of
          at,        \* what each path names
          size,      \* how much each call's stream, or that of a form's part, has written
          wrote,     \* the file it was opened on
          lost,      \* those of which something is emptied or written over
          raced,     \* history: those whose file a form opened later, or still wrote
          call,
          down,      \* an exception in a callback has ended the process
          faults,
          alone,     \* history, as in NameOps
          began

vars == <<drives, at, size, wrote, lost, raced, call, down, faults, alone, began>>

Free == [kind |-> "none", obj |-> <<0, 0>>]
Paths == Names \cup Sources
Parts == 0 .. 3
Streams == Calls \X Parts
NoCall == [pc |-> "idle", op |-> [api |-> "none"], kind |-> "none", name |-> 1, part |-> 0,
           cleared |-> FALSE, left |-> {}, found |-> {}, answer |-> "none"]
FormSteps == {"prelude", "part", "flstat", "fopen", "fdata", "dlstat", "mkdirp", "rimraf"}
Steps == {"target", "stat", "make", "made", "look", "clear", "list", "stream", "peek", "mv", "remove", "readdir", "lstats"}
           \cup FormSteps

TypeOK ==
  /\ \A p \in Paths : at[p] = Free \/ at[p].kind \in {"file", "dir"}
  /\ \A v \in Streams : size[v] \in 0 .. Units /\ (wrote[v] = <<>> => size[v] = 0)
  /\ lost \cup raced \subseteq Streams
  /\ \A c \in Calls :
       /\ call[c].pc \in Steps \cup {"idle", "done"} /\ call[c].name \in Names
       /\ call[c].answer \in {"none", "placed", "skipped", "error"}
       /\ (call[c].pc = "idle" => call[c].answer = "none") /\ (call[c].pc = "done" => call[c].answer # "none")
       /\ call[c].pc \in Steps \ (FormSteps \cup {"target"}) => call[c].answer = "none"
  /\ {drives, down} \subseteq BOOLEAN /\ faults \in 0 .. MaxFaults

-----------------------------------------------------------------------------
Active == {c \in Calls : call[c].pc \in Steps}
Goes(c, new) ==
  /\ ~down
  /\ call' = [call EXCEPT ![c] = new]
  /\ alone' = IF new.pc = "done" THEN {} ELSE alone \cap {c}
  /\ began' = IF new.pc = "done" THEN [began EXCEPT ![c] = <<>>] ELSE began
To(c, pc) == [call[c] EXCEPT !.pc = pc]
Done(c, answer) == [NoCall EXCEPT !.pc = "done", !.op = call[c].op, !.answer = answer,
                                  !.part = call[c].part, !.found = call[c].found]
Ends(c, answer) == Goes(c, Done(c, answer))
Files == <<size, wrote, lost, raced>>
Disk == <<at, Files>>
Rest == <<drives, down, faults>>

\* resolvePath(): of a drive that is there now.
Starts(c, o, pc, kind) ==
  /\ call[c].pc = "idle" /\ ~down
  /\ call' = [call EXCEPT ![c] =
       IF drives THEN [NoCall EXCEPT !.pc = pc, !.op = o, !.kind = kind]
       ELSE [NoCall EXCEPT !.pc = "done", !.op = o, !.answer = "error"]]
  /\ alone' = IF Active = {} /\ drives THEN {c} ELSE {}
  /\ began' = [began EXCEPT ![c] = IF drives THEN at ELSE <<>>]
  /\ UNCHANGED <<Rest, Disk>>
\* Each of several names is made or moved as if it were a call of its own.
MKDIRS(c, o) == o.api = "MKDIR" /\ Starts(c, o, "make", "dir")
MVDIRS(c, o) == o.api = "MVDIR" /\ Starts(c, o, "peek", "dir")
NEWFILE(c, o) == o.api = "NEWFILE" /\ Starts(c, o, "make", "file")
CPFILE(c, o) == o.api = "CPFILE" /\ Starts(c, o, "make", "file")
MVFILE(c, o) == o.api = "MVFILE" /\ Starts(c, o, "peek", "file")
DELETE(c, o) == o.api = "DELETE" /\ Starts(c, o, "remove", "none")
GET(c, o) == o.api = "GET" /\ Starts(c, o, "target", "none")
\* A form without a path has it in its first part, the prelude.
POSTFORM(c, o) == o.api = "POSTFORM" /\ Starts(c, o, IF o.path THEN "target" ELSE "part", "none")
PATCH(c, o) ==
  /\ o.api = "PATCH"
  /\ IF {o.same, o.diff} \subseteq {"none", "skip", "replace", "rename"} THEN Starts(c, o, "stat", "none")
     ELSE /\ call[c].pc = "idle" /\ ~down
          /\ call' = [call EXCEPT ![c] = [NoCall EXCEPT !.pc = "done", !.op = o, !.answer = "error"]]
          /\ UNCHANGED <<Rest, Disk, alone, began>>
Ask(c, o) ==
  \/ MKDIRS(c, o) \/ MVDIRS(c, o) \/ NEWFILE(c, o) \/ CPFILE(c, o) \/ MVFILE(c, o) \/ DELETE(c, o)
  \/ GET(c, o) \/ POSTFORM(c, o) \/ PATCH(c, o)
\* update(): storage tells of other drives; calls go on with the path they have.
Update == drives' = ~drives /\ UNCHANGED <<Disk, call, down, faults, alone, began>>

Listing == {n \in Names : at[n] # Free}
AutoName(n, files) == IF n \notin files THEN n ELSE Max(files) + 1
Here(c) == <<c, call[c].part>>
Make(p, kind, x) == at' = [at EXCEPT ![p] = [kind |-> kind, obj |-> x]]
Opens(c, x) == wrote' = [wrote EXCEPT ![Here(c)] = x] /\ size' = [size EXCEPT ![Here(c)] = 0]

\* mkdir() and openwx(): the system call, and again after what the policy did.
Create(c) ==
  /\ call[c].pc = "make"
  /\ IF at[call[c].name] = Free
     THEN /\ Make(call[c].name, call[c].kind, Here(c))
          /\ IF call[c].kind = "dir" THEN Goes(c, To(c, "made")) /\ UNCHANGED <<size, wrote>>
             ELSE Goes(c, To(c, "stream")) /\ Opens(c, Here(c))
          /\ UNCHANGED <<lost, raced>>
     ELSE Goes(c, To(c, "look")) /\ UNCHANGED Disk
  /\ UNCHANGED Rest
\* A directory is looked for when it is made.
Made(c) ==
  /\ call[c].pc = "made"
  /\ IF at[call[c].name] = Free THEN Ends(c, "error") ELSE Ends(c, "placed")
  /\ UNCHANGED <<Rest, Disk>>
\* PATCH: what is moved says how.
Stat(c) ==
  /\ call[c].pc = "stat"
  /\ IF at[call[c].op.from] = Free THEN Ends(c, "error")
     ELSE Goes(c, [To(c, "peek") EXCEPT !.kind = at[call[c].op.from].kind])
  /\ UNCHANGED <<Rest, Disk>>
\* mvfile() and mvdir(): a look, what the policy does, and the rename, once.
Peek(c) ==
  /\ call[c].pc = "peek"
  /\ IF at[call[c].name] = Free THEN Goes(c, To(c, "mv")) ELSE Goes(c, To(c, "look"))
  /\ UNCHANGED <<Rest, Disk>>

\* Mutant: the policies are swapped.
PolicySwapped(op, kind, e) == IF e.kind = kind THEN op.diff ELSE op.same
Policy(op, kind, e) == IF e.kind = kind THEN op.same ELSE op.diff
Look(c) ==
  /\ call[c].pc = "look"
  /\ LET e == at[call[c].name]  policy == Policy(call[c].op, call[c].kind, e)
     IN  CASE e = Free \/ policy = "none" -> Ends(c, "error")
           [] e # Free /\ policy = "skip" -> Ends(c, "skipped")
           [] e # Free /\ policy = "replace" -> Goes(c, To(c, "clear"))
           [] e # Free /\ policy = "rename" -> Goes(c, To(c, "list"))
  /\ UNCHANGED <<Rest, Disk>>
Moves(c) == call[c].op.api \in {"MVFILE", "MVDIR", "PATCH"}
After(c) == IF Moves(c) THEN "mv" ELSE "make"
Clear(c) ==
  /\ call[c].pc = "clear"
  /\ at' = [at EXCEPT ![call[c].name] = Free]
  /\ Goes(c, [To(c, After(c)) EXCEPT !.cleared = TRUE])
  /\ UNCHANGED <<Rest, Files>>
List(c) ==
  /\ call[c].pc = "list"
  /\ Goes(c, [To(c, After(c)) EXCEPT !.name = AutoName(@, Listing)])
  /\ UNCHANGED <<Rest, Disk>>

\* rename(2) takes the place of a file, or of a directory without entries, which is one
\* that a call has made.  The error path of a replaced file is misspelled (calblack).
Yields(old, new) ==
  old = Free \/ (IF new.kind = "dir" THEN old.kind = "dir" /\ old.obj[1] \in Calls ELSE old.kind # "dir")
RenameFails(c) ==
  IF call[c].cleared /\ call[c].kind = "file"
  THEN down' = TRUE /\ UNCHANGED <<call, alone, began>>
  ELSE Ends(c, "error") /\ UNCHANGED down
Mv(c) ==
  /\ call[c].pc = "mv" /\ ~down
  /\ LET p == call[c].op.from  q == call[c].name
     IN  IF at[p] # Free /\ Yields(at[q], at[p])
         THEN at' = [at EXCEPT ![q] = at[p], ![p] = Free] /\ Ends(c, "placed") /\ UNCHANGED down
         ELSE RenameFails(c) /\ UNCHANGED at
  /\ UNCHANGED <<drives, faults, Files>>

\* A stream writes where it is, over what another on the same file has written there.
Others(v, x) == {u \in Streams \ {v} : wrote[u] = x}
Writes(v) ==
  /\ size' = [size EXCEPT ![v] = @ + 1]
  /\ lost' = lost \cup {u \in Others(v, wrote[v]) : size[u] > size[v]}
  /\ UNCHANGED <<wrote, raced>>
\* The stream from the clone, or of the caller of CPFILE.
Stream(c) ==
  /\ call[c].pc = "stream"
  /\ Writes(Here(c))
  /\ IF size[Here(c)] + 1 = Units THEN Ends(c, "placed") ELSE Goes(c, call[c])
  /\ UNCHANGED <<Rest, at>>
\* Nobody listens to the streams of NEWFILE; the caller of CPFILE does (xfile.js).
StreamFails(c) ==
  /\ call[c].pc = "stream" /\ faults < MaxFaults /\ faults' = faults + 1 /\ ~down
  /\ IF call[c].op.api = "NEWFILE" THEN down' = TRUE /\ UNCHANGED <<call, alone, began>>
     ELSE Ends(c, "error") /\ UNCHANGED down
  /\ UNCHANGED <<drives, Disk>>

Delete(c) ==
  /\ call[c].pc = "remove"
  /\ at' = [at EXCEPT ![call[c].op.from] = Free] /\ Ends(c, "placed")
  /\ UNCHANGED <<Rest, Files>>
\* GET of a file answers its path; of another directory than this the entries are left out.
GetTarget(c) ==
  /\ call[c].pc = "target" /\ call[c].op.api = "GET"
  /\ CASE call[c].op.from \notin Paths -> Goes(c, To(c, "readdir"))
       [] call[c].op.from \in Paths /\ at[call[c].op.from] = Free -> Ends(c, "error")
       [] OTHER -> Ends(c, "placed")
  /\ UNCHANGED <<Rest, Disk>>
\* The names, then lstat() of each; those that fail are left out.
ReadDir(c) ==
  /\ call[c].pc = "readdir"
  /\ IF Listing = {} THEN Ends(c, "placed") ELSE Goes(c, [To(c, "lstats") EXCEPT !.left = Listing])
  /\ UNCHANGED <<Rest, Disk>>
Lstats(c, n) ==
  /\ call[c].pc = "lstats" /\ n \in call[c].left
  /\ LET found == IF at[n] = Free THEN call[c].found ELSE call[c].found \cup {n}
     IN  IF call[c].left = {n} THEN Goes(c, [Done(c, "placed") EXCEPT !.found = found])
         ELSE Goes(c, [call[c] EXCEPT !.left = @ \ {n}, !.found = found])
  /\ UNCHANGED <<Rest, Disk>>

-----------------------------------------------------------------------------
\* The directory of a form is there; what its path may name else is a fault.
FormTarget(c) ==
  /\ call[c].pc = "target" /\ call[c].op.api = "POSTFORM"
  /\ Goes(c, To(c, "part")) /\ UNCHANGED <<Rest, Disk>>
\* PartStream: the Writable gives _write() one part after the other, until one fails.  The
\* prelude is the first or none.
Part(c, i) == call[c].op.parts[i]
Expected(c, i) == Part(c, i).do = "prelude" <=> i = 1 /\ ~call[c].op.path
PartStep(do) ==
  CASE do = "prelude" -> "prelude"
    [] do = "file" -> "flstat"
    [] do = "directory" -> "dlstat"
    [] do = "remove" -> "rimraf"
Next1(c) ==
  IF call[c].part = Len(call[c].op.parts) THEN Done(c, "placed")
  ELSE LET i == call[c].part + 1
       IN  IF Expected(c, i) THEN [call[c] EXCEPT !.part = i, !.name = Part(c, i).name, !.pc = PartStep(Part(c, i).do)]
           ELSE Done(c, "error")
Broken(c) == call[c].answer = "error"
\* Mutant: the parts behind one that failed are taken.
FormGoesOn(c) == Goes(c, IF call[c].part = Len(call[c].op.parts) THEN Done(c, "error") ELSE To(c, "part"))
FormError(c) == Ends(c, "error")
Write(c) ==
  /\ call[c].pc = "part" /\ (Broken(c) => call[c].part < Len(call[c].op.parts))
  /\ Goes(c, Next1(c)) /\ UNCHANGED <<Rest, Disk>>
\* The path of a prelude is resolved now; one that is no JSON is an error.
Prelude(c) ==
  /\ call[c].pc = "prelude"
  /\ FormError(c) \/ (drives /\ Goes(c, To(c, "target")))
  /\ UNCHANGED <<Rest, Disk>>
\* A file: nothing is there, then it is opened, and emptied if it came in between, also when
\* somebody is writing it or was told that it is done.
Writing(v) == call[v[1]].pc \in {"stream", "fdata"} /\ v = Here(v[1])
FileLstat(c) ==
  /\ call[c].pc = "flstat"
  /\ IF at[call[c].name] = Free THEN Goes(c, To(c, "fopen")) ELSE FormError(c)
  /\ UNCHANGED <<Rest, Disk>>
FileOpen(c) ==
  /\ call[c].pc = "fopen"
  /\ LET e == at[call[c].name]
         others == Others(Here(c), e.obj)
     IN  \/ e.kind = "dir" /\ FormError(c) /\ UNCHANGED Disk
         \/ /\ e.kind = "none" /\ Make(call[c].name, "file", Here(c)) /\ Opens(c, Here(c))
            /\ Goes(c, To(c, "fdata")) /\ UNCHANGED <<lost, raced>>
         \/ /\ e.kind = "file" /\ Opens(c, e.obj) /\ Goes(c, To(c, "fdata"))
            /\ lost' = lost \cup {v \in others : size[v] > 0}
            /\ raced' = raced \cup others \cup {v \in {Here(c)} : \E u \in others : Writing(u)}
            /\ UNCHANGED at
  /\ UNCHANGED Rest
FileData(c) ==
  /\ call[c].pc = "fdata"
  /\ Writes(Here(c))
  /\ Goes(c, IF size[Here(c)] + 1 = Units THEN To(c, "part") ELSE call[c])
  /\ UNCHANGED <<Rest, at>>
DirLstat(c) ==
  /\ call[c].pc = "dlstat"
  /\ CASE at[call[c].name] = Free -> Goes(c, To(c, "mkdirp"))
       [] at[call[c].name].kind = "dir" -> Goes(c, To(c, "part"))
       [] at[call[c].name].kind = "file" -> FormError(c)
  /\ UNCHANGED <<Rest, Disk>>
Mkdirp(c) ==
  /\ call[c].pc = "mkdirp"
  /\ CASE at[call[c].name] = Free -> Make(call[c].name, "dir", Here(c)) /\ Goes(c, To(c, "part"))
       [] at[call[c].name].kind = "dir" -> Goes(c, To(c, "part")) /\ UNCHANGED at
       [] at[call[c].name].kind = "file" -> FormError(c) /\ UNCHANGED at
  /\ UNCHANGED <<Rest, Files>>
Rimraf(c) ==
  /\ call[c].pc = "rimraf"
  /\ at' = [at EXCEPT ![call[c].name] = Free] /\ Goes(c, To(c, "part"))
  /\ UNCHANGED <<Rest, Files>>

\* The request breaks off: the form is answered, but the part that is under way is not
\* stopped, and when it is done the stream takes the next if that had come.  The lstat()
\* before there is a stream does not hear of it.
BreaksOff(c) ==
  /\ faults < MaxFaults /\ faults' = faults + 1 /\ ~Broken(c)
  /\ call[c].pc \in FormSteps \/ (call[c].pc = "target" /\ call[c].op.api = "POSTFORM" /\ ~call[c].op.path)
  /\ IF call[c].pc = "part" THEN Ends(c, "error") ELSE Goes(c, [call[c] EXCEPT !.answer = "error"])
  /\ UNCHANGED <<drives, down, Disk>>
\* No more of it had come.
Stops(c) == call[c].pc \in {"part", "fdata"} /\ Broken(c) /\ Ends(c, "error") /\ UNCHANGED <<Rest, Disk>>

\* A system call fails.
Fault(c) ==
  /\ call[c].pc \in Steps \ {"stream", "part", "lstats", "mv"} /\ faults < MaxFaults
  /\ faults' = faults + 1
  /\ Ends(c, "error") /\ UNCHANGED <<drives, down, Disk>>
MvFault(c) ==
  /\ call[c].pc = "mv" /\ faults < MaxFaults /\ faults' = faults + 1
  /\ ~down /\ RenameFails(c) /\ UNCHANGED <<drives, Disk>>

Init ==
  /\ drives = TRUE /\ at \in Begins
  /\ size = [v \in Streams |-> 0] /\ wrote = [v \in Streams |-> <<>>] /\ lost = {} /\ raced = {}
  /\ call = [c \in Calls |-> NoCall] /\ down = FALSE /\ faults = 0
  /\ alone = {} /\ began = [c \in Calls |-> <<>>]

Proceed(c) ==
  \/ GetTarget(c) \/ FormTarget(c) \/ Stat(c) \/ Create(c) \/ Made(c) \/ Peek(c) \/ Look(c) \/ Clear(c) \/ List(c) \/ Mv(c) \/ Stream(c) \/ Delete(c)
  \/ ReadDir(c) \/ (\E n \in Names : Lstats(c, n))
  \/ Write(c) \/ Prelude(c) \/ FileLstat(c) \/ FileOpen(c) \/ FileData(c) \/ DirLstat(c) \/ Mkdirp(c) \/ Rimraf(c)
  \/ Stops(c)
Next ==
  \/ Update
  \/ \E c \in Calls : (\E o \in Ops : Ask(c, o)) \/ Proceed(c)
                      \/ StreamFails(c) \/ BreaksOff(c) \/ Fault(c) \/ MvFault(c)
Spec == Init /\ [][Next]_vars

-----------------------------------------------------------------------------
\* What the policies promise of a call, as one step, its source being there.
Told(op, kind, e) == IF e.kind = kind THEN op.same ELSE op.diff
Promise(c, A) ==
  LET op == call[c].op
      kind == call[c].kind
      moves == Moves(c)
      new == IF moves THEN A[op.from] ELSE [kind |-> kind, obj |-> <<c, 0>>]
      left == IF moves THEN [A EXCEPT ![op.from] = Free] ELSE A
      next == AutoName(1, {n \in Names : A[n] # Free})
      policy == Told(op, kind, A[1])
  IN  CASE A[1] = Free -> [at |-> [left EXCEPT ![1] = new], answer |-> "placed"]
        [] A[1] # Free /\ policy \in {"none", "other"} -> [at |-> A, answer |-> "error"]
        [] A[1] # Free /\ policy = "skip" -> [at |-> A, answer |-> "skipped"]
        [] A[1] # Free /\ policy = "replace" -> [at |-> [left EXCEPT ![1] = new], answer |-> "placed"]
        [] A[1] # Free /\ policy = "rename" -> [at |-> [left EXCEPT ![next] = new], answer |-> "placed"]
\* A call that nothing disturbs does what its policy says, "as the policies of vfs do".
AsTold ==
  \A c \in alone :
    LET op == call[c].op
    IN  /\ call'[c].pc = "done" /\ faults' = 0 /\ op.api \notin {"DELETE", "GET", "POSTFORM"}
        /\ (Moves(c) => began[c][op.from].kind = call[c].kind /\ call[c].kind # "none")
        => [at |-> at', answer |-> call'[c].answer] = Promise(c, began[c])

\* Who was told that it is done has written all of a file: of a form every part, and no part
\* of a form is taken when one before it was not.  It is still there, but where a form that
\* had found nothing at the name opened the same file later, or was still writing it.
FileParts(c) == {i \in 1 .. Len(call[c].op.parts) : call[c].op.parts[i].do = "file"}
Whole(v) == size[v] = Units /\ v \notin lost \ raced
DoneIsWhole ==
  \A c \in Calls :
    /\ call[c].op.api \in {"NEWFILE", "CPFILE"} /\ call[c].answer = "placed" => Whole(<<c, 0>>)
    /\ call[c].op.api = "POSTFORM" =>
         \A i \in FileParts(c) :
           i < call[c].part \/ (call[c].answer = "placed" /\ i <= call[c].part) => Whole(<<c, i>>)

\* What the theorems take of the constants: names enough for each call to get one of its own,
\* and what the client may ask for.
Policies == {"none", "skip", "replace", "rename"}
PartRecs == [do : {"prelude", "file", "directory", "remove"}, name : 1 .. Cardinality(Names) - Cardinality(Calls)]
Inputs ==
  /\ IsFiniteSet(Calls) /\ IsFiniteSet(Names) /\ Names = 1 .. Cardinality(Names)
  /\ Cardinality(Calls) < Cardinality(Names) /\ Names \cap Sources = {}
  /\ Units \in Nat \ {0} /\ MaxFaults \in Nat
  /\ \A B \in Begins :
       /\ B = [p \in Paths |-> B[p]]
       /\ \A p \in Paths : B[p] = Free \/ (B[p].kind \in {"file", "dir"} /\ B[p].obj \notin Streams \cup {<<>>})
       /\ \A n \in Names : B[n] # Free => n <= Cardinality(Names) - Cardinality(Calls)
  /\ \A o \in Ops :
       /\ o.api \in {"MKDIR", "MVDIR", "NEWFILE", "CPFILE", "MVFILE", "DELETE", "GET", "POSTFORM", "PATCH"}
       /\ o.api # "PATCH" => {o.same, o.diff} \subseteq Policies
       /\ o.api \in {"MVFILE", "MVDIR", "PATCH"} => o.from \in Sources
       /\ o.api = "DELETE" => o.from \in Paths
       /\ o.path \in BOOLEAN /\ o.parts \in Seq(PartRecs) /\ Len(o.parts) <= 3
=============================================================================
