------------------------------- MODULE NameOps -------------------------------
(***************************************************************************)
(* src/src/fruitmix/vfs/underlying.js and the calls of VFS.js that put,    *)
(* move, copy or remove a name: link() and rename() with their policies,   *)
(* one action per system call, for several calls on one directory.         *)
(*                                                                         *)
(* The calls want the name 1 of a directory, whose other names, 2, 3, ..., *)
(* are those autoname() makes of it; Sources are paths elsewhere.  An      *)
(* object is what a path names.  Reading the index after a change is in    *)
(* Forest, attributes in Xstat.                                            *)
(***************************************************************************)
EXTENDS Integers, FiniteSets, FiniteSetsExt

CONSTANTS Calls,        \* calls of the API
          Ops,          \* what they may ask: [api, from, same, diff]
          Names,        \* 1 .. n
          Sources,
          Begins,       \* what may be on the disk at first
          MaxFaults

Free == [kind |-> "none", obj |-> 0]
Paths == Names \cup Sources
VARIABLES at,        \* what each path names
          call,      \* the calls
          working,   \* the flag of rename()
          faults,
          alone,     \* history: calls under way that no other call disturbed,
          began      \* and what was on the disk when they began

vars == <<at, call, working, faults, alone, began>>

Kinds == {"file", "dir", "special"}
NoCall == [pc |-> "idle", op |-> [api |-> "none"], name |-> 1, kind |-> "none", seen |-> Free,
           resolved |-> "none", locked |-> FALSE, answer |-> "none"]

Steps == {"act", "peek", "mv", "look", "list", "wait", "clear", "stat", "type", "remove",
          "read", "clone", "check"}
TypeOK ==
  /\ \A p \in Paths : at[p].kind \in Kinds \cup {"none"} /\ (at[p] = Free <=> at[p].kind = "none")
  /\ \A c \in Calls :
       /\ call[c].pc \in Steps \cup {"idle", "done"} /\ call[c].name \in Names
       /\ call[c].answer # "none" <=> call[c].pc = "done"
       /\ call[c].answer \in {"none", "placed", "skipped", "error"}
  /\ working \in BOOLEAN
  /\ faults \in 0 .. MaxFaults
  /\ \A c \in alone : call[c].pc \in Steps

-----------------------------------------------------------------------------
Active == {c \in Calls : call[c].pc \in Steps}
\* A step of c: it disturbs whatever else is under way.
Goes(c, new) ==
  /\ call' = [call EXCEPT ![c] = new]
  /\ alone' = IF new.pc = "done" THEN {} ELSE alone \cap {c}
  /\ began' = IF new.pc = "done" THEN [began EXCEPT ![c] = <<>>] ELSE began
To(c, pc) == [call[c] EXCEPT !.pc = pc]
Done(c, answer) ==
  [NoCall EXCEPT !.pc = "done", !.op = call[c].op, !.name = call[c].name, !.answer = answer,
                 !.resolved = call[c].resolved, !.locked = call[c].locked]
\* rename() clears its flag on the way back, except from an error.
\* Mutant: whoever found a free name keeps it.
EndsHolds(c, answer) == UNCHANGED working /\ Goes(c, Done(c, answer))
Ends(c, answer) ==
  /\ working' = (working /\ ~(call[c].locked /\ answer # "error"))
  /\ Goes(c, Done(c, answer))

Mkfiles == {"NEWFILE", "CPFILE"}
Renames == {"RENAME", "MVFILE", "MVDIRS"}

\* autoname(): the next number after those in the listing.
Listing == {n \in Names : at[n] # Free}
AutoName(n, files) == IF n \notin files THEN n ELSE Max(files) + 1

Begin(c, o, pc, kind) ==
  /\ call[c].pc = "idle"
  /\ call' = [call EXCEPT ![c] = [NoCall EXCEPT !.pc = pc, !.op = o, !.kind = kind]]
  /\ alone' = IF Active = {} THEN {c} ELSE {}
  /\ began' = [began EXCEPT ![c] = at]
  /\ UNCHANGED <<at, working, faults>>

NEWFILE(c, o) == o.api = "NEWFILE" /\ Begin(c, o, "act", "file")
MKDIR(c, o) == o.api = "MKDIR" /\ Begin(c, o, "act", "dir")
CPFILE(c, o) == o.api = "CPFILE" /\ Begin(c, o, "read", "file")
RENAME(c, o) == o.api = "RENAME" /\ Begin(c, o, "type", "none")
MVFILE(c, o) == o.api = "MVFILE" /\ Begin(c, o, "peek", "file")
MVDIRS(c, o) == o.api = "MVDIRS" /\ Begin(c, o, "peek", "dir")
REMOVE(c, o) == o.api = "REMOVE" /\ Begin(c, o, "remove", "none")

\* RENAME reads what it is to move.
TypeRead(c) ==
  /\ call[c].pc = "type"
  /\ IF at[call[c].op.from].kind \in {"none", "special"} THEN Ends(c, "error")
     ELSE /\ Goes(c, [To(c, "peek") EXCEPT !.kind = at[call[c].op.from].kind])
          /\ UNCHANGED working
  /\ UNCHANGED <<at, faults>>
Rimrafs(c) ==
  /\ call[c].pc = "remove"
  /\ at' = [at EXCEPT ![call[c].op.from] = Free]
  /\ Ends(c, "placed") /\ UNCHANGED faults

-----------------------------------------------------------------------------
\* clone(): a copy in a temporary file of the file that was asked for.  The uuid is that
\* of the object, which no two have; the time of change tells a file from another.
CloneReads(c) ==
  /\ call[c].pc = "read"
  /\ IF at[call[c].op.from].kind # "file" THEN Ends(c, "error")
     ELSE Goes(c, [To(c, "clone") EXCEPT !.seen = at[call[c].op.from]]) /\ UNCHANGED working
  /\ UNCHANGED <<at, faults>>
CloneCopies(c) ==
  /\ call[c].pc = "clone"
  /\ IF at[call[c].op.from].kind # "file" THEN Ends(c, "error")
     ELSE Goes(c, To(c, "check")) /\ UNCHANGED working
  /\ UNCHANGED <<at, faults>>
CloneChecks(c) ==
  /\ call[c].pc = "check"
  /\ IF at[call[c].op.from] # call[c].seen THEN Ends(c, "error")
     ELSE Goes(c, To(c, "act")) /\ UNCHANGED working
  /\ UNCHANGED <<at, faults>>

\* link(): fs.link() and fs.mkdir() fail where there is something.
Act(c) ==
  /\ call[c].pc = "act"
  /\ IF at[call[c].name] = Free
     THEN /\ at' = [at EXCEPT ![call[c].name] = [kind |-> call[c].kind, obj |-> c]]
          /\ Goes(c, To(c, "stat"))
     ELSE /\ at' = at
          /\ Goes(c, To(c, "look"))
  /\ UNCHANGED <<working, faults>>

\* renameNoReplace(): it looks, then renames.  fs.rename() takes the place of a file, or of
\* a directory without entries, which is one that was just made.
Peek(c) ==
  /\ call[c].pc = "peek"
  /\ IF at[call[c].name] = Free
     THEN Goes(c, [To(c, "mv") EXCEPT !.seen = Free]) /\ UNCHANGED working
     ELSE Goes(c, To(c, "look")) /\ working' = FALSE
  /\ UNCHANGED <<at, faults>>
Empty(e) == e.kind = "dir" /\ e.obj \in Calls
Yields(old, new) == old = Free \/ (IF new.kind = "dir" THEN Empty(old) ELSE old.kind # "dir")
\* Mutant: the copy in the second place keeps the first.
MoveLinks(A, p, q) == [A EXCEPT ![q] = A[p]]
Move(A, p, q) == [A EXCEPT ![q] = A[p], ![p] = Free]
Mv(c) ==
  /\ call[c].pc = "mv"
  /\ LET p == call[c].op.from  q == call[c].name
     IN  IF at[p] # Free /\ Yields(at[q], at[p])
         THEN at' = Move(at, p, q) /\ Goes(c, To(c, "stat")) /\ UNCHANGED working
         ELSE at' = at /\ Ends(c, "error")
  /\ UNCHANGED faults

\* readXstat() of what was put there, or of what is there by now.
Stat(c) ==
  /\ call[c].pc = "stat"
  /\ Ends(c, IF at[call[c].name].kind \in {"none", "special"} THEN "error" ELSE "placed")
  /\ UNCHANGED <<at, faults>>

\* The conflict: what there is, of the same kind or another, and the policy for that.
\* Mutant: one policy serves both.
PolicyFirst(op, kind, e) == op.same
Policy(op, kind, e) == IF e.kind = kind THEN op.same ELSE op.diff
Look(c) ==
  /\ call[c].pc = "look"
  /\ LET e == at[call[c].name]
         policy == Policy(call[c].op, call[c].kind, e)
         met == [call[c] EXCEPT !.seen = e,
                   !.resolved = IF @ = "none" THEN (IF e.kind = call[c].kind THEN "same" ELSE "diff") ELSE @]
     IN  CASE e = Free \/ policy = "none" -> Ends(c, "error")
           [] e # Free /\ policy = "skip" ->
                /\ working' = (working /\ ~call[c].locked)
                /\ Goes(c, [Done(c, "skipped") EXCEPT !.resolved = met.resolved])
           [] e # Free /\ policy = "rename" -> Goes(c, [met EXCEPT !.pc = "list"]) /\ UNCHANGED working
           [] e # Free /\ policy = "replace" -> Goes(c, [met EXCEPT !.pc = "clear"]) /\ UNCHANGED working
  /\ UNCHANGED <<at, faults>>

\* replace: what is there goes, and the call begins again.
Again(c) == IF call[c].op.api \in Renames THEN "peek" ELSE "act"
Clear(c) ==
  /\ call[c].pc = "clear"
  /\ at' = [at EXCEPT ![call[c].name] = Free]
  /\ Goes(c, To(c, Again(c)))
  /\ UNCHANGED <<working, faults>>

\* rename: under the next name.  A rename waits, five milliseconds at a time, for the flag.
List(c) ==
  /\ call[c].pc = "list"
  /\ LET new == [call[c] EXCEPT !.name = AutoName(@, Listing)]
     IN  IF call[c].op.api \in Renames => ~working
         THEN /\ Goes(c, [new EXCEPT !.pc = Again(c), !.locked = call[c].op.api \in Renames])
              /\ working' = (working \/ call[c].op.api \in Renames)
         ELSE Goes(c, [new EXCEPT !.pc = "wait"]) /\ UNCHANGED working
  /\ UNCHANGED <<at, faults>>
Wait(c) ==
  /\ call[c].pc = "wait" /\ ~working
  /\ working' = TRUE
  /\ Goes(c, [To(c, "peek") EXCEPT !.locked = TRUE])
  /\ UNCHANGED <<at, faults>>

\* A system call fails: the parent is gone, say.
Fault(c) ==
  /\ call[c].pc \in {"act", "peek", "mv", "look", "list", "clear", "clone"} /\ faults < MaxFaults
  /\ faults' = faults + 1
  /\ Ends(c, "error") /\ UNCHANGED at

-----------------------------------------------------------------------------
Init ==
  /\ at \in Begins
  /\ call = [c \in Calls |-> NoCall]
  /\ working = FALSE /\ faults = 0
  /\ alone = {} /\ began = [c \in Calls |-> <<>>]

Ask(c) == \E o \in Ops : \/ NEWFILE(c, o) \/ MKDIR(c, o) \/ CPFILE(c, o) \/ RENAME(c, o)
                         \/ MVFILE(c, o) \/ MVDIRS(c, o) \/ REMOVE(c, o)
Proceed(c) ==
  \/ TypeRead(c) \/ Rimrafs(c) \/ CloneReads(c) \/ CloneCopies(c) \/ CloneChecks(c)
  \/ Act(c) \/ Peek(c) \/ Mv(c) \/ Stat(c) \/ Look(c) \/ Clear(c) \/ List(c) \/ Wait(c)
Next == \E c \in Calls : Ask(c) \/ Proceed(c) \/ Fault(c)

Spec == Init /\ [][Next]_vars

-----------------------------------------------------------------------------
\* What the calls are given: sources elsewhere, of the kind the call is for if they are
\* there, and names enough for each call to put something under a next one.
Entries(B) == /\ B \in [Paths -> [kind : Kinds \cup {"none"}, obj : {B[p].obj : p \in Paths}]]
              /\ \A p \in Paths : B[p] = Free <=> B[p].kind = "none"
Fits(o, B) == /\ o.api \in {"CPFILE", "MVFILE"} => B[o.from].kind \in {"file", "none"}
              /\ o.api = "MVDIRS" => B[o.from].kind \in {"dir", "none"}
Inputs ==
  /\ IsFiniteSet(Calls) /\ IsFiniteSet(Names) /\ Names = 1 .. Cardinality(Names)
  /\ Cardinality(Calls) < Cardinality(Names) /\ Names \cap Sources = {} /\ MaxFaults \in Nat
  /\ \A o \in Ops :
       /\ o.api \in {"NEWFILE", "MKDIR", "REMOVE", "CPFILE"} \cup Renames
       /\ {o.same, o.diff} \subseteq {"none", "skip", "rename", "replace"}
       /\ o.api = "REMOVE" => o.from \in Paths
       /\ o.api \in Renames \cup {"CPFILE"} => o.from \in Sources
  /\ \A B \in Begins :
       /\ Entries(B) /\ \A o \in Ops : Fits(o, B)
       /\ \A n \in Names : B[n] # Free => n + Cardinality(Calls) <= Cardinality(Names)
ASSUME InputsAssumption == Inputs

-----------------------------------------------------------------------------
\* What the policies promise, as one step: the entries after a call, and its answer.
Told(op, kind, e) == IF e.kind = kind THEN op.same ELSE op.diff
New(c, op, A) == IF op.api \in Renames THEN A[op.from]
                 ELSE [kind |-> IF op.api = "MKDIR" THEN "dir" ELSE "file", obj |-> c]
Left(op, A) == IF op.api \in Renames THEN [A EXCEPT ![op.from] = Free] ELSE A
Promise(c, op, A) ==
  LET new == New(c, op, A)
      policy == Told(op, new.kind, A[1])
      next == AutoName(1, {n \in Names : A[n] # Free})
      Result(B, answer) == [at |-> B, answer |-> answer]
  IN  CASE op.api = "REMOVE" -> Result([A EXCEPT ![op.from] = Free], "placed")
        [] op.api # "REMOVE" /\ A[1] = Free -> Result([Left(op, A) EXCEPT ![1] = new], "placed")
        [] op.api # "REMOVE" /\ A[1] # Free /\ policy = "none" -> Result(A, "error")
        [] op.api # "REMOVE" /\ A[1] # Free /\ policy = "skip" -> Result(A, "skipped")
        [] op.api # "REMOVE" /\ A[1] # Free /\ policy = "replace" ->
             Result([Left(op, A) EXCEPT ![1] = new], "placed")
        [] op.api # "REMOVE" /\ A[1] # Free /\ policy = "rename" ->
             Result([Left(op, A) EXCEPT ![next] = new], "placed")

\* What has come of a call that ends undisturbed is as its policy says.  Its source is there:
\* a move whose source is gone removes the target all the same.
Promises ==
  \A c \in alone :
       LET op == call[c].op
       IN  /\ call'[c].pc = "done" /\ faults' = faults
           /\ (op.api \in Renames \cup {"CPFILE"} => began[c][op.from].kind \in {"file", "dir"})
           => [at |-> at', answer |-> call'[c].answer] = Promise(c, op, began[c])

\* A call that no other one disturbs does what its policy says, whatever earlier calls, and
\* their failures, have left behind: it is the one step that Resolve in XCopy takes it for.
AsOneStep == [][Promises]_vars

Asked(c, p) == call[c].op.api \in Renames \cup {"REMOVE"} /\ call[c].op.from = p
Takes ==
  \A p \in Paths : at[p] # Free /\ at'[p] # at[p] =>
       \E c \in Calls : /\ call'[c] # call[c]
                        /\ \/ Asked(c, p)
                           \/ at[p] # call[c].seen
                           \/ Told(call[c].op, call[c].kind, at[p]) = "replace"

\* What stands under a name is not replaced by a call that saw it there, unless the policy
\* says so; what came after the call looked may be lost (underlying.js 55, 97, 157).
ReplacesAsTold == [][Takes]_vars

\* Every call is answered (FilesSettle in MCFiles), but a rename that waits for the flag of
\* one that failed.
Leaked == working /\ \E d \in Calls : call[d].locked /\ call[d].answer = "error"
==============================================================================
