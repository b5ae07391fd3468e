--------------------------------- MODULE Batch ---------------------------------
(***************************************************************************)
(* src/src/fruitmix/Task.js, the list of tasks, with the batches in        *)
(* src/src/fruitmix/xcopy/: xsink.js copies its entries one after another, *)
(* each by an XCopy of its own; xremove.js removes them.                   *)
(*                                                                         *)
(* An XCopy (XCopy.tla) is here only what a batch sees of it: it finishes  *)
(* some time after it was made, or stays, and never when destroyed.  An    *)
(* entry is [of |-> i, good |-> whether VFS.DIR finds its directory]: if   *)
(* not, VFS.REMOVE calls back at once.                                     *)
(***************************************************************************)
EXTENDS Integers, Sequences, SequencesExt

CONSTANTS Ids, Batches,   \* sequences of BOOLEAN: which entries are good
          MaxFaults

VARIABLES tasks,          \* this.tasks: a sequence of Ids
          task,           \* [type, auto, posted, entries, at, done, live, early, allFinished]
          answer,         \* the last answer of the API; 202: kept until later
          faults

vars == <<tasks, task, answer, faults>>

Nothing == 0
Types == {"copy", "sink", "remove", "nremove"}
TypeOK ==
  /\ IsInjective(tasks) /\ ToSet(tasks) \subseteq Ids
  /\ \A t \in Ids : task[t].type \in Types \cup {"none"}
  /\ answer \in {0, 200, 202, 400, 403, 404, 500}

-----------------------------------------------------------------------------
\* next(): the next entry, if there is one.  A bad one of a remove is over at once.
RECURSIVE Next1(_)
Next1(k) ==
  IF k.entries = <<>> THEN [k EXCEPT !.at = Nothing, !.allFinished = TRUE]
  ELSE LET i == Head(k.entries)
           begun == [k EXCEPT !.entries = Tail(@), !.at = i]
       IN  IF k.type = "remove" /\ ~k.posted[i] THEN Next1([begun EXCEPT !.done = Append(@, i)]) ELSE begun

\* The constructor, in which next() runs before POST attaches its listener.
New(type, auto, posted) ==
  LET made == [type |-> type, auto |-> auto, posted |-> posted, entries |-> [i \in DOMAIN posted |-> i], at |-> Nothing,
               done |-> <<>>, live |-> TRUE, early |-> FALSE, allFinished |-> FALSE]
      begun == Next1(made)
  IN  [begun EXCEPT !.early = begun.allFinished]

Post(t) ==
  /\ task[t].type = "none"
  /\ \/ \E type \in Types, auto \in BOOLEAN, posted \in Batches :
          /\ type = "copy" => Len(posted) = 1
          /\ task' = [task EXCEPT ![t] = New(type, auto, posted)]
          /\ tasks' = Append(tasks, t) /\ answer' = 200
     \/ answer' = 400 /\ UNCHANGED <<tasks, task>>       \* no entries, source, destination or policies
     \/ answer' = 500 /\ UNCHANGED <<tasks, task>>       \* a type that createRoot() does not know
  /\ UNCHANGED faults

\* 'finish' is for who cleans: a copy and a remove emit it, a sink does not.
\* Mutant: only a copy does.
EmitsCopy(k) == k.allFinished /\ k.type = "copy"
Emits(k) == k.allFinished /\ k.type # "sink"
Cleaned(t, k) == IF Emits(k) /\ k.auto /\ ~k.early THEN SelectSeq(tasks, LAMBDA x : x # t) ELSE tasks

\* What runs is over: the XCopy has finished, rimraf has called back, well or not.
Over(t) ==
  /\ task[t].type # "none" /\ task[t].at # Nothing /\ task[t].live
  /\ LET next == Next1([task[t] EXCEPT !.done = Append(@, task[t].at)])
     IN  task' = [task EXCEPT ![t] = next] /\ tasks' = Cleaned(t, next)
  /\ UNCHANGED <<answer, faults>>
\* An XCopy that stays as it is (XCopy.tla).
Stays(t) ==
  /\ task[t].type \in {"copy", "sink"} /\ task[t].at # Nothing /\ task[t].live
  /\ faults < MaxFaults /\ faults' = faults + 1
  /\ task' = [task EXCEPT ![t].live = FALSE] /\ UNCHANGED <<tasks, answer>>

\* DELETE: an XCopy is destroyed and finishes no more; what a remove is about goes on, and
\* its other entries are forgotten.
\* Mutant: they are not.
DestroyKeeps(k) == IF k.type \in {"copy", "sink"} THEN [k EXCEPT !.live = FALSE] ELSE k
Destroy(k) == IF k.type \in {"copy", "sink"} THEN [k EXCEPT !.live = FALSE] ELSE [k EXCEPT !.entries = <<>>]
Delete(t) ==
  /\ IF t \in ToSet(tasks)
     THEN /\ tasks' = SelectSeq(tasks, LAMBDA x : x # t)
          /\ task' = [task EXCEPT ![t] = Destroy(@)] /\ answer' = 200
     ELSE answer' = 404 /\ UNCHANGED <<tasks, task>>
  /\ UNCHANGED faults

\* PATCH and PATCHNODE: for an XCopy and, its nodes, the one of a sink; what has no such
\* method, or is not listed and stepped or watched, is an exception.
Patch(t, op) ==
  /\ answer' \in CASE op \in {"step", "watch"} /\ t \in ToSet(tasks) /\ task[t].type = "copy" ->
                        IF op = "watch" /\ task[t].at # Nothing THEN {200, 202} ELSE {200}
                   [] op = "node" /\ t \notin ToSet(tasks) -> {404}
                   [] op = "node" /\ t \in ToSet(tasks) /\ (task[t].type = "copy" \/ (task[t].type = "sink" /\ task[t].at # Nothing)) ->
                        {200, 400, 403, 404}
                   [] op = "other" -> {403}
                   [] OTHER -> {500}
  /\ UNCHANGED <<tasks, task, faults>>

NoTask == [type |-> "none", auto |-> FALSE, posted |-> <<>>, entries |-> <<>>, at |-> Nothing, done |-> <<>>,
           live |-> FALSE, early |-> FALSE, allFinished |-> FALSE]
Init == tasks = <<>> /\ task = [t \in Ids |-> NoTask] /\ answer = 0 /\ faults = 0
Next ==
  \E t \in Ids : \/ Post(t) \/ Over(t) \/ Stays(t) \/ Delete(t)
                 \/ \E op \in {"step", "watch", "node", "other"} : Patch(t, op)
Spec == Init /\ [][Next]_vars

-----------------------------------------------------------------------------
\* A batch takes its entries in order, one at a time; it is finished when all are done, and
\* then, if it is to be cleaned, out of the list: but a sink never, and a remove only if
\* something of it was over after the constructor.
At(k) == IF k.at = Nothing THEN <<>> ELSE <<k.at>>
OneByOne ==
  \A t \in Ids :
    LET k == task[t] IN
    /\ IsPrefix(k.done \o At(k) \o k.entries, [i \in DOMAIN k.posted |-> i])
    /\ k.allFinished => k.at = Nothing /\ k.entries = <<>>
    /\ t \in ToSet(tasks) /\ k.allFinished => Len(k.done) = Len(k.posted)
    /\ t \in ToSet(tasks) /\ k.allFinished /\ k.auto => k.type = "sink" \/ k.early

\* What has been deleted begins nothing more, and does not come back.
DeletedIsOver ==
  \A t \in Ids : task[t].type # "none" /\ t \notin ToSet(tasks) => task'[t].at \in {task[t].at, Nothing} /\ t \notin ToSet(tasks')
Ended(t) == task[t].allFinished \/ ~task[t].live
==============================================================================
