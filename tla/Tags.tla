---------------------------------- MODULE Tags ----------------------------------
(***************************************************************************)
(* src/src/tags/Tag.js: the users' tags, an array in a DataStore.  What it *)
(* needs of src/src/lib/DataStore.js (DataStore.tla) is here the queue of  *)
(* saves, each a function of the value in memory, run one at a time and    *)
(* written before it becomes that value.                                   *)
(***************************************************************************)
EXTENDS Integers, Sequences, SequencesExt

CONSTANTS Calls, Ops,     \* [do, user, id, name]
          Files,          \* what tags.json may hold to begin with
          MaxFaults, MaxCrashes

VARIABLES tags,           \* store.data, or <<>> while it is being loaded
          loaded,
          disk,           \* tags.json
          queue, staged,  \* the saves that wait; the one being written
          call,           \* [op, pc, answer, id]
          overlapped,     \* a name was looked for while another was to come
          faults, crashes

vars == <<tags, loaded, disk, queue, staged, call, overlapped, faults, crashes>>

Free == [by |-> 0, value |-> <<>>]
IdsOf(a) == {a[i].id : i \in DOMAIN a}
TypeOK ==
  /\ ToSet(queue) \subseteq Calls /\ IsInjective(queue)
  /\ \A c \in Calls : call[c].pc \in {"idle", "waiting", "done"} /\ call[c].answer \in {0, 200, 400, 404, 500}
  /\ staged.by \in Calls \cup {0} /\ (staged.by # 0 => loaded)

Answer(c, op, answer) == call' = [call EXCEPT ![c] = [op |-> op, pc |-> "done", answer |-> answer, id |-> @.id]]

-----------------------------------------------------------------------------
\* validateName() is one of the reasons for 400; validateRepetition() looks at what is in
\* memory now.
Repeated(op) == \E i \in DOMAIN tags : /\ tags[i].name = op.name /\ tags[i].creator = op.user /\ ~tags[i].deleted
Checked(op) ==
  CASE op.do \in {"POST", "PATCH"} /\ (op.name = "" \/ Repeated(op)) -> 400
    [] op.do = "DELETE" /\ ~(\E i \in DOMAIN tags : tags[i].id = op.id /\ tags[i].creator = op.user) -> 404
    [] OTHER -> 200
Naming(c) == call[c].pc = "waiting" /\ call[c].op.do \in {"POST", "PATCH"}
\* Mutant: the number of tags there are.
NextIdLiving(a) == Len(SelectSeq(a, LAMBDA t : ~t.deleted))
NextId(a) == IF a = <<>> THEN 0 ELSE Last(a).id + 1
Due == loaded /\ staged.by = 0 /\ queue # <<>>    \* what is idle takes what comes at once
Ask(c, op) ==
  /\ call[c].pc = "idle" /\ ~Due
  /\ IF Checked(op) # 200
     THEN Answer(c, op, Checked(op)) /\ UNCHANGED <<queue, overlapped>>
     ELSE /\ call' = [call EXCEPT ![c] = [op |-> op, pc |-> "waiting", answer |-> 0, id |-> -1]]
          /\ queue' = Append(queue, c)
          /\ overlapped' = (overlapped \/ (op.do \in {"POST", "PATCH"} /\ (~loaded \/ \E d \in Calls : Naming(d))))
  /\ UNCHANGED <<tags, loaded, disk, staged, faults, crashes>>

\* The functions given to save: the array they return, or <<>> for an exception.  DELETE
\* marks the tag in the array that is in memory, too.
IndexOf1(a, op) == CHOOSE i \in DOMAIN a : a[i].id = op.id /\ a[i].creator = op.user
\* Mutant: it is taken out of the array.
TakeOut(a, op) == RemoveAt(a, IndexOf1(a, op))
Mark(a, op) == [a EXCEPT ![IndexOf1(a, op)].deleted = TRUE]
Has(a, op) == \E i \in DOMAIN a : a[i].id = op.id /\ a[i].creator = op.user /\ (op.do = "DELETE" => ~a[i].deleted)
Saved(op, a) ==
  CASE op.do = "POST" -> Append(a, [id |-> NextId(a), name |-> op.name, creator |-> op.user, deleted |-> FALSE])
    [] op.do # "POST" /\ ~Has(a, op) -> <<>>
    [] op.do = "PATCH" /\ Has(a, op) -> [a EXCEPT ![IndexOf1(a, op)].name = op.name]
    [] op.do = "DELETE" /\ Has(a, op) -> Mark(a, op)
Save ==
  /\ Due
  /\ LET c == Head(queue)
         op == call[c].op
         next == Saved(op, tags)
     IN  /\ queue' = Tail(queue)
         /\ IF next = <<>>
            THEN Answer(c, op, IF op.do = "PATCH" THEN 404 ELSE 500) /\ UNCHANGED <<tags, staged>>
            ELSE /\ staged' = [by |-> c, value |-> next] /\ UNCHANGED call
                 /\ tags' = IF op.do = "DELETE" THEN next ELSE tags
  /\ UNCHANGED <<loaded, disk, overlapped, faults, crashes>>

Written ==
  /\ staged.by # 0 /\ disk' = staged.value /\ tags' = staged.value /\ staged' = Free
  /\ call' = [call EXCEPT ![staged.by].pc = "done", ![staged.by].answer = 200,
                ![staged.by].id = IF call[staged.by].op.do = "POST" THEN Last(staged.value).id ELSE call[staged.by].op.id]
  /\ UNCHANGED <<loaded, queue, overlapped, faults, crashes>>
WriteFails ==
  /\ staged.by # 0 /\ faults < MaxFaults /\ faults' = faults + 1
  /\ staged' = Free /\ Answer(staged.by, call[staged.by].op, 500)
  /\ UNCHANGED <<tags, loaded, disk, queue, overlapped, crashes>>

\* The store loads while the API answers; a crash leaves what was written.
Load == /\ ~loaded /\ loaded' = TRUE /\ tags' = disk
        /\ UNCHANGED <<disk, queue, staged, call, overlapped, faults, crashes>>
Crash ==
  /\ crashes < MaxCrashes /\ crashes' = crashes + 1
  /\ loaded' = FALSE /\ tags' = <<>> /\ queue' = <<>> /\ staged' = Free
  /\ call' = [c \in Calls |-> IF call[c].pc = "waiting" THEN [call[c] EXCEPT !.pc = "done"] ELSE call[c]]
  /\ UNCHANGED <<disk, overlapped, faults>>

Idle == [op |-> [do |-> "none"], pc |-> "idle", answer |-> 0, id |-> -1]
Init ==
  /\ disk \in Files /\ tags = <<>> /\ loaded = FALSE /\ queue = <<>> /\ staged = Free
  /\ call = [c \in Calls |-> Idle] /\ overlapped = FALSE /\ faults = 0 /\ crashes = 0
Proceed == Save \/ Written \/ Load
Next == Proceed \/ WriteFails \/ Crash \/ \E c \in Calls, op \in Ops : Ask(c, op)
Spec == Init /\ [][Next]_vars

-----------------------------------------------------------------------------
Rising(a) == \A i, j \in DOMAIN a : i < j => a[i].id < a[j].id
Differing(a) == \A i, j \in DOMAIN a :
  i # j /\ a[i].creator = a[j].creator /\ ~a[i].deleted /\ ~a[j].deleted => a[i].name # a[j].name

\* What the file holds to begin with, and what is asked.
Inputs ==
  /\ \A a \in Files :
       /\ a \in Seq([id : Nat, name : {a[i].name : i \in DOMAIN a}, creator : {a[i].creator : i \in DOMAIN a},
                     deleted : BOOLEAN])
       /\ Rising(a) /\ Differing(a)
  /\ \A o \in Ops : o.do \in {"POST", "PATCH", "DELETE"}
  /\ 0 \notin Calls

\* The ids of tags grow, so that none is given twice, and a user's names differ, unless two
\* calls gave a name at once, or one before the store was loaded.
Tidy == (\A a \in {tags, disk} : Rising(a)) /\ (~overlapped => Differing(disk))

\* No tag leaves the file, changes its owner or comes back from deletion, whatever fails;
\* so that an id that was told to be a tag's is one for ever.
Kept ==
  \A i \in DOMAIN disk : /\ i \in DOMAIN disk' /\ disk'[i].id = disk[i].id /\ disk'[i].creator = disk[i].creator
                         /\ disk[i].deleted => disk'[i].deleted

\* Who is told that a tag is made or deleted finds it so in the file.
ToldTags ==
  \A c \in Calls : call[c].answer = 200 =>
    \E i \in DOMAIN disk : /\ disk[i].id = call[c].id /\ disk[i].creator = call[c].op.user
                           /\ call[c].op.do = "DELETE" => disk[i].deleted
==============================================================================
