---------------------------- MODULE ServicesProofs ----------------------------
(* Safety of the services, for any calls, files and failures: each part is    *)
(* about the module it instantiates.                                          *)
EXTENDS Integers, Sequences, FiniteSets, SequencesExt, FiniteSetTheorems, WellFoundedInduction, TLAPS

CONSTANTS Calls, Ops, Files, MaxFaults, MaxCrashes, MaxChanges, MaxPublic, MaxActive, Day, Props, Runs, Size, Sources, Ids,
          Asked, Forms, Users, Holders, Having
VARIABLES tags, loaded, disk, queue, staged, call, overlapped, faults, crashes, now, svc, refresh, box,
          users, drives, stored, conf, clock, sleeps, missed, state, runs, unit, astray, changes,
          mode, source, refs, opened, written, told, owner, late,
          station, user, file, req, form, dicer, party, reply, twice, torrents, lists, task, moving, lock, seen

-----------------------------------------------------------------------------
(* Tags.                                                                   *)

Tagging == INSTANCE Tags

Words == {o.name : o \in Ops} \cup UNION {{a[i].name : i \in DOMAIN a} : a \in Files}
Creators == {o.user : o \in Ops} \cup UNION {{a[i].creator : i \in DOMAIN a} : a \in Files}
RecsOf(a) == [id : Nat, name : {a[i].name : i \in DOMAIN a}, creator : {a[i].creator : i \in DOMAIN a},
              deleted : BOOLEAN]
TagRecs == [id : Nat, name : Words, creator : Creators, deleted : BOOLEAN]

\* b comes after a: what a holds is there, a deleted tag deleted.
Grown(a, b) ==
  \A i \in DOMAIN a : /\ i \in DOMAIN b /\ b[i].id = a[i].id /\ b[i].creator = a[i].creator
                      /\ a[i].deleted => b[i].deleted
\* Memory is ahead of the file by deletions only.
Marked(a, b) == DOMAIN a = DOMAIN b /\ Grown(a, b) /\ \A i \in DOMAIN a : a[i].name = b[i].name
Clashes(a, op) == \E i \in DOMAIN a : a[i].name = op.name /\ a[i].creator = op.user /\ ~a[i].deleted

\* What is staged is what its call is told.
Meant(op, a) ==
  /\ op.do = "POST" => a # <<>> /\ Last(a).creator = op.user
  /\ op.do # "POST" => \E i \in DOMAIN a : a[i].id = op.id /\ a[i].creator = op.user /\ (op.do = "DELETE" => a[i].deleted)

TagsTyped ==
  /\ tags \in Seq(TagRecs) /\ disk \in Seq(TagRecs) /\ loaded \in BOOLEAN /\ overlapped \in BOOLEAN
  /\ queue \in Seq(Calls)
  /\ DOMAIN call = Calls
  /\ \A c \in Calls : call[c].pc \in {"idle", "waiting", "done"} /\ call[c].answer \in {0, 200, 400, 404, 500}
  /\ \A c \in Calls : call[c].pc = "waiting" => call[c].op \in Ops
  /\ staged.by \in Calls \cup {0}
  /\ staged.by # 0 => loaded /\ staged.value \in Seq(TagRecs) /\ call[staged.by].pc = "waiting"
  /\ \A i \in DOMAIN queue : call[queue[i]].pc = "waiting" /\ queue[i] # staged.by
  /\ \A i, j \in DOMAIN queue : queue[i] = queue[j] => i = j
TagsOrdered ==
  /\ Tagging!Rising(tags) /\ Tagging!Rising(disk)
  /\ loaded => Marked(disk, tags)
  /\ staged.by # 0 => /\ Tagging!Rising(staged.value) /\ Grown(disk, staged.value)
                      /\ Meant(call[staged.by].op, staged.value)
                      /\ call[staged.by].op.do = "DELETE" => staged.value = tags
TagsNamed ==
  ~overlapped =>
    /\ Tagging!Differing(disk) /\ Tagging!Differing(tags)
    /\ staged.by # 0 => Tagging!Differing(staged.value)
    /\ \A c, d \in Calls : Tagging!Naming(c) /\ Tagging!Naming(d) => c = d
    /\ \A c \in Calls : Tagging!Naming(c) => loaded /\ ~Clashes(tags, call[c].op)
TagsTold == Tagging!ToldTags /\ \A c \in Calls : call[c].answer = 200 => call[c].pc = "done"
TagsInv == TagsTyped /\ TagsOrdered /\ TagsNamed /\ TagsTold


\* What a save makes of the array.
Good(a, op, b) ==
  /\ b \in Seq(TagRecs) /\ b # <<>> /\ Tagging!Rising(b) /\ Grown(a, b) /\ Meant(op, b)
  /\ op.do = "DELETE" => Marked(a, b)
  /\ Tagging!Differing(a) /\ (op.do = "DELETE" \/ ~Clashes(a, op)) => Tagging!Differing(b)

LEMMA Posting ==
  ASSUME NEW a \in Seq(TagRecs), Tagging!Rising(a), NEW op \in Ops, op.do = "POST",
         NEW e, e = [id |-> Tagging!NextId(a), name |-> op.name, creator |-> op.user, deleted |-> FALSE]
  PROVE  Good(a, op, Append(a, e))
<1>1. PICK n \in Nat : n = Len(a) /\ DOMAIN a = 1 .. n
  <2>1. Len(a) \in Nat /\ DOMAIN a = 1 .. Len(a)
    OBVIOUS
  <2> QED BY <2>1
<1>0. \A i \in DOMAIN a : a[i].id \in Nat
  <2>1. \A i \in DOMAIN a : a[i] \in TagRecs
    OBVIOUS
  <2> QED BY <2>1 DEF TagRecs
<1>2. Tagging!NextId(a) \in Nat /\ \A i \in DOMAIN a : a[i].id < Tagging!NextId(a)
  <2>1. CASE a = <<>>
    BY <2>1, <1>1 DEF Tagging!NextId
  <2>2. CASE a # <<>>
    <3>1. n \in DOMAIN a /\ Last(a) = a[n]
      BY <1>1, <2>2 DEF Last
    <3>2. PICK m \in Nat : m = a[n].id
      BY <1>0, <3>1
    <3>3. Tagging!NextId(a) = m + 1
      BY <1>1, <2>2, <3>1, <3>2 DEF Tagging!NextId, Tagging!Last
    <3>4. ASSUME NEW i \in DOMAIN a PROVE a[i].id <= m
      <4>1. i = n \/ i < n
        BY <1>1
      <4>2. i < n => a[i].id < a[n].id
        BY <3>1 DEF Tagging!Rising
      <4>3. a[i].id \in Nat
        BY <1>0
      <4> QED BY <3>2, <4>1, <4>2, <4>3
    <3> QED BY <1>0, <3>2, <3>3, <3>4
  <2> QED BY <2>1, <2>2
<1>3. /\ e \in TagRecs /\ e.id = Tagging!NextId(a) /\ e.name = op.name /\ e.creator = op.user
      /\ e.deleted = FALSE
  BY <1>2 DEF TagRecs, Words, Creators
<1>4. PICK b : b = Append(a, e)
  OBVIOUS
<1>5. /\ b \in Seq(TagRecs) /\ Len(b) = n + 1 /\ DOMAIN b = 1 .. (n + 1) /\ b[n + 1] = e
      /\ \A i \in 1 .. n : b[i] = a[i]
  BY <1>1, <1>3, <1>4
<1>6. DOMAIN b = DOMAIN a \cup {n + 1} /\ n + 1 \notin DOMAIN a
  BY <1>1, <1>5
<1>7. Tagging!Rising(b)
  <2> SUFFICES ASSUME NEW i \in DOMAIN b, NEW j \in DOMAIN b, i < j PROVE b[i].id < b[j].id
    BY DEF Tagging!Rising
  <2>1. i \in DOMAIN a
    BY <1>1, <1>5
  <2>2. CASE j = n + 1
    BY <1>1, <1>2, <1>3, <1>5, <2>1, <2>2
  <2>3. CASE j \in DOMAIN a
    BY <1>1, <1>5, <2>1, <2>3 DEF Tagging!Rising
  <2> QED BY <1>6, <2>2, <2>3
<1>8. Grown(a, b)
  BY <1>1, <1>5, <1>6 DEF Grown
<1>9. b # <<>> /\ Last(b) = e
  BY <1>5, <1>1 DEF Last
<1>10. ASSUME Tagging!Differing(a), ~Clashes(a, op) PROVE Tagging!Differing(b)
  <2> SUFFICES ASSUME NEW i \in DOMAIN b, NEW j \in DOMAIN b, i # j, b[i].creator = b[j].creator,
                      ~b[i].deleted, ~b[j].deleted
               PROVE  b[i].name # b[j].name
    BY DEF Tagging!Differing
  <2>1. CASE i \in DOMAIN a /\ j \in DOMAIN a
    BY <1>1, <1>5, <1>10, <2>1 DEF Tagging!Differing
  <2>2. CASE i = n + 1 /\ j \in DOMAIN a
    BY <1>1, <1>3, <1>5, <1>10, <2>2 DEF Clashes
  <2>3. CASE j = n + 1 /\ i \in DOMAIN a
    BY <1>1, <1>3, <1>5, <1>10, <2>3 DEF Clashes
  <2> QED BY <1>6, <2>1, <2>2, <2>3
<1> QED BY <1>3, <1>4, <1>5, <1>7, <1>8, <1>9, <1>10 DEF Good, Meant

LEMMA Patching ==
  ASSUME NEW a \in Seq(TagRecs), Tagging!Rising(a), NEW op \in Ops, op.do \in {"PATCH", "DELETE"},
         NEW k \in DOMAIN a, a[k].id = op.id, a[k].creator = op.user, NEW e,
         \/ op.do = "PATCH" /\ e = [a[k] EXCEPT !.name = op.name]
         \/ op.do = "DELETE" /\ e = [a[k] EXCEPT !.deleted = TRUE],
         NEW b, b = [a EXCEPT ![k] = e]
  PROVE  Good(a, op, b)
<1>1. PICK x \in TagRecs : x = a[k] /\ x.id = op.id /\ x.creator = op.user
  OBVIOUS
<1>2. /\ e \in TagRecs /\ e.id = x.id /\ e.creator = x.creator
      /\ op.do = "PATCH" => e.name = op.name /\ e.deleted = x.deleted
      /\ op.do = "DELETE" => e.name = x.name /\ e.deleted = TRUE
  <2>1. CASE op.do = "PATCH"
    <3>1. e = [x EXCEPT !.name = op.name] /\ op.name \in Words
      BY <1>1, <2>1 DEF Words
    <3> QED BY <2>1, <3>1 DEF TagRecs
  <2>2. CASE op.do = "DELETE"
    <3>1. e = [x EXCEPT !.deleted = TRUE]
      BY <1>1, <2>2
    <3> QED BY <2>2, <3>1 DEF TagRecs
  <2> QED BY <2>1, <2>2
<1>4. b \in Seq(TagRecs) /\ DOMAIN b = DOMAIN a /\ b[k] = e /\ \A i \in DOMAIN a : i # k => b[i] = a[i]
  BY <1>2
<1>5. Tagging!Rising(b)
  <2>1. \A i \in DOMAIN a : b[i].id = a[i].id
    BY <1>1, <1>2, <1>4
  <2> QED BY <1>4, <2>1 DEF Tagging!Rising
<1>6. Grown(a, b)
  BY <1>1, <1>2, <1>4 DEF Grown
<1>7. b # <<>> /\ Meant(op, b)
  BY <1>1, <1>2, <1>4 DEF Meant
<1>8. op.do = "DELETE" => Marked(a, b)
  BY <1>1, <1>2, <1>4, <1>6 DEF Marked
<1>9. ASSUME Tagging!Differing(a), op.do = "DELETE" \/ ~Clashes(a, op) PROVE Tagging!Differing(b)
  <2> SUFFICES ASSUME NEW i \in DOMAIN a, NEW j \in DOMAIN a, i # j, b[i].creator = b[j].creator,
                      ~b[i].deleted, ~b[j].deleted
               PROVE  b[i].name # b[j].name
    BY <1>4 DEF Tagging!Differing
  <2>1. CASE i # k /\ j # k
    BY <1>4, <1>9, <2>1 DEF Tagging!Differing
  <2>2. CASE op.do = "DELETE"
    BY <1>2, <1>4, <2>1, <2>2
  <2>3. CASE op.do = "PATCH" /\ (i = k \/ j = k)
    BY <1>1, <1>2, <1>4, <1>9, <2>3 DEF Clashes
  <2> QED BY <2>1, <2>2, <2>3
<1> QED BY <1>4, <1>5, <1>6, <1>7, <1>8, <1>9 DEF Good

LEMMA Saving ==
  ASSUME Tagging!Inputs, NEW a \in Seq(TagRecs), Tagging!Rising(a), NEW op \in Ops,
         NEW b, b = Tagging!Saved(op, a), b # <<>>
  PROVE  Good(a, op, b)
<1>1. op.do \in {"POST", "PATCH", "DELETE"}
  BY DEF Tagging!Inputs
<1>2. CASE op.do = "POST"
  BY <1>2, Posting DEF Tagging!Saved
<1>3. CASE op.do # "POST"
  <2>1. Tagging!Has(a, op)
    BY <1>3 DEF Tagging!Saved
  <2>2. PICK k \in DOMAIN a : k = Tagging!IndexOf1(a, op) /\ a[k].id = op.id /\ a[k].creator = op.user
    BY <2>1 DEF Tagging!Has, Tagging!IndexOf1
  <2>3. CASE op.do = "PATCH"
    <3>1. b = [a EXCEPT ![k].name = op.name]
      BY <2>1, <2>2, <2>3 DEF Tagging!Saved
    <3>2. PICK e : e = [a[k] EXCEPT !.name = op.name] /\ b = [a EXCEPT ![k] = e]
      BY <3>1
    <3> QED BY <2>2, <2>3, <3>2, Patching
  <2>4. CASE op.do = "DELETE"
    <3>1. b = [a EXCEPT ![k].deleted = TRUE]
      BY <2>1, <2>2, <2>4 DEF Tagging!Saved, Tagging!Mark
    <3>2. PICK e : e = [a[k] EXCEPT !.deleted = TRUE] /\ b = [a EXCEPT ![k] = e]
      BY <3>1
    <3> QED BY <2>2, <2>4, <3>2, Patching
  <2> QED BY <1>1, <1>3, <2>3, <2>4
<1> QED BY <1>2, <1>3


LEMMA TagsBegin == Tagging!Inputs /\ Tagging!Init => TagsInv
<1> SUFFICES ASSUME Tagging!Inputs, Tagging!Init PROVE TagsInv
  OBVIOUS
<1>1. PICK a \in Files : a = disk
  BY DEF Tagging!Init
<1>2. disk \in Seq(TagRecs)
  <2>1. a \in Seq(RecsOf(a))
    BY DEF Tagging!Inputs, RecsOf
  <2>2. {a[i].name : i \in DOMAIN a} \subseteq Words /\ {a[i].creator : i \in DOMAIN a} \subseteq Creators
    BY DEF Words, Creators
  <2>3. \A i \in DOMAIN a : a[i] \in TagRecs
    <3> SUFFICES ASSUME NEW i \in DOMAIN a PROVE a[i] \in TagRecs
      OBVIOUS
    <3>1. a[i] \in RecsOf(a)
      BY <2>1
    <3> QED BY <2>2, <3>1 DEF TagRecs, RecsOf
  <2>5. Len(a) \in Nat /\ DOMAIN a = 1 .. Len(a) /\ a = [i \in 1 .. Len(a) |-> a[i]]
    BY <2>1
  <2> QED BY <1>1, <2>3, <2>5
<1>3. Tagging!Rising(disk) /\ Tagging!Differing(disk)
  BY <1>1 DEF Tagging!Inputs
<1>4. \A c \in Calls : call[c].pc = "idle" /\ call[c].answer = 0
  BY DEF Tagging!Init, Tagging!Idle
<1>5. tags = <<>> /\ queue = <<>> /\ staged.by = 0 /\ loaded = FALSE /\ overlapped = FALSE /\ DOMAIN call = Calls
  BY DEF Tagging!Init, Tagging!Free
<1>6. TagsTyped
  <2>1. tags \in Seq(TagRecs) /\ queue \in Seq(Calls) /\ DOMAIN queue = {}
    BY <1>5
  <2>2. loaded \in BOOLEAN /\ overlapped \in BOOLEAN /\ staged.by \in Calls \cup {0}
    BY <1>5
  <2>3. \A c \in Calls : call[c].pc \in {"idle", "waiting", "done"} /\ call[c].answer \in {0, 200, 400, 404, 500}
    BY <1>4
  <2>4. \A c \in Calls : call[c].pc # "waiting"
    BY <1>4
  <2> QED BY <1>2, <1>5, <2>1, <2>2, <2>3, <2>4 DEF TagsTyped
<1>7. Tagging!Rising(tags) /\ Tagging!Differing(tags)
  BY <1>5 DEF Tagging!Rising, Tagging!Differing
<1>8. TagsOrdered /\ TagsNamed
  BY <1>3, <1>4, <1>5, <1>7 DEF TagsOrdered, TagsNamed, Tagging!Naming
<1>9. TagsTold
  BY <1>4 DEF TagsTold, Tagging!ToldTags
<1> QED BY <1>6, <1>8, <1>9 DEF TagsInv

\* A call that is answered with another answer than 200.
LEMMA TagsRefused ==
  ASSUME Tagging!Inputs, TagsInv, NEW c \in Calls, NEW op, NEW a \in {400, 404, 500},
         Tagging!Answer(c, op, a), UNCHANGED <<tags, loaded, disk, overlapped>>,
         UNCHANGED staged \/ staged'.by = 0, c # staged'.by,
         UNCHANGED queue \/ (queue # <<>> /\ queue' = Tail(queue)), \A i \in DOMAIN queue' : queue'[i] # c
  PROVE  TagsInv'
<1>1. /\ DOMAIN call' = Calls /\ call'[c].pc = "done" /\ call'[c].answer = a
      /\ \A d \in Calls : d # c => call'[d] = call[d]
  BY DEF Tagging!Answer, TagsInv, TagsTyped
<1>2. queue' \in Seq(Calls) /\ (\A i \in DOMAIN queue' : \E j \in DOMAIN queue : queue'[i] = queue[j])
      /\ \A i, j \in DOMAIN queue' : queue'[i] = queue'[j] => i = j
  <2>1. queue \in Seq(Calls) /\ \A i, j \in DOMAIN queue : queue[i] = queue[j] => i = j
    BY DEF TagsInv, TagsTyped
  <2>2. CASE UNCHANGED queue
    BY <2>1, <2>2
  <2>3. CASE queue # <<>> /\ queue' = Tail(queue)
    <3>1. PICK n \in Nat : n = Len(queue) /\ n > 0
      BY <2>1, <2>3
    <3>2. queue' \in Seq(Calls) /\ DOMAIN queue' = 1 .. (n - 1) /\ \A i \in 1 .. (n - 1) : queue'[i] = queue[i + 1]
      BY <2>1, <2>3, <3>1
    <3>3. \A i \in 1 .. (n - 1) : i + 1 \in DOMAIN queue
      BY <2>1, <3>1
    <3>4. \A i \in DOMAIN queue' : i + 1 \in DOMAIN queue /\ queue'[i] = queue[i + 1] /\ i \in Nat
      BY <3>2, <3>3
    <3>5. \A i \in DOMAIN queue' : \E j \in DOMAIN queue : queue'[i] = queue[j]
      BY <3>4
    <3>6. ASSUME NEW i \in DOMAIN queue', NEW j \in DOMAIN queue', queue'[i] = queue'[j] PROVE i = j
      <4>1. i + 1 = j + 1 /\ i \in Nat /\ j \in Nat
        BY <2>1, <3>4, <3>6
      <4> QED BY <4>1
    <3> QED BY <3>2, <3>5, <3>6
  <2> QED BY <2>2, <2>3
<1>3. TagsTyped'
  <2>1. staged' = staged \/ staged'.by = 0
    OBVIOUS
  <2>2. \A d \in Calls : call'[d].pc = "waiting" => call'[d].op \in Ops
    BY <1>1 DEF TagsInv, TagsTyped
  <2>3. \A i \in DOMAIN queue' : call'[queue'[i]].pc = "waiting" /\ queue'[i] # staged'.by
    BY <1>1, <1>2, <2>1 DEF TagsInv, TagsTyped, Tagging!Inputs
  <2>4. staged'.by # 0 => loaded' /\ staged'.value \in Seq(TagRecs) /\ call'[staged'.by].pc = "waiting"
    BY <1>1, <2>1 DEF TagsInv, TagsTyped
  <2>5. staged'.by \in Calls \cup {0}
    BY <2>1 DEF TagsInv, TagsTyped
  <2>6. ASSUME NEW d \in Calls
        PROVE  call'[d].pc \in {"idle", "waiting", "done"} /\ call'[d].answer \in {0, 200, 400, 404, 500}
    <3>1. call[d].pc \in {"idle", "waiting", "done"} /\ call[d].answer \in {0, 200, 400, 404, 500}
      BY DEF TagsInv, TagsTyped
    <3>2. d # c => call'[d] = call[d]
      BY <1>1
    <3> QED BY <1>1, <3>1, <3>2
  <2> QED BY <1>1, <1>2, <2>2, <2>3, <2>4, <2>5, <2>6 DEF TagsInv, TagsTyped
<1>4. TagsOrdered'
  BY <1>1 DEF TagsInv, TagsTyped, TagsOrdered
<1>5. TagsNamed'
  <2>1. \A d \in Calls : Tagging!Naming(d)' => Tagging!Naming(d) /\ call'[d] = call[d]
    BY <1>1 DEF Tagging!Naming
  <2> QED BY <2>1 DEF TagsInv, TagsTyped, TagsNamed
<1>6. TagsTold'
  BY <1>1 DEF TagsInv, TagsTold, Tagging!ToldTags
<1> QED BY <1>3, <1>4, <1>5, <1>6 DEF TagsInv

LEMMA TagsAsked ==
  ASSUME Tagging!Inputs, TagsInv, NEW c \in Calls, NEW op \in Ops, Tagging!Ask(c, op), Tagging!Checked(op) = 200
  PROVE  TagsInv'
<1>1. /\ DOMAIN call' = Calls /\ call'[c].pc = "waiting" /\ call'[c].answer = 0 /\ call'[c].op = op
      /\ \A d \in Calls : d # c => call'[d] = call[d]
      /\ call[c].pc = "idle"
  BY DEF Tagging!Ask, TagsInv, TagsTyped
<1>2. PICK n \in Nat : /\ n = Len(queue) /\ DOMAIN queue = 1 .. n /\ DOMAIN queue' = 1 .. (n + 1)
                       /\ queue' \in Seq(Calls) /\ queue'[n + 1] = c /\ \A i \in 1 .. n : queue'[i] = queue[i]
  <2>1. queue \in Seq(Calls) /\ queue' = Append(queue, c)
    BY DEF Tagging!Ask, TagsInv, TagsTyped
  <2>2. PICK n \in Nat : n = Len(queue) /\ DOMAIN queue = 1 .. n
    BY <2>1
  <2>3. /\ queue' \in Seq(Calls) /\ Len(queue') = n + 1 /\ queue'[n + 1] = c
        /\ \A i \in 1 .. n : queue'[i] = queue[i]
    BY <2>1, <2>2
  <2>4. DOMAIN queue' = 1 .. (n + 1)
    BY <2>3
  <2> QED BY <2>2, <2>3, <2>4
<1>3. UNCHANGED <<tags, loaded, disk, staged>>
  BY DEF Tagging!Ask
<1>4. TagsTyped'
  <2>1. \A i \in DOMAIN queue' : i = n + 1 \/ (i \in DOMAIN queue /\ queue'[i] = queue[i])
    <3>1. \A i \in 1 .. (n + 1) : i = n + 1 \/ i \in 1 .. n
      OBVIOUS
    <3> QED BY <1>2, <3>1
  <2>2. \A i \in DOMAIN queue : queue[i] \in Calls /\ queue[i] # c
    BY <1>1, <1>2 DEF TagsInv, TagsTyped
  <2>3. staged.by # c
    BY <1>1 DEF TagsInv, TagsTyped, Tagging!Inputs
  <2>4. \A i \in DOMAIN queue' : call'[queue'[i]].pc = "waiting" /\ queue'[i] # staged'.by
    BY <1>1, <1>2, <1>3, <2>1, <2>2, <2>3 DEF TagsInv, TagsTyped
  <2>5. \A i, j \in DOMAIN queue' : queue'[i] = queue'[j] => i = j
    BY <1>2, <2>1, <2>2 DEF TagsInv, TagsTyped
  <2>6. staged'.by # 0 => loaded' /\ staged'.value \in Seq(TagRecs) /\ call'[staged'.by].pc = "waiting"
    BY <1>1, <1>3, <2>3 DEF TagsInv, TagsTyped
  <2>7. \A d \in Calls : /\ call'[d].pc \in {"idle", "waiting", "done"} /\ call'[d].answer \in {0, 200, 400, 404, 500}
                         /\ call'[d].pc = "waiting" => call'[d].op \in Ops
    BY <1>1 DEF TagsInv, TagsTyped
  <2>8. overlapped' \in BOOLEAN
    BY DEF TagsInv, TagsTyped, Tagging!Ask
  <2> QED BY <1>1, <1>2, <1>3, <2>4, <2>5, <2>6, <2>7, <2>8 DEF TagsInv, TagsTyped
<1>5. TagsOrdered'
  BY <1>1, <1>3 DEF TagsInv, TagsTyped, TagsOrdered, Tagging!Inputs
<1>6. TagsNamed'
  <2> SUFFICES ASSUME ~overlapped' PROVE TagsNamed'
    BY DEF TagsNamed
  <2>1. ~overlapped /\ (op.do \in {"POST", "PATCH"} => loaded /\ \A d \in Calls : ~Tagging!Naming(d))
    BY DEF Tagging!Ask
  <2>2. \A d \in Calls : Tagging!Naming(d)' => IF d = c THEN op.do \in {"POST", "PATCH"} ELSE Tagging!Naming(d)
    BY <1>1 DEF Tagging!Naming
  <2>3. op.do \in {"POST", "PATCH"} => ~Clashes(tags, op)
    <3>1. op.do \in {"POST", "PATCH"} => ~Tagging!Repeated(op)
      <4> SUFFICES ASSUME op.do \in {"POST", "PATCH"}, Tagging!Repeated(op) PROVE FALSE
        OBVIOUS
      <4>1. op.do # "DELETE"
        OBVIOUS
      <4>2. Tagging!Checked(op) = 400
        BY <4>1 DEF Tagging!Checked, Tagging!Repeated
      <4> QED BY <4>2
    <3> QED BY <3>1 DEF Tagging!Repeated, Clashes
  <2>4. \A d, e \in Calls : Tagging!Naming(d)' /\ Tagging!Naming(e)' => d = e
    BY <2>1, <2>2 DEF TagsInv, TagsNamed
  <2>5. \A d \in Calls : Tagging!Naming(d)' => loaded' /\ ~Clashes(tags', call'[d].op)
    BY <1>1, <1>3, <2>1, <2>2, <2>3 DEF TagsInv, TagsNamed
  <2> QED BY <1>3, <2>1, <2>4, <2>5 DEF TagsInv, TagsNamed
<1>7. TagsTold'
  BY <1>1, <1>3 DEF TagsInv, TagsTold, Tagging!ToldTags
<1> QED BY <1>4, <1>5, <1>6, <1>7 DEF TagsInv

LEMMA MarkedOn ==
  ASSUME NEW a, NEW b, NEW d
  PROVE  /\ Grown(a, b) /\ Grown(b, d) => Grown(a, d)
         /\ Marked(a, b) /\ Marked(b, d) => Marked(a, d)
BY DEF Grown, Marked

LEMMA TagsSaved ==
  ASSUME Tagging!Inputs, TagsInv, Tagging!Save
  PROVE  TagsInv'
<1>1. PICK c \in Calls : c = Head(queue) /\ c = queue[1] /\ 1 \in DOMAIN queue /\ call[c].pc = "waiting"
  <2>1. queue \in Seq(Calls) /\ queue # <<>>
    BY DEF Tagging!Save, Tagging!Due, TagsInv, TagsTyped
  <2>2. Head(queue) \in Calls /\ Head(queue) = queue[1] /\ 1 \in DOMAIN queue
    BY <2>1
  <2> QED BY <2>2 DEF TagsInv, TagsTyped
<1>2. PICK op \in Ops : op = call[c].op
  BY <1>1 DEF TagsInv, TagsTyped
<1>3. PICK b : b = Tagging!Saved(op, tags)
  OBVIOUS
<1>4. PICK n \in Nat : /\ n = Len(queue) /\ DOMAIN queue = 1 .. n /\ n > 0 /\ queue' \in Seq(Calls)
                       /\ DOMAIN queue' = 1 .. (n - 1) /\ \A i \in 1 .. (n - 1) : queue'[i] = queue[i + 1]
  <2>1. queue \in Seq(Calls) /\ queue # <<>> /\ queue' = Tail(queue)
    BY DEF Tagging!Save, Tagging!Due, TagsInv, TagsTyped
  <2>2. PICK n \in Nat : n = Len(queue) /\ DOMAIN queue = 1 .. n /\ n > 0
    BY <2>1
  <2>3. queue' \in Seq(Calls) /\ DOMAIN queue' = 1 .. (n - 1) /\ \A i \in 1 .. (n - 1) : queue'[i] = queue[i + 1]
    BY <2>1, <2>2
  <2> QED BY <2>2, <2>3
<1>5. \A i \in DOMAIN queue' : i \in Nat /\ i + 1 \in DOMAIN queue /\ i + 1 # 1 /\ queue'[i] = queue[i + 1]
  BY <1>4
<1>6. \A i \in DOMAIN queue' : queue'[i] # c
  BY <1>1, <1>5 DEF TagsInv, TagsTyped
<1>7. CASE b = <<>>
  <2>1. PICK x \in {400, 404, 500} : Tagging!Answer(c, op, x)
    <3>1. Tagging!Answer(c, op, IF op.do = "PATCH" THEN 404 ELSE 500)
      <4> DEFINE h == Head(queue)
      <4>1. Tagging!Saved(call[h].op, tags) = <<>>
        BY <1>1, <1>2, <1>3, <1>7
      <4>2. Tagging!Answer(h, call[h].op, IF call[h].op.do = "PATCH" THEN 404 ELSE 500)
        BY <4>1, Zenon DEF Tagging!Save
      <4> QED BY <1>1, <1>2, <4>2
    <3>2. CASE op.do = "PATCH"
      BY <3>1, <3>2
    <3>3. CASE op.do # "PATCH"
      BY <3>1, <3>3
    <3> QED BY <3>2, <3>3
  <2>2. UNCHANGED <<tags, loaded, disk, overlapped>> /\ UNCHANGED staged /\ staged.by = 0
    BY <1>1, <1>2, <1>3, <1>7 DEF Tagging!Save, Tagging!Due
  <2>3. c # staged'.by
    BY <2>2 DEF Tagging!Inputs
  <2>4. queue # <<>> /\ queue' = Tail(queue)
    BY DEF Tagging!Save, Tagging!Due
  <2> QED BY <1>6, <2>1, <2>2, <2>3, <2>4, TagsRefused
<1>8. CASE b # <<>>
  <2>1. /\ staged'.by = c /\ staged'.value = b /\ UNCHANGED <<call, loaded, disk, overlapped>> /\ loaded
        /\ tags' = IF op.do = "DELETE" THEN b ELSE tags
    BY <1>1, <1>2, <1>3, <1>8 DEF Tagging!Save, Tagging!Due
  <2>2. Good(tags, op, b)
    BY <1>3, <1>8, Saving DEF TagsInv, TagsTyped, TagsOrdered
  <2>3. TagsTyped'
    <3>1. tags' \in Seq(TagRecs) /\ staged'.value \in Seq(TagRecs)
      BY <2>1, <2>2 DEF Good, TagsInv, TagsTyped
    <3>2. \A i, j \in DOMAIN queue' : queue'[i] = queue'[j] => i = j
      <4> SUFFICES ASSUME NEW i \in DOMAIN queue', NEW j \in DOMAIN queue', queue'[i] = queue'[j] PROVE i = j
        OBVIOUS
      <4>1. i + 1 = j + 1 /\ i \in Nat /\ j \in Nat
        BY <1>5 DEF TagsInv, TagsTyped
      <4> QED BY <4>1
    <3>3. \A i \in DOMAIN queue' : call'[queue'[i]].pc = "waiting" /\ queue'[i] # staged'.by
      BY <1>5, <1>6, <2>1 DEF TagsInv, TagsTyped
    <3> QED BY <1>1, <1>4, <2>1, <3>1, <3>2, <3>3 DEF TagsInv, TagsTyped
  <2>4. TagsOrdered'
    <3>1. Tagging!Rising(tags') /\ Marked(disk, tags')
      BY <2>1, <2>2, MarkedOn DEF Good, TagsInv, TagsOrdered
    <3>2. Grown(disk, b)
      BY <2>1, <2>2, MarkedOn DEF Good, TagsInv, TagsOrdered, Marked
    <3>3. Tagging!Rising(b) /\ Meant(op, b)
      BY <2>2 DEF Good
    <3> QED BY <1>2, <2>1, <3>1, <3>2, <3>3 DEF TagsInv, TagsOrdered
  <2>5. TagsNamed'
    <3> SUFFICES ASSUME ~overlapped PROVE TagsNamed'
      BY <2>1 DEF TagsNamed
    <3>1. op.do = "DELETE" \/ ~Clashes(tags, op)
      BY <1>1, <1>2 DEF TagsInv, TagsNamed, Tagging!Naming, Tagging!Inputs
    <3>2. Tagging!Differing(b) /\ Tagging!Differing(tags')
      BY <2>1, <2>2, <3>1 DEF Good, TagsInv, TagsNamed
    <3>3. \A d \in Calls : Tagging!Naming(d)' => Tagging!Naming(d)
      BY <2>1 DEF Tagging!Naming
    <3>4. ASSUME NEW o, ~Clashes(tags, o) PROVE ~Clashes(tags', o)
      BY <2>1, <2>2, <3>4 DEF Good, Marked, Grown, Clashes
    <3> QED BY <2>1, <3>2, <3>3, <3>4 DEF TagsInv, TagsNamed
  <2>6. TagsTold'
    BY <2>1 DEF TagsInv, TagsTold, Tagging!ToldTags
  <2> QED BY <2>3, <2>4, <2>5, <2>6 DEF TagsInv
<1> QED BY <1>7, <1>8

LEMMA TagsWritten ==
  ASSUME Tagging!Inputs, TagsInv, Tagging!Written
  PROVE  TagsInv' /\ Grown(disk, disk')
<1>1. PICK c \in Calls : c = staged.by /\ c # 0 /\ call[c].pc = "waiting" /\ call[c].op \in Ops
  BY DEF Tagging!Written, TagsInv, TagsTyped
<1>2. PICK b \in Seq(TagRecs) : b = staged.value
  BY DEF Tagging!Written, TagsInv, TagsTyped
<1>3. PICK op \in Ops : op = call[c].op
  BY <1>1
<1>4. /\ tags' = b /\ disk' = b /\ staged'.by = 0 /\ UNCHANGED <<loaded, queue, overlapped>> /\ loaded
  BY <1>1, <1>2 DEF Tagging!Written, Tagging!Free, TagsInv, TagsTyped
<1>5. /\ DOMAIN call' = Calls /\ call'[c].pc = "done" /\ call'[c].answer = 200 /\ call'[c].op = op
      /\ call'[c].id = IF op.do = "POST" THEN Tagging!Last(b).id ELSE op.id
      /\ \A d \in Calls : d # c => call'[d] = call[d]
  BY <1>1, <1>2, <1>3 DEF Tagging!Written, TagsInv, TagsTyped
<1>6. Tagging!Rising(b) /\ Grown(disk, b) /\ Meant(op, b) /\ (op.do = "DELETE" => b = tags)
  BY <1>1, <1>2, <1>3 DEF TagsInv, TagsOrdered
<1>7. TagsTyped'
  <2>1. /\ queue \in Seq(Calls) /\ \A i, j \in DOMAIN queue : queue[i] = queue[j] => i = j
        /\ \A i \in DOMAIN queue : call[queue[i]].pc = "waiting" /\ queue[i] # c
    BY <1>1 DEF TagsInv, TagsTyped
  <2>2. \A i \in DOMAIN queue' : call'[queue'[i]].pc = "waiting" /\ queue'[i] # staged'.by
    <3>1. \A i \in DOMAIN queue : queue[i] \in Calls /\ queue[i] # 0
      BY <2>1 DEF Tagging!Inputs
    <3> QED BY <1>4, <1>5, <2>1, <3>1
  <2>3. \A d \in Calls : call'[d].pc \in {"idle", "waiting", "done"} /\ call'[d].answer \in {0, 200, 400, 404, 500}
    BY <1>5 DEF TagsInv, TagsTyped
  <2>4. \A d \in Calls : call'[d].pc = "waiting" => call'[d].op \in Ops
    BY <1>5 DEF TagsInv, TagsTyped
  <2>5. loaded' \in BOOLEAN /\ overlapped' \in BOOLEAN /\ tags' \in Seq(TagRecs) /\ disk' \in Seq(TagRecs)
    BY <1>4 DEF TagsInv, TagsTyped
  <2> QED BY <1>4, <1>5, <2>1, <2>2, <2>3, <2>4, <2>5 DEF TagsTyped
<1>8. TagsOrdered'
  BY <1>4, <1>6 DEF TagsOrdered, Marked, Grown
<1>9. TagsNamed'
  <2> SUFFICES ASSUME ~overlapped PROVE TagsNamed'
    BY <1>4 DEF TagsNamed
  <2>1. Tagging!Differing(b)
    BY <1>1, <1>2 DEF TagsInv, TagsNamed
  <2>2. \A d \in Calls : Tagging!Naming(d)' => d # c /\ Tagging!Naming(d) /\ call'[d] = call[d]
    BY <1>5 DEF Tagging!Naming
  <2>3. ASSUME NEW d \in Calls, Tagging!Naming(d)' PROVE ~Clashes(tags', call'[d].op)
    <3>1. ~Tagging!Naming(c)
      BY <2>2, <2>3 DEF TagsInv, TagsNamed
    <3>2. op.do = "DELETE"
      BY <1>1, <1>3, <3>1 DEF Tagging!Naming, Tagging!Inputs
    <3>3. tags' = tags
      BY <1>4, <1>6, <3>2
    <3>4. ~Clashes(tags, call[d].op) /\ call'[d] = call[d]
      BY <2>2, <2>3 DEF TagsInv, TagsNamed
    <3> QED BY <3>3, <3>4
  <2> QED BY <1>4, <2>1, <2>2, <2>3 DEF TagsInv, TagsNamed
<1>10. TagsTold'
  <2>1. ASSUME NEW d \in Calls, d # c, call'[d].answer = 200
        PROVE  \E i \in DOMAIN disk' : /\ disk'[i].id = call'[d].id /\ disk'[i].creator = call'[d].op.user
                                       /\ call'[d].op.do = "DELETE" => disk'[i].deleted
    <3>1. PICK i \in DOMAIN disk : /\ disk[i].id = call[d].id /\ disk[i].creator = call[d].op.user
                                   /\ call[d].op.do = "DELETE" => disk[i].deleted
      BY <1>5, <2>1 DEF TagsInv, TagsTold, Tagging!ToldTags
    <3> QED BY <1>4, <1>5, <1>6, <2>1, <3>1 DEF Grown
  <2>2. \E i \in DOMAIN b : /\ b[i].id = call'[c].id /\ b[i].creator = op.user
                            /\ op.do = "DELETE" => b[i].deleted
    <3>1. CASE op.do = "POST"
      <4>1. b # <<>> /\ Last(b) = b[Len(b)] /\ Tagging!Last(b) = b[Len(b)] /\ Last(b).creator = op.user
        BY <1>6, <3>1 DEF Meant, Last, Tagging!Last
      <4>2. Len(b) \in DOMAIN b
        BY <4>1
      <4> QED BY <1>5, <3>1, <4>1, <4>2
    <3>2. CASE op.do # "POST"
      BY <1>5, <1>6, <3>2 DEF Meant
    <3> QED BY <3>1, <3>2
  <2> QED BY <1>4, <1>5, <2>1, <2>2 DEF TagsInv, TagsTold, Tagging!ToldTags
<1> QED BY <1>4, <1>6, <1>7, <1>8, <1>9, <1>10 DEF TagsInv

LEMMA TagsElse ==
  ASSUME Tagging!Inputs, TagsInv, Tagging!WriteFails \/ Tagging!Load \/ Tagging!Crash
  PROVE  TagsInv'
<1>1. CASE Tagging!WriteFails
  <2>1. PICK c \in Calls : c = staged.by /\ c # 0
    BY <1>1 DEF Tagging!WriteFails, TagsInv, TagsTyped
  <2>2. Tagging!Answer(c, call[c].op, 500)
    BY <1>1, <2>1, Zenon DEF Tagging!WriteFails
  <2>3. staged'.by = 0 /\ UNCHANGED <<tags, loaded, disk, queue, overlapped>>
    BY <1>1 DEF Tagging!WriteFails, Tagging!Free
  <2>4. \A i \in DOMAIN queue' : queue'[i] # c
    BY <2>1, <2>3 DEF TagsInv, TagsTyped
  <2> QED BY <2>1, <2>2, <2>3, <2>4, TagsRefused
<1>2. CASE Tagging!Load
  <2>1. ~loaded /\ loaded' /\ tags' = disk /\ UNCHANGED <<disk, queue, staged, call, overlapped>> /\ staged.by = 0
    BY <1>2 DEF Tagging!Load, TagsInv, TagsTyped
  <2>2. TagsTyped'
    BY <1>2, <2>1 DEF TagsInv, TagsTyped, Tagging!Load
  <2>3. TagsOrdered'
    BY <2>1 DEF TagsInv, TagsOrdered, Marked, Grown
  <2>4. \A c \in Calls : ~overlapped => ~Tagging!Naming(c)'
    BY <2>1 DEF TagsInv, TagsNamed, Tagging!Naming
  <2>5. TagsNamed'
    BY <2>1, <2>4 DEF TagsInv, TagsNamed
  <2>6. TagsTold'
    BY <2>1 DEF TagsInv, TagsTold, Tagging!ToldTags
  <2> QED BY <2>2, <2>3, <2>5, <2>6 DEF TagsInv
<1>3. CASE Tagging!Crash
  <2>1. /\ loaded' = FALSE /\ tags' = <<>> /\ queue' = <<>> /\ staged'.by = 0 /\ UNCHANGED <<disk, overlapped>>
    BY <1>3 DEF Tagging!Crash, Tagging!Free
  <2>2. ASSUME NEW c \in Calls
        PROVE  /\ call'[c].pc \in {"idle", "done"} /\ call'[c].answer = call[c].answer
               /\ call'[c].id = call[c].id /\ call'[c].op = call[c].op
               /\ call'[c].answer = 200 => call'[c].pc = "done"
    <3>1. CASE call[c].pc = "waiting"
      <4>1. call'[c] = [call[c] EXCEPT !.pc = "done"]
        BY <1>3, <3>1 DEF Tagging!Crash
      <4> QED BY <4>1
    <3>2. CASE call[c].pc # "waiting"
      <4>1. call'[c] = call[c]
        BY <1>3, <3>2 DEF Tagging!Crash
      <4> QED BY <3>2, <4>1 DEF TagsInv, TagsTyped, TagsTold
    <3> QED BY <3>1, <3>2
  <2>3. TagsTyped'
    <3>1. tags' \in Seq(TagRecs) /\ queue' \in Seq(Calls) /\ DOMAIN queue' = {}
      BY <2>1
    <3>2. DOMAIN call' = Calls
      BY <1>3 DEF Tagging!Crash
    <3>3. \A c \in Calls : call'[c].pc \in {"idle", "waiting", "done"} /\ call'[c].answer \in {0, 200, 400, 404, 500}
      BY <2>2 DEF TagsInv, TagsTyped
    <3>4. \A c \in Calls : call'[c].pc # "waiting"
      BY <2>2
    <3>5. loaded' \in BOOLEAN /\ overlapped' \in BOOLEAN /\ disk' \in Seq(TagRecs) /\ staged'.by \in Calls \cup {0}
      BY <2>1 DEF TagsInv, TagsTyped
    <3> QED BY <2>1, <3>1, <3>2, <3>3, <3>4, <3>5 DEF TagsTyped
  <2>4. TagsOrdered'
    <3>1. DOMAIN tags' = {}
      BY <2>1
    <3> QED BY <2>1, <3>1 DEF TagsInv, TagsOrdered, Tagging!Rising
  <2>5. TagsNamed'
    <3>1. DOMAIN tags' = {}
      BY <2>1
    <3> QED BY <2>1, <2>2, <3>1 DEF TagsInv, TagsNamed, Tagging!Differing, Tagging!Naming
  <2>6. TagsTold'
    BY <2>1, <2>2 DEF TagsInv, TagsTold, Tagging!ToldTags
  <2> QED BY <2>3, <2>4, <2>5, <2>6 DEF TagsInv
<1> QED BY <1>1, <1>2, <1>3

LEMMA TagsStep ==
  ASSUME Tagging!Inputs, TagsInv, [Tagging!Next]_(Tagging!vars)
  PROVE  TagsInv' /\ Grown(disk, disk')
<1>1. CASE UNCHANGED Tagging!vars
  BY <1>1 DEF Tagging!vars, TagsInv, TagsTyped, TagsOrdered, TagsNamed, TagsTold, Tagging!ToldTags,
              Tagging!Naming, Grown
<1>2. CASE Tagging!Written
  BY <1>2, TagsWritten
<1>3. disk' = disk => Grown(disk, disk')
  BY DEF Grown
<1>4. CASE Tagging!Save
  <2>1. disk' = disk
    BY <1>4 DEF Tagging!Save
  <2> QED BY <1>3, <1>4, <2>1, TagsSaved
<1>5. CASE Tagging!WriteFails \/ Tagging!Load \/ Tagging!Crash
  <2>1. disk' = disk
    BY <1>5 DEF Tagging!WriteFails, Tagging!Load, Tagging!Crash
  <2> QED BY <1>3, <1>5, <2>1, TagsElse
<1>6. ASSUME NEW c \in Calls, NEW op \in Ops, Tagging!Ask(c, op) PROVE TagsInv' /\ Grown(disk, disk')
  <2>1. disk' = disk
    BY <1>6 DEF Tagging!Ask
  <2>2. CASE Tagging!Checked(op) = 200
    BY <1>3, <1>6, <2>1, <2>2, TagsAsked
  <2>3. CASE Tagging!Checked(op) # 200
    <3>1. PICK x : x = Tagging!Checked(op)
      OBVIOUS
    <3>2. x \in {400, 404}
      <4> DEFINE p == op.do \in {"POST", "PATCH"} /\ (op.name = "" \/ Tagging!Repeated(op))
                 q == op.do = "DELETE" /\ ~(\E i \in DOMAIN tags : tags[i].id = op.id /\ tags[i].creator = op.user)
      <4>1. Tagging!Checked(op) = CASE p -> 400 [] q -> 404 [] OTHER -> 200
        BY DEF Tagging!Checked
      <4>2. p => ~q
        OBVIOUS
      <4>3. p \in BOOLEAN /\ q \in BOOLEAN
        BY DEF Tagging!Repeated
      <4> HIDE DEF p, q
      <4> QED BY <2>3, <3>1, <4>1, <4>2, <4>3
    <3>3. Tagging!Answer(c, op, x)
      BY <1>6, <2>3, <3>1, Zenon DEF Tagging!Ask
    <3>4. UNCHANGED <<tags, loaded, disk, overlapped, staged, queue>> /\ call[c].pc = "idle"
      BY <1>6, <2>3 DEF Tagging!Ask
    <3>5. c # staged'.by /\ \A i \in DOMAIN queue' : queue'[i] # c
      BY <3>4 DEF TagsInv, TagsTyped, Tagging!Inputs
    <3> QED BY <1>3, <2>1, <3>2, <3>3, <3>4, <3>5, TagsRefused
  <2> QED BY <2>2, <2>3
<1> QED BY <1>1, <1>2, <1>4, <1>5, <1>6 DEF Tagging!Next, Tagging!Proceed

\* src/src/tags/Tag.js: the ids of the tags grow, in memory and in the file, and a user's
\* names differ, unless two calls gave a name at once or one before the store was loaded.
THEOREM TagsAreTidy == Tagging!Inputs => (Tagging!Spec => []Tagging!Tidy)
<1> SUFFICES ASSUME Tagging!Inputs PROVE Tagging!Spec => []Tagging!Tidy
  OBVIOUS
<1>1. Tagging!Init => TagsInv
  BY TagsBegin
<1>2. TagsInv /\ [Tagging!Next]_(Tagging!vars) => TagsInv'
  BY TagsStep
<1>3. TagsInv => Tagging!Tidy
  BY DEF TagsInv, TagsOrdered, TagsNamed, Tagging!Tidy
<1> QED BY <1>1, <1>2, <1>3, PTL DEF Tagging!Spec

\* Who was told that a tag is made, renamed or deleted finds it so in the file, after any
\* failures and crashes.
THEOREM TagsAreAsTold == Tagging!Inputs => (Tagging!Spec => []Tagging!ToldTags)
<1> SUFFICES ASSUME Tagging!Inputs PROVE Tagging!Spec => []Tagging!ToldTags
  OBVIOUS
<1>1. Tagging!Init => TagsInv
  BY TagsBegin
<1>2. TagsInv /\ [Tagging!Next]_(Tagging!vars) => TagsInv'
  BY TagsStep
<1>3. TagsInv => Tagging!ToldTags
  BY DEF TagsInv, TagsTold
<1> QED BY <1>1, <1>2, <1>3, PTL DEF Tagging!Spec

\* No tag leaves the file, changes its owner or comes back from deletion.
THEOREM TagsAreKept == Tagging!Inputs => (Tagging!Spec => [][Tagging!Kept]_(Tagging!vars))
<1> SUFFICES ASSUME Tagging!Inputs PROVE Tagging!Spec => [][Tagging!Kept]_(Tagging!vars)
  OBVIOUS
<1>1. Tagging!Init => TagsInv
  BY TagsBegin
<1>2. TagsInv /\ [Tagging!Next]_(Tagging!vars) => TagsInv'
  BY TagsStep
<1>3. TagsInv /\ [Tagging!Next]_(Tagging!vars) => [Tagging!Kept]_(Tagging!vars)
  BY TagsStep DEF Tagging!Kept, Grown
<1> QED BY <1>1, <1>2, <1>3, PTL DEF Tagging!Spec

-----------------------------------------------------------------------------
(* Samba.                                                                  *)

Shares == INSTANCE Samba

Changes == [shares : Nat, usbs : Nat]
\* Sets the records are of, which most steps need not look into.
Some == SUBSET Holders
Passwords == [Holders -> Int]
SvcRecs == [state : {"Detecting", "Starting", "Started", "Stopping", "Stopped", "Failed"},
            sub : {"none", "idle", "pending", "refreshing"}, again : BOOLEAN, failed : BOOLEAN,
            dropped : Some, cbs : SUBSET Calls]
RunRecs == [pc : {"none", "users", "import", "conf", "restart", "again"}, snap : Nat, mine : BOOLEAN,
            dropped : Some]
Temps == [at : Nat, who : Some]
BoxRecs == [sys : Some, passwords : Passwords, conf : Changes, read : Changes,
            active : BOOLEAN, tmp : Temps, hasTmp : BOOLEAN]
SharesTyped ==
  /\ now \in Changes /\ svc \in SvcRecs /\ refresh \in [{1, 2} -> RunRecs] /\ box \in BoxRecs
  /\ overlapped \in BOOLEAN
\* The refresh of Started is one; another one is under way only when it was left.
SharesApart ==
  /\ svc.sub # "none" => svc.state = "Started"
  /\ \A r \in {1, 2} : refresh[r].mine => refresh[r].pc # "none" /\ svc.sub = "refreshing"
  /\ \A r, q \in {1, 2} : refresh[r].mine /\ refresh[q].mine => r = q
  /\ svc.sub = "refreshing" => \E r \in {1, 2} : refresh[r].mine
  /\ ~overlapped => \A r \in {1, 2} : refresh[r].pc # "none" => refresh[r].mine
\* The passwords of all but some are the last ones.
InForce(but) == \A u \in Holders \ but : box.passwords[u] = Shares!Password(now.shares, u)
\* They are, once the file for pdbedit is imported.
Ready(but) ==
  /\ box.tmp.at = now.shares
  /\ \A u \in Holders \ but : IF u \in Shares!With(now.shares) THEN u \in box.tmp.who
                             ELSE u \notin box.tmp.who /\ box.passwords[u] = Shares!None
\* What a refresh that no change has met has carried so far.
Carried(r) ==
  /\ refresh[r].snap = now.shares
  /\ refresh[r].pc = "import" => Ready(refresh[r].dropped)
  /\ refresh[r].pc \in {"conf", "restart", "again"} => InForce(refresh[r].dropped)
  /\ refresh[r].pc \in {"restart", "again"} => box.conf = now
SharesServed ==
  ~overlapped =>
    /\ \A r \in {1, 2} : refresh[r].mine /\ ~svc.again => Carried(r)
    /\ svc.sub = "idle" /\ ~svc.failed => box.active /\ box.read = now /\ InForce(svc.dropped)
    /\ svc.state \in {"Detecting", "Stopped"} => ~box.active
SharesInv == SharesTyped /\ SharesApart /\ SharesServed

LEMMA SharesEntered == \A s \in {"Detecting", "Starting", "Started", "Stopping", "Stopped", "Failed"} :
  /\ Shares!Enter(s) \in SvcRecs
  /\ Shares!Enter(s).state = s /\ Shares!Enter(s).sub = "none" /\ Shares!Enter(s).again = FALSE
BY DEF Shares!Enter, SvcRecs, Some

\* Begin() takes a number that is free.
LEMMA SharesBegun ==
  ASSUME SharesInv, NEW s \in SvcRecs, s.state = "Started", Shares!Begin(s), svc.sub # "refreshing",
         UNCHANGED <<now, overlapped>>, box' \in BoxRecs
  PROVE  SharesInv'
<1> DEFINE New == [Shares!Off EXCEPT !.pc = "users", !.snap = now.shares, !.mine = TRUE]
<1>1. PICK r \in {1, 2} : /\ refresh[r].pc = "none"
                          /\ refresh' = [refresh EXCEPT ![r] = New]
  <2>1. Shares!Free # {}
    BY DEF Shares!Begin
  <2>2. \E r \in Shares!Free : \A q \in Shares!Free : r <= q
    BY <2>1 DEF Shares!Free, Shares!Runs
  <2>3. Shares!Number \in Shares!Free
    BY <2>2 DEF Shares!Number
  <2>4. refresh' = [refresh EXCEPT ![Shares!Number] = New]
    BY DEF Shares!Begin
  <2> QED BY <2>3, <2>4 DEF Shares!Free, Shares!Runs
<1>2. svc' = [s EXCEPT !.sub = "refreshing"]
  BY DEF Shares!Begin
<1>3. svc' \in SvcRecs /\ svc'.state = "Started" /\ svc'.sub = "refreshing"
  BY <1>2 DEF SvcRecs
<1>4. PICK n \in Nat : n = now.shares
  BY DEF SharesInv, SharesTyped, Changes
<1>5. PICK e \in RunRecs : e = New /\ e.pc = "users" /\ e.snap = n /\ e.mine
  <2>1. PICK o \in RunRecs : o = Shares!Off
    BY DEF Shares!Off, RunRecs, Some
  <2>2. PICK e : e = [o EXCEPT !.pc = "users", !.snap = n, !.mine = TRUE]
    OBVIOUS
  <2>3. e \in RunRecs /\ e.pc = "users" /\ e.snap = n /\ e.mine
    BY <2>2 DEF RunRecs
  <2>4. e = New
    BY <1>4, <2>1, <2>2
  <2> QED BY <2>3, <2>4
<1> HIDE DEF New
<1>6. refresh' \in [{1, 2} -> RunRecs] /\ refresh'[r] = e /\ \A q \in {1, 2} : q # r => refresh'[q] = refresh[q]
  BY <1>1, <1>5 DEF SharesInv, SharesTyped
<1>7. SharesTyped'
  BY <1>3, <1>6 DEF SharesInv, SharesTyped
<1>8. \A q \in {1, 2} : ~refresh[q].mine
  BY DEF SharesInv, SharesApart
<1>9. SharesApart'
  BY <1>3, <1>5, <1>6, <1>8 DEF SharesInv, SharesApart
<1>10. SharesServed'
  BY <1>3, <1>4, <1>5, <1>6, <1>8 DEF SharesServed, Carried
<1> QED BY <1>7, <1>9, <1>10 DEF SharesInv

LEMMA SharesOver ==
  ASSUME SharesInv, NEW r \in {1, 2}, refresh[r].pc # "none", NEW failed \in BOOLEAN, Shares!Over(r, failed),
         UNCHANGED <<now, overlapped>>, box' \in BoxRecs,
         ~overlapped /\ ~svc.again /\ ~failed =>
           /\ box'.active /\ box'.read = now
           /\ \A u \in Holders \ refresh[r].dropped : box'.passwords[u] = Shares!Password(now.shares, u)
  PROVE  SharesInv'
<1>1. PICK e \in RunRecs : e = Shares!Off /\ e.pc = "none" /\ ~e.mine
  <2>1. Shares!Off \in RunRecs /\ Shares!Off.pc = "none" /\ Shares!Off.mine = FALSE
    BY DEF Shares!Off, RunRecs, Some
  <2> QED BY <2>1
<1>2. refresh' \in [{1, 2} -> RunRecs] /\ refresh'[r] = e /\ \A q \in {1, 2} : q # r => refresh'[q] = refresh[q]
  BY <1>1 DEF SharesInv, SharesTyped, Shares!Over
<1>3. CASE ~refresh[r].mine
  <2>1. svc' = svc
    BY <1>3 DEF Shares!Over
  <2>2. overlapped
    BY <1>3 DEF SharesInv, SharesApart
  <2>3. SharesTyped'
    BY <1>2, <2>1 DEF SharesInv, SharesTyped
  <2>4. SharesApart'
    BY <1>1, <1>2, <1>3, <2>1, <2>2 DEF SharesInv, SharesApart
  <2> QED BY <2>2, <2>3, <2>4 DEF SharesInv, SharesServed
<1>4. CASE refresh[r].mine
  <2>1. PICK sub : sub = (IF svc.again THEN "pending" ELSE "idle")
    OBVIOUS
  <2>2. svc' = [svc EXCEPT !.sub = sub, !.again = FALSE, !.failed = failed,
                            !.dropped = refresh[r].dropped]
    BY <1>4, <2>1 DEF Shares!Over
  <2>3. svc' \in SvcRecs /\ svc'.sub = sub /\ svc'.failed = failed /\ svc'.state = svc.state /\ svc'.again = FALSE
        /\ svc'.dropped = refresh[r].dropped
    <3>1. PICK d \in Some : d = refresh[r].dropped
      BY DEF SharesInv, SharesTyped, RunRecs
    <3> QED BY <2>1, <2>2, <3>1 DEF SharesInv, SharesTyped, SvcRecs
  <2>4. svc.state = "Started" /\ \A q \in {1, 2} : q # r => ~refresh[q].mine
    BY <1>4 DEF SharesInv, SharesApart
  <2>5. SharesTyped'
    BY <1>2, <2>3 DEF SharesInv, SharesTyped
  <2>6. SharesApart'
    BY <1>1, <1>2, <2>1, <2>3, <2>4 DEF SharesInv, SharesApart
  <2>7. SharesServed'
    BY <1>1, <1>2, <2>1, <2>3, <2>4 DEF SharesServed, InForce, Shares!Password, Shares!With
  <2> QED BY <2>5, <2>6, <2>7 DEF SharesInv
<1> QED BY <1>3, <1>4

LEMMA SharesOn ==
  ASSUME SharesInv, NEW r \in {1, 2}, refresh[r].pc # "none", NEW e \in RunRecs,
         refresh' = [refresh EXCEPT ![r] = e], e.pc # "none", e.mine = refresh[r].mine,
         UNCHANGED <<now, svc, overlapped>>, box' \in BoxRecs,
         ~overlapped /\ ~svc.again /\ refresh[r].mine => Carried(r)'
  PROVE  SharesInv'
<1>1. refresh' \in [{1, 2} -> RunRecs] /\ refresh'[r] = e /\ \A q \in {1, 2} : q # r => refresh'[q] = refresh[q]
  BY DEF SharesInv, SharesTyped
<1>2. SharesTyped'
  BY <1>1 DEF SharesInv, SharesTyped
<1>3. SharesApart'
  BY <1>1 DEF SharesInv, SharesApart
<1>4. SharesServed'
  BY <1>1 DEF SharesInv, SharesApart, SharesServed
<1> QED BY <1>2, <1>3, <1>4 DEF SharesInv

LEMMA SharesTo ==
  ASSUME SharesInv, NEW r \in {1, 2}, NEW pc \in {"import", "conf", "restart", "again"}, Shares!To(r, pc)
  PROVE  \E e \in RunRecs : /\ refresh' = [refresh EXCEPT ![r] = e] /\ UNCHANGED svc
                            /\ e.pc = pc /\ e.mine = refresh[r].mine /\ e.snap = refresh[r].snap
                            /\ e.dropped = refresh[r].dropped
<1>1. PICK f \in RunRecs : f = refresh[r]
  BY DEF SharesInv, SharesTyped
<1>2. PICK e : e = [f EXCEPT !.pc = pc]
  OBVIOUS
<1>3. e \in RunRecs /\ e.pc = pc /\ e.mine = f.mine /\ e.snap = f.snap /\ e.dropped = f.dropped
  BY <1>2 DEF RunRecs
<1>4. refresh' = [refresh EXCEPT ![r] = e] /\ UNCHANGED svc
  BY <1>1, <1>2 DEF Shares!To
<1> QED BY <1>1, <1>3, <1>4

\* What leaves the refreshes alone, and Started unless none of its refreshes goes on.
LEMMA SharesAside ==
  ASSUME SharesInv, UNCHANGED <<now, refresh, overlapped>>, svc' \in SvcRecs, box' \in BoxRecs,
         svc'.sub = "none", svc.sub # "refreshing",
         svc'.state \in {"Detecting", "Stopped"} => ~box'.active
  PROVE  SharesInv'
<1>1. \A r \in {1, 2} : ~refresh[r].mine
  BY DEF SharesInv, SharesApart
<1>2. SharesTyped'
  BY DEF SharesInv, SharesTyped
<1>3. SharesApart'
  BY <1>1 DEF SharesInv, SharesApart
<1>4. SharesServed'
  BY <1>1 DEF SharesServed
<1> QED BY <1>2, <1>3, <1>4 DEF SharesInv

\* A change that is met by a refresh has it repeated.
LEMMA SharesChanged ==
  ASSUME SharesInv, UNCHANGED <<refresh, overlapped, box>>, now' \in Changes,
         svc' = Shares!Update(svc) \/ (UNCHANGED now /\ svc' \in SvcRecs /\ svc'.state = svc.state
                                       /\ svc'.sub = svc.sub /\ svc'.again = svc.again /\ svc'.failed = svc.failed
                                       /\ svc'.dropped = svc.dropped)
  PROVE  SharesInv'
<1>1. CASE svc' = Shares!Update(svc)
  <2>1. /\ svc' \in SvcRecs /\ svc'.state = svc.state
        /\ svc'.sub = IF svc.sub = "idle" THEN "pending" ELSE svc.sub
        /\ svc.sub = "refreshing" => svc'.again
    BY <1>1 DEF Shares!Update, SharesInv, SharesTyped, SvcRecs
  <2>2. SharesTyped'
    BY <2>1 DEF SharesInv, SharesTyped
  <2>3. SharesApart'
    BY <2>1 DEF SharesInv, SharesApart
  <2>4. SharesServed'
    BY <2>1 DEF SharesInv, SharesApart, SharesServed
  <2> QED BY <2>2, <2>3, <2>4 DEF SharesInv
<1>2. CASE /\ UNCHANGED now /\ svc' \in SvcRecs /\ svc'.state = svc.state
           /\ svc'.sub = svc.sub /\ svc'.again = svc.again /\ svc'.failed = svc.failed
           /\ svc'.dropped = svc.dropped
  <2>1. SharesTyped'
    BY <1>2 DEF SharesInv, SharesTyped
  <2>2. SharesApart'
    BY <1>2 DEF SharesInv, SharesApart
  <2>3. SharesServed'
    BY <1>2 DEF SharesInv, SharesServed, Carried, Ready, InForce, Shares!Password, Shares!With
  <2> QED BY <2>1, <2>2, <2>3 DEF SharesInv
<1> QED BY <1>1, <1>2

LEMMA SharesStop ==
  ASSUME SharesInv, NEW c \in Calls, Shares!Stop(c)
  PROVE  SharesInv'
<1>1. UNCHANGED <<now, box>> /\ box \in BoxRecs
  BY DEF Shares!Stop, SharesInv, SharesTyped
<1>2. CASE svc.state = "Started"
  <2>1. svc' = [Shares!Enter("Stopping") EXCEPT !.cbs = {c}] /\ refresh' = Shares!Leave
        /\ overlapped' = (overlapped \/ svc.sub = "refreshing")
    BY <1>2 DEF Shares!Stop
  <2>2. svc' \in SvcRecs /\ svc'.state = "Stopping" /\ svc'.sub = "none"
    <3>1. PICK s \in SvcRecs : s = Shares!Enter("Stopping") /\ s.state = "Stopping" /\ s.sub = "none"
      BY SharesEntered
    <3>2. svc' = [s EXCEPT !.cbs = {c}]
      BY <2>1, <3>1
    <3> QED BY <3>1, <3>2 DEF SvcRecs
  <2>3. ASSUME NEW r \in {1, 2}
        PROVE  refresh'[r] \in RunRecs /\ refresh'[r].mine = FALSE /\ refresh'[r].pc = refresh[r].pc
    <3>1. PICK f \in RunRecs : f = refresh[r]
      BY DEF SharesInv, SharesTyped
    <3>2. refresh'[r] = [f EXCEPT !.mine = FALSE]
      BY <2>1, <3>1 DEF Shares!Leave, Shares!Runs
    <3> QED BY <3>1, <3>2 DEF RunRecs
  <2>4. refresh' \in [{1, 2} -> RunRecs]
    <3>1. refresh' = [r \in {1, 2} |-> refresh'[r]]
      BY <2>1 DEF Shares!Leave, Shares!Runs
    <3> QED BY <2>3, <3>1
  <2>5. overlapped' \in BOOLEAN /\ (~overlapped' => ~overlapped /\ \A r \in {1, 2} : refresh[r].pc = "none")
    BY <2>1 DEF SharesInv, SharesTyped, SharesApart
  <2>6. SharesTyped'
    BY <1>1, <2>2, <2>4, <2>5 DEF SharesInv, SharesTyped
  <2>7. SharesApart'
    BY <2>2, <2>3, <2>5 DEF SharesApart
  <2>8. SharesServed'
    BY <2>2, <2>3 DEF SharesServed
  <2> QED BY <2>6, <2>7, <2>8 DEF SharesInv
<1>3. CASE svc.state = "Stopping"
  <2>1. svc' = [svc EXCEPT !.cbs = @ \cup {c}] /\ UNCHANGED <<refresh, overlapped>>
    BY <1>3 DEF Shares!Stop
  <2>2. /\ svc' \in SvcRecs /\ svc'.state = svc.state /\ svc'.sub = svc.sub /\ svc'.again = svc.again
        /\ svc'.failed = svc.failed /\ svc'.dropped = svc.dropped
    BY <2>1 DEF SharesInv, SharesTyped, SvcRecs
  <2> QED BY <1>1, <2>1, <2>2, SharesChanged DEF SharesInv, SharesTyped
<1>4. CASE svc.state \notin {"Started", "Stopping"}
  <2>1. UNCHANGED <<svc, refresh, overlapped>>
    BY <1>4 DEF Shares!Stop
  <2> QED BY <1>1, <2>1, SharesChanged DEF SharesInv, SharesTyped
<1> QED BY <1>2, <1>3, <1>4

LEMMA SharesStart ==
  ASSUME SharesInv, NEW c \in Calls, Shares!Start(c)
  PROVE  SharesInv'
<1>1. UNCHANGED <<now, box, refresh, overlapped>> /\ box \in BoxRecs
  BY DEF Shares!Start, SharesInv, SharesTyped
<1>2. CASE svc.state = "Stopped"
  <2>1. svc' = [Shares!Enter("Starting") EXCEPT !.cbs = {c}]
    BY <1>2 DEF Shares!Start
  <2>2. svc' \in SvcRecs /\ svc'.state = "Starting" /\ svc'.sub = "none" /\ svc.sub # "refreshing"
    <3>1. PICK s \in SvcRecs : s = Shares!Enter("Starting") /\ s.state = "Starting" /\ s.sub = "none"
      BY SharesEntered
    <3>2. svc' = [s EXCEPT !.cbs = {c}]
      BY <2>1, <3>1
    <3>3. svc' \in SvcRecs /\ svc'.state = "Starting" /\ svc'.sub = "none"
      BY <3>1, <3>2 DEF SvcRecs
    <3> QED BY <1>2, <3>3 DEF SharesInv, SharesApart
  <2> QED BY <1>1, <2>2, SharesAside
<1>3. CASE svc.state = "Starting"
  <2>1. svc' = [svc EXCEPT !.cbs = @ \cup {c}]
    BY <1>3 DEF Shares!Start
  <2>2. /\ svc' \in SvcRecs /\ svc'.state = svc.state /\ svc'.sub = svc.sub /\ svc'.again = svc.again
        /\ svc'.failed = svc.failed /\ svc'.dropped = svc.dropped
    BY <2>1 DEF SharesInv, SharesTyped, SvcRecs
  <2> QED BY <1>1, <2>2, SharesChanged DEF SharesInv, SharesTyped
<1>4. CASE svc.state \notin {"Stopped", "Starting"}
  <2>1. UNCHANGED svc
    BY <1>4 DEF Shares!Start
  <2> QED BY <1>1, <2>1, SharesChanged DEF SharesInv, SharesTyped
<1> QED BY <1>2, <1>3, <1>4

LEMMA SharesDone ==
  ASSUME SharesInv, NEW ok \in BOOLEAN,
         Shares!StartDone(ok) \/ Shares!StopDone(ok) \/ Shares!Detected(ok) \/ Shares!DetectFails
  PROVE  SharesInv'
<1>1. /\ UNCHANGED <<now, overlapped>> /\ svc.sub # "refreshing"
      /\ svc.state \in {"Detecting", "Starting", "Stopping"}
  BY DEF Shares!StartDone, Shares!StopDone, Shares!Detected, Shares!DetectFails, SharesInv, SharesApart
<1>2. box' \in BoxRecs
  <2>1. PICK b \in BoxRecs : b = box
    BY DEF SharesInv, SharesTyped
  <2>2. ASSUME NEW x \in BOOLEAN, NEW y \in Changes
        PROVE  [b EXCEPT !.active = x, !.read = y] \in BoxRecs /\ [b EXCEPT !.active = x] \in BoxRecs
    <3>1. PICK e \in BoxRecs : e = b
      OBVIOUS
    <3>2. [e EXCEPT !.active = x] \in BoxRecs
      BY DEF BoxRecs
    <3>3. [e EXCEPT !.active = x, !.read = y] \in BoxRecs
      BY DEF BoxRecs
    <3> QED BY <3>1, <3>2, <3>3
  <2>3. b.active \in BOOLEAN /\ b.conf \in Changes /\ b.read \in Changes
    BY DEF BoxRecs
  <2>4. CASE Shares!StartDone(ok)
    <3>1. box' = [b EXCEPT !.active = b.active \/ ok, !.read = IF ok /\ ~b.active THEN b.conf ELSE b.read]
      BY <2>1, <2>4 DEF Shares!StartDone
    <3>2. PICK x \in BOOLEAN, y \in Changes :
            x = (b.active \/ ok) /\ y = (IF ok /\ ~b.active THEN b.conf ELSE b.read)
      BY <2>3
    <3>3. box' = [b EXCEPT !.active = x, !.read = y]
      BY <3>1, <3>2
    <3> QED BY <2>2, <3>3, Zenon
  <2>5. CASE Shares!StopDone(ok)
    <3>1. box' = [b EXCEPT !.active = FALSE] \/ box' = b
      BY <2>1, <2>5 DEF Shares!StopDone
    <3>2. PICK x \in BOOLEAN : x = FALSE
      OBVIOUS
    <3>3. box' = [b EXCEPT !.active = x] \/ box' = b
      BY <3>1, <3>2
    <3> QED BY <2>2, <2>3, <3>3, Zenon
  <2>6. CASE Shares!Detected(ok)
    <3>1. box' = [b EXCEPT !.active = b.active \/ ok]
      BY <2>1, <2>6 DEF Shares!Detected
    <3>2. PICK x \in BOOLEAN : x = (b.active \/ ok)
      BY <2>3
    <3>3. box' = [b EXCEPT !.active = x]
      BY <3>1, <3>2
    <3> QED BY <2>2, <2>3, <3>3, Zenon
  <2>7. CASE Shares!DetectFails
    BY <2>1, <2>7 DEF Shares!DetectFails
  <2> QED BY <2>4, <2>5, <2>6, <2>7
<1>3. ASSUME NEW t \in {"Failed", "Stopped"}, svc' = Shares!Enter(t), UNCHANGED refresh,
             t = "Stopped" => ~box'.active
      PROVE  SharesInv'
  <2>1. svc' \in SvcRecs /\ svc'.state = t /\ svc'.sub = "none"
    BY <1>3, SharesEntered
  <2>2. svc'.state \in {"Detecting", "Stopped"} => ~box'.active
    BY <1>3, <2>1
  <2> QED BY <1>1, <1>2, <1>3, <2>1, <2>2, SharesAside
<1>4. Shares!Begin(Shares!Enter("Started")) => SharesInv'
  BY <1>1, <1>2, SharesEntered, SharesBegun
<1>5. CASE Shares!StartDone(ok)
  <2>1. CASE ok
    <3>1. Shares!Begin(Shares!Enter("Started"))
      BY <1>5, <2>1, Zenon DEF Shares!StartDone, Shares!StartedRefreshes
    <3> QED BY <1>4, <3>1
  <2>2. CASE ~ok
    <3>1. svc' = Shares!Enter("Failed") /\ UNCHANGED refresh
      BY <1>5, <2>2 DEF Shares!StartDone
    <3> QED BY <1>3, <3>1
  <2> QED BY <2>1, <2>2
<1>6. CASE Shares!StopDone(ok)
  <2>1. svc' = Shares!Enter(IF ok THEN "Stopped" ELSE "Failed") /\ UNCHANGED refresh
    BY <1>6 DEF Shares!StopDone
  <2>2. CASE ok
    <3>1. ~box'.active
      BY <1>6, <2>2 DEF Shares!StopDone, SharesInv, SharesTyped, BoxRecs
    <3> QED BY <1>3, <2>1, <2>2, <3>1
  <2>3. CASE ~ok
    BY <1>3, <2>1, <2>3
  <2> QED BY <2>2, <2>3
<1>7. CASE Shares!Detected(ok)
  <2>1. CASE ok
    <3>1. Shares!Begin(Shares!Enter("Started"))
      BY <1>7, <2>1, Zenon DEF Shares!Detected
    <3> QED BY <1>4, <3>1
  <2>2. CASE ~ok /\ ~overlapped
    <3>1. svc' = Shares!Enter("Stopped") /\ UNCHANGED refresh /\ svc.state = "Detecting"
      BY <1>7, <2>2 DEF Shares!Detected
    <3>2. ~box'.active
      BY <1>7, <2>2, <3>1 DEF Shares!Detected, SharesInv, SharesServed, SharesTyped, BoxRecs
    <3> QED BY <1>3, <3>1, <3>2
  <2>3. CASE ~ok /\ overlapped
    <3>1. svc' = Shares!Enter("Stopped") /\ UNCHANGED refresh
      BY <1>7, <2>3 DEF Shares!Detected
    <3>2. svc' \in SvcRecs /\ svc'.sub = "none" /\ \A r \in {1, 2} : ~refresh[r].mine
      BY <1>1, <3>1, SharesEntered DEF SharesInv, SharesApart
    <3>3. SharesTyped' /\ SharesApart'
      BY <1>1, <1>2, <2>3, <3>1, <3>2 DEF SharesInv, SharesTyped, SharesApart
    <3> QED BY <1>1, <2>3, <3>3 DEF SharesInv, SharesServed
  <2> QED BY <2>1, <2>2, <2>3
<1>8. CASE Shares!DetectFails
  BY <1>3, <1>8 DEF Shares!DetectFails
<1> QED BY <1>5, <1>6, <1>7, <1>8

LEMMA SharesWork ==
  ASSUME SharesInv, NEW r \in {1, 2},
         \/ Shares!Users(r) \/ Shares!Import(r) \/ Shares!Conf(r)
         \/ Shares!Restart(r) \/ Shares!RestartFails(r) \/ Shares!RefreshFails(r)
  PROVE  SharesInv'
<1>1. UNCHANGED <<now, overlapped>> /\ refresh[r].pc # "none"
  <2>1. Shares!Users(r) => UNCHANGED <<now, overlapped>> /\ refresh[r].pc = "users"
    BY Zenon DEF Shares!Users
  <2>2. Shares!RefreshFails(r) => UNCHANGED <<now, overlapped>> /\ refresh[r].pc # "none"
    BY DEF Shares!RefreshFails
  <2> QED BY <2>1, <2>2 DEF Shares!Import, Shares!Conf, Shares!Restart, Shares!RestartFails
<1>2. PICK b \in BoxRecs : b = box
  BY DEF SharesInv, SharesTyped
<1>3. PICK f \in RunRecs : f = refresh[r]
  BY DEF SharesInv, SharesTyped
<1>4. refresh[r].dropped \in Some /\ refresh[r].snap \in Nat
  BY <1>3 DEF RunRecs
<1>5. CASE Shares!Users(r)
  <2>1. PICK v : v = Shares!Listed(r)
    OBVIOUS
  <2>2. v \in Nat /\ (~overlapped => v = f.snap)
    <3> DEFINE Q == {q \in {1, 2} : refresh[q].pc # "none"}
               S == {refresh[q].snap : q \in Q}
    <3>1. r \in Q /\ f.snap \in S /\ S \subseteq Nat
      BY <1>1, <1>3 DEF SharesInv, SharesTyped, RunRecs
    <3>2. \E w \in S : \A q \in Q : refresh[q].snap <= w
      <4>1. PICK q \in Q : \A p \in Q : refresh[p].snap <= refresh[q].snap
        <5>1. \A q \in Q : q \in {1, 2} /\ refresh[q].snap \in Nat
          BY <3>1
        <5>2. PICK m \in Nat, n \in Nat : (1 \in Q => m = refresh[1].snap) /\ (2 \in Q => n = refresh[2].snap)
          BY <5>1
        <5>3. Q # {}
          BY <3>1
        <5> HIDE DEF Q
        <5>4. CASE 1 \in Q /\ 2 \in Q
          <6>1. m <= n \/ n <= m
            BY <5>2
          <6>2. \A q \in Q : q = 1 \/ q = 2
            BY <5>1
          <6>3. m <= n => \A p \in Q : refresh[p].snap <= refresh[2].snap
            BY <5>2, <5>4, <6>2
          <6>4. n <= m => \A p \in Q : refresh[p].snap <= refresh[1].snap
            BY <5>2, <5>4, <6>2
          <6> QED BY <5>4, <6>1, <6>3, <6>4
        <5>5. CASE ~(1 \in Q /\ 2 \in Q)
          <6>1. PICK q \in Q : \A p \in Q : p = q
            BY <5>1, <5>3, <5>5
          <6>2. refresh[q].snap <= refresh[q].snap
            BY <5>1
          <6> QED BY <6>1, <6>2
        <5> QED BY <5>4, <5>5
      <4> QED BY <4>1
    <3>3. v = CHOOSE w \in S : \A q \in Q : refresh[q].snap <= w
      BY <2>1 DEF Shares!Listed, Shares!Runs
    <3>4. v \in S
      BY <3>2, <3>3
    <3>5. ~overlapped => Q = {r}
      BY <1>1 DEF SharesInv, SharesApart
    <3> QED BY <1>3, <3>1, <3>4, <3>5
  <2>3. PICK wanted \in SUBSET Holders : wanted = Shares!With(v) /\ wanted = Shares!With(Shares!Listed(r))
    BY <2>1 DEF Shares!With
  <2>3a. PICK deleted \in SUBSET (box.sys \ Shares!With(Shares!Listed(r))),
              added \in SUBSET (Shares!With(Shares!Listed(r)) \ box.sys), taken \in SUBSET Shares!Known :
           /\ box' = [box EXCEPT !.sys = (Shares!With(Shares!Listed(r)) \ added) \cup deleted,
                                 !.passwords = Shares!Emptied(taken),
                                 !.tmp = [at |-> Shares!Listed(r), who |-> Shares!With(Shares!Listed(r)) \ added],
                                 !.hasTmp = TRUE]
           /\ refresh' = [refresh EXCEPT ![r].pc = "import",
                                         ![r].dropped = added \cup (taken \ Shares!With(Shares!Listed(r)))]
           /\ UNCHANGED svc
    BY <1>5, Zenon DEF Shares!Users
  <2>4. /\ deleted \in SUBSET (box.sys \ wanted) /\ added \in SUBSET (wanted \ box.sys)
        /\ box' = [box EXCEPT !.sys = (wanted \ added) \cup deleted, !.passwords = Shares!Emptied(taken),
                              !.tmp = [at |-> v, who |-> wanted \ added], !.hasTmp = TRUE]
        /\ refresh' = [refresh EXCEPT ![r].pc = "import", ![r].dropped = added \cup (taken \ wanted)]
        /\ UNCHANGED svc
    BY <2>1, <2>3, <2>3a
  <2>5. PICK d \in Some : d = added \cup (taken \ wanted)
    BY <2>3, <2>4 DEF Shares!Known, Some
  <2>5a. PICK e : e = [f EXCEPT !.pc = "import", !.dropped = d]
    OBVIOUS
  <2>6. e \in RunRecs /\ e.pc = "import" /\ e.dropped = d /\ e.mine = f.mine /\ e.snap = f.snap
    BY <2>5a DEF RunRecs
  <2>7. refresh' = [refresh EXCEPT ![r] = e]
    BY <1>3, <2>4, <2>5, <2>5a
  <2>8. PICK p \in Passwords :
          p = Shares!Emptied(taken) /\ \A u \in Holders \ taken : p[u] = Shares!None
    <3>1. b.passwords \in [Holders -> Int]
      BY DEF BoxRecs, Passwords
    <3>2. Shares!Emptied(taken) \in [Holders -> Int]
      BY <1>2, <3>1 DEF Shares!Emptied, Shares!None
    <3>3. \A u \in Holders \ taken : Shares!Emptied(taken)[u] = Shares!None
      BY DEF Shares!Emptied
    <3> QED BY <3>2, <3>3 DEF Passwords
  <2>8a. PICK k : k = [at |-> v, who |-> wanted \ added]
    OBVIOUS
  <2>9. k \in Temps /\ k.at = v /\ k.who = wanted \ added
    <3>1. PICK z \in Some : z = wanted \ added
      BY <2>3 DEF Some
    <3> QED BY <2>2, <2>8a, <3>1 DEF Temps
  <2>10. PICK y \in Some : y = (wanted \ added) \cup deleted
    <3>1. b.sys \in SUBSET Holders
      BY DEF BoxRecs, Some
    <3> QED BY <1>2, <2>3, <2>4, <3>1 DEF Some
  <2>11. box' = [b EXCEPT !.sys = y, !.passwords = p, !.tmp = k, !.hasTmp = TRUE]
    BY <1>2, <2>4, <2>8, <2>8a, <2>10
  <2>12. box' \in BoxRecs /\ box'.tmp = k /\ box'.passwords = p
    <3>1. PICK b1 : b1 = [b EXCEPT !.sys = y]
      OBVIOUS
    <3>2. PICK b2 : b2 = [b1 EXCEPT !.passwords = p]
      OBVIOUS
    <3>3. PICK b3 : b3 = [b2 EXCEPT !.tmp = k]
      OBVIOUS
    <3>4. box' = [b3 EXCEPT !.hasTmp = TRUE]
      BY <2>11, <3>1, <3>2, <3>3
    <3>5. b1 \in BoxRecs
      BY <3>1 DEF BoxRecs
    <3>6. b2 \in BoxRecs /\ b2.passwords = p
      BY <3>2, <3>5 DEF BoxRecs
    <3>7. b3 \in BoxRecs /\ b3.passwords = p /\ b3.tmp = k
      BY <2>9, <3>3, <3>6 DEF BoxRecs
    <3> QED BY <3>4, <3>7 DEF BoxRecs
  <2>13. refresh'[r] = e
    BY <2>7 DEF SharesInv, SharesTyped
  <2>14. v = now.shares => Ready(d)'
    <3>1. SUFFICES ASSUME v = now.shares, NEW u \in Holders \ d
                   PROVE  IF u \in Shares!With(now.shares) THEN u \in k.who ELSE u \notin k.who /\ p[u] = Shares!None
      BY <1>1, <2>9, <2>12 DEF Ready, Shares!With, Shares!None
    <3>2. Shares!With(now.shares) = wanted
      BY <2>3, <3>1
    <3> QED BY <2>5, <2>8, <2>9, <3>2
  <2>15. ~overlapped /\ ~svc.again /\ refresh[r].mine => Carried(r)'
    <3>1. SUFFICES ASSUME ~overlapped, ~svc.again, refresh[r].mine PROVE Carried(r)'
      OBVIOUS
    <3>2. f.snap = now.shares
      BY <1>3, <3>1 DEF SharesInv, SharesServed, Carried
    <3>3. Ready(d)'
      BY <2>2, <2>14, <3>1, <3>2
    <3> QED BY <1>1, <2>6, <2>13, <3>2, <3>3 DEF Carried, Ready
  <2> QED BY <1>1, <1>3, <2>4, <2>6, <2>7, <2>12, <2>15, SharesOn
<1>6. /\ b.passwords \in Passwords /\ b.conf \in Changes
      /\ b.passwords \in [Holders -> Int] /\ b.tmp.at \in Nat
  <2>1. b.passwords \in Passwords /\ b.conf \in Changes /\ b.tmp \in Temps
    BY DEF BoxRecs
  <2> QED BY <2>1 DEF Passwords, Temps
<1>7. PICK p \in Passwords : p = Shares!Imported
  <2>1. Shares!Imported \in [Holders -> Int]
    BY <1>2, <1>6 DEF Shares!Imported
  <2> QED BY <2>1 DEF Passwords
<1>8. CASE Shares!Import(r) /\ box.hasTmp
  <2>1. box' = [b EXCEPT !.passwords = p, !.hasTmp = FALSE] /\ Shares!To(r, "conf")
    BY <1>2, <1>7, <1>8, Zenon DEF Shares!Import
  <2>2. box' \in BoxRecs /\ box'.passwords = p
    BY <2>1 DEF BoxRecs
  <2>3. PICK e \in RunRecs : /\ refresh' = [refresh EXCEPT ![r] = e] /\ UNCHANGED svc
                             /\ e.pc = "conf" /\ e.mine = refresh[r].mine /\ e.snap = refresh[r].snap
                             /\ e.dropped = refresh[r].dropped
    BY <2>1, SharesTo
  <2>4. refresh'[r] = e /\ refresh[r].pc = "import"
    BY <1>8, <2>3 DEF SharesInv, SharesTyped, Shares!Import
  <2>5. Ready(refresh[r].dropped) => InForce(refresh[r].dropped)'
    <3>1. SUFFICES ASSUME Ready(refresh[r].dropped), NEW u \in Holders \ refresh[r].dropped
                   PROVE  p[u] = Shares!Password(now.shares, u)
      BY <1>1, <2>2, <2>3, <2>4 DEF InForce, Shares!Password, Shares!With, Shares!None
    <3>2. p[u] = IF u \in box.tmp.who THEN box.tmp.at ELSE box.passwords[u]
      BY <1>7 DEF Shares!Imported
    <3> QED BY <3>1, <3>2 DEF Ready, Shares!Password
  <2>6. ~overlapped /\ ~svc.again /\ refresh[r].mine => Carried(r)'
    <3>1. SUFFICES ASSUME ~overlapped, ~svc.again, refresh[r].mine PROVE Carried(r)'
      OBVIOUS
    <3>2. refresh[r].snap = now.shares /\ Ready(refresh[r].dropped)
      BY <2>4, <3>1 DEF SharesInv, SharesServed, Carried
    <3> QED BY <1>1, <2>3, <2>4, <2>5, <3>2 DEF Carried, InForce
  <2> QED BY <1>1, <2>2, <2>3, <2>6, SharesOn
<1>9. ASSUME box'.passwords = box.passwords PROVE InForce(refresh[r].dropped) =>
          \A u \in Holders \ refresh[r].dropped : box'.passwords[u] = Shares!Password(now.shares, u)
  BY <1>9 DEF InForce
<1>10. CASE Shares!Conf(r)
  <2>1. PICK k \in Changes : k = [shares |-> refresh[r].snap, usbs |-> now.usbs]
    <3>1. f.snap \in Nat /\ now.usbs \in Nat
      BY <1>3 DEF RunRecs, SharesInv, SharesTyped, Changes
    <3> QED BY <1>3, <3>1 DEF Changes
  <2>2. box' = [b EXCEPT !.conf = k] /\ Shares!To(r, "restart") /\ refresh[r].pc = "conf"
    BY <1>2, <1>10, <2>1, Zenon DEF Shares!Conf
  <2>3. box' \in BoxRecs /\ box'.conf = k /\ box'.passwords = box.passwords
    BY <1>2, <2>2 DEF BoxRecs
  <2>4. refresh[r].snap = now.shares => k = now
    BY <2>1 DEF SharesInv, SharesTyped, Changes
  <2>5. PICK e \in RunRecs : /\ refresh' = [refresh EXCEPT ![r] = e] /\ UNCHANGED svc
                             /\ e.pc = "restart" /\ e.mine = refresh[r].mine /\ e.snap = refresh[r].snap
                             /\ e.dropped = refresh[r].dropped
    BY <2>2, SharesTo
  <2>6. refresh'[r] = e
    BY <2>5 DEF SharesInv, SharesTyped
  <2>7. ~overlapped /\ ~svc.again /\ refresh[r].mine => Carried(r)'
    <3>1. SUFFICES ASSUME ~overlapped, ~svc.again, refresh[r].mine PROVE Carried(r)'
      OBVIOUS
    <3>2. refresh[r].snap = now.shares /\ InForce(refresh[r].dropped)
      BY <2>2, <3>1 DEF SharesInv, SharesServed, Carried
    <3>3. InForce(e.dropped)'
      BY <1>1, <1>9, <2>3, <2>5, <3>2 DEF InForce, Shares!Password, Shares!With
    <3> QED BY <1>1, <2>3, <2>4, <2>5, <2>6, <3>2, <3>3 DEF Carried, InForce
  <2> QED BY <1>1, <2>3, <2>5, <2>7, SharesOn
<1>11. CASE Shares!Restart(r)
  <2>1. box' = [b EXCEPT !.active = TRUE, !.read = b.conf] /\ Shares!Over(r, FALSE)
    BY <1>2, <1>11, Zenon DEF Shares!Restart
  <2>2. box' \in BoxRecs /\ box'.active /\ box'.read = b.conf /\ box'.passwords = box.passwords
    BY <1>2, <1>6, <2>1 DEF BoxRecs
  <2>3. ~overlapped /\ ~svc.again => box.conf = now /\ InForce(refresh[r].dropped)
    BY <1>1, <1>11 DEF SharesInv, SharesApart, SharesServed, Carried, Shares!Restart
  <2>4. ~overlapped /\ ~svc.again =>
          /\ box'.active /\ box'.read = now
          /\ \A u \in Holders \ refresh[r].dropped : box'.passwords[u] = Shares!Password(now.shares, u)
    BY <1>2, <1>9, <2>2, <2>3
  <2> QED BY <1>1, <2>1, <2>2, <2>4, SharesOver
<1>12. CASE Shares!RestartFails(r)
  <2>1. box' = [b EXCEPT !.active = FALSE] /\ refresh[r].pc \in {"restart", "again"}
    BY <1>2, <1>12 DEF Shares!RestartFails
  <2>2. box' \in BoxRecs /\ box'.conf = box.conf /\ box'.passwords = box.passwords
    BY <1>2, <2>1 DEF BoxRecs
  <2>3. CASE refresh[r].pc = "restart"
    <3>1. Shares!To(r, "again")
      BY <1>12, <2>3, Zenon DEF Shares!RestartFails
    <3>2. PICK e \in RunRecs : /\ refresh' = [refresh EXCEPT ![r] = e] /\ UNCHANGED svc
                               /\ e.pc = "again" /\ e.mine = refresh[r].mine /\ e.snap = refresh[r].snap
                               /\ e.dropped = refresh[r].dropped
      BY <3>1, SharesTo
    <3>3. refresh'[r] = e
      BY <3>2 DEF SharesInv, SharesTyped
    <3>4. ~overlapped /\ ~svc.again /\ refresh[r].mine => Carried(r)'
      <4>1. SUFFICES ASSUME ~overlapped, ~svc.again, refresh[r].mine PROVE Carried(r)'
        OBVIOUS
      <4>2. refresh[r].snap = now.shares /\ InForce(refresh[r].dropped) /\ box.conf = now
        BY <2>3, <4>1 DEF SharesInv, SharesServed, Carried
      <4>3. InForce(e.dropped)'
        BY <1>1, <1>9, <2>2, <3>2, <4>2 DEF InForce, Shares!Password, Shares!With
      <4> QED BY <1>1, <2>2, <3>2, <3>3, <4>2, <4>3 DEF Carried, InForce
    <3> QED BY <1>1, <2>2, <3>2, <3>4, SharesOn
  <2>4. CASE refresh[r].pc # "restart"
    <3>1. Shares!Over(r, TRUE)
      BY <1>12, <2>4, Zenon DEF Shares!RestartFails
    <3> QED BY <1>1, <2>2, <3>1, SharesOver
  <2> QED BY <2>3, <2>4
<1>13. CASE Shares!RefreshFails(r) \/ (Shares!Import(r) /\ ~box.hasTmp)
  <2>1. Shares!Over(r, TRUE)
    BY <1>13, Zenon DEF Shares!RefreshFails, Shares!Import
  <2>2. box' = b \/ (\E q \in Passwords : box' = [b EXCEPT !.passwords = q])
    <3>1. Shares!Emptied({}) \in Passwords
      BY <1>2, <1>6 DEF Shares!Emptied, Shares!None, Passwords
    <3>2. \/ UNCHANGED box
          \/ box' = [box EXCEPT !.passwords = Shares!Emptied({})]
          \/ box' = [box EXCEPT !.passwords = Shares!Imported]
      BY <1>13, Zenon DEF Shares!RefreshFails, Shares!Import
    <3> QED BY <1>2, <1>7, <3>1, <3>2
  <2>3. box' \in BoxRecs
    BY <2>2 DEF BoxRecs
  <2> QED BY <1>1, <2>1, <2>3, SharesOver
<1> QED BY <1>5, <1>8, <1>10, <1>11, <1>12, <1>13

LEMMA SharesBegins == Shares!Init => SharesInv
<1> SUFFICES ASSUME Shares!Init PROVE SharesInv
  OBVIOUS
<1>1. svc \in SvcRecs /\ svc.state = "Detecting" /\ svc.sub = "none"
  BY SharesEntered DEF Shares!Init
<1>2. \A r \in {1, 2} : refresh[r].pc = "none" /\ refresh[r].mine = FALSE
  BY DEF Shares!Init, Shares!Off, Shares!Runs
<1>3. refresh \in [{1, 2} -> RunRecs]
  BY DEF Shares!Init, Shares!Off, Shares!Runs, RunRecs, Some
<1>4. now \in Changes /\ box \in BoxRecs /\ box.active = FALSE /\ overlapped = FALSE
  BY DEF Shares!Init, Shares!NoChange, Shares!None, Changes, Temps, BoxRecs, Some, Passwords
<1>5. SharesTyped
  BY <1>1, <1>3, <1>4 DEF SharesTyped
<1>6. SharesApart
  BY <1>1, <1>2 DEF SharesApart
<1>7. SharesServed
  BY <1>1, <1>2, <1>4 DEF SharesServed
<1> QED BY <1>5, <1>6, <1>7 DEF SharesInv

LEMMA SharesStep == SharesInv /\ [Shares!Next]_(Shares!vars) => SharesInv'
<1> SUFFICES ASSUME SharesInv, [Shares!Next]_(Shares!vars) PROVE SharesInv'
  OBVIOUS
<1>1. CASE UNCHANGED Shares!vars
  <2>1. UNCHANGED <<now, svc, refresh, box, overlapped>>
    BY <1>1 DEF Shares!vars
  <2> QED BY <2>1, SharesChanged DEF SharesInv, SharesTyped
<1>2. CASE \/ \E ok \in BOOLEAN : Shares!Detected(ok) \/ Shares!StartDone(ok) \/ Shares!StopDone(ok)
           \/ Shares!DetectFails
  <2>1. PICK ok \in BOOLEAN :
          Shares!StartDone(ok) \/ Shares!StopDone(ok) \/ Shares!Detected(ok) \/ Shares!DetectFails
    BY <1>2
  <2> QED BY <2>1, SharesDone
<1>3. ASSUME NEW c \in Calls, Shares!Start(c) \/ Shares!Stop(c) PROVE SharesInv'
  BY <1>3, SharesStart, SharesStop
<1>4. ASSUME NEW r \in {1, 2},
             \/ Shares!Users(r) \/ Shares!Import(r) \/ Shares!Conf(r)
             \/ Shares!Restart(r) \/ Shares!RestartFails(r) \/ Shares!RefreshFails(r)
      PROVE  SharesInv'
  BY <1>4, SharesWork
<1>5. ASSUME NEW what \in {"shares", "usbs"}, Shares!Changed(what) PROVE SharesInv'
  <2>1. now' = [now EXCEPT ![what] = @ + 1] /\ now \in Changes
    BY <1>5 DEF Shares!Changed, SharesInv, SharesTyped
  <2>2. now' \in Changes
    BY <2>1 DEF Changes
  <2> QED BY <1>5, <2>2, SharesChanged DEF Shares!Changed
<1>6. CASE Shares!Timer
  <2>1. Shares!Begin(svc) /\ svc.sub = "pending" /\ UNCHANGED <<now, overlapped, box>>
    BY <1>6 DEF Shares!Timer
  <2>2. svc \in SvcRecs /\ box \in BoxRecs /\ svc.state = "Started"
    BY <2>1 DEF SharesInv, SharesTyped, SharesApart
  <2> QED BY <2>1, <2>2, SharesBegun
<1> QED BY <1>1, <1>2, <1>3, <1>4, <1>5, <1>6 DEF Shares!Next, Shares!Proceed, Shares!Runs

\* src/src/samba/samba.js: a service at rest serves what users, drives and volumes say by
\* then, and the passwords of all whom no command of the last refresh failed on, unless that
\* refresh failed as a whole or an old one went on behind a stop and a start.
THEOREM SharesAreServed == Shares!Spec => []Shares!IdleIsServed
<1>1. SharesInv => Shares!IdleIsServed
  BY DEF SharesInv, SharesServed, InForce, Shares!IdleIsServed
<1> QED BY <1>1, SharesBegins, SharesStep, PTL DEF Shares!Spec

\* A service that was stopped is down, unless a refresh was under way when it was.
THEOREM SharesAreDown == Shares!Spec => []Shares!StoppedIsDown
<1>1. SharesInv => Shares!StoppedIsDown
  BY DEF SharesInv, SharesServed, Shares!StoppedIsDown
<1> QED BY <1>1, SharesBegins, SharesStep, PTL DEF Shares!Spec

-----------------------------------------------------------------------------
(* Members.                                                                *)

People == INSTANCE Members

UsersGrown(U, V) == \A u \in DOMAIN U : u \in DOMAIN V /\ (U[u].status = "DELETED" => V[u].status = "DELETED")
DrivesGrown(D, E) == \A d \in DOMAIN D : d \in DOMAIN E /\ (D[d].deleted => E[d].deleted)
\* What differs is the lists.
Listing(D, E) ==
  DOMAIN D = DOMAIN E /\ \A d \in DOMAIN D : /\ E[d].kind = D[d].kind /\ E[d].owner = D[d].owner
                                             /\ E[d].label = D[d].label /\ E[d].deleted = D[d].deleted

LEMMA OneMore == \A n \in Nat : \A i \in 1 .. (n + 1) : i = n + 1 \/ i \in 1 .. n
OBVIOUS

LEMMA Counted == \A S : People!Cardinality(S) = Cardinality(S)
BY DEF People!Cardinality, Cardinality

\* A set of numbers has a lowest one.
LEMMA Lowest ==
  ASSUME NEW K \in SUBSET Nat, K # {}
  PROVE  \E m \in K : \A l \in K : m <= l
<1> DEFINE R == {p \in Nat \X Nat : p[1] < p[2]}
<1>1. IsWellFoundedOn(R, Nat)
  BY NatLessThanWellFounded DEF OpToRel
<1>2. PICK m \in K : \A l \in K : ~(<<l, m>> \in R)
  BY <1>1, WFMin
<1>3. ASSUME NEW l \in K PROVE m <= l
  <2>1. ~(l < m)
    BY <1>2
  <2> QED BY <2>1
<1> QED BY <1>3

LEMMA UserAdded ==
  ASSUME NEW U \in Seq(People!UserRecs), People!Alone(U), NEW e \in People!UserRecs,
         ~People!TakenFirst(U, e.name)
  PROVE  LET V == Append(U, e) IN V \in Seq(People!UserRecs) /\ V # <<>> /\ People!Alone(V) /\ UsersGrown(U, V)
<1>1. PICK n \in Nat : n = Len(U) /\ DOMAIN U = 1 .. n
  <2>1. Len(U) \in Nat /\ DOMAIN U = 1 .. Len(U)
    OBVIOUS
  <2> QED BY <2>1
<1>2. PICK V : V = Append(U, e)
  OBVIOUS
<1>3. /\ V \in Seq(People!UserRecs) /\ V # <<>> /\ DOMAIN V = 1 .. (n + 1) /\ V[n + 1] = e
      /\ \A i \in 1 .. n : V[i] = U[i]
  BY <1>1, <1>2
<1>4. People!Alone(V)
  <2> SUFFICES ASSUME NEW u \in People!Alive(V), NEW v \in People!Alive(V), u < v, V[u].name = V[v].name
               PROVE  \E w \in DOMAIN V \ People!Alive(V) : w < u /\ V[w].name = V[u].name
    BY DEF People!Alone
  <2>1. u \in 1 .. n /\ v \in 1 .. (n + 1) /\ u \in People!Alive(U)
    BY <1>1, <1>3 DEF People!Alive
  <2>2. CASE v \in 1 .. n
    <3>1. v \in People!Alive(U) /\ U[u].name = U[v].name
      BY <1>1, <1>3, <2>1, <2>2 DEF People!Alive
    <3>2. PICK w \in DOMAIN U \ People!Alive(U) : w < u /\ U[w].name = U[u].name
      BY <2>1, <3>1 DEF People!Alone
    <3> QED BY <1>1, <1>3, <2>1, <3>2 DEF People!Alive
  <2>3. CASE v = n + 1
    <3>1. u \in People!Named(U, e.name) /\ People!Named(U, e.name) \subseteq 1 .. n
      BY <1>1, <1>3, <2>1, <2>3 DEF People!Named
    <3>2. \E w \in People!Named(U, e.name) : \A x \in People!Named(U, e.name) : w <= x
      BY <3>1, Lowest
    <3>3. PICK w : w = CHOOSE x \in People!Named(U, e.name) : \A y \in People!Named(U, e.name) : x <= y
      OBVIOUS
    <3>4. w \in People!Named(U, e.name) /\ w <= u
      BY <3>1, <3>2, <3>3
    <3>5. U[w].status = "DELETED"
      BY <3>1, <3>3 DEF People!TakenFirst
    <3> QED BY <1>1, <1>3, <2>1, <2>3, <3>1, <3>4, <3>5 DEF People!Alive, People!Named
  <2> QED BY <2>1, <2>2, <2>3
<1>5. UsersGrown(U, V)
  BY <1>1, <1>3 DEF UsersGrown
<1> QED BY <1>2, <1>3, <1>4, <1>5

LEMMA UserChanged ==
  ASSUME People!Inputs, NEW U \in Seq(People!UserRecs), U # <<>>, People!Alone(U), NEW op \in Ops,
         NEW V, V = People!UpdateUser(op, U), V # <<>>
  PROVE  V \in Seq(People!UserRecs) /\ People!Alone(V) /\ UsersGrown(U, V)
<1>1. op.on \in People!Alive(U) /\ ~(op.name # "" /\ People!Taken(U, op.name))
  BY DEF People!UpdateUser, People!Taken
<1>2. PICK k \in DOMAIN U : k = op.on /\ U[k].status # "DELETED"
  BY <1>1 DEF People!Alive
<1>3. PICK f \in People!UserRecs : f = U[k]
  OBVIOUS
<1>4. PICK e : e = [name |-> IF op.name = "" THEN f.name ELSE op.name,
                    status |-> IF op.status = "" THEN f.status ELSE op.status]
  OBVIOUS
<1>5. V = [U EXCEPT ![k] = e]
  BY <1>1, <1>2, <1>3, <1>4 DEF People!UpdateUser, People!Taken
<1>6. e \in People!UserRecs /\ e.name = IF op.name = "" THEN f.name ELSE op.name
  <2>1. op.name \in STRING /\ op.status \in {"", "ACTIVE", "INACTIVE", "DELETED"}
    BY DEF People!Inputs
  <2> QED BY <1>4, <2>1 DEF People!UserRecs
<1>7. V \in Seq(People!UserRecs) /\ DOMAIN V = DOMAIN U /\ V[k] = e /\ \A i \in DOMAIN U : i # k => V[i] = U[i]
  <2>1. PICK n \in Nat : n = Len(U) /\ DOMAIN U = 1 .. n
    <3>1. Len(U) \in Nat /\ DOMAIN U = 1 .. Len(U)
      OBVIOUS
    <3> QED BY <3>1
  <2>2. DOMAIN V = DOMAIN U /\ V[k] = e /\ \A i \in DOMAIN U : i # k => V[i] = U[i]
    BY <1>5
  <2>3. \A i \in DOMAIN V : V[i] \in People!UserRecs
    <3>1. \A i \in DOMAIN U : U[i] \in People!UserRecs
      OBVIOUS
    <3> QED BY <1>6, <2>2, <3>1
  <2>4. V = [i \in 1 .. n |-> V[i]]
    BY <1>5, <2>1
  <2> QED BY <2>1, <2>2, <2>3, <2>4
<1>8. UsersGrown(U, V)
  BY <1>2, <1>7 DEF UsersGrown
<1>9. People!Alone(V)
  <2> SUFFICES ASSUME NEW u \in People!Alive(V), NEW v \in People!Alive(V), u < v, V[u].name = V[v].name
               PROVE  \E w \in DOMAIN V \ People!Alive(V) : w < u /\ V[w].name = V[u].name
    BY DEF People!Alone
  <2>1. u \in People!Alive(U) /\ v \in People!Alive(U)
    BY <1>2, <1>7 DEF People!Alive
  <2>2. CASE U[u].name = U[v].name
    <3>1. PICK w \in DOMAIN U \ People!Alive(U) : w < u /\ U[w].name = U[u].name
      BY <2>1, <2>2 DEF People!Alone
    <3>2. w # k /\ w \in DOMAIN V \ People!Alive(V)
      BY <1>2, <1>7, <3>1 DEF People!Alive
    <3>3. CASE V[u].name = U[u].name
      BY <1>7, <3>1, <3>2, <3>3
    <3>4. CASE V[u].name # U[u].name
      <4>1. u = k /\ op.name # "" /\ V[u].name = op.name
        BY <1>3, <1>6, <1>7, <2>1, <3>4 DEF People!Alive
      <4>2. v # u
        BY <1>7, <2>1 DEF People!Alive
      <4>3. U[v].name = op.name
        BY <1>7, <2>1, <4>1, <4>2 DEF People!Alive
      <4> QED BY <1>1, <2>1, <4>1, <4>3 DEF People!Taken, People!Named, People!Alive
    <3> QED BY <3>3, <3>4
  <2>3. CASE U[u].name # U[v].name
    <3>1. op.name # "" /\ \E w \in People!Alive(U) : U[w].name = op.name
      BY <1>3, <1>6, <1>7, <2>1, <2>3 DEF People!Alive
    <3> QED BY <1>1, <3>1 DEF People!Taken, People!Named, People!Alive
  <2> QED BY <2>2, <2>3
<1> QED BY <1>7, <1>8, <1>9

LEMMA UserMade ==
  ASSUME People!Inputs, NEW U \in Seq(People!UserRecs), U # <<>>, People!Alone(U), NEW op \in Ops,
         NEW V, V = People!CreateUser(op, U), V # <<>>
  PROVE  V \in Seq(People!UserRecs) /\ People!Alone(V) /\ UsersGrown(U, V)
<1>1. PICK e : e = [name |-> op.name, status |-> "ACTIVE"]
  OBVIOUS
<1>2. e \in People!UserRecs /\ e.name = op.name
  BY <1>1 DEF People!UserRecs, People!Inputs
<1>3. ~People!TakenFirst(U, e.name) /\ V = Append(U, e)
  BY <1>1, <1>2 DEF People!CreateUser, People!TakenFirst
<1> QED BY <1>2, <1>3, UserAdded

Fits(D) == People!Few(D) /\ People!Single(D)

\* The drives of which only the lists differ.
LEMMA Listed ==
  ASSUME NEW D, NEW E, Listing(D, E)
  PROVE  /\ People!Live(E) = People!Live(D) /\ People!Public(E) = People!Public(D)
         /\ Fits(D) <=> Fits(E)
         /\ People!Apart(D) <=> People!Apart(E)
<1>1. People!Live(E) = People!Live(D)
  BY DEF Listing, People!Live
<1>2. People!Public(E) = People!Public(D)
  BY <1>1 DEF Listing, People!Live, People!Public
<1>3. Fits(D) <=> Fits(E)
  <2>1. \A d : People!Upto(D, d) = People!Upto(E, d)
    BY <1>2 DEF People!Upto
  <2>2. \A d \in People!Public(D) : E[d].kind = D[d].kind
    BY DEF Listing, People!Public, People!Live
  <2>3. People!Few(D) <=> People!Few(E)
    BY <1>2, <2>1, <2>2 DEF People!Few
  <2>4. People!Single(D) <=> People!Single(E)
    BY DEF Listing, People!Single
  <2> QED BY <2>3, <2>4 DEF Fits
<1>4. People!Apart(D) <=> People!Apart(E)
  BY <1>1 DEF Listing, People!Live, People!Apart
<1> QED BY <1>1, <1>2, <1>3, <1>4

LEMMA Ruled ==
  ASSUME NEW D \in Seq(People!DriveRecs), NEW E, E = People!Rule(D)
  PROVE  E \in Seq(People!DriveRecs) /\ Listing(D, E) /\ People!Led(E) /\ (D # <<>> => E # <<>>)
<1>1. PICK n \in Nat : n = Len(D) /\ DOMAIN D = 1 .. n
  <2>1. Len(D) \in Nat /\ DOMAIN D = 1 .. Len(D)
    OBVIOUS
  <2> QED BY <2>1
<1>2. ASSUME NEW d \in DOMAIN D
      PROVE  /\ d \in DOMAIN E /\ E[d] \in People!DriveRecs
             /\ E[d].kind = D[d].kind /\ E[d].owner = D[d].owner /\ E[d].label = D[d].label
             /\ E[d].deleted = D[d].deleted
             /\ d \in People!Public(D) => E[d].list = People!Everybody \/ People!First \in E[d].list
  <2>1. PICK f \in People!DriveRecs : f = D[d]
    OBVIOUS
  <2>2. CASE d \in People!Public(D) /\ D[d].list # People!Everybody
    <3>1. E[d] = [f EXCEPT !.list = f.list \cup {People!First}] /\ d \in DOMAIN E
      BY <2>1, <2>2 DEF People!Rule
    <3>2. f.list \cup {People!First} \in SUBSET Nat
      BY DEF People!DriveRecs, People!First
    <3> QED BY <2>1, <3>1, <3>2 DEF People!DriveRecs
  <2>3. CASE ~(d \in People!Public(D) /\ D[d].list # People!Everybody)
    <3>1. E[d] = f /\ d \in DOMAIN E
      BY <2>1, <2>3 DEF People!Rule
    <3> QED BY <2>1, <2>3, <3>1
  <2> QED BY <2>2, <2>3
<1>3. DOMAIN E = 1 .. n /\ E = [d \in 1 .. n |-> E[d]]
  BY <1>1 DEF People!Rule
<1>4. E \in Seq(People!DriveRecs)
  BY <1>1, <1>2, <1>3
<1>5. Listing(D, E)
  BY <1>1, <1>2, <1>3 DEF Listing
<1>6. People!Led(E)
  BY <1>2, <1>5, Listed DEF People!Led, People!Public, People!Live
<1>7. D # <<>> => E # <<>>
  BY <1>1, <1>3, <1>4
<1> QED BY <1>4, <1>5, <1>6, <1>7

\* What a save makes of the drives, before storeSave() puts the first user into the lists.
DrivesMade(D, E) ==
  E \in Seq(People!DriveRecs) /\ E # <<>> /\ DrivesGrown(D, E) /\ Fits(E) /\ People!Apart(E)

LEMMA DrivesFinite ==
  ASSUME NEW D \in Seq(People!DriveRecs)
  PROVE  IsFiniteSet(People!Public(D)) /\ Cardinality(People!Public(D)) \in Nat
<1>1. Len(D) \in Nat /\ People!Public(D) \subseteq 1 .. Len(D)
  BY DEF People!Public, People!Live
<1>2. IsFiniteSet(1 .. Len(D))
  BY <1>1, FS_Interval
<1> QED BY <1>1, <1>2, FS_Subset, FS_CardinalityType

LEMMA UptoFinite ==
  ASSUME NEW D \in Seq(People!DriveRecs), NEW d
  PROVE  /\ IsFiniteSet(People!Upto(D, d)) /\ Cardinality(People!Upto(D, d)) \in Nat
         /\ Cardinality(People!Upto(D, d)) <= Cardinality(People!Public(D))
<1>1. People!Upto(D, d) \subseteq People!Public(D)
  BY DEF People!Upto
<1> QED BY <1>1, DrivesFinite, FS_Subset, FS_CardinalityType

\* Drives that stay what they are, or are deleted.
LEMMA FitsStill ==
  ASSUME People!Inputs, NEW D \in Seq(People!DriveRecs), NEW E \in Seq(People!DriveRecs), DOMAIN E = DOMAIN D,
         \A d \in DOMAIN D : /\ E[d].kind = D[d].kind /\ E[d].owner = D[d].owner
                             /\ D[d].deleted => E[d].deleted,
         Fits(D)
  PROVE  Fits(E)
<1>1. People!Single(E)
  BY DEF Fits, People!Single
<1>2. ASSUME NEW d \in People!Public(E), E[d].kind = "public"
      PROVE  Cardinality(People!Upto(E, d)) <= MaxPublic
  <2>1. People!Public(E) \subseteq People!Public(D)
    BY DEF People!Public, People!Live
  <2>2. People!Upto(E, d) \subseteq People!Upto(D, d)
    BY <2>1 DEF People!Upto
  <2>3. d \in People!Public(D) /\ D[d].kind = "public"
    BY <1>2, <2>1 DEF People!Public, People!Live
  <2>4. PICK l \in Nat, m \in Nat : l = Cardinality(People!Upto(E, d)) /\ m = Cardinality(People!Upto(D, d))
    BY UptoFinite
  <2>5. l <= m
    BY <2>2, <2>4, UptoFinite, FS_Subset
  <2>6. m <= MaxPublic /\ MaxPublic \in Nat
    BY <2>3, <2>4, Counted DEF Fits, People!Few, People!Inputs
  <2>7. l <= MaxPublic
    BY <2>5, <2>6
  <2> QED BY <2>4, <2>7
<1> QED BY <1>1, <1>2, Counted DEF Fits, People!Few

\* e may come behind the drives D.
Fresh(D, e) ==
  /\ e.kind = "public" => ~(Cardinality(People!Public(D)) >= MaxPublic)
  /\ e.label = "" \/ ~People!Labelled(D, e.label)
  /\ e.kind = "built-in" => ~People!HasBuiltIn(D)
  /\ e.kind = "home" => ~People!HasHome(D, e.owner)

LEMMA DriveAppended ==
  ASSUME People!Inputs, NEW D \in Seq(People!DriveRecs), Fits(D), People!Apart(D),
         NEW e \in People!DriveRecs, Fresh(D, e), NEW E, E = Append(D, e)
  PROVE  DrivesMade(D, E)
<1>1. PICK n \in Nat : n = Len(D) /\ DOMAIN D = 1 .. n
  <2>1. Len(D) \in Nat /\ DOMAIN D = 1 .. Len(D)
    OBVIOUS
  <2> QED BY <2>1
<1>2. /\ E \in Seq(People!DriveRecs) /\ DOMAIN E = 1 .. (n + 1) /\ E[n + 1] = e
      /\ \A d \in 1 .. n : E[d] = D[d]
  <2>1. E \in Seq(People!DriveRecs) /\ Len(E) = n + 1 /\ E[n + 1] = e /\ \A d \in 1 .. n : E[d] = D[d]
    BY <1>1
  <2> QED BY <2>1
<1>3. DrivesGrown(D, E)
  BY <1>1, <1>2 DEF DrivesGrown
<1>4. \A i \in DOMAIN E : i = n + 1 \/ (i \in DOMAIN D /\ E[i] = D[i])
  BY <1>1, <1>2, OneMore
<1>5. \A i \in People!Live(E) : i = n + 1 \/ (i \in People!Live(D) /\ E[i] = D[i])
  BY <1>4 DEF People!Live
<1>6. People!Public(E) \subseteq People!Public(D) \cup {n + 1}
  BY <1>5 DEF People!Public
<1>7. People!Few(E)
  <2> SUFFICES ASSUME NEW d \in People!Public(E), E[d].kind = "public"
               PROVE  Cardinality(People!Upto(E, d)) <= MaxPublic
    BY Counted DEF People!Few
  <2>1. PICK l \in Nat : l = Cardinality(People!Upto(E, d)) /\ MaxPublic \in Nat
    BY <1>2, UptoFinite DEF People!Inputs
  <2>2. d \in People!Live(E)
    BY DEF People!Public
  <2>3. CASE d = n + 1
    <3>1. PICK m \in Nat : m = Cardinality(People!Public(D)) /\ IsFiniteSet(People!Public(D))
      BY DrivesFinite
    <3>2. PICK X : X = People!Public(D) \cup {n + 1}
      OBVIOUS
    <3>3. IsFiniteSet(X) /\ Cardinality(X) = IF n + 1 \in People!Public(D) THEN m ELSE m + 1
      BY <3>1, <3>2, FS_AddElement
    <3>4. People!Upto(E, d) \subseteq X
      BY <1>6, <3>2 DEF People!Upto
    <3>5. l <= Cardinality(X)
      BY <2>1, <3>3, <3>4, FS_Subset
    <3>6. ~(m >= MaxPublic)
      BY <1>2, <2>3, <3>1 DEF Fresh
    <3>7. l <= m + 1
      BY <3>1, <3>3, <3>5
    <3>8. l <= MaxPublic
      BY <2>1, <3>6, <3>7
    <3> QED BY <2>1, <3>8
  <2>4. CASE d \in People!Live(D) /\ E[d] = D[d]
    <3>1. d \in 1 .. n /\ d \in People!Public(D) /\ D[d].kind = "public"
      BY <1>1, <2>4 DEF People!Public, People!Live
    <3>2. People!Upto(E, d) \subseteq People!Upto(D, d)
      <4> SUFFICES ASSUME NEW i \in People!Public(E), i <= d PROVE i \in People!Public(D)
        BY DEF People!Upto
      <4>1. i # n + 1
        BY <1>1, <3>1
      <4> QED BY <1>6, <4>1
    <3>3. PICK m \in Nat : m = Cardinality(People!Upto(D, d)) /\ IsFiniteSet(People!Upto(D, d))
      BY UptoFinite
    <3>4. l <= m
      BY <2>1, <3>2, <3>3, FS_Subset
    <3>5. m <= MaxPublic
      BY <3>1, <3>3, Counted DEF Fits, People!Few
    <3>6. l <= MaxPublic
      BY <2>1, <3>4, <3>5
    <3> QED BY <2>1, <3>6
  <2> QED BY <1>5, <2>2, <2>3, <2>4
<1>8. People!Single(E)
  <2> SUFFICES ASSUME NEW d \in DOMAIN E, NEW b \in DOMAIN E, d # b, E[d].kind = E[b].kind
               PROVE  E[d].kind # "built-in" /\ (E[d].kind = "home" => E[d].owner # E[b].owner)
    BY DEF People!Single
  <2>1. CASE d \in DOMAIN D /\ E[d] = D[d] /\ b \in DOMAIN D /\ E[b] = D[b]
    BY <2>1 DEF Fits, People!Single
  <2>2. CASE d = n + 1 \/ b = n + 1
    BY <1>2, <1>4, <2>2 DEF Fresh, People!HasHome, People!HasBuiltIn
  <2> QED BY <1>4, <2>1, <2>2
<1>9. People!Apart(E)
  <2> SUFFICES ASSUME NEW d \in People!Live(E), NEW f \in People!Live(E), d # f, E[d].label # "",
                      E[d].label = E[f].label
               PROVE  "backup" \in {E[d].kind, E[f].kind}
    BY DEF People!Apart
  <2>1. CASE d \in People!Live(D) /\ E[d] = D[d] /\ f \in People!Live(D) /\ E[f] = D[f]
    BY <2>1 DEF People!Apart
  <2>2. CASE d = n + 1 \/ f = n + 1
    BY <1>2, <1>5, <2>2 DEF Fresh, People!Labelled
  <2> QED BY <1>5, <2>1, <2>2
<1> QED BY <1>2, <1>3, <1>7, <1>8, <1>9 DEF DrivesMade, Fits

LEMMA DriveAdded ==
  ASSUME People!Inputs, NEW D \in Seq(People!DriveRecs), Fits(D), People!Apart(D), NEW op \in Ops,
         NEW E, E = People!CreateDrive(op, D), E # <<>>
  PROVE  DrivesMade(D, E)
<1>1. PICK e : e = [kind |-> "public", owner |-> 0, label |-> op.name, list |-> op.list, deleted |-> FALSE]
  OBVIOUS
<1>2. e \in People!DriveRecs /\ e.label = op.name /\ e.kind = "public"
  <2>1. op.name \in People!Labels /\ op.list \in SUBSET Nat
    <3>1. op.name \in STRING /\ op.list \in SUBSET Nat
      BY DEF People!Inputs
    <3> QED BY <3>1, Zenon DEF People!Labels
  <2> QED BY <1>1, <2>1 DEF People!DriveRecs
<1>3. ~(People!Cardinality(People!Public(D)) >= MaxPublic \/ (op.name # "" /\ People!Labelled(D, op.name)))
  BY DEF People!CreateDrive, People!Labelled
<1>4. E = Append(D, [kind |-> "public", owner |-> 0, label |-> op.name, list |-> op.list, deleted |-> FALSE])
  BY <1>3, Zenon DEF People!CreateDrive
<1>5. Fresh(D, e)
  BY <1>2, <1>3, Counted DEF Fresh
<1> QED BY <1>1, <1>2, <1>4, <1>5, DriveAppended

\* LIST: a home and the built-in drive where there was none.
LEMMA DrivesListed ==
  ASSUME People!Inputs, NEW D \in Seq(People!DriveRecs), Fits(D), People!Apart(D), NEW op \in Ops,
         NEW E, E = People!ListDrives(op, D), E # <<>>
  PROVE  DrivesMade(D, E)
<1>1. PICK H : H = People!AddHome(op.by, D)
  OBVIOUS
<1>2. H \in Seq(People!DriveRecs) /\ DrivesGrown(D, H) /\ Fits(H) /\ People!Apart(H)
  <2>1. CASE People!HasHome(D, op.by)
    <3>1. H = D
      BY <1>1, <2>1 DEF People!AddHome
    <3> QED BY <3>1 DEF DrivesGrown
  <2>2. CASE ~People!HasHome(D, op.by)
    <3>1. PICK e : e = People!Home(op.by)
      OBVIOUS
    <3>2. e \in People!DriveRecs /\ e.kind = "home" /\ e.owner = op.by /\ e.label = ""
      <4>1. op.by \in Nat
        BY DEF People!Inputs
      <4>2. {} \in SUBSET Nat
        OBVIOUS
      <4>3. e = [kind |-> "home", owner |-> op.by, label |-> "", list |-> {}, deleted |-> FALSE]
        BY <3>1 DEF People!Home
      <4>4. e.kind = "home" /\ e.owner = op.by /\ e.label = ""
        BY <4>3
      <4>5. PICK label \in People!Labels : label = ""
        BY Zenon DEF People!Labels
      <4>6. e = [kind |-> "home", owner |-> op.by, label |-> label, list |-> {}, deleted |-> FALSE]
        BY <4>3, <4>5, Zenon
      <4>7. e \in People!DriveRecs
        BY <4>1, <4>2, <4>6 DEF People!DriveRecs
      <4> QED BY <4>4, <4>7
    <3>3. H = Append(D, e)
      BY <1>1, <2>2, <3>1 DEF People!AddHome
    <3>4. Fresh(D, e)
      BY <2>2, <3>2 DEF Fresh
    <3> QED BY <3>2, <3>3, <3>4, DriveAppended DEF DrivesMade
  <2> QED BY <2>1, <2>2
<1>3. E = People!AddBuiltIn(H)
  BY <1>1 DEF People!ListDrives
<1>4. CASE People!HasBuiltIn(H)
  <2>1. E = H
    BY <1>3, <1>4 DEF People!AddBuiltIn
  <2> QED BY <1>2, <2>1 DEF DrivesMade
<1>5. CASE ~People!HasBuiltIn(H)
  <2>1. PICK e : e = People!BuiltIn
    OBVIOUS
  <2>2. e \in People!DriveRecs /\ e.kind = "built-in" /\ e.label = ""
    <3>1. People!Everybody \in SUBSET Nat
      BY DEF People!Everybody
    <3>2. PICK L \in SUBSET Nat : L = People!Everybody
      BY <3>1
    <3>3. e = [kind |-> "built-in", owner |-> 0, label |-> "", list |-> L, deleted |-> FALSE]
      BY <2>1, <3>2 DEF People!BuiltIn
    <3>4. e.kind = "built-in" /\ e.label = ""
      BY <3>3
    <3>5. PICK label \in People!Labels : label = ""
      BY Zenon DEF People!Labels
    <3>6. e = [kind |-> "built-in", owner |-> 0, label |-> label, list |-> L, deleted |-> FALSE]
      BY <3>3, <3>5, Zenon
    <3>7. e \in People!DriveRecs
      BY <3>6 DEF People!DriveRecs
    <3> QED BY <3>4, <3>7
  <2>3. E = Append(H, e)
    BY <1>3, <1>5, <2>1 DEF People!AddBuiltIn
  <2>4. Fresh(H, e)
    BY <1>5, <2>2 DEF Fresh
  <2>5. DrivesMade(H, E)
    BY <1>2, <2>2, <2>3, <2>4, DriveAppended
  <2> QED BY <1>2, <2>5 DEF DrivesMade, DrivesGrown
<1> QED BY <1>4, <1>5

\* e may take the place of a drive f of D.
Fitting(D, f, e) ==
  /\ e.kind = f.kind /\ e.owner = f.owner /\ (f.deleted => e.deleted)
  /\ e.label = f.label \/ ~People!Labelled(D, e.label) \/ e.kind = "backup"

LEMMA SeqSet ==
  ASSUME NEW S, NEW a \in Seq(S), NEW k \in DOMAIN a, NEW e \in S, NEW b, b = [a EXCEPT ![k] = e]
  PROVE  b \in Seq(S) /\ b # <<>> /\ DOMAIN b = DOMAIN a /\ b[k] = e /\ \A i \in DOMAIN a : i # k => b[i] = a[i]
<1>1. b \in Seq(S)
  OBVIOUS
<1> QED BY <1>1

LEMMA DriveSet ==
  ASSUME People!Inputs, NEW D \in Seq(People!DriveRecs), Fits(D), People!Apart(D), NEW k \in DOMAIN D,
         NEW e \in People!DriveRecs, NEW f, f = D[k], Fitting(D, f, e), NEW E, E = [D EXCEPT ![k] = e]
  PROVE  DrivesMade(D, E)
<1>1. e.kind = D[k].kind /\ e.owner = D[k].owner /\ (D[k].deleted => e.deleted)
  BY DEF Fitting
<1>2. e.label = D[k].label \/ ~People!Labelled(D, e.label) \/ e.kind = "backup"
  BY DEF Fitting
<1>0. E \in Seq(People!DriveRecs) /\ E # <<>> /\ DOMAIN E = DOMAIN D /\ E[k] = e /\ \A d \in DOMAIN D : d # k => E[d] = D[d]
  BY SeqSet
<1>3. DrivesGrown(D, E)
  BY <1>0, <1>1 DEF DrivesGrown
<1>4. \A d \in People!Live(E) : d \in People!Live(D) /\ E[d].kind = D[d].kind
  BY <1>0, <1>1 DEF People!Live
<1>5. Fits(E)
  BY <1>0, <1>1, FitsStill
<1>6. People!Apart(E)
  <2> SUFFICES ASSUME NEW d \in People!Live(E), NEW b \in People!Live(E), d # b, E[d].label # "",
                      E[d].label = E[b].label
               PROVE  "backup" \in {E[d].kind, E[b].kind}
    BY DEF People!Apart
  <2>1. d \in People!Live(D) /\ b \in People!Live(D) /\ E[d].kind = D[d].kind /\ E[b].kind = D[b].kind
    BY <1>4
  <2>2. CASE E[d].label = D[d].label /\ E[b].label = D[b].label
    BY <2>1, <2>2 DEF People!Apart
  <2>3. CASE E[d].label # D[d].label
    <3>0. d \in DOMAIN D /\ b \in DOMAIN D
      BY <1>0, <2>1 DEF People!Live
    <3>1. d = k /\ b # k
      BY <1>0, <2>3, <3>0
    <3> QED BY <1>0, <1>1, <1>2, <2>1, <2>3, <3>1 DEF People!Labelled, People!Live
  <2>4. CASE E[b].label # D[b].label
    BY <1>0, <1>1, <1>2, <2>1, <2>4 DEF People!Labelled, People!Live
  <2> QED BY <2>2, <2>3, <2>4
<1> QED BY <1>0, <1>3, <1>5, <1>6 DEF DrivesMade

LEMMA DriveNone ==
  ASSUME NEW D \in Seq(People!DriveRecs), NEW op, op.on \notin DOMAIN D, NEW E, E # <<>>,
         \/ E = People!UpdateDrive(op, D)
         \/ E = People!UpdateBackup(op, D) /\ D[op.on].kind = "backup"
         \/ E = People!DeleteDrive(op, D)
  PROVE  E = D
<1> DEFINE k == op.on
<1>4. PICK label : label = IF op.name = "" THEN D[k].label ELSE op.name
  OBVIOUS
<1>0. \A x, y : [D EXCEPT ![k].label = x] = D /\ [D EXCEPT ![k].label = x, ![k].list = y] = D
  OBVIOUS
<1>1. CASE E = People!UpdateDrive(op, D)
  <2>1. PICK list : list = IF op.list = {} \/ D[k].kind \notin {"built-in", "public"} THEN D[k].list ELSE op.list
    OBVIOUS
  <2>2. E = [D EXCEPT ![k].label = label, ![k].list = list]
    BY <1>1, <1>4, <2>1 DEF People!UpdateDrive, People!Labelled
  <2>3. [D EXCEPT ![k].label = label, ![k].list = list] = D
    BY <1>0
  <2> QED BY <2>2, <2>3
<1>2. CASE E = People!UpdateBackup(op, D)
  <2>1. E = [D EXCEPT ![k].label = label]
    BY <1>2, <1>4 DEF People!UpdateBackup
  <2> QED BY <1>0, <2>1
<1>3. CASE E = People!DeleteDrive(op, D)
  BY <1>3 DEF People!DeleteDrive
<1> QED BY <1>1, <1>2, <1>3

LEMMA DriveChanged ==
  ASSUME People!Inputs, NEW D \in Seq(People!DriveRecs), Fits(D), People!Apart(D), NEW op \in Ops,
         NEW E, E # <<>>,
         \/ E = People!UpdateDrive(op, D)
         \/ E = People!UpdateBackup(op, D) /\ D[op.on].kind = "backup"
         \/ E = People!DeleteDrive(op, D)
  PROVE  DrivesMade(D, E)
<1>0. CASE op.on \notin DOMAIN D
  <2>1. E = D
    BY <1>0, DriveNone
  <2> QED BY <2>1 DEF DrivesMade, DrivesGrown
<1> SUFFICES ASSUME op.on \in DOMAIN D PROVE DrivesMade(D, E)
  BY <1>0
<1>1. PICK k \in DOMAIN D : k = op.on
  OBVIOUS
<1>2. PICK f \in People!DriveRecs : f = D[k]
  OBVIOUS
<1>3. op.name \in People!Labels /\ op.list \in SUBSET Nat /\ f.label \in People!Labels /\ f.list \in SUBSET Nat
  <2>1. op.name \in STRING /\ op.list \in SUBSET Nat
    BY DEF People!Inputs
  <2>2. op.name \in People!Labels
    BY <2>1, Zenon DEF People!Labels
  <2>3. f.label \in People!Labels /\ f.list \in SUBSET Nat
    BY DEF People!DriveRecs
  <2> QED BY <2>1, <2>2, <2>3
<1>4. PICK label \in People!Labels : label = IF op.name = "" THEN f.label ELSE op.name
  BY <1>3
<1>5. CASE E = People!UpdateDrive(op, D)
  <2>1. PICK list \in SUBSET Nat :
          list = IF op.list = {} \/ f.kind \notin {"built-in", "public"} THEN f.list ELSE op.list
    BY <1>3
  <2>2. ~(op.name # "" /\ People!Labelled(D, op.name))
    BY <1>5 DEF People!UpdateDrive, People!Labelled
  <2>3. E = [D EXCEPT ![k].label = label, ![k].list = list]
    BY <1>1, <1>2, <1>4, <1>5, <2>1, <2>2 DEF People!UpdateDrive, People!Labelled
  <2>4. PICK e \in People!DriveRecs : /\ e = [f EXCEPT !.label = label, !.list = list]
                                      /\ e.kind = f.kind /\ e.owner = f.owner /\ e.deleted = f.deleted /\ e.label = label
    <3>1. PICK e : e = [f EXCEPT !.label = label, !.list = list]
      OBVIOUS
    <3>2. e \in People!DriveRecs /\ e.kind = f.kind /\ e.owner = f.owner /\ e.deleted = f.deleted /\ e.label = label
      BY <3>1 DEF People!DriveRecs
    <3> QED BY <3>1, <3>2
  <2>5. E = [D EXCEPT ![k] = e]
    BY <1>2, <2>3, <2>4
  <2>6. Fitting(D, f, e)
    BY <1>2, <1>4, <2>2, <2>4 DEF Fitting
  <2> QED BY <1>2, <2>4, <2>5, <2>6, DriveSet
<1>6. CASE E = People!UpdateBackup(op, D) /\ D[op.on].kind = "backup"
  <2>1. E = [D EXCEPT ![k].label = label]
    BY <1>1, <1>2, <1>4, <1>6 DEF People!UpdateBackup
  <2>2. PICK e \in People!DriveRecs : /\ e = [f EXCEPT !.label = label]
                                      /\ e.kind = f.kind /\ e.owner = f.owner /\ e.deleted = f.deleted
    <3>1. PICK e : e = [f EXCEPT !.label = label]
      OBVIOUS
    <3>2. e \in People!DriveRecs /\ e.kind = f.kind /\ e.owner = f.owner /\ e.deleted = f.deleted
      BY <3>1 DEF People!DriveRecs
    <3> QED BY <3>1, <3>2
  <2>3. E = [D EXCEPT ![k] = e]
    BY <1>2, <2>1, <2>2
  <2>4. Fitting(D, f, e)
    BY <1>1, <1>2, <1>6, <2>2 DEF Fitting
  <2> QED BY <1>2, <2>2, <2>3, <2>4, DriveSet
<1>7. CASE E = People!DeleteDrive(op, D)
  <2>1. E = [D EXCEPT ![k].deleted = TRUE]
    BY <1>1, <1>7 DEF People!DeleteDrive
  <2>2. PICK e \in People!DriveRecs : /\ e = [f EXCEPT !.deleted = TRUE]
                                      /\ e.kind = f.kind /\ e.owner = f.owner /\ e.deleted /\ e.label = f.label
    <3>1. PICK e : e = [f EXCEPT !.deleted = TRUE]
      OBVIOUS
    <3>2. e \in People!DriveRecs /\ e.kind = f.kind /\ e.owner = f.owner /\ e.deleted /\ e.label = f.label
      BY <3>1 DEF People!DriveRecs
    <3> QED BY <3>1, <3>2
  <2>3. E = [D EXCEPT ![k] = e]
    BY <1>2, <2>1, <2>2
  <2>4. Fitting(D, f, e)
    BY <2>2 DEF Fitting
  <2> QED BY <1>2, <2>2, <2>3, <2>4, DriveSet
<1> QED BY <1>5, <1>6, <1>7

LEMMA Cleaned ==
  ASSUME People!Inputs, NEW D \in Seq(People!DriveRecs), Fits(D), People!Apart(D), NEW gone,
         NEW E, E = People!Clean(gone, D), E # <<>>
  PROVE  DrivesMade(D, E) /\ (People!Led(D) /\ People!First \notin gone => People!Led(E))
<1>1. PICK n \in Nat : n = Len(D) /\ DOMAIN D = 1 .. n
  <2>1. Len(D) \in Nat /\ DOMAIN D = 1 .. Len(D)
    OBVIOUS
  <2> QED BY <2>1
<1>2. DOMAIN E = 1 .. n /\ E = [d \in 1 .. n |-> E[d]]
  BY <1>1 DEF People!Clean
<1>3. ASSUME NEW d \in DOMAIN D
      PROVE  /\ E[d] \in People!DriveRecs /\ E[d].kind = D[d].kind /\ E[d].label = D[d].label
             /\ E[d].owner = D[d].owner /\ (D[d].deleted => E[d].deleted)
             /\ \/ E[d].deleted \/ E[d].list = D[d].list
                \/ D[d].list # People!Everybody /\ E[d].list = D[d].list \ gone
  <2>1. PICK f \in People!DriveRecs : f = D[d]
    OBVIOUS
  <2>2. E[d] = CASE f.kind \in {"home", "backup"} /\ f.owner \in gone -> [f EXCEPT !.deleted = TRUE]
                 [] f.kind = "public" /\ f.list # People!Everybody -> [f EXCEPT !.list = f.list \ gone]
                 [] OTHER -> f
    BY <2>1 DEF People!Clean
  <2>3. CASE f.kind \in {"home", "backup"} /\ f.owner \in gone
    <3>1. E[d] = [f EXCEPT !.deleted = TRUE]
      BY <2>2, <2>3
    <3> QED BY <2>1, <3>1 DEF People!DriveRecs
  <2>4. CASE f.kind = "public" /\ f.list # People!Everybody
    <3>1. E[d] = [f EXCEPT !.list = f.list \ gone]
      BY <2>2, <2>4
    <3>2. f.list \ gone \in SUBSET Nat
      BY DEF People!DriveRecs
    <3> QED BY <2>1, <2>4, <3>1, <3>2 DEF People!DriveRecs
  <2>5. CASE /\ ~(f.kind \in {"home", "backup"} /\ f.owner \in gone)
             /\ ~(f.kind = "public" /\ f.list # People!Everybody)
    <3>1. E[d] = f
      BY <2>2, <2>5
    <3> QED BY <2>1, <3>1
  <2> QED BY <2>3, <2>4, <2>5
<1>4. E \in Seq(People!DriveRecs)
  BY <1>1, <1>2, <1>3
<1>5. DrivesGrown(D, E)
  BY <1>1, <1>2, <1>3 DEF DrivesGrown
<1>6. \A d \in People!Live(E) : d \in People!Live(D) /\ E[d].kind = D[d].kind /\ E[d].label = D[d].label
  BY <1>1, <1>2, <1>3 DEF People!Live
<1>7. People!Public(E) \subseteq People!Public(D)
  BY <1>6 DEF People!Public
<1>8. Fits(E)
  BY <1>1, <1>2, <1>3, <1>4, FitsStill
<1>9. People!Apart(E)
  <2> SUFFICES ASSUME NEW d \in People!Live(E), NEW f \in People!Live(E), d # f, E[d].label # "",
                      E[d].label = E[f].label
               PROVE  "backup" \in {E[d].kind, E[f].kind}
    BY DEF People!Apart
  <2>1. /\ d \in People!Live(D) /\ E[d].kind = D[d].kind /\ E[d].label = D[d].label
        /\ f \in People!Live(D) /\ E[f].kind = D[f].kind /\ E[f].label = D[f].label
    BY <1>6
  <2> QED BY <2>1 DEF People!Apart
<1>10. ASSUME People!Led(D), People!First \notin gone PROVE People!Led(E)
  <2> SUFFICES ASSUME NEW d \in People!Public(E)
               PROVE  E[d].list = People!Everybody \/ People!First \in E[d].list
    BY DEF People!Led
  <2>1. d \in DOMAIN D /\ ~E[d].deleted /\ (D[d].list = People!Everybody \/ People!First \in D[d].list)
    BY <1>1, <1>2, <1>7, <1>10 DEF People!Led, People!Public, People!Live
  <2> QED BY <1>3, <1>10, <2>1
<1> QED BY <1>4, <1>5, <1>8, <1>9, <1>10 DEF DrivesMade

-----------------------------------------------------------------------------
Jobs == [by : Calls \cup {0}, gone : SUBSET Nat]
StoreOf(S) == [data : S, file : S, queue : Seq(Jobs), staged : [by : Calls \cup {0, -1}, value : S]]
Called(c) == c \in Calls /\ call[c].pc # "idle" /\ call[c].op \in Ops
UserAsked(c) == Called(c) /\ People!ForUsers(call[c].op)
DriveAsked(c) == Called(c) /\ ~People!ForUsers(call[c].op)
MembersTyped ==
  /\ users \in StoreOf(Seq(People!UserRecs)) /\ drives \in StoreOf(Seq(People!DriveRecs))
  /\ DOMAIN call = Calls /\ \A c \in Calls : DOMAIN call[c] = {"op", "pc", "answer"}
  /\ \A job \in ToSet(users.queue) : UserAsked(job.by)
  /\ \A job \in ToSet(drives.queue) : job.by = 0 \/ DriveAsked(job.by)
UsersKept ==
  /\ users.file = users.data /\ users.data # <<>> /\ People!Alone(users.data)
  /\ users.staged # People!Free =>
       /\ users.staged.value # <<>> /\ Called(users.staged.by)
       /\ UsersGrown(users.data, users.staged.value) /\ People!Alone(users.staged.value)
DrivesKept ==
  /\ Listing(drives.file, drives.data) /\ Fits(drives.data) /\ People!Apart(drives.data)
  /\ drives.staged # People!Free =>
       /\ drives.staged.by = 0 \/ Called(drives.staged.by)
       /\ DrivesMade(drives.data, drives.staged.value)
FirstKept ==
  People!First \in People!Alive(users.data) =>
    /\ People!Led(drives.data) /\ People!Led(drives.file)
    /\ drives.staged # People!Free => People!Led(drives.staged.value)
    /\ \A job \in ToSet(drives.queue) : People!First \notin job.gone
MembersInv == MembersTyped /\ UsersKept /\ DrivesKept /\ FirstKept

LEMMA TailOf ==
  ASSUME NEW S, NEW q \in Seq(S), q # <<>>
  PROVE  /\ Head(q) \in S /\ Head(q) = q[1] /\ 1 \in DOMAIN q
         /\ Tail(q) \in Seq(S) /\ ToSet(Tail(q)) \subseteq ToSet(q) /\ Head(q) \in ToSet(q)
<1>1. PICK n \in Nat : n = Len(q) /\ DOMAIN q = 1 .. n /\ n > 0
  <2>1. Len(q) \in Nat /\ DOMAIN q = 1 .. Len(q) /\ Len(q) > 0
    OBVIOUS
  <2> QED BY <2>1
<1>2. Tail(q) \in Seq(S) /\ DOMAIN Tail(q) = 1 .. (n - 1) /\ \A i \in 1 .. (n - 1) : Tail(q)[i] = q[i + 1]
  BY <1>1
<1>3. \A i \in 1 .. (n - 1) : i + 1 \in 1 .. n
  OBVIOUS
<1> QED BY <1>1, <1>2, <1>3 DEF ToSet

LEMMA AppendOf ==
  ASSUME NEW S, NEW q \in Seq(S), NEW e \in S
  PROVE  Append(q, e) \in Seq(S) /\ ToSet(Append(q, e)) \subseteq ToSet(q) \cup {e}
<1>1. PICK n \in Nat : n = Len(q) /\ DOMAIN q = 1 .. n
  <2>1. Len(q) \in Nat /\ DOMAIN q = 1 .. Len(q)
    OBVIOUS
  <2> QED BY <2>1
<1>2. PICK p : p = Append(q, e)
  OBVIOUS
<1>3. p \in Seq(S) /\ Len(p) = n + 1 /\ p[n + 1] = e /\ \A i \in 1 .. n : p[i] = q[i]
  BY <1>1, <1>2
<1>4. DOMAIN p = 1 .. (n + 1)
  BY <1>3
<1>5. \A i \in DOMAIN p : p[i] = e \/ (i \in DOMAIN q /\ p[i] = q[i])
  BY <1>1, <1>3, <1>4, OneMore
<1> QED BY <1>2, <1>3, <1>5 DEF ToSet

\* Calls that were taken stay so.
CallsStay ==
  /\ DOMAIN call' = Calls /\ \A c \in Calls : DOMAIN call'[c] = {"op", "pc", "answer"}
  /\ \A c \in Calls : call[c].pc # "idle" => call'[c].pc # "idle" /\ call'[c].op = call[c].op

LEMMA CallDone ==
  ASSUME MembersTyped, NEW c, NEW a, People!Done(c, a)
  PROVE  CallsStay
<1>1. call' = [call EXCEPT ![c].pc = "done", ![c].answer = a]
  BY DEF People!Done
<1>2. DOMAIN call' = Calls /\ \A d \in Calls : d # c => call'[d] = call[d]
  BY <1>1 DEF MembersTyped
<1>3. ASSUME c \in Calls
      PROVE  DOMAIN call'[c] = {"op", "pc", "answer"} /\ call'[c].pc = "done" /\ call'[c].op = call[c].op
  BY <1>1, <1>3 DEF MembersTyped
<1> QED BY <1>2, <1>3 DEF CallsStay, MembersTyped

LEMMA StillAsked ==
  ASSUME CallsStay, NEW c
  PROVE  /\ Called(c) => Called(c)'
         /\ UserAsked(c) => UserAsked(c)'
         /\ DriveAsked(c) => DriveAsked(c)'
<1>1. Called(c) => Called(c)' /\ call'[c].op = call[c].op
  BY DEF CallsStay, Called
<1> QED BY <1>1 DEF UserAsked, DriveAsked, People!ForUsers

\* What a step may do to the queues.
QueuesStay ==
  /\ \A job \in ToSet(users.queue)' : job \in ToSet(users.queue) \/ UserAsked(job.by)'
  /\ \A job \in ToSet(drives.queue)' : \/ job \in ToSet(drives.queue)
                                       \/ (job.by = 0 \/ DriveAsked(job.by)')

LEMMA TypesStay ==
  ASSUME MembersTyped, CallsStay, QueuesStay,
         users' \in StoreOf(Seq(People!UserRecs)), drives' \in StoreOf(Seq(People!DriveRecs))
  PROVE  MembersTyped'
<1>1. ASSUME NEW job \in ToSet(users.queue)' PROVE UserAsked(job.by)'
  BY StillAsked DEF MembersTyped, QueuesStay
<1>2. ASSUME NEW job \in ToSet(drives.queue)', job.by # 0 PROVE DriveAsked(job.by)'
  BY <1>2, StillAsked DEF MembersTyped, QueuesStay
<1>3. DOMAIN call' = Calls /\ \A c \in Calls : DOMAIN call'[c] = {"op", "pc", "answer"}
  BY DEF CallsStay
<1> QED BY <1>1, <1>2, <1>3 DEF MembersTyped

LEMMA MembersAsk ==
  ASSUME People!Inputs, MembersInv, NEW c \in Calls, NEW op \in Ops, People!Ask(c, op)
  PROVE  MembersInv'
<1>1. PICK job \in Jobs : job = [by |-> c, gone |-> {}] /\ job.by = c /\ job.gone = {}
  <2>1. [by |-> c, gone |-> {}] \in Jobs
    BY DEF Jobs
  <2> QED BY <2>1
<1>2. PICK e : e.op = op /\ e.pc # "idle" /\ DOMAIN e = {"op", "pc", "answer"} /\ call' = [call EXCEPT ![c] = e]
  <2>1. CASE People!Check(op) # 0 \/ op.do = "password"
    <3>1. PICK pc : pc = (IF People!Check(op) # 0 THEN "done" ELSE "unanswered")
      OBVIOUS
    <3>2. call' = [call EXCEPT ![c] = [op |-> op, pc |-> pc, answer |-> People!Check(op)]]
      BY <2>1, <3>1 DEF People!Ask
    <3>3. PICK e : e = [op |-> op, pc |-> pc, answer |-> People!Check(op)]
      OBVIOUS
    <3>4. e.op = op /\ e.pc # "idle" /\ DOMAIN e = {"op", "pc", "answer"}
      BY <3>1, <3>3
    <3> QED BY <3>2, <3>3, <3>4
  <2>2. CASE ~(People!Check(op) # 0 \/ op.do = "password")
    <3>1. call' = [call EXCEPT ![c] = [op |-> op, pc |-> "waiting", answer |-> 0]]
      BY <2>2 DEF People!Ask
    <3> QED BY <3>1
  <2> QED BY <2>1, <2>2
<1>3. CallsStay /\ Called(c)' /\ call'[c].op = op
  BY <1>2 DEF CallsStay, Called, MembersInv, MembersTyped, People!Ask
<1>4. CASE UNCHANGED <<users, drives>>
  <2>1. MembersTyped'
    BY <1>3, <1>4, TypesStay DEF QueuesStay, MembersInv, MembersTyped
  <2>2. UsersKept' /\ DrivesKept' /\ FirstKept'
    BY <1>3, <1>4, StillAsked DEF MembersInv, UsersKept, DrivesKept, FirstKept
  <2> QED BY <2>1, <2>2 DEF MembersInv
<1>5. CASE /\ People!ForUsers(op) /\ users' = [users EXCEPT !.queue = Append(@, job)] /\ UNCHANGED drives
  <2>1. PICK u \in StoreOf(Seq(People!UserRecs)) : u = users
    BY DEF MembersInv, MembersTyped
  <2>2. PICK q \in Seq(Jobs) : q = Append(u.queue, job) /\ ToSet(q) \subseteq ToSet(users.queue) \cup {job}
    <3>1. u.queue \in Seq(Jobs)
      BY DEF StoreOf
    <3> QED BY <2>1, <3>1, AppendOf
  <2>3. users' = [u EXCEPT !.queue = q]
    BY <1>1, <1>5, <2>1, <2>2
  <2>4. /\ users' \in StoreOf(Seq(People!UserRecs)) /\ users'.data = users.data /\ users'.file = users.file
        /\ users'.staged = users.staged /\ users'.queue = q
    BY <2>1, <2>3 DEF StoreOf
  <2>5. UserAsked(c)'
    BY <1>3, <1>5 DEF UserAsked, People!ForUsers
  <2>6. QueuesStay
    <3>1. \A j \in ToSet(users.queue)' : j \in ToSet(users.queue) \/ j = job
      BY <2>2, <2>4
    <3> QED BY <1>1, <1>5, <2>5, <3>1 DEF QueuesStay
  <2>7. MembersTyped'
    BY <1>3, <1>5, <2>4, <2>6, TypesStay DEF MembersInv, MembersTyped
  <2>8. UsersKept' /\ DrivesKept' /\ FirstKept'
    BY <1>3, <1>5, <2>4, StillAsked DEF MembersInv, UsersKept, DrivesKept, FirstKept
  <2> QED BY <2>7, <2>8 DEF MembersInv
<1>6. CASE /\ ~People!ForUsers(op) /\ People!Check(op) = 0
           /\ drives' = [drives EXCEPT !.queue = Append(@, job)] /\ UNCHANGED users
  <2>1. PICK d \in StoreOf(Seq(People!DriveRecs)) : d = drives
    BY DEF MembersInv, MembersTyped
  <2>2. PICK q \in Seq(Jobs) : q = Append(d.queue, job) /\ ToSet(q) \subseteq ToSet(drives.queue) \cup {job}
    <3>1. d.queue \in Seq(Jobs)
      BY DEF StoreOf
    <3> QED BY <2>1, <3>1, AppendOf
  <2>3. drives' = [d EXCEPT !.queue = q]
    BY <1>1, <1>6, <2>1, <2>2
  <2>4. /\ drives' \in StoreOf(Seq(People!DriveRecs)) /\ drives'.data = drives.data /\ drives'.file = drives.file
        /\ drives'.staged = drives.staged /\ drives'.queue = q
    BY <2>1, <2>3 DEF StoreOf
  <2>5. DriveAsked(c)'
    BY <1>3, <1>6, <2>4 DEF DriveAsked, People!ForUsers
  <2>6. QueuesStay
    <3>1. \A j \in ToSet(drives.queue)' : j \in ToSet(drives.queue) \/ j = job
      BY <2>2, <2>4
    <3> QED BY <1>1, <1>6, <2>4, <2>5, <3>1 DEF QueuesStay
  <2>7. MembersTyped'
    BY <1>3, <1>6, <2>4, <2>6, TypesStay DEF MembersInv, MembersTyped
  <2>8. UsersKept' /\ DrivesKept'
    BY <1>3, <1>6, <2>4, StillAsked DEF MembersInv, UsersKept, DrivesKept
  <2>9. FirstKept'
    <3>1. \A j \in ToSet(drives.queue)' : j \in ToSet(drives.queue) \/ People!First \notin j.gone
      BY <1>1, <2>2, <2>4
    <3> QED BY <1>6, <2>4, <3>1 DEF MembersInv, FirstKept
  <2> QED BY <2>7, <2>8, <2>9 DEF MembersInv
<1> QED BY <1>1, <1>4, <1>5, <1>6 DEF People!Ask

\* The queue of a store without its first job.
LEMMA StoreTail ==
  ASSUME NEW S, NEW s \in StoreOf(S), s.queue # <<>>
  PROVE  \E q \in Seq(Jobs) : /\ q = Tail(s.queue) /\ [s EXCEPT !.queue = Tail(@)] = [s EXCEPT !.queue = q]
                              /\ ToSet(q) \subseteq ToSet(s.queue) /\ [s EXCEPT !.queue = q] \in StoreOf(S)
<1>1. s.queue \in Seq(Jobs)
  BY DEF StoreOf
<1>2. PICK q \in Seq(Jobs) : q = Tail(s.queue) /\ ToSet(q) \subseteq ToSet(s.queue)
  BY <1>1, TailOf
<1> QED BY <1>2 DEF StoreOf

LEMMA MembersSaveUsers ==
  ASSUME People!Inputs, MembersInv, People!SaveUsers
  PROVE  MembersInv'
<1>1. PICK u \in StoreOf(Seq(People!UserRecs)) : u = users
  BY DEF MembersInv, MembersTyped
<1>2. u.queue \in Seq(Jobs) /\ u.queue # <<>> /\ u.staged = People!Free /\ UNCHANGED <<drives, faults>>
  BY <1>1 DEF People!SaveUsers, People!Due, StoreOf
<1>3. PICK q \in Seq(Jobs) : /\ q = Tail(u.queue) /\ [u EXCEPT !.queue = Tail(@)] = [u EXCEPT !.queue = q]
                             /\ ToSet(q) \subseteq ToSet(u.queue) /\ [u EXCEPT !.queue = q] \in StoreOf(Seq(People!UserRecs))
  BY <1>2, StoreTail
<1>4. PICK job \in Jobs : job = Head(users.queue) /\ job \in ToSet(users.queue)
  BY <1>1, <1>2, TailOf
<1>5. UserAsked(job.by) /\ job.by \in Calls /\ call[job.by].op \in Ops
  BY <1>4 DEF MembersInv, MembersTyped, UserAsked, Called
<1>6. PICK next : next = People!UserSaved(job, users.data)
  OBVIOUS
<1>7. PICK rest \in StoreOf(Seq(People!UserRecs)) :
        rest = [users EXCEPT !.queue = Tail(@)] /\ rest.queue = q /\ rest.data = users.data /\ rest.file = users.file
        /\ rest.staged = users.staged
  BY <1>1, <1>3 DEF StoreOf
<1>8. \/ next = <<>> /\ users' = rest /\ People!Done(job.by, 500)
      \/ next # <<>> /\ users' = [rest EXCEPT !.staged = [by |-> job.by, value |-> next]] /\ UNCHANGED call
  BY <1>4, <1>6, <1>7, Zenon DEF People!SaveUsers
<1>9. CASE next = <<>> /\ users' = rest /\ People!Done(job.by, 500)
  <2>1. CallsStay
    BY <1>9, CallDone DEF MembersInv
  <2>2. QueuesStay
    BY <1>1, <1>2, <1>3, <1>7, <1>9 DEF QueuesStay
  <2>3. MembersTyped'
    BY <1>2, <1>7, <1>9, <2>1, <2>2, TypesStay DEF MembersInv, MembersTyped
  <2>4. UsersKept' /\ DrivesKept' /\ FirstKept'
    BY <1>2, <1>7, <1>9, <2>1, StillAsked DEF MembersInv, UsersKept, DrivesKept, FirstKept
  <2> QED BY <2>3, <2>4 DEF MembersInv
<1>10. CASE next # <<>> /\ users' = [rest EXCEPT !.staged = [by |-> job.by, value |-> next]] /\ UNCHANGED call
  <2>1. users.data \in Seq(People!UserRecs) /\ users.data # <<>> /\ People!Alone(users.data)
    BY <1>1 DEF MembersInv, UsersKept, StoreOf
  <2>2. next = People!CreateUser(call[job.by].op, users.data) \/ next = People!UpdateUser(call[job.by].op, users.data)
    BY <1>6, <1>10 DEF People!UserSaved
  <2>3. next \in Seq(People!UserRecs) /\ People!Alone(next) /\ UsersGrown(users.data, next)
    BY <1>5, <1>10, <2>1, <2>2, UserMade, UserChanged
  <2>4. PICK s \in [by : Calls \cup {0, -1}, value : Seq(People!UserRecs)] :
          s = [by |-> job.by, value |-> next] /\ s.by = job.by /\ s.value = next
    <3>1. job.by \in Calls \cup {0, -1}
      BY <1>5
    <3>2. [by |-> job.by, value |-> next] \in [by : Calls \cup {0, -1}, value : Seq(People!UserRecs)]
      BY <2>3, <3>1
    <3> QED BY <3>2
  <2>5. users' = [rest EXCEPT !.staged = s]
    BY <1>10, <2>4
  <2>6. /\ users' \in StoreOf(Seq(People!UserRecs)) /\ users'.data = users.data /\ users'.file = users.file
        /\ users'.queue = q /\ users'.staged = s
    BY <1>7, <2>5 DEF StoreOf
  <2>7. CallsStay
    BY <1>10 DEF CallsStay, MembersInv, MembersTyped
  <2>8. QueuesStay
    BY <1>1, <1>2, <1>3, <2>6 DEF QueuesStay
  <2>9. MembersTyped'
    BY <1>2, <2>6, <2>7, <2>8, TypesStay DEF MembersInv, MembersTyped
  <2>10. UsersKept'
    <3>1. Called(job.by)'
      BY <1>5, <2>7, StillAsked DEF UserAsked
    <3> QED BY <1>10, <2>1, <2>3, <2>4, <2>6, <3>1 DEF MembersInv, UsersKept, Called
  <2>11. DrivesKept' /\ FirstKept'
    BY <1>2, <2>6, <2>7, StillAsked DEF MembersInv, DrivesKept, FirstKept
  <2> QED BY <2>9, <2>10, <2>11 DEF MembersInv
<1> QED BY <1>8, <1>9, <1>10

\* What the save of a drive returns, and the array that it shares with what is in memory.
LEMMA MembersSaved ==
  ASSUME People!Inputs, NEW D \in Seq(People!DriveRecs), Fits(D), People!Apart(D),
         NEW job, call[job.by].op \in Ops, ~People!ForUsers(call[job.by].op),
         NEW next, next = People!DriveSaved(job, D), next # <<>>
  PROVE  DrivesMade(D, next) /\ People!Led(next)
<1> DEFINE op == call[job.by].op
<1>1. op.do \in {"drive POST", "drive PATCH", "drive DELETE", "drive LIST"}
  BY DEF People!Inputs, People!ForUsers
<1>2. PICK E : /\ \/ E = People!CreateDrive(op, D)
                  \/ E = People!UpdateBackup(op, D) /\ D[op.on].kind = "backup"
                  \/ E = People!UpdateDrive(op, D)
                  \/ E = People!DeleteDrive(op, D)
                  \/ E = People!ListDrives(op, D)
               /\ E # <<>> /\ next = People!Rule(E)
  BY <1>1 DEF People!DriveSaved
<1>3. DrivesMade(D, E)
  BY <1>2, DriveAdded, DriveChanged, DrivesListed
<1>4. E \in Seq(People!DriveRecs)
  BY <1>3 DEF DrivesMade
<1>5. next \in Seq(People!DriveRecs) /\ Listing(E, next) /\ People!Led(next)
  BY <1>2, <1>4, Ruled
<1>6. DrivesGrown(D, next)
  BY <1>3, <1>5 DEF DrivesMade, DrivesGrown, Listing
<1>7. Fits(next) /\ People!Apart(next)
  BY <1>3, <1>5, Listed DEF DrivesMade
<1> QED BY <1>5, <1>6, <1>7 DEF DrivesMade

\* The drives that come of D where some lists are ruled.
RuledBut(D, k) == [d \in DOMAIN D |-> IF d # k THEN People!Rule(D)[d] ELSE D[d]]
LEMMA PartRuled ==
  ASSUME NEW D \in Seq(People!DriveRecs), NEW F \in Seq(People!DriveRecs), Listing(F, D), NEW k,
         NEW E, E = RuledBut(D, k)
  PROVE  /\ E \in Seq(People!DriveRecs) /\ Listing(F, E) /\ Listing(D, E)
         /\ People!Led(D) => People!Led(E)
<1>1. PICK R \in Seq(People!DriveRecs) : R = People!Rule(D) /\ Listing(D, R) /\ People!Led(R)
  BY Ruled
<1>2. PICK n \in Nat : n = Len(D) /\ DOMAIN D = 1 .. n
  <2>1. Len(D) \in Nat /\ DOMAIN D = 1 .. Len(D)
    OBVIOUS
  <2> QED BY <2>1
<1>3. DOMAIN E = 1 .. n /\ E = [d \in 1 .. n |-> E[d]] /\ \A d \in DOMAIN D : E[d] = R[d] \/ E[d] = D[d]
  BY <1>1, <1>2 DEF RuledBut
<1>4. \A d \in DOMAIN D : E[d] \in People!DriveRecs
  <2>1. \A d \in DOMAIN D : R[d] \in People!DriveRecs /\ D[d] \in People!DriveRecs
    BY <1>1 DEF Listing
  <2> QED BY <1>3, <2>1
<1>5. E \in Seq(People!DriveRecs)
  BY <1>2, <1>3, <1>4
<1>6. Listing(D, E) /\ Listing(F, E)
  BY <1>1, <1>2, <1>3 DEF Listing
<1>7. ASSUME People!Led(D), NEW d \in People!Public(E)
      PROVE  E[d].list = People!Everybody \/ People!First \in E[d].list
  <2>1. d \in People!Public(D) /\ d \in People!Public(R) /\ d \in DOMAIN D
    BY <1>1, <1>6, Listed DEF People!Public, People!Live
  <2> QED BY <1>1, <1>3, <1>7, <2>1 DEF People!Led
<1> QED BY <1>5, <1>6, <1>7 DEF People!Led

LEMMA DrivesOther ==
  ASSUME NEW D, NEW E, Listing(D, E), NEW X, DrivesMade(D, X)
  PROVE  DrivesMade(E, X)
BY DEF Listing, DrivesMade, DrivesGrown

\* What is staged, and what becomes of the array in memory meanwhile.
LEMMA MembersStage ==
  ASSUME People!Inputs, MembersInv, NEW job \in Jobs, job \in ToSet(drives.queue), NEW next, next # <<>>,
         next = IF job.by = 0 THEN People!Clean(job.gone, drives.data) ELSE People!DriveSaved(job, drives.data),
         NEW held,
         held = IF job.by = 0 THEN drives.data
                ELSE [d \in DOMAIN drives.data |->
                        IF d # call[job.by].op.on THEN People!Rule(drives.data)[d] ELSE drives.data[d]]
  PROVE  /\ held \in Seq(People!DriveRecs) /\ Listing(drives.file, held) /\ Fits(held) /\ People!Apart(held)
         /\ DrivesMade(held, next) /\ (People!Led(drives.data) => People!Led(held))
         /\ People!First \in People!Alive(users.data) => People!Led(next)
         /\ job.by = 0 \/ Called(job.by)
<1>1. PICK D \in Seq(People!DriveRecs) : D = drives.data /\ Listing(drives.file, D) /\ Fits(D) /\ People!Apart(D)
  BY DEF MembersInv, MembersTyped, StoreOf, DrivesKept
<1>2. drives.file \in Seq(People!DriveRecs)
  BY DEF MembersInv, MembersTyped, StoreOf
<1>3. CASE job.by = 0
  <2>1. next = People!Clean(job.gone, D) /\ held = D
    BY <1>1, <1>3
  <2>2. DrivesMade(D, next) /\ (People!Led(D) /\ People!First \notin job.gone => People!Led(next))
    BY <1>1, <2>1, Cleaned
  <2>3. People!First \in People!Alive(users.data) => People!Led(D) /\ People!First \notin job.gone
    BY <1>1 DEF MembersInv, FirstKept
  <2> QED BY <1>1, <1>3, <2>1, <2>2, <2>3
<1>4. CASE job.by # 0
  <2>1. next = People!DriveSaved(job, D)
    BY <1>1, <1>4
  <2>2. PICK k : k = call[job.by].op.on
    OBVIOUS
  <2>3. held = RuledBut(D, k)
    BY <1>1, <1>4, <2>2 DEF RuledBut
  <2>4. DriveAsked(job.by)
    BY <1>4 DEF MembersInv, MembersTyped
  <2>5. DrivesMade(D, next) /\ People!Led(next)
    BY <1>1, <2>1, <2>4, MembersSaved DEF DriveAsked, Called
  <2>6. held \in Seq(People!DriveRecs) /\ Listing(drives.file, held) /\ Listing(D, held) /\ (People!Led(D) => People!Led(held))
    BY <1>1, <1>2, <2>3, PartRuled
  <2>7. DrivesMade(held, next) /\ Fits(held) /\ People!Apart(held)
    BY <1>1, <2>5, <2>6, DrivesOther, Listed
  <2> QED BY <1>1, <2>4, <2>5, <2>6, <2>7 DEF DriveAsked
<1> QED BY <1>3, <1>4

LEMMA MembersSaveDrives ==
  ASSUME People!Inputs, MembersInv, People!SaveDrives
  PROVE  MembersInv'
<1>1. PICK s \in StoreOf(Seq(People!DriveRecs)) : s = drives
  BY DEF MembersInv, MembersTyped
<1>2. s.queue \in Seq(Jobs) /\ s.queue # <<>> /\ s.staged = People!Free /\ UNCHANGED <<users, faults>>
  BY <1>1 DEF People!SaveDrives, People!Due, StoreOf
<1>3. PICK q \in Seq(Jobs) : /\ q = Tail(s.queue) /\ [s EXCEPT !.queue = Tail(@)] = [s EXCEPT !.queue = q]
                             /\ ToSet(q) \subseteq ToSet(s.queue) /\ [s EXCEPT !.queue = q] \in StoreOf(Seq(People!DriveRecs))
  BY <1>2, StoreTail
<1>4. PICK job \in Jobs : job = Head(drives.queue) /\ job \in ToSet(drives.queue)
  BY <1>1, <1>2, TailOf
<1>5. PICK next : next = IF job.by = 0 THEN People!Clean(job.gone, drives.data) ELSE People!DriveSaved(job, drives.data)
  OBVIOUS
<1>6. PICK held : held = IF job.by = 0 THEN drives.data
                         ELSE [d \in DOMAIN drives.data |->
                                 IF d # call[job.by].op.on THEN People!Rule(drives.data)[d] ELSE drives.data[d]]
  OBVIOUS
<1>7. PICK rest \in StoreOf(Seq(People!DriveRecs)) :
        rest = [drives EXCEPT !.queue = Tail(@)] /\ rest.queue = q /\ rest.data = drives.data /\ rest.file = drives.file
        /\ rest.staged = drives.staged
  BY <1>1, <1>3 DEF StoreOf
<1>8. \/ next = <<>> /\ drives' = rest /\ People!Done(job.by, 500)
      \/ drives' = [rest EXCEPT !.data = People!Rule(@)] /\ People!Done(job.by, 200)
      \/ next # <<>> /\ drives' = [rest EXCEPT !.staged = [by |-> job.by, value |-> next], !.data = held] /\ UNCHANGED call
  <2> DEFINE as_is == job.by # 0 /\ People!Unchanged(call[job.by].op, drives.data)
  <2>0. next = <<>> => drives' = rest /\ People!Done(job.by, 500)
    BY <1>4, <1>5, <1>7, Zenon DEF People!SaveDrives
  <2>3. next # <<>> /\ as_is => drives' = [rest EXCEPT !.data = People!Rule(@)] /\ People!Done(job.by, 200)
    BY <1>4, <1>5, <1>7, SMT DEF People!SaveDrives
  <2>4. next # <<>> /\ ~as_is => UNCHANGED call
    BY <1>4, <1>5, <1>7, Zenon DEF People!SaveDrives
  <2>1. next # <<>> /\ ~as_is =>
          drives' = [rest EXCEPT !.staged = [by |-> job.by, value |-> next],
                          !.data = IF job.by = 0 THEN @
                                   ELSE [d \in DOMAIN @ |-> IF d # call[job.by].op.on THEN People!Rule(@)[d] ELSE @[d]]]
    BY <1>4, <1>5, <1>7, ZenonT(40) DEF People!SaveDrives
  <2>2. [rest EXCEPT !.staged = [by |-> job.by, value |-> next],
           !.data = IF job.by = 0 THEN @
                    ELSE [d \in DOMAIN @ |-> IF d # call[job.by].op.on THEN People!Rule(@)[d] ELSE @[d]]]
        = [rest EXCEPT !.staged = [by |-> job.by, value |-> next], !.data = held]
    BY <1>6, <1>7, Zenon
  <2> QED BY <2>0, <2>1, <2>2, <2>3, <2>4, Zenon
<1>9. CASE next = <<>> /\ drives' = rest /\ People!Done(job.by, 500)
  <2>1. CallsStay
    BY <1>9, CallDone DEF MembersInv
  <2>2. QueuesStay
    BY <1>1, <1>2, <1>3, <1>7, <1>9 DEF QueuesStay
  <2>3. MembersTyped'
    BY <1>2, <1>7, <1>9, <2>1, <2>2, TypesStay DEF MembersInv, MembersTyped
  <2>4. UsersKept' /\ DrivesKept'
    BY <1>2, <1>7, <1>9, <2>1, StillAsked DEF MembersInv, UsersKept, DrivesKept
  <2>5. FirstKept'
    BY <1>1, <1>2, <1>3, <1>7, <1>9 DEF MembersInv, FirstKept
  <2> QED BY <2>3, <2>4, <2>5 DEF MembersInv
<1>10. CASE next # <<>> /\ drives' = [rest EXCEPT !.staged = [by |-> job.by, value |-> next], !.data = held] /\ UNCHANGED call
  <2>1. /\ held \in Seq(People!DriveRecs) /\ Listing(drives.file, held) /\ Fits(held) /\ People!Apart(held)
        /\ DrivesMade(held, next) /\ (People!Led(drives.data) => People!Led(held))
        /\ People!First \in People!Alive(users.data) => People!Led(next)
        /\ job.by = 0 \/ Called(job.by)
    BY <1>4, <1>5, <1>6, <1>10, MembersStage
  <2>2. PICK st \in [by : Calls \cup {0, -1}, value : Seq(People!DriveRecs)] :
          st = [by |-> job.by, value |-> next] /\ st.by = job.by /\ st.value = next
    <3>1. job.by \in Calls \cup {0, -1} /\ next \in Seq(People!DriveRecs)
      BY <2>1 DEF Called, DrivesMade
    <3>2. [by |-> job.by, value |-> next] \in [by : Calls \cup {0, -1}, value : Seq(People!DriveRecs)]
      BY <3>1
    <3> QED BY <3>2
  <2>3. drives' = [rest EXCEPT !.staged = st, !.data = held]
    BY <1>10, <2>2
  <2>4. /\ drives' \in StoreOf(Seq(People!DriveRecs)) /\ drives'.data = held /\ drives'.file = drives.file
        /\ drives'.queue = q /\ drives'.staged = st
    BY <1>7, <2>1, <2>3 DEF StoreOf
  <2>5. CallsStay
    BY <1>10 DEF CallsStay, MembersInv, MembersTyped
  <2>6. QueuesStay
    BY <1>1, <1>2, <1>3, <2>4 DEF QueuesStay
  <2>7. MembersTyped'
    BY <1>2, <2>4, <2>5, <2>6, TypesStay DEF MembersInv, MembersTyped
  <2>8. UsersKept'
    BY <1>2, <2>5, StillAsked DEF MembersInv, UsersKept
  <2>9. DrivesKept'
    <3>1. job.by = 0 \/ Called(job.by)'
      BY <2>1, <2>5, StillAsked
    <3> QED BY <2>1, <2>2, <2>4, <3>1 DEF DrivesKept, Called
  <2>10. FirstKept'
    BY <1>1, <1>2, <1>3, <2>1, <2>2, <2>4 DEF MembersInv, FirstKept
  <2> QED BY <2>7, <2>8, <2>9, <2>10 DEF MembersInv
<1>11. CASE drives' = [rest EXCEPT !.data = People!Rule(@)] /\ People!Done(job.by, 200)
  <2>1. PICK R \in Seq(People!DriveRecs) : R = People!Rule(s.data) /\ Listing(s.data, R) /\ People!Led(R)
    <3>1. s.data \in Seq(People!DriveRecs)
      BY DEF StoreOf
    <3> QED BY <3>1, Ruled
  <2>2. drives' = [rest EXCEPT !.data = R]
    BY <1>1, <1>7, <1>11, <2>1
  <2>3. /\ drives' \in StoreOf(Seq(People!DriveRecs)) /\ drives'.data = R /\ drives'.file = drives.file
        /\ drives'.queue = q /\ drives'.staged = drives.staged
    BY <1>7, <2>2 DEF StoreOf
  <2>4. CallsStay
    BY <1>11, CallDone DEF MembersInv
  <2>5. QueuesStay
    BY <1>1, <1>2, <1>3, <2>3 DEF QueuesStay
  <2>6. MembersTyped'
    BY <1>2, <2>3, <2>4, <2>5, TypesStay DEF MembersInv, MembersTyped
  <2>7. UsersKept'
    BY <1>2, <2>4, StillAsked DEF MembersInv, UsersKept
  <2>8. DrivesKept'
    <3>1. Listing(drives.file, drives.data) /\ Fits(drives.data) /\ People!Apart(drives.data)
      BY DEF MembersInv, DrivesKept
    <3>2. Listing(drives.file, R)
      BY <1>1, <2>1, <3>1 DEF Listing
    <3>3. Fits(R) /\ People!Apart(R)
      BY <1>1, <2>1, <3>1, Listed
    <3> QED BY <1>1, <1>2, <2>3, <3>2, <3>3 DEF DrivesKept
  <2>9. FirstKept'
    BY <1>1, <1>2, <1>3, <2>1, <2>3 DEF MembersInv, FirstKept
  <2> QED BY <2>6, <2>7, <2>8, <2>9 DEF MembersInv
<1> QED BY <1>8, <1>9, <1>10, <1>11

\* A store of which what is staged is written, or forgotten.
LEMMA StoreWritten ==
  ASSUME NEW R, NEW s \in StoreOf(Seq(R)), NEW v \in {s.data, s.staged.value}, NEW w \in {s.file, s.staged.value}
  PROVE  [s EXCEPT !.data = v, !.file = w, !.staged = People!Free] \in StoreOf(Seq(R))
<1>1. v \in Seq(R) /\ w \in Seq(R)
  BY DEF StoreOf
<1>2. People!Free \in [by : Calls \cup {0, -1}, value : Seq(R)]
  <2>1. <<>> \in Seq(R)
    OBVIOUS
  <2> QED BY <2>1 DEF People!Free
<1> QED BY <1>1, <1>2 DEF StoreOf

LEMMA MembersUsersWritten ==
  ASSUME People!Inputs, MembersInv, People!UsersWritten
  PROVE  MembersInv'
<1>1. PICK u \in StoreOf(Seq(People!UserRecs)) : u = users
  BY DEF MembersInv, MembersTyped
<1>2. PICK s \in StoreOf(Seq(People!DriveRecs)) : s = drives
  BY DEF MembersInv, MembersTyped
<1>3. u.staged # People!Free /\ users' = People!Written(u) /\ People!Done(u.staged.by, 200) /\ UNCHANGED faults
  BY <1>1 DEF People!UsersWritten
<1>4. PICK new : new = u.staged.value /\ new # <<>> /\ new \in Seq(People!UserRecs) /\ UsersGrown(u.data, new) /\ People!Alone(new)
  BY <1>1, <1>3 DEF MembersInv, UsersKept, StoreOf
<1>5. /\ users' \in StoreOf(Seq(People!UserRecs)) /\ users'.data = new /\ users'.file = new /\ users'.queue = u.queue
      /\ users'.staged = People!Free
  <2>1. users' = [u EXCEPT !.data = new, !.file = new, !.staged = People!Free]
    BY <1>3, <1>4 DEF People!Written
  <2>2. users' \in StoreOf(Seq(People!UserRecs))
    BY <1>4, <2>1, StoreWritten
  <2> QED BY <2>1, <2>2 DEF StoreOf
<1>6. PICK gone : gone = DOMAIN new \ People!Alive(new)
  OBVIOUS
<1>7. PICK job \in Jobs : job = [by |-> 0, gone |-> gone] /\ job.by = 0 /\ job.gone = gone
  <2>1. gone \in SUBSET Nat
    BY <1>4, <1>6
  <2>2. [by |-> 0, gone |-> gone] \in Jobs
    BY <2>1 DEF Jobs
  <2> QED BY <2>2
<1>8. drives' = drives \/ drives' = [s EXCEPT !.queue = Append(@, job)]
  <2>1. drives' = IF DOMAIN users'.data \ People!Alive(users'.data) = {} THEN drives
                  ELSE [drives EXCEPT !.queue = Append(@, [by |-> 0, gone |-> DOMAIN users'.data \ People!Alive(users'.data)])]
    BY Zenon DEF People!UsersWritten
  <2>2. drives' = IF gone = {} THEN drives ELSE [drives EXCEPT !.queue = Append(@, [by |-> 0, gone |-> gone])]
    BY <1>5, <1>6, <2>1
  <2> QED BY <1>2, <1>7, <2>2
<1>9. PICK q \in Seq(Jobs) : q = Append(s.queue, job) /\ ToSet(q) \subseteq ToSet(s.queue) \cup {job}
  <2>1. s.queue \in Seq(Jobs)
    BY DEF StoreOf
  <2>2. Append(s.queue, job) \in Seq(Jobs) /\ ToSet(Append(s.queue, job)) \subseteq ToSet(s.queue) \cup {job}
    BY <2>1, AppendOf
  <2> QED BY <2>2
<1>10. /\ drives' \in StoreOf(Seq(People!DriveRecs)) /\ drives'.data = drives.data /\ drives'.file = drives.file
       /\ drives'.staged = drives.staged /\ ToSet(drives'.queue) \subseteq ToSet(s.queue) \cup {job}
  <2>1. CASE drives' = drives
    BY <1>2, <2>1
  <2>2. CASE drives' = [s EXCEPT !.queue = Append(@, job)]
    <3>1. drives' = [s EXCEPT !.queue = q]
      BY <1>9, <2>2
    <3> QED BY <1>2, <1>9, <3>1 DEF StoreOf
  <2> QED BY <1>8, <2>1, <2>2
<1>11. CallsStay
  BY <1>3, CallDone DEF MembersInv
<1>12. QueuesStay
  BY <1>1, <1>2, <1>5, <1>7, <1>10 DEF QueuesStay
<1>13. MembersTyped'
  BY <1>5, <1>10, <1>11, <1>12, TypesStay DEF MembersInv
<1>14. UsersKept'
  BY <1>4, <1>5 DEF UsersKept
<1>15. DrivesKept'
  BY <1>10, <1>11, StillAsked DEF MembersInv, DrivesKept
<1>16. FirstKept'
  <2>1. ASSUME People!First \in People!Alive(new)
        PROVE  People!First \in People!Alive(users.data) /\ People!First \notin gone
    <3>1. u.data \in Seq(People!UserRecs) /\ u.data # <<>>
      BY <1>1 DEF MembersInv, UsersKept, StoreOf
    <3>2. People!First \in DOMAIN u.data
      BY <3>1 DEF People!First
    <3> QED BY <1>1, <1>4, <1>6, <2>1, <3>2 DEF UsersGrown, People!Alive
  <2> QED BY <1>2, <1>5, <1>7, <1>10, <2>1 DEF MembersInv, FirstKept
<1> QED BY <1>13, <1>14, <1>15, <1>16 DEF MembersInv

\* Of the drives, what is staged is written (ok) or not.
LEMMA DrivesDone ==
  ASSUME MembersInv, drives.staged # People!Free, UNCHANGED users, NEW a,
         UNCHANGED call \/ People!Done(drives.staged.by, a),
         drives' = People!Written(drives) \/ drives' = [drives EXCEPT !.staged = People!Free]
  PROVE  MembersInv'
<1>1. PICK s \in StoreOf(Seq(People!DriveRecs)) : s = drives
  BY DEF MembersInv, MembersTyped
<1>2. PICK new : new = s.staged.value /\ DrivesMade(s.data, new)
  BY <1>1 DEF MembersInv, DrivesKept
<1>3. CallsStay
  <2>1. CASE UNCHANGED call
    BY <2>1 DEF CallsStay, MembersInv, MembersTyped
  <2>2. CASE People!Done(drives.staged.by, a)
    BY <2>2, CallDone DEF MembersInv
  <2> QED BY <2>1, <2>2
<1>4. CASE drives' = People!Written(drives)
  <2>1. drives' = [s EXCEPT !.data = new, !.file = new, !.staged = People!Free]
    BY <1>1, <1>2, <1>4 DEF People!Written
  <2>2. drives' \in StoreOf(Seq(People!DriveRecs))
    BY <1>2, <2>1, StoreWritten
  <2>3. drives'.data = new /\ drives'.file = new /\ drives'.queue = s.queue /\ drives'.staged = People!Free
    BY <2>1 DEF StoreOf
  <2>4. MembersTyped'
    <3>1. QueuesStay
      BY <1>1, <2>3 DEF QueuesStay
    <3> QED BY <1>3, <2>2, <3>1, TypesStay DEF MembersInv, MembersTyped
  <2>5. UsersKept'
    BY <1>3, StillAsked DEF MembersInv, UsersKept
  <2>6. DrivesKept'
    BY <1>2, <2>3 DEF DrivesKept, DrivesMade, Listing
  <2>7. FirstKept'
    BY <1>1, <1>2, <2>3 DEF MembersInv, FirstKept
  <2> QED BY <2>4, <2>5, <2>6, <2>7 DEF MembersInv
<1>5. CASE drives' = [drives EXCEPT !.staged = People!Free]
  <2>1. drives' = [s EXCEPT !.data = s.data, !.file = s.file, !.staged = People!Free]
    BY <1>1, <1>5 DEF StoreOf
  <2>2. drives' \in StoreOf(Seq(People!DriveRecs))
    BY <2>1, StoreWritten
  <2>3. drives'.data = s.data /\ drives'.file = s.file /\ drives'.queue = s.queue /\ drives'.staged = People!Free
    BY <2>1 DEF StoreOf
  <2>4. MembersTyped'
    <3>1. QueuesStay
      BY <1>1, <2>3 DEF QueuesStay
    <3> QED BY <1>3, <2>2, <3>1, TypesStay DEF MembersInv, MembersTyped
  <2>5. UsersKept'
    BY <1>3, StillAsked DEF MembersInv, UsersKept
  <2>6. DrivesKept'
    BY <1>1, <2>3 DEF MembersInv, DrivesKept
  <2>7. FirstKept'
    BY <1>1, <2>3 DEF MembersInv, FirstKept
  <2> QED BY <2>4, <2>5, <2>6, <2>7 DEF MembersInv
<1> QED BY <1>4, <1>5

LEMMA MembersWriteFails ==
  ASSUME MembersInv, People!WriteFails
  PROVE  MembersInv'
<1>1. CASE /\ users.staged # People!Free /\ users' = [users EXCEPT !.staged = People!Free]
           /\ People!Done(users.staged.by, 500) /\ UNCHANGED drives
  <2>1. PICK u \in StoreOf(Seq(People!UserRecs)) : u = users
    BY DEF MembersInv, MembersTyped
  <2>2. users' = [u EXCEPT !.data = u.data, !.file = u.file, !.staged = People!Free]
    BY <1>1, <2>1 DEF StoreOf
  <2>3. users' \in StoreOf(Seq(People!UserRecs))
    BY <2>2, StoreWritten
  <2>4. users'.data = u.data /\ users'.file = u.file /\ users'.queue = u.queue /\ users'.staged = People!Free
    BY <2>2 DEF StoreOf
  <2>5. CallsStay
    BY <1>1, CallDone DEF MembersInv
  <2>6. MembersTyped'
    <3>1. QueuesStay
      BY <1>1, <2>1, <2>4 DEF QueuesStay
    <3> QED BY <1>1, <2>3, <2>5, <3>1, TypesStay DEF MembersInv, MembersTyped
  <2>7. UsersKept'
    BY <2>1, <2>4 DEF MembersInv, UsersKept
  <2>8. DrivesKept' /\ FirstKept'
    BY <1>1, <2>1, <2>4, <2>5, StillAsked DEF MembersInv, DrivesKept, FirstKept
  <2> QED BY <2>6, <2>7, <2>8 DEF MembersInv
<1>2. CASE /\ drives.staged # People!Free /\ drives' = [drives EXCEPT !.staged = People!Free] /\ UNCHANGED users
           /\ IF drives.staged.by = 0 THEN UNCHANGED call ELSE People!Done(drives.staged.by, 500)
  BY <1>2, DrivesDone
<1> QED BY <1>1, <1>2 DEF People!WriteFails

LEMMA MembersBegin == People!Inputs /\ People!Init => MembersInv
<1> SUFFICES ASSUME People!Inputs, People!Init PROVE MembersInv
  OBVIOUS
<1>1. PICK f \in Files : users = People!Store(f.users) /\ drives = People!Store(f.drives)
  BY DEF People!Init
<1>2. /\ f.users \in Seq(People!UserRecs) /\ f.users # <<>> /\ People!Alone(f.users)
      /\ f.drives \in Seq(People!DriveRecs) /\ Fits(f.drives) /\ People!Apart(f.drives)
      /\ People!First \in People!Alive(f.users) => People!Led(f.drives)
  BY DEF People!Inputs, Fits
<1>3. \A R : \A v \in Seq(R) : People!Store(v) \in StoreOf(Seq(R))
  <2> SUFFICES ASSUME NEW R, NEW v \in Seq(R) PROVE People!Store(v) \in StoreOf(Seq(R))
    OBVIOUS
  <2>1. <<>> \in Seq(R) /\ <<>> \in Seq(Jobs)
    OBVIOUS
  <2>2. People!Free \in [by : Calls \cup {0, -1}, value : Seq(R)]
    BY <2>1 DEF People!Free
  <2> QED BY <2>1, <2>2 DEF People!Store, StoreOf
<1>4. ToSet(<<>>) = {}
  BY DEF ToSet
<1>5. MembersTyped
  <2>1. DOMAIN call = Calls /\ \A c \in Calls : DOMAIN call[c] = {"op", "pc", "answer"}
    BY DEF People!Init, People!Idle
  <2>2. users.queue = <<>> /\ drives.queue = <<>>
    BY <1>1 DEF People!Store
  <2> QED BY <1>1, <1>2, <1>3, <1>4, <2>1, <2>2 DEF MembersTyped
<1>6. UsersKept
  BY <1>1, <1>2 DEF UsersKept, People!Store
<1>7. DrivesKept
  BY <1>1, <1>2 DEF DrivesKept, People!Store, Listing
<1>8. FirstKept
  BY <1>1, <1>2, <1>4 DEF FirstKept, People!Store
<1> QED BY <1>5, <1>6, <1>7, <1>8 DEF MembersInv

LEMMA MembersStep == People!Inputs /\ MembersInv /\ [People!Next]_(People!vars) => MembersInv'
<1> SUFFICES ASSUME People!Inputs, MembersInv, [People!Next]_(People!vars) PROVE MembersInv'
  OBVIOUS
<1>1. CASE People!DrivesWritten
  BY <1>1, DrivesDone DEF People!DrivesWritten
<1>2. CASE UNCHANGED People!vars
  <2>1. UNCHANGED <<users, drives, call>>
    BY <1>2 DEF People!vars
  <2>2. MembersTyped'
    BY <2>1 DEF MembersInv, MembersTyped, UserAsked, DriveAsked, Called
  <2>3. UsersKept' /\ DrivesKept' /\ FirstKept'
    BY <2>1 DEF MembersInv, UsersKept, DrivesKept, FirstKept, Called
  <2> QED BY <2>2, <2>3 DEF MembersInv
<1> QED BY <1>1, <1>2, MembersAsk, MembersSaveUsers, MembersSaveDrives, MembersUsersWritten, MembersWriteFails
        DEF People!Next, People!Proceed

LEMMA MembersLead == MembersInv => People!Distinct /\ People!FirstIsIn
<1> SUFFICES ASSUME MembersInv PROVE People!Distinct /\ People!FirstIsIn
  OBVIOUS
<1>1. \A D \in {drives.data, drives.file} : Fits(D) /\ People!Apart(D)
  BY Listed DEF MembersInv, DrivesKept
<1>2. \A U \in {users.data, users.file} : People!Alone(U)
  BY DEF MembersInv, UsersKept
<1>3. People!FirstIsIn
  BY DEF MembersInv, FirstKept, People!FirstIsIn
<1> QED BY <1>1, <1>2, <1>3 DEF People!Distinct, Fits

\* What is in a file only grows: what is written was made of what is in memory, of which no
\* user or drive that is deleted comes back.
LEMMA MembersKept == MembersInv /\ [People!Next]_(People!vars) => UsersGrown(users.file, users'.file) /\ DrivesGrown(drives.file, drives'.file)
<1> SUFFICES ASSUME MembersInv, [People!Next]_(People!vars)
             PROVE  UsersGrown(users.file, users'.file) /\ DrivesGrown(drives.file, drives'.file)
  OBVIOUS
<1>1. PICK u \in StoreOf(Seq(People!UserRecs)) : u = users
  BY DEF MembersInv, MembersTyped
<1>2. PICK s \in StoreOf(Seq(People!DriveRecs)) : s = drives
  BY DEF MembersInv, MembersTyped
<1>3. users'.file = u.file \/ (users'.file = u.staged.value /\ u.staged # People!Free)
  <2>1. CASE People!UsersWritten
    <3>1. users' = [u EXCEPT !.data = u.staged.value, !.file = u.staged.value, !.staged = People!Free]
      BY <1>1, <2>1 DEF People!UsersWritten, People!Written
    <3> QED BY <1>1, <2>1, <3>1 DEF StoreOf, People!UsersWritten
  <2>2. CASE People!SaveUsers
    <3>1. \/ users' = [u EXCEPT !.queue = Tail(@)]
          \/ \E x : users' = [[u EXCEPT !.queue = Tail(@)] EXCEPT !.staged = x]
      BY <1>1, <2>2, Zenon DEF People!SaveUsers
    <3> QED BY <3>1 DEF StoreOf
  <2>3. CASE \E c \in Calls, op \in Ops : People!Ask(c, op)
    <3>1. users' = u \/ \E x : users' = [u EXCEPT !.queue = x]
      BY <1>1, <2>3 DEF People!Ask
    <3> QED BY <3>1 DEF StoreOf
  <2>4. CASE People!WriteFails
    <3>1. users' = u \/ users' = [u EXCEPT !.staged = People!Free]
      BY <1>1, <2>4 DEF People!WriteFails
    <3> QED BY <3>1 DEF StoreOf
  <2>5. CASE users' = users
    BY <1>1, <2>5
  <2> QED BY <2>1, <2>2, <2>3, <2>4, <2>5 DEF People!Next, People!Proceed, People!SaveDrives, People!DrivesWritten, People!vars
<1>4. drives'.file = s.file \/ (drives'.file = s.staged.value /\ s.staged # People!Free)
  <2>1. CASE People!DrivesWritten
    <3>1. drives' = [s EXCEPT !.data = s.staged.value, !.file = s.staged.value, !.staged = People!Free]
      BY <1>2, <2>1 DEF People!DrivesWritten, People!Written
    <3> QED BY <1>2, <2>1, <3>1 DEF StoreOf, People!DrivesWritten
  <2>2. CASE People!SaveDrives
    <3>1. \/ drives' = [s EXCEPT !.queue = Tail(@)]
          \/ \E y : drives' = [[s EXCEPT !.queue = Tail(@)] EXCEPT !.data = y]
          \/ \E x, y : drives' = [[s EXCEPT !.queue = Tail(@)] EXCEPT !.staged = x, !.data = y]
      BY <1>2, <2>2, Zenon DEF People!SaveDrives
    <3> QED BY <3>1 DEF StoreOf
  <2>3. CASE \E c \in Calls, op \in Ops : People!Ask(c, op)
    <3>1. drives' = s \/ \E x : drives' = [s EXCEPT !.queue = x]
      BY <1>2, <2>3 DEF People!Ask
    <3> QED BY <3>1 DEF StoreOf
  <2>4. CASE People!WriteFails
    <3>1. drives' = s \/ drives' = [s EXCEPT !.staged = People!Free]
      BY <1>2, <2>4 DEF People!WriteFails
    <3> QED BY <3>1 DEF StoreOf
  <2>5. CASE People!UsersWritten
    <3>1. drives' = s \/ \E x : drives' = [s EXCEPT !.queue = Append(@, x)]
      BY <1>2, <2>5, Zenon DEF People!UsersWritten
    <3> QED BY <3>1 DEF StoreOf
  <2>6. CASE drives' = drives
    BY <1>2, <2>6
  <2> QED BY <2>1, <2>2, <2>3, <2>4, <2>5, <2>6 DEF People!Next, People!Proceed, People!SaveUsers, People!vars
<1>5. UsersGrown(u.file, u.file) /\ (u.staged # People!Free => UsersGrown(u.file, u.staged.value))
  BY <1>1 DEF MembersInv, UsersKept, UsersGrown
<1>6. DrivesGrown(s.file, s.file) /\ (s.staged # People!Free => DrivesGrown(s.file, s.staged.value))
  BY <1>2 DEF MembersInv, DrivesKept, DrivesMade, DrivesGrown, Listing
<1> QED BY <1>1, <1>2, <1>3, <1>4, <1>5, <1>6

\* A public drive that was POSTed is among the first MaxPublic ones (LIST makes the built-in
\* drive without looking), there is one built-in drive and one home of a user at most, the
\* labels of what is not a backup differ, and so do the names of users but for those whose
\* first holder was deleted: also when calls that were checked against the same data are
\* saved one after the other.
THEOREM MembersAreDistinct == People!Inputs => (People!Spec => []People!Distinct)
<1> SUFFICES ASSUME People!Inputs PROVE People!Spec => []People!Distinct
  OBVIOUS
<1>1. MembersInv /\ [People!Next]_(People!vars) => MembersInv'
  BY MembersStep
<1>2. People!Init => MembersInv
  BY MembersBegin
<1>3. MembersInv => People!Distinct /\ People!FirstIsIn
  BY MembersLead
<1> QED BY <1>1, <1>2, <1>3, PTL DEF People!Spec

\* The first user is in the list of every public drive while he is not deleted.
THEOREM FirstUserIsIn == People!Inputs => (People!Spec => []People!FirstIsIn)
<1> SUFFICES ASSUME People!Inputs PROVE People!Spec => []People!FirstIsIn
  OBVIOUS
<1>1. MembersInv /\ [People!Next]_(People!vars) => MembersInv'
  BY MembersStep
<1>2. People!Init => MembersInv
  BY MembersBegin
<1>3. MembersInv => People!Distinct /\ People!FirstIsIn
  BY MembersLead
<1> QED BY <1>1, <1>2, <1>3, PTL DEF People!Spec

\* A user or a drive that is deleted in its file stays deleted.
THEOREM DeletedMembersStay == People!Inputs => (People!Spec => [][People!DeletedStays]_(People!vars))
<1> SUFFICES ASSUME People!Inputs PROVE People!Spec => [][People!DeletedStays]_(People!vars)
  OBVIOUS
<1>1. MembersInv /\ [People!Next]_(People!vars) => MembersInv'
  BY MembersStep
<1>2. People!Init => MembersInv
  BY MembersBegin
<1>3. MembersInv /\ [People!Next]_(People!vars) => [People!DeletedStays]_(People!vars)
  BY MembersKept DEF People!DeletedStays, UsersGrown, DrivesGrown, People!Alive, People!Live
<1> QED BY <1>1, <1>2, <1>3, PTL DEF People!Spec

-----------------------------------------------------------------------------
(* Sleep.                                                                  *)

Nights == INSTANCE Sleep

\* What may be stored, and what the two programs do when they were told so in this minute.
Kept(c) == \/ c = Nights!Off
           \/ c.at = "on" /\ c.start.at \in 0 .. Day - 1 /\ c.end.at \in 0 .. Day - 1
Sleeping(c, time, fan, led) ==
  /\ ~Nights!On(c) => ~led
  /\ Nights!On(c) /\ time # c.start.at =>
       LET b == (time - c.start.at) % Day < (c.end.at - c.start.at) % Day IN (fan <=> b) /\ (led <=> b)
NightsInv ==
  /\ Kept(stored) /\ (conf = Nights!Loading \/ conf = stored)
  /\ clock \in [now : 0 .. Day - 1, due : BOOLEAN] /\ sleeps \in [fan : BOOLEAN, led : BOOLEAN] /\ missed \in BOOLEAN
  /\ conf # Nights!Loading /\ ~clock.due /\ ~missed => Sleeping(conf, clock.now, sleeps.fan, sleeps.led)

\* A time of the day counted from another.
LEMMA TimeSince ==
  ASSUME Nights!Inputs, NEW a \in 0 .. Day - 1, NEW b \in 0 .. Day - 1
  PROVE  (a - b) % Day = IF b <= a THEN a - b ELSE a - b + Day
<1>1. Day \in Nat /\ Day > 0
  BY DEF Nights!Inputs
<1>2. CASE b <= a
  <2>1. a - b \in 0 .. Day - 1
    BY <1>1, <1>2
  <2> QED BY <1>1, <1>2, <2>1
<1>3. CASE ~(b <= a)
  <2>1. PICK x \in Int : x = a - b /\ -Day < x /\ x < 0
    BY <1>1, <1>3
  <2>2. x % Day = x + Day
    BY <1>1, <2>1
  <2> QED BY <1>3, <2>1, <2>2
<1> QED BY <1>2, <1>3

\* time_range() is right but in the minute of the start, over midnight too.
LEMMA TimeRangeIs ==
  ASSUME Nights!Inputs, NEW c, Kept(c), Nights!On(c), NEW time \in 0 .. Day - 1, time # c.start.at, NEW later \in BOOLEAN
  PROVE  Nights!TimeRange(c, time, later) <=> (time - c.start.at) % Day < (c.end.at - c.start.at) % Day
<1>1. PICK s \in 0 .. Day - 1, e \in 0 .. Day - 1 : s = c.start.at /\ e = c.end.at
  BY DEF Kept, Nights!On
<1>2. Day \in Nat /\ Day > 0
  BY DEF Nights!Inputs
<1>3. (time - s) % Day = (IF s <= time THEN time - s ELSE time - s + Day)
  BY TimeSince
<1>4. (e - s) % Day = (IF s <= e THEN e - s ELSE e - s + Day)
  BY TimeSince
<1>5. CASE s > e
  BY <1>1, <1>2, <1>3, <1>4, <1>5 DEF Nights!TimeRange, Nights!IsStartLarge
<1>6. CASE ~(s > e)
  BY <1>1, <1>2, <1>3, <1>4, <1>6 DEF Nights!TimeRange, Nights!IsStartLarge
<1> QED BY <1>5, <1>6

LEMMA Telling ==
  ASSUME Nights!Inputs, NightsInv, NEW c, Kept(c), Nights!SleepConfUpdate(c)
  PROVE  /\ clock' \in [now : 0 .. Day - 1, due : BOOLEAN] /\ sleeps' \in [fan : BOOLEAN, led : BOOLEAN]
         /\ missed' \in BOOLEAN /\ (~missed' => Sleeping(c, clock'.now, sleeps'.fan, sleeps'.led))
<1>1. clock' = [clock EXCEPT !.due = FALSE] /\ clock \in [now : 0 .. Day - 1, due : BOOLEAN]
      /\ sleeps \in [fan : BOOLEAN, led : BOOLEAN]
  BY DEF Nights!SleepConfUpdate, NightsInv
<1>2. clock' \in [now : 0 .. Day - 1, due : BOOLEAN] /\ clock'.now = clock.now /\ clock.now \in 0 .. Day - 1
  BY <1>1
<1>3. CASE missed' = TRUE /\ UNCHANGED sleeps
  BY <1>1, <1>2, <1>3
<1>4. CASE missed' = FALSE /\ Nights!On(c)
  <2>1. PICK later \in BOOLEAN : LET b == Nights!TimeRange(c, clock.now, later) IN sleeps' = [fan |-> b, led |-> b]
    BY <1>4 DEF Nights!SleepConfUpdate
  <2>2. PICK b \in BOOLEAN : b = Nights!TimeRange(c, clock.now, later)
    BY DEF Nights!TimeRange
  <2>3. clock.now # c.start.at => (b <=> (clock.now - c.start.at) % Day < (c.end.at - c.start.at) % Day)
    <3> SUFFICES ASSUME clock.now # c.start.at
                 PROVE  b <=> (clock.now - c.start.at) % Day < (c.end.at - c.start.at) % Day
      OBVIOUS
    <3>1. PICK time \in 0 .. Day - 1 : time = clock.now /\ time # c.start.at
      BY <1>2
    <3>2. Nights!TimeRange(c, time, later) <=> (time - c.start.at) % Day < (c.end.at - c.start.at) % Day
      BY <1>4, <3>1, TimeRangeIs
    <3> QED BY <2>2, <3>1, <3>2
  <2> QED BY <1>2, <1>4, <2>1, <2>2, <2>3 DEF Sleeping
<1>5. CASE missed' = FALSE /\ ~Nights!On(c)
  <2>1. sleeps' = [sleeps EXCEPT !.led = FALSE]
    BY <1>5 DEF Nights!SleepConfUpdate
  <2> QED BY <1>1, <1>2, <1>5, <2>1 DEF Sleeping
<1> QED BY <1>3, <1>4, <1>5 DEF Nights!SleepConfUpdate

LEMMA NightsKept ==
  ASSUME Nights!Inputs, NightsInv, [Nights!Next]_(Nights!vars)
  PROVE  NightsInv'
<1>1. CASE Nights!Load \/ Nights!SleepModeTimer
  <2>1. PICK c : c = conf' /\ Kept(c) /\ c = stored /\ Nights!SleepConfUpdate(c) /\ stored' = stored
    BY <1>1 DEF Nights!Load, Nights!SleepModeTimer, NightsInv
  <2> QED BY <2>1, Telling DEF NightsInv
<1>2. ASSUME NEW p \in Props, Nights!UpdateSleepMode(p) PROVE NightsInv'
  <2>1. PICK c : c = stored' /\ c = conf' /\ Nights!SleepConfUpdate(c)
                 /\ c = IF p.status THEN [at |-> "on", start |-> p.start, end |-> p.end] ELSE Nights!Off
    BY <1>2 DEF Nights!UpdateSleepMode
  <2>2. Kept(c)
    BY <1>2, <2>1 DEF Nights!UpdateSleepMode, Nights!Accepted, Kept
  <2> QED BY <2>1, <2>2, Telling DEF NightsInv
<1>3. CASE Nights!Minute
  <2>1. clock' = [now |-> (clock.now + 1) % Day, due |-> TRUE] /\ UNCHANGED <<stored, conf, sleeps, missed>>
    BY <1>3 DEF Nights!Minute
  <2>2. (clock.now + 1) % Day \in 0 .. Day - 1
    <3>1. clock.now + 1 \in Int /\ Day \in Nat /\ Day > 0
      BY DEF NightsInv, Nights!Inputs
    <3> QED BY <3>1
  <2>3. clock' \in [now : 0 .. Day - 1, due : BOOLEAN] /\ clock'.due
    BY <2>1, <2>2
  <2> QED BY <2>1, <2>3 DEF NightsInv
<1>4. CASE Nights!Crash
  BY <1>4 DEF Nights!Crash, NightsInv
<1>5. CASE UNCHANGED Nights!vars
  BY <1>5 DEF Nights!vars, NightsInv
<1> QED BY <1>1, <1>2, <1>3, <1>4, <1>5 DEF Nights!Next

\* Who was told in this minute sleeps if it lies between start and end, for a day of any length and
\* over midnight too; but for the minute of the start, and for the fans when the mode is switched off.
THEOREM SleepsInTime == Nights!Inputs => (Nights!Spec => []Nights!AsleepBetween)
<1> SUFFICES ASSUME Nights!Inputs PROVE Nights!Spec => []Nights!AsleepBetween
  OBVIOUS
<1>1. Nights!Init => NightsInv
  <2> SUFFICES ASSUME Nights!Init PROVE NightsInv
    OBVIOUS
  <2>1. 0 \in 0 .. Day - 1
    BY DEF Nights!Inputs
  <2> QED BY <2>1 DEF Nights!Init, NightsInv, Kept
<1>2. NightsInv /\ [Nights!Next]_(Nights!vars) => NightsInv'
  BY NightsKept
<1>3. NightsInv => Nights!AsleepBetween
  <2> SUFFICES ASSUME NightsInv, conf # Nights!Loading, ~clock.due, ~missed
               PROVE  /\ ~Nights!On(conf) => ~sleeps.led
                      /\ Nights!On(conf) /\ clock.now # conf.start.at =>
                           {sleeps.fan, sleeps.led} = {Nights!Between(conf)}
    BY DEF Nights!AsleepBetween
  <2>1. Sleeping(conf, clock.now, sleeps.fan, sleeps.led) /\ sleeps.fan \in BOOLEAN /\ sleeps.led \in BOOLEAN
    BY DEF NightsInv
  <2>2. Nights!Between(conf) \in BOOLEAN
    BY DEF Nights!Between
  <2>3. ASSUME Nights!On(conf), clock.now # conf.start.at
        PROVE  sleeps.fan = Nights!Between(conf) /\ sleeps.led = Nights!Between(conf)
    BY <2>1, <2>2, <2>3 DEF Sleeping, Nights!Between
  <2> QED BY <2>1, <2>3 DEF Sleeping
<1> QED BY <1>1, <1>2, <1>3, PTL DEF Nights!Spec

-----------------------------------------------------------------------------
(* Dlna.                                                                   *)

Media == INSTANCE Dlna

\* A close is told, or will be, and minidlna was the state's when it came.
Closing == \E c \in Calls : call[c] \in {"close", "closed"}
MediaInv ==
  /\ call \in [Calls -> {"idle", "start", "close", "started", "closed", "lost"}]
  /\ state.name \in {"Pending", "Initialize", "Working", "Failed"} /\ unit \in BOOLEAN /\ faults \in Nat
  /\ state.name = "Working" => unit
  /\ state.name = "Pending" /\ Closing /\ ~astray => ~unit

LEMMA Names4 ==
  /\ \A r \in Runs : Media!S("Initialize", r).name = "Initialize"
  /\ Media!S("Failed", 0).name = "Failed" /\ Media!S("Pending", 0).name = "Pending" /\ Media!S("Working", 0).name = "Working"
  BY DEF Media!S

\* Leaving Working, or being elsewhere.
LEMMA Exits ==
  ASSUME MediaInv, Media!Exit
  PROVE  /\ unit' \in BOOLEAN /\ faults' \in Nat
         /\ state.name = "Working" /\ faults' = faults => ~unit'
<1>0. unit \in BOOLEAN /\ faults \in Nat
  BY DEF MediaInv
<1>1. CASE state.name # "Working"
  BY <1>0, <1>1 DEF Media!Exit
<1>2. CASE state.name = "Working" /\ unit' = FALSE /\ faults' = faults
  BY <1>0, <1>2
<1>3. CASE faults' = faults + 1 /\ unit' = unit
  <2>1. faults' # faults
    BY <1>0, <1>3
  <2> QED BY <1>0, <1>3, <2>1
<1> QED BY <1>1, <1>2, <1>3 DEF Media!Exit

LEMMA Initializes ==
  ASSUME MediaInv, NEW s, Media!Initialize(s)
  PROVE  /\ state'.name \in {"Initialize", "Failed"} /\ unit' \in BOOLEAN /\ faults' \in Nat
  BY Exits, Names4 DEF Media!Initialize

\* What is told keeps to the words.
LEMMA CallsToldOf ==
  ASSUME MediaInv, Media!Next
  PROVE  call' \in [Calls -> {"idle", "start", "close", "started", "closed", "lost"}]
<1> DEFINE W == {"idle", "start", "close", "started", "closed", "lost"}
<1>0. call \in [Calls -> W]
  BY DEF MediaInv
<1>1. ASSUME NEW c \in Calls, NEW w \in W, call' = [call EXCEPT ![c] = w] PROVE call' \in [Calls -> W]
  BY <1>0, <1>1
<1>2. ASSUME NEW c \in Calls, Media!PatchStart(c) PROVE call' \in [Calls -> W]
  <2>1. CASE state.name \in {"Working", "Initialize"}
    BY <1>1, <1>2, <2>1 DEF Media!PatchStart
  <2>2. CASE state.name \in {"Pending", "Failed"}
    <3>1. PICK w \in W : call' = [call EXCEPT ![c] = w]
      BY <1>2, <2>2 DEF Media!PatchStart
    <3> QED BY <1>1, <3>1
  <2> QED BY <2>1, <2>2 DEF MediaInv
<1>3. ASSUME NEW c \in Calls, Media!PatchClose(c) \/ Media!Closed(c) PROVE call' \in [Calls -> W]
  BY <1>1, <1>3 DEF Media!PatchClose, Media!Closed
<1>4. ASSUME NEW r \in Runs, Media!Written(r) PROVE call' \in [Calls -> W]
  <2>1. PICK A, B : call' = [c \in Calls |-> CASE c \in A -> "started" [] c \in B \ A -> "lost" [] OTHER -> call[c]]
    BY <1>4 DEF Media!Written
  <2> QED BY <1>0, <2>1
<1>5. ASSUME NEW r \in Runs, Media!Fails(r) PROVE call' \in [Calls -> W]
  <2>1. PICK A : call' = [c \in Calls |-> IF c \in A /\ call[c] = "start" THEN "lost" ELSE call[c]]
    BY <1>5 DEF Media!Fails, Media!Lose
  <2> QED BY <1>0, <2>1
<1>6. CASE Media!Update
  BY <1>0, <1>6 DEF Media!Update
<1> QED BY <1>2, <1>3, <1>4, <1>5, <1>6 DEF Media!Next, Media!Proceed

LEMMA MediaKept ==
  ASSUME MediaInv, [Media!Next]_(Media!vars)
  PROVE  MediaInv'
<1>1. CASE UNCHANGED Media!vars
  BY <1>1 DEF Media!vars, MediaInv, Closing
<1>2. CASE Media!Next
  <2>0. call' \in [Calls -> {"idle", "start", "close", "started", "closed", "lost"}]
    BY <1>2, CallsToldOf
  <2>1. ASSUME NEW c \in Calls, Media!PatchStart(c) PROVE MediaInv'
    <3>1. CASE state.name = "Working" \/ state.name = "Initialize"
      BY <2>0, <2>1, <3>1 DEF Media!PatchStart, MediaInv
    <3>2. CASE Media!Initialize(<<c>>)
      BY <2>0, <3>2, Initializes DEF MediaInv
    <3>3. CASE state.name \in {"Pending", "Failed"} /\ ~Media!Initialize(<<c>>)
      BY <2>1, <3>3 DEF Media!PatchStart
    <3> QED BY <3>1, <3>2, <3>3 DEF MediaInv
  <2>2. ASSUME NEW c \in Calls, Media!PatchClose(c) PROVE MediaInv'
    BY <2>0, <2>2, Exits, Names4 DEF Media!PatchClose, MediaInv
  <2>3. ASSUME NEW c \in Calls, Media!Closed(c) PROVE MediaInv'
    <3>1. Closing
      BY <2>3 DEF Media!Closed, Closing
    <3> QED BY <2>0, <2>3, <3>1 DEF Media!Closed, MediaInv
  <2>4. ASSUME NEW r \in Runs, Media!Written(r) PROVE MediaInv'
    <3>1. state'.name \in {"Failed", "Working"} /\ unit' = TRUE /\ faults' = faults
      BY <2>4, Names4 DEF Media!Written, Media!Goes, Media!S
    <3> QED BY <2>0, <3>1 DEF MediaInv
  <2>5. ASSUME NEW r \in Runs, Media!Fails(r) PROVE MediaInv'
    <3>1. state'.name = "Failed" /\ unit' \in {unit, FALSE} /\ faults' = faults + 1
      BY <2>5, Names4 DEF Media!Fails
    <3>2. unit' \in BOOLEAN
      BY <3>1 DEF MediaInv
    <3>3. faults' \in Nat
      BY <3>1 DEF MediaInv
    <3> QED BY <2>0, <3>1, <3>2, <3>3 DEF MediaInv
  <2>6. CASE Media!Update
    <3>1. CASE state.name = "Initialize"
      BY <2>0, <2>6, <3>1 DEF Media!Update, MediaInv
    <3>2. CASE Media!Initialize(<<>>)
      BY <2>0, <3>2, Initializes DEF MediaInv
    <3> QED BY <2>6, <3>1, <3>2 DEF Media!Update
  <2> QED BY <1>2, <2>1, <2>2, <2>3, <2>4, <2>5, <2>6 DEF Media!Next, Media!Proceed
<1> QED BY <1>1, <1>2

\* Working means that minidlna is up, and after a close it is not, for any calls, runs and changes of
\* the drives, unless the last close came when it was not Working or failed to stop it, or a run that
\* another state had replaced has started it since.
THEOREM MediaServes == Media!Spec => []Media!UpWhenWorking
<1>1. Media!Init => MediaInv
  BY Names4 DEF Media!Init, MediaInv, Closing
<1>2. MediaInv /\ [Media!Next]_(Media!vars) => MediaInv'
  BY MediaKept
<1>3. MediaInv => Media!UpWhenWorking
  BY DEF MediaInv, Media!UpWhenWorking, Closing
<1> QED BY <1>1, <1>2, <1>3, PTL DEF Media!Spec

-----------------------------------------------------------------------------
(* HashStream.                                                             *)

Stream == INSTANCE HashStream

\* What may have been told: the second is late.
Stories == {<<>>, <<"ok">>, <<"error">>, <<"ok", "error">>, <<"error", "error">>}
Failed == \E k \in DOMAIN told : told[k] = "error"
Fed == mode # "CPre2" /\ refs \in {Stream!S2, Stream!S3, {"hash"}}

StreamTyped ==
  /\ mode \in Stream!Modes /\ Size \in Nat
  /\ source \in [units : Nat, good : BOOLEAN, sent : Nat, end : {"no", "end", "error"}]
  /\ opened \in {"asked", "fd", "closed"} /\ written \in [handed : Nat, out : Nat]
  /\ written.out <= written.handed
  /\ disk \in {"none", "part", "whole"} /\ owner \in BOOLEAN /\ late \in BOOLEAN
\* What is held says how far the owner is.
StreamTold ==
  /\ told \in Stories /\ (~late => Len(told) <= 1)
  /\ mode # "CPre2" => refs \in {{}, {"rs"}, Stream!S2, Stream!S3, Stream!S4} /\ (refs # {} => told = <<>>)
  /\ mode = "CPre2" => refs \in {{}, {"rs"}, Stream!S2} /\ (refs = Stream!S2 => told = <<>>) /\ (refs = {"rs"} => told = <<"ok">>)
  /\ owner => refs = {} /\ (~late => told = <<>>)
  /\ late => refs = {} /\ (mode = "CPre2" => source.end = "error")
\* How far the file is.
StreamFed ==
  /\ mode # "CPre2" /\ refs = Stream!S2 => source.sent <= Stream!Due /\ written.handed = Stream!Lower(source.sent, Size)
  /\ Fed /\ refs # Stream!S2 =>
       source.units = Stream!Due /\ written.handed = Size /\ (Stream!Child \/ source.good)
  /\ mode # "CPre2" /\ refs = {"hash"} => written.out = Size
  /\ Fed => opened = "fd"
  /\ mode # "CPre2" /\ opened = "asked" => disk = "none" /\ written = [handed |-> 0, out |-> 0] /\ source.sent = 0 /\ refs \in {{}, {"rs"}}
  /\ mode # "CPre2" /\ opened = "fd" /\ ~Failed =>
       disk # "none" /\ (written.out = Size /\ source.good => disk = "whole")
StreamInv == StreamTyped /\ StreamTold /\ StreamFed /\ Stream!OkIsWhole

\* The tables of the comments.
LEMMA Tables ==
  ASSUME mode \in Stream!Modes
  PROVE  /\ mode \in {"IPre", "IPost", "CPre", "CPost", "CPre2"}
         /\ Stream!Due = (IF mode \in {"IPost", "CPost"} THEN Size + 1 ELSE Size)
         /\ Stream!Child <=> mode \notin {"IPre", "IPost"}
         /\ mode \in {"IPre", "IPost"} => Stream!S2 = {"rs", "ws"} /\ Stream!S3 = {"ws"} /\ Stream!S4 = {}
         /\ mode \in {"CPre", "CPost"} => Stream!S2 = {"rs", "ws", "hash"} /\ Stream!S3 = {"ws", "hash"} /\ Stream!S4 = {"hash"}
         /\ mode = "CPre2" => Stream!S2 = {"rs", "hash"}
<1> USE DEF Stream!Modes, Stream!Classes, Stream!IPre, Stream!IPost, Stream!CPre, Stream!CPost, Stream!CPre2, Stream!Class,
            Stream!Due, Stream!Child, Stream!S2, Stream!S3, Stream!S4
<1>1. mode \in {"IPre", "IPost", "CPre", "CPost", "CPre2"}
  OBVIOUS
<1>2. CASE mode = "IPre"
  BY <1>2
<1>3. CASE mode = "IPost"
  BY <1>3
<1>4. CASE mode = "CPre"
  BY <1>4
<1>5. CASE mode = "CPost"
  BY <1>5
<1>6. CASE mode = "CPre2"
  BY <1>6
<1> QED BY <1>1, <1>2, <1>3, <1>4, <1>5, <1>6

LEMMA AfterOne == \A x, y : Append(<<x>>, y) = <<x, y>>
<1> TAKE x, y
<1>1. <<x>> \in Seq({x, y}) /\ <<x, y>> \in Seq({x, y}) /\ Len(<<x>>) = 1 /\ Len(<<x, y>>) = 2 /\ y \in {x, y} /\ <<x>>[1] = x
  OBVIOUS
<1>2. PICK a : a = <<x>>
  OBVIOUS
<1>3. PICK b : b = Append(a, y)
  OBVIOUS
<1>4. b \in Seq({x, y}) /\ Len(b) = 2 /\ b[1] = x /\ b[2] = y
  BY <1>1, <1>2, <1>3
<1>5. b = <<x, y>>
  BY <1>1, <1>4
<1> QED BY <1>2, <1>3, <1>5

\* An error that is told.
LEMMA StreamErrs ==
  ASSUME StreamInv, StreamTyped', mode' = mode, Stream!Error, UNCHANGED owner,
         told \in {<<>>, <<"ok">>, <<"error">>},
         (refs # {} /\ told = <<>> /\ late' = late) \/ (late' = TRUE /\ (mode = "CPre2" => source'.end = "error")),
         mode # "CPre2" /\ opened' = "asked" => opened = "asked" /\ UNCHANGED <<disk, written, source>>
  PROVE  StreamInv'
<1>0. refs' = {} /\ told' = Append(told, "error")
  BY DEF Stream!Error, Stream!Drop
<1>1. told' \in {<<"error">>, <<"ok", "error">>, <<"error", "error">>} /\ (told = <<>> => told' = <<"error">>)
  <2>1. CASE told = <<>>
    BY <1>0, <2>1
  <2>2. CASE told = <<"ok">>
    BY <1>0, <2>2, AfterOne
  <2>3. CASE told = <<"error">>
    BY <1>0, <2>3, AfterOne
  <2> QED BY <2>1, <2>2, <2>3
<1>2. told' # <<>> /\ told'[Len(told')] = "error" /\ Failed'
  <2>1. CASE told' = <<"error">>
    BY <2>1 DEF Failed
  <2>2. CASE told' = <<"ok", "error">>
    <3>1. Len(told') = 2 /\ told'[2] = "error" /\ 2 \in DOMAIN told'
      BY <2>2
    <3> QED BY <3>1, <2>2 DEF Failed
  <2>3. CASE told' = <<"error", "error">>
    <3>1. Len(told') = 2 /\ told'[2] = "error" /\ 2 \in DOMAIN told'
      BY <2>3
    <3> QED BY <3>1, <2>3 DEF Failed
  <2> QED BY <1>1, <2>1, <2>2, <2>3
<1>3. mode \in Stream!Modes
  BY DEF StreamInv, StreamTyped
<1>4. UNCHANGED <<Stream!S2, Stream!S3, Stream!S4, Stream!Due, Stream!Child>>
  BY DEF Stream!S2, Stream!S3, Stream!S4, Stream!Due, Stream!Child
<1>5. (Stream!S2 # {} /\ Stream!S3 # {}) \/ mode = "CPre2"
  BY <1>3, Tables
<1>6. StreamTold'
  <2>1. mode = "CPre2" => Stream!S2 # {}
    BY <1>3, Tables
  <2>2. ASSUME ~late' PROVE Len(told') <= 1 /\ ~owner /\ refs # {} /\ told = <<>>
    <3>1. refs # {} /\ told = <<>>
      BY <2>2
    <3>2. told' = <<"error">> /\ Len(<<"error">>) = 1
      BY <1>1, <3>1
    <3> QED BY <3>1, <3>2 DEF StreamInv, StreamTold, StreamTyped
  <2>3. late' => (mode = "CPre2" => source'.end = "error")
    BY DEF StreamInv, StreamTold, StreamTyped
  <2> QED BY <1>0, <1>1, <1>4, <1>5, <2>1, <2>2, <2>3 DEF StreamTold, Stories
<1>7. StreamFed'
  <2>1. ~Fed'
    BY <1>0, <1>4, <1>5 DEF Fed
  <2> QED BY <1>0, <1>2, <1>4, <1>5, <2>1 DEF StreamInv, StreamFed
<1> QED BY <1>2, <1>6, <1>7 DEF StreamInv, Stream!OkIsWhole

\* What becomes of the types.
LEMMA StreamTypes ==
  ASSUME StreamInv, [Stream!Next]_(Stream!vars)
  PROVE  StreamTyped' /\ UNCHANGED <<mode, Stream!Modes, Stream!S2, Stream!S3, Stream!S4, Stream!Due, Stream!Child>>
<1>0. UNCHANGED mode /\ StreamTyped
  BY DEF Stream!Next, Stream!Proceed, Stream!vars, Stream!Open, Stream!Data, Stream!SourceEnd, Stream!SourceError, Stream!Flush,
         Stream!WsError, Stream!WsFinish, Stream!CloseFails, Stream!Message, Stream!ChildFails, Stream!Feed, Stream!Exit,
         Stream!Destroy, Stream!Rimraf, Stream!Rest, StreamInv
<1>a. UNCHANGED <<mode, Stream!Modes, Stream!S2, Stream!S3, Stream!S4, Stream!Due, Stream!Child>>
  BY <1>0 DEF Stream!Modes, Stream!Classes, Stream!IPre, Stream!IPost, Stream!CPre, Stream!CPost, Stream!CPre2, Stream!Class,
              Stream!Due, Stream!Child, Stream!S2, Stream!S3, Stream!S4
<1>b. PICK i, o \in Nat : i = written.handed /\ o = written.out /\ o <= i
  BY <1>0 DEF StreamTyped
<1>1. CASE UNCHANGED Stream!vars
  BY <1>0, <1>1, <1>a DEF Stream!vars, StreamTyped
<1>2. ASSUME NEW ok \in BOOLEAN, Stream!Open(ok) PROVE StreamTyped'
  BY <1>0, <1>a, <1>2 DEF Stream!Open, Stream!Made, StreamTyped
<1>3. ASSUME NEW n \in 1 .. 2, Stream!Data(n) PROVE StreamTyped'
  <2>1. PICK m \in Nat : m = source.sent /\ source' = [source EXCEPT !.sent = m + n] /\ m + n <= source.units
    BY <1>0, <1>3 DEF Stream!Data, StreamTyped
  <2>3. source' \in [units : Nat, good : BOOLEAN, sent : Nat, end : {"no", "end", "error"}]
    BY <1>0, <2>1 DEF StreamTyped
  <2>4. i = Stream!Lower(m, Size) /\ Size \in Nat
    BY <1>0, <1>3, <1>b, <2>1 DEF StreamInv, StreamFed, StreamTyped, Stream!Data
  <2>5. PICK j \in Nat : j = Stream!Lower(m + n, Size) /\ i <= j
    BY <2>4 DEF Stream!Lower
  <2>6. written' = written \/ written' = [written EXCEPT !.handed = j]
    BY <1>3, <2>1, <2>5 DEF Stream!Data
  <2>7. written' \in [handed : Nat, out : Nat] /\ written'.out <= written'.handed
    <3>1. CASE written' = written
      BY <1>0, <3>1 DEF StreamTyped
    <3>2. CASE written' = [written EXCEPT !.handed = j]
      <4>1. written'.out = o /\ (written'.handed = j \/ written'.handed = i)
        BY <1>b, <3>2
      <4>2. written' \in [handed : Nat, out : Nat]
        BY <1>0, <2>5, <3>2 DEF StreamTyped
      <4> QED BY <1>b, <2>5, <4>1, <4>2
    <3> QED BY <2>6, <3>1, <3>2
  <2> QED BY <1>0, <1>a, <1>3, <2>3, <2>7 DEF Stream!Data, Stream!Rest, StreamTyped
<1>4. CASE Stream!SourceEnd \/ Stream!SourceError
  BY <1>0, <1>a, <1>4 DEF Stream!SourceEnd, Stream!SourceError, Stream!Rest, StreamTyped
<1>5. CASE Stream!Flush
  <2>1. o < i /\ written' = [written EXCEPT !.out = o + 1]
    BY <1>5, <1>b DEF Stream!Flush
  <2>2. written' \in [handed : Nat, out : Nat] /\ written'.out <= written'.handed
    BY <1>0, <1>b, <2>1 DEF StreamTyped
  <2> QED BY <1>0, <1>a, <1>5, <2>2 DEF Stream!Flush, Stream!Rest, StreamTyped
<1>6. CASE Stream!WsError \/ Stream!WsFinish \/ Stream!CloseFails
  BY <1>0, <1>a, <1>6 DEF Stream!WsError, Stream!WsFinish, Stream!CloseFails, Stream!Rest, StreamTyped
<1>7. CASE Stream!Message \/ Stream!ChildFails \/ Stream!Destroy \/ Stream!Rimraf
  BY <1>0, <1>a, <1>7 DEF Stream!Message, Stream!ChildFails, Stream!Destroy, Stream!Rimraf, Stream!Rest, StreamTyped
<1>8. CASE Stream!Feed
  <2>1. PICK m \in Nat : m = source.sent
    BY <1>0 DEF StreamTyped
  <2>2. PICK j \in Nat : j = Stream!Lower(m + 1, Size)
    BY <1>0 DEF StreamTyped, Stream!Lower
  <2>3. CASE m < source.units
    <3>1. source' = [source EXCEPT !.sent = m + 1] /\ written' = [handed |-> j, out |-> j]
      BY <1>8, <2>1, <2>2, <2>3 DEF Stream!Feed
    <3>2. source' \in [units : Nat, good : BOOLEAN, sent : Nat, end : {"no", "end", "error"}]
      BY <1>0, <2>1, <3>1 DEF StreamTyped
    <3> QED BY <1>0, <1>a, <1>8, <3>1, <3>2 DEF Stream!Feed, Stream!Rest, StreamTyped
  <2>4. CASE ~(m < source.units)
    BY <1>0, <1>a, <1>8, <2>1, <2>4 DEF Stream!Feed, Stream!Rest, StreamTyped
  <2> QED BY <2>3, <2>4
<1>9. CASE Stream!Exit
  BY <1>0, <1>a, <1>9 DEF Stream!Exit, Stream!Rest, StreamTyped
<1> QED BY <1>1, <1>2, <1>3, <1>4, <1>5, <1>6, <1>7, <1>8, <1>9, <1>a DEF Stream!Next, Stream!Proceed

LEMMA StreamBegins == Stream!Inputs /\ Stream!Init => StreamInv
<1> SUFFICES ASSUME Stream!Inputs, Stream!Init PROVE StreamInv
  OBVIOUS
<1>1. PICK s \in Sources : source = [units |-> s.units, good |-> s.good, sent |-> 0, end |-> "no"]
  BY DEF Stream!Init
<1>2. StreamTyped
  <2>1. s.units \in Nat /\ s.good \in BOOLEAN
    BY DEF Stream!Inputs
  <2>2. source \in [units : Nat, good : BOOLEAN, sent : Nat, end : {"no", "end", "error"}]
    BY <1>1, <2>1
  <2>3. mode \in Stream!Modes /\ written = [handed |-> 0, out |-> 0] /\ opened = "asked" /\ disk = "none" /\ owner = FALSE /\ late = FALSE
    BY DEF Stream!Init
  <2>4. written \in [handed : Nat, out : Nat] /\ written.out <= written.handed
    BY <2>3
  <2>5. Size \in Nat
    BY DEF Stream!Inputs
  <2> QED BY <2>2, <2>3, <2>4, <2>5 DEF StreamTyped
<1>3. mode \in Stream!Modes
  BY DEF Stream!Init
<1>4. told = <<>> /\ Len(told) = 0 /\ owner = FALSE /\ late = FALSE /\ opened = "asked" /\ disk = "none" /\ written = [handed |-> 0, out |-> 0]
  BY DEF Stream!Init
<1>5. CASE mode = "CPre2"
  <2>1. Stream!S2 = {"rs", "hash"} /\ refs = {"rs", "hash"}
    BY <1>3, <1>5, Tables DEF Stream!Init
  <2>2. {"rs", "hash"} # {"rs"}
    <3>1. "hash" \in {"rs", "hash"} /\ "hash" \notin {"rs"}
      OBVIOUS
    <3> QED BY <3>1
  <2>3. StreamTold
    BY <1>4, <1>5, <2>1, <2>2 DEF StreamTold, Stories
  <2> QED BY <1>2, <1>4, <1>5, <2>3 DEF StreamInv, StreamFed, Fed, Stream!OkIsWhole
<1>6. CASE mode # "CPre2"
  <2>1. refs = {"rs"} /\ "ws" \in Stream!S2 /\ "ws" \in Stream!S3
    BY <1>3, <1>6, Tables DEF Stream!Init, Stream!S1
  <2>2. refs \notin {Stream!S2, Stream!S3, {"hash"}}
    BY <2>1
  <2>3. StreamTold
    BY <1>4, <1>6, <2>1 DEF StreamTold, Stories
  <2> QED BY <1>1, <1>2, <1>4, <1>6, <2>1, <2>2, <2>3 DEF StreamInv, StreamFed, Fed, Stream!OkIsWhole
<1> QED BY <1>5, <1>6


\* The actions, of which some only add an error.
LEMMA StreamOpen ==
  ASSUME StreamInv, NEW ok \in BOOLEAN, Stream!Open(ok), StreamTyped',
         UNCHANGED <<mode, Stream!Modes, Stream!S2, Stream!S3, Stream!S4, Stream!Due, Stream!Child>>
  PROVE  StreamInv'
<1> USE DEF StreamInv
<1>0. mode # "CPre2" /\ opened = "asked" /\ mode \in Stream!Modes /\ Size \in Nat
  BY DEF Stream!Open, StreamTyped
<1>1. disk = "none" /\ written = [handed |-> 0, out |-> 0] /\ refs \in {{}, {"rs"}}
  BY <1>0 DEF StreamFed
<1>t. "ws" \in Stream!S2 /\ "ws" \in Stream!S3 /\ (mode \in {"IPre", "IPost", "CPre", "CPost"}) /\ "rs" \in Stream!S2 /\ "rs" \notin Stream!S3
  BY <1>0, Tables
<1>2. CASE refs = {}
  <2>1. UNCHANGED <<refs, told, source, written, owner, late>> /\ opened' = "closed"
    BY <1>2 DEF Stream!Open
  <2>2. StreamTold'
    BY <1>2, <2>1 DEF StreamTold
  <2>3. ~Fed'
    BY <1>2, <1>t, <2>1 DEF Fed
  <2>4. StreamFed'
    BY <1>0, <1>2, <1>t, <2>1, <2>3 DEF StreamFed
  <2>5. Stream!OkIsWhole'
    BY <1>1, <2>1 DEF Stream!OkIsWhole
  <2> QED BY <2>2, <2>4, <2>5
<1>3. CASE refs # {} /\ ok
  <2>1. refs' = Stream!S2 /\ UNCHANGED <<told, source, written, owner, late>> /\ opened' = "fd" /\ disk' = Stream!Made
    BY <1>3 DEF Stream!Open
  <2>2. told = <<>> /\ owner = FALSE /\ late = FALSE
    BY <1>0, <1>3 DEF StreamTold, StreamTyped
  <2>3. StreamTold'
    BY <1>0, <2>1, <2>2 DEF StreamTold
  <2>4. StreamFed'
    <3>1. refs' # {"hash"}
      BY <1>t, <2>1
    <3>2. source.sent = 0
      BY <1>0, <1>1 DEF StreamFed
    <3>3. Stream!Lower(0, Size) = 0 /\ 0 <= Stream!Due
      BY <1>0, Tables DEF Stream!Lower
    <3>4. disk' # "none" /\ (written'.out = Size /\ source'.good => disk' = "whole")
      BY <1>1, <2>1 DEF Stream!Made, Stream!Matches
    <3>5. source'.sent = 0 /\ written'.handed = 0
      BY <1>1, <2>1, <3>2
    <3>6. refs' = Stream!S2 /\ refs' = Stream!S2'
      BY <2>1
    <3> QED BY <2>1, <3>1, <3>3, <3>4, <3>5, <3>6 DEF StreamFed, Fed
  <2>5. Stream!OkIsWhole'
    BY <2>1, <2>2 DEF Stream!OkIsWhole
  <2> QED BY <2>3, <2>4, <2>5
<1>4. CASE refs # {} /\ ~ok
  <2>1. told = <<>> /\ Stream!Error /\ UNCHANGED <<owner, late, disk, written>> /\ opened' = "closed"
    BY <1>0, <1>4 DEF StreamTold, Stream!Open
  <2> QED BY <1>4, <2>1, StreamErrs
<1> QED BY <1>2, <1>3, <1>4

LEMMA StreamData ==
  ASSUME StreamInv, NEW n \in 1 .. 2, Stream!Data(n), StreamTyped',
         UNCHANGED <<mode, Stream!Modes, Stream!S2, Stream!S3, Stream!S4, Stream!Due, Stream!Child>>
  PROVE  StreamInv'
<1> USE DEF StreamInv
<1>0. mode # "CPre2" /\ mode \in Stream!Modes /\ Size \in Nat /\ refs = Stream!S2
  BY DEF Stream!Data, StreamTyped
<1>t. "ws" \in Stream!S2 /\ "rs" \in Stream!S2 /\ "rs" \notin Stream!S3 /\ Stream!S2 # Stream!S3 /\ Stream!Due \in Nat
      /\ Stream!S2 # {"hash"} /\ Stream!S2 # {}
  BY <1>0, Tables
<1>1. told = <<>> /\ owner = FALSE /\ late = FALSE /\ opened = "fd" /\ disk # "none"
  <2>1. told = <<>> /\ owner = FALSE /\ late = FALSE /\ opened = "fd"
    BY <1>0, <1>t DEF StreamTold, StreamTyped, StreamFed, Fed
  <2> QED BY <1>0, <2>1 DEF StreamFed, Failed
<1>2. PICK m \in Nat : m = source.sent /\ source' = [source EXCEPT !.sent = m + n]
  BY DEF Stream!Data, StreamTyped
<1>3. source'.sent = m + n /\ source'.good = source.good
  BY <1>2 DEF StreamTyped
<1>4. CASE m + n > Stream!Due
  <2>1. Stream!Error /\ UNCHANGED <<owner, late, disk, written, opened>>
    BY <1>2, <1>4 DEF Stream!Data, Stream!TooMuch, Stream!Rest
  <2> QED BY <1>0, <1>1, <1>t, <2>1, StreamErrs
<1>5. CASE ~(m + n > Stream!Due)
  <2>1. written' = [written EXCEPT !.handed = Stream!Lower(m + n, Size)] /\ UNCHANGED <<refs, told, owner, late, disk, opened>>
    BY <1>2, <1>5 DEF Stream!Data, Stream!TooMuch, Stream!Rest
  <2>2. written'.handed = Stream!Lower(m + n, Size) /\ written'.out = written.out
    BY <2>1 DEF StreamTyped
  <2>3. StreamTold'
    BY <1>0, <1>1, <1>3, <2>1 DEF StreamTold
  <2>4. m + n <= Stream!Due
    BY <1>2, <1>5, <1>t
  <2>5. StreamFed'
    <3>1. mode' # "CPre2" /\ refs' = Stream!S2'
      BY <1>0, <2>1
    <3>2. Fed' /\ refs' # Stream!S2' => FALSE
      BY <3>1
    <3>3. refs' # {"hash"} /\ opened' = "fd"
      BY <1>0, <1>1, <1>t, <2>1
    <3>4. disk' # "none" /\ (written'.out = Size /\ source'.good => disk' = "whole")
      BY <1>0, <1>1, <1>3, <2>1, <2>2 DEF StreamFed, Failed
    <3> QED BY <1>3, <2>2, <2>4, <3>1, <3>2, <3>3, <3>4 DEF StreamFed
  <2>6. Stream!OkIsWhole'
    BY <1>1, <2>1 DEF Stream!OkIsWhole
  <2> QED BY <2>3, <2>5, <2>6
<1> QED BY <1>2, <1>4, <1>5, <1>t

LEMMA StreamEnd ==
  ASSUME StreamInv, Stream!SourceEnd, StreamTyped',
         UNCHANGED <<mode, Stream!Modes, Stream!S2, Stream!S3, Stream!S4, Stream!Due, Stream!Child>>
  PROVE  StreamInv'
<1> USE DEF StreamInv
<1>0. mode # "CPre2" /\ mode \in Stream!Modes /\ Size \in Nat /\ refs = Stream!S2
  BY DEF Stream!SourceEnd, StreamTyped
<1>t. "ws" \in Stream!S2 /\ "rs" \in Stream!S2 /\ "rs" \notin Stream!S3 /\ "ws" \in Stream!S3 /\ Stream!S2 # {} /\ Stream!Due \in Nat
      /\ Size <= Stream!Due
  BY <1>0, Tables
<1>1. told = <<>> /\ owner = FALSE /\ late = FALSE /\ opened = "fd" /\ disk # "none"
  <2>1. told = <<>> /\ owner = FALSE /\ late = FALSE /\ opened = "fd"
    BY <1>0, <1>t DEF StreamTold, StreamTyped, StreamFed, Fed
  <2> QED BY <1>0, <2>1 DEF StreamFed, Failed
<1>2. source' = [source EXCEPT !.end = "end"] /\ UNCHANGED <<opened, owner, late, written, disk>> /\ source.sent = source.units
  BY DEF Stream!SourceEnd, Stream!Rest
<1>3. source'.sent = source.sent /\ source'.good = source.good /\ source'.units = source.units
  BY <1>2 DEF StreamTyped
<1>4. CASE ~(source.sent >= Stream!Due /\ Stream!Checked)
  <2>1. Stream!Error
    BY <1>4 DEF Stream!SourceEnd
  <2> QED BY <1>0, <1>1, <1>2, <1>t, <2>1, StreamErrs
<1>5. CASE source.sent >= Stream!Due /\ Stream!Checked
  <2>1. refs' = Stream!S3 /\ told' = told
    BY <1>5 DEF Stream!SourceEnd
  <2>2. source.units = Stream!Due /\ written.handed = Size
    <3>1. PICK m \in Nat : m = source.sent
      BY DEF StreamTyped
    <3>2. m <= Stream!Due /\ written.handed = Stream!Lower(m, Size)
      BY <1>0, <3>1 DEF StreamFed
    <3> QED BY <1>0, <1>2, <1>5, <1>t, <3>1, <3>2 DEF Stream!Lower
  <2>3. StreamTold'
    BY <1>0, <1>1, <1>2, <2>1 DEF StreamTold
  <2>4. StreamFed'
    <3>1. mode' # "CPre2" /\ refs' # Stream!S2' /\ refs' # {"hash"} /\ opened' = "fd"
      BY <1>0, <1>1, <1>2, <1>t, <2>1
    <3>2. source'.units = Stream!Due' /\ written'.handed = Size /\ (Stream!Child' \/ source'.good)
      BY <1>2, <1>3, <1>5, <2>2 DEF Stream!Checked, Stream!Matches
    <3>3. disk' # "none" /\ (written'.out = Size /\ source'.good => disk' = "whole")
      BY <1>0, <1>1, <1>2, <1>3 DEF StreamFed, Failed
    <3> QED BY <3>1, <3>2, <3>3 DEF StreamFed
  <2>5. Stream!OkIsWhole'
    BY <1>1, <2>1 DEF Stream!OkIsWhole
  <2> QED BY <2>3, <2>4, <2>5
<1> QED BY <1>4, <1>5

\* A step that neither drops nor tells anything, nor reads more.
LEMMA StreamStays ==
  ASSUME StreamInv, StreamTyped', UNCHANGED <<refs, told, opened, owner, late, written, disk>>,
         UNCHANGED <<mode, Stream!Modes, Stream!S2, Stream!S3, Stream!S4, Stream!Due, Stream!Child>>,
         source'.sent = source.sent, source'.units = source.units, source'.good = source.good,
         late => source'.end = source.end
  PROVE  StreamInv'
<1>1. StreamTold'
  BY DEF StreamInv, StreamTold
<1>2. StreamFed'
  BY DEF StreamInv, StreamFed, Fed, Failed, Stream!Lower
<1> QED BY <1>1, <1>2 DEF StreamInv, Stream!OkIsWhole

LEMMA StreamSourceError ==
  ASSUME StreamInv, Stream!SourceError, StreamTyped',
         UNCHANGED <<mode, Stream!Modes, Stream!S2, Stream!S3, Stream!S4, Stream!Due, Stream!Child>>
  PROVE  StreamInv'
<1> USE DEF StreamInv
<1>1. source' = [source EXCEPT !.end = "error"] /\ UNCHANGED <<opened, owner, written, disk>>
  BY DEF Stream!SourceError
<1>2. source'.sent = source.sent /\ source'.good = source.good /\ source'.units = source.units /\ source'.end = "error"
  BY <1>1 DEF StreamTyped
<1>3. source.end = "no" /\ (late' <=> late \/ (mode = "CPre2" /\ refs # Stream!S2))
  BY DEF Stream!SourceError
<1>4. CASE mode = "CPre2"
  <2>1. Stream!Error /\ ~late
    BY <1>3, <1>4 DEF Stream!SourceError, StreamTold
  <2>2. told \in {<<>>, <<"ok">>, <<"error">>}
    <3>1. Len(told) <= 1 /\ Len(<<"ok", "error">>) = 2 /\ Len(<<"error", "error">>) = 2
      BY <2>1 DEF StreamTold
    <3> QED BY <3>1 DEF StreamTold, Stories
  <2>3. CASE refs = Stream!S2
    <3>1. refs # {} /\ told = <<>>
      BY <1>4, <2>3, Tables DEF StreamTold, StreamTyped
    <3>2. late' = late
      BY <1>3, <2>1, <2>3 DEF StreamTyped
    <3> QED BY <1>1, <1>4, <2>1, <2>2, <3>1, <3>2, StreamErrs
  <2>4. CASE refs # Stream!S2
    <3>1. late' = TRUE
      BY <1>4, <2>4 DEF Stream!SourceError
    <3> QED BY <1>1, <1>2, <1>4, <2>1, <2>2, <3>1, StreamErrs
  <2> QED BY <2>3, <2>4
<1>5. CASE mode # "CPre2" /\ refs = Stream!S2
  <2>1. Stream!Error /\ late' = late
    BY <1>5 DEF Stream!SourceError, StreamTyped
  <2>2. refs # {} /\ told = <<>>
    BY <1>5, Tables DEF StreamTold, StreamTyped
  <2>3. opened = "fd"
    BY <1>5 DEF StreamFed, Fed
  <2> QED BY <1>1, <1>5, <2>1, <2>2, <2>3, StreamErrs
<1>6. CASE mode # "CPre2" /\ refs # Stream!S2
  <2>1. UNCHANGED <<refs, told>> /\ late' = late
    BY <1>6 DEF Stream!SourceError, StreamTyped
  <2>2. StreamTold'
    BY <1>6, <2>1, <1>1 DEF StreamTold
  <2>3. StreamFed'
    BY <1>1, <1>2, <1>6, <2>1 DEF StreamFed, Fed, Failed, Stream!Lower
  <2> QED BY <1>1, <1>2, <2>1, <2>2, <2>3 DEF Stream!OkIsWhole
<1> QED BY <1>4, <1>5, <1>6

LEMMA StreamFlush ==
  ASSUME StreamInv, Stream!Flush, StreamTyped',
         UNCHANGED <<mode, Stream!Modes, Stream!S2, Stream!S3, Stream!S4, Stream!Due, Stream!Child>>
  PROVE  StreamInv'
<1> USE DEF StreamInv
<1>1. UNCHANGED <<source, refs, told, opened, owner, late>> /\ opened = "fd"
  BY DEF Stream!Flush, Stream!Rest
<1>2. PICK i, o \in Nat : i = written.handed /\ o = written.out /\ o < i
  BY DEF Stream!Flush, StreamTyped
<1>3. written'.handed = i /\ written'.out = o + 1
  BY <1>2 DEF Stream!Flush, StreamTyped
<1>4. disk' = IF disk # "none" /\ o + 1 = Size /\ source.good THEN "whole" ELSE disk
  BY <1>2 DEF Stream!Flush, Stream!Matches
<1>5. StreamTold'
  BY <1>1 DEF StreamTold
<1>6. ~(mode # "CPre2" /\ refs = {"hash"})
  <2>1. ASSUME mode # "CPre2", refs = {"hash"} PROVE FALSE
    <3>1. "ws" \notin refs
      BY <2>1
    <3>2. Fed /\ refs # Stream!S2 /\ o = Size /\ mode = "IPost"
      <4>1. mode = "IPost"
        BY <3>1 DEF Stream!Flush
      <4>2. Stream!S2 = {"rs", "ws"}
        BY <4>1, Tables DEF StreamTyped
      <4> QED BY <1>2, <2>1, <3>1, <4>1, <4>2 DEF StreamFed, Fed
    <3>3. i = Size
      BY <1>2, <3>2 DEF StreamFed
    <3> QED BY <1>2, <3>2, <3>3
  <2> QED BY <2>1
<1>7. StreamFed'
  BY <1>1, <1>2, <1>3, <1>4, <1>6 DEF StreamFed, Fed, Failed, Stream!Lower
<1>8. Stream!OkIsWhole'
  BY <1>1, <1>4 DEF Stream!OkIsWhole
<1> QED BY <1>5, <1>7, <1>8

LEMMA StreamFinish ==
  ASSUME StreamInv, Stream!WsFinish, StreamTyped',
         UNCHANGED <<mode, Stream!Modes, Stream!S2, Stream!S3, Stream!S4, Stream!Due, Stream!Child>>
  PROVE  StreamInv'
<1> USE DEF StreamInv
<1>0. mode # "CPre2" /\ mode \in Stream!Modes /\ Size \in Nat /\ refs = Stream!S3 /\ written.out = written.handed
  BY DEF Stream!WsFinish, StreamTyped
<1>t. refs # Stream!S2 /\ refs # {} /\ {"hash"} # Stream!S2 /\ {"hash"} # Stream!S3 /\ Stream!S2 # {} /\ Stream!S3 # {}
  BY <1>0, Tables
<1>1. told = <<>> /\ owner = FALSE /\ late = FALSE /\ opened = "fd" /\ disk # "none"
  <2>1. told = <<>> /\ owner = FALSE /\ late = FALSE /\ opened = "fd"
    BY <1>0, <1>t DEF StreamTold, StreamTyped, StreamFed, Fed
  <2> QED BY <1>0, <2>1 DEF StreamFed, Failed
<1>2. source.units = Stream!Due /\ written.out = Size /\ (Stream!Child \/ source.good) /\ (source.good => disk = "whole")
  BY <1>0, <1>1, <1>t DEF StreamFed, Fed, Failed
<1>3. UNCHANGED <<source, written, disk, opened, owner, late>>
  BY DEF Stream!WsFinish, Stream!Rest
<1>4. CASE Stream!Child
  <2>1. refs' = Stream!S4 /\ told' = told /\ Stream!S4 = {"hash"}
    BY <1>0, <1>4, Tables DEF Stream!WsFinish
  <2>2. StreamTold'
    BY <1>0, <1>1, <1>3, <2>1 DEF StreamTold
  <2>3. StreamFed'
    BY <1>0, <1>1, <1>2, <1>3, <1>4, <1>t, <2>1 DEF StreamFed
  <2> QED BY <1>1, <2>1, <2>2, <2>3 DEF Stream!OkIsWhole
<1>5. CASE ~Stream!Child
  <2>1. refs' = {} /\ told' = <<"ok">>
    BY <1>1, <1>5 DEF Stream!WsFinish
  <2>2. StreamTold'
    BY <1>0, <1>1, <1>3, <2>1 DEF StreamTold, Stories
  <2>3. ~Fed' /\ ~Failed'
    BY <1>t, <2>1 DEF Fed, Failed
  <2>4. StreamFed'
    BY <1>0, <1>1, <1>2, <1>3, <1>5, <1>t, <2>1, <2>3 DEF StreamFed
  <2> QED BY <1>2, <1>3, <1>5, <2>1, <2>2, <2>4 DEF Stream!OkIsWhole
<1> QED BY <1>4, <1>5

LEMMA StreamMessage ==
  ASSUME StreamInv, Stream!Message, StreamTyped',
         UNCHANGED <<mode, Stream!Modes, Stream!S2, Stream!S3, Stream!S4, Stream!Due, Stream!Child>>
  PROVE  StreamInv'
<1> USE DEF StreamInv
<1>0. mode # "CPre2" /\ mode \in Stream!Modes /\ Size \in Nat /\ refs = {"hash"} /\ Stream!Child
  BY Tables DEF Stream!Message, StreamTyped
<1>t. {"hash"} # Stream!S2 /\ Stream!S2 # {} /\ Stream!S3 # {}
  BY <1>0, Tables
<1>1. told = <<>> /\ owner = FALSE /\ late = FALSE /\ opened = "fd" /\ disk # "none"
  <2>1. told = <<>> /\ owner = FALSE /\ late = FALSE /\ opened = "fd"
    BY <1>0, <1>t DEF StreamTold, StreamTyped, StreamFed, Fed
  <2> QED BY <1>0, <2>1 DEF StreamFed, Failed
<1>2. source.units = Stream!Due /\ written.out = Size /\ (source.good => disk = "whole")
  BY <1>0, <1>1, <1>t DEF StreamFed, Fed, Failed
<1>3. UNCHANGED <<source, written, disk, opened, owner, late>>
  BY DEF Stream!Message, Stream!Rest
<1>4. CASE source.good
  <2>1. refs' = {} /\ told' = <<"ok">>
    BY <1>1, <1>4 DEF Stream!Message, Stream!Drop, Stream!Matches
  <2>2. StreamTold'
    BY <1>0, <1>1, <1>3, <2>1 DEF StreamTold, Stories
  <2>3. ~Fed' /\ ~Failed'
    BY <1>t, <2>1 DEF Fed, Failed
  <2>4. StreamFed'
    BY <1>0, <1>1, <1>2, <1>3, <1>t, <2>1, <2>3 DEF StreamFed
  <2> QED BY <1>2, <1>3, <1>4, <2>1, <2>2, <2>4 DEF Stream!OkIsWhole
<1>5. CASE ~source.good
  <2>1. Stream!Error
    BY <1>5 DEF Stream!Message, Stream!Matches
  <2> QED BY <1>0, <1>1, <1>3, <2>1, StreamErrs
<1> QED BY <1>4, <1>5

LEMMA StreamFails ==
  ASSUME StreamInv, Stream!WsError \/ Stream!ChildFails \/ Stream!CloseFails, StreamTyped',
         UNCHANGED <<mode, Stream!Modes, Stream!S2, Stream!S3, Stream!S4, Stream!Due, Stream!Child>>
  PROVE  StreamInv'
<1> USE DEF StreamInv
<1>0. mode \in Stream!Modes
  BY DEF StreamTyped
<1>1. Stream!Error /\ UNCHANGED <<owner, opened, disk, written, source>>
  BY DEF Stream!WsError, Stream!ChildFails, Stream!CloseFails
<1>2. CASE Stream!WsError \/ Stream!ChildFails
  <2>1. late' = late /\ ("ws" \in refs \/ "hash" \in refs)
    BY <1>2 DEF Stream!WsError, Stream!ChildFails
  <2>2. told = <<>>
    BY <2>1, <1>0, Tables DEF StreamTold
  <2> QED BY <1>1, <2>1, <2>2, StreamErrs
<1>3. CASE Stream!CloseFails
  <2>1. late' = TRUE /\ mode # "CPre2" /\ told \in {<<>>, <<"ok">>}
    BY <1>3 DEF Stream!CloseFails
  <2> QED BY <1>1, <2>1, StreamErrs
<1> QED BY <1>2, <1>3

\* The child that does all.
LEMMA StreamFeed ==
  ASSUME StreamInv, Stream!Feed, StreamTyped',
         UNCHANGED <<mode, Stream!Modes, Stream!S2, Stream!S3, Stream!S4, Stream!Due, Stream!Child>>
  PROVE  StreamInv'
<1> USE DEF StreamInv
<1>0. mode = "CPre2" /\ mode \in Stream!Modes /\ Stream!S2 = {"rs", "hash"} /\ refs = Stream!S2 /\ mode' = "CPre2"
  BY Tables DEF Stream!Feed, StreamTyped
<1>1. UNCHANGED <<refs, told, owner, late>> /\ told = <<>> /\ refs # {}
  BY <1>0 DEF Stream!Feed, Stream!Rest, StreamTold
<1>2. StreamTold'
  BY <1>0, <1>1 DEF StreamTold
<1>3. StreamFed'
  BY <1>0 DEF StreamFed, Fed
<1> QED BY <1>1, <1>2, <1>3 DEF Stream!OkIsWhole

LEMMA StreamExit ==
  ASSUME StreamInv, Stream!Exit, StreamTyped',
         UNCHANGED <<mode, Stream!Modes, Stream!S2, Stream!S3, Stream!S4, Stream!Due, Stream!Child>>
  PROVE  StreamInv'
<1> USE DEF StreamInv
<1>0. mode = "CPre2" /\ mode \in Stream!Modes /\ Stream!S2 = {"rs", "hash"} /\ refs = Stream!S2 /\ mode' = "CPre2" /\ Stream!Due = Size
  BY Tables DEF Stream!Exit, StreamTyped
<1>1. UNCHANGED <<source, owner, late>> /\ told = <<>> /\ refs # {} /\ owner = FALSE /\ late = FALSE
  BY <1>0 DEF Stream!Exit, Stream!Rest, StreamTold, StreamTyped
<1>2. CASE source.units = Size /\ source.good
  <2>1. refs' = {"rs"} /\ told' = <<"ok">> /\ disk' = "whole"
    BY <1>1, <1>2 DEF Stream!Exit, Stream!Matches
  <2>2. {"rs"} # Stream!S2
    BY <1>0
  <2>3. StreamTold'
    BY <1>0, <1>1, <2>1, <2>2 DEF StreamTold, Stories
  <2>4. StreamFed'
    BY <1>0 DEF StreamFed, Fed
  <2> QED BY <1>0, <1>1, <1>2, <2>1, <2>3, <2>4 DEF Stream!OkIsWhole
<1>3. CASE ~(source.units = Size /\ source.good)
  <2>1. Stream!Error
    BY <1>3 DEF Stream!Exit, Stream!Matches
  <2> QED BY <1>0, <1>1, <2>1, StreamErrs
<1> QED BY <1>2, <1>3

LEMMA StreamLeft ==
  ASSUME StreamInv, Stream!Destroy \/ Stream!Rimraf, StreamTyped',
         UNCHANGED <<mode, Stream!Modes, Stream!S2, Stream!S3, Stream!S4, Stream!Due, Stream!Child>>
  PROVE  StreamInv'
<1> USE DEF StreamInv
<1>0. mode \in Stream!Modes
  BY DEF StreamTyped
<1>1. CASE Stream!Destroy
  <2>1. refs' = {} /\ told = <<>> /\ UNCHANGED <<told, opened, late, source, written, disk>>
    BY <1>1 DEF Stream!Destroy, Stream!Drop
  <2>2. mode # "CPre2" => Stream!S2 # {} /\ Stream!S3 # {}
    BY <1>0, Tables
  <2>3. mode = "CPre2" => Stream!S2 # {}
    BY <1>0, Tables
  <2>4. StreamTold'
    BY <2>1, <2>3 DEF StreamTold
  <2>5. ~Fed'
    BY <2>1, <2>2 DEF Fed
  <2>6. StreamFed'
    BY <2>1, <2>2, <2>5 DEF StreamFed, Failed
  <2> QED BY <2>1, <2>4, <2>6 DEF Stream!OkIsWhole
<1>2. CASE Stream!Rimraf
  <2>1. disk' = "none" /\ Failed /\ UNCHANGED <<mode, opened, owner, late, source, refs, written, told>>
    BY <1>2 DEF Stream!Rimraf, Stream!Rest, Failed
  <2>2. StreamTold'
    BY <2>1 DEF StreamTold
  <2>3. StreamFed'
    BY <2>1 DEF StreamFed, Failed, Fed, Stream!Lower
  <2>4. told # <<>> /\ told[Len(told)] # "ok"
    <3>1. told \in {<<"ok">>, <<>>} => ~Failed
      BY DEF Failed
    <3>2. told \in {<<"error">>, <<"ok", "error">>, <<"error", "error">>}
      BY <2>1, <3>1 DEF StreamTold, Stories
    <3>3. CASE told = <<"error">>
      BY <3>3
    <3>4. CASE told = <<"ok", "error">>
      <4>1. Len(told) = 2 /\ told[2] = "error"
        BY <3>4
      <4> QED BY <3>4, <4>1
    <3>5. CASE told = <<"error", "error">>
      <4>1. Len(told) = 2 /\ told[2] = "error"
        BY <3>5
      <4> QED BY <3>5, <4>1
    <3> QED BY <3>2, <3>3, <3>4, <3>5
  <2> QED BY <2>1, <2>2, <2>3, <2>4 DEF Stream!OkIsWhole
<1> QED BY <1>1, <1>2

LEMMA StreamStep == StreamInv /\ [Stream!Next]_(Stream!vars) => StreamInv'
<1> SUFFICES ASSUME StreamInv, [Stream!Next]_(Stream!vars) PROVE StreamInv'
  OBVIOUS
<1>0. StreamTyped' /\ UNCHANGED <<mode, Stream!Modes, Stream!S2, Stream!S3, Stream!S4, Stream!Due, Stream!Child>>
  BY StreamTypes
<1>1. CASE UNCHANGED Stream!vars
  <2>1. UNCHANGED <<refs, told, opened, owner, late, written, disk, source>>
    BY <1>1 DEF Stream!vars
  <2> QED BY <1>0, <2>1, StreamStays
<1>2. ASSUME NEW ok \in BOOLEAN, Stream!Open(ok) PROVE StreamInv'
  BY <1>0, <1>2, StreamOpen
<1>3. ASSUME NEW n \in 1 .. 2, Stream!Data(n) PROVE StreamInv'
  BY <1>0, <1>3, StreamData
<1> QED BY <1>0, <1>1, <1>2, <1>3, StreamEnd, StreamSourceError, StreamFlush, StreamFinish, StreamMessage, StreamFails, StreamFeed,
           StreamExit, StreamLeft DEF Stream!Next, Stream!Proceed

\* The owner of a stream is told once, and nothing after it destroyed the stream, for any source,
\* size and failures; excepted are a file that does not close after its finish, and a source of
\* CPre2 that fails when the child is gone.
THEOREM StreamTellsOnce == Stream!Inputs => (Stream!Spec => []Stream!ToldOnce)
<1> SUFFICES ASSUME Stream!Inputs PROVE Stream!Spec => []Stream!ToldOnce
  OBVIOUS
<1>1. Stream!Init => StreamInv
  BY StreamBegins
<1>2. StreamInv /\ [Stream!Next]_(Stream!vars) => StreamInv'
  BY StreamStep
<1>3. StreamInv => Stream!ToldOnce
  BY DEF StreamInv, StreamTold, Stream!ToldOnce
<1> QED BY <1>1, <1>2, <1>3, PTL DEF Stream!Spec

\* Who was told of success finds the file that was announced, whatever its size and its class, in
\* whatever order the source, the write stream and the child end.
THEOREM StreamOkIsWhole == Stream!Inputs => (Stream!Spec => []Stream!OkIsWhole)
<1> SUFFICES ASSUME Stream!Inputs PROVE Stream!Spec => []Stream!OkIsWhole
  OBVIOUS
<1>1. Stream!Init => StreamInv
  BY StreamBegins
<1>2. StreamInv /\ [Stream!Next]_(Stream!vars) => StreamInv'
  BY StreamStep
<1>3. StreamInv => Stream!OkIsWhole
  BY DEF StreamInv
<1> QED BY <1>1, <1>2, <1>3, PTL DEF Stream!Spec

-----------------------------------------------------------------------------
(* Requests.                                                               *)

Desk == INSTANCE Requests

Stations == [type : {"winas", "n2"}, fruitmix : BOOLEAN, device : BOOLEAN, samba : BOOLEAN, unbound : BOOLEAN,
             down : {"no", "address", "device", "resource", "fruitmix", "file", "string", "unbound"}]
Requested == [m : Asked \cup {[via |-> "none"]}, pc : {"idle", "auth", "resource", "api", "file", "done"},
              who : {"nobody", "user", "station"}, did : {"nothing", "ok", "path", "error", "string"},
              answers : Seq(Desk!Answers)]
\* What may be told of a message: what was done, or an error twice.
TellsTrue(m, a, did) ==
  \/ \E x \in Desk!Answers : a = <<x>> /\ (x = 200 => did \in {"ok", "string"}) /\ (x = 206 => did = "path")
  \/ a = <<403, 403>> /\ m.via = "cloud" /\ m.path = "tags noname"
OneTold(m, a, did) ==
  /\ Len(a) <= IF m.via = "cloud" /\ m.path = "tags noname" THEN 2 ELSE 1
  /\ \A i \in DOMAIN a : (a[i] = 200 => did \in {"ok", "string"}) /\ (a[i] = 206 => did = "path")
RequestTrue(e) ==
  /\ e.pc # "idle" => e.m \in Asked
  /\ e.pc # "done" => e.answers = <<>>
  /\ e.answers = <<>> \/ TellsTrue(e.m, e.answers, e.did)
  /\ e.pc = "resource" => e.m.via = "cloud" /\ (station.type = "winas" => station.fruitmix)
  /\ e.pc = "file" => e.did = "path"
RequestsTyped ==
  /\ station \in Stations /\ user \in {"ACTIVE", "INACTIVE"} /\ file \in BOOLEAN /\ faults \in Nat
  /\ req \in [Ids -> Requested]
  /\ station.unbound => station.type = "n2"
RequestsInv == RequestsTyped /\ (\A r \in Ids : RequestTrue(req[r])) /\ Desk!Survives

\* One request changes, and the station is up.
LEMMA OneRequest ==
  ASSUME RequestsInv, NEW r \in Ids, NEW e \in Requested, req' = [req EXCEPT ![r] = e],
         RequestTrue(e), UNCHANGED <<station, user, file>>, faults' \in Nat, Desk!Up
  PROVE  RequestsInv'
<1>1. RequestsTyped'
  BY DEF RequestsInv, RequestsTyped
<1>2. ASSUME NEW q \in Ids PROVE RequestTrue(req[q])'
  <2>1. PICK f : f = req'[q]
    OBVIOUS
  <2>2. f = e \/ f = req[q]
    BY <2>1 DEF RequestsInv, RequestsTyped
  <2>3. RequestTrue(f)
    BY <2>2 DEF RequestsInv
  <2>4. RequestTrue(f)'
    BY <2>3 DEF RequestTrue
  <2> QED BY <2>1, <2>4 DEF RequestTrue
<1>3. Desk!Survives'
  BY DEF Desk!Survives, Desk!Up
<1> QED BY <1>1, <1>2, <1>3 DEF RequestsInv

LEMMA Answering ==
  ASSUME RequestsInv, Desk!Up, NEW r \in Ids, NEW m \in Asked, m.via = "cloud", req[r].pc # "done",
         NEW a \in Seq(Desk!Answers), NEW did \in {"nothing", "ok", "path", "error", "string"}, TellsTrue(m, a, did),
         Desk!Answer(r, m, a, did), UNCHANGED <<user, file, faults>>
  PROVE  RequestsInv'
<1>0. PICK o \in Requested : o = req[r] /\ o.answers = <<>> /\ RequestTrue(o)
  BY DEF RequestsInv, RequestsTyped, RequestTrue
<1>1. CASE Desk!CanAnswer(m)
  <2>1. PICK e : e = [req[r] EXCEPT !.m = m, !.pc = "done", !.answers = @ \o a, !.did = did]
    OBVIOUS
  <2>2. o.answers \o a = a
    <3>1. <<>> \o a = a
      OBVIOUS
    <3> QED BY <1>0, <3>1
  <2>3. req' = [req EXCEPT ![r] = e] /\ UNCHANGED station
    BY <1>1, <2>1 DEF Desk!Answer
  <2>4. e \in Requested /\ e.pc = "done" /\ e.m = m /\ e.answers = a /\ e.did = did
    <3>1. e = [o EXCEPT !.m = m, !.pc = "done", !.answers = o.answers \o a, !.did = did]
      BY <1>0, <2>1 DEF Requested
    <3>2. e = [o EXCEPT !.m = m, !.pc = "done", !.answers = a, !.did = did]
      BY <2>2, <3>1
    <3> QED BY <3>2 DEF Requested
  <2>5. RequestTrue(e)
    BY <2>4 DEF RequestTrue
  <2>6. faults' \in Nat
    BY DEF RequestsInv, RequestsTyped
  <2> QED BY <2>3, <2>4, <2>5, <2>6, OneRequest
<1>2. CASE ~Desk!CanAnswer(m)
  <2>1. PICK e : e = [o EXCEPT !.m = m, !.pc = "done", !.did = did]
    OBVIOUS
  <2>3. req' = [req EXCEPT ![r] = e] /\ station' = [station EXCEPT !.down = Desk!Unanswerable(m)]
    BY <1>0, <1>2, <2>1 DEF Desk!Answer
  <2>4. e \in Requested /\ e.pc = "done" /\ e.m = m /\ e.answers = <<>>
    BY <1>0, <2>1 DEF Requested
  <2>5. Desk!Unanswerable(m) \in {"address", "device"} /\ (Desk!Unanswerable(m) = "address" <=> m.addr = "none")
        /\ (m.addr # "none" => station.type = "n2")
    BY <1>2 DEF Desk!Unanswerable, Desk!CanAnswer
  <2>6. station' \in Stations /\ station'.down = Desk!Unanswerable(m) /\ station'.type = station.type
        /\ station'.fruitmix = station.fruitmix /\ station'.unbound = station.unbound
    BY <2>3, <2>5 DEF RequestsInv, RequestsTyped, Stations
  <2>7. RequestsTyped'
    BY <2>3, <2>4, <2>6 DEF RequestsInv, RequestsTyped
  <2>8. ASSUME NEW q \in Ids PROVE RequestTrue(req[q])'
    <3>1. PICK f : f = req'[q]
      OBVIOUS
    <3>2. f = e \/ f = req[q]
      BY <2>3, <3>1 DEF RequestsInv, RequestsTyped
    <3>3. RequestTrue(f)
      BY <2>4, <3>2 DEF RequestsInv, RequestTrue
    <3>4. RequestTrue(f)'
      BY <2>6, <3>3 DEF RequestTrue
    <3> QED BY <3>1, <3>4 DEF RequestTrue
  <2>9. Desk!Survives'
    <3>1. req'[r].m = m
      BY <2>3, <2>4 DEF RequestsInv, RequestsTyped
    <3> QED BY <2>5, <2>6, <3>1 DEF Desk!Survives
  <2> QED BY <2>7, <2>8, <2>9 DEF RequestsInv
<1> QED BY <1>1, <1>2

LEMMA Going ==
  ASSUME RequestsInv, Desk!Up, NEW r \in Ids, NEW m \in Asked, req[r].pc # "done",
         NEW pc \in {"auth", "resource", "api"}, NEW who \in {"nobody", "user", "station"},
         pc = "resource" => m.via = "cloud" /\ (station.type = "winas" => station.fruitmix),
         Desk!Goes(r, m, pc, who), UNCHANGED <<user, file, faults>>
  PROVE  RequestsInv'
<1>0. PICK o \in Requested : o = req[r] /\ o.answers = <<>>
  BY DEF RequestsInv, RequestsTyped, RequestTrue
<1>1. PICK e : e = [o EXCEPT !.m = m, !.pc = pc, !.who = who]
  OBVIOUS
<1>2. req' = [req EXCEPT ![r] = e] /\ UNCHANGED station
  BY <1>0, <1>1 DEF Desk!Goes
<1>3. e \in Requested /\ e.pc = pc /\ e.m = m /\ e.answers = <<>>
  BY <1>0, <1>1 DEF Requested
<1>4. RequestTrue(e)
  BY <1>3 DEF RequestTrue
<1>5. faults' \in Nat
  BY DEF RequestsInv, RequestsTyped
<1> QED BY <1>2, <1>3, <1>4, <1>5, OneRequest

LEMMA Replying ==
  ASSUME RequestsInv, Desk!Up, NEW r \in Ids, NEW m \in Asked, req[r].pc # "done",
         NEW x \in Desk!Answers, NEW did \in {"nothing", "ok", "path", "error", "string"},
         x = 200 => did = "ok", x = 206 => did = "path",
         Desk!Reply(r, m, x, did), UNCHANGED <<user, file, faults>>
  PROVE  RequestsInv'
<1>0. PICK o \in Requested : o = req[r] /\ o.answers = <<>>
  BY DEF RequestsInv, RequestsTyped, RequestTrue
<1>1. PICK e : e = [req[r] EXCEPT !.m = m, !.pc = "done", !.answers = Append(@, x), !.did = did]
  OBVIOUS
<1>2. Append(o.answers, x) = <<x>> /\ <<x>> \in Seq(Desk!Answers)
  <2>1. Append(<<>>, x) = <<x>> /\ <<x>> \in Seq(Desk!Answers)
    OBVIOUS
  <2> QED BY <1>0, <2>1
<1>3. req' = [req EXCEPT ![r] = e] /\ UNCHANGED station
  BY <1>1 DEF Desk!Reply
<1>4. e \in Requested /\ e.pc = "done" /\ e.m = m /\ e.answers = <<x>> /\ e.did = did
  <2>1. e = [o EXCEPT !.m = m, !.pc = "done", !.answers = Append(o.answers, x), !.did = did]
    BY <1>0, <1>1 DEF Requested
  <2>2. e = [o EXCEPT !.m = m, !.pc = "done", !.answers = <<x>>, !.did = did]
    BY <1>2, <2>1
  <2>3. <<x>> \in Seq(Desk!Answers)
    BY <1>2
  <2> QED BY <2>2, <2>3 DEF Requested
<1>5. RequestTrue(e)
  BY <1>4 DEF RequestTrue, TellsTrue
<1>6. faults' \in Nat
  BY DEF RequestsInv, RequestsTyped
<1> QED BY <1>3, <1>4, <1>5, <1>6, OneRequest

\* A message of the cloud.
LEMMA Handling ==
  ASSUME RequestsInv, Desk!Up, NEW r \in Ids, NEW m \in Asked, Desk!HandleMessage(r, m)
  PROVE  RequestsInv'
<1>0. m.via = "cloud" /\ req[r].pc # "done" /\ UNCHANGED <<user, file, faults>>
  BY DEF Desk!HandleMessage
<1>a. ASSUME NEW x \in Desk!Answers \ {200, 206}, NEW did \in {"nothing", "ok", "error"}, Desk!Answer(r, m, <<x>>, did) PROVE RequestsInv'
  <2>1. <<x>> \in Seq(Desk!Answers) /\ TellsTrue(m, <<x>>, did)
    BY DEF TellsTrue
  <2> QED BY <1>0, <1>a, <2>1, Answering
<1>b. ASSUME Desk!Answer(r, m, << 200 >>, "ok") PROVE RequestsInv'
  <2>1. <<200>> \in Seq(Desk!Answers) /\ TellsTrue(m, <<200>>, "ok")
    BY DEF TellsTrue, Desk!Answers
  <2> QED BY <1>0, <1>b, <2>1, Answering
<1>1. CASE Desk!Refused(m) # 200
  <2>1. Desk!Answer(r, m, <<Desk!Refused(m)>>, "nothing")
    BY <1>1 DEF Desk!HandleMessage
  <2>2. PICK x \in Desk!Answers \ {200, 206} : x = Desk!Refused(m)
    BY <1>1 DEF Desk!Refused, Desk!Answers
  <2> QED BY <1>a, <2>1, <2>2
<1>2. CASE Desk!Refused(m) = 200
  <2>0. Desk!CheckUser
    BY <1>2 DEF Desk!Refused
  <2>g. station.type = "winas" => station.fruitmix
    BY <2>0 DEF Desk!CheckUser
  <2>1. CASE Desk!Token(r, m)
    BY <1>b, <2>1 DEF Desk!Token
  <2>2. CASE Desk!Boot(r, m)
    <3>1. CASE Desk!Goes(r, m, "api", "station")
      BY <1>0, <3>1, Going
    <3>2. CASE Desk!Answer(r, m, <<200>>, "ok")
      BY <1>b, <3>2
    <3>3. CASE \E x \in {400, 403, 404}, did \in {"nothing", "error"} : Desk!Answer(r, m, <<x>>, did)
      BY <1>a, <3>3 DEF Desk!Answers
    <3>4. CASE \E ok \in BOOLEAN : Desk!Answer(r, m, <<IF ok THEN 200 ELSE 400>>, IF ok THEN "ok" ELSE "error")
      BY <3>2, <3>3, <3>4
    <3> QED BY <2>2, <3>1, <3>2, <3>3, <3>4 DEF Desk!Boot
  <2>3. CASE Desk!Device(r, m)
    <3>1. CASE Desk!Goes(r, m, "api", "station")
      BY <1>0, <3>1, Going
    <3>2. CASE Desk!Answer(r, m, <<200>>, "ok")
      BY <1>b, <3>2
    <3>3. CASE \E x \in {403, 404} : Desk!Answer(r, m, <<x>>, "nothing")
      BY <1>a, <3>3 DEF Desk!Answers
    <3> QED BY <2>3, <3>1, <3>2, <3>3 DEF Desk!Device
  <2>4. CASE Desk!Apis(r, m)
    <3>1. CASE Desk!Answer(r, m, <<403>>, "nothing")
      BY <1>a, <3>1 DEF Desk!Answers
    <3>2. CASE Desk!Goes(r, m, "resource", "user")
      BY <1>0, <2>g, <3>2, Going
    <3>3. CASE Desk!Goes(r, m, "api", "user")
      BY <1>0, <3>3, Going
    <3>4. CASE m.path = "tags noname" /\ Desk!Answer(r, m, <<403, 403>>, "error")
      <4>1. <<403, 403>> \in Seq(Desk!Answers)
        BY DEF Desk!Answers
      <4>2. TellsTrue(m, <<403, 403>>, "error")
        BY <1>0, <3>4 DEF TellsTrue
      <4> QED BY <1>0, <3>4, <4>1, <4>2, Answering
    <3> QED BY <2>4, <3>1, <3>2, <3>3, <3>4 DEF Desk!Apis
  <2> QED BY <1>2, <2>1, <2>2, <2>3, <2>4 DEF Desk!HandleMessage
<1> QED BY <1>1, <1>2

\* A request over HTTP.
LEMMA Requesting ==
  ASSUME RequestsInv, Desk!Up, NEW r \in Ids, NEW m \in Asked, Desk!Http(r, m)
  PROVE  RequestsInv'
<1>0. req[r].pc # "done" /\ UNCHANGED <<user, file, faults>>
  BY DEF Desk!Http
<1>1. ASSUME NEW x \in Desk!Answers \ {200, 206}, Desk!Reply(r, m, x, "nothing") PROVE RequestsInv'
  BY <1>0, <1>1, Replying
<1>2. CASE Desk!Stub(m) # 200
  <2>1. PICK x \in Desk!Answers \ {200, 206} : x = Desk!Stub(m)
    BY <1>2 DEF Desk!Stub, Desk!Answers
  <2> QED BY <1>1, <1>2, <2>1 DEF Desk!Http
<1>3. CASE Desk!Stub(m) = 200
  <2>1. ASSUME NEW who \in {"nobody", "user"}, NEW pc \in {"api", "auth"}, Desk!Goes(r, m, pc, who) PROVE RequestsInv'
    BY <1>0, <2>1, Going
  <2>2. CASE Desk!Api(r, m, "user")
    BY <1>1, <2>1, <2>2 DEF Desk!Api, Desk!Answers
  <2>3. CASE Desk!Reply(r, m, 401, "nothing")
    BY <1>1, <2>3 DEF Desk!Answers
  <2> QED BY <1>3, <2>1, <2>2, <2>3 DEF Desk!Http
<1> QED BY <1>2, <1>3

\* A step that changes the station only.
LEMMA StationOnly ==
  ASSUME RequestsInv, station' \in Stations, station'.type = station.type, UNCHANGED <<req>>, faults' \in Nat,
         user' \in {"ACTIVE", "INACTIVE"}, file' \in BOOLEAN,
         station'.unbound => station.type = "n2",
         station.type = "winas" /\ station.fruitmix => station'.fruitmix,
         Desk!Survives'
  PROVE  RequestsInv'
<1>1. RequestsTyped'
  BY DEF RequestsInv, RequestsTyped
<1>2. ASSUME NEW q \in Ids PROVE RequestTrue(req[q])'
  BY DEF RequestsInv, RequestTrue
<1> QED BY <1>1, <1>2 DEF RequestsInv

LEMMA Downs ==
  ASSUME RequestsInv, Desk!Up, UNCHANGED <<req, user, file>>, faults' \in Nat,
         NEW why \in {"address", "device", "resource", "fruitmix", "file", "string", "unbound"},
         station' = [station EXCEPT !.down = why],
         why = "address" => \E r \in Ids : req[r].m.via = "cloud" /\ req[r].m.addr = "none",
         why = "file" => ~file, why = "resource" => faults' > 0,
         why \in {"device", "fruitmix", "string", "unbound"} => station.type = "n2"
  PROVE  RequestsInv'
<1>1. station' \in Stations /\ station'.down = why /\ station'.type = station.type
      /\ station'.fruitmix = station.fruitmix /\ station'.unbound = station.unbound
  BY DEF RequestsInv, RequestsTyped, Stations
<1>2. Desk!Survives'
  BY <1>1 DEF Desk!Survives
<1> QED BY <1>1, <1>2, StationOnly DEF RequestsInv, RequestsTyped

LEMMA Fetching ==
  ASSUME RequestsInv, Desk!Up, NEW r \in Ids, Desk!Response(r) \/ Desk!ResourceFails(r)
  PROVE  RequestsInv'
<1>0. PICK e \in Requested : e = req[r] /\ e.pc = "resource" /\ e.m.via = "cloud" /\ (station.type = "winas" => station.fruitmix)
  BY DEF RequestsInv, RequestsTyped, RequestTrue, Desk!Response, Desk!ResourceFails
<1>m. e.m \in Asked /\ station \in Stations
  BY <1>0 DEF Requested, RequestsInv, RequestsTyped
<1>1. CASE Desk!Response(r)
  <2>0. UNCHANGED <<user, file, faults>> /\ faults \in Nat
    BY <1>1 DEF Desk!Response, RequestsInv, RequestsTyped
  <2>1. CASE Desk!Answer(r, e.m, <<403>>, "nothing")
    <3>1. <<403>> \in Seq(Desk!Answers) /\ TellsTrue(e.m, <<403>>, "nothing")
      BY DEF TellsTrue, Desk!Answers
    <3> QED BY <1>0, <1>m, <2>0, <2>1, <3>1, Answering
  <2>2. CASE Desk!Goes(r, e.m, "api", "user")
    BY <1>0, <1>m, <2>0, <2>2, Going
  <2>3. CASE ~station.fruitmix /\ station' = [station EXCEPT !.down = "fruitmix"] /\ UNCHANGED req
    <3>1. station.type = "n2"
      BY <1>0, <1>m, <2>3 DEF Stations
    <3> QED BY <2>0, <2>3, <3>1, Downs
  <2> QED BY <1>0, <1>1, <2>1, <2>2, <2>3 DEF Desk!Response
<1>2. CASE Desk!ResourceFails(r)
  <2>1. faults' = faults + 1 /\ faults' \in Nat /\ faults' > 0
    BY <1>2 DEF Desk!ResourceFails, RequestsInv, RequestsTyped
  <2> QED BY <1>2, <2>1, Downs DEF Desk!ResourceFails
<1> QED BY <1>1, <1>2

LEMMA Calling ==
  ASSUME RequestsInv, Desk!Up, NEW r \in Ids, Desk!CallsBack(r) \/ Desk!HttpCallsBack(r)
  PROVE  RequestsInv'
<1>0. PICK e \in Requested : e = req[r] /\ e.pc = "api" /\ e.answers = <<>> /\ e.m.via \in {"cloud", "http"}
  BY DEF RequestsInv, RequestsTyped, RequestTrue, Desk!CallsBack, Desk!HttpCallsBack
<1>m. e.m \in Asked /\ station \in Stations
  BY <1>0 DEF Requested, RequestsInv, RequestsTyped
<1>u. UNCHANGED <<user, file, faults>> /\ faults \in Nat
  BY DEF Desk!CallsBack, Desk!HttpCallsBack, RequestsInv, RequestsTyped
<1>w. ASSUME NEW f, f = [req[r] EXCEPT !.pc = "file", !.did = "path"], req' = [req EXCEPT ![r] = f], UNCHANGED station PROVE RequestsInv'
  <2>1. f \in Requested /\ f.pc = "file" /\ f.did = "path" /\ f.answers = <<>> /\ f.m \in Asked
    BY <1>0, <1>m, <1>w DEF Requested
  <2>2. RequestTrue(f)
    BY <2>1 DEF RequestTrue
  <2> QED BY <1>u, <1>w, <2>1, <2>2, OneRequest
<1>1. CASE Desk!CallsBack(r)
  <2>1. PICK did \in Desk!Outcomes(e.m) :
          CASE did = "path" -> req' = [req EXCEPT ![r] = [req[r] EXCEPT !.pc = "file", !.did = did]] /\ UNCHANGED station
            [] did = "string" /\ station.type = "n2" -> station' = [station EXCEPT !.down = "string"] /\ req' = [req EXCEPT ![r].did = did]
            [] OTHER -> Desk!Answer(r, e.m, <<Desk!Told(did)>>, did)
    BY <1>0, <1>1 DEF Desk!CallsBack
  <2>0. did \in {"ok", "error", "string", "path"}
    BY DEF Desk!Outcomes
  <2>2. CASE did = "path"
    <3>1. req' = [req EXCEPT ![r] = [req[r] EXCEPT !.pc = "file", !.did = "path"]] /\ UNCHANGED station
      BY <2>1, <2>2
    <3> QED BY <1>w, <3>1
  <2>3. CASE did = "string" /\ station.type = "n2"
    <3>1. station' = [station EXCEPT !.down = "string"] /\ req' = [req EXCEPT ![r].did = "string"]
      BY <2>1, <2>3
    <3>2. PICK f : f = req'[r]
      OBVIOUS
    <3>3. f = [e EXCEPT !.did = "string"]
      BY <1>0, <3>1, <3>2 DEF RequestsInv, RequestsTyped
    <3>4. f \in Requested /\ f.pc = "api" /\ f.answers = <<>> /\ f.m \in Asked
      BY <1>0, <1>m, <3>3 DEF Requested
    <3>5. station' \in Stations /\ station'.down = "string" /\ station'.type = station.type
          /\ station'.fruitmix = station.fruitmix /\ station'.unbound = station.unbound
      BY <1>m, <3>1 DEF Stations
    <3>6. RequestsTyped'
      BY <1>u, <3>1, <3>2, <3>4, <3>5 DEF RequestsInv, RequestsTyped
    <3>7. ASSUME NEW q \in Ids PROVE RequestTrue(req[q])'
      <4>1. CASE q = r
        BY <3>2, <3>4, <4>1 DEF RequestTrue
      <4>2. CASE q # r
        <5>1. req'[q] = req[q]
          BY <3>1, <4>2 DEF RequestsInv, RequestsTyped
        <5> QED BY <3>5, <5>1 DEF RequestsInv, RequestTrue
      <4> QED BY <4>1, <4>2
    <3>8. Desk!Survives'
      BY <2>3, <3>5 DEF Desk!Survives
    <3> QED BY <3>6, <3>7, <3>8 DEF RequestsInv
  <2>4. CASE did # "path" /\ ~(did = "string" /\ station.type = "n2")
    <3>1. Desk!Answer(r, e.m, <<Desk!Told(did)>>, did)
      BY <2>1, <2>4
    <3>2. PICK x \in {200, 403} : x = Desk!Told(did) /\ (x = 200 => did \in {"ok", "string"})
      BY <2>0, <2>4 DEF Desk!Told
    <3>7. <<x>> \in Seq(Desk!Answers)
      BY DEF Desk!Answers
    <3>3. PICK a \in Seq(Desk!Answers) : a = <<x>>
      BY <3>7
    <3>4. e.m.via = "cloud" /\ req[r].pc # "done" /\ did \in {"nothing", "ok", "path", "error", "string"}
      BY <1>0, <1>1, <2>0 DEF Desk!CallsBack
    <3>5. Desk!Answer(r, e.m, a, did)
      BY <3>1, <3>2, <3>3
    <3>6. TellsTrue(e.m, a, did)
      BY <3>2, <3>3 DEF TellsTrue, Desk!Answers
    <3> QED BY <1>m, <1>u, <3>4, <3>5, <3>6, Answering
  <2> QED BY <2>2, <2>3, <2>4
<1>2. CASE Desk!HttpCallsBack(r)
  <2>1. PICK did \in Desk!Outcomes(e.m) :
          IF did = "path" THEN req' = [req EXCEPT ![r] = [req[r] EXCEPT !.pc = "file", !.did = did]] /\ UNCHANGED station
          ELSE Desk!Reply(r, e.m, IF did = "ok" THEN 200 ELSE 500, did)
    BY <1>0, <1>2 DEF Desk!HttpCallsBack
  <2>0. did \in {"ok", "error", "string", "path"}
    BY DEF Desk!Outcomes
  <2>2. CASE did = "path"
    <3>1. req' = [req EXCEPT ![r] = [req[r] EXCEPT !.pc = "file", !.did = "path"]] /\ UNCHANGED station
      BY <2>1, <2>2
    <3> QED BY <1>w, <3>1
  <2>3. CASE did # "path"
    <3>1. PICK x \in {200, 500} : x = (IF did = "ok" THEN 200 ELSE 500)
      OBVIOUS
    <3>2. Desk!Reply(r, e.m, x, did) /\ x \in Desk!Answers /\ x # 206 /\ (x = 200 => did = "ok")
      BY <2>1, <2>3, <3>1 DEF Desk!Answers
    <3> QED BY <1>0, <1>m, <1>u, <2>0, <3>2, Replying
  <2> QED BY <2>2, <2>3
<1> QED BY <1>1, <1>2

LEMMA Sending ==
  ASSUME RequestsInv, Desk!Up, NEW r \in Ids, Desk!PostResource(r) \/ Desk!SendFile(r) \/ Desk!Compared(r)
  PROVE  RequestsInv'
<1>0. PICK e \in Requested : e = req[r] /\ e.pc \in {"file", "auth"} /\ e.answers = <<>>
  BY DEF RequestsInv, RequestsTyped, RequestTrue, Desk!PostResource, Desk!SendFile, Desk!Compared
<1>u. UNCHANGED <<user, file, faults>> /\ faults \in Nat /\ file \in BOOLEAN
  BY DEF Desk!PostResource, Desk!SendFile, Desk!Compared, RequestsInv, RequestsTyped
<1>1. CASE Desk!PostResource(r)
  <2>m. e.m \in Asked /\ e.m.via = "cloud" /\ req[r].pc # "done"
    BY <1>0, <1>1 DEF Requested, Desk!PostResource
  <2>1. CASE file /\ Desk!CanAnswer(e.m)
    <3>1. Desk!Answer(r, e.m, <<206>>, "path")
      BY <1>0, <1>1, <2>1 DEF Desk!PostResource
    <3>2. <<206>> \in Seq(Desk!Answers) /\ TellsTrue(e.m, <<206>>, "path")
      BY DEF TellsTrue, Desk!Answers
    <3> QED BY <1>u, <2>m, <3>1, <3>2, Answering
  <2>2. CASE ~(file /\ Desk!CanAnswer(e.m))
    <3>1. PICK why : why = (IF file THEN Desk!Unanswerable(e.m) ELSE "file")
      OBVIOUS
    <3>2. station' = [station EXCEPT !.down = why] /\ UNCHANGED req
      BY <1>0, <1>1, <2>2, <3>1 DEF Desk!PostResource
    <3>3. /\ why \in {"address", "device", "file"} /\ (why = "file" => ~file)
          /\ why = "address" => e.m.addr = "none"
          /\ why = "device" => station.type = "n2"
      BY <1>u, <2>2, <3>1 DEF Desk!Unanswerable, Desk!CanAnswer
    <3>4. why = "address" => \E q \in Ids : req[q].m.via = "cloud" /\ req[q].m.addr = "none"
      BY <1>0, <2>m, <3>3
    <3> QED BY <1>u, <3>2, <3>3, <3>4, Downs
  <2> QED BY <2>1, <2>2
<1>2. CASE Desk!SendFile(r)
  <2>m. e.m \in Asked /\ req[r].pc # "done"
    BY <1>0, <1>2 DEF Requested, Desk!SendFile
  <2>1. PICK x \in {206, 404} : Desk!Reply(r, e.m, x, "path")
    BY <1>0, <1>2 DEF Desk!SendFile
  <2>2. x \in Desk!Answers /\ x # 200
    BY DEF Desk!Answers
  <2> QED BY <1>u, <2>m, <2>1, <2>2, Replying
<1>3. CASE Desk!Compared(r)
  <2>m. e.m \in Asked /\ req[r].pc # "done"
    BY <1>0, <1>3 DEF Desk!Compared, RequestsInv, RequestTrue
  <2>1. ASSUME NEW x \in {401, 415, 500}, Desk!Reply(r, e.m, x, "nothing") PROVE RequestsInv'
    <3>1. x \in Desk!Answers /\ x # 200 /\ x # 206
      BY DEF Desk!Answers
    <3> QED BY <1>u, <2>m, <2>1, <3>1, Replying
  <2>2. CASE Desk!Api(r, e.m, "user")
    <3>1. CASE Desk!Goes(r, e.m, "api", "user")
      BY <1>u, <2>m, <3>1, Going
    <3> QED BY <2>1, <2>2, <3>1 DEF Desk!Api
  <2> QED BY <1>0, <1>3, <2>1, <2>2 DEF Desk!Compared
<1> QED BY <1>1, <1>2, <1>3

\* What else is said to the process, and what others do.
LEMMA Others ==
  ASSUME RequestsInv, Desk!Up,
         Desk!Device1 \/ Desk!FruitmixUp \/ Desk!UserUpdate \/ Desk!Unbind \/ Desk!UnbindExits \/ Desk!FileGone
  PROVE  RequestsInv'
<1>0. station \in Stations /\ faults \in Nat /\ user \in {"ACTIVE", "INACTIVE"} /\ file \in BOOLEAN
      /\ station.down = "no" /\ (station.unbound => station.type = "n2")
  BY DEF RequestsInv, RequestsTyped, Desk!Up
<1>1. ASSUME station' \in Stations, station'.down = "no" PROVE Desk!Survives'
  BY <1>1 DEF Desk!Survives
<1>2. CASE Desk!Device1
  <2>1. station' \in Stations /\ station'.down = "no" /\ station'.type = station.type
        /\ station'.unbound = station.unbound /\ station'.fruitmix = station.fruitmix
    BY <1>0, <1>2 DEF Desk!Device1, Stations
  <2> QED BY <1>0, <1>1, <1>2, <2>1, StationOnly DEF Desk!Device1
<1>3. CASE Desk!FruitmixUp
  <2>1. station' \in Stations /\ station'.down = "no" /\ station'.type = station.type
        /\ station'.unbound = station.unbound /\ station'.fruitmix
    BY <1>0, <1>3 DEF Desk!FruitmixUp, Stations
  <2> QED BY <1>0, <1>1, <1>3, <2>1, StationOnly DEF Desk!FruitmixUp
<1>4. CASE Desk!UserUpdate
  BY <1>0, <1>1, <1>4, StationOnly DEF Desk!UserUpdate
<1>5. CASE Desk!Unbind
  <2>1. station' \in Stations /\ station'.down = "no" /\ station'.type = station.type /\ station.type = "n2"
    BY <1>0, <1>5 DEF Desk!Unbind, Stations
  <2>2. faults' \in Nat
    BY <1>0, <1>5 DEF Desk!Unbind
  <2> QED BY <1>0, <1>1, <1>5, <2>1, <2>2, StationOnly DEF Desk!Unbind
<1>6. CASE Desk!UnbindExits
  BY <1>0, <1>6, Downs DEF Desk!UnbindExits
<1>7. CASE Desk!FileGone
  BY <1>0, <1>1, <1>7, StationOnly DEF Desk!FileGone
<1> QED BY <1>2, <1>3, <1>4, <1>5, <1>6, <1>7

LEMMA RequestsInit == Desk!Init => RequestsInv
<1> SUFFICES ASSUME Desk!Init PROVE RequestsInv
  OBVIOUS
<1>1. PICK type \in {"winas", "n2"}, fruitmix \in BOOLEAN, samba \in BOOLEAN :
        station = [type |-> type, fruitmix |-> fruitmix, device |-> FALSE, samba |-> samba, unbound |-> FALSE, down |-> "no"]
  BY DEF Desk!Init
<1>2. station \in Stations /\ station.down = "no" /\ ~station.unbound
  BY <1>1 DEF Stations
<1>3. user = "ACTIVE" /\ file = TRUE /\ req = [r \in Ids |-> Desk!Idle] /\ faults = 0
  BY DEF Desk!Init
<1>4. Desk!Idle \in Requested /\ RequestTrue(Desk!Idle)
  <2>1. <<>> \in Seq(Desk!Answers)
    OBVIOUS
  <2> QED BY <2>1 DEF Requested, RequestTrue, Desk!Idle
<1>5. RequestsTyped
  BY <1>2, <1>3, <1>4 DEF RequestsTyped
<1>6. Desk!Survives
  BY <1>2 DEF Desk!Survives
<1> QED BY <1>3, <1>4, <1>5, <1>6 DEF RequestsInv

LEMMA RequestsNext == RequestsInv /\ [Desk!Next]_(Desk!vars) => RequestsInv'
<1> SUFFICES ASSUME RequestsInv, [Desk!Next]_(Desk!vars) PROVE RequestsInv'
  OBVIOUS
<1>1. CASE UNCHANGED Desk!vars
  BY <1>1 DEF Desk!vars, RequestsInv, RequestsTyped, RequestTrue, Desk!Survives
<1>2. ASSUME Desk!Up, NEW r \in Ids, NEW m \in Asked, Desk!HandleMessage(r, m) \/ Desk!Http(r, m) PROVE RequestsInv'
  BY <1>2, Handling, Requesting
<1>3. ASSUME NEW r \in Ids, Desk!Proceed(r) PROVE RequestsInv'
  BY <1>3, Fetching, Calling, Sending DEF Desk!Proceed
<1>4. ASSUME NEW r \in Ids, Desk!Up, Desk!ResourceFails(r) PROVE RequestsInv'
  BY <1>4, Fetching
<1>5. CASE Desk!Up /\ (Desk!Device1 \/ Desk!FruitmixUp \/ Desk!UserUpdate \/ Desk!Unbind \/ Desk!UnbindExits \/ Desk!FileGone)
  BY <1>5, Others
<1> QED BY <1>1, <1>2, <1>3, <1>4, <1>5 DEF Desk!Next

\* What a request is told is what the API did for it, and it is told once (App.js,
\* Pipe.js, Transform.js): for every set of requests and messages.
THEOREM RequestsTold == Desk!Spec => []Desk!TrueAnswers
<1>1. ASSUME RequestsInv, NEW r \in Ids PROVE OneTold(req[r].m, req[r].answers, req[r].did)
  <2>1. PICK a, m, did : a = req[r].answers /\ m = req[r].m /\ did = req[r].did /\ (a = <<>> \/ TellsTrue(m, a, did))
    BY <1>1 DEF RequestsInv, RequestTrue
  <2>2. CASE a = <<>>
    BY <2>1, <2>2 DEF OneTold
  <2>3. CASE \E x \in Desk!Answers : a = <<x>> /\ (x = 200 => did \in {"ok", "string"}) /\ (x = 206 => did = "path")
    <3>1. Len(a) = 1 /\ DOMAIN a = {1} /\ (a[1] = 200 => did \in {"ok", "string"}) /\ (a[1] = 206 => did = "path")
      BY <2>3
    <3> QED BY <2>1, <3>1 DEF OneTold
  <2>4. CASE a = <<403, 403>> /\ m.via = "cloud" /\ m.path = "tags noname"
    <3>0. <<403, 403>> \in Seq({403}) /\ Len(<<403, 403>>) = 2
      OBVIOUS
    <3>1. a \in Seq({403}) /\ Len(a) = 2
      BY <2>4, <3>0
    <3>2. \A i \in DOMAIN a : a[i] = 403
      BY <3>1
    <3>4. \A i \in DOMAIN a : a[i] # 200 /\ a[i] # 206
      BY <3>2
    <3>6. Len(a) <= 2
      BY <3>1
    <3>5. (IF m.via = "cloud" /\ m.path = "tags noname" THEN 2 ELSE 1) = 2
      BY <2>4
    <3>7. Len(a) <= (IF m.via = "cloud" /\ m.path = "tags noname" THEN 2 ELSE 1)
      BY <3>6, <3>5
    <3>3. OneTold(m, a, did)
      <4>1. ASSUME NEW i \in DOMAIN a PROVE (a[i] = 200 => did \in {"ok", "string"}) /\ (a[i] = 206 => did = "path")
        BY <3>4
      <4> QED BY <3>7, <4>1 DEF OneTold
    <3> QED BY <2>1, <3>3
  <2> QED BY <2>1, <2>2, <2>3, <2>4 DEF TellsTrue
<1>2. RequestsInv => Desk!TrueAnswers
  <2> SUFFICES ASSUME RequestsInv PROVE Desk!TrueAnswers
    OBVIOUS
  <2>1. ASSUME NEW r \in Ids PROVE OneTold(req[r].m, req[r].answers, req[r].did)
    BY <1>1
  <2> QED BY <2>1 DEF Desk!TrueAnswers, OneTold
<1> QED BY <1>2, RequestsInit, RequestsNext, PTL DEF Desk!Spec

\* The process ends only for one of the reasons named, each in the code (reqCommand,
\* getResource, postResource, formatError, unbind).
THEOREM RequestsSurvive == Desk!Spec => []Desk!Survives
<1>1. RequestsInv => Desk!Survives
  BY DEF RequestsInv
<1> QED BY <1>1, RequestsInit, RequestsNext, PTL DEF Desk!Spec

\* Who calls an API the moment he asks is active then (checkUser, Auth.js).
LEMMA ActiveNow ==
  ASSUME RequestsInv, [Desk!Next]_(Desk!vars)
  PROVE  Desk!ForActive
<1> SUFFICES ASSUME NEW q \in Ids, req[q].pc = "idle", req'[q].pc = "api", req'[q].who = "user" PROVE user = "ACTIVE"
  BY DEF Desk!ForActive
<1>0. req \in [Ids -> Requested] /\ req'[q] # req[q]
  BY DEF RequestsInv, RequestsTyped
<1>c. \A r \in Ids, m \in Asked : Desk!HandleMessage(r, m) => Desk!CheckUser \/ Desk!Answer(r, m, <<Desk!Refused(m)>>, "nothing")
  BY DEF Desk!HandleMessage, Desk!Refused
<1>a. ASSUME NEW r \in Ids, NEW m, NEW a, NEW did, Desk!Answer(r, m, a, did) PROVE FALSE
  <2>1. PICK e : e = req'[r]
    OBVIOUS
  <2>2. e.pc = "done" /\ (q # r => req'[q] = req[q])
    BY <1>0, <1>a, <2>1 DEF Desk!Answer, Requested
  <2> QED BY <1>0, <2>1, <2>2
<1>r. ASSUME NEW r \in Ids, NEW m, NEW x, NEW did, Desk!Reply(r, m, x, did) PROVE FALSE
  <2>1. PICK e : e = req'[r]
    OBVIOUS
  <2>2. e.pc = "done" /\ (q # r => req'[q] = req[q])
    BY <1>0, <1>r, <2>1 DEF Desk!Reply, Requested
  <2> QED BY <1>0, <2>1, <2>2
<1>1. ASSUME NEW r \in Ids, NEW m \in Asked, Desk!HandleMessage(r, m) PROVE user = "ACTIVE"
  <2>1. Desk!CheckUser
    BY <1>1, <1>a, <1>c
  <2> QED BY <2>1 DEF Desk!CheckUser, Desk!GetUser
<1>2. ASSUME NEW r \in Ids, NEW m \in Asked, Desk!Http(r, m) PROVE user = "ACTIVE"
  <2>1. CASE Desk!Goes(r, m, "api", "nobody") \/ Desk!Goes(r, m, "auth", "user")
    <3>1. PICK e : e = req'[r]
      OBVIOUS
    <3>2. (e.pc = "auth" \/ e.who = "nobody") /\ (q # r => req'[q] = req[q])
      BY <1>0, <2>1, <3>1 DEF Desk!Goes, Requested
    <3> QED BY <1>0, <3>1, <3>2
  <2>2. CASE Desk!Authenticated(m)
    BY <2>2 DEF Desk!Authenticated
  <2> QED BY <1>2, <1>r, <2>1, <2>2 DEF Desk!Http
<1>3. ASSUME NEW r \in Ids, Desk!Proceed(r) \/ Desk!ResourceFails(r) PROVE FALSE
  <2>1. req[r].pc # "idle"
    BY <1>3 DEF Desk!Proceed, Desk!Response, Desk!CallsBack, Desk!PostResource, Desk!Compared, Desk!HttpCallsBack,
                Desk!SendFile, Desk!ResourceFails
  <2>2. q # r
    BY <2>1
  <2>3. req'[q] = req[q]
    BY <1>0, <1>3, <2>2 DEF Desk!Proceed, Desk!Response, Desk!CallsBack, Desk!PostResource, Desk!Compared, Desk!HttpCallsBack,
                Desk!SendFile, Desk!ResourceFails, Desk!Answer, Desk!Reply, Desk!Goes, Desk!Api
  <2> QED BY <1>0, <2>3
<1>4. CASE UNCHANGED req
  BY <1>0, <1>4
<1> QED BY <1>1, <1>2, <1>3, <1>4 DEF Desk!Next, Desk!vars, Desk!Device1, Desk!FruitmixUp, Desk!UserUpdate, Desk!Unbind,
                                 Desk!UnbindExits, Desk!FileGone

\* The same of every step.
THEOREM RequestsForActive == Desk!Spec => [][Desk!ForActive]_(Desk!vars)
<1> QED BY RequestsInit, RequestsNext, ActiveNow, PTL DEF Desk!Spec

-----------------------------------------------------------------------------
(* Upload forms.                                                           *)

Uploads == INSTANCE UploadForm

FormStates == {"Heading", "Parsing", "Piping", "Pending", "Executing", "Failed", "Succeeded"}
FormJobs == [state : FormStates, pred : Nat, heard : BOOLEAN]
Parties == [job : Seq(FormJobs), ticks : Seq(Nat), count : Int, ended : BOOLEAN, finished : BOOLEAN, error : BOOLEAN]
\* The jobs are those of the ticks, and each waits for one before it.
IsParty(P) ==
  /\ P \in Parties
  /\ \A k \in DOMAIN P.ticks : P.ticks[k] \in 1 .. Len(P.job)
  /\ \A i \in 1 .. Len(P.job) : P.job[i].pred < i
Unheard(P) == {i \in 1 .. Len(P.job) : ~P.job[i].heard}
OrderedIn(P) ==
  \A i \in 1 .. Len(P.job) : P.job[i].state \in {"Executing", "Succeeded"} /\ P.job[i].pred # 0 =>
                               P.job[P.job[i].pred].state = "Succeeded"
\* A job that was heard of has ended, and one that failed is known.
HeardOf(P) ==
  \A i \in 1 .. Len(P.job) : P.job[i].heard => /\ P.job[i].state \in {"Failed", "Succeeded"}
                                               /\ P.job[i].state = "Failed" => P.error
\* The count of Party is that of the jobs that were not heard of.
CountsJobs(P, more) == ~more => /\ P.count = Cardinality(Unheard(P))
                                /\ P.finished => Unheard(P) = {}
Right(P, more) == IsParty(P) /\ OrderedIn(P) /\ HeardOf(P) /\ CountsJobs(P, more)
UploadInv ==
  /\ Right(party, twice) /\ twice \in BOOLEAN
  /\ dicer \in [at : {"gap", "header", "body"}, end : {"none", "finish", "stopped", "lost"}]
  /\ dicer.at # "gap" => Len(party.job) > 0
  /\ dicer.end = "none" => ~party.ended /\ ~party.finished /\ ~party.error
  /\ reply \in {"none", "dir", "form", "read", "ok", "error"}
  /\ reply \in {"read", "ok"} => party.finished
  /\ reply = "ok" => ~party.error

-----------------------------------------------------------------------------
(* What the jobs of a party become.                                        *)

\* Q is P but for the states of jobs and the events.
Alike(P, Q) ==
  /\ IsParty(Q) /\ Len(Q.job) = Len(P.job)
  /\ Q.count = P.count /\ Q.ended = P.ended /\ Q.finished = P.finished /\ Q.error = P.error
  /\ \A i \in 1 .. Len(P.job) : Q.job[i].pred = P.job[i].pred /\ Q.job[i].heard = P.job[i].heard

LEMMA SetStateOf ==
  ASSUME NEW P, IsParty(P), NEW i \in 1 .. Len(P.job), NEW s \in FormStates, NEW Q, Q = Uploads!SetState(P, i, s)
  PROVE  /\ Alike(P, Q)
         /\ \A j \in 1 .. Len(P.job) : Q.job[j].state = IF j = i THEN s ELSE P.job[j].state
<1>1. PICK n : n = Len(P.job) /\ n \in Nat /\ P.job \in Seq(FormJobs) /\ P.ticks \in Seq(Nat) /\ P.job \in [1 .. n -> FormJobs]
  BY DEF IsParty, Parties
<1>2. Q = [P EXCEPT !.job = [P.job EXCEPT ![i] = [P.job[i] EXCEPT !.state = s]], !.ticks = Append(P.ticks, i)]
  BY <1>1 DEF Uploads!SetState, IsParty, Parties
<1>3. [P.job[i] EXCEPT !.state = s] \in FormJobs
  BY <1>1 DEF FormJobs
<1>4. PICK b : b = [P.job EXCEPT ![i] = [P.job[i] EXCEPT !.state = s]]
  OBVIOUS
<1>5. b \in Seq(FormJobs) /\ Len(b) = n
  BY <1>1, <1>3, <1>4
<1>6. PICK t : t = Append(P.ticks, i)
  OBVIOUS
<1>7. t \in Seq(Nat) /\ \A k \in DOMAIN t : t[k] \in 1 .. n
  BY <1>1, <1>6 DEF IsParty
<1>8. /\ Q \in Parties /\ Q.job = b /\ Q.ticks = t
      /\ Q.count = P.count /\ Q.ended = P.ended /\ Q.finished = P.finished /\ Q.error = P.error
  BY <1>2, <1>4, <1>5, <1>6, <1>7 DEF Parties, IsParty
<1>9. ASSUME NEW j \in 1 .. n
      PROVE  /\ b[j].pred = P.job[j].pred /\ b[j].heard = P.job[j].heard
             /\ b[j].state = IF j = i THEN s ELSE P.job[j].state
  BY <1>1, <1>4 DEF FormJobs
<1> QED BY <1>1, <1>5, <1>7, <1>8, <1>9 DEF Alike, IsParty

\* Executing, or at once failed for want of an API.
LEMMA ExecuteOf ==
  ASSUME NEW P, IsParty(P), NEW i \in 1 .. Len(P.job), NEW Q, Q = Uploads!Execute(P, i)
  PROVE  /\ Alike(P, Q) /\ Q.job[i].state \in {"Executing", "Failed"}
         /\ \A j \in 1 .. Len(P.job) : j # i => Q.job[j].state = P.job[j].state
<1>1. CASE form[i].op = "dup"
  <2>1. PICK M : M = Uploads!SetState(P, i, "Failed")
    OBVIOUS
  <2>2. /\ Alike(P, M) /\ \A j \in 1 .. Len(P.job) : M.job[j].state = IF j = i THEN "Failed" ELSE P.job[j].state
    BY <2>1, SetStateOf DEF FormStates
  <2>3. Q = Uploads!SetState(M, i, "Failed") /\ IsParty(M) /\ Len(M.job) = Len(P.job)
    BY <1>1, <2>1, <2>2 DEF Uploads!Execute, Alike
  <2>4. /\ Alike(M, Q) /\ \A j \in 1 .. Len(M.job) : Q.job[j].state = IF j = i THEN "Failed" ELSE M.job[j].state
    BY <2>3, SetStateOf DEF FormStates
  <2> QED BY <2>2, <2>3, <2>4 DEF Alike
<1>2. CASE form[i].op # "dup"
  BY <1>2, SetStateOf DEF Uploads!Execute, FormStates
<1> QED BY <1>1, <1>2

\* What comes of a job that was not at work.
Became(P, Q, to, i) ==
  \A j \in 1 .. Len(P.job) :
    \/ Q.job[j].state = P.job[j].state
    \/ /\ P.job[j].state \notin {"Executing", "Failed", "Succeeded"}
       /\ \/ Q.job[j].state = "Failed"
          \/ to = "succeeded" /\ P.job[j].pred = i /\ Q.job[j].state = "Executing"
LEMMA ReactsOf ==
  ASSUME NEW P, IsParty(P), NEW to, NEW i, NEW M, Alike(P, M), Became(P, M, to, i), NEW k \in 1 .. Len(P.job),
         NEW Q, Q = Uploads!Reacts(M, k, to, i)
  PROVE  Alike(P, Q) /\ Became(P, Q, to, i)
<1>0. IsParty(M) /\ k \in 1 .. Len(M.job) /\ Len(M.job) = Len(P.job)
  BY DEF Alike
<1>1. CASE M.job[k].state \notin {"Pending", "Heading", "Parsing", "Piping"}
  BY <1>1 DEF Uploads!Reacts, Uploads!Waits
<1>2. CASE \/ to = "failed" /\ Uploads!Waits(M, k, i)
           \/ to = "destroy" /\ M.job[k].state \in {"Heading", "Parsing", "Piping"}
  <2>1. Q = Uploads!SetState(M, k, "Failed") /\ P.job[k].state = M.job[k].state
    BY <1>2 DEF Uploads!Reacts, Uploads!Waits, Became
  <2>2. Alike(M, Q) /\ \A j \in 1 .. Len(M.job) : Q.job[j].state = IF j = k THEN "Failed" ELSE M.job[j].state
    BY <1>0, <2>1, SetStateOf DEF FormStates
  <2>3. P.job[k].state \notin {"Executing", "Failed", "Succeeded"}
    BY <1>2, <2>1 DEF Uploads!Waits
  <2> QED BY <1>0, <2>2, <2>3 DEF Alike, Became
<1>3. CASE to = "succeeded" /\ Uploads!Waits(M, k, i)
  <2>1. Q = Uploads!Execute(M, k) /\ P.job[k].state = "Pending" /\ P.job[k].pred = i
    BY <1>0, <1>3 DEF Uploads!Reacts, Uploads!Waits, Became, Alike
  <2>2. /\ Alike(M, Q) /\ Q.job[k].state \in {"Executing", "Failed"}
        /\ \A j \in 1 .. Len(M.job) : j # k => Q.job[j].state = M.job[j].state
    BY <1>0, <2>1, ExecuteOf
  <2> QED BY <1>0, <1>3, <2>1, <2>2 DEF Alike, Became
<1>4. CASE /\ ~(to = "failed" /\ Uploads!Waits(M, k, i)) /\ ~(to = "succeeded" /\ Uploads!Waits(M, k, i))
           /\ ~(to = "destroy" /\ M.job[k].state \in {"Heading", "Parsing", "Piping"})
  <2>1. Q = M
    BY <1>4 DEF Uploads!Reacts
  <2> QED BY <2>1
<1> QED BY <1>1, <1>2, <1>3, <1>4

\* this.jobs.forEach(): the least job that would break what each of them keeps.
LEMMA ForEachOf ==
  ASSUME NEW P, IsParty(P), NEW to, NEW i, NEW Q, Q = Uploads!ForEach(P, to, i)
  PROVE  Alike(P, Q) /\ Became(P, Q, to, i)
<1>0. PICK n : n = Len(P.job) /\ n \in Nat
  BY DEF IsParty, Parties
<1> DEFINE Course(f, k) == f = [j \in 0 .. k |-> IF j = 0 THEN P ELSE Uploads!Reacts(f[j - 1], j, to, i)]
<1>1. \E f : Course(f, 0)
  <2>1. Course([j \in 0 .. 0 |-> P], 0)
    OBVIOUS
  <2> QED BY <2>1
<1>2. ASSUME NEW k \in Nat, NEW f, Course(f, k) PROVE \E g : Course(g, k + 1)
  <2> DEFINE g == [j \in 0 .. k + 1 |-> IF j <= k THEN f[j] ELSE Uploads!Reacts(f[k], k + 1, to, i)]
  <2>1. ASSUME NEW j \in 0 .. k + 1
        PROVE  g[j] = IF j = 0 THEN P ELSE Uploads!Reacts(g[j - 1], j, to, i)
    <3>1. CASE j <= k
      <4>1. g[j] = f[j] /\ j \in 0 .. k /\ (j # 0 => g[j - 1] = f[j - 1])
        BY <3>1
      <4>2. f[j] = IF j = 0 THEN P ELSE Uploads!Reacts(f[j - 1], j, to, i)
        BY <1>2, <4>1
      <4> QED BY <4>1, <4>2
    <3>2. CASE ~(j <= k)
      <4>1. j = k + 1 /\ j # 0 /\ j - 1 = k /\ g[k] = f[k]
        BY <3>2
      <4> QED BY <3>2, <4>1
    <3> QED BY <3>1, <3>2
  <2>2. g = [j \in 0 .. k + 1 |-> g[j]]
    OBVIOUS
  <2> HIDE DEF g
  <2>3. Course(g, k + 1)
    BY <2>1, <2>2
  <2> QED BY <2>3
<1> HIDE DEF Course
<1>3. \A k \in Nat : \E f : Course(f, k)
  <2> DEFINE K == {k \in Nat : ~\E f : Course(f, k)}
  <2> SUFFICES ASSUME K # {} PROVE FALSE
    OBVIOUS
  <2>1. PICK m \in K : \A l \in K : m <= l
    BY Lowest
  <2>2. m # 0 /\ m \in Nat
    BY <1>1
  <2>3. m - 1 \in Nat /\ m - 1 \notin K /\ m = (m - 1) + 1
    BY <2>1, <2>2
  <2>4. PICK f : Course(f, m - 1)
    BY <2>3
  <2>5. \E g : Course(g, m)
    BY <1>2, <2>3, <2>4
  <2> QED BY <2>5
<1>4. PICK T : Course(T, n) /\ Q = T[n]
  <2> DEFINE T == CHOOSE T : Course(T, n)
  <2>1. Course(T, n)
    BY <1>0, <1>3
  <2>2. Q = T[n]
    BY <1>0 DEF Uploads!ForEach, Course
  <2> QED BY <2>1, <2>2
<1> DEFINE Sound(M) == Alike(P, M) /\ Became(P, M, to, i)
<1>5. \A k \in 0 .. n : Sound(T[k])
  <2> DEFINE K == {k \in 0 .. n : ~Sound(T[k])}
  <2> SUFFICES ASSUME K # {} PROVE FALSE
    OBVIOUS
  <2>0. K \in SUBSET Nat
    OBVIOUS
  <2>1. PICK m \in K : \A l \in K : m <= l
    BY <2>0, Lowest
  <2>2. T[0] = P /\ \A j \in 1 .. n : T[j] = Uploads!Reacts(T[j - 1], j, to, i)
    <3>1. T = [j \in 0 .. n |-> IF j = 0 THEN P ELSE Uploads!Reacts(T[j - 1], j, to, i)]
      BY <1>4 DEF Course
    <3>2. \A j \in 0 .. n : T[j] = IF j = 0 THEN P ELSE Uploads!Reacts(T[j - 1], j, to, i)
      BY <3>1, Zenon
    <3>3. 0 \in 0 .. n /\ \A j \in 1 .. n : j \in 0 .. n /\ j # 0
      BY <1>0
    <3> QED BY <3>2, <3>3, Zenon
  <2>3. Sound(P)
    BY DEF Alike, Became
  <2>4. m \in 1 .. n /\ m - 1 \in 0 .. n /\ m - 1 \notin K
    BY <1>0, <2>1, <2>2, <2>3
  <2>5. Sound(T[m - 1]) /\ T[m] = Uploads!Reacts(T[m - 1], m, to, i)
    BY <2>2, <2>4
  <2>6. Sound(T[m])
    BY <1>0, <2>4, <2>5, ReactsOf
  <2> QED BY <2>1, <2>6
<1> QED BY <1>0, <1>4, <1>5

-----------------------------------------------------------------------------
(* The parts of the invariant, one party after the other.                  *)

\* Jobs go on from where they had not ended, in the order of the form.
Moves(P, Q) ==
  /\ IsParty(Q) /\ Len(Q.job) = Len(P.job)
  /\ \A j \in 1 .. Len(P.job) :
       /\ Q.job[j].pred = P.job[j].pred /\ Q.job[j].heard = P.job[j].heard
       /\ \/ Q.job[j].state = P.job[j].state
          \/ /\ P.job[j].state \notin {"Failed", "Succeeded"}
             /\ Q.job[j].state \in {"Executing", "Succeeded"} /\ P.job[j].pred # 0 =>
                  P.job[P.job[j].pred].state = "Succeeded"
SameCount(P, Q) == Q.count = P.count /\ Q.finished = P.finished /\ Q.error = P.error /\ Q.ended = P.ended

LEMMA MovesOrdered ==
  ASSUME NEW P, IsParty(P), OrderedIn(P), NEW Q, Moves(P, Q)
  PROVE  OrderedIn(Q) /\ Unheard(Q) = Unheard(P)
<1>1. PICK n : n = Len(P.job) /\ n \in Nat /\ n = Len(Q.job)
  BY DEF IsParty, Parties, Moves
<1>2. ASSUME NEW i \in 1 .. n, Q.job[i].state \in {"Executing", "Succeeded"}, Q.job[i].pred # 0
      PROVE  Q.job[Q.job[i].pred].state = "Succeeded"
  <2>1. PICK p : p = P.job[i].pred /\ p = Q.job[i].pred /\ p \in 1 .. n
    <3>0. P.job \in Seq(FormJobs)
      BY DEF IsParty, Parties
    <3>a. P.job[i] \in FormJobs
      <4>1. PICK b : b = P.job /\ b \in Seq(FormJobs) /\ Len(b) = n
        BY <1>1, <3>0
      <4>2. b[i] \in FormJobs
        BY <1>1, <4>1
      <4> QED BY <4>1, <4>2
    <3>b. P.job[i].pred < i
      BY <1>1 DEF IsParty
    <3>1. P.job[i] \in FormJobs /\ P.job[i].pred < i
      BY <3>a, <3>b
    <3>2. P.job[i].pred = Q.job[i].pred
      BY <1>1 DEF Moves
    <3> QED BY <1>1, <1>2, <3>1, <3>2 DEF FormJobs
  <2>2. P.job[p].state = "Succeeded"
    BY <1>1, <1>2, <2>1 DEF Moves, OrderedIn
  <2> QED BY <1>1, <2>1, <2>2 DEF Moves
<1>3. Unheard(Q) = Unheard(P)
  BY <1>1 DEF Unheard, Moves
<1> QED BY <1>1, <1>2, <1>3 DEF OrderedIn

\* What became of what became.
LEMMA MovesOn ==
  ASSUME NEW P, IsParty(P), NEW A, Moves(P, A), NEW B, Moves(A, B), \A j \in 1 .. Len(P.job) : B.job[j].state \in {A.job[j].state, "Failed"}
  PROVE  Moves(P, B)
  BY DEF Moves

LEMMA MovesRight ==
  ASSUME NEW P, NEW more, Right(P, more), NEW Q, Moves(P, Q), SameCount(P, Q)
  PROVE  Right(Q, more)
<1>1. OrderedIn(Q) /\ Unheard(Q) = Unheard(P)
  BY MovesOrdered DEF Right
<1>2. HeardOf(Q)
  BY DEF Right, HeardOf, Moves, SameCount
<1>3. CountsJobs(Q, more)
  BY <1>1 DEF Right, CountsJobs, SameCount
<1>4. IsParty(Q)
  BY DEF Moves
<1> QED BY <1>1, <1>2, <1>3, <1>4 DEF Right

\* The state of one job.
LEMMA SetMoves ==
  ASSUME NEW P, IsParty(P), NEW i \in 1 .. Len(P.job), P.job[i].state \notin {"Failed", "Succeeded"},
         NEW s \in FormStates,
         s \in {"Executing", "Succeeded"} /\ P.job[i].pred # 0 => P.job[P.job[i].pred].state = "Succeeded",
         NEW Q, Q = Uploads!SetState(P, i, s)
  PROVE  Moves(P, Q) /\ SameCount(P, Q)
<1>1. Alike(P, Q) /\ \A j \in 1 .. Len(P.job) : Q.job[j].state = IF j = i THEN s ELSE P.job[j].state
  BY SetStateOf
<1> QED BY <1>1 DEF Alike, Moves, SameCount

LEMMA FollowMoves ==
  ASSUME NEW P, IsParty(P), NEW i \in 1 .. Len(P.job), P.job[i].state \in {"Parsing", "Piping"},
         NEW Q, Q = Uploads!Follow(P, i)
  PROVE  Moves(P, Q) /\ SameCount(P, Q)
<1>1. CASE P.job[i].pred = 0 \/ P.job[P.job[i].pred].state = "Succeeded"
  <2>1. Q = Uploads!Execute(P, i)
    BY <1>1 DEF Uploads!Follow, Uploads!Finished
  <2>2. /\ Alike(P, Q) /\ Q.job[i].state \in {"Executing", "Failed"}
        /\ \A j \in 1 .. Len(P.job) : j # i => Q.job[j].state = P.job[j].state
    BY <2>1, ExecuteOf
  <2> QED BY <1>1, <2>2 DEF Alike, Moves, SameCount
<1>2. CASE P.job[i].pred # 0 /\ P.job[P.job[i].pred].state = "Failed"
  <2>1. Q = Uploads!SetState(P, i, "Failed")
    BY <1>2 DEF Uploads!Follow, Uploads!Finished
  <2> QED BY <2>1, SetMoves DEF FormStates
<1>3. CASE P.job[i].pred # 0 /\ P.job[P.job[i].pred].state \notin {"Failed", "Succeeded"}
  <2>1. Q = Uploads!SetState(P, i, "Pending")
    BY <1>3 DEF Uploads!Follow, Uploads!Finished
  <2> QED BY <2>1, SetMoves DEF FormStates
<1> QED BY <1>1, <1>2, <1>3

\* A cascade after the end of a job i that it is told of.
LEMMA ForEachMoves ==
  ASSUME NEW P, IsParty(P), NEW to, NEW i, to = "succeeded" => i # 0 /\ P.job[i].state = "Succeeded",
         NEW Q, Q = Uploads!ForEach(P, to, i)
  PROVE  Moves(P, Q) /\ SameCount(P, Q)
<1>1. Alike(P, Q) /\ Became(P, Q, to, i)
  BY ForEachOf
<1> QED BY <1>1 DEF Alike, Became, Moves, SameCount

\* Party.end(): the party is finished if nobody is counted.
LEMMA EndOf ==
  ASSUME NEW P, IsParty(P), NEW Q, Q = Uploads!End(P)
  PROVE  /\ IsParty(Q) /\ Q.job = P.job /\ Q.count = P.count /\ Q.error = P.error
         /\ P.finished => Q.finished
         /\ Q.finished => P.finished \/ Q.count = 0
<1>1. CASE P.finished \/ P.ended
  BY <1>1 DEF Uploads!End
<1>2. CASE ~P.finished /\ ~P.ended
  <2>1. Q = [P EXCEPT !.ended = TRUE, !.finished = (P.count = 0)]
    BY <1>2 DEF Uploads!End
  <2>2. P.count \in Int /\ P \in Parties
    BY DEF IsParty, Parties
  <2>3. /\ Q \in Parties /\ Q.job = P.job /\ Q.ticks = P.ticks /\ Q.count = P.count /\ Q.error = P.error
        /\ Q.finished <=> P.count = 0
    BY <2>1, <2>2 DEF Parties
  <2> QED BY <1>2, <2>3 DEF IsParty
<1> QED BY <1>1, <1>2

LEMMA UnheardFinite ==
  ASSUME NEW P, IsParty(P)
  PROVE  IsFiniteSet(Unheard(P))
<1>1. Len(P.job) \in Nat
  BY DEF IsParty, Parties
<1>2. IsFiniteSet(1 .. Len(P.job))
  BY <1>1, FS_Interval
<1> QED BY <1>2, FS_Subset DEF Unheard

LEMMA EndRight ==
  ASSUME NEW P, NEW more, Right(P, more), NEW Q, Q = Uploads!End(P)
  PROVE  Right(Q, more)
<1>1. /\ IsParty(Q) /\ Q.job = P.job /\ Q.count = P.count /\ Q.error = P.error
      /\ Q.finished => P.finished \/ Q.count = 0
  BY EndOf DEF Right
<1>2. OrderedIn(Q) /\ HeardOf(Q) /\ Unheard(Q) = Unheard(P)
  BY <1>1 DEF Right, OrderedIn, HeardOf, Unheard
<1>3. IsFiniteSet(Unheard(P))
  BY UnheardFinite DEF Right
<1>4. Cardinality(Unheard(P)) = 0 => Unheard(P) = {}
  BY <1>3, FS_EmptySet
<1> QED BY <1>1, <1>2, <1>4 DEF Right, CountsJobs

-----------------------------------------------------------------------------
(* The steps.                                                              *)

LEMMA UploadBegins == Uploads!Init => UploadInv
<1> SUFFICES ASSUME Uploads!Init PROVE UploadInv
  OBVIOUS
<1>1. /\ party.job = <<>> /\ party.ticks = <<>> /\ party.count = 0 /\ party \in Parties /\ twice = FALSE
      /\ party.ended = FALSE /\ party.finished = FALSE /\ party.error = FALSE
  BY DEF Uploads!Init, Parties
<1>2. Len(party.job) = 0 /\ Unheard(party) = {}
  BY <1>1 DEF Unheard
<1>3. Cardinality({}) = 0
  BY FS_EmptySet
<1>4. Right(party, twice)
  BY <1>1, <1>2, <1>3 DEF Right, IsParty, OrderedIn, HeardOf, CountsJobs
<1> QED BY <1>1, <1>4 DEF Uploads!Init, UploadInv

\* What holds as long as the parser reads.
LEMMA WhileReading ==
  ASSUME UploadInv, Uploads!Reading
  PROVE  /\ ~party.finished /\ ~party.error /\ ~party.ended /\ reply = "form" /\ dicer.end = "none"
         /\ Right(party, twice) /\ IsParty(party) /\ party \in Parties /\ Len(party.job) \in Nat
         /\ dicer.at # "gap" => Len(party.job) \in 1 .. Len(party.job)
  BY DEF UploadInv, Uploads!Reading, Right, IsParty, Parties

\* A step of the jobs alone.
LEMMA JobsStep ==
  ASSUME UploadInv, NEW d, d \in [at : {"gap", "header", "body"}, end : {"none", "finish", "stopped", "lost"}],
         dicer' = d, d.end = "none" => dicer.end = "none", d.at # "gap" => Len(party'.job) > 0,
         Right(party', twice), SameCount(party, party'), UNCHANGED <<reply, twice>>
  PROVE  UploadInv'
  BY DEF UploadInv, SameCount

LEMMA PartStep == UploadInv /\ Uploads!Part => UploadInv'
<1> SUFFICES ASSUME UploadInv, Uploads!Part PROVE UploadInv'
  OBVIOUS
<1>0. /\ ~party.finished /\ ~party.error /\ ~party.ended /\ reply = "form" /\ dicer.end = "none"
      /\ Right(party, twice) /\ IsParty(party) /\ party \in Parties /\ Len(party.job) \in Nat
  BY WhileReading DEF Uploads!Part
<1>1. PICK n : n = Len(party.job) /\ n \in Nat
  BY <1>0
<1>2. PICK e : e = [state |-> "Heading", pred |-> 0, heard |-> FALSE]
  OBVIOUS
<1>3. e \in FormJobs
  BY <1>2 DEF FormJobs, FormStates
<1>4. party' = [party EXCEPT !.job = Append(party.job, e), !.ticks = Append(party.ticks, n + 1), !.count = party.count + 1]
  BY <1>0, <1>1, <1>2 DEF Uploads!Part, Parties
<1>5. party.job \in Seq(FormJobs) /\ party.ticks \in Seq(Nat) /\ party.count \in Int
  BY <1>0 DEF Parties
<1>6. PICK b : b = Append(party.job, e)
  OBVIOUS
<1>7. b \in Seq(FormJobs) /\ Len(b) = n + 1 /\ b[n + 1] = e /\ \A i \in 1 .. n : b[i] = party.job[i]
  BY <1>1, <1>3, <1>5, <1>6
<1>8. PICK t : t = Append(party.ticks, n + 1)
  OBVIOUS
<1>9. t \in Seq(Nat) /\ \A k \in DOMAIN t : t[k] \in 1 .. n + 1
  BY <1>0, <1>1, <1>5, <1>8 DEF IsParty
<1>10. /\ party' \in Parties /\ party'.job = b /\ party'.ticks = t /\ party'.count = party.count + 1
       /\ party'.finished = party.finished /\ party'.error = party.error /\ party'.ended = party.ended
  <2>1. party' = [party EXCEPT !.job = b, !.ticks = t, !.count = party.count + 1]
    BY <1>4, <1>6, <1>8
  <2>2. party.count + 1 \in Int
    BY <1>5
  <2> QED BY <1>0, <1>7, <1>9, <2>1, <2>2 DEF Parties
<1>11. IsParty(party')
  <2>1. ASSUME NEW i \in 1 .. n + 1 PROVE b[i].pred < i
    <3>1. CASE i = n + 1
      BY <1>2, <1>7, <3>1
    <3>2. CASE i \in 1 .. n
      BY <1>0, <1>1, <1>7, <3>2 DEF IsParty
    <3> QED BY <1>1, <3>1, <3>2
  <2> QED BY <1>7, <1>9, <1>10, <2>1 DEF IsParty
<1>12. OrderedIn(party')
  <2>1. ASSUME NEW i \in 1 .. n + 1, b[i].state \in {"Executing", "Succeeded"}, b[i].pred # 0
        PROVE  b[b[i].pred].state = "Succeeded"
    <3>1. i \in 1 .. n /\ b[i] = party.job[i]
      BY <1>1, <1>2, <1>7, <2>1
    <3>2. party.job[i] \in FormJobs /\ party.job[i].pred < i
      BY <1>0, <1>1, <1>5, <3>1 DEF IsParty
    <3>3. party.job[i].pred \in 1 .. n
      BY <1>1, <2>1, <3>1, <3>2 DEF FormJobs
    <3>4. party.job[party.job[i].pred].state = "Succeeded"
      BY <1>0, <1>1, <2>1, <3>1 DEF Right, OrderedIn
    <3> QED BY <1>7, <3>1, <3>3, <3>4
  <2> QED BY <1>7, <1>10, <2>1 DEF OrderedIn
<1>13. HeardOf(party')
  <2>1. ASSUME NEW i \in 1 .. n + 1, b[i].heard
        PROVE  b[i].state \in {"Failed", "Succeeded"} /\ (b[i].state = "Failed" => party.error)
    <3>1. i \in 1 .. n /\ b[i] = party.job[i]
      BY <1>1, <1>2, <1>7, <2>1
    <3> QED BY <1>0, <1>1, <2>1, <3>1 DEF Right, HeardOf
  <2> QED BY <1>7, <1>10, <2>1 DEF HeardOf
<1>14. CountsJobs(party', twice)
  <2>1. Unheard(party') = Unheard(party) \cup {n + 1} /\ n + 1 \notin Unheard(party)
    <3>1. ASSUME NEW i PROVE i \in Unheard(party') <=> i \in Unheard(party) \/ i = n + 1
      <4>1. CASE i = n + 1
        BY <1>1, <1>2, <1>7, <1>10, <4>1 DEF Unheard
      <4>2. CASE i # n + 1
        <5>1. i \in 1 .. n + 1 <=> i \in 1 .. n
          BY <1>1, <4>2
        <5> QED BY <1>1, <1>7, <1>10, <4>2, <5>1 DEF Unheard
      <4> QED BY <4>1, <4>2
    <3> QED BY <1>1, <3>1 DEF Unheard
  <2>2. IsFiniteSet(Unheard(party))
    BY <1>0, UnheardFinite
  <2>3. Cardinality(Unheard(party')) = Cardinality(Unheard(party)) + 1
    BY <2>1, <2>2, FS_AddElement
  <2> QED BY <1>0, <1>10, <2>3 DEF Right, CountsJobs
<1>15. /\ dicer' = [dicer EXCEPT !.at = "header"] /\ UNCHANGED <<reply, twice>>
       /\ dicer \in [at : {"gap", "header", "body"}, end : {"none", "finish", "stopped", "lost"}]
  BY DEF Uploads!Part, UploadInv
<1>16. dicer'.at = "header" /\ dicer'.end = "none" /\ dicer' \in [at : {"gap", "header", "body"}, end : {"none", "finish", "stopped", "lost"}]
  BY <1>0, <1>15
<1>17. Right(party', twice')
  BY <1>11, <1>12, <1>13, <1>14, <1>15 DEF Right
<1>18. Len(party'.job) > 0
  BY <1>1, <1>7, <1>10
<1> QED BY <1>0, <1>10, <1>15, <1>16, <1>17, <1>18 DEF UploadInv

\* The last of the jobs that a job could follow.
LEMMA PredecessorIs ==
  ASSUME NEW i \in Nat, i > 0
  PROVE  Uploads!Predecessor(i) \in Nat /\ Uploads!Predecessor(i) < i
<1> DEFINE B == {j \in 1 .. i - 1 : form[j].op # "bad" /\ form[j].to = form[i].from}
<1>1. CASE B = {}
  BY <1>1 DEF Uploads!Predecessor
<1>2. CASE B # {}
  <2> DEFINE K == {n \in Nat : \A j \in B : j <= n}
  <2>1. i \in K /\ K \in SUBSET Nat
    OBVIOUS
  <2>2. PICK m \in K : \A l \in K : m <= l
    BY <2>1, Lowest
  <2>3. m \in B
    <3> SUFFICES ASSUME m \notin B PROVE FALSE
      OBVIOUS
    <3>1. \A j \in B : j <= m - 1 /\ j \in Nat /\ j >= 1
      BY <2>2
    <3>2. m - 1 \in Nat
      BY <1>2, <2>2, <3>1
    <3>3. m - 1 \in K
      BY <3>1, <3>2
    <3> QED BY <2>2, <3>3
  <2>4. \E j \in B : \A k \in B : k <= j
    BY <2>2, <2>3
  <2>5. Uploads!Predecessor(i) = CHOOSE j \in B : \A k \in B : k <= j
    BY <1>2 DEF Uploads!Predecessor
  <2>6. Uploads!Predecessor(i) \in B
    BY <2>4, <2>5
  <2> QED BY <2>6
<1> QED BY <1>1, <1>2

Dicers == [at : {"gap", "header", "body"}, end : {"none", "finish", "stopped", "lost"}]
LEMMA HeaderStep == UploadInv /\ Uploads!Header => UploadInv'
<1> SUFFICES ASSUME UploadInv, Uploads!Header PROVE UploadInv'
  OBVIOUS
<1>0. /\ Right(party, twice) /\ IsParty(party) /\ dicer.at = "header" /\ dicer.end = "none" /\ dicer \in Dicers
      /\ UNCHANGED <<reply, twice>> /\ dicer' = [dicer EXCEPT !.at = "body"]
  BY WhileReading DEF Uploads!Header, UploadInv, Dicers
<1>1. PICK i : i = Len(party.job) /\ i \in 1 .. Len(party.job) /\ i \in Nat /\ i > 0
  <2>1. Len(party.job) \in Nat /\ Len(party.job) > 0
    BY <1>0 DEF UploadInv, IsParty, Parties
  <2> QED BY <2>1
<1>2. PICK P : P = [party EXCEPT !.job[i].pred = Uploads!Predecessor(i)]
  OBVIOUS
<1>3. Uploads!State(i) = party.job[i].state
  BY DEF Uploads!State
<1>4. CASE Uploads!State(i) # "Heading"
  <2>1. party' = party
    BY <1>1, <1>4 DEF Uploads!Header
  <2> QED BY <1>0, <1>1, <2>1 DEF UploadInv, Dicers
<1>5. CASE Uploads!State(i) = "Heading" /\ Uploads!Invalid(form[i])
  <2>1. party' = Uploads!SetState(party, i, "Failed")
    BY <1>1, <1>5 DEF Uploads!Header
  <2>2. Moves(party, party') /\ SameCount(party, party')
    BY <1>0, <1>1, <1>3, <1>5, <2>1, SetMoves DEF FormStates
  <2>3. Right(party', twice) /\ Len(party'.job) = i
    BY <1>0, <1>1, <2>2, MovesRight DEF Moves
  <2> QED BY <1>0, <1>1, <2>2, <2>3 DEF UploadInv, SameCount, Dicers
<1>6. CASE Uploads!State(i) = "Heading" /\ ~Uploads!Invalid(form[i])
  <2>1. PICK s \in {"Piping", "Parsing"} : party' = Uploads!SetState(P, i, s)
    BY <1>1, <1>2, <1>6 DEF Uploads!Header
  <2>2. PICK e : e = [party.job[i] EXCEPT !.pred = Uploads!Predecessor(i)]
    OBVIOUS
  <2>3. party.job \in Seq(FormJobs) /\ party.job[i] \in FormJobs
    BY <1>0, <1>1 DEF IsParty, Parties
  <2>4. /\ e \in FormJobs /\ e.state = "Heading" /\ e.heard = party.job[i].heard /\ e.pred < i
    BY <1>1, <1>3, <1>6, <2>2, <2>3, PredecessorIs DEF FormJobs
  <2>5. PICK b : b = [party.job EXCEPT ![i] = e]
    OBVIOUS
  <2>6. /\ b \in Seq(FormJobs) /\ Len(b) = i /\ b[i] = e /\ \A j \in 1 .. i : j # i => b[j] = party.job[j]
    BY <1>1, <2>3, <2>4, <2>5
  <2>7. P = [party EXCEPT !.job = b] /\ party \in Parties
    BY <1>0, <1>2, <2>2, <2>5 DEF IsParty, Parties
  <2>8. P \in Parties /\ P.job = b /\ P.ticks = party.ticks /\ SameCount(party, P)
    BY <2>6, <2>7 DEF Parties, SameCount
  <2>9. IsParty(P)
    BY <1>0, <1>1, <2>4, <2>6, <2>8 DEF IsParty
  <2>10. OrderedIn(P)
    <3>1. ASSUME NEW j \in 1 .. i, b[j].state \in {"Executing", "Succeeded"}, b[j].pred # 0
          PROVE  b[b[j].pred].state = "Succeeded"
      <4>1. j # i /\ b[j] = party.job[j]
        BY <2>4, <2>6, <3>1
      <4>2. party.job[j] \in FormJobs /\ party.job[j].pred < j
        BY <1>0, <1>1, <2>3 DEF IsParty
      <4>3. b[j].pred \in 1 .. i /\ b[j].pred # i
        BY <1>1, <3>1, <4>1, <4>2 DEF FormJobs
      <4>4. party.job[party.job[j].pred].state = "Succeeded"
        BY <1>0, <1>1, <3>1, <4>1 DEF Right, OrderedIn
      <4> QED BY <2>6, <4>1, <4>3, <4>4
    <3> QED BY <1>1, <2>6, <2>8, <3>1 DEF OrderedIn
  <2>11. HeardOf(P)
    <3>1. ASSUME NEW j \in 1 .. i, b[j].heard
          PROVE  b[j].state \in {"Failed", "Succeeded"} /\ (b[j].state = "Failed" => party.error)
      <4>1. j # i
        BY <1>0, <1>1, <1>3, <1>6, <2>4, <2>6, <3>1 DEF Right, HeardOf
      <4> QED BY <1>0, <1>1, <2>6, <3>1, <4>1 DEF Right, HeardOf
    <3> QED BY <1>1, <2>6, <2>8, <3>1 DEF HeardOf, SameCount
  <2>12. Unheard(P) = Unheard(party)
    BY <1>1, <2>4, <2>6, <2>8 DEF Unheard
  <2>13. Right(P, twice)
    BY <1>0, <2>8, <2>9, <2>10, <2>11, <2>12 DEF Right, CountsJobs, SameCount
  <2>14. Len(P.job) = i /\ P.job[i].state = "Heading"
    BY <2>4, <2>6, <2>8
  <2>15. Moves(P, party') /\ SameCount(P, party')
    BY <1>1, <2>1, <2>9, <2>14, SetMoves DEF FormStates
  <2>16. Right(party', twice) /\ Len(party'.job) = i /\ SameCount(party, party')
    BY <2>8, <2>13, <2>14, <2>15, MovesRight DEF Moves, SameCount
  <2> QED BY <1>0, <1>1, <2>16 DEF UploadInv, SameCount, Dicers
<1> QED BY <1>4, <1>5, <1>6

\* The end of a part, whole or cut short.
LEMMA ParsedOf ==
  ASSUME NEW P, NEW more, Right(P, more), NEW i \in 1 .. Len(P.job), NEW cut \in BOOLEAN, NEW Q, Q = Uploads!Parsed(P, i, cut)
  PROVE  Right(Q, more) /\ SameCount(P, Q) /\ Len(Q.job) = Len(P.job)
<1>1. CASE P.job[i].state # "Parsing"
  BY <1>1 DEF Uploads!Parsed, SameCount
<1>2. CASE P.job[i].state = "Parsing"
  <2>1. Moves(P, Q) /\ SameCount(P, Q)
    <3>1. CASE cut \/ Uploads!BadBody(form[i])
      <4>1. Q = Uploads!SetState(P, i, "Failed")
        BY <1>2, <3>1 DEF Uploads!Parsed
      <4> QED BY <1>2, <4>1, SetMoves DEF FormStates, Right
    <3>2. CASE ~(cut \/ Uploads!BadBody(form[i]))
      <4>1. Q = Uploads!Follow(P, i)
        BY <1>2, <3>2 DEF Uploads!Parsed
      <4> QED BY <1>2, <4>1, FollowMoves DEF Right
    <3> QED BY <3>1, <3>2
  <2> QED BY <2>1, MovesRight DEF Moves
<1> QED BY <1>1, <1>2

LEMMA PartEndStep == UploadInv /\ Uploads!PartEnd => UploadInv'
<1> SUFFICES ASSUME UploadInv, Uploads!PartEnd PROVE UploadInv'
  OBVIOUS
<1>1. /\ Right(party, twice) /\ dicer.end = "none" /\ dicer \in Dicers /\ UNCHANGED <<reply, twice>>
      /\ Len(party.job) \in 1 .. Len(party.job) /\ dicer' = [dicer EXCEPT !.at = "gap"]
      /\ party' = Uploads!Parsed(party, Len(party.job), FALSE)
  BY WhileReading DEF Uploads!PartEnd, UploadInv, Dicers
<1>2. Right(party', twice) /\ SameCount(party, party')
  BY <1>1, ParsedOf
<1> QED BY <1>1, <1>2 DEF UploadInv, SameCount, Dicers

\* The end of the form, by its last boundary, too early, or with the connection.
LEMMA EndsStep ==
  ASSUME UploadInv, Uploads!Reading, dicer' \in Dicers, dicer'.end # "none", dicer'.at # "gap" => dicer.at # "gap",
         NEW P, P = Uploads!End(party), Right(party', twice), SameCount(P, party'), Len(party'.job) = Len(P.job),
         reply' = IF party'.finished THEN "read" ELSE reply, UNCHANGED twice
  PROVE  UploadInv'
<1>1. reply = "form" /\ Right(party, twice)
  BY WhileReading
<1>2. P.job = party.job
  BY <1>1, EndOf DEF Right
<1> QED BY <1>1, <1>2 DEF UploadInv, Dicers

LEMMA FormEndsStep == UploadInv /\ (Uploads!DicerFinish \/ Uploads!FormError \/ Uploads!Truncated) => UploadInv'
<1> SUFFICES ASSUME UploadInv, Uploads!DicerFinish \/ Uploads!FormError \/ Uploads!Truncated PROVE UploadInv'
  OBVIOUS
<1>0. /\ Right(party, twice) /\ dicer \in Dicers /\ Uploads!Reading /\ dicer.end = "none"
      /\ dicer.at # "gap" => Len(party.job) \in 1 .. Len(party.job)
  BY WhileReading DEF Uploads!DicerFinish, Uploads!FormError, Uploads!Truncated, UploadInv, Dicers
<1>1. PICK P : P = Uploads!End(party)
  OBVIOUS
<1>2. Right(P, twice) /\ SameCount(P, P) /\ P.job = party.job /\ Right(P, twice)
  BY <1>0, <1>1, EndRight, EndOf DEF SameCount, Right
<1>3. CASE Uploads!DicerFinish \/ Uploads!FormError
  <2>1. /\ dicer' \in Dicers /\ dicer'.end # "none" /\ dicer'.at = dicer.at /\ party' = P /\ UNCHANGED twice
        /\ reply' = IF party'.finished THEN "read" ELSE reply
    BY <1>0, <1>1, <1>3 DEF Uploads!DicerFinish, Uploads!FormError, Uploads!Stop, Dicers
  <2> QED BY <1>0, <1>1, <1>2, <2>1, EndsStep
<1>4. CASE Uploads!Truncated
  <2>1. /\ dicer' \in Dicers /\ dicer'.end # "none" /\ dicer'.at = "gap" /\ UNCHANGED twice
        /\ reply' = IF party'.finished THEN "read" ELSE reply
    BY <1>0, <1>4 DEF Uploads!Truncated, Dicers
  <2>2. Right(party', twice) /\ SameCount(P, party') /\ Len(party'.job) = Len(P.job)
    <3>1. PICK i : i = Len(party.job)
      OBVIOUS
    <3>2. CASE dicer.at = "header" /\ Uploads!State(i) = "Heading"
      <4>1. party' = Uploads!SetState(P, i, "Failed") /\ i \in 1 .. Len(P.job) /\ P.job[i].state = "Heading"
        BY <1>0, <1>1, <1>2, <1>4, <3>1, <3>2 DEF Uploads!Truncated, Uploads!State
      <4>2. Moves(P, party') /\ SameCount(P, party')
        BY <1>2, <4>1, SetMoves DEF FormStates, Right
      <4> QED BY <1>2, <4>2, MovesRight DEF Moves
    <3>3. CASE dicer.at = "body"
      <4>1. party' = Uploads!Parsed(P, i, TRUE) /\ i \in 1 .. Len(P.job)
        BY <1>0, <1>1, <1>2, <1>4, <3>1, <3>3 DEF Uploads!Truncated
      <4> QED BY <1>2, <4>1, ParsedOf
    <3>4. CASE ~(dicer.at = "header" /\ Uploads!State(i) = "Heading") /\ dicer.at # "body"
      <4>1. party' = P
        BY <1>1, <1>4, <3>1, <3>4 DEF Uploads!Truncated
      <4> QED BY <1>2, <4>1
    <3> QED BY <3>2, <3>3, <3>4
  <2> QED BY <1>0, <1>1, <2>1, <2>2, EndsStep
<1> QED BY <1>3, <1>4

\* A file is whole or not; an API answers.
LEMMA WorkStep ==
  ASSUME UploadInv, NEW i \in Uploads!Jobs, NEW ok \in BOOLEAN, Uploads!Piped(i, ok) \/ Uploads!Answered(i, ok)
  PROVE  UploadInv'
<1>0. /\ Right(party, twice) /\ IsParty(party) /\ i \in 1 .. Len(party.job) /\ Uploads!State(i) = party.job[i].state
      /\ UNCHANGED <<form, dicer, reply, twice>>
  BY DEF UploadInv, Right, Uploads!Jobs, Uploads!State, Uploads!Piped, Uploads!Answered
<1>1. Moves(party, party') /\ SameCount(party, party')
  <2>1. CASE Uploads!Piped(i, ok)
    <3>1. party.job[i].state = "Piping" /\ party' = IF ok THEN Uploads!Follow(party, i) ELSE Uploads!SetState(party, i, "Failed")
      BY <1>0, <2>1 DEF Uploads!Piped
    <3>2. CASE ok
      <4>1. party' = Uploads!Follow(party, i)
        BY <3>1, <3>2
      <4> QED BY <1>0, <3>1, <4>1, FollowMoves
    <3>3. CASE ~ok
      <4>1. party' = Uploads!SetState(party, i, "Failed")
        BY <3>1, <3>3
      <4> QED BY <1>0, <3>1, <4>1, SetMoves DEF FormStates
    <3> QED BY <3>2, <3>3
  <2>2. CASE Uploads!Answered(i, ok)
    <3>1. PICK s \in {"Succeeded", "Failed"} : party' = Uploads!SetState(party, i, s)
      BY <2>2 DEF Uploads!Answered
    <3>2. party.job[i].state = "Executing"
      BY <1>0, <2>2 DEF Uploads!Answered
    <3>3. party.job[i].pred # 0 => party.job[party.job[i].pred].state = "Succeeded"
      BY <1>0, <3>2 DEF Right, OrderedIn
    <3> QED BY <1>0, <3>1, <3>2, <3>3, SetMoves DEF FormStates
  <2> QED BY <2>1, <2>2
<1>2. Right(party', twice) /\ Len(party'.job) = Len(party.job)
  BY <1>0, <1>1, MovesRight DEF Moves
<1> QED BY <1>0, <1>1, <1>2 DEF UploadInv, SameCount

\* The party hears that a job has ended: what the others become, and who is counted.
LEMMA HeardMoves ==
  ASSUME NEW P, IsParty(P), OrderedIn(P), ~P.finished, NEW i \in 1 .. Len(P.job), P.job[i].state \in {"Failed", "Succeeded"},
         NEW H, H = Uploads!Heard(P, i)
  PROVE  /\ Moves(P, H) /\ H.count = P.count - 1
         /\ P.job[i].state = "Failed" => H.error
         /\ P.error => H.error
         /\ H.finished => H.count = 0
         /\ H.finished => P.ended \/ (H.error /\ ~P.error)
         /\ P.ended => H.ended
         /\ ~P.ended /\ H.ended => H.error /\ ~P.error
<1>0. P \in Parties /\ P.count \in Int /\ P.error \in BOOLEAN /\ i \in Nat /\ i # 0
  BY DEF IsParty, Parties
<1>1. PICK Q : Q = [P EXCEPT !.count = P.count - 1]
  OBVIOUS
<1>2. /\ Q \in Parties /\ Q.job = P.job /\ Q.ticks = P.ticks /\ Q.count = P.count - 1
      /\ Q.finished = P.finished /\ Q.ended = P.ended /\ Q.error = P.error
  BY <1>0, <1>1 DEF Parties
<1>3. IsParty(Q) /\ Moves(P, Q)
  BY <1>2 DEF IsParty, Moves
<1>4. PICK failed \in BOOLEAN : failed <=> P.job[i].state = "Failed"
  OBVIOUS
<1>5. H = CASE Q.count = 0 /\ P.ended -> [Q EXCEPT !.finished = TRUE, !.error = Q.error \/ failed]
            [] ~(Q.count = 0 /\ P.ended) /\ failed /\ ~P.error -> Uploads!FirstFailure(Q)
            [] ~(Q.count = 0 /\ P.ended) /\ failed /\ P.error -> Uploads!OnJobFailed(Q, i)
            [] ~(Q.count = 0 /\ P.ended) /\ ~failed -> Uploads!OnJobSucceeded(Q, i)
  BY <1>1, <1>4 DEF Uploads!Heard
<1>6. CASE Q.count = 0 /\ P.ended
  <2>1. H = [Q EXCEPT !.finished = TRUE, !.error = Q.error \/ failed]
    BY <1>5, <1>6
  <2>2. /\ H \in Parties /\ H.job = P.job /\ H.ticks = P.ticks /\ H.count = Q.count /\ H.finished
        /\ H.error = (Q.error \/ failed) /\ H.ended = Q.ended
    BY <1>2, <2>1 DEF Parties
  <2>3. Moves(P, H)
    BY <1>3, <2>2 DEF IsParty, Moves
  <2> QED BY <1>2, <1>4, <1>6, <2>2, <2>3
<1>7. CASE ~(Q.count = 0 /\ P.ended) /\ failed /\ ~P.error
  <2>1. PICK A : A = Uploads!OnJobFailed(Q, 0)
    OBVIOUS
  <2>2. Moves(Q, A) /\ SameCount(Q, A) /\ IsParty(A)
    BY <1>3, <2>1, ForEachMoves DEF Uploads!OnJobFailed, Moves
  <2>3. PICK B : B = Uploads!DestroyJobs(A)
    OBVIOUS
  <2>4. Moves(A, B) /\ SameCount(A, B) /\ IsParty(B) /\ B \in Parties
    <3>1. B = Uploads!ForEach(A, "destroy", 0)
      BY <2>3 DEF Uploads!DestroyJobs
    <3>2. Moves(A, B) /\ SameCount(A, B)
      BY <2>2, <3>1, ForEachMoves
    <3> QED BY <3>2 DEF Moves, IsParty
  <2>5. \A j \in 1 .. Len(Q.job) : B.job[j].state \in {A.job[j].state, "Failed"}
    BY <2>2, <2>3, ForEachOf DEF Uploads!DestroyJobs, Became, Moves
  <2>6. PICK C : C = [B EXCEPT !.error = TRUE]
    OBVIOUS
  <2>7. /\ C \in Parties /\ C.job = B.job /\ C.ticks = B.ticks /\ C.count = B.count /\ C.finished = B.finished
        /\ C.ended = B.ended /\ C.error
    BY <2>4, <2>6 DEF Parties
  <2>8. IsParty(C)
    BY <2>4, <2>7 DEF IsParty
  <2>9. H = Uploads!End(C)
    BY <1>5, <1>7, <2>1, <2>3, <2>6 DEF Uploads!FirstFailure
  <2>10. /\ IsParty(H) /\ H.job = C.job /\ H.count = C.count /\ H.error = C.error
         /\ H.finished => C.finished \/ H.count = 0
    BY <2>8, <2>9, EndOf
  <2>11. /\ Moves(Q, H) /\ H.count = Q.count /\ C.ended = P.ended /\ ~C.finished
    <3>1. Moves(Q, B)
      BY <1>3, <2>2, <2>4, <2>5, MovesOn
    <3> QED BY <1>2, <2>2, <2>4, <2>7, <2>10, <3>1 DEF Moves, SameCount
  <2>12. Moves(P, H)
    BY <1>2, <2>11 DEF Moves
  <2>13. P.ended => H.ended
    BY <2>9, <2>11 DEF Uploads!End
  <2> QED BY <1>2, <1>7, <2>7, <2>10, <2>11, <2>12, <2>13
<1>8. CASE ~(Q.count = 0 /\ P.ended) /\ failed /\ P.error
  <2>1. H = Uploads!ForEach(Q, "failed", i)
    BY <1>5, <1>8 DEF Uploads!OnJobFailed
  <2>2. Moves(Q, H) /\ SameCount(Q, H)
    BY <1>3, <2>1, ForEachMoves
  <2> QED BY <1>2, <1>8, <2>2 DEF Moves, SameCount
<1>9. CASE ~(Q.count = 0 /\ P.ended) /\ ~failed
  <2>1. H = Uploads!ForEach(Q, "succeeded", i) /\ Q.job[i].state = "Succeeded"
    BY <1>2, <1>4, <1>5, <1>9 DEF Uploads!OnJobSucceeded
  <2>2. Moves(Q, H) /\ SameCount(Q, H)
    BY <1>0, <1>3, <2>1, ForEachMoves
  <2> QED BY <1>2, <1>4, <1>9, <2>2 DEF Moves, SameCount
<1> QED BY <1>6, <1>7, <1>8, <1>9

HeardNow(P, i) == [P EXCEPT !.job[i].heard = TRUE]
ToldTwice(more, P, i) == more \/ P.job[i].heard

\* A job is heard of.
LEMMA HearsOne ==
  ASSUME NEW P, NEW more \in BOOLEAN, Right(P, more), ~P.finished, NEW i \in 1 .. Len(P.job),
         Uploads!Finished(P, i), NEW H, H = Uploads!Heard(P, i),
         NEW R, R = HeardNow(H, i), NEW again, again = ToldTwice(more, P, i)
  PROVE  /\ Right(R, again) /\ Len(R.job) = Len(P.job)
         /\ R.finished = H.finished /\ R.error = H.error /\ R.ended = H.ended
<1>0. /\ IsParty(P) /\ OrderedIn(P) /\ P.job[i].state \in {"Failed", "Succeeded"}
      /\ R = [H EXCEPT !.job[i].heard = TRUE]
  BY DEF Right, Uploads!Finished, HeardNow
<1>1. /\ Moves(P, H) /\ H.count = P.count - 1 /\ IsParty(H) /\ Len(H.job) = Len(P.job)
      /\ P.job[i].state = "Failed" => H.error
      /\ P.error => H.error
      /\ H.finished => H.count = 0
  BY <1>0, HeardMoves DEF Moves
<1>2. OrderedIn(H) /\ Unheard(H) = Unheard(P)
  BY <1>0, <1>1, MovesOrdered
<1>3. PICK n : n = Len(P.job) /\ n = Len(H.job) /\ n \in Nat /\ i \in 1 .. n /\ H.job \in Seq(FormJobs) /\ H \in Parties
  BY <1>1 DEF IsParty, Parties
<1>4. PICK e : e = [H.job[i] EXCEPT !.heard = TRUE]
  OBVIOUS
<1>5. H.job[i] \in FormJobs
  BY <1>3
<1>6. e \in FormJobs /\ e.heard /\ e.state = H.job[i].state /\ e.pred = H.job[i].pred
  BY <1>4, <1>5 DEF FormJobs
<1>7. PICK b : b = [H.job EXCEPT ![i] = e]
  OBVIOUS
<1>8. b \in Seq(FormJobs) /\ Len(b) = n /\ b[i] = e /\ \A j \in 1 .. n : j # i => b[j] = H.job[j]
  BY <1>3, <1>6, <1>7
<1>9. R = [H EXCEPT !.job = b]
  BY <1>0, <1>3, <1>4, <1>7 DEF Parties
<1>10. /\ R \in Parties /\ R.job = b /\ R.ticks = H.ticks /\ R.count = H.count
       /\ R.finished = H.finished /\ R.error = H.error /\ R.ended = H.ended
  BY <1>3, <1>8, <1>9 DEF Parties
<1>11. \A j \in 1 .. n : b[j].state = H.job[j].state /\ b[j].pred = H.job[j].pred
  BY <1>6, <1>8
<1>12. IsParty(R)
  BY <1>1, <1>3, <1>8, <1>10, <1>11 DEF IsParty
<1>13. OrderedIn(R)
  <2>1. ASSUME NEW j \in 1 .. n, b[j].state \in {"Executing", "Succeeded"}, b[j].pred # 0
        PROVE  b[b[j].pred].state = "Succeeded"
    <3>1. b[j].pred \in 1 .. n
      <4>1. b[j] \in FormJobs
        BY <1>8
      <4>2. b[j].pred < j
        BY <1>1, <1>3, <1>11 DEF IsParty
      <4> QED BY <1>3, <2>1, <4>1, <4>2 DEF FormJobs
    <3>2. H.job[H.job[j].pred].state = "Succeeded"
      BY <1>2, <1>3, <1>11, <2>1 DEF OrderedIn
    <3> QED BY <1>11, <3>1, <3>2
  <2> QED BY <1>8, <1>10, <2>1 DEF OrderedIn
<1>14. HeardOf(R)
  <2>1. ASSUME NEW j \in 1 .. n, b[j].heard
        PROVE  b[j].state \in {"Failed", "Succeeded"} /\ (b[j].state = "Failed" => H.error)
    <3>1. CASE j = i
      <4>1. b[i].state = P.job[i].state
        BY <1>0, <1>1, <1>3, <1>11 DEF Moves
      <4> QED BY <1>0, <1>1, <3>1, <4>1
    <3>2. CASE j # i
      <4>1. P.job[j].heard /\ P.job[j].state \in {"Failed", "Succeeded"} /\ (P.job[j].state = "Failed" => P.error)
        BY <1>1, <1>3, <1>8, <2>1, <3>2 DEF Moves, Right, HeardOf
      <4>2. b[j].state = P.job[j].state
        BY <1>1, <1>3, <1>11, <4>1 DEF Moves
      <4> QED BY <1>1, <4>1, <4>2
    <3> QED BY <3>1, <3>2
  <2> QED BY <1>8, <1>10, <2>1 DEF HeardOf
<1>15. Unheard(R) = Unheard(P) \ {i}
  <2>1. Unheard(R) = Unheard(H) \ {i}
    BY <1>3, <1>6, <1>8, <1>10 DEF Unheard
  <2> QED BY <1>2, <2>1
<1>16. CountsJobs(R, more \/ P.job[i].heard)
  <2> SUFFICES ASSUME ~more, ~P.job[i].heard PROVE R.count = Cardinality(Unheard(R)) /\ (R.finished => Unheard(R) = {})
    BY DEF CountsJobs
  <2>1. IsFiniteSet(Unheard(P)) /\ i \in Unheard(P) /\ P.count = Cardinality(Unheard(P))
    BY <1>0, UnheardFinite DEF Unheard, Right, CountsJobs
  <2>2. Cardinality(Unheard(R)) = Cardinality(Unheard(P)) - 1 /\ IsFiniteSet(Unheard(R))
    BY <1>15, <2>1, FS_RemoveElement
  <2>3. R.count = Cardinality(Unheard(R))
    BY <1>1, <1>10, <2>1, <2>2
  <2>4. R.finished => Cardinality(Unheard(R)) = 0
    BY <1>1, <1>10, <2>3
  <2> QED BY <2>2, <2>3, <2>4, FS_EmptySet
<1>17. CountsJobs(R, again)
  BY <1>16 DEF ToldTwice
<1> QED BY <1>3, <1>8, <1>10, <1>12, <1>13, <1>14, <1>17 DEF Right

LEMMA TickStep == UploadInv /\ Uploads!Tick => UploadInv'
<1> SUFFICES ASSUME UploadInv, Uploads!Tick PROVE UploadInv'
  OBVIOUS
<1>0. /\ Right(party, twice) /\ IsParty(party) /\ party \in Parties /\ dicer \in Dicers /\ twice \in BOOLEAN
      /\ reply' = IF party'.finished /\ reply = "form" THEN "read" ELSE reply
  BY DEF UploadInv, Right, IsParty, Uploads!Tick, Dicers
<1>1. PICK i : i = Head(party.ticks) /\ i \in 1 .. Len(party.job)
  BY <1>0 DEF Uploads!Tick, IsParty, Parties
<1>2. PICK t : t = Tail(party.ticks)
  OBVIOUS
<1>3. PICK P : P = [party EXCEPT !.ticks = t]
  OBVIOUS
<1>4. t \in Seq(Nat) /\ \A k \in DOMAIN t : t[k] \in 1 .. Len(party.job)
  BY <1>0, <1>2 DEF Uploads!Tick, IsParty, Parties
<1>5. P \in Parties /\ P.job = party.job /\ P.ticks = t /\ SameCount(party, P)
  BY <1>0, <1>3, <1>4 DEF Parties, SameCount
<1>6. IsParty(P) /\ Moves(party, P)
  BY <1>0, <1>4, <1>5 DEF IsParty, Moves
<1>7. Right(P, twice)
  BY <1>0, <1>5, <1>6, MovesRight
<1>8. CASE P.finished \/ ~Uploads!Finished(P, i)
  <2>1. party' = P /\ UNCHANGED <<dicer, twice>>
    BY <1>0, <1>1, <1>2, <1>3, <1>8 DEF Uploads!Tick
  <2> QED BY <1>0, <1>5, <1>7, <2>1 DEF UploadInv, SameCount
<1>9. CASE ~P.finished /\ Uploads!Finished(P, i)
  <2>1. PICK H : H = Uploads!Heard(P, i)
    OBVIOUS
  <2>2. /\ party' = [H EXCEPT !.job[i].heard = TRUE] /\ twice' = (twice \/ P.job[i].heard)
        /\ IF party'.error /\ ~P.error THEN Uploads!Stop("stopped") ELSE UNCHANGED dicer
    BY <1>0, <1>1, <1>2, <1>3, <1>9, <2>1 DEF Uploads!Tick
  <2>3. P.job[i].state \in {"Failed", "Succeeded"} /\ i \in 1 .. Len(P.job)
    BY <1>1, <1>5, <1>9 DEF Uploads!Finished
  <2>4. /\ Right(party', twice') /\ Len(party'.job) = Len(party.job)
        /\ party'.finished = H.finished /\ party'.error = H.error /\ party'.ended = H.ended
    <3>1. PICK R : R = HeardNow(H, i)
      OBVIOUS
    <3>2. party' = R /\ Len(party.job) = Len(P.job)
      BY <1>5, <2>2, <3>1 DEF HeardNow
    <3>3. twice \in BOOLEAN
      BY <1>0
    <3>6. PICK again : again = ToldTwice(twice, P, i)
      OBVIOUS
    <3>4. /\ Right(R, again) /\ Len(R.job) = Len(P.job)
          /\ R.finished = H.finished /\ R.error = H.error /\ R.ended = H.ended
      <4>1. ~P.finished
        BY <1>9
      <4> QED BY <1>7, <1>9, <2>1, <2>3, <3>1, <3>3, <3>6, <4>1, HearsOne
    <3>5. Right(party', twice')
      BY <2>2, <3>2, <3>4, <3>6 DEF ToldTwice
    <3> QED BY <3>2, <3>4, <3>5
  <2>5. /\ P.error => H.error
        /\ H.finished => P.ended \/ (H.error /\ ~P.error)
        /\ ~P.ended /\ H.ended => H.error /\ ~P.error
    BY <1>7, <1>9, <2>1, <2>3, HeardMoves DEF Right
  <2>6. twice' \in BOOLEAN
    BY <1>0, <1>5, <2>2, <2>3 DEF IsParty, Parties, FormJobs
  <2>7. reply \notin {"read", "ok"}
    BY <1>5, <1>9 DEF UploadInv, SameCount
  <2>8. /\ dicer' \in Dicers /\ dicer'.at = dicer.at
        /\ dicer'.end = "none" => dicer.end = "none" /\ ~(party'.error /\ ~P.error)
    BY <1>0, <2>2 DEF Uploads!Stop, Dicers
  <2>9. dicer'.end = "none" => ~party'.ended /\ ~party'.finished /\ ~party'.error
    BY <1>5, <2>4, <2>5, <2>8 DEF UploadInv, SameCount
  <2> QED BY <1>0, <2>4, <2>6, <2>7, <2>8, <2>9 DEF UploadInv, Dicers
<1> QED BY <1>8, <1>9

LEMMA UploadStep == UploadInv /\ [Uploads!Next]_(Uploads!vars) => UploadInv'
<1> SUFFICES ASSUME UploadInv, [Uploads!Next]_(Uploads!vars) PROVE UploadInv'
  OBVIOUS
<1>1. CASE UNCHANGED Uploads!vars
  BY <1>1 DEF UploadInv, Uploads!vars
<1>2. CASE Uploads!POSTFORM \/ Uploads!DirDone
  BY <1>2 DEF UploadInv, Uploads!POSTFORM, Uploads!DirDone
<1>3. CASE Uploads!ReadDone
  <2>1. /\ UNCHANGED <<dicer, party, twice>> /\ reply = "read"
        /\ reply' \in {"ok", "error"} /\ (reply' = "ok" => ~party.error)
    BY <1>3 DEF Uploads!ReadDone, Uploads!Failed
  <2> QED BY <2>1 DEF UploadInv
<1>4. CASE \E i \in Uploads!Jobs, ok \in BOOLEAN : Uploads!Piped(i, ok) \/ Uploads!Answered(i, ok)
  BY <1>4, WorkStep
<1>5. CASE Uploads!Tick \/ Uploads!Header \/ Uploads!PartEnd \/ Uploads!Part
  BY <1>5, TickStep, HeaderStep, PartEndStep, PartStep
<1>6. CASE Uploads!DicerFinish \/ Uploads!Truncated \/ Uploads!FormError
  BY <1>6, FormEndsStep
<1> QED BY <1>1, <1>2, <1>3, <1>4, <1>5, <1>6 DEF Uploads!Next, Uploads!Proceed

\* A job executes only after the one before it on its name succeeded (IncomingForm.js 293, 376).
THEOREM JobsInOrder == Uploads!Spec => []Uploads!InOrder
<1>1. UploadInv => Uploads!InOrder
  BY DEF UploadInv, Right, OrderedIn, Uploads!InOrder, Uploads!Jobs, Uploads!State
<1> QED BY <1>1, UploadBegins, UploadStep, PTL DEF Uploads!Spec

\* The client is answered when every job has ended, and told ok if all succeeded, unless
\* the end of a job was counted twice (IncomingForm.js 624, 655, dir-entry.js 105).
THEOREM FormAnswerIsLast == Uploads!Spec => []Uploads!AnswerIsLast
<1>1. UploadInv => Uploads!AnswerIsLast
  <2> SUFFICES ASSUME UploadInv, party.finished, ~twice, NEW i \in 1 .. Len(party.job)
      PROVE  party.job[i].state \in {"Failed", "Succeeded"} /\ (reply = "ok" => party.job[i].state = "Succeeded")
    BY DEF Uploads!AnswerIsLast, Uploads!Jobs, Uploads!State
  <2>1. party.job[i].heard
    BY DEF UploadInv, Right, CountsJobs, Unheard
  <2> QED BY <2>1 DEF UploadInv, Right, HeardOf
<1> QED BY <1>1, UploadBegins, UploadStep, PTL DEF Uploads!Spec

-----------------------------------------------------------------------------
(* Downloads by transmission.                                              *)

Torrents == INSTANCE Transmission

TaskRecs == [state : {"none", "downloading", "next", "moving", "finish"}, users : SUBSET Users]
TaskLists == [downloading : Seq(Ids), downloaded : {<<>>}]
TaskFiles == [downloading : Seq(Ids), downloaded : {<<>>}, users : [Ids -> SUBSET Users]]
TaskCalls == [pc : {"idle", "add", "get", "cached", "observed", "done"}, id : Ids \cup {0},
              user : Users \cup {"none"}, answer : {"none", "ok", "error", "lost"}]

\* What cache() writes: each task once, and users of those only.  No task is ever downloaded.
Once(L) == \A j, k \in DOMAIN L : L[j] = L[k] => j = k
Whole(f) ==
  /\ f \in TaskFiles /\ Once(f.downloading)
  /\ \A i \in Ids : i \notin Torrents!Listed(f.downloading) => f.users[i] = {}

TorrentsTyped ==
  /\ torrents \in [Ids -> {"none", "loading", "done"}] /\ state \in {"new", "Init", "Working", "Failed"}
  /\ lists \in TaskLists /\ task \in [Ids -> TaskRecs]
  /\ moving \in [ready : Seq(Ids), now : Seq(Ids)]
  /\ lock \in [on : BOOLEAN, more : BOOLEAN, what : TaskFiles]
  /\ seen \in [state : {"none", "Pending", "Working", "between"}, asked : SUBSET Calls, next : SUBSET Calls]
  /\ call \in [Calls -> TaskCalls]
TasksKept ==
  /\ Once(lists.downloading)
  /\ \A i \in Torrents!Listed(lists.downloading) : task[i].state \in {"downloading", "next", "moving"}
  /\ Len(moving.now) <= 1 /\ (moving.now = <<>> => moving.ready = <<>>)
  /\ state # "Working" => \A i \in Ids : task[i].state = "none"
\* The file is that of the lists, or a write is under way or wanted that makes it so.
TasksWritten ==
  /\ Whole(file) \/ file = Torrents!Torn
  /\ Whole(lock.what) /\ (lock.more => lock.on) /\ (lock.on => state = "Working")
  /\ lock.on /\ ~lock.more => lock.what = Torrents!Infor(lists, task)
  /\ state = "Working" /\ ~lock.on => file = Torrents!Infor(lists, task)
TasksSeen ==
  /\ seen.state # "none" => state \in {"Working", "Failed"}
  /\ state = "Working" => seen.state # "none"
  /\ state = "Failed" => seen.state \in {"none", "Pending"}
  /\ \A c \in Calls : call[c].pc \in {"get", "cached", "observed"} => state = "Working"
  /\ \A c \in Calls : call[c].pc = "add" => state # "new"
  /\ seen.state # "Working" => seen.asked = {}
  /\ seen.state \in {"none", "Pending"} => seen.next = {}
  /\ seen.asked \cap seen.next = {}
  /\ seen.asked \cup seen.next = {c \in Calls : call[c].pc = "observed"}
  /\ \A c \in Calls : call[c].pc = "done" <=> call[c].answer # "none"
  /\ \A c \in Calls : call[c].pc \in {"add", "get", "cached", "observed"} => call[c].id \in Ids /\ call[c].user \in Users
TorrentsInv == TorrentsTyped /\ TasksKept /\ TasksWritten /\ TasksSeen

\* What is written of the lists is whole.
LEMMA InforWhole ==
  ASSUME NEW L \in TaskLists, Once(L.downloading), NEW T \in [Ids -> TaskRecs]
  PROVE  /\ Whole(Torrents!Infor(L, T))
         /\ Torrents!Infor(L, T) = [downloading |-> L.downloading, downloaded |-> <<>>,
              users |-> [i \in Ids |-> IF i \in Torrents!Listed(L.downloading) THEN T[i].users ELSE {}]]
<1>1. Torrents!Listed(L.downloaded) = {} /\ L.downloaded = <<>>
  BY DEF TaskLists, Torrents!Listed
<1>2. Torrents!Infor(L, T) = [downloading |-> L.downloading, downloaded |-> <<>>,
        users |-> [i \in Ids |-> IF i \in Torrents!Listed(L.downloading) THEN T[i].users ELSE {}]]
  BY <1>1 DEF Torrents!Infor
<1>3. [i \in Ids |-> IF i \in Torrents!Listed(L.downloading) THEN T[i].users ELSE {}] \in [Ids -> SUBSET Users]
  BY DEF TaskRecs
<1> QED BY <1>2, <1>3 DEF Whole, TaskFiles, TaskLists

\* The n-th of a set of places.
LEMMA Nth ==
  ASSUME NEW m \in Nat, NEW R, \A j \in R : j \in 1 .. m, NEW n \in 1 .. Cardinality(R)
  PROVE  \E k \in R : Cardinality({j \in R : j <= k}) = n
<1> DEFINE Up(k) == {j \in R : j <= k}
           S == {k \in Nat : Cardinality(Up(k)) >= n}
<1>0. \A j \in R : j \in Nat /\ 1 <= j /\ j <= m
  OBVIOUS
<1>1. IsFiniteSet(R) /\ Cardinality(R) \in Nat /\ \A k \in Nat : IsFiniteSet(Up(k)) /\ Cardinality(Up(k)) \in Nat
  <2>1. IsFiniteSet(1 .. m)
    BY FS_Interval
  <2>2. IsFiniteSet(R)
    BY <2>1, FS_Subset
  <2> QED BY <2>2, FS_Subset, FS_CardinalityType
<1>2. Up(m) = R /\ m \in S
  BY <1>0, <1>1
<1>3. PICK k \in S : \A l \in S : k <= l
  BY <1>2, Lowest
<1>4. Up(0) = {} /\ Cardinality(Up(0)) = 0
  <2>1. Up(0) = {}
    BY <1>0
  <2> QED BY <2>1, FS_EmptySet
<1>5. k \in Nat /\ k # 0 /\ Cardinality(Up(k)) >= n
  BY <1>1, <1>4
<1>6. k - 1 \in Nat /\ n \in Nat
  BY <1>1, <1>5
<1>7. /\ Cardinality(Up(k)) \in Nat /\ Cardinality(Up(k - 1)) \in Nat /\ IsFiniteSet(Up(k - 1))
      /\ Cardinality(Up(k - 1)) < n
  <2>1. ~(k <= k - 1)
    BY <1>5
  <2>2. k - 1 \notin S
    BY <1>3, <1>6, <2>1
  <2>3. /\ Cardinality(Up(k)) \in Nat /\ Cardinality(Up(k - 1)) \in Nat
        /\ IsFiniteSet(Up(k)) /\ IsFiniteSet(Up(k - 1))
    BY <1>1, <1>5, <1>6
  <2>4. ~(Cardinality(Up(k - 1)) >= n)
    BY <1>6, <2>2
  <2> HIDE DEF Up
  <2> QED BY <1>6, <2>3, <2>4
<1>8. k \in R
  <2>1. ASSUME k \notin R PROVE \A j \in R : j <= k <=> j <= k - 1
    BY <1>0, <1>5, <2>1
  <2>2. ASSUME k \notin R PROVE Up(k) = Up(k - 1)
    BY <2>1, <2>2
  <2>3. Cardinality(Up(k)) # Cardinality(Up(k - 1))
    BY <1>5, <1>6, <1>7
  <2> QED BY <2>2, <2>3
<1>9. Cardinality(Up(k)) = Cardinality(Up(k - 1)) + 1
  <2>1. \A j \in R : j <= k <=> (j <= k - 1 \/ j = k)
    BY <1>0, <1>5
  <2>2. ~(k <= k - 1)
    BY <1>5
  <2>3. Up(k) = Up(k - 1) \cup {k} /\ k \notin Up(k - 1)
    BY <1>8, <2>1, <2>2
  <2> QED BY <1>7, <2>3, FS_AddElement
<1>10. Cardinality(Up(k)) = n
  BY <1>5, <1>6, <1>7, <1>9
<1> QED BY <1>8, <1>10

LEMMA WithoutSome ==
  ASSUME NEW L \in Seq(Ids), NEW K
  PROVE  LET W == Torrents!Without(L, K)
         IN  W \in Seq(Ids) /\ (Once(L) => Once(W)) /\ Torrents!Listed(W) \subseteq Torrents!Listed(L)
<1>1. PICK m \in Nat : m = Len(L) /\ DOMAIN L = 1 .. m /\ \A k \in 1 .. m : L[k] \in Ids
  <2>1. Len(L) \in Nat /\ DOMAIN L = 1 .. Len(L) /\ \A k \in 1 .. Len(L) : L[k] \in Ids
    OBVIOUS
  <2> QED BY <2>1
<1>2. \A Q : Torrents!Cardinality(Q) = Cardinality(Q)
  BY DEF Torrents!Cardinality, Cardinality
<1>3. PICK R : R = DOMAIN L \ K
  OBVIOUS
<1> DEFINE Up(k) == {j \in R : j <= k}
           Is(n, k) == k \in R /\ Torrents!Cardinality(Up(k)) = n
           At(n) == CHOOSE k \in R : Torrents!Cardinality(Up(k)) = n
           size == Cardinality(R)
           W == Torrents!Without(L, K)
<1>4. size \in Nat
  <2>1. IsFiniteSet(1 .. m)
    BY FS_Interval
  <2> QED BY <1>1, <1>3, <2>1, FS_Subset, FS_CardinalityType
<1>5. W = [n \in 1 .. size |-> L[At(n)]]
  BY <1>2, <1>3 DEF Torrents!Without
<1>6. ASSUME NEW n \in 1 .. size PROVE Is(n, At(n))
  <2>1. \A j \in R : j \in 1 .. m
    BY <1>1, <1>3
  <2>2. \E k \in R : Cardinality(Up(k)) = n
    BY <2>1, Nth
  <2> QED BY <1>2, <2>2
<1> HIDE DEF At, Is, W
<1>7. \A n \in 1 .. size : At(n) \in 1 .. m /\ L[At(n)] \in Ids
  BY <1>1, <1>3, <1>6 DEF Is
<1>8. W \in Seq(Ids)
  <2>1. W \in [1 .. size -> Ids]
    BY <1>5, <1>7
  <2> HIDE DEF size
  <2> QED BY <1>4, <2>1
<1>9. DOMAIN W = 1 .. size /\ \A n \in 1 .. size : W[n] = L[At(n)]
  BY <1>5
<1>10. ASSUME Once(L) PROVE Once(W)
  <2> SUFFICES ASSUME NEW a \in 1 .. size, NEW b \in 1 .. size, W[a] = W[b] PROVE a = b
    BY <1>9 DEF Once
  <2>1. At(a) = At(b)
    BY <1>1, <1>7, <1>9, <1>10 DEF Once
  <2> QED BY <1>6, <2>1 DEF Is
<1>11. Torrents!Listed(W) \subseteq Torrents!Listed(L)
  BY <1>1, <1>7, <1>9 DEF Torrents!Listed
<1> QED BY <1>8, <1>10, <1>11 DEF W

LEMMA RestOf ==
  ASSUME NEW L \in Seq(Ids), NEW i, Once(L)
  PROVE  LET W == Torrents!Rest(L, i)
         IN  W \in Seq(Ids) /\ Once(W) /\ Torrents!Listed(W) \subseteq Torrents!Listed(L)
<1>1. PICK W : W = Torrents!Rest(L, i)
  OBVIOUS
<1>2. Len(L) \in Nat /\ DOMAIN L = 1 .. Len(L)
  OBVIOUS
<1>3. W = L \/ \E k \in 1 .. Len(L) : W = SubSeq(L, 1, k - 1)
  <2>1. CASE i \in Torrents!Listed(L)
    <3>1. PICK k : k = CHOOSE j \in DOMAIN L : L[j] = i
      OBVIOUS
    <3>2. k \in DOMAIN L
      BY <2>1, <3>1 DEF Torrents!Listed
    <3> QED BY <1>1, <1>2, <2>1, <3>1, <3>2 DEF Torrents!Rest
  <2>2. CASE i \notin Torrents!Listed(L) /\ L # <<>>
    <3>1. Len(L) \in 1 .. Len(L)
      BY <2>2
    <3> QED BY <1>1, <2>2, <3>1 DEF Torrents!Rest
  <2> QED BY <1>1, <2>1, <2>2 DEF Torrents!Rest
<1>4. CASE \E k \in 1 .. Len(L) : W = SubSeq(L, 1, k - 1)
  <2>1. PICK k \in 1 .. Len(L) : W = SubSeq(L, 1, k - 1)
    BY <1>4
  <2>2. W \in Seq(Ids) /\ DOMAIN W = 1 .. k - 1 /\ \A j \in 1 .. k - 1 : W[j] = L[j]
    BY <2>1
  <2> QED BY <1>1, <1>2, <2>1, <2>2 DEF Once, Torrents!Listed
<1> QED BY <1>1, <1>3, <1>4

LEMMA TorrentsBegin == Torrents!Init => TorrentsInv
<1> SUFFICES ASSUME Torrents!Init PROVE TorrentsInv
  OBVIOUS
<1>1. /\ torrents = [i \in Ids |-> "none"] /\ state = "new" /\ task = [i \in Ids |-> Torrents!NoTask]
      /\ lists = [downloading |-> <<>>, downloaded |-> <<>>] /\ moving = [ready |-> <<>>, now |-> <<>>]
      /\ file = Torrents!Empty /\ lock = Torrents!Unlocked
      /\ seen = [state |-> "none", asked |-> {}, next |-> {}] /\ call = [c \in Calls |-> Torrents!NoCall]
  BY DEF Torrents!Init
<1>2. Torrents!Empty \in TaskFiles /\ Torrents!Empty.downloading = <<>>
  BY DEF Torrents!Empty, TaskFiles
<1>3. Whole(Torrents!Empty)
  BY <1>2 DEF Whole, Once, Torrents!Empty
<1>4. lock = [on |-> FALSE, more |-> FALSE, what |-> Torrents!Empty]
  BY <1>1 DEF Torrents!Unlocked
<1>5. TorrentsTyped
  <2>1. Torrents!NoTask \in TaskRecs /\ Torrents!NoCall \in TaskCalls
    BY DEF Torrents!NoTask, Torrents!NoCall, TaskRecs, TaskCalls
  <2>2. lists \in TaskLists /\ moving \in [ready : Seq(Ids), now : Seq(Ids)]
    BY <1>1 DEF TaskLists
  <2>3. lock \in [on : BOOLEAN, more : BOOLEAN, what : TaskFiles]
    BY <1>2, <1>4
  <2> QED BY <1>1, <2>1, <2>2, <2>3 DEF TorrentsTyped
<1>6. TasksKept
  BY <1>1 DEF TasksKept, Once, Torrents!Listed, Torrents!NoTask
<1>7. TasksWritten
  BY <1>1, <1>3, <1>4 DEF TasksWritten
<1>8. TasksSeen
  BY <1>1 DEF TasksSeen, Torrents!NoCall
<1> QED BY <1>5, <1>6, <1>7, <1>8 DEF TorrentsInv

\* The lists or the users have changed to L and T, and cache() was called.
LEMMA Cached ==
  ASSUME TorrentsTyped, TasksWritten, state = "Working", state' = state, file' = file,
         NEW L \in TaskLists, Once(L.downloading), NEW T \in [Ids -> TaskRecs], NEW again \in BOOLEAN,
         L = lists' \/ again, T = task', Torrents!Cache(L, T, again)
  PROVE  TasksWritten' /\ lock' \in [on : BOOLEAN, more : BOOLEAN, what : TaskFiles]
<1>1. Whole(Torrents!Infor(L, T))
  BY InforWhole
<1>2. CASE lock.on
  <2>1. lock' = [lock EXCEPT !.more = TRUE]
    BY <1>2 DEF Torrents!Cache
  <2>2. lock' \in [on : BOOLEAN, more : BOOLEAN, what : TaskFiles] /\ lock'.on /\ lock'.more /\ lock'.what = lock.what
    BY <1>2, <2>1 DEF TorrentsTyped
  <2> QED BY <2>2 DEF TasksWritten, Whole
<1>3. CASE ~lock.on
  <2>1. lock' = [on |-> TRUE, more |-> again, what |-> Torrents!Infor(L, T)]
    BY <1>3 DEF Torrents!Cache
  <2>2. lock'.on /\ lock'.more = again /\ lock'.what = Torrents!Infor(L, T)
    BY <2>1
  <2>3. lock' \in [on : BOOLEAN, more : BOOLEAN, what : TaskFiles]
    BY <1>1, <2>1 DEF Whole
  <2>4. ~lock'.more => lock'.what = Torrents!Infor(lists, task)'
    BY <2>2 DEF Torrents!Infor
  <2> QED BY <1>1, <2>2, <2>3, <2>4 DEF TasksWritten, Whole
<1> QED BY <1>2, <1>3

LEMMA WrittenStep == TorrentsInv /\ (Torrents!Written \/ Torrents!WrittenSame) => TorrentsInv'
<1> SUFFICES ASSUME TorrentsInv, Torrents!Written \/ Torrents!WrittenSame PROVE TorrentsInv'
  OBVIOUS
<1>1. /\ lock.on /\ file' = lock.what
      /\ lock' = IF lock.more THEN [on |-> TRUE, more |-> FALSE, what |-> Torrents!Infor(lists, task)]
                 ELSE Torrents!Unlocked
      /\ UNCHANGED <<torrents, state, lists, task, moving, seen, call>>
  BY DEF Torrents!Written, Torrents!WrittenSame
<1>2. Whole(Torrents!Infor(lists, task)) /\ Torrents!Infor(lists, task)' = Torrents!Infor(lists, task)
  <2>1. lists \in TaskLists /\ Once(lists.downloading) /\ task \in [Ids -> TaskRecs]
    BY DEF TorrentsInv, TorrentsTyped, TasksKept
  <2> QED BY <1>1, <2>1, InforWhole DEF Torrents!Infor
<1>3. Whole(Torrents!Empty)
  BY DEF Torrents!Empty, Whole, TaskFiles, Once
<1>4. TasksWritten' /\ lock' \in [on : BOOLEAN, more : BOOLEAN, what : TaskFiles]
  <2>1. Whole(lock.what) /\ state = "Working"
    BY <1>1 DEF TorrentsInv, TasksWritten
  <2>2. CASE lock.more
    <3>1. lock' = [on |-> TRUE, more |-> FALSE, what |-> Torrents!Infor(lists, task)]
      BY <1>1, <2>2
    <3>2. lock' \in [on : BOOLEAN, more : BOOLEAN, what : TaskFiles]
      BY <1>2, <3>1 DEF Whole
    <3>3. lock'.on /\ ~lock'.more /\ lock'.what = Torrents!Infor(lists, task) /\ state' = state
      BY <1>1, <3>1
    <3>4. Whole(file') /\ Whole(lock'.what)
      BY <1>1, <1>2, <2>1, <3>3
    <3> QED BY <1>2, <2>1, <3>2, <3>3, <3>4 DEF TasksWritten, Whole
  <2>3. CASE ~lock.more
    <3>1. lock' = [on |-> FALSE, more |-> FALSE, what |-> Torrents!Empty] /\ lock.what = Torrents!Infor(lists, task)
      BY <1>1, <2>3 DEF Torrents!Unlocked, TorrentsInv, TasksWritten
    <3>2. lock' \in [on : BOOLEAN, more : BOOLEAN, what : TaskFiles]
      BY <1>3, <3>1 DEF Whole
    <3>3. ~lock'.on /\ ~lock'.more /\ lock'.what = Torrents!Empty /\ file' = Torrents!Infor(lists, task)
      BY <1>1, <3>1
    <3>4. Whole(file') /\ Whole(lock'.what)
      BY <1>2, <1>3, <3>3
    <3> QED BY <1>2, <3>2, <3>3, <3>4 DEF TasksWritten, Whole
  <2> QED BY <2>2, <2>3
<1> QED BY <1>1, <1>4 DEF TorrentsInv, TorrentsTyped, TasksKept, TasksSeen, Torrents!Listed

LEMMA NewStep == ASSUME TorrentsInv, NEW ok \in BOOLEAN, Torrents!New(ok) PROVE TorrentsInv'
<1>1. /\ state = "new" /\ state' \in {"Init", "Failed"}
      /\ UNCHANGED <<torrents, lists, task, moving, file, lock, seen, call>>
  BY DEF Torrents!New
<1>2. Torrents!Listed(lists.downloading)' = Torrents!Listed(lists.downloading)
  BY <1>1
<1>3. TorrentsTyped' /\ TasksKept' /\ TasksWritten'
  BY <1>1, <1>2 DEF TorrentsInv, TorrentsTyped, TasksKept, TasksWritten, Whole
<1>4. TasksSeen'
  BY <1>1 DEF TorrentsInv, TasksSeen
<1> QED BY <1>3, <1>4 DEF TorrentsInv

LEMMA StartStep == ASSUME TorrentsInv, NEW ok \in BOOLEAN, Torrents!Start(ok) PROVE TorrentsInv'
<1>1. /\ state = "Init" /\ UNCHANGED <<torrents, moving, file, call>> /\ ~lock.on
      /\ Whole(lock.what) /\ ~lock.more /\ TorrentsTyped
  BY DEF Torrents!Start, TorrentsInv, TasksWritten
<1>2. CASE ~ok \/ file = Torrents!Torn
  <2>1. /\ state' = "Failed" /\ UNCHANGED <<lists, task, lock>>
        /\ seen' = [seen EXCEPT !.state = "Pending"]
    BY <1>2 DEF Torrents!Start
  <2>2. Torrents!Listed(lists.downloading)' = Torrents!Listed(lists.downloading)
    BY <2>1
  <2>3. TorrentsTyped' /\ TasksKept' /\ TasksWritten'
    BY <1>1, <2>1, <2>2 DEF TorrentsInv, TorrentsTyped, TasksKept, TasksWritten, Whole
  <2>4. TasksSeen'
    BY <1>1, <2>1 DEF TorrentsInv, TasksSeen, TorrentsTyped
  <2> QED BY <2>3, <2>4 DEF TorrentsInv
<1>3. CASE ok /\ file # Torrents!Torn
  <2>1. Whole(file) /\ file.downloaded = <<>> /\ file \in TaskFiles
    BY <1>3 DEF TorrentsInv, TasksWritten, Whole, TaskFiles
  <2>2. PICK L : L = file.downloading
    OBVIOUS
  <2>3. L \in Seq(Ids) /\ Once(L) /\ L \o <<>> = L
    BY <2>1, <2>2 DEF Whole, TaskFiles
  <2>4. PICK T : T = task'
    OBVIOUS
  <2>5. /\ lists' = [downloading |-> L, downloaded |-> <<>>] /\ state' = "Working"
        /\ seen' = [seen EXCEPT !.state = "Pending"]
    BY <1>3, <2>1, <2>2 DEF Torrents!Start
  <2>6. /\ T \in [Ids -> TaskRecs]
        /\ \A i \in Ids : i \in Torrents!Listed(L) => T[i].state = "downloading" /\ T[i].users = file.users[i]
    <3>1. Torrents!Listed(<<>>) = {}
      BY DEF Torrents!Listed
    <3>2. task' = [i \in Ids |-> IF i \in Torrents!Listed(L) THEN [state |-> "downloading", users |-> file.users[i]]
                                 ELSE Torrents!NoTask]
      <4>1. task' = [i \in Ids |->
               CASE i \in Torrents!Listed(file.downloading) -> [state |-> "downloading", users |-> file.users[i]]
                 [] i \in Torrents!Listed(file.downloaded) -> [state |-> "finish", users |-> file.users[i]]
                 [] i \notin Torrents!Listed(file.downloading) \cup Torrents!Listed(file.downloaded) -> Torrents!NoTask]
        BY <1>3 DEF Torrents!Start
      <4> QED BY <2>1, <2>2, <3>1, <4>1
    <3>3. Torrents!NoTask \in TaskRecs /\ \A i \in Ids : file.users[i] \subseteq Users
      BY <2>1 DEF Torrents!NoTask, TaskRecs, TaskFiles
    <3>4. \A i \in Ids : [state |-> "downloading", users |-> file.users[i]] \in TaskRecs
      BY <3>3 DEF TaskRecs
    <3> QED BY <2>4, <3>2, <3>3, <3>4
  <2>7. lists' \in TaskLists /\ lists'.downloading = L
    BY <2>3, <2>5 DEF TaskLists
  <2>8. Torrents!Infor(lists', T) = file
    <3>1. Torrents!Infor(lists', T) = [downloading |-> L, downloaded |-> <<>>,
            users |-> [i \in Ids |-> IF i \in Torrents!Listed(L) THEN T[i].users ELSE {}]]
      BY <2>3, <2>6, <2>7, InforWhole
    <3>2. [i \in Ids |-> IF i \in Torrents!Listed(L) THEN T[i].users ELSE {}] = [i \in Ids |-> file.users[i]]
      BY <2>1, <2>2, <2>6 DEF Whole
    <3>3. file = [downloading |-> L, downloaded |-> <<>>, users |-> [i \in Ids |-> file.users[i]]]
      BY <2>1, <2>2 DEF TaskFiles
    <3> QED BY <3>1, <3>2, <3>3
  <2>9. Torrents!Infor(lists, task)' = file
    BY <2>4, <2>8 DEF Torrents!Infor
  <2>10. /\ lock' \in [on : BOOLEAN, more : BOOLEAN, what : TaskFiles] /\ Whole(lock'.what)
         /\ lock'.more => lock'.on
         /\ lock'.on /\ ~lock'.more => lock'.what = file
    <3>1. CASE L = <<>>
      <4>1. lock' = [on |-> FALSE, more |-> FALSE, what |-> Torrents!Empty]
        BY <1>3, <2>1, <2>2, <2>3, <3>1 DEF Torrents!Start, Torrents!Unlocked
      <4>2. Whole(Torrents!Empty)
        BY DEF Torrents!Empty, Whole, TaskFiles, Once
      <4> QED BY <4>1, <4>2 DEF Whole
    <3>2. CASE L # <<>>
      <4>1. PICK one : one = [downloading |-> <<Head(L)>>, downloaded |-> <<>>]
        OBVIOUS
      <4>2. lock' = [on |-> TRUE, more |-> Len(L) > 1, what |-> Torrents!Infor(one, T)]
        BY <1>3, <2>1, <2>2, <2>3, <2>4, <3>2, <4>1 DEF Torrents!Start
      <4>3. one \in TaskLists /\ Once(one.downloading)
        BY <2>3, <3>2, <4>1 DEF TaskLists, Once
      <4>4. Whole(Torrents!Infor(one, T))
        BY <2>6, <4>3, InforWhole
      <4>5. ASSUME ~(Len(L) > 1) PROVE one = lists'
        <5>1. PICK n \in Nat : n = Len(L) /\ (n = 0 => L = <<>>)
          BY <2>3
        <5>2. Len(L) = 1
          BY <3>2, <4>5, <5>1
        <5>3. Head(L) = L[1] /\ L = <<L[1]>>
          BY <2>3, <5>2
        <5> QED BY <2>5, <4>1, <5>3
      <4>6. (Len(L) > 1) \in BOOLEAN
        OBVIOUS
      <4> QED BY <2>8, <4>2, <4>4, <4>5, <4>6 DEF Whole
    <3> QED BY <3>1, <3>2
  <2>11. TorrentsTyped'
    BY <1>1, <2>4, <2>5, <2>6, <2>7, <2>10 DEF TorrentsTyped
  <2>12. TasksKept'
    <3>1. Torrents!Listed(lists.downloading)' = Torrents!Listed(L)
      BY <2>7 DEF Torrents!Listed
    <3>2. \A i \in Torrents!Listed(L) : i \in Ids
      BY <2>3 DEF Torrents!Listed
    <3> QED BY <1>1, <2>3, <2>4, <2>5, <2>6, <2>7, <3>1, <3>2 DEF TorrentsInv, TasksKept, Once
  <2>13. TasksWritten'
    BY <1>1, <2>1, <2>5, <2>9, <2>10 DEF TasksWritten, Whole
  <2>14. TasksSeen'
    BY <1>1, <2>5 DEF TorrentsInv, TasksSeen, TorrentsTyped
  <2> QED BY <2>11, <2>12, <2>13, <2>14 DEF TorrentsInv
<1> QED BY <1>2, <1>3

\* Only calls and the observer move.
LEMMA SeenSteps ==
  ASSUME TorrentsInv, state' = state, UNCHANGED <<lists, task, moving, file, lock>>,
         torrents' \in [Ids -> {"none", "loading", "done"}], TasksSeen',
         seen' \in [state : {"none", "Pending", "Working", "between"}, asked : SUBSET Calls, next : SUBSET Calls],
         call' \in [Calls -> TaskCalls]
  PROVE  TorrentsInv'
<1>1. TorrentsTyped'
  BY DEF TorrentsInv, TorrentsTyped
<1>2. TasksKept'
  BY DEF TorrentsInv, TasksKept, Torrents!Listed
<1>3. TasksWritten'
  <2>1. Torrents!Infor(lists, task)' = Torrents!Infor(lists, task)
    BY DEF Torrents!Infor
  <2> QED BY <2>1 DEF TorrentsInv, TasksWritten, Whole
<1> QED BY <1>1, <1>2, <1>3 DEF TorrentsInv

\* A call goes on, or is answered.
LEMMA CallGoes ==
  ASSUME TorrentsInv, NEW c \in Calls, NEW r \in TaskCalls, r.pc \in {"add", "get", "cached", "done"},
         r.pc = "done" <=> r.answer # "none", r.id \in Ids, r.user \in Users,
         r.pc = "add" => state # "new", r.pc \in {"get", "cached"} => state = "Working",
         state' = state, seen' = seen,
         call[c].pc \in {"idle", "add", "get", "cached"}, call' = [call EXCEPT ![c] = r]
  PROVE  TasksSeen' /\ call' \in [Calls -> TaskCalls]
<1>1. call \in [Calls -> TaskCalls]
  BY DEF TorrentsInv, TorrentsTyped
<1>2. call' \in [Calls -> TaskCalls] /\ call'[c] = r /\ \A d \in Calls : d # c => call'[d] = call[d]
  BY <1>1
<1> QED BY <1>2 DEF TorrentsInv, TasksSeen

LEMMA PostStep ==
  ASSUME TorrentsInv, NEW c \in Calls, NEW i \in Ids, NEW u \in Users, Torrents!Post(c, i, u) PROVE TorrentsInv'
<1>1. PICK r : r = IF state = "Failed"
                   THEN [Torrents!NoCall EXCEPT !.pc = "done", !.id = i, !.user = u, !.answer = "error"]
                   ELSE [Torrents!NoCall EXCEPT !.pc = "add", !.id = i, !.user = u]
  OBVIOUS
<1>2. /\ r \in TaskCalls /\ r.pc \in {"add", "done"} /\ r.id = i /\ r.user = u
      /\ r.pc = "done" <=> r.answer # "none"
  BY <1>1 DEF Torrents!NoCall, TaskCalls
<1>3. /\ call[c].pc = "idle" /\ state # "new" /\ UNCHANGED <<torrents, state, lists, task, moving, file, lock, seen>>
      /\ call' = [call EXCEPT ![c] = r]
  BY <1>1 DEF Torrents!Post
<1>4. TasksSeen' /\ call' \in [Calls -> TaskCalls]
  BY <1>2, <1>3, CallGoes
<1> QED BY <1>3, <1>4, SeenSteps DEF TorrentsInv, TorrentsTyped

LEMMA CallOf ==
  ASSUME TorrentsInv, NEW c \in Calls, call[c].pc \in {"add", "get", "cached"}
  PROVE  /\ call[c].pc # "add" => state = "Working"
         /\ call[c].id \in Ids /\ call[c].user \in Users /\ call[c].answer = "none"
BY DEF TorrentsInv, TasksSeen

LEMMA CallIs ==
  ASSUME TorrentsInv, NEW c \in Calls, call[c].pc \in {"add", "get", "cached"}, state' = state, seen' = seen,
         \/ call' = [call EXCEPT ![c].pc = "done", ![c].answer = "error"]
         \/ state = "Working" /\ \E pc \in {"get", "cached"} : call' = [call EXCEPT ![c].pc = pc]
  PROVE  TasksSeen' /\ call' \in [Calls -> TaskCalls]
<1>1. call \in [Calls -> TaskCalls] /\ call[c] \in TaskCalls
  BY DEF TorrentsInv, TorrentsTyped
<1>2. call[c].id \in Ids /\ call[c].user \in Users /\ call[c].answer = "none"
  BY CallOf
<1>3. CASE call' = [call EXCEPT ![c].pc = "done", ![c].answer = "error"]
  <2>1. PICK r : r = [call[c] EXCEPT !.pc = "done", !.answer = "error"]
    OBVIOUS
  <2>2. r \in TaskCalls /\ r.pc = "done" /\ r.answer = "error" /\ r.id = call[c].id /\ r.user = call[c].user
    BY <1>1, <2>1 DEF TaskCalls
  <2>3. call' = [call EXCEPT ![c] = r]
    BY <1>1, <1>3, <2>1
  <2> QED BY <1>2, <2>2, <2>3, CallGoes
<1>4. CASE state = "Working" /\ \E pc \in {"get", "cached"} : call' = [call EXCEPT ![c].pc = pc]
  <2>1. PICK pc \in {"get", "cached"} : call' = [call EXCEPT ![c].pc = pc]
    BY <1>4
  <2>2. PICK r : r = [call[c] EXCEPT !.pc = pc]
    OBVIOUS
  <2>3. r \in TaskCalls /\ r.pc = pc /\ r.answer = "none" /\ r.id = call[c].id /\ r.user = call[c].user
    BY <1>1, <1>2, <2>2 DEF TaskCalls
  <2>4. call' = [call EXCEPT ![c] = r]
    BY <1>1, <2>1, <2>2
  <2> QED BY <1>2, <1>4, <2>3, <2>4, CallGoes
<1> QED BY <1>3, <1>4

LEMMA AddedStep == ASSUME TorrentsInv, NEW c \in Calls, Torrents!Added(c) PROVE TorrentsInv'
<1>1. call[c].pc = "add" /\ UNCHANGED <<state, lists, task, moving, file, lock, seen>>
  BY DEF Torrents!Added
<1>2. \/ call' = [call EXCEPT ![c].pc = "done", ![c].answer = "error"]
      \/ state = "Working" /\ call' = [call EXCEPT ![c].pc = "get"]
  <2>1. state \in {"Working", "Failed"}
    BY <1>1 DEF Torrents!Added, TorrentsInv, TorrentsTyped, TasksSeen
  <2> QED BY <2>1 DEF Torrents!Added, Torrents!Answer
<1>3. TasksSeen' /\ call' \in [Calls -> TaskCalls]
  BY <1>1, <1>2, CallIs
<1>4. torrents' \in [Ids -> {"none", "loading", "done"}]
  BY DEF Torrents!Added, TorrentsInv, TorrentsTyped
<1> QED BY <1>1, <1>3, <1>4, SeenSteps DEF TorrentsInv, TorrentsTyped

LEMMA PostFailsStep == ASSUME TorrentsInv, NEW c \in Calls, Torrents!PostFails(c) PROVE TorrentsInv'
<1>1. /\ call[c].pc \in {"add", "get"} /\ UNCHANGED <<torrents, state, lists, task, moving, file, lock, seen>>
      /\ call' = [call EXCEPT ![c].pc = "done", ![c].answer = "error"]
  BY DEF Torrents!PostFails, Torrents!Answer
<1>2. TasksSeen' /\ call' \in [Calls -> TaskCalls]
  BY <1>1, CallIs
<1> QED BY <1>1, <1>2, SeenSteps DEF TorrentsInv, TorrentsTyped

LEMMA GotStep == ASSUME TorrentsInv, NEW c \in Calls, Torrents!Got(c) PROVE TorrentsInv'
<1>1. call[c].pc = "get" /\ UNCHANGED <<torrents, state, moving, file, seen>>
  BY DEF Torrents!Got
<1>2. PICK i, u : i = call[c].id /\ u = call[c].user
  OBVIOUS
<1>3. state = "Working" /\ i \in Ids /\ u \in Users
  BY <1>1, <1>2, CallOf
<1>4. CASE i \in Torrents!Listed(lists.downloading)
  <2>1. UNCHANGED <<lists, task, lock>> /\ call' = [call EXCEPT ![c].pc = "done", ![c].answer = "error"]
    BY <1>2, <1>4 DEF Torrents!Got, Torrents!Answer
  <2>2. TasksSeen' /\ call' \in [Calls -> TaskCalls]
    BY <1>1, <2>1, CallIs
  <2> QED BY <1>1, <2>1, <2>2, SeenSteps DEF TorrentsInv, TorrentsTyped
<1>5. CASE i \notin Torrents!Listed(lists.downloading)
  <2>1. PICK L : L = [lists EXCEPT !.downloading = Append(@, i)]
    OBVIOUS
  <2>2. PICK T : T = [task EXCEPT ![i] = [state |-> "downloading", users |-> {u}]]
    OBVIOUS
  <2>3. lists' = L /\ task' = T /\ call' = [call EXCEPT ![c].pc = "cached"]
    BY <1>2, <1>5, <2>1, <2>2 DEF Torrents!Got
  <2>4. Torrents!Cache(L, T, TRUE)
    <3>1. Torrents!Cache(lists', task', TRUE)
      BY <1>2, <1>5 DEF Torrents!Got
    <3> QED BY <2>3, <3>1
  <2>5. /\ L \in TaskLists /\ Once(L.downloading)
        /\ Torrents!Listed(L.downloading) = Torrents!Listed(lists.downloading) \cup {i}
    <3>1. PICK D : D = lists.downloading
      OBVIOUS
    <3>2. lists \in TaskLists /\ D \in Seq(Ids) /\ Once(D)
      BY <3>1 DEF TorrentsInv, TorrentsTyped, TasksKept, TaskLists
    <3>3. PICK n \in Nat : n = Len(D) /\ DOMAIN D = 1 .. n
      BY <3>2
    <3>4. PICK E : E = Append(D, i)
      OBVIOUS
    <3>5. E \in Seq(Ids) /\ DOMAIN E = 1 .. n + 1 /\ E[n + 1] = i /\ \A k \in 1 .. n : E[k] = D[k]
      BY <1>3, <3>2, <3>3, <3>4
    <3>6. \A k \in 1 .. n : D[k] # i
      BY <1>5, <3>1, <3>3 DEF Torrents!Listed
    <3>7. Once(E)
      BY <3>2, <3>3, <3>5, <3>6 DEF Once
    <3>8. Torrents!Listed(E) = Torrents!Listed(D) \cup {i}
      <4>1. \A k \in DOMAIN E : k \in 1 .. n \/ k = n + 1
        BY <3>5
      <4>2. 1 .. n \subseteq DOMAIN E /\ n + 1 \in DOMAIN E
        BY <3>5
      <4> QED BY <3>3, <3>5, <4>1, <4>2 DEF Torrents!Listed
    <3>9. L \in TaskLists /\ L.downloading = E
      BY <2>1, <3>1, <3>2, <3>4, <3>5 DEF TaskLists
    <3> QED BY <3>1, <3>7, <3>8, <3>9
  <2>6. /\ T \in [Ids -> TaskRecs] /\ T[i].state = "downloading"
        /\ \A j \in Ids : j # i => T[j] = task[j]
    <3>1. [state |-> "downloading", users |-> {u}] \in TaskRecs /\ task \in [Ids -> TaskRecs]
      BY <1>3 DEF TaskRecs, TorrentsInv, TorrentsTyped
    <3> QED BY <1>3, <2>2, <3>1
  <2>7. TasksWritten' /\ lock' \in [on : BOOLEAN, more : BOOLEAN, what : TaskFiles]
    BY <1>1, <1>3, <2>3, <2>4, <2>5, <2>6, Cached DEF TorrentsInv
  <2>8. TasksSeen' /\ call' \in [Calls -> TaskCalls]
    BY <1>1, <1>3, <2>3, CallIs
  <2>9. TasksKept'
    <3>1. Torrents!Listed(lists.downloading)' = Torrents!Listed(lists.downloading) \cup {i}
      BY <2>3, <2>5 DEF Torrents!Listed
    <3>2. \A j \in Torrents!Listed(lists.downloading) : j \in Ids
      BY DEF Torrents!Listed, TorrentsInv, TorrentsTyped, TaskLists
    <3> QED BY <1>1, <1>3, <2>3, <2>5, <2>6, <3>1, <3>2 DEF TorrentsInv, TasksKept, Once
  <2> QED BY <1>1, <2>3, <2>5, <2>6, <2>7, <2>8, <2>9 DEF TorrentsInv, TorrentsTyped
<1> QED BY <1>4, <1>5

LEMMA ObserveStep == ASSUME TorrentsInv, NEW c \in Calls, Torrents!Observe(c) PROVE TorrentsInv'
<1>1. /\ call[c].pc = "cached" /\ UNCHANGED <<torrents, state, lists, task, moving, file, lock>>
      /\ call' = [call EXCEPT ![c].pc = "observed"]
      /\ seen' = IF seen.state = "Pending" THEN [seen EXCEPT !.state = "Working", !.asked = {c}]
                 ELSE [seen EXCEPT !.next = @ \cup {c}]
  BY DEF Torrents!Observe, Torrents!Get
<1>2. PICK s : s = seen'
  OBVIOUS
<1>3. /\ seen.state \in {"none", "Pending", "Working", "between"} /\ seen.asked \subseteq Calls /\ seen.next \subseteq Calls
      /\ call \in [Calls -> TaskCalls] /\ state = "Working" /\ seen.state # "none"
  BY <1>1 DEF TorrentsInv, TorrentsTyped, TasksSeen
<1>4. /\ s \in [state : {"none", "Pending", "Working", "between"}, asked : SUBSET Calls, next : SUBSET Calls]
      /\ s.state # "none" /\ s.asked \cup s.next = seen.asked \cup seen.next \cup {c}
      /\ s.asked \cap s.next \subseteq seen.asked \cap (seen.next \cup {c})
      /\ s.state # "Working" => s.asked = {}
      /\ s.state = "Pending" => s.next = {}
  <2>1. CASE seen.state = "Pending"
    <3>1. seen.asked = {} /\ seen.next = {}
      BY <2>1 DEF TorrentsInv, TasksSeen
    <3>2. s = [state |-> "Working", asked |-> {c}, next |-> {}]
      BY <1>1, <1>2, <2>1, <3>1 DEF TorrentsInv, TorrentsTyped
    <3> QED BY <1>3, <2>1, <3>1, <3>2
  <2>2. CASE seen.state # "Pending"
    <3>1. s = [state |-> seen.state, asked |-> seen.asked, next |-> seen.next \cup {c}]
      BY <1>1, <1>2, <2>2 DEF TorrentsInv, TorrentsTyped
    <3>2. seen.state # "Working" => seen.asked = {}
      BY DEF TorrentsInv, TasksSeen
    <3> QED BY <1>3, <2>2, <3>1, <3>2
  <2> QED BY <2>1, <2>2
<1>5. c \notin seen.asked \cup seen.next
  BY <1>1 DEF TorrentsInv, TasksSeen
<1>6. /\ call' \in [Calls -> TaskCalls] /\ call'[c].pc = "observed" /\ call'[c].answer = call[c].answer
      /\ call'[c].id = call[c].id /\ call'[c].user = call[c].user
      /\ \A d \in Calls : d # c => call'[d] = call[d]
  <2>1. [call[c] EXCEPT !.pc = "observed"] \in TaskCalls
    BY <1>3 DEF TaskCalls
  <2>2. call[c] \in TaskCalls /\ call' = [call EXCEPT ![c] = [call[c] EXCEPT !.pc = "observed"]]
    BY <1>1, <1>3
  <2> QED BY <1>3, <2>1, <2>2 DEF TaskCalls
<1>7. TasksSeen'
  <2>1. s.asked \cup s.next = {d \in Calls : call'[d].pc = "observed"}
    <3>1. seen.asked \cup seen.next = {d \in Calls : call[d].pc = "observed"}
      BY DEF TorrentsInv, TasksSeen
    <3> QED BY <1>4, <1>6, <3>1
  <2>2. s.asked \cap s.next = {}
    BY <1>4, <1>5 DEF TorrentsInv, TasksSeen
  <2> QED BY <1>1, <1>2, <1>3, <1>4, <1>6, <2>1, <2>2 DEF TorrentsInv, TasksSeen
<1> QED BY <1>1, <1>2, <1>4, <1>6, <1>7, SeenSteps DEF TorrentsInv, TorrentsTyped

\* Those that a query had to answer are answered.
LEMMA QueryAnswers ==
  ASSUME TorrentsInv, seen.state = "Working", state' = state, NEW V \in [Calls -> {"ok", "error"}],
         call' = [c \in Calls |-> IF c \in seen.asked THEN [call[c] EXCEPT !.pc = "done", !.answer = V[c]] ELSE call[c]],
         seen' = [seen EXCEPT !.asked = {}, !.state = Torrents!After(seen.next)]
  PROVE  /\ TasksSeen' /\ call' \in [Calls -> TaskCalls]
         /\ seen' \in [state : {"none", "Pending", "Working", "between"}, asked : SUBSET Calls, next : SUBSET Calls]
<1>1. call \in [Calls -> TaskCalls]
  BY DEF TorrentsInv, TorrentsTyped
<1>2. ASSUME NEW c \in Calls, NEW r, r = [call[c] EXCEPT !.pc = "done", !.answer = V[c]]
      PROVE  r \in TaskCalls /\ r.pc = "done" /\ r.answer # "none"
  <2>1. call[c] \in TaskCalls /\ V[c] \in {"ok", "error"}
    BY <1>1
  <2> QED BY <1>2, <2>1 DEF TaskCalls
<1>3. /\ \A c \in Calls : c \notin seen.asked => call'[c] = call[c]
      /\ \A c \in Calls : c \in seen.asked => call'[c].pc = "done" /\ call'[c].answer # "none"
      /\ call' \in [Calls -> TaskCalls]
  <2>1. ASSUME NEW c \in Calls PROVE
          /\ c \notin seen.asked => call'[c] = call[c]
          /\ c \in seen.asked => call'[c].pc = "done" /\ call'[c].answer # "none"
          /\ call'[c] \in TaskCalls
    <3>1. PICK r : r = [call[c] EXCEPT !.pc = "done", !.answer = V[c]]
      OBVIOUS
    <3>2. call'[c] = IF c \in seen.asked THEN r ELSE call[c]
      BY <3>1
    <3>3. r \in TaskCalls /\ r.pc = "done" /\ r.answer # "none"
      BY <1>2, <3>1
    <3> QED BY <1>1, <3>2, <3>3
  <2>2. DOMAIN call' = Calls /\ call' = [c \in Calls |-> call'[c]]
    OBVIOUS
  <2> QED BY <2>1, <2>2
<1>4. /\ seen'.asked = {} /\ seen'.next = seen.next /\ seen'.state = Torrents!After(seen.next)
      /\ seen'.state \in {"Pending", "between"} /\ (seen'.state = "Pending" => seen.next = {})
      /\ seen' \in [state : {"none", "Pending", "Working", "between"}, asked : SUBSET Calls, next : SUBSET Calls]
  <2>1. seen \in [state : {"none", "Pending", "Working", "between"}, asked : SUBSET Calls, next : SUBSET Calls]
    BY DEF TorrentsInv, TorrentsTyped
  <2>2. PICK a \in {"Pending", "between"} : a = Torrents!After(seen.next) /\ (a = "Pending" => seen.next = {})
    BY DEF Torrents!After
  <2> QED BY <2>1, <2>2
<1>5. /\ seen.asked \cap seen.next = {} /\ seen.asked \cup seen.next = {c \in Calls : call[c].pc = "observed"}
      /\ state = "Working"
  BY DEF TorrentsInv, TasksSeen
<1>6. seen'.next = {c \in Calls : call'[c].pc = "observed"}
  BY <1>3, <1>4, <1>5
<1>7. TasksSeen'
  BY <1>3, <1>4, <1>5, <1>6 DEF TorrentsInv, TasksSeen
<1> QED BY <1>3, <1>4, <1>7

LEMMA QueryFailsStep == ASSUME TorrentsInv, Torrents!QueryFails PROVE TorrentsInv'
<1>1. PICK V : V = [c \in Calls |-> "error"]
  OBVIOUS
<1>2. /\ seen.state = "Working" /\ UNCHANGED <<torrents, state, lists, task, moving, file, lock>>
      /\ call' = [c \in Calls |-> IF c \in seen.asked THEN [call[c] EXCEPT !.pc = "done", !.answer = V[c]] ELSE call[c]]
      /\ seen' = [seen EXCEPT !.asked = {}, !.state = Torrents!After(seen.next)]
  BY <1>1 DEF Torrents!QueryFails
<1>3. V \in [Calls -> {"ok", "error"}]
  BY <1>1
<1> QED BY <1>2, <1>3, QueryAnswers, SeenSteps DEF TorrentsInv, TorrentsTyped

LEMMA QueryStep == ASSUME TorrentsInv, Torrents!Query PROVE TorrentsInv'
<1>1. PICK has : has = {i \in Ids : torrents[i] # "none"}
  OBVIOUS
<1>2. PICK L : L = lists.downloading
  OBVIOUS
<1>3. PICK lost : lost = {k \in DOMAIN L : L[k] \notin has}
  OBVIOUS
<1>4. PICK first : first = {k \in lost : \A j \in lost : k <= j}
  OBVIOUS
<1>5. PICK V : V = [c \in Calls |-> IF call[c].id \in has THEN "ok" ELSE "error"]
  OBVIOUS
<1>6. PICK T : T = Torrents!Set(L)
  OBVIOUS
<1>7. PICK A : A = [lists EXCEPT !.downloading = Torrents!Without(L, first)]
  OBVIOUS
<1>8. PICK B : B = [lists EXCEPT !.downloading = Torrents!Without(L, lost)]
  OBVIOUS
<1>9. /\ seen.state = "Working" /\ UNCHANGED <<torrents, state, moving, file>>
      /\ task' = T
      /\ IF lost = {} THEN UNCHANGED <<lists, lock>> ELSE lists' = B /\ Torrents!Cache(A, task', lost # first)
      /\ call' = [c \in Calls |-> IF c \in seen.asked THEN [call[c] EXCEPT !.pc = "done", !.answer = V[c]] ELSE call[c]]
      /\ seen' = [seen EXCEPT !.asked = {}, !.state = Torrents!After(seen.next)]
  <2>1. call' = [c \in Calls |-> IF c \notin seen.asked THEN call[c]
                 ELSE [call[c] EXCEPT !.pc = "done", !.answer = IF call[c].id \in has THEN "ok" ELSE "error"]]
    BY <1>1 DEF Torrents!Query
  <2>2. \A c \in Calls : V[c] = IF call[c].id \in has THEN "ok" ELSE "error"
    BY <1>5
  <2>3. call' = [c \in Calls |-> IF c \in seen.asked THEN [call[c] EXCEPT !.pc = "done", !.answer = V[c]] ELSE call[c]]
    BY <2>1, <2>2
  <2>4. IF lost = {} THEN UNCHANGED <<lists, lock>> ELSE lists' = B /\ Torrents!Cache(A, task', lost # first)
    BY <1>1, <1>2, <1>3, <1>4, <1>7, <1>8 DEF Torrents!Query
  <2> QED BY <1>2, <1>6, <2>3, <2>4 DEF Torrents!Query
<1>10. V \in [Calls -> {"ok", "error"}]
  BY <1>5
<1>11. /\ TasksSeen' /\ call' \in [Calls -> TaskCalls]
       /\ seen' \in [state : {"none", "Pending", "Working", "between"}, asked : SUBSET Calls, next : SUBSET Calls]
  BY <1>9, <1>10, QueryAnswers
<1>12. lists \in TaskLists /\ L \in Seq(Ids) /\ Once(L) /\ task \in [Ids -> TaskRecs] /\ state = "Working"
  BY <1>2, <1>9 DEF TorrentsInv, TorrentsTyped, TasksKept, TaskLists, TasksSeen
<1>13. /\ T \in [Ids -> TaskRecs] /\ \A i \in Ids : T[i].users = task[i].users
       /\ \A i \in Ids : task[i].state \in {"downloading", "next", "moving"} => T[i].state \in {"downloading", "next", "moving"}
  <2>1. T = [i \in Ids |-> IF i \in Torrents!Listed(L) /\ torrents[i] = "done" /\ task[i].state = "downloading"
                          THEN [task[i] EXCEPT !.state = "next"] ELSE task[i]]
    BY <1>6 DEF Torrents!Set
  <2>2. ASSUME NEW i \in Ids, NEW r, r = [task[i] EXCEPT !.state = "next"]
        PROVE  r \in TaskRecs /\ r.state = "next" /\ r.users = task[i].users
    <3>1. task[i] \in TaskRecs
      BY <1>12
    <3> QED BY <2>2, <3>1 DEF TaskRecs
  <2>3. ASSUME NEW i \in Ids PROVE
          /\ T[i] \in TaskRecs /\ T[i].users = task[i].users
          /\ task[i].state \in {"downloading", "next", "moving"} => T[i].state \in {"downloading", "next", "moving"}
    <3>1. PICK r : r = [task[i] EXCEPT !.state = "next"]
      OBVIOUS
    <3>2. T[i] = r \/ T[i] = task[i]
      BY <2>1, <3>1
    <3> QED BY <1>12, <2>2, <3>1, <3>2
  <2>4. T = [i \in Ids |-> T[i]]
    BY <2>1
  <2> QED BY <2>3, <2>4
<1>14. ASSUME NEW K, NEW W, W = [lists EXCEPT !.downloading = Torrents!Without(L, K)]
       PROVE  W \in TaskLists /\ Once(W.downloading) /\ Torrents!Listed(W.downloading) \subseteq Torrents!Listed(L)
  <2>1. PICK D : D = Torrents!Without(L, K)
    OBVIOUS
  <2>2. D \in Seq(Ids) /\ Once(D) /\ Torrents!Listed(D) \subseteq Torrents!Listed(L)
    BY <1>12, <2>1, WithoutSome
  <2>3. W \in TaskLists /\ W.downloading = D
    BY <1>12, <1>14, <2>1, <2>2 DEF TaskLists
  <2> QED BY <2>2, <2>3
<1>15. /\ lists' \in TaskLists /\ Once(lists'.downloading) /\ Torrents!Listed(lists'.downloading) \subseteq Torrents!Listed(L)
  BY <1>2, <1>8, <1>9, <1>12, <1>14
<1>16. TasksWritten' /\ lock' \in [on : BOOLEAN, more : BOOLEAN, what : TaskFiles]
  <2>1. CASE lost = {}
    <3>1. UNCHANGED <<lists, lock>>
      BY <1>9, <2>1
    <3>2. Torrents!Infor(lists, task)' = Torrents!Infor(lists, task)
      <4>1. Torrents!Infor(lists, T) = Torrents!Infor(lists, task)
        <5>1. [i \in Ids |-> IF i \in Torrents!Listed(L) THEN T[i].users ELSE {}]
                = [i \in Ids |-> IF i \in Torrents!Listed(L) THEN task[i].users ELSE {}]
          BY <1>13
        <5>2. \A X \in {T, task} : Torrents!Infor(lists, X) = [downloading |-> L, downloaded |-> <<>>,
                users |-> [i \in Ids |-> IF i \in Torrents!Listed(L) THEN X[i].users ELSE {}]]
          BY <1>2, <1>12, <1>13, InforWhole
        <5> QED BY <5>1, <5>2
      <4> QED BY <1>9, <3>1, <4>1 DEF Torrents!Infor
    <3> QED BY <1>9, <3>1, <3>2 DEF TorrentsInv, TorrentsTyped, TasksWritten, Whole
  <2>2. CASE lost # {}
    <3>1. lists' = B /\ Torrents!Cache(A, T, lost # first)
      BY <1>9, <2>2
    <3>2. A \in TaskLists /\ Once(A.downloading)
      BY <1>7, <1>14
    <3>3. PICK again \in BOOLEAN : again = (lost # first)
      OBVIOUS
    <3>4. A = lists' \/ again
      BY <1>7, <1>8, <3>1, <3>3
    <3>5. Torrents!Cache(A, T, again)
      BY <3>1, <3>3
    <3> QED BY <1>9, <1>12, <1>13, <3>2, <3>4, <3>5, Cached DEF TorrentsInv
  <2> QED BY <2>1, <2>2
<1>17. TasksKept'
  <2>1. Torrents!Listed(lists.downloading)' = Torrents!Listed(lists'.downloading)
    BY DEF Torrents!Listed
  <2>2. \A i \in Torrents!Listed(L) : i \in Ids /\ task[i].state \in {"downloading", "next", "moving"}
    BY <1>2, <1>12 DEF TorrentsInv, TasksKept, Torrents!Listed
  <2>3. Len(moving.now) <= 1 /\ (moving.now = <<>> => moving.ready = <<>>)
    BY DEF TorrentsInv, TasksKept
  <2> QED BY <1>9, <1>12, <1>13, <1>15, <2>1, <2>2, <2>3 DEF TasksKept, Once
<1> QED BY <1>9, <1>11, <1>12, <1>13, <1>15, <1>16, <1>17 DEF TorrentsInv, TorrentsTyped

LEMMA TimerStep == ASSUME TorrentsInv, Torrents!Timer PROVE TorrentsInv'
<1>1. /\ seen.state \in {"Pending", "between"} /\ state = "Working"
      /\ UNCHANGED <<torrents, state, lists, task, moving, file, lock, call>>
      /\ seen' = [state |-> "Working", asked |-> seen.next, next |-> {}]
  BY DEF Torrents!Timer
<1>2. seen.asked = {} /\ seen.next \subseteq Calls
  BY <1>1 DEF TorrentsInv, TasksSeen, TorrentsTyped
<1>3. seen' \in [state : {"none", "Pending", "Working", "between"}, asked : SUBSET Calls, next : SUBSET Calls]
  BY <1>1, <1>2
<1>4. TasksSeen'
  BY <1>1, <1>2 DEF TorrentsInv, TasksSeen
<1> QED BY <1>1, <1>3, <1>4, SeenSteps DEF TorrentsInv, TorrentsTyped

LEMMA MoveStep == ASSUME TorrentsInv, NEW i \in Ids, Torrents!Move(i) PROVE TorrentsInv'
<1>1. PICK T : T = [task EXCEPT ![i].state = "moving"]
  OBVIOUS
<1>2. PICK D : D = Torrents!Rest(lists.downloading, i)
  OBVIOUS
<1>3. PICK L : L = [lists EXCEPT !.downloading = D]
  OBVIOUS
<1>4. /\ task[i].state = "next" /\ task' = T /\ lists' = L /\ Torrents!Cache(L, T, FALSE)
      /\ Torrents!AddToMoveQueue(i) /\ UNCHANGED <<torrents, state, file, seen, call>>
  BY <1>1, <1>2, <1>3 DEF Torrents!Move
<1>5. lists \in TaskLists /\ lists.downloading \in Seq(Ids) /\ Once(lists.downloading) /\ task \in [Ids -> TaskRecs]
  BY DEF TorrentsInv, TorrentsTyped, TasksKept, TaskLists
<1>6. D \in Seq(Ids) /\ Once(D) /\ Torrents!Listed(D) \subseteq Torrents!Listed(lists.downloading)
  BY <1>2, <1>5, RestOf
<1>7. L \in TaskLists /\ L.downloading = D
  BY <1>3, <1>5, <1>6 DEF TaskLists
<1>8. T \in [Ids -> TaskRecs] /\ T[i].state = "moving" /\ \A j \in Ids : j # i => T[j] = task[j]
  <2>1. PICK r : r = [task[i] EXCEPT !.state = "moving"]
    OBVIOUS
  <2>2. task[i] \in TaskRecs
    BY <1>5
  <2>3. r \in TaskRecs /\ r.state = "moving"
    BY <2>1, <2>2 DEF TaskRecs
  <2>4. T = [task EXCEPT ![i] = r]
    BY <1>1, <1>5, <2>1
  <2> QED BY <1>5, <2>3, <2>4
<1>9. state = "Working"
  <2>1. CASE state # "Working"
    BY <1>4, <2>1 DEF TorrentsInv, TasksKept
  <2> QED BY <2>1
<1>10. TasksWritten' /\ lock' \in [on : BOOLEAN, more : BOOLEAN, what : TaskFiles]
  BY <1>4, <1>6, <1>7, <1>8, <1>9, Cached DEF TorrentsInv
<1>11. /\ moving' \in [ready : Seq(Ids), now : Seq(Ids)]
       /\ Len(moving'.now) <= 1 /\ (moving'.now = <<>> => moving'.ready = <<>>)
  <2>1. moving \in [ready : Seq(Ids), now : Seq(Ids)] /\ Len(moving.now) <= 1
    BY DEF TorrentsInv, TorrentsTyped, TasksKept
  <2>2. CASE moving.now = <<>>
    <3>1. moving' = [moving EXCEPT !.now = <<i>>]
      BY <1>4, <2>2 DEF Torrents!AddToMoveQueue
    <3>2. <<i>> \in Seq(Ids) /\ Len(<<i>>) = 1 /\ <<i>> # <<>>
      OBVIOUS
    <3>3. moving'.now = <<i>> /\ moving'.ready = moving.ready /\ moving' \in [ready : Seq(Ids), now : Seq(Ids)]
      BY <2>1, <3>1, <3>2
    <3> QED BY <3>2, <3>3
  <2>3. CASE moving.now # <<>>
    <3>1. moving' = [moving EXCEPT !.ready = Append(moving.ready, i)]
      BY <1>4, <2>3 DEF Torrents!AddToMoveQueue
    <3>2. moving.ready \in Seq(Ids) /\ Append(moving.ready, i) \in Seq(Ids)
      BY <2>1
    <3> QED BY <2>1, <2>3, <3>1, <3>2
  <2> QED BY <2>2, <2>3
<1>12. TasksKept'
  <2>1. Torrents!Listed(lists.downloading)' = Torrents!Listed(D)
    BY <1>4, <1>7 DEF Torrents!Listed
  <2>2. \A j \in Torrents!Listed(lists.downloading) : j \in Ids /\ task[j].state \in {"downloading", "next", "moving"}
    BY <1>5 DEF TorrentsInv, TasksKept, Torrents!Listed
  <2> QED BY <1>4, <1>6, <1>7, <1>8, <1>9, <1>11, <2>1, <2>2 DEF TasksKept, Once
<1> QED BY <1>4, <1>7, <1>8, <1>10, <1>11, <1>12 DEF TorrentsInv, TorrentsTyped, TasksSeen

LEMMA DaemonStep ==
  ASSUME TorrentsInv, NEW i \in Ids, Torrents!Downloaded(i) \/ Torrents!Dropped(i) PROVE TorrentsInv'
<1>1. UNCHANGED <<state, lists, task, moving, file, lock, seen, call>>
  BY DEF Torrents!Downloaded, Torrents!Dropped
<1>2. torrents' \in [Ids -> {"none", "loading", "done"}]
  BY DEF Torrents!Downloaded, Torrents!Dropped, TorrentsInv, TorrentsTyped
<1>3. TasksSeen'
  BY <1>1 DEF TorrentsInv, TasksSeen
<1> QED BY <1>1, <1>2, <1>3, SeenSteps DEF TorrentsInv, TorrentsTyped

LEMMA RestartStep == ASSUME TorrentsInv, Torrents!Ends PROVE TorrentsInv'
<1>1. /\ state' = "new" /\ lists' = [downloading |-> <<>>, downloaded |-> <<>>] /\ torrents' = torrents
      /\ task' = [i \in Ids |-> Torrents!NoTask] /\ moving' = [ready |-> <<>>, now |-> <<>>]
      /\ file' \in {file} \cup (IF lock.on THEN {lock.what, Torrents!Torn} ELSE {})
      /\ lock' = Torrents!Unlocked /\ seen' = [state |-> "none", asked |-> {}, next |-> {}]
      /\ call' = [c \in Calls |-> IF call[c].pc \in {"idle", "done"} THEN call[c]
                                  ELSE [call[c] EXCEPT !.pc = "done", !.answer = "lost"]]
  BY DEF Torrents!Ends
<1>2. Whole(Torrents!Empty) /\ lock' = [on |-> FALSE, more |-> FALSE, what |-> Torrents!Empty]
  <2>1. Whole(Torrents!Empty)
    BY DEF Torrents!Empty, Whole, TaskFiles, Once
  <2> QED BY <1>1, <2>1 DEF Torrents!Unlocked
<1>3. call \in [Calls -> TaskCalls]
  BY DEF TorrentsInv, TorrentsTyped
<1>4. ASSUME NEW c \in Calls
      PROVE  /\ call'[c] \in TaskCalls /\ call'[c].pc \in {"idle", "done"}
             /\ call'[c].pc = "done" <=> call'[c].answer # "none"
  <2>1. CASE call[c].pc \in {"idle", "done"}
    BY <1>1, <1>3, <2>1 DEF TorrentsInv, TasksSeen
  <2>2. CASE call[c].pc \notin {"idle", "done"}
    <3>1. call'[c] = [call[c] EXCEPT !.pc = "done", !.answer = "lost"]
      BY <1>1, <2>2
    <3>2. call[c] \in TaskCalls
      BY <1>3
    <3> QED BY <3>1, <3>2 DEF TaskCalls
  <2> QED BY <2>1, <2>2
<1>5. call' \in [Calls -> TaskCalls]
  BY <1>1, <1>4
<1>6. TorrentsTyped'
  <2>1. Torrents!NoTask \in TaskRecs
    BY DEF Torrents!NoTask, TaskRecs
  <2>2. lists' \in TaskLists /\ moving' \in [ready : Seq(Ids), now : Seq(Ids)]
    <3>1. <<>> \in Seq(Ids)
      OBVIOUS
    <3> QED BY <1>1, <3>1 DEF TaskLists
  <2>3. lock' \in [on : BOOLEAN, more : BOOLEAN, what : TaskFiles]
    BY <1>2 DEF Whole
  <2>4. task' \in [Ids -> TaskRecs]
    BY <1>1, <2>1
  <2> QED BY <1>1, <1>5, <2>2, <2>3, <2>4 DEF TorrentsTyped, TorrentsInv
<1>7. TasksKept'
  <2>1. lists'.downloading = <<>> /\ moving'.now = <<>> /\ moving'.ready = <<>>
    BY <1>1
  <2>2. Torrents!Listed(lists.downloading)' = {} /\ Once(lists'.downloading)
    BY <2>1 DEF Torrents!Listed, Once
  <2>3. \A i \in Ids : task'[i].state = "none"
    BY <1>1 DEF Torrents!NoTask
  <2> QED BY <2>1, <2>2, <2>3 DEF TasksKept, Once
<1>8. TasksWritten'
  <2>1. Whole(file') \/ file' = Torrents!Torn
    BY <1>1 DEF TorrentsInv, TasksWritten
  <2>2. lock'.what = Torrents!Empty /\ ~lock'.on /\ ~lock'.more /\ state' = "new"
    <3>1. state' = "new"
      BY <1>1
    <3> QED BY <1>2, <3>1
  <2>3. Whole(lock'.what)
    BY <1>2, <2>2
  <2> QED BY <2>1, <2>2, <2>3 DEF TasksWritten, Whole, Torrents!Torn, Torrents!Empty
<1>9. TasksSeen'
  BY <1>1, <1>4 DEF TasksSeen
<1> QED BY <1>6, <1>7, <1>8, <1>9 DEF TorrentsInv

LEMMA TorrentsStep == TorrentsInv /\ [Torrents!Next]_(Torrents!vars) => TorrentsInv'
<1> SUFFICES ASSUME TorrentsInv, [Torrents!Next]_(Torrents!vars) PROVE TorrentsInv'
  OBVIOUS
<1>1. CASE UNCHANGED Torrents!vars
  <2>1. TasksSeen'
    BY <1>1 DEF Torrents!vars, TorrentsInv, TasksSeen
  <2> QED BY <1>1, <2>1, SeenSteps DEF Torrents!vars, TorrentsInv, TorrentsTyped
<1>2. CASE \E ok \in BOOLEAN : Torrents!New(ok) \/ Torrents!Start(ok)
  BY <1>2, NewStep, StartStep
<1>3. CASE Torrents!Written \/ Torrents!WrittenSame
  BY <1>3, WrittenStep
<1>4. CASE Torrents!Query \/ Torrents!QueryFails \/ Torrents!Timer \/ Torrents!Crash \/ Torrents!Throws
  <2>1. CASE Torrents!Query \/ Torrents!QueryFails \/ Torrents!Timer
    BY <2>1, QueryStep, QueryFailsStep, TimerStep
  <2>2. CASE Torrents!Crash \/ Torrents!Throws
    <3>1. Torrents!Ends
      BY <2>2 DEF Torrents!Crash, Torrents!Throws
    <3> QED BY <3>1, RestartStep
  <2> QED BY <1>4, <2>1, <2>2
<1>5. CASE \E i \in Ids : Torrents!Move(i) \/ Torrents!Downloaded(i) \/ Torrents!Dropped(i)
  BY <1>5, MoveStep, DaemonStep
<1>6. CASE \E c \in Calls : \/ Torrents!Added(c) \/ Torrents!Got(c) \/ Torrents!Observe(c) \/ Torrents!PostFails(c)
                            \/ \E i \in Ids, u \in Users : Torrents!Post(c, i, u)
  BY <1>6, AddedStep, GotStep, ObserveStep, PostFailsStep, PostStep
<1> QED BY <1>1, <1>2, <1>3, <1>4, <1>5, <1>6 DEF Torrents!Next, Torrents!Proceed

\* The lists hold each task once and no call is lost by the observer (manager.js, transObserver.js).
THEOREM TasksAreTyped == Torrents!Spec => []Torrents!TypeOK
<1>1. TorrentsInv => Torrents!TypeOK
  <2> SUFFICES ASSUME TorrentsInv PROVE Torrents!TypeOK
    OBVIOUS
  <2>1. \A i \in Ids : torrents[i] \in {"none", "loading", "done"} /\ task[i].users \subseteq Users
    BY DEF TorrentsInv, TorrentsTyped, TaskRecs
  <2>2. lists.downloaded = <<>> /\ Torrents!Listed(lists.downloaded) = {}
    BY DEF TorrentsInv, TorrentsTyped, TaskLists, Torrents!Listed
  <2>3. Torrents!IsInjective(lists.downloading) /\ Torrents!IsInjective(lists.downloaded)
    BY <2>2 DEF Torrents!IsInjective, TorrentsInv, TasksKept, Once
  <2> QED BY <2>1, <2>2, <2>3 DEF Torrents!TypeOK, TorrentsInv, TorrentsTyped, TasksKept, TasksWritten, TasksSeen
<1> QED BY <1>1, TorrentsBegin, TorrentsStep, PTL DEF Torrents!Spec

\* When no write is under way storage.json holds the lists as they are (manager.js 156).
THEOREM FileFollowsTasks == Torrents!Spec => []Torrents!CacheFollows
<1>1. TorrentsInv => Torrents!CacheFollows
  BY DEF TorrentsInv, TasksWritten, Torrents!CacheFollows
<1> QED BY <1>1, TorrentsBegin, TorrentsStep, PTL DEF Torrents!Spec

=============================================================================
