----------------------------- MODULE ForestProofs -----------------------------
(* The index of directories, for any directories, names, trees and calls.  *)
EXTENDS Forest, SequenceTheorems, TLAPS

-----------------------------------------------------------------------------
(* What becomes of a Directory object.                                     *)

\* Directory objects, apart from where their parents are.
Typed(N) ==
  /\ DOMAIN N = Dirs
  /\ \A d \in Dirs : /\ N[d] \in Objects(N[d].path)
                     /\ N[d].state = "none" => N[d] = Absent
                     /\ N[d].phase # "idle" <=> N[d].state = "Reading"
                     /\ N[d].waiting # {} => N[d].queued = "now"
Rooted(N) == \A d \in Dirs : N[d].up \in IF d = Root THEN {None} ELSE Indexed(N) \cup {None}

\* A read under way goes on.
Kept(a, b) == /\ a.mtime = b.mtime /\ a.phase = b.phase /\ a.first = b.first
              /\ a.entries = b.entries /\ a.asked = b.asked /\ a.waiting = b.waiting
\* It is over, or begins anew for those who waited; time is a newer mtime to record.
New(a, b, time) == /\ a.phase \in {"idle", "stat"} /\ a.mtime \in {b.mtime, Never, time}
                   /\ a.waiting = {} /\ a.asked \in {{}, b.waiting}
Follows(a, b, time) == Kept(a, b) \/ New(a, b, time)
\* Its place stays.
Placed(a, b) == /\ a.up = b.up /\ a.name = b.name /\ a.mtime = b.mtime
                /\ a.state = "none" <=> b.state = "none"
\* Its place stays, or there was none.
Found(a, b) == Placed(a, b) \/ (b.state = "none" /\ a.up = None /\ a.mtime = Never)

LEMMA FollowsTwice ==
  ASSUME NEW a, NEW b, NEW c, NEW time
  PROVE  /\ Follows(a, b, time) /\ Follows(b, c, time) => Follows(a, c, time)
         /\ New(a, b, time) /\ Follows(b, c, time) => New(a, c, time)
  BY DEF Follows, Kept, New

LEMMA FoundTwice ==
  ASSUME NEW a, NEW b, NEW c, b.state = "none" => b.up = None /\ b.mtime = Never
  PROVE  Found(a, b) /\ Found(b, c) => Found(a, c)
  BY DEF Found, Placed

\* Whether a step is due, what may go wrong, and what the index may have missed.
Flags == {due, down} \subseteq BOOLEAN /\ faults \in Nat /\ {missed, skipped} \subseteq [Dirs -> SUBSET Dirs]

LEMMA AbsentIs ==
  /\ Absent \in Objects(Absent.path) /\ Absent.state = "none" /\ Absent.up = None
  /\ Absent.name = None /\ Absent.mtime = Never /\ Absent.phase = "idle" /\ Absent.asked = {}
  /\ Absent.waiting = {} /\ Absent.queued = "no" /\ Absent.entries = {}
  BY DEF Absent, Objects

LEMMA StartIs ==
  ASSUME NEW N, Typed(N), NEW d \in Dirs, NEW C \in SUBSET Clients
  PROVE  /\ Typed(Start(N, d, C))
         /\ \A x \in Dirs \ {d} : Start(N, d, C)[x] = N[x]
         /\ Start(N, d, C)[d].state = "Reading" /\ Start(N, d, C)[d].phase = "stat"
         /\ Start(N, d, C)[d].asked = C /\ Start(N, d, C)[d].waiting = {}
         /\ Found(Start(N, d, C)[d], N[d]) /\ Start(N, d, C)[d].mtime = N[d].mtime
         /\ Start(N, d, C)[d].up = N[d].up
<1>1. PICK p : p = Path(N, d)
  OBVIOUS
<1>2. PICK v : v = [N[d] EXCEPT !.state = "Reading", !.asked = C, !.waiting = {}, !.queued = "no",
                                !.phase = "stat", !.path = p, !.entries = {}]
  OBVIOUS
<1>3. N[d] \in Objects(N[d].path) /\ DOMAIN N = Dirs
  BY DEF Typed
<1>4. /\ v \in Objects(v.path) /\ v.state = "Reading" /\ v.phase = "stat" /\ v.asked = C /\ v.waiting = {}
      /\ v.up = N[d].up /\ v.name = N[d].name /\ v.mtime = N[d].mtime
  BY <1>2, <1>3 DEF Objects
<1>5. N[d].state = "none" => N[d].up = None /\ N[d].mtime = Never
  BY AbsentIs DEF Typed
<1>6. PICK W : W = Start(N, d, C)
  OBVIOUS
<1>7. W = [N EXCEPT ![d] = v]
  BY <1>1, <1>2, <1>6 DEF Start
<1>8. DOMAIN W = Dirs /\ W[d] = v /\ \A x \in Dirs \ {d} : W[x] = N[x]
  BY <1>3, <1>7
<1>9. Typed(W)
  BY <1>4, <1>8 DEF Typed
<1> QED BY <1>4, <1>5, <1>6, <1>8, <1>9 DEF Found, Placed

LEMMA ReadIs ==
  ASSUME NEW N, Typed(N), NEW S
  PROVE  /\ Typed(Read(N, S))
         /\ \A x \in Dirs : /\ x \notin S => Read(N, S)[x] = N[x]
                            /\ Found(Read(N, S)[x], N[x]) /\ Read(N, S)[x].up = N[x].up
                            /\ Read(N, S)[x].mtime = N[x].mtime
                            /\ Read(N, S)[x].state # "none" \/ Read(N, S)[x] = N[x]
                            /\ \A time : Follows(Read(N, S)[x], N[x], time)
<1>1. DOMAIN Read(N, S) = Dirs
  BY DEF Read
<1>2. ASSUME NEW x \in Dirs
      PROVE  /\ Read(N, S)[x] \in Objects(Read(N, S)[x].path)
             /\ Read(N, S)[x].state = "none" => Read(N, S)[x] = Absent
             /\ Read(N, S)[x].phase # "idle" <=> Read(N, S)[x].state = "Reading"
             /\ Read(N, S)[x].waiting # {} => Read(N, S)[x].queued = "now"
             /\ x \notin S => Read(N, S)[x] = N[x]
             /\ Found(Read(N, S)[x], N[x]) /\ Read(N, S)[x].up = N[x].up
             /\ Read(N, S)[x].mtime = N[x].mtime
             /\ Read(N, S)[x].state # "none" \/ Read(N, S)[x] = N[x]
             /\ \A time : Follows(Read(N, S)[x], N[x], time)
  <2>1. PICK W : W = Read(N, S)[x]
    OBVIOUS
  <2>2. W = IF x \notin S THEN N[x] ELSE IF N[x].state = "Reading" THEN [N[x] EXCEPT !.queued = "now"]
            ELSE Start(N, x, {})[x]
    BY <2>1 DEF Read
  <2>3. /\ N[x] \in Objects(N[x].path) /\ (N[x].state = "none" => N[x] = Absent)
        /\ N[x].phase # "idle" <=> N[x].state = "Reading"
        /\ N[x].waiting # {} => N[x].queued = "now"
    BY DEF Typed
  <2>4. CASE x \notin S
    BY <2>1, <2>2, <2>3, <2>4 DEF Found, Placed, Follows, Kept
  <2>5. CASE x \in S /\ N[x].state = "Reading"
    <3>1. W = [N[x] EXCEPT !.queued = "now"]
      BY <2>2, <2>5
    <3>2. /\ W \in Objects(W.path) /\ W.state = "Reading" /\ W.phase = N[x].phase /\ W.queued = "now"
          /\ W.up = N[x].up /\ W.name = N[x].name /\ W.mtime = N[x].mtime /\ W.first = N[x].first
          /\ W.entries = N[x].entries /\ W.asked = N[x].asked /\ W.waiting = N[x].waiting
      BY <2>3, <2>5, <3>1 DEF Objects
    <3> QED BY <2>1, <2>3, <2>5, <3>2 DEF Found, Placed, Follows, Kept
  <2>6. CASE x \in S /\ N[x].state # "Reading"
    <3>1. W = Start(N, x, {})[x] /\ {} \in SUBSET Clients
      BY <2>2, <2>6
    <3>2. /\ Typed(Start(N, x, {})) /\ W.state = "Reading" /\ W.phase = "stat"
          /\ W.asked = {} /\ W.waiting = {} /\ Found(W, N[x]) /\ W.mtime = N[x].mtime /\ W.up = N[x].up
      BY <3>1, StartIs
    <3>3. W \in Objects(W.path)
      BY <3>1, <3>2 DEF Typed
    <3> QED BY <2>1, <2>6, <3>2, <3>3 DEF Follows, New
  <2> QED BY <2>4, <2>5, <2>6
<1> QED BY <1>1, <1>2 DEF Typed

LEMMA AfterIs ==
  ASSUME NEW N, Typed(N), NEW d \in Dirs, NEW again
  PROVE  /\ Typed(After(N, d, again))
         /\ \A x \in Dirs \ {d} : After(N, d, again)[x] = N[x]
         /\ After(N, d, again)[d].state # "none"
         /\ After(N, d, again)[d].up = N[d].up /\ After(N, d, again)[d].name = N[d].name
         /\ After(N, d, again)[d].mtime = N[d].mtime
         /\ \A time : New(After(N, d, again)[d], N[d], time)
<1>1. PICK W : W = After(N, d, again)
  OBVIOUS
<1>2. N[d] \in Objects(N[d].path) /\ DOMAIN N = Dirs /\ N[d].waiting \in SUBSET Clients
  BY DEF Typed, Objects
<1>3. CASE N[d].queued = "now"
  <2>1. W = Start(N, d, N[d].waiting)
    BY <1>1, <1>3 DEF After
  <2>2. /\ Typed(W) /\ (\A x \in Dirs \ {d} : W[x] = N[x]) /\ W[d].state = "Reading"
        /\ W[d].phase = "stat" /\ W[d].asked = N[d].waiting /\ W[d].waiting = {}
        /\ Found(W[d], N[d]) /\ W[d].mtime = N[d].mtime /\ W[d].up = N[d].up
    BY <1>2, <2>1, StartIs
  <2>3. W[d].name = N[d].name
    BY <1>2, <2>1 DEF Start, Objects
  <2> QED BY <1>1, <2>2, <2>3 DEF New
<1>4. CASE N[d].queued # "now"
  <2>1. PICK s \in {"Idle", "Pending"} : W = [N EXCEPT ![d] = Resting(N, d, s)]
    <3>1. CASE again
      BY <1>1, <1>4, <3>1 DEF After
    <3>2. CASE ~again
      BY <1>1, <1>4, <3>2 DEF After
    <3> QED BY <3>1, <3>2
  <2>2. PICK v : v = Resting(N, d, s)
    OBVIOUS
  <2>3. /\ v \in Objects(v.path) /\ v.state = s /\ v.phase = "idle" /\ v.asked = {} /\ v.waiting = {}
        /\ v.up = N[d].up /\ v.name = N[d].name /\ v.mtime = N[d].mtime
    BY <1>2, <2>2 DEF Resting, Absent, Objects
  <2>4. DOMAIN W = Dirs /\ W[d] = v /\ \A x \in Dirs \ {d} : W[x] = N[x]
    BY <1>2, <2>1, <2>2
  <2>5. Typed(W)
    BY <2>3, <2>4 DEF Typed
  <2> QED BY <1>1, <2>3, <2>4, <2>5 DEF New
<1> QED BY <1>3, <1>4

-----------------------------------------------------------------------------
(* The tree.                                                               *)

\* A directory is below another if its parent is, or is that other.
LEMMA BelowIs ==
  ASSUME NEW N, Rooted(N), NEW d \in Dirs
  PROVE  /\ Below(N, d) \subseteq Indexed(N)
         /\ \A x \in Indexed(N) : x \in Below(N, d) <=> N[x].up = d \/ N[x].up \in Below(N, d)
<1> DEFINE Up(f) == [x \in Dirs |-> x # Root /\ (N[x].up = d \/ (N[x].up \in Dirs /\ f[N[x].up]))]
           Ups == {S \in SUBSET Dirs : \A x \in S : x # Root /\ (N[x].up = d \/ N[x].up \in S)}
           M == UNION Ups
           m == [x \in Dirs |-> x \in M]
<1>1. ASSUME NEW x \in Dirs
      PROVE  x \in M <=> x # Root /\ (N[x].up = d \/ N[x].up \in M)
  <2>1. ASSUME x \in M PROVE x # Root /\ (N[x].up = d \/ N[x].up \in M)
    BY <2>1
  <2>2. ASSUME x # Root, N[x].up = d PROVE x \in M
    <3>1. {x} \in Ups
      BY <2>2
    <3> QED BY <3>1
  <2>3. ASSUME x # Root, NEW S \in Ups, N[x].up \in S PROVE x \in M
    <3>1. S \cup {x} \in Ups
      BY <2>3
    <3> QED BY <3>1
  <2> QED BY <2>1, <2>2, <2>3
<1>2. m = Up(m)
  <2>1. \A y : y \in M <=> y \in Dirs /\ m[y]
    OBVIOUS
  <2> HIDE DEF M
  <2>2. ASSUME NEW x \in Dirs PROVE m[x] = Up(m)[x]
    <3>1. m[x] <=> x # Root /\ (N[x].up = d \/ (N[x].up \in Dirs /\ m[N[x].up]))
      BY <1>1, <2>1
    <3>2. m[x] \in BOOLEAN /\ Up(m)[x] \in BOOLEAN
      OBVIOUS
    <3>3. Up(m)[x] <=> x # Root /\ (N[x].up = d \/ (N[x].up \in Dirs /\ m[N[x].up]))
      OBVIOUS
    <3> QED BY <3>1, <3>2, <3>3
  <2> QED BY <2>2
<1>3. PICK f : f = CHOOSE g : g = Up(g)
  OBVIOUS
<1>4. f = Up(f)
  BY <1>2, <1>3
<1>5. Below(N, d) = {x \in Indexed(N) : f[x]}
  BY <1>3 DEF Below
<1>6. ASSUME NEW x \in Indexed(N)
      PROVE  f[x] <=> N[x].up = d \/ N[x].up \in {y \in Indexed(N) : f[y]}
  <2>1. x \in Dirs /\ N[x].up \in IF x = Root THEN {None} ELSE Indexed(N) \cup {None}
    BY DEF Rooted, Indexed
  <2>2. None \notin Dirs /\ Indexed(N) \subseteq Dirs
    BY RootAssumption DEF Indexed
  <2>3. f[x] <=> x # Root /\ (N[x].up = d \/ (N[x].up \in Dirs /\ f[N[x].up]))
    BY <1>4, <2>1
  <2> QED BY <2>1, <2>2, <2>3
<1> QED BY <1>5, <1>6

\* No directory is below its own child.
LEMMA NotBelow ==
  ASSUME TypeOK, Tree, NEW d \in Dirs, NEW k \in Kids(node, d)
  PROVE  d \notin Subtree(node, k)
<1>1. Rooted(node) /\ k \in Dirs /\ k \in Indexed(node) /\ node[k].up = d
  BY DEF TypeOK, Rooted, Kids, Indexed
<1>2. PICK B : B = Below(node, k)
  OBVIOUS
<1>3. B \subseteq Indexed(node) /\ \A x \in Indexed(node) : x \in B <=> node[x].up = k \/ node[x].up \in B
  BY <1>1, <1>2, BelowIs
<1>4. SUFFICES ASSUME d \in {k} \cup B PROVE FALSE
  BY <1>2 DEF Subtree
<1>5. \A x \in {k} \cup B : node[x].up \in {k} \cup B
  BY <1>1, <1>3, <1>4
<1>6. {k} \cup B \in SUBSET Indexed(node) /\ {k} \cup B # {}
  BY <1>1, <1>3
<1> QED BY <1>5, <1>6 DEF Tree

\* What updateChildren destroys: nothing above, and all that is below.
LEMMA GoneIs ==
  ASSUME TypeOK, Tree, NEW d \in Dirs
  PROVE  /\ Gone(d) \subseteq Indexed(node) /\ d \notin Gone(d)
         /\ Kids(node, d) \cap Ids(d) \cap Gone(d) = {}
         /\ \A x \in Indexed(node) : node[x].up \in Gone(d) => x \in Gone(d)
         /\ \A x \in Gone(d) : node[x].up \in Gone(d) \/ x \in Kids(node, d)
<1> DEFINE K == Kids(node, d) \ Ids(d)
<1>1. PICK B : B = [k \in K |-> Below(node, k)]
  OBVIOUS
<1>2. PICK G : G = Gone(d)
  OBVIOUS
<1>3. G = UNION {{k} \cup B[k] : k \in K}
  BY <1>1, <1>2 DEF Gone, Subtree
<1>4. ASSUME NEW k \in K
      PROVE  /\ k \in Indexed(node) /\ node[k].up = d /\ B[k] \subseteq Indexed(node)
             /\ \A x \in Indexed(node) : x \in B[k] <=> node[x].up = k \/ node[x].up \in B[k]
             /\ d \notin {k} \cup B[k]
  <2>1. Rooted(node) /\ k \in Dirs /\ k \in Indexed(node) /\ node[k].up = d
    BY DEF TypeOK, Rooted, Kids, Indexed
  <2>2. B[k] = Below(node, k)
    BY <1>1
  <2>3. d \notin {k} \cup B[k]
    BY <2>2, NotBelow DEF Subtree
  <2> QED BY <2>1, <2>2, <2>3, BelowIs
<1>5. \A x \in G : x \in Indexed(node) /\ x # d /\ (node[x].up \in G \/ x \in K)
  BY <1>3, <1>4
<1>6. \A x \in Indexed(node) : node[x].up \in G => x \in G
  BY <1>3, <1>4
<1>7. \A x \in Kids(node, d) : x \in G => x \in K
  BY <1>5 DEF Kids
<1> QED BY <1>2, <1>5, <1>6, <1>7

LEMMA RootedIs ==
  ASSUME NEW N, NEW M, Rooted(N),
         \A x \in Dirs : M[x].up = N[x].up /\ (N[x].state # "none" => M[x].state # "none")
  PROVE  Rooted(M)
  BY DEF Rooted, Indexed

-----------------------------------------------------------------------------
(* The calls.                                                              *)

LEMMA AnswerIs ==
  ASSUME client \in [Clients -> Calls], NEW OK, NEW Bad, NEW D, Answer(OK, Bad, D),
         \A c \in Clients : c \in OK \cup Bad => client[c].todo # <<>>
  PROVE  /\ client' \in [Clients -> Calls]
         /\ \A c \in Clients :
              IF c \in OK \cup Bad
              THEN client'[c].turn \in {"ready", "ok", "err"} /\ (client'[c].turn = "ready" => client'[c].todo # <<>>)
              ELSE /\ client'[c].turn = client[c].turn /\ client'[c].since = client[c].since
                   /\ client[c].todo # <<>> => client'[c].todo # <<>>
<1>1. ASSUME NEW c \in Clients
      PROVE  /\ client'[c] \in Calls
             /\ IF c \in OK \cup Bad
                THEN client'[c].turn \in {"ready", "ok", "err"} /\ (client'[c].turn = "ready" => client'[c].todo # <<>>)
                ELSE /\ client'[c].turn = client[c].turn /\ client'[c].since = client[c].since
                     /\ client[c].todo # <<>> => client'[c].todo # <<>>
  <2>1. PICK s : s = client[c].todo
    OBVIOUS
  <2>2. s \in Seq(Dirs \cup {None}) /\ client[c] \in Calls
    BY <2>1 DEF Calls
  <2>3. PICK left : left = [i \in DOMAIN s |-> IF s[i] \in D THEN None ELSE s[i]]
    OBVIOUS
  <2>4. left \in Seq(Dirs \cup {None}) /\ Len(left) = Len(s) /\ Len(left) \in Nat
    BY <2>2, <2>3
  <2>5. PICK v : v = IF c \notin OK \cup Bad THEN [client[c] EXCEPT !.todo = left]
                     ELSE [client[c] EXCEPT !.todo = Tail(left), !.since = 0,
                                            !.turn = IF Len(left) > 1 THEN "ready"
                                                     ELSE IF c \in OK THEN "ok" ELSE "err"]
    OBVIOUS
  <2>6. client'[c] = v
    BY <2>1, <2>3, <2>5 DEF Answer
  <2>7. CASE c \notin OK \cup Bad
    <3>1. v = [client[c] EXCEPT !.todo = left]
      BY <2>5, <2>7
    <3>2. v \in Calls /\ v.turn = client[c].turn /\ v.since = client[c].since /\ v.todo = left
      BY <2>2, <2>4, <3>1 DEF Calls
    <3>3. s # <<>> => left # <<>>
      BY <2>2, <2>4
    <3> QED BY <2>1, <2>6, <2>7, <3>2, <3>3
  <2>8. CASE c \in OK \cup Bad
    <3>1. s # <<>> /\ left # <<>>
      BY <2>1, <2>2, <2>4, <2>8
    <3>2. PICK rest : rest = Tail(left)
      OBVIOUS
    <3>3. rest \in Seq(Dirs \cup {None}) /\ Len(rest) = Len(left) - 1
      BY <2>4, <3>1, <3>2
    <3>4. PICK turn \in {"ready", "ok", "err"} :
            /\ v = [client[c] EXCEPT !.todo = rest, !.since = 0, !.turn = turn]
            /\ turn = "ready" => Len(left) > 1
      BY <2>5, <2>8, <3>2
    <3>5. v \in Calls /\ v.turn = turn /\ v.todo = rest
      BY <2>2, <3>3, <3>4 DEF Calls
    <3>6. turn = "ready" => rest # <<>>
      BY <2>4, <3>3, <3>4
    <3> QED BY <2>6, <2>8, <3>4, <3>5, <3>6
  <2> QED BY <2>7, <2>8
<1>2. DOMAIN client' = Clients /\ client' = [c \in Clients |-> client'[c]]
  BY DEF Answer
<1> QED BY <1>1, <1>2

\* A step of which no directory's callers or times suffer: who still waits has not been told,
\* and no mtime goes back.
Seeks(a, b, time) ==
  /\ a.mtime = b.mtime /\ a.asked = b.asked /\ a.waiting = b.waiting
  /\ a.first = time \/ (b.phase \in {"list", "again"} /\ a.first = b.first)
Waits == {"called", "removed", "ready", "waiting"}
Proceeds ==
  /\ disk' \in [Dirs -> Places] /\ NotThere(disk)' /\ \A x \in Dirs : disk[x].mtime <= disk'[x].mtime
  /\ Typed(node') /\ Rooted(node') /\ client' \in [Clients -> Calls]
  /\ Flags'
  /\ \A x \in Dirs : Follows(node'[x], node[x], disk[x].mtime) \/ Seeks(node'[x], node[x], disk[x].mtime)
  /\ \A c \in Clients : client'[c].turn \in Waits => client'[c].todo # <<>>
  /\ \A x \in Dirs : \A c \in Heard(x)' :
       client'[c].turn = client[c].turn /\ client'[c].since = client[c].since /\ client'[c].todo # <<>>

LEMMA TypeIs ==
  TypeOK <=> /\ disk \in [Dirs -> Places] /\ NotThere(disk) /\ Typed(node) /\ Rooted(node)
             /\ client \in [Clients -> Calls] /\ Flags
  BY DEF TypeOK, Typed, Rooted, Flags

LEMMA Proceeding ==
  ASSUME CallsInv, Proceeds, Tree'
  PROVE  CallsInv'
<1>1. /\ TypeOK /\ WaitsOnce /\ Timed /\ InTime
      /\ disk \in [Dirs -> Places] /\ client \in [Clients -> Calls] /\ Typed(node)
  BY TypeIs DEF CallsInv
<1>2. TypeOK'
  BY DEF Proceeds, TypeOK, Typed, Rooted, Flags
<1>3. ASSUME NEW x \in Dirs
      PROVE  /\ Heard(x)' \subseteq Heard(x) /\ node'[x].asked \cap node'[x].waiting = {}
             /\ node[x].mtime \in Nat \cup {Never} /\ node[x].first \in Nat
             /\ node'[x].mtime \in Nat \cup {Never} /\ node'[x].first \in Nat
             /\ disk[x].mtime \in Nat /\ disk'[x].mtime \in Nat /\ disk[x].mtime <= disk'[x].mtime
             /\ Follows(node'[x], node[x], disk[x].mtime) \/ Seeks(node'[x], node[x], disk[x].mtime)
             /\ node[x].asked \cap node[x].waiting = {}
  <2>1. node[x] \in Objects(node[x].path) /\ node'[x] \in Objects(node'[x].path)
    BY <1>1 DEF Proceeds, Typed
  <2>2. Follows(node'[x], node[x], disk[x].mtime) \/ Seeks(node'[x], node[x], disk[x].mtime)
    BY DEF Proceeds
  <2>3. node[x].asked \cap node[x].waiting = {}
    BY <1>1 DEF WaitsOnce
  <2>4. Heard(x)' \subseteq Heard(x) /\ node'[x].asked \cap node'[x].waiting = {}
    BY <2>2, <2>3 DEF Follows, Kept, New, Seeks, Heard
  <2>5. disk[x] \in Places /\ disk'[x] \in Places /\ disk[x].mtime <= disk'[x].mtime
    BY <1>1 DEF Proceeds
  <2> QED BY <2>1, <2>2, <2>3, <2>4, <2>5 DEF Objects, Places
<1>4. WaitsOnce'
  <2>1. \A c \in Clients : client'[c].turn \in {"called", "removed", "ready", "waiting"} => client'[c].todo # <<>>
    BY DEF Proceeds, Waits
  <2>2. ASSUME NEW d \in Dirs, NEW e \in Dirs \ {d} PROVE Heard(d)' \cap Heard(e)' = {}
    BY <1>1, <1>3 DEF WaitsOnce
  <2>3. ASSUME NEW d \in Dirs, NEW c \in Heard(d)'
        PROVE  client'[c].turn \in {"waiting", "err"} /\ client'[c].todo # <<>>
    <3>1. client'[c].turn = client[c].turn /\ client'[c].todo # <<>>
      BY DEF Proceeds
    <3>2. c \in Heard(d)
      BY <1>3
    <3>3. client[c].turn \in {"waiting", "err"}
      BY <1>1, <3>2 DEF WaitsOnce
    <3> QED BY <3>1, <3>3
  <2> QED BY <1>3, <2>1, <2>2, <2>3 DEF WaitsOnce
<1>5. Timed'
  <2> SUFFICES ASSUME NEW d \in Dirs
               PROVE  /\ node'[d].mtime <= disk'[d].mtime
                      /\ node'[d].phase \in {"list", "again"}
                           => node'[d].mtime <= node'[d].first /\ node'[d].first <= disk'[d].mtime
    BY DEF Timed
  <2>1. /\ node[d].mtime <= disk[d].mtime
        /\ node[d].phase \in {"list", "again"} => node[d].mtime <= node[d].first /\ node[d].first <= disk[d].mtime
    BY <1>1 DEF Timed
  <2> QED BY <1>3, <2>1 DEF Follows, Kept, New, Seeks, Never
<1>6. InTime'
  <2> SUFFICES ASSUME NEW d \in Dirs, NEW c \in Heard(d)', client'[c].turn = "waiting"
               PROVE  /\ client'[c].since <= disk'[d].mtime
                      /\ c \in node'[d].asked /\ node'[d].phase \in {"list", "again"}
                           => client'[c].since <= node'[d].first
    BY DEF InTime
  <2>1. c \in Heard(d) /\ client[c].turn = "waiting" /\ client'[c].since = client[c].since
    BY <1>3 DEF Proceeds
  <2>2. /\ client[c].since <= disk[d].mtime
        /\ c \in node[d].asked /\ node[d].phase \in {"list", "again"} => client[c].since <= node[d].first
    BY <1>1, <2>1 DEF InTime
  <2>3. c \in Clients /\ client[c].since \in Nat
    <3>1. c \in Clients
      BY <1>1, <2>1 DEF Typed, Objects, Heard
    <3> QED BY <1>1, <3>1 DEF Calls
  <2> QED BY <1>3, <2>1, <2>2, <2>3 DEF Follows, Kept, New, Seeks
<1> QED BY <1>2, <1>4, <1>5, <1>6 DEF CallsInv

LEMMA HeardIs ==
  ASSUME CallsInv, NEW d \in Dirs, NEW c \in Heard(d)
  PROVE  /\ c \in Clients /\ client[c].turn \in {"waiting", "err"} /\ client[c].todo # <<>>
         /\ \A e \in Dirs \ {d} : c \notin Heard(e)
<1>1. TypeOK /\ WaitsOnce /\ Typed(node)
  BY TypeIs DEF CallsInv
<1>2. c \in Clients
  BY <1>1 DEF Typed, Objects, Heard
<1> QED BY <1>1, <1>2 DEF WaitsOnce

\* Those who are told no longer wait.
LEMMA Answering ==
  ASSUME CallsInv, NEW OK, NEW Bad, NEW D, Answer(OK, Bad, D),
         disk' = disk, Typed(node'), Rooted(node'), Flags',
         \A x \in Dirs : Follows(node'[x], node[x], disk[x].mtime),
         \A c \in OK \cup Bad : \E x \in Dirs : c \in Heard(x),
         \A x \in Dirs : Heard(x)' \cap (OK \cup Bad) = {}
  PROVE  Proceeds
<1>1. /\ TypeOK /\ disk \in [Dirs -> Places] /\ NotThere(disk) /\ client \in [Clients -> Calls] /\ WaitsOnce
  BY TypeIs DEF CallsInv
<1>2. \A c \in Clients : c \in OK \cup Bad => client[c].todo # <<>>
  BY HeardIs
<1>3. /\ client' \in [Clients -> Calls]
      /\ \A c \in Clients :
           IF c \in OK \cup Bad
           THEN client'[c].turn \in {"ready", "ok", "err"} /\ (client'[c].turn = "ready" => client'[c].todo # <<>>)
           ELSE /\ client'[c].turn = client[c].turn /\ client'[c].since = client[c].since
                /\ client[c].todo # <<>> => client'[c].todo # <<>>
  BY <1>1, <1>2, AnswerIs
<1>4. \A x \in Dirs : disk[x].mtime <= disk'[x].mtime
  BY <1>1 DEF Places
<1>5. ASSUME NEW c \in Clients, client'[c].turn \in Waits PROVE client'[c].todo # <<>>
  <2>1. CASE c \in OK \cup Bad
    BY <1>3, <1>5, <2>1 DEF Waits
  <2>2. CASE c \notin OK \cup Bad
    <3>1. client[c].todo # <<>>
      BY <1>1, <1>3, <1>5, <2>2 DEF Waits, WaitsOnce
    <3> QED BY <1>3, <2>2, <3>1
  <2> QED BY <2>1, <2>2
<1>6. ASSUME NEW x \in Dirs, NEW c \in Heard(x)'
      PROVE  client'[c].turn = client[c].turn /\ client'[c].since = client[c].since /\ client'[c].todo # <<>>
  <2>1. c \notin OK \cup Bad
    BY <1>6
  <2>2. c \in Heard(x)
    BY DEF Follows, Kept, New, Heard
  <2> QED BY <1>3, <2>1, <2>2, HeardIs
<1> QED BY <1>1, <1>3, <1>4, <1>5, <1>6 DEF Proceeds, NotThere

\* The calls stay as they are.
LEMMA Unheard ==
  ASSUME CallsInv, disk' = disk, Typed(node'), Rooted(node'), client' = client,
         Flags',
         \A x \in Dirs : Follows(node'[x], node[x], disk[x].mtime) \/ Seeks(node'[x], node[x], disk[x].mtime)
  PROVE  Proceeds
<1>1. /\ TypeOK /\ disk \in [Dirs -> Places] /\ NotThere(disk) /\ client \in [Clients -> Calls] /\ WaitsOnce
  BY TypeIs DEF CallsInv
<1>2. \A x \in Dirs : disk[x].mtime <= disk'[x].mtime
  BY <1>1 DEF Places
<1>3. ASSUME NEW c \in Clients, client'[c].turn \in Waits PROVE client'[c].todo # <<>>
  BY <1>1, <1>3 DEF Waits, WaitsOnce
<1>4. ASSUME NEW x \in Dirs, NEW c \in Heard(x)'
      PROVE  client'[c].turn = client[c].turn /\ client'[c].since = client[c].since /\ client'[c].todo # <<>>
  <2>1. Follows(node'[x], node[x], disk[x].mtime) \/ Seeks(node'[x], node[x], disk[x].mtime)
    OBVIOUS
  <2>2. c \in Heard(x)
    BY <2>1 DEF Follows, Kept, New, Seeks, Heard
  <2> QED BY <2>2, HeardIs
<1> QED BY <1>1, <1>2, <1>3, <1>4 DEF Proceeds, NotThere

-----------------------------------------------------------------------------
(* The index and the disk.                                                 *)

\* The directories that were there stay where they are, or all are gone.
Remains == (\A x \in Dirs : node'[x] = Absent) \/ \A x \in Dirs : Found(node'[x], node[x])
\* The entries of a directory whose mtime is what it was are what they were, but for those
\* that are known to be missed.
Grown(d, old, new) ==
  /\ old \subseteq new
  /\ disk'[d].mtime = disk[d].mtime =>
       \A c \in Dirs \ new : /\ c \in DiskKids(d)' <=> c \in DiskKids(d)
                             /\ c \in DiskKids(d) => disk'[c].name = disk[c].name
Grows == \A d \in Dirs : Grown(d, missed[d], missed'[d])
Skips(S) == \A d \in S : Grown(d, skipped[d], skipped'[d])

LEMMA Still ==
  ASSUME disk' = disk
  PROVE  /\ missed' = missed => Grows
         /\ \A S : (\A d \in S : skipped'[d] = skipped[d]) => Skips(S)
         /\ memory' = memory => Grows /\ Skips(Dirs)
  BY DEF Grows, Skips, Grown, DiskKids, memory

LEMMA Remaining ==
  ASSUME CallsInv, Remains
  PROVE  Tree'
<1>1. TypeOK /\ Tree /\ Rooted(node)
  BY TypeIs DEF CallsInv
<1>2. SUFFICES ASSUME NEW S \in SUBSET Indexed(node)', S # {}
               PROVE  \E d \in S : node'[d].up \notin S
  BY DEF Tree
<1>3. ASSUME NEW d \in S PROVE d \in Dirs /\ node'[d].state # "none"
  BY DEF Indexed
<1>4. ASSUME NEW d \in S
      PROVE  node'[d].up = None \/ (node[d].state # "none" /\ node'[d].up = node[d].up)
  BY <1>3, AbsentIs DEF Remains, Found, Placed
<1>5. CASE \E d \in S : node'[d].up = None
  BY <1>3, <1>5, RootAssumption
<1>6. CASE \A d \in S : node[d].state # "none" /\ node'[d].up = node[d].up
  <2>1. S \in SUBSET Indexed(node)
    BY <1>3, <1>6 DEF Indexed
  <2>2. PICK d \in S : node[d].up \notin S
    BY <1>1, <1>2, <2>1 DEF Tree
  <2> QED BY <1>6, <2>2
<1> QED BY <1>4, <1>5, <1>6

\* No mtime goes back.
Later == disk' \in [Dirs -> Places] /\ \A x \in Dirs : disk[x].mtime <= disk'[x].mtime
Reads(a, b) == a.phase = b.phase /\ a.first = b.first /\ a.entries = b.entries

LEMMA Remembering ==
  ASSUME IndexInv, Later, Remains, Grows
  PROVE  CacheIsSound' /\ CacheIsComplete'
<1>1. TypeOK /\ Timed /\ CacheIsSound /\ CacheIsComplete /\ disk \in [Dirs -> Places] /\ Typed(node) /\ Rooted(node)
  BY TypeIs DEF IndexInv, CallsInv
<1>2. CASE \A x \in Dirs : node'[x] = Absent
  <2>1. Indexed(node)' = {}
    BY <1>2, AbsentIs DEF Indexed
  <2> QED BY <2>1 DEF CacheIsSound, CacheIsComplete
<1>3. CASE \A x \in Dirs : Found(node'[x], node[x])
  <2> SUFFICES ASSUME NEW d \in Indexed(node)', node'[d].mtime = disk'[d].mtime
               PROVE  /\ \A c \in Kids(node, d)' \ missed'[d] :
                           disk'[c].up = d /\ node'[c].name \in {disk'[c].name, Undefined}
                      /\ DiskKids(d)' \ missed'[d] \subseteq Kids(node, d)'
    BY DEF CacheIsSound, CacheIsComplete
  <2>1. d \in Dirs /\ disk'[d].mtime \in Nat /\ disk[d].mtime \in Nat /\ disk[d].mtime <= disk'[d].mtime
    BY <1>1 DEF Indexed, Later, Places
  <2>2. node'[d].mtime # Never
    BY <2>1 DEF Never
  <2>3. Placed(node'[d], node[d]) /\ d \in Indexed(node)
    BY <1>3, <2>1, <2>2 DEF Found, Placed, Indexed
  <2>4. node[d].mtime <= disk[d].mtime /\ node[d].mtime \in Nat \cup {Never}
    BY <1>1, <2>1 DEF Timed, Typed, Objects
  <2>5. node[d].mtime = disk[d].mtime /\ disk'[d].mtime = disk[d].mtime
    BY <2>1, <2>3, <2>4 DEF Placed, Never
  <2>6. /\ \A c \in Kids(node, d) \ missed[d] : disk[c].up = d /\ node[c].name \in {disk[c].name, Undefined}
        /\ DiskKids(d) \ missed[d] \subseteq Kids(node, d)
    BY <1>1, <2>3, <2>5 DEF CacheIsSound, CacheIsComplete
  <2>7. /\ missed[d] \subseteq missed'[d]
        /\ \A c \in Dirs \ missed'[d] : /\ c \in DiskKids(d)' <=> c \in DiskKids(d)
                                        /\ c \in DiskKids(d) => disk'[c].name = disk[c].name
    BY <2>1, <2>5 DEF Grows, Grown
  <2>8. ASSUME NEW c \in Dirs
        PROVE  c \in Kids(node, d)' <=> c \in Kids(node, d)
    <3>1. d # None
      BY <2>1, RootAssumption
    <3>2. Placed(node'[c], node[c]) \/ (node[c].state = "none" /\ node'[c].up = None)
      BY <1>3 DEF Found
    <3> QED BY <3>1, <3>2 DEF Kids, Indexed, Placed
  <2>9. Kids(node, d)' = Kids(node, d) /\ Kids(node, d) \subseteq Dirs
    BY <2>8 DEF Kids, Indexed
  <2>10. ASSUME NEW c \in Kids(node, d) \ missed'[d]
         PROVE  c \in DiskKids(d) /\ node'[c].name = node[c].name
    <3>1. c \in Dirs /\ node[c].state # "none" /\ node[c].up = d /\ d # None
      BY <2>1, RootAssumption DEF Kids, Indexed
    <3>2. c # Root
      BY <1>1, <3>1 DEF Rooted
    <3>3. c \in DiskKids(d)
      BY <2>6, <2>7, <3>1, <3>2 DEF DiskKids
    <3> QED BY <1>3, <3>1, <3>3 DEF Found, Placed
  <2>11. ASSUME NEW c \in Kids(node, d)' \ missed'[d]
         PROVE  disk'[c].up = d /\ node'[c].name \in {disk'[c].name, Undefined}
    <3>1. c \in Dirs \ missed'[d] /\ c \in Kids(node, d) \ missed[d]
      BY <2>7, <2>9, <2>11
    <3>2. c \in DiskKids(d) /\ node'[c].name = node[c].name
      BY <2>9, <2>10, <2>11
    <3>3. c \in DiskKids(d)' /\ disk'[c].name = disk[c].name
      BY <2>7, <3>1, <3>2
    <3> QED BY <2>6, <3>1, <3>2, <3>3 DEF DiskKids
  <2>12. ASSUME NEW c \in DiskKids(d)' \ missed'[d]
         PROVE  c \in Kids(node, d)'
    <3>1. c \in Dirs \ missed'[d] /\ c \notin missed[d]
      BY <2>7, <2>12 DEF DiskKids
    <3>2. c \in DiskKids(d)
      BY <2>7, <2>12, <3>1
    <3> QED BY <2>6, <2>9, <3>1, <3>2
  <2> QED BY <2>11, <2>12
<1> QED BY <1>2, <1>3 DEF Remains

\* What Seen says of d.
SeenIn(d) ==
  /\ Ids(d) \ skipped[d] = DiskKids(d) \ skipped[d]
  /\ \A e \in node[d].entries : e.id \notin skipped[d] => e.name = disk[e.id].name

LEMMA Seeing ==
  ASSUME IndexInv, Later, NEW d \in Dirs, Grown(d, skipped[d], skipped'[d]), Reads(node'[d], node[d]),
         node'[d].phase = "again", node'[d].first = disk'[d].mtime
  PROVE  SeenIn(d)'
<1>1. TypeOK /\ Timed /\ Seen /\ disk \in [Dirs -> Places] /\ Typed(node)
  BY TypeIs DEF IndexInv, CallsInv
<1>2. node[d].phase = "again" /\ node'[d].first = node[d].first /\ node'[d].entries = node[d].entries
  BY DEF Reads
<1>3. disk[d].mtime \in Nat /\ disk'[d].mtime \in Nat /\ disk[d].mtime <= disk'[d].mtime
  BY <1>1 DEF Later, Places
<1>4. node[d].first = disk[d].mtime /\ disk'[d].mtime = disk[d].mtime
  <2>1. node[d].first \in Nat /\ node[d].first <= disk[d].mtime
    BY <1>1, <1>2 DEF Timed, Typed, Objects
  <2> QED BY <1>2, <1>3, <2>1
<1>5. /\ Ids(d) \ skipped[d] = DiskKids(d) \ skipped[d]
      /\ \A e \in node[d].entries : e.id \notin skipped[d] => e.name = disk[e.id].name
  BY <1>1, <1>2, <1>4 DEF Seen
<1>6. /\ skipped[d] \subseteq skipped'[d]
      /\ \A c \in Dirs \ skipped'[d] : /\ c \in DiskKids(d)' <=> c \in DiskKids(d)
                                       /\ c \in DiskKids(d) => disk'[c].name = disk[c].name
  BY <1>4 DEF Grown
<1>7. Ids(d)' = Ids(d) /\ Ids(d) \subseteq Dirs /\ \A e \in node[d].entries : e.id \in Ids(d)
  <2>1. node[d].entries \subseteq Entries
    BY <1>1 DEF Typed, Objects
  <2>2. \A e \in node[d].entries : e.id \in Dirs
    BY <2>1 DEF Entries
  <2> QED BY <1>2, <2>2 DEF Ids
<1>8. ASSUME NEW c \in Dirs \ skipped'[d]
      PROVE  c \in Ids(d)' <=> c \in DiskKids(d)'
  <2>1. c \notin skipped[d] /\ (c \in DiskKids(d)' <=> c \in DiskKids(d))
    BY <1>6
  <2> QED BY <1>5, <1>7, <2>1
<1>9. ASSUME NEW e \in node'[d].entries, e.id \notin skipped'[d]
      PROVE  e.name = disk'[e.id].name
  <2>1. e \in node[d].entries /\ e.id \in Dirs /\ e.id \in Ids(d) /\ e.id \notin skipped[d]
    BY <1>2, <1>6, <1>7, <1>9
  <2>2. e.name = disk[e.id].name /\ e.id \in DiskKids(d)
    BY <1>5, <2>1
  <2> QED BY <1>6, <1>9, <2>1, <2>2
<1>10. DiskKids(d)' \subseteq Dirs
  BY DEF DiskKids
<1>11. (Ids(d) \ skipped[d])' = (DiskKids(d) \ skipped[d])'
  BY <1>7, <1>8, <1>10
<1> QED BY <1>9, <1>11 DEF SeenIn

-----------------------------------------------------------------------------
(* The steps.                                                              *)

\* A step with which the calls and the index go on.
Advances == /\ Proceeds /\ Remains /\ Grows /\ Skips(Dirs)
            /\ \A x \in Dirs : node'[x].phase = "again" => Kept(node'[x], node[x])

LEMMA Clearing ==
  ASSUME CallsInv, node' = [d \in Dirs |-> Absent], disk' = disk, memory' = memory
  PROVE  /\ Typed(node') /\ Rooted(node') /\ Remains /\ Grows /\ Skips(Dirs)
         /\ \A x \in Dirs : /\ Follows(node'[x], node[x], disk[x].mtime) /\ Heard(x)' = {}
                            /\ node'[x].phase = "idle"
<1>1. DOMAIN node' = Dirs /\ \A x \in Dirs : node'[x] = Absent
  OBVIOUS
<1>2. Typed(node')
  BY <1>1, AbsentIs DEF Typed
<1>3. Rooted(node')
  BY <1>1, AbsentIs DEF Rooted
<1>4. Grows /\ Skips(Dirs)
  BY Still
<1>5. \A x \in Dirs : Follows(node'[x], node[x], disk[x].mtime) /\ Heard(x)' = {} /\ node'[x].phase = "idle"
  BY <1>1, AbsentIs DEF Follows, New, Heard
<1> QED BY <1>1, <1>2, <1>3, <1>4, <1>5 DEF Remains

LEMMA DiesStep ==
  ASSUME CallsInv, Dies
  PROVE  Advances
<1>1. /\ node' = [d \in Dirs |-> Absent] /\ disk' = disk /\ faults' = faults /\ memory' = memory
      /\ down' = TRUE /\ due' = FALSE
      /\ client' = [c \in Clients |-> [todo |-> <<>>, turn |-> "lost", since |-> 0]]
  BY DEF Dies
<1>2. /\ Typed(node') /\ Rooted(node') /\ Remains /\ Grows /\ Skips(Dirs)
      /\ \A x \in Dirs : /\ Follows(node'[x], node[x], disk[x].mtime) /\ Heard(x)' = {}
                         /\ node'[x].phase = "idle"
  BY <1>1, Clearing
<1>3. disk \in [Dirs -> Places] /\ NotThere(disk) /\ Flags'
  BY <1>1, TypeIs DEF CallsInv, Flags, memory
<1>4. [todo |-> <<>>, turn |-> "lost", since |-> 0] \in Calls
  BY DEF Calls
<1>5. client' \in [Clients -> Calls] /\ \A c \in Clients : client'[c].turn \notin Waits
  BY <1>1, <1>4 DEF Waits
<1>6. NotThere(disk)' /\ \A x \in Dirs : disk[x].mtime <= disk'[x].mtime
  BY <1>1, <1>3 DEF NotThere, Places
<1> QED BY <1>1, <1>2, <1>3, <1>5, <1>6 DEF Advances, Proceeds

LEMMA DeleteRootStep ==
  ASSUME CallsInv, DeleteRoot
  PROVE  Advances
<1>1. /\ node' = [d \in Dirs |-> Absent] /\ disk' = disk /\ faults' = faults /\ memory' = memory
      /\ down' = down /\ due' = TRUE /\ Answer({}, Callers(Dirs), Dirs)
  BY DEF DeleteRoot
<1>2. /\ Typed(node') /\ Rooted(node') /\ Remains /\ Grows /\ Skips(Dirs)
      /\ \A x \in Dirs : /\ Follows(node'[x], node[x], disk[x].mtime) /\ Heard(x)' = {}
                         /\ node'[x].phase = "idle"
  BY <1>1, Clearing
<1>3. Flags'
  BY <1>1, TypeIs DEF CallsInv, Flags, memory
<1>4. \A c \in {} \cup Callers(Dirs) : \E x \in Dirs : c \in Heard(x)
  BY DEF Callers, Heard
<1>5. Proceeds
  BY <1>1, <1>2, <1>3, <1>4, Answering
<1> QED BY <1>2, <1>5 DEF Advances

\* The read of d ends, others may begin, and d's callers are told.
Begins(N, M) ==
  /\ Typed(N)
  /\ \A x \in Dirs : /\ Found(N[x], M[x]) /\ N[x].up = M[x].up
                     /\ N[x].state # "none" \/ N[x] = M[x]
                     /\ \A time : Follows(N[x], M[x], time)

LEMMA EndStep ==
  ASSUME CallsInv, NEW d \in Dirs, node[d].phase # "idle", NEW N, Begins(N, node), NEW again,
         node' = After(N, d, again), NEW OK, NEW Bad, OK \cup Bad = node[d].asked,
         Answer(OK, Bad, {}), disk' = disk, memory' = memory, Flags'
  PROVE  Advances
<1>1. TypeOK /\ Typed(node) /\ Rooted(node)
  BY TypeIs DEF CallsInv
<1>3. /\ Typed(N)
      /\ \A x \in Dirs : /\ Found(N[x], node[x]) /\ N[x].up = node[x].up
                         /\ N[x].state # "none" \/ N[x] = node[x]
                         /\ \A time : Follows(N[x], node[x], time)
  BY DEF Begins
<1>4. /\ Typed(node') /\ (\A x \in Dirs \ {d} : node'[x] = N[x])
      /\ node'[d].state # "none" /\ node'[d].up = N[d].up /\ node'[d].name = N[d].name
      /\ node'[d].mtime = N[d].mtime /\ \A time : New(node'[d], N[d], time)
  BY <1>3, AfterIs
<1>5. node[d].state # "none"
  BY <1>1 DEF Typed
<1>6. Found(node'[d], node[d])
  BY <1>3, <1>4, <1>5 DEF Found, Placed
<1>7. New(node'[d], node[d], disk[d].mtime)
  BY <1>3, <1>4, FollowsTwice
<1>8. \A x \in Dirs : Found(node'[x], node[x])
  BY <1>3, <1>4, <1>6
<1>9. \A x \in Dirs : Follows(node'[x], node[x], disk[x].mtime)
  BY <1>3, <1>4, <1>7 DEF Follows
<1>10. Rooted(node')
  <2>1. \A x \in Dirs : node'[x].up = node[x].up /\ (node[x].state # "none" => node'[x].state # "none")
    BY <1>3, <1>4
  <2> QED BY <1>1, <2>1, RootedIs
<1>11. \A x \in Dirs : Heard(x)' \cap node[d].asked = {}
  <2>1. Heard(d)' \subseteq node[d].waiting
    BY <1>7 DEF New, Heard
  <2>2. node[d].asked \cap node[d].waiting = {}
    BY DEF CallsInv, WaitsOnce
  <2>3. ASSUME NEW x \in Dirs \ {d} PROVE Heard(x)' \cap node[d].asked = {}
    <3>1. Heard(x)' \subseteq Heard(x)
      BY <1>9 DEF Follows, Kept, New, Heard
    <3>2. node[d].asked \subseteq Heard(d)
      BY DEF Heard
    <3> QED BY <3>1, <3>2, HeardIs
  <2> QED BY <2>1, <2>2, <2>3
<1>12. \A c \in OK \cup Bad : \E x \in Dirs : c \in Heard(x)
  BY DEF Heard
<1>13. Proceeds
  BY <1>1, <1>4, <1>9, <1>10, <1>11, <1>12, Answering
<1>14. Grows /\ Skips(Dirs)
  BY Still
<1>15. ASSUME NEW x \in Dirs, node'[x].phase = "again" PROVE Kept(node'[x], node[x])
  BY <1>9, <1>15 DEF Follows, New
<1> QED BY <1>8, <1>13, <1>14, <1>15 DEF Advances, Remains

LEMMA FailsStep ==
  ASSUME CallsInv, NEW d \in Dirs, node[d].phase # "idle", NEW kind, Fails(d, kind)
  PROVE  Advances
<1>1. PICK S : S = IF kind = "path" /\ d # Root THEN {node[d].up} ELSE {}
  OBVIOUS
<1>2. CASE Dies
  BY <1>2, DiesStep
<1>3. CASE /\ node' = After(Read(node, S), d, S = {}) /\ due' = TRUE /\ Answer({}, node[d].asked, {})
           /\ disk' = disk /\ faults' = faults /\ memory' = memory /\ down' = down
  <2>1. Flags'
    BY <1>3, TypeIs DEF CallsInv, Flags, memory
  <2>2. {} \cup node[d].asked = node[d].asked
    OBVIOUS
  <2>3. Begins(Read(node, S), node)
    <3>1. Typed(node)
      BY TypeIs DEF CallsInv
    <3> QED BY <3>1, ReadIs DEF Begins
  <2> QED BY <1>3, <2>1, <2>2, <2>3, EndStep
<1> QED BY <1>1, <1>2, <1>3 DEF Fails

LEMMA AsItIs ==
  ASSUME CallsInv
  PROVE  Begins(node, node)
<1>1. Typed(node)
  BY TypeIs DEF CallsInv
<1> QED BY <1>1 DEF Begins, Found, Placed, Follows, Kept

LEMMA SameStep ==
  ASSUME CallsInv, NEW d \in Dirs, node[d].phase # "idle", Same(d)
  PROVE  Advances
<1>1. node' = After(node, d, FALSE) /\ due' = TRUE /\ Answer(node[d].asked, {}, {})
  BY DEF Same
<1>2. disk' = disk /\ faults' = faults /\ memory' = memory /\ down' = down
  BY DEF Same
<1>3. Flags'
  BY <1>1, <1>2, TypeIs DEF CallsInv, Flags, memory
<1>4. node[d].asked \cup {} = node[d].asked
  OBVIOUS
<1> QED BY <1>1, <1>2, <1>3, <1>4, AsItIs, EndStep

LEMMA FaultStep ==
  ASSUME CallsInv, NEW d \in Dirs, Fault(d)
  PROVE  Advances
<1>1. node' = After(node, d, TRUE) /\ due' = TRUE /\ Answer({}, node[d].asked, {})
  BY DEF Fault
<1>2. disk' = disk /\ faults' = faults - 1 /\ memory' = memory /\ down' = down
  BY DEF Fault, GoesWrong
<1>3. node[d].phase # "idle" /\ faults > 0
  BY DEF Fault, GoesWrong
<1>4. Flags
  BY TypeIs DEF CallsInv
<1>5. Flags'
  BY <1>1, <1>2, <1>3, <1>4 DEF Flags, memory
<1>6. {} \cup node[d].asked = node[d].asked
  OBVIOUS
<1> QED BY <1>1, <1>2, <1>3, <1>4, <1>5, <1>6, AsItIs, EndStep

\* Reads begin, and nobody is told.
LEMMA BeginStep ==
  ASSUME CallsInv, Begins(node', node), disk' = disk, memory' = memory, down' = down,
         due' \in BOOLEAN, faults' = faults, client' = client
  PROVE  Advances
<1>1. TypeOK /\ Rooted(node) /\ Flags'
  BY TypeIs DEF CallsInv, Flags, memory
<1>2. /\ Typed(node')
      /\ \A x \in Dirs : /\ Found(node'[x], node[x]) /\ node'[x].up = node[x].up
                         /\ node'[x].state # "none" \/ node'[x] = node[x]
                         /\ Follows(node'[x], node[x], disk[x].mtime)
  BY DEF Begins
<1>3. Rooted(node')
  <2>1. \A x \in Dirs : node'[x].up = node[x].up /\ (node[x].state # "none" => node'[x].state # "none")
    BY <1>2
  <2> QED BY <1>1, <2>1, RootedIs
<1>4. Proceeds
  BY <1>1, <1>2, <1>3, Unheard
<1>5. Grows /\ Skips(Dirs)
  BY Still
<1>6. ASSUME NEW x \in Dirs, node'[x].phase = "again" PROVE Kept(node'[x], node[x])
  BY <1>2, <1>6 DEF Follows, New
<1> QED BY <1>2, <1>4, <1>5, <1>6 DEF Advances, Remains

LEMMA StartBegins ==
  ASSUME CallsInv, NEW d \in Dirs
  PROVE  Begins(Start(node, d, {}), node)
<1>1. Typed(node) /\ {} \in SUBSET Clients
  BY TypeIs DEF CallsInv
<1>2. PICK N : N = Start(node, d, {})
  OBVIOUS
<1>3. /\ Typed(N) /\ (\A x \in Dirs \ {d} : N[x] = node[x])
      /\ N[d].state = "Reading" /\ N[d].phase = "stat" /\ N[d].asked = {} /\ N[d].waiting = {}
      /\ Found(N[d], node[d]) /\ N[d].mtime = node[d].mtime /\ N[d].up = node[d].up
  BY <1>1, <1>2, StartIs
<1>4. \A time : Follows(N[d], node[d], time)
  BY <1>3 DEF Follows, New
<1>5. \A x \in Dirs \ {d} : Found(N[x], node[x]) /\ \A time : Follows(N[x], node[x], time)
  BY <1>3 DEF Found, Placed, Follows, Kept
<1> QED BY <1>2, <1>3, <1>4, <1>5 DEF Begins

LEMMA SchedStep ==
  ASSUME CallsInv, Sched
  PROVE  Advances
<1>1. PICK S : \/ Dies
               \/ /\ node' = Read(node, S) /\ due' = (S # {})
                  /\ UNCHANGED <<disk, client, faults, down, memory>>
  BY DEF Sched
<1>2. Begins(Read(node, S), node)
  <2>1. Typed(node)
    BY TypeIs DEF CallsInv
  <2> QED BY <2>1, ReadIs DEF Begins
<1> QED BY <1>1, <1>2, DiesStep, BeginStep

LEMMA TimeoutStep ==
  ASSUME CallsInv, NEW d \in Dirs, Timeout(d)
  PROVE  Advances
BY StartBegins, DiesStep, BeginStep DEF Timeout

LEMMA StatStep ==
  ASSUME CallsInv, NEW d \in Dirs, StatDone(d)
  PROVE  Advances
<1>1. TypeOK /\ Typed(node) /\ Rooted(node) /\ node[d].phase = "stat" /\ disk \in [Dirs -> Places]
  BY TypeIs DEF CallsInv, StatDone
<1>2. CASE Fails(d, "path") \/ Same(d) \/ Dies
  BY <1>1, <1>2, FailsStep, SameStep, DiesStep
<1>3. CASE /\ node' = [node EXCEPT ![d].phase = "list", ![d].first = disk[d].mtime]
           /\ UNCHANGED <<disk, client, due, faults, down, memory>>
  <2>1. PICK v : v = [node[d] EXCEPT !.phase = "list", !.first = disk[d].mtime]
    OBVIOUS
  <2>2. DOMAIN node' = Dirs /\ node'[d] = v /\ \A x \in Dirs \ {d} : node'[x] = node[x]
    BY <1>1, <1>3, <2>1 DEF TypeOK
  <2>3. node[d] \in Objects(node[d].path) /\ node[d].state = "Reading" /\ disk[d].mtime \in Nat
    BY <1>1 DEF Typed, Places
  <2>4. /\ v \in Objects(v.path) /\ v.phase = "list" /\ v.first = disk[d].mtime /\ v.state = "Reading"
        /\ v.up = node[d].up /\ v.name = node[d].name /\ v.mtime = node[d].mtime
        /\ v.asked = node[d].asked /\ v.waiting = node[d].waiting /\ v.queued = node[d].queued
    BY <2>1, <2>3 DEF Objects
  <2>5. Typed(node')
    BY <1>1, <2>2, <2>4 DEF Typed
  <2>6. \A x \in Dirs : Found(node'[x], node[x])
    BY <2>2, <2>3, <2>4 DEF Found, Placed
  <2>7. Seeks(node'[d], node[d], disk[d].mtime) /\ \A x \in Dirs \ {d} : Kept(node'[x], node[x])
    BY <2>2, <2>4 DEF Seeks, Kept
  <2>8. Rooted(node')
    <3>1. \A x \in Dirs : node'[x].up = node[x].up /\ (node[x].state # "none" => node'[x].state # "none")
      BY <2>2, <2>4
    <3> QED BY <1>1, <3>1, RootedIs
  <2>9. Flags'
    BY <1>3, TypeIs DEF CallsInv, Flags, memory
  <2>10. Proceeds
    BY <1>3, <2>5, <2>7, <2>8, <2>9, Unheard DEF Follows
  <2>11. Grows /\ Skips(Dirs)
    BY <1>3, Still
  <2> QED BY <1>3, <2>2, <2>4, <2>6, <2>7, <2>10, <2>11 DEF Advances, Remains
<1> QED BY <1>2, <1>3 DEF StatDone, Completes

\* What the read of d lists of q, without those in out.
Listing(d, q, out) ==
  node'[d].entries = {[id |-> c, name |-> disk[c].name, mtime |-> disk[c].mtime] : c \in DiskKids(q) \ out}
Lists(d) ==
  /\ Remains /\ Grows /\ Skips(Dirs \ {d}) /\ disk' = disk /\ \A x \in Dirs \ {d} : Kept(node'[x], node[x])
  /\ \E q \in At(node[d].path) : \E out \in SUBSET DiskKids(q) : Listing(d, q, out) /\ skipped'[d] = out

LEMMA ListStep ==
  ASSUME CallsInv, NEW d \in Dirs, ListDone(d)
  PROVE  Advances \/ (Proceeds /\ Lists(d))
<1>1. TypeOK /\ Typed(node) /\ Rooted(node) /\ node[d].phase = "list" /\ disk \in [Dirs -> Places]
  BY TypeIs DEF CallsInv, ListDone
<1>2. CASE Fails(d, "path") \/ Dies
  BY <1>1, <1>2, FailsStep, DiesStep
<1>3. ASSUME NEW q \in At(node[d].path), NEW out \in SUBSET DiskKids(q),
             node' = [node EXCEPT ![d].phase = "again",
                        ![d].entries = {[id |-> c, name |-> disk[c].name,
                                         mtime |-> disk[c].mtime] : c \in DiskKids(q) \ out}],
             skipped' = [skipped EXCEPT ![d] = out], GoesWrong(out # {}),
             UNCHANGED <<disk, client, due, down, missed>>
      PROVE  Proceeds /\ Lists(d)
  <2>1. PICK E : E = {[id |-> c, name |-> disk[c].name, mtime |-> disk[c].mtime] : c \in DiskKids(q) \ out}
    OBVIOUS
  <2>2. E \subseteq Entries
    BY <1>1, <2>1 DEF Entries, DiskKids, Places
  <2>3. PICK v : v = [node[d] EXCEPT !.phase = "again", !.entries = E]
    OBVIOUS
  <2>4. DOMAIN node' = Dirs /\ node'[d] = v /\ \A x \in Dirs \ {d} : node'[x] = node[x]
    BY <1>1, <1>3, <2>1, <2>3 DEF TypeOK
  <2>5. node[d] \in Objects(node[d].path) /\ node[d].state = "Reading"
    BY <1>1 DEF Typed
  <2>6. /\ v \in Objects(v.path) /\ v.phase = "again" /\ v.first = node[d].first /\ v.state = "Reading"
        /\ v.up = node[d].up /\ v.name = node[d].name /\ v.mtime = node[d].mtime /\ v.entries = E
        /\ v.asked = node[d].asked /\ v.waiting = node[d].waiting /\ v.queued = node[d].queued
    BY <2>2, <2>3, <2>5 DEF Objects
  <2>7. Typed(node')
    BY <1>1, <2>4, <2>6 DEF Typed
  <2>8. \A x \in Dirs : Found(node'[x], node[x])
    BY <2>4, <2>5, <2>6 DEF Found, Placed
  <2>9. Seeks(node'[d], node[d], disk[d].mtime) /\ \A x \in Dirs \ {d} : Kept(node'[x], node[x])
    BY <1>1, <2>4, <2>6 DEF Seeks, Kept
  <2>10. Rooted(node')
    <3>1. \A x \in Dirs : node'[x].up = node[x].up /\ (node[x].state # "none" => node'[x].state # "none")
      BY <2>4, <2>6
    <3> QED BY <1>1, <3>1, RootedIs
  <2>11. Flags'
    <3>1. Flags
      BY TypeIs DEF CallsInv
    <3>2. faults' \in Nat
      BY <1>3, <3>1 DEF Flags, GoesWrong
    <3>3. out \in SUBSET Dirs
      BY DEF DiskKids
    <3>4. skipped' \in [Dirs -> SUBSET Dirs]
      BY <1>3, <3>1, <3>3 DEF Flags
    <3> QED BY <1>3, <3>1, <3>2, <3>4 DEF Flags
  <2>12. Proceeds
    BY <1>3, <2>7, <2>9, <2>10, <2>11, Unheard DEF Follows
  <2>13. Grows /\ Skips(Dirs \ {d}) /\ skipped'[d] = out
    <3>1. skipped \in [Dirs -> SUBSET Dirs]
      BY TypeIs DEF CallsInv, Flags
    <3>2. skipped'[d] = out /\ \A x \in Dirs \ {d} : skipped'[x] = skipped[x]
      BY <1>3, <3>1
    <3> QED BY <1>3, <3>2, Still
  <2>14. Remains
    BY <2>8 DEF Remains
  <2>15. Listing(d, q, out)
    BY <2>1, <2>4, <2>6 DEF Listing
  <2> QED BY <1>3, <2>9, <2>12, <2>13, <2>14, <2>15 DEF Lists
<1>4. \/ Fails(d, "path") \/ Dies
      \/ \E q \in At(node[d].path) : \E out \in SUBSET DiskKids(q) :
            /\ node' = [node EXCEPT ![d].phase = "again",
                          ![d].entries = {[id |-> c, name |-> disk[c].name,
                                           mtime |-> disk[c].mtime] : c \in DiskKids(q) \ out}]
            /\ skipped' = [skipped EXCEPT ![d] = out] /\ GoesWrong(out # {})
            /\ UNCHANGED <<disk, client, due, down, missed>>
  BY DEF ListDone, Completes
<1> QED BY <1>2, <1>3, <1>4

\* A call changes the disk and will read.
LEMMA CallStep ==
  ASSUME CallsInv, node' = node, Flags', Grows, Skips(Dirs),
         disk' \in [Dirs -> Places], NotThere(disk)', \A x \in Dirs : disk[x].mtime <= disk'[x].mtime,
         NEW c \in Clients, client[c].turn = "none", NEW todo \in Seq(Dirs \cup {None}),
         NEW turn \in {"called", "removed", "ready", "ok", "err"}, todo # <<>> \/ turn \notin Waits,
         Wants(c, todo, turn)
  PROVE  Advances
<1>1. /\ TypeOK /\ Typed(node) /\ Rooted(node) /\ client \in [Clients -> Calls] /\ WaitsOnce
  BY TypeIs DEF CallsInv
<1>2. PICK v : v = [client[c] EXCEPT !.todo = todo, !.turn = turn]
  OBVIOUS
<1>3. client' = [client EXCEPT ![c] = v]
  BY <1>2 DEF Wants
<1>4. v \in Calls /\ v.todo = todo /\ v.turn = turn
  BY <1>1, <1>2 DEF Calls
<1>5. client' \in [Clients -> Calls] /\ client'[c] = v /\ \A e \in Clients \ {c} : client'[e] = client[e]
  BY <1>1, <1>3, <1>4
<1>6. \A e \in Clients : client'[e].turn \in Waits => client'[e].todo # <<>>
  BY <1>1, <1>4, <1>5 DEF WaitsOnce, Waits
<1>7. ASSUME NEW x \in Dirs, NEW e \in Heard(x)'
      PROVE  client'[e].turn = client[e].turn /\ client'[e].since = client[e].since /\ client'[e].todo # <<>>
  <2>1. e \in Heard(x)
    BY DEF Heard
  <2>2. e \in Clients \ {c} /\ client[e].todo # <<>>
    BY <2>1, HeardIs
  <2> QED BY <1>5, <2>2
<1>8. \A x \in Dirs : Kept(node'[x], node[x]) /\ Found(node'[x], node[x])
  BY DEF Kept, Found, Placed
<1>9. Typed(node') /\ Rooted(node')
  BY <1>1
<1>10. Proceeds
  BY <1>1, <1>5, <1>6, <1>7, <1>8, <1>9 DEF Proceeds, Follows
<1> QED BY <1>8, <1>10 DEF Advances, Remains

LEMMA CallIs ==
  ASSUME CallsInv, NEW c \in Clients, NEW p, NEW q, Call(c, p, q)
  PROVE  /\ UNCHANGED <<node, due, down>> /\ client[c].turn = "none"
         /\ p \in Dirs /\ q \in Dirs /\ OnDisk(q)
  BY DEF Call, At, Indexed

\* Directories lose and get entries, some within the millisecond of their mtime.
LEMMA ChangeIs ==
  ASSUME CallsInv, UNCHANGED <<node, due, down>>, NEW X \in SUBSET Dirs, NEW T \in [Dirs -> Places],
         NEW read \in BOOLEAN, Change(X, T, read), NotThere(T),
         \A x \in Dirs : disk[x].mtime <= T[x].mtime, \A x \in Dirs \ X : T[x] = disk[x]
  PROVE  /\ disk' \in [Dirs -> Places] /\ NotThere(disk)' /\ \A x \in Dirs : disk[x].mtime <= disk'[x].mtime
         /\ Flags' /\ Grows /\ Skips(Dirs)
<1>1. disk \in [Dirs -> Places] /\ NotThere(disk) /\ Flags
  BY TypeIs DEF CallsInv
<1>2. PICK K \in SUBSET {d \in Dirs : Edits(X, T, d) # {}} :
        /\ GoesWrong(K # {})
        /\ disk' = [d \in Dirs |-> IF Edits(X, T, d) # {} /\ d \notin K
                                   THEN [T[d] EXCEPT !.mtime = @ + 1] ELSE T[d]]
        /\ skipped' = [d \in Dirs |-> IF d \in K THEN skipped[d] \cup Edits(X, T, d) ELSE skipped[d]]
        /\ missed' = [d \in Dirs |-> IF d \in K \/ ~read THEN missed[d] \cup Edits(X, T, d)
                                     ELSE missed[d]]
  BY DEF Change
<1>3. \A d \in Dirs : disk[d].mtime \in Nat /\ T[d].mtime \in Nat
  BY <1>1 DEF Places
<1>4. ASSUME NEW d \in Dirs
      PROVE  /\ disk'[d] \in Places /\ disk'[d].up = T[d].up /\ disk'[d].name = T[d].name
             /\ disk'[d].mtime = IF Edits(X, T, d) # {} /\ d \notin K THEN T[d].mtime + 1 ELSE T[d].mtime
  <2>1. T[d] \in Places
    OBVIOUS
  <2>2. disk'[d] = IF Edits(X, T, d) # {} /\ d \notin K THEN [T[d] EXCEPT !.mtime = @ + 1] ELSE T[d]
    BY <1>2
  <2> QED BY <2>1, <2>2 DEF Places
<1>5. disk' \in [Dirs -> Places] /\ \A x \in Dirs : disk[x].mtime <= disk'[x].mtime
  <2>1. disk' = [d \in Dirs |-> disk'[d]]
    BY <1>2
  <2>2. ASSUME NEW x \in Dirs PROVE disk[x].mtime <= disk'[x].mtime
    BY <1>3, <1>4
  <2> QED BY <1>4, <2>1, <2>2
<1>6. NotThere(disk)'
  <2>1. ASSUME NEW x \in Dirs, disk'[x].mtime = 0 PROVE x # Root /\ disk'[x].up = None
    <3>1. T[x].mtime = 0
      BY <1>3, <1>4, <2>1
    <3> QED BY <1>4, <3>1 DEF NotThere
  <2> QED BY <2>1 DEF NotThere
<1>7. \A d \in Dirs : Edits(X, T, d) \subseteq Dirs
  BY DEF Edits
<1>8. Flags'
  <2>1. faults' \in Nat
    BY <1>1, <1>2 DEF Flags, GoesWrong
  <2>2. skipped' \in [Dirs -> SUBSET Dirs]
    BY <1>1, <1>2, <1>7 DEF Flags
  <2>3. missed' \in [Dirs -> SUBSET Dirs]
    BY <1>1, <1>2, <1>7 DEF Flags
  <2> QED BY <1>1, <2>1, <2>2, <2>3 DEF Flags
<1>9. ASSUME NEW d \in Dirs, NEW old, NEW new, old \subseteq new, d \in K => Edits(X, T, d) \subseteq new
      PROVE  Grown(d, old, new)
  <2> SUFFICES ASSUME disk'[d].mtime = disk[d].mtime, NEW c \in Dirs \ new
               PROVE  /\ c \in DiskKids(d)' <=> c \in DiskKids(d)
                      /\ c \in DiskKids(d) => disk'[c].name = disk[c].name
    BY <1>9 DEF Grown
  <2>1. Edits(X, T, d) = {} \/ d \in K
    <3>1. disk[d].mtime <= T[d].mtime
      OBVIOUS
    <3> QED BY <1>3, <1>4, <3>1
  <2>2. c \notin Edits(X, T, d)
    BY <1>9, <2>1
  <2>3. CASE c \in X
    <3>1. disk[c].up # d /\ T[c].up # d
      BY <2>2, <2>3 DEF Edits
    <3> QED BY <1>4, <3>1 DEF DiskKids
  <2>4. CASE c \notin X
    <3>1. T[c] = disk[c]
      BY <2>4
    <3> QED BY <1>4, <3>1 DEF DiskKids
  <2> QED BY <2>3, <2>4
<1>10. Grows
  <2>1. ASSUME NEW d \in Dirs
        PROVE  missed[d] \subseteq missed'[d] /\ (d \in K => Edits(X, T, d) \subseteq missed'[d])
    BY <1>2
  <2> QED BY <1>9, <2>1 DEF Grows
<1>11. Skips(Dirs)
  <2>1. ASSUME NEW d \in Dirs
        PROVE  skipped[d] \subseteq skipped'[d] /\ (d \in K => Edits(X, T, d) \subseteq skipped'[d])
    BY <1>2
  <2> QED BY <1>9, <2>1 DEF Skips
<1> QED BY <1>5, <1>6, <1>8, <1>10, <1>11

LEMMA ListCallStep ==
  ASSUME CallsInv, NEW c \in Clients, NEW p \in Dirs, List(c, p)
  PROVE  Advances
<1>1. PICK q \in Dirs : Call(c, p, q)
  BY DEF List
<1>2. Wants(c, <<p>>, "ready") /\ UNCHANGED <<disk, faults, memory>>
  BY DEF List
<1>3. disk \in [Dirs -> Places] /\ NotThere(disk) /\ Flags
  BY TypeIs DEF CallsInv
<1>4. node' = node /\ due' = due /\ down' = down /\ client[c].turn = "none"
  BY <1>1, CallIs
<1>5. Flags'
  BY <1>2, <1>3, <1>4 DEF Flags, memory
<1>6. NotThere(disk)' /\ Grows /\ Skips(Dirs) /\ \A x \in Dirs : disk[x].mtime <= disk'[x].mtime
  BY <1>2, <1>3, Still DEF NotThere, Places
<1>7. <<p>> \in Seq(Dirs \cup {None}) /\ <<p>> # <<>>
  OBVIOUS
<1> QED BY <1>2, <1>3, <1>4, <1>5, <1>6, <1>7, CallStep

LEMMA MakeDirStep ==
  ASSUME CallsInv, NEW c \in Clients, NEW p \in Dirs, NEW d \in Dirs, NEW n \in Names, MakeDir(c, p, d, n)
  PROVE  Advances
<1>1. PICK q \in Dirs : /\ Call(c, p, q) /\ disk[d].mtime = 0
                        /\ Change({d}, [disk EXCEPT ![d] = [up |-> q, name |-> n, mtime |-> 1]], TRUE)
                        /\ Wants(c, <<p>>, "called")
  BY DEF MakeDir
<1>2. disk \in [Dirs -> Places] /\ NotThere(disk)
  BY TypeIs DEF CallsInv
<1>3. PICK T : T = [disk EXCEPT ![d] = [up |-> q, name |-> n, mtime |-> 1]]
  OBVIOUS
<1>4. T \in [Dirs -> Places] /\ T[d].mtime = 1 /\ \A x \in Dirs \ {d} : T[x] = disk[x]
  BY <1>2, <1>3 DEF Places
<1>5. NotThere(T)
  BY <1>2, <1>4 DEF NotThere
<1>6. ASSUME NEW x \in Dirs PROVE disk[x].mtime <= T[x].mtime
  <2>1. disk[x].mtime \in Nat
    BY <1>2 DEF Places
  <2> QED BY <1>1, <1>4, <2>1
<1>7. /\ disk' \in [Dirs -> Places] /\ NotThere(disk)' /\ \A x \in Dirs : disk[x].mtime <= disk'[x].mtime
      /\ Flags' /\ Grows /\ Skips(Dirs)
  BY <1>1, <1>3, <1>4, <1>5, <1>6, CallIs, ChangeIs
<1>8. <<p>> \in Seq(Dirs \cup {None}) /\ <<p>> # <<>>
  OBVIOUS
<1> QED BY <1>1, <1>7, <1>8, CallIs, CallStep

LEMMA WithoutIs ==
  ASSUME CallsInv, NEW X \in SUBSET (Dirs \ {Root})
  PROVE  /\ Without(X) \in [Dirs -> Places] /\ NotThere(Without(X))
         /\ \A x \in Dirs : disk[x].mtime <= Without(X)[x].mtime
         /\ \A x \in Dirs \ X : Without(X)[x] = disk[x]
<1>1. disk \in [Dirs -> Places] /\ NotThere(disk)
  BY TypeIs DEF CallsInv
<1>2. PICK T : T = Without(X)
  OBVIOUS
<1>3. DOMAIN T = Dirs /\ \A x \in Dirs : T[x] = IF x \in X THEN [disk[x] EXCEPT !.up = None, !.name = None] ELSE disk[x]
  BY <1>2 DEF Without
<1>4. ASSUME NEW x \in Dirs
      PROVE  T[x] \in Places /\ T[x].mtime = disk[x].mtime /\ disk[x].mtime \in Nat /\ T[x].up \in {disk[x].up, None}
  <2>1. disk[x] \in Places
    BY <1>1
  <2> QED BY <1>3, <2>1 DEF Places
<1>5. T = [x \in Dirs |-> T[x]]
  BY <1>2 DEF Without
<1>6. NotThere(T)
  BY <1>1, <1>4 DEF NotThere
<1>7. T \in [Dirs -> Places]
  BY <1>4, <1>5
<1>8. \A x \in Dirs : disk[x].mtime <= T[x].mtime
  BY <1>4
<1>9. \A x \in Dirs \ X : T[x] = disk[x]
  BY <1>3
<1> QED BY <1>2, <1>6, <1>7, <1>8, <1>9

LEMMA RemoveDirStep ==
  ASSUME CallsInv, NEW c \in Clients, NEW d \in Dirs, RemoveDir(c, d)
  PROVE  Advances
<1>1. PICK x \in Dirs \ {Root} : /\ Call(c, d, x) /\ Change({x}, Without({x}), TRUE)
                                 /\ Wants(c, <<node[d].up>>, "removed")
  BY DEF RemoveDir
<1>2. /\ Without({x}) \in [Dirs -> Places] /\ NotThere(Without({x}))
      /\ \A e \in Dirs : disk[e].mtime <= Without({x})[e].mtime
      /\ \A e \in Dirs \ {x} : Without({x})[e] = disk[e]
  BY WithoutIs
<1>3. /\ disk' \in [Dirs -> Places] /\ NotThere(disk)' /\ \A e \in Dirs : disk[e].mtime <= disk'[e].mtime
      /\ Flags' /\ Grows /\ Skips(Dirs)
  BY <1>1, <1>2, CallIs, ChangeIs
<1>4. <<node[d].up>> \in Seq(Dirs \cup {None}) /\ <<node[d].up>> # <<>>
  <2>1. Typed(node)
    BY TypeIs DEF CallsInv
  <2> QED BY <2>1 DEF Typed, Objects
<1> QED BY <1>1, <1>3, <1>4, CallIs, CallStep

LEMMA RemoveTreeStep ==
  ASSUME CallsInv, NEW c \in Clients, NEW p \in Dirs, RemoveTree(c, p)
  PROVE  Advances
<1>1. PICK q \in Dirs, x \in Dirs, X \in SUBSET (Dirs \ {Root}) :
        /\ Call(c, p, q) /\ Change(X, Without(X), FALSE)
        /\ client' = [client EXCEPT ![c].turn = IF x \in X THEN "ok" ELSE "err"]
  BY DEF RemoveTree, DiskKids
<1>2. /\ Without(X) \in [Dirs -> Places] /\ NotThere(Without(X))
      /\ \A e \in Dirs : disk[e].mtime <= Without(X)[e].mtime
      /\ \A e \in Dirs \ X : Without(X)[e] = disk[e]
  BY WithoutIs
<1>3. /\ disk' \in [Dirs -> Places] /\ NotThere(disk)' /\ \A e \in Dirs : disk[e].mtime <= disk'[e].mtime
      /\ Flags' /\ Grows /\ Skips(Dirs)
  BY <1>1, <1>2, CallIs, ChangeIs
<1>4. PICK turn : turn = IF x \in X THEN "ok" ELSE "err"
  OBVIOUS
<1>5. PICK todo : todo = client[c].todo
  OBVIOUS
<1>6. client \in [Clients -> Calls] /\ client[c] \in Calls
  BY TypeIs DEF CallsInv
<1>7. todo \in Seq(Dirs \cup {None}) /\ turn \in {"ok", "err"} /\ turn \notin Waits
  BY <1>4, <1>5, <1>6 DEF Calls, Waits
<1>8. [client[c] EXCEPT !.turn = turn] = [client[c] EXCEPT !.todo = todo, !.turn = turn]
  BY <1>5, <1>6 DEF Calls
<1>9. Wants(c, todo, turn)
  BY <1>1, <1>4, <1>6, <1>8 DEF Wants
<1> QED BY <1>1, <1>3, <1>7, <1>9, CallIs, CallStep

LEMMA RenameStep ==
  ASSUME CallsInv, NEW c \in Clients, NEW p \in Dirs, NEW d \in Dirs, NEW n \in Names, Rename(c, p, d, n)
  PROVE  Advances
<1>1. PICK q \in Dirs : /\ Call(c, p, q) /\ Change({d}, [disk EXCEPT ![d].name = n], TRUE)
                        /\ Wants(c, <<p>>, "called")
  BY DEF Rename
<1>2. disk \in [Dirs -> Places] /\ NotThere(disk)
  BY TypeIs DEF CallsInv
<1>3. PICK T : T = [disk EXCEPT ![d].name = n]
  OBVIOUS
<1>4. /\ T \in [Dirs -> Places] /\ T[d].up = disk[d].up /\ T[d].mtime = disk[d].mtime
      /\ \A x \in Dirs \ {d} : T[x] = disk[x]
  BY <1>2, <1>3 DEF Places
<1>5. NotThere(T)
  BY <1>2, <1>4 DEF NotThere
<1>6. ASSUME NEW x \in Dirs PROVE disk[x].mtime <= T[x].mtime
  <2>1. disk[x].mtime \in Nat
    BY <1>2 DEF Places
  <2> QED BY <1>4, <2>1
<1>7. /\ disk' \in [Dirs -> Places] /\ NotThere(disk)' /\ \A x \in Dirs : disk[x].mtime <= disk'[x].mtime
      /\ Flags' /\ Grows /\ Skips(Dirs)
  BY <1>1, <1>3, <1>4, <1>5, <1>6, CallIs, ChangeIs
<1>8. <<p>> \in Seq(Dirs \cup {None}) /\ <<p>> # <<>>
  OBVIOUS
<1> QED BY <1>1, <1>7, <1>8, CallIs, CallStep

LEMMA MoveStep ==
  ASSUME CallsInv, NEW c \in Clients, NEW p \in Dirs, NEW d \in Dirs, NEW t \in Dirs, Move(c, p, d, t)
  PROVE  Advances
<1>1. PICK q \in Dirs, r \in Dirs :
        /\ Call(c, p, q) /\ d \in DiskKids(q) /\ Change({d}, [disk EXCEPT ![d].up = r], TRUE)
        /\ Wants(c, <<p, t>>, "called")
  BY DEF Move
<1>2. disk \in [Dirs -> Places] /\ NotThere(disk)
  BY TypeIs DEF CallsInv
<1>3. PICK T : T = [disk EXCEPT ![d].up = r]
  OBVIOUS
<1>4. /\ T \in [Dirs -> Places] /\ T[d].mtime = disk[d].mtime
      /\ \A x \in Dirs \ {d} : T[x] = disk[x]
  BY <1>2, <1>3 DEF Places
<1>5. NotThere(T)
  <2>1. disk[d].up = q /\ q # None
    BY <1>1, RootAssumption DEF DiskKids
  <2>2. T[d].mtime # 0
    BY <1>2, <1>4, <2>1 DEF NotThere
  <2> QED BY <1>2, <1>4, <2>2 DEF NotThere
<1>6. ASSUME NEW x \in Dirs PROVE disk[x].mtime <= T[x].mtime
  <2>1. disk[x].mtime \in Nat
    BY <1>2 DEF Places
  <2> QED BY <1>4, <2>1
<1>7. /\ disk' \in [Dirs -> Places] /\ NotThere(disk)' /\ \A x \in Dirs : disk[x].mtime <= disk'[x].mtime
      /\ Flags' /\ Grows /\ Skips(Dirs)
  BY <1>1, <1>3, <1>4, <1>5, <1>6, CallIs, ChangeIs
<1>8. <<p, t>> \in Seq(Dirs \cup {None}) /\ <<p, t>> # <<>>
  OBVIOUS
<1> QED BY <1>1, <1>7, <1>8, CallIs, CallStep

\* A call that waited for nothing has its answer.
LEMMA TurnStep ==
  ASSUME CallsInv, Begins(node', node), disk' = disk, faults' = faults, memory' = memory, down' = down,
         due' \in BOOLEAN, NEW c \in Clients, client[c].turn \in {"called", "removed", "ready"},
         NEW todo \in Seq(Dirs \cup {None}), NEW turn \in {"ok", "err", "lost"},
         client' = [client EXCEPT ![c].todo = todo, ![c].turn = turn]
  PROVE  Advances
<1>1. /\ TypeOK /\ Rooted(node) /\ Flags'
      /\ client \in [Clients -> Calls] /\ WaitsOnce /\ disk \in [Dirs -> Places] /\ NotThere(disk)
  BY TypeIs DEF CallsInv, Flags, memory
<1>2. /\ Typed(node')
      /\ \A x \in Dirs : /\ Found(node'[x], node[x]) /\ node'[x].up = node[x].up
                         /\ node'[x].state # "none" \/ node'[x] = node[x]
                         /\ Follows(node'[x], node[x], disk[x].mtime)
  BY DEF Begins
<1>3. Rooted(node')
  <2>1. \A x \in Dirs : node'[x].up = node[x].up /\ (node[x].state # "none" => node'[x].state # "none")
    BY <1>2
  <2> QED BY <1>1, <2>1, RootedIs
<1>4. PICK v : v = [client[c] EXCEPT !.todo = todo, !.turn = turn]
  OBVIOUS
<1>5. v \in Calls /\ v.turn = turn
  BY <1>1, <1>4 DEF Calls
<1>6. client' \in [Clients -> Calls] /\ client'[c] = v /\ \A e \in Clients \ {c} : client'[e] = client[e]
  BY <1>1, <1>4, <1>5
<1>7. \A e \in Clients : client'[e].turn \in Waits => client'[e].todo # <<>>
  BY <1>1, <1>5, <1>6 DEF WaitsOnce, Waits
<1>8. ASSUME NEW x \in Dirs, NEW e \in Heard(x)'
      PROVE  client'[e].turn = client[e].turn /\ client'[e].since = client[e].since /\ client'[e].todo # <<>>
  <2>1. e \in Heard(x)
    BY <1>2 DEF Heard, Follows, Kept, New
  <2>2. e \in Clients \ {c} /\ client[e].todo # <<>>
    BY <2>1, HeardIs
  <2> QED BY <1>6, <2>2
<1>9. NotThere(disk)' /\ Grows /\ Skips(Dirs) /\ \A x \in Dirs : disk[x].mtime <= disk'[x].mtime
  BY <1>1, Still DEF NotThere, Places
<1>10. Proceeds
  BY <1>1, <1>2, <1>3, <1>6, <1>7, <1>8, <1>9 DEF Proceeds
<1>11. ASSUME NEW x \in Dirs, node'[x].phase = "again" PROVE Kept(node'[x], node[x])
  BY <1>2, <1>11 DEF Follows, New
<1> QED BY <1>2, <1>9, <1>10, <1>11 DEF Advances, Remains

LEMMA RemovedStep ==
  ASSUME CallsInv, NEW c \in Clients, Removed(c)
  PROVE  Advances
<1>1. CASE Dies
  BY <1>1, DiesStep
<1>2. ASSUME NEW S, node' = Read(node, S), due' = TRUE,
             client' = [client EXCEPT ![c].todo = <<>>, ![c].turn = "ok"],
             UNCHANGED <<disk, faults, down, memory>>
      PROVE  Advances
  <2>1. Begins(Read(node, S), node)
    <3>1. Typed(node)
      BY TypeIs DEF CallsInv
    <3> QED BY <3>1, ReadIs DEF Begins
  <2>2. <<>> \in Seq(Dirs \cup {None}) /\ client[c].turn = "removed"
    BY DEF Removed
  <2> QED BY <1>2, <2>1, <2>2, TurnStep
<1> QED BY <1>1, <1>2 DEF Removed

\* The directory d has one more to call back.
Asked(c, d) ==
  /\ \A x \in Dirs \ {d} : node'[x] = node[x]
  /\ Typed(node') /\ Found(node'[d], node[d]) /\ node'[d].up = node[d].up /\ node'[d].mtime = node[d].mtime
  /\ node'[d].state # "none"
  /\ \/ Reads(node'[d], node[d]) /\ node'[d].asked = node[d].asked /\ node'[d].waiting = node[d].waiting \cup {c}
     \/ node'[d].phase \in {"stat", "stuck"} /\ node'[d].asked = {c} /\ node'[d].waiting = {}

LEMMA ReadCIs ==
  ASSUME CallsInv, NEW c \in Clients, NEW d \in Dirs, node' = ReadC(node, d, c)
  PROVE  Asked(c, d)
<1>1. Typed(node) /\ {c} \in SUBSET Clients
  BY TypeIs DEF CallsInv
<1>2. CASE node[d].state = "Reading"
  <2>1. PICK v : v = [node[d] EXCEPT !.waiting = @ \cup {c}, !.queued = "now"]
    OBVIOUS
  <2>2. DOMAIN node' = Dirs /\ node'[d] = v /\ \A x \in Dirs \ {d} : node'[x] = node[x]
    BY <1>1, <1>2, <2>1 DEF Typed, ReadC
  <2>3. node[d] \in Objects(node[d].path) /\ node[d].phase # "idle"
    BY <1>1, <1>2 DEF Typed
  <2>4. /\ v \in Objects(v.path) /\ v.phase = node[d].phase /\ v.first = node[d].first /\ v.state = "Reading"
        /\ v.up = node[d].up /\ v.name = node[d].name /\ v.mtime = node[d].mtime /\ v.queued = "now"
        /\ v.asked = node[d].asked /\ v.waiting = node[d].waiting \cup {c} /\ v.entries = node[d].entries
    BY <1>2, <2>1, <2>3 DEF Objects
  <2>5. Typed(node')
    BY <1>1, <2>2, <2>3, <2>4 DEF Typed
  <2>6. Found(node'[d], node[d])
    BY <1>2, <2>2, <2>4 DEF Found, Placed
  <2> QED BY <2>2, <2>4, <2>5, <2>6 DEF Asked, Reads
<1>3. CASE node[d].state # "Reading"
  <2>1. node' = Start(node, d, {c})
    BY <1>3 DEF ReadC
  <2> QED BY <1>1, <2>1, StartIs DEF Asked
<1> QED BY <1>2, <1>3

LEMMA StuckIs ==
  ASSUME CallsInv, NEW c \in Clients, NEW d \in Dirs, node[d].state # "Reading",
         node' = [ReadC(node, d, c) EXCEPT ![d].phase = "stuck"]
  PROVE  Asked(c, d)
<1>1. Typed(node) /\ {c} \in SUBSET Clients
  BY TypeIs DEF CallsInv
<1>2. PICK N : N = Start(node, d, {c})
  OBVIOUS
<1>3. /\ Typed(N) /\ (\A x \in Dirs \ {d} : N[x] = node[x]) /\ N[d].state = "Reading" /\ N[d].asked = {c}
      /\ N[d].waiting = {} /\ Found(N[d], node[d]) /\ N[d].mtime = node[d].mtime /\ N[d].up = node[d].up
  BY <1>1, <1>2, StartIs
<1>4. PICK v : v = [N[d] EXCEPT !.phase = "stuck"]
  OBVIOUS
<1>5. node' = [N EXCEPT ![d] = v]
  BY <1>2, <1>4 DEF ReadC
<1>6. DOMAIN node' = Dirs /\ node'[d] = v /\ \A x \in Dirs \ {d} : node'[x] = N[x]
  BY <1>3, <1>5 DEF Typed
<1>7. N[d] \in Objects(N[d].path)
  BY <1>3 DEF Typed
<1>8. /\ v \in Objects(v.path) /\ v.phase = "stuck" /\ v.state = "Reading" /\ v.up = N[d].up /\ v.name = N[d].name
      /\ v.mtime = N[d].mtime /\ v.asked = N[d].asked /\ v.waiting = N[d].waiting
  BY <1>4, <1>3, <1>7 DEF Objects
<1>9. Typed(node')
  <2>1. \A x \in Dirs \ {d} : node'[x] = N[x]
    BY <1>6
  <2>2. v.waiting = {}
    BY <1>3, <1>8
  <2>3. /\ node'[d] \in Objects(node'[d].path) /\ node'[d].state = "Reading" /\ node'[d].phase = "stuck"
        /\ node'[d].waiting = {}
    BY <1>6, <1>8, <2>2
  <2>4. \A x \in Dirs \ {d} : /\ N[x] \in Objects(N[x].path)
                              /\ N[x].state = "none" => N[x] = Absent
                              /\ N[x].phase # "idle" <=> N[x].state = "Reading"
                              /\ N[x].waiting # {} => N[x].queued = "now"
    BY <1>3 DEF Typed
  <2> QED BY <1>6, <2>1, <2>3, <2>4 DEF Typed
<1>10. Found(node'[d], node[d])
  BY <1>3, <1>6, <1>8 DEF Found, Placed
<1> QED BY <1>3, <1>6, <1>8, <1>9, <1>10 DEF Asked

LEMMA AskedStep ==
  ASSUME CallsInv, NEW c \in Clients, NEW d \in Dirs, Asked(c, d), client[c].turn \in {"called", "ready"},
         UNCHANGED <<disk, faults, down, memory>>, due' = TRUE,
         NEW v, client' = [client EXCEPT ![c] = v], v \in Calls, v.todo = client[c].todo,
         v.turn = "err" \/ (v.turn = "waiting" /\ v.since = disk[d].mtime)
  PROVE  /\ CallsInv' /\ Later /\ Remains /\ Grows /\ Skips(Dirs)
         /\ \A x \in Dirs : node'[x].phase = "again" => Reads(node'[x], node[x])
<1>1. /\ TypeOK /\ Rooted(node) /\ Typed(node) /\ Flags
      /\ client \in [Clients -> Calls] /\ WaitsOnce /\ Timed /\ InTime /\ disk \in [Dirs -> Places] /\ NotThere(disk)
  BY TypeIs DEF CallsInv
<1>2. client' \in [Clients -> Calls] /\ client'[c] = v /\ \A e \in Clients \ {c} : client'[e] = client[e]
  BY <1>1
<1>3. client[c].todo # <<>>
  BY <1>1 DEF WaitsOnce
<1>4. \A x \in Dirs : c \notin Heard(x)
  BY HeardIs
<1>5. Rooted(node')
  <2>1. \A x \in Dirs : node'[x].up = node[x].up /\ (node[x].state # "none" => node'[x].state # "none")
    BY DEF Asked
  <2> QED BY <1>1, <2>1, RootedIs
<1>6. Typed(node')
  BY DEF Asked
<1>7. TypeOK'
  <2>1. Flags'
    BY <1>1 DEF Flags, memory
  <2>2. disk' \in [Dirs -> Places] /\ NotThere(disk)'
    BY <1>1 DEF NotThere
  <2>3. client' \in [Clients -> Calls]
    BY <1>2
  <2> QED BY <1>5, <1>6, <2>1, <2>2, <2>3 DEF TypeOK, Typed, Rooted, Flags
<1>8. Remains
  <2>1. \A x \in Dirs \ {d} : Found(node'[x], node[x])
    BY DEF Asked, Found, Placed
  <2> QED BY <2>1 DEF Asked, Remains
<1>9. Later /\ Grows /\ Skips(Dirs)
  BY <1>1, Still DEF Later, Places
<1>10. \A x \in Dirs : node'[x].phase = "again" => Reads(node'[x], node[x])
  BY DEF Asked, Reads
<1>11. Heard(d)' \subseteq Heard(d) \cup {c} /\ \A x \in Dirs \ {d} : Heard(x)' = Heard(x)
  BY DEF Asked, Heard
<1>12. \A e \in Clients : client'[e].turn \in {"called", "removed", "ready", "waiting"} => client'[e].todo # <<>>
  BY <1>1, <1>2, <1>3 DEF WaitsOnce
<1>13. ASSUME NEW x \in Dirs PROVE node'[x].asked \cap node'[x].waiting = {}
  <2>1. node[x].asked \cap node[x].waiting = {} /\ c \notin node[x].asked
    BY <1>1, <1>4 DEF WaitsOnce, Heard
  <2> QED BY <2>1 DEF Asked
<1>14. ASSUME NEW x \in Dirs, NEW e \in Dirs \ {x} PROVE Heard(x)' \cap Heard(e)' = {}
  <2>1. Heard(x) \cap Heard(e) = {}
    BY <1>1 DEF WaitsOnce
  <2> QED BY <1>4, <1>11, <2>1
<1>15. ASSUME NEW x \in Dirs, NEW e \in Heard(x)'
       PROVE  client'[e].turn \in {"waiting", "err"} /\ client'[e].todo # <<>>
  <2>1. CASE e = c
    BY <1>2, <1>3, <2>1
  <2>2. CASE e # c
    <3>1. e \in Heard(x)
      BY <1>11, <2>2
    <3>2. e \in Clients \ {c} /\ client[e].turn \in {"waiting", "err"} /\ client[e].todo # <<>>
      BY <2>2, <3>1, HeardIs
    <3> QED BY <1>2, <3>2
  <2> QED BY <2>1, <2>2
<1>16. WaitsOnce'
  BY <1>12, <1>13, <1>14, <1>15 DEF WaitsOnce
<1>17. Timed'
  <2>1. \A x \in Dirs : node'[x].mtime = node[x].mtime
    BY DEF Asked
  <2>2. \A x \in Dirs : node'[x].phase \in {"list", "again"} =>
          node'[x].phase = node[x].phase /\ node'[x].first = node[x].first
    BY DEF Asked, Reads
  <2> QED BY <1>1, <2>1, <2>2 DEF Timed
<1>18. InTime'
  <2> SUFFICES ASSUME NEW x \in Dirs, NEW e \in Heard(x)', client'[e].turn = "waiting"
               PROVE  /\ client'[e].since <= disk'[x].mtime
                      /\ e \in node'[x].asked /\ node'[x].phase \in {"list", "again"}
                           => client'[e].since <= node'[x].first
    BY DEF InTime
  <2>1. CASE e = c
    <3>1. x = d
      BY <1>4, <1>11, <2>1
    <3>2. client'[e].since = disk[d].mtime /\ disk[d].mtime \in Nat
      BY <1>1, <1>2, <2>1 DEF Places
    <3>3. ~(c \in node'[d].asked /\ node'[d].phase \in {"list", "again"})
      <4>1. c \notin node[d].asked
        BY <1>4 DEF Heard
      <4> QED BY <4>1 DEF Asked
    <3> QED BY <2>1, <3>1, <3>2, <3>3
  <2>2. CASE e # c
    <3>1. e \in Heard(x)
      BY <1>11, <2>2
    <3>2. e \in Clients \ {c}
      BY <2>2, <3>1, HeardIs
    <3>3. client'[e] = client[e]
      BY <1>2, <3>2
    <3>4. /\ client[e].since <= disk[x].mtime
          /\ e \in node[x].asked /\ node[x].phase \in {"list", "again"} => client[e].since <= node[x].first
      BY <1>1, <3>1, <3>3 DEF InTime
    <3>5. e \in node'[x].asked /\ node'[x].phase \in {"list", "again"} =>
            e \in node[x].asked /\ node'[x].phase = node[x].phase /\ node'[x].first = node[x].first
      BY <2>2 DEF Asked, Reads
    <3> QED BY <3>3, <3>4, <3>5
  <2> QED BY <2>1, <2>2
<1>19. Tree'
  BY <1>8, Remaining
<1> QED BY <1>7, <1>8, <1>9, <1>10, <1>16, <1>17, <1>18, <1>19 DEF CallsInv

LEMMA AskStep ==
  ASSUME CallsInv, NEW c \in Clients, Ask(c)
  PROVE  \/ Advances
         \/ /\ CallsInv' /\ Later /\ Remains /\ Grows /\ Skips(Dirs)
            /\ \A x \in Dirs : node'[x].phase = "again" => Reads(node'[x], node[x])
<1>1. /\ client \in [Clients -> Calls] /\ WaitsOnce /\ client[c].turn \in {"called", "ready"}
      /\ disk \in [Dirs -> Places]
  BY TypeIs DEF CallsInv, Ask
<1>2. PICK d : d = Head(client[c].todo)
  OBVIOUS
<1>3. d \in Dirs \cup {None} /\ client[c] \in Calls
  <2>1. client[c] \in Calls /\ client[c].todo # <<>> /\ client[c].todo \in Seq(Dirs \cup {None})
    BY <1>1 DEF WaitsOnce, Calls
  <2> QED BY <1>2, <2>1
<1>4. CASE Dies
  BY <1>4, DiesStep
<1>5. CASE /\ \E turn \in {"lost", "err"} : client' = [client EXCEPT ![c].turn = turn]
           /\ UNCHANGED <<disk, node, due, faults, down, memory>>
  <2>1. PICK turn \in {"lost", "err"} : client' = [client EXCEPT ![c].turn = turn]
    BY <1>5
  <2>2. PICK todo : todo = client[c].todo
    OBVIOUS
  <2>3. todo \in Seq(Dirs \cup {None})
    BY <1>3, <2>2 DEF Calls
  <2>4. [client[c] EXCEPT !.turn = turn] = [client[c] EXCEPT !.todo = todo, !.turn = turn]
    BY <1>3, <2>2 DEF Calls
  <2>5. client' = [client EXCEPT ![c].todo = todo, ![c].turn = turn]
    BY <1>1, <2>1, <2>4
  <2>6. Begins(node', node) /\ due' \in BOOLEAN
    BY <1>5, AsItIs, TypeIs DEF CallsInv, Flags
  <2> QED BY <1>1, <1>5, <2>3, <2>5, <2>6, TurnStep
<1>6. CASE /\ d # None /\ Throws(node, {d})
           /\ node' = [ReadC(node, d, c) EXCEPT ![d].phase = "stuck"]
           /\ client' = [client EXCEPT ![c].turn = "err"] /\ due' = TRUE
           /\ UNCHANGED <<disk, faults, down, memory>>
  <2>1. d \in Dirs /\ node[d].state # "Reading"
    BY <1>3, <1>6 DEF Throws
  <2>2. Asked(c, d)
    BY <1>6, <2>1, StuckIs
  <2>3. PICK v : v = [client[c] EXCEPT !.turn = "err"]
    OBVIOUS
  <2>4. v \in Calls /\ v.turn = "err" /\ v.todo = client[c].todo /\ client' = [client EXCEPT ![c] = v]
    BY <1>3, <1>6, <2>3 DEF Calls
  <2> QED BY <1>1, <1>6, <2>1, <2>2, <2>4, AskedStep
<1>7. CASE /\ d # None /\ node' = ReadC(node, d, c) /\ due' = TRUE
           /\ client' = [client EXCEPT ![c].turn = "waiting", ![c].since = disk[d].mtime]
           /\ UNCHANGED <<disk, faults, down, memory>>
  <2>1. d \in Dirs /\ disk[d].mtime \in Nat
    BY <1>1, <1>3, <1>7 DEF Places
  <2>2. Asked(c, d)
    BY <1>7, <2>1, ReadCIs
  <2>3. PICK v : v = [client[c] EXCEPT !.turn = "waiting", !.since = disk[d].mtime]
    OBVIOUS
  <2>4. /\ v \in Calls /\ v.turn = "waiting" /\ v.since = disk[d].mtime /\ v.todo = client[c].todo
        /\ client' = [client EXCEPT ![c] = v]
    BY <1>3, <1>7, <2>1, <2>3 DEF Calls
  <2>5. v.turn = "err" \/ (v.turn = "waiting" /\ v.since = disk[d].mtime)
    BY <2>4
  <2>6. UNCHANGED <<disk, faults, down, memory>> /\ due' = TRUE
    BY <1>7
  <2> HIDE <1>7
  <2> QED BY <1>1, <2>1, <2>2, <2>4, <2>5, <2>6, AskedStep
<1> QED BY <1>2, <1>4, <1>5, <1>6, <1>7 DEF Ask

-----------------------------------------------------------------------------
(* What updateChildren does.                                               *)

LEMMA EntryIs ==
  ASSUME CallsInv, NEW d \in Dirs
  PROVE  /\ Ids(d) \subseteq Dirs \ {Root}
         /\ \A c \in Ids(d) : Entry(d, c) \in node[d].entries /\ Entry(d, c).id = c /\ Entry(d, c) \in Entries
<1>1. Typed(node) /\ node[d].entries \subseteq Entries
  BY TypeIs DEF CallsInv, Typed, Objects
<1>2. ASSUME NEW c \in Ids(d) PROVE Entry(d, c) \in node[d].entries /\ Entry(d, c).id = c
  <2>1. \E e \in node[d].entries : e.id = c
    BY DEF Ids
  <2> QED BY <2>1 DEF Entry
<1> QED BY <1>1, <1>2 DEF Ids, Entries

\* An object with another name.
Named2(a, b) ==
  /\ Kept(a, b) /\ a.up = b.up /\ a.state = b.state /\ a.queued = b.queued

LEMMA RenamedIs ==
  ASSUME NEW N, Typed(N), Rooted(N), NEW R \in SUBSET Indexed(N), NEW name,
         \A r \in R : name[r] \in Names \cup {None}
  PROVE  /\ Typed(Renamed(N, R, name))
         /\ \A x \in Dirs : /\ Named2(Renamed(N, R, name)[x], N[x])
                            /\ Renamed(N, R, name)[x].name \in
                                 IF x \in R THEN {name[x]} ELSE {N[x].name, Undefined}
<1>1. PICK lose : lose = UNION {Below(N, r) : r \in R}
  OBVIOUS
<1>2. lose \subseteq Indexed(N)
  BY <1>1, BelowIs DEF Indexed
<1>3. PICK M : M = Renamed(N, R, name)
  OBVIOUS
<1>4. M = [x \in Dirs |-> IF x \in R THEN [N[x] EXCEPT !.name = name[x]]
                          ELSE IF x \in lose THEN [N[x] EXCEPT !.name = Undefined] ELSE N[x]]
  BY <1>1, <1>3 DEF Renamed
<1>5. ASSUME NEW x \in Dirs
      PROVE  /\ M[x] \in Objects(M[x].path) /\ (M[x].state = "none" => M[x] = Absent)
             /\ M[x].phase # "idle" <=> M[x].state = "Reading"
             /\ M[x].waiting # {} => M[x].queued = "now"
             /\ Named2(M[x], N[x])
             /\ M[x].name \in IF x \in R THEN {name[x]} ELSE {N[x].name, Undefined}
  <2>1. /\ N[x] \in Objects(N[x].path) /\ (N[x].state = "none" => N[x] = Absent)
        /\ N[x].phase # "idle" <=> N[x].state = "Reading"
        /\ N[x].waiting # {} => N[x].queued = "now"
    BY DEF Typed
  <2>2. CASE x \notin R /\ x \notin lose
    BY <1>4, <2>1, <2>2 DEF Named2, Kept
  <2>3. ASSUME NEW n \in Names \cup {None, Undefined}, M[x] = [N[x] EXCEPT !.name = n], x \in Indexed(N)
        PROVE  /\ M[x] \in Objects(M[x].path) /\ M[x].state = N[x].state /\ M[x].state # "none"
               /\ M[x].waiting = N[x].waiting /\ M[x].queued = N[x].queued /\ M[x].phase = N[x].phase
               /\ Named2(M[x], N[x]) /\ M[x].name = n
    <3>1. PICK v : v = [N[x] EXCEPT !.name = n]
      OBVIOUS
    <3>2. N[x].state # "none"
      BY <2>3 DEF Indexed
    <3> QED BY <2>1, <2>3, <3>1, <3>2 DEF Objects, Named2, Kept
  <2>4. CASE x \in R
    <3>1. M[x] = [N[x] EXCEPT !.name = name[x]] /\ name[x] \in Names \cup {None, Undefined} /\ x \in Indexed(N)
      BY <1>4, <2>4
    <3> QED BY <2>1, <2>3, <2>4, <3>1
  <2>5. CASE x \notin R /\ x \in lose
    <3>1. M[x] = [N[x] EXCEPT !.name = Undefined] /\ x \in Indexed(N)
      BY <1>2, <1>4, <2>5
    <3> QED BY <2>1, <2>3, <2>5, <3>1
  <2> QED BY <2>2, <2>4, <2>5
<1>6. DOMAIN M = Dirs
  BY <1>4
<1>7. Typed(M)
  BY <1>5, <1>6 DEF Typed
<1> QED BY <1>3, <1>5, <1>7

\* No place in the index.
Vanished(a) == a.up = None /\ a.mtime = Never
NameOf(x, d) == IF x \in NewNames(d) THEN {Entry(d, x).name} ELSE {node[x].name, Undefined}

LEMMA PrunedIs ==
  ASSUME CallsInv, NEW d \in Dirs
  PROVE  /\ Typed(Pruned(d))
         /\ \A x \in Dirs : IF x \in Gone(d) THEN Pruned(d)[x] = Absent
                            ELSE Named2(Pruned(d)[x], node[x]) /\ Pruned(d)[x].name \in NameOf(x, d)
<1>1. Typed(node) /\ Rooted(node)
  BY TypeIs DEF CallsInv
<1>2. PICK f : f = [c \in Ids(d) |-> Entry(d, c).name]
  OBVIOUS
<1>3. PICK R : R = NewNames(d)
  OBVIOUS
<1>4. R \in SUBSET Indexed(node) /\ R \subseteq Ids(d)
  BY <1>3 DEF NewNames, Kids
<1>5. \A r \in R : f[r] = Entry(d, r).name /\ f[r] \in Names \cup {None}
  BY <1>2, <1>4, EntryIs DEF Entries
<1>6. PICK M : M = Renamed(node, R, f)
  OBVIOUS
<1>7. /\ Typed(M)
      /\ \A x \in Dirs : Named2(M[x], node[x]) /\ M[x].name \in IF x \in R THEN {f[x]} ELSE {node[x].name, Undefined}
  BY <1>1, <1>4, <1>5, <1>6, RenamedIs
<1>8. PICK P : P = Pruned(d)
  OBVIOUS
<1>9. P = [x \in Dirs |-> IF x \in Gone(d) THEN Absent ELSE M[x]]
  BY <1>2, <1>3, <1>6, <1>8 DEF Pruned, Forget
<1>10. Typed(P)
  BY <1>7, <1>9, AbsentIs DEF Typed
<1>11. \A x \in Dirs : IF x \in Gone(d) THEN P[x] = Absent
                       ELSE Named2(P[x], node[x]) /\ P[x].name \in NameOf(x, d)
  BY <1>3, <1>5, <1>7, <1>9 DEF NameOf
<1> QED BY <1>8, <1>10, <1>11

LEMMA UpdatedIs ==
  ASSUME CallsInv, NEW d \in Dirs
  PROVE  /\ Typed(Updated(d))
         /\ \A x \in Dirs :
              /\ x \in Created(d) => /\ Updated(d)[x].up = d /\ Updated(d)[x].name = Entry(d, x).name
                                     /\ Updated(d)[x].mtime = Never /\ Updated(d)[x].state # "none"
                                     /\ Updated(d)[x].asked = {} /\ Updated(d)[x].waiting = {}
                                     /\ Updated(d)[x].phase = "idle"
              /\ x \in Gone(d) \ Created(d) => /\ Vanished(Updated(d)[x]) /\ Updated(d)[x].asked = {}
                                               /\ Updated(d)[x].waiting = {} /\ Updated(d)[x].phase \in {"idle", "stat"}
              /\ x \notin Created(d) \cup Gone(d) =>
                   /\ \A time : Follows(Updated(d)[x], node[x], time)
                   /\ Updated(d)[x].mtime = node[x].mtime /\ Updated(d)[x].up = node[x].up
                   /\ node[x].state = "none" => Vanished(Updated(d)[x])
                   /\ node[x].state # "none" => Updated(d)[x].state # "none" /\ Updated(d)[x].name \in NameOf(x, d)
<1>1. Typed(node)
  BY TypeIs DEF CallsInv
<1>2. PICK P : P = Pruned(d)
  OBVIOUS
<1>3. /\ Typed(P)
      /\ \A x \in Dirs : IF x \in Gone(d) THEN P[x] = Absent
                         ELSE Named2(P[x], node[x]) /\ P[x].name \in NameOf(x, d)
  BY <1>2, PrunedIs
<1>4. PICK Q : Q = Read(P, ToRead(d))
  OBVIOUS
<1>5. /\ Typed(Q)
      /\ \A x \in Dirs : /\ Found(Q[x], P[x]) /\ Q[x].up = P[x].up /\ Q[x].mtime = P[x].mtime
                         /\ Q[x].state # "none" \/ Q[x] = P[x]
                         /\ \A time : Follows(Q[x], P[x], time)
  BY <1>3, <1>4, ReadIs
<1>6. PICK U : U = Updated(d)
  OBVIOUS
<1>7. U = [c \in Dirs |-> IF c \in Created(d)
                          THEN [Absent EXCEPT !.state = "Init", !.up = d, !.name = Entry(d, c).name] ELSE Q[c]]
  BY <1>2, <1>4, <1>6 DEF Updated
<1>8. ASSUME NEW x \in Created(d)
      PROVE  /\ U[x].up = d /\ U[x].name = Entry(d, x).name /\ U[x].mtime = Never /\ U[x].state = "Init"
             /\ U[x].asked = {} /\ U[x].waiting = {} /\ U[x].phase = "idle"
             /\ U[x] \in Objects(U[x].path)
  <2>1. x \in Dirs /\ Entry(d, x).name \in Names \cup {None}
    BY EntryIs DEF Created, Entries
  <2>2. PICK v : v = [Absent EXCEPT !.state = "Init", !.up = d, !.name = Entry(d, x).name]
    OBVIOUS
  <2>3. U[x] = v
    BY <1>7, <2>1, <2>2
  <2>4. /\ v.up = d /\ v.name = Entry(d, x).name /\ v.mtime = Never /\ v.state = "Init"
        /\ v.asked = {} /\ v.waiting = {} /\ v.phase = "idle" /\ v \in Objects(v.path)
    BY <2>1, <2>2, AbsentIs DEF Objects
  <2> QED BY <2>3, <2>4
<1>9. ASSUME NEW x \in Dirs \ Created(d), x \in Gone(d)
      PROVE  /\ Vanished(U[x]) /\ U[x].asked = {} /\ U[x].waiting = {} /\ U[x].phase \in {"idle", "stat"}
  <2>1. U[x] = Q[x] /\ P[x] = Absent
    BY <1>3, <1>7, <1>9
  <2>2. Follows(Q[x], P[x], Never)
    BY <1>5
  <2> QED BY <1>5, <2>1, <2>2, AbsentIs DEF Vanished, Follows, Kept, New
<1>10. ASSUME NEW x \in Dirs \ Created(d), x \notin Gone(d)
       PROVE  /\ \A time : Follows(U[x], node[x], time)
              /\ U[x].mtime = node[x].mtime /\ U[x].up = node[x].up
              /\ node[x].state = "none" => Vanished(U[x])
              /\ node[x].state # "none" => U[x].state # "none" /\ U[x].name \in NameOf(x, d)
  <2>1. U[x] = Q[x] /\ Named2(P[x], node[x]) /\ P[x].name \in NameOf(x, d)
    BY <1>3, <1>7, <1>10
  <2>2. \A time : Follows(Q[x], P[x], time) /\ Follows(P[x], node[x], time)
    BY <1>5, <2>1 DEF Named2, Follows
  <2>3. \A time : Follows(Q[x], node[x], time)
    BY <2>2, FollowsTwice
  <2>4. node[x].state = "none" => node[x] = Absent
    BY <1>1 DEF Typed
  <2>5. Q[x].mtime = node[x].mtime /\ Q[x].up = node[x].up
    BY <1>5, <2>1 DEF Named2, Kept
  <2>6. node[x].state # "none" => Placed(Q[x], P[x]) /\ P[x].state # "none"
    BY <1>5, <2>1 DEF Named2, Found
  <2> QED BY <2>1, <2>3, <2>4, <2>5, <2>6, AbsentIs DEF Vanished, Placed
<1>11. Typed(U)
  <2>1. ASSUME NEW x \in Dirs
        PROVE  /\ U[x] \in Objects(U[x].path)
               /\ U[x].state = "none" => U[x] = Absent
               /\ U[x].phase # "idle" <=> U[x].state = "Reading"
               /\ U[x].waiting # {} => U[x].queued = "now"
    <3>1. CASE x \in Created(d)
      BY <1>8, <3>1
    <3>2. CASE x \notin Created(d)
      BY <1>5, <1>7, <3>2 DEF Typed
    <3> QED BY <3>1, <3>2
  <2>2. DOMAIN U = Dirs
    BY <1>7
  <2> QED BY <2>1, <2>2 DEF Typed
<1> QED BY <1>6, <1>8, <1>9, <1>10, <1>11

\* The outcome of updateChildren of d; T says whether its mtime is recorded.
Updates(d, T) ==
  /\ d \notin Created(d) \cup Gone(d) /\ node'[d].state # "none"
  /\ New(node'[d], node[d], disk[d].mtime)
  /\ node'[d].mtime = IF T THEN disk[d].mtime ELSE node[d].mtime
  /\ \A x \in Created(d) :
       /\ node'[x].up = d /\ node'[x].name = Entry(d, x).name /\ node'[x].mtime = Never
       /\ node'[x].state # "none" /\ Heard(x)' = {} /\ node'[x].phase = "idle"
  /\ \A x \in Gone(d) \ Created(d) :
       Vanished(node'[x]) /\ Heard(x)' = {} /\ node'[x].phase \in {"idle", "stat"}
  /\ \A x \in Dirs \ (Created(d) \cup Gone(d)) :
       /\ Follows(node'[x], node[x], disk[x].mtime) /\ node'[x].up = node[x].up
       /\ x # d => node'[x].mtime = node[x].mtime
       /\ node[x].state = "none" => Vanished(node'[x])
       /\ node[x].state # "none" => node'[x].state # "none" /\ node'[x].name \in NameOf(x, d)

Recorded(d, T) == IF T THEN [Updated(d) EXCEPT ![d].mtime = disk[d].mtime] ELSE Updated(d)

LEMMA UpdateIs ==
  ASSUME CallsInv, NEW d \in Dirs, node[d].phase = "again", NEW T \in BOOLEAN, NEW again,
         node' = After(Recorded(d, T), d, again)
  PROVE  Typed(node') /\ Updates(d, T)
<1>1. TypeOK /\ Tree /\ Typed(node) /\ disk \in [Dirs -> Places]
  BY TypeIs DEF CallsInv
<1>2. d \in Indexed(node) /\ disk[d].mtime \in Nat
  BY <1>1 DEF Typed, Indexed, Places
<1>3. d \notin Created(d) \cup Gone(d)
  BY <1>1, <1>2, GoneIs DEF Created
<1>4. PICK U : U = Updated(d)
  OBVIOUS
<1>5. /\ Typed(U)
      /\ \A x \in Dirs :
           /\ x \in Created(d) => /\ U[x].up = d /\ U[x].name = Entry(d, x).name
                                  /\ U[x].mtime = Never /\ U[x].state # "none"
                                  /\ U[x].asked = {} /\ U[x].waiting = {} /\ U[x].phase = "idle"
           /\ x \in Gone(d) \ Created(d) => /\ Vanished(U[x]) /\ U[x].asked = {} /\ U[x].waiting = {}
                                            /\ U[x].phase \in {"idle", "stat"}
           /\ x \notin Created(d) \cup Gone(d) =>
                /\ \A time : Follows(U[x], node[x], time)
                /\ U[x].mtime = node[x].mtime /\ U[x].up = node[x].up
                /\ node[x].state = "none" => Vanished(U[x])
                /\ node[x].state # "none" => U[x].state # "none" /\ U[x].name \in NameOf(x, d)
  BY <1>4, UpdatedIs
<1>6. U[d] \in Objects(U[d].path) /\ U[d].state # "none" /\ DOMAIN U = Dirs
  BY <1>1, <1>2, <1>3, <1>5 DEF Typed, Indexed
<1>7. PICK time : time = IF T THEN disk[d].mtime ELSE node[d].mtime
  OBVIOUS
<1>8. PICK v : v = [U[d] EXCEPT !.mtime = time]
  OBVIOUS
<1>9. time \in Nat \cup {Never} /\ U[d].mtime = node[d].mtime
  BY <1>1, <1>2, <1>3, <1>5, <1>7 DEF Typed, Objects
<1>10. /\ v \in Objects(v.path) /\ v.mtime = time /\ v.state = U[d].state /\ v.up = U[d].up /\ v.name = U[d].name
       /\ v.phase = U[d].phase /\ v.waiting = U[d].waiting /\ v.asked = U[d].asked /\ v.queued = U[d].queued
  BY <1>6, <1>8, <1>9 DEF Objects
<1>11. PICK N : N = Recorded(d, T)
  OBVIOUS
<1>12. DOMAIN N = Dirs /\ (\A x \in Dirs \ {d} : N[x] = U[x]) /\ N[d].mtime = time /\ N[d].up = v.up
       /\ N[d].name = v.name /\ N[d].state = v.state /\ N[d].phase = v.phase /\ N[d].waiting = v.waiting
       /\ N[d].asked = v.asked /\ N[d].queued = v.queued /\ N[d] \in Objects(N[d].path)
  <2>1. CASE T
    <3>1. N = [U EXCEPT ![d] = v]
      BY <1>4, <1>7, <1>8, <1>11, <2>1 DEF Recorded
    <3> QED BY <1>6, <1>10, <3>1
  <2>2. CASE ~T
    <3>1. N = U /\ time = U[d].mtime
      BY <1>4, <1>7, <1>9, <1>11, <2>2 DEF Recorded
    <3> QED BY <1>6, <1>10, <3>1
  <2> QED BY <2>1, <2>2
<1>13. Typed(N)
  BY <1>5, <1>6, <1>10, <1>12 DEF Typed
<1>14. /\ Typed(node') /\ (\A x \in Dirs \ {d} : node'[x] = N[x])
       /\ node'[d].state # "none" /\ node'[d].up = N[d].up /\ node'[d].name = N[d].name
       /\ node'[d].mtime = N[d].mtime /\ New(node'[d], N[d], time)
  <2>1. PICK W : W = After(N, d, again)
    OBVIOUS
  <2>2. /\ Typed(W) /\ (\A x \in Dirs \ {d} : W[x] = N[x])
        /\ W[d].state # "none" /\ W[d].up = N[d].up /\ W[d].name = N[d].name
        /\ W[d].mtime = N[d].mtime /\ New(W[d], N[d], time)
    BY <1>13, <2>1, AfterIs
  <2> QED BY <1>11, <2>1, <2>2
<1>15. \A x \in Dirs \ {d} : node'[x] = U[x]
  BY <1>12, <1>14
<1>16. New(node'[d], node[d], disk[d].mtime)
  <2>1. Follows(U[d], node[d], disk[d].mtime)
    BY <1>3, <1>5
  <2> QED BY <1>7, <1>10, <1>12, <1>14, <2>1 DEF New, Follows, Kept
<1>17. node'[d].up = node[d].up /\ node'[d].name \in NameOf(d, d) /\ node[d].state # "none"
  BY <1>2, <1>3, <1>5, <1>10, <1>12, <1>14 DEF Indexed
<1>18. Created(d) \subseteq Dirs /\ Gone(d) \subseteq Dirs
  BY <1>1, EntryIs, GoneIs DEF Created, Indexed
<1>19. \A x \in Created(d) :
         /\ node'[x].up = d /\ node'[x].name = Entry(d, x).name /\ node'[x].mtime = Never
         /\ node'[x].state # "none" /\ Heard(x)' = {} /\ node'[x].phase = "idle"
  BY <1>3, <1>5, <1>15, <1>18 DEF Heard
<1>20. \A x \in Gone(d) \ Created(d) :
         Vanished(node'[x]) /\ Heard(x)' = {} /\ node'[x].phase \in {"idle", "stat"}
  BY <1>3, <1>5, <1>15, <1>18 DEF Heard
<1>21. ASSUME NEW x \in Dirs \ (Created(d) \cup Gone(d))
       PROVE  /\ Follows(node'[x], node[x], disk[x].mtime) /\ node'[x].up = node[x].up
              /\ x # d => node'[x].mtime = node[x].mtime
              /\ node[x].state = "none" => Vanished(node'[x])
              /\ node[x].state # "none" => node'[x].state # "none" /\ node'[x].name \in NameOf(x, d)
  <2>1. CASE x = d
    BY <1>14, <1>16, <1>17, <2>1 DEF Follows
  <2>2. CASE x # d
    BY <1>5, <1>15, <2>2
  <2> QED BY <2>1, <2>2
<1> QED BY <1>3, <1>7, <1>12, <1>14, <1>16, <1>19, <1>20, <1>21 DEF Updates

LEMMA UpdatesStep ==
  ASSUME CallsInv, NEW d \in Dirs, node[d].phase = "again", NEW T \in BOOLEAN, Typed(node'), Updates(d, T),
         Answer(node[d].asked, Callers(Gone(d)), Gone(d)),
         disk' = disk, Flags'
  PROVE  Proceeds /\ Tree' /\ \A x \in Dirs : node'[x].phase = "again" => Kept(node'[x], node[x])
<1>1. TypeOK /\ Tree /\ Typed(node) /\ Rooted(node) /\ WaitsOnce
  BY TypeIs DEF CallsInv
<1>2. PICK G : G = Gone(d)
  OBVIOUS
<1>3. PICK A : A = Created(d)
  OBVIOUS
<1>4. /\ G \subseteq Indexed(node) /\ d \notin G /\ d \in Indexed(node) /\ G \subseteq Dirs
      /\ \A x \in Indexed(node) : node[x].up \in G => x \in G
  BY <1>1, <1>2, GoneIs DEF Typed, Indexed
<1>5. A \subseteq Dirs \ {Root} /\ A \cap Indexed(node) \subseteq G
  BY <1>2, <1>3, EntryIs DEF Created
<1>6. /\ d \notin A /\ node'[d].state # "none" /\ New(node'[d], node[d], disk[d].mtime)
      /\ \A x \in A : /\ node'[x].up = d /\ node'[x].mtime = Never
                      /\ node'[x].state # "none" /\ Heard(x)' = {} /\ node'[x].phase = "idle"
      /\ \A x \in G \ A : Vanished(node'[x]) /\ Heard(x)' = {} /\ node'[x].phase \in {"idle", "stat"}
      /\ \A x \in Dirs \ (A \cup G) :
           /\ Follows(node'[x], node[x], disk[x].mtime) /\ node'[x].up = node[x].up
           /\ node[x].state = "none" => Vanished(node'[x])
           /\ node[x].state # "none" => node'[x].state # "none"
  BY <1>2, <1>3 DEF Updates
<1>7. \A x \in Dirs : Follows(node'[x], node[x], disk[x].mtime)
  BY <1>5, <1>6 DEF Follows, New, Heard, Vanished
<1>8. Rooted(node')
  <2> SUFFICES ASSUME NEW x \in Dirs
               PROVE  node'[x].up \in IF x = Root THEN {None} ELSE Indexed(node)' \cup {None}
    BY DEF Rooted, Indexed
  <2>1. CASE x \in A
    <3>1. d \in Indexed(node)'
      BY <1>6 DEF Indexed
    <3> QED BY <1>5, <1>6, <2>1, <3>1
  <2>2. CASE x \in G \ A
    BY <1>6, <2>2 DEF Vanished
  <2>3. CASE x \notin A \cup G
    <3>1. node'[x].up = node[x].up
      BY <1>6, <2>3
    <3>2. CASE node[x].up \in Indexed(node)
      <4>1. PICK k \in Dirs : k = node[x].up /\ k \in Indexed(node)
        BY <3>2 DEF Indexed
      <4>2. x \in Indexed(node)
        <5>1. node[x].state = "none" => node[x].up = None
          BY <1>1, AbsentIs DEF Typed
        <5> QED BY <3>2, <5>1, RootAssumption DEF Indexed
      <4>3. k \notin G /\ k \notin A
        BY <1>4, <1>5, <2>3, <4>1, <4>2
      <4>4. k \in Indexed(node)'
        BY <1>6, <4>1, <4>3 DEF Indexed
      <4> QED BY <1>1, <3>1, <4>1, <4>4 DEF Rooted
    <3> QED BY <1>1, <3>1, <3>2 DEF Rooted
  <2> QED BY <2>1, <2>2, <2>3
<1>9. Tree'
  <2> SUFFICES ASSUME NEW S \in SUBSET Indexed(node)', S # {}
               PROVE  \E x \in S : node'[x].up \notin S
    BY DEF Tree
  <2>1. S \subseteq Dirs
    BY DEF Indexed
  <2>2. CASE \E x \in S : node'[x].up = None
    BY <2>1, <2>2, RootAssumption
  <2>3. CASE \A x \in S : node'[x].up # None
    <3>1. \A x \in S \ A : /\ x \in Indexed(node) /\ node'[x].up = node[x].up /\ x \notin G
      BY <1>6, <2>1, <2>3 DEF Vanished, Indexed
    <3>2. CASE S \ A = {}
      <4>1. PICK x \in S : TRUE
        OBVIOUS
      <4> QED BY <1>6, <3>2, <4>1
    <3>3. CASE S \ A # {}
      <4>1. S \ A \in SUBSET Indexed(node)
        BY <3>1
      <4>2. PICK x \in S \ A : node[x].up \notin S \ A
        BY <1>1, <3>3, <4>1 DEF Tree
      <4>3. node[x].up \in Indexed(node) /\ node[x].up \notin G
        <5>1. node[x].up # None /\ x \in Dirs
          BY <2>1, <2>3, <3>1, <4>2
        <5> QED BY <1>1, <1>4, <3>1, <4>2, <5>1 DEF Rooted
      <4>4. node[x].up \notin A
        BY <1>5, <4>3
      <4> QED BY <3>1, <4>2, <4>4
    <3> QED BY <3>2, <3>3
  <2> QED BY <2>2, <2>3
<1>10. \A x \in Dirs : Heard(x)' \cap (node[d].asked \cup Callers(G)) = {}
  <2> SUFFICES ASSUME NEW x \in Dirs, NEW c \in Heard(x)'
               PROVE  c \notin node[d].asked /\ \A g \in G : c \notin Heard(g)
    BY DEF Callers, Heard
  <2>1. x \notin A \cup G
    BY <1>6
  <2>2. c \in Heard(x)
    BY <1>7 DEF Follows, Kept, New, Heard
  <2>3. \A g \in G : c \notin Heard(g)
    BY <1>4, <2>1, <2>2, HeardIs
  <2>4. c \notin node[d].asked
    <3>1. CASE x = d
      <4>1. c \in node[d].waiting
        BY <1>6, <3>1 DEF New, Heard
      <4> QED BY <1>1, <4>1 DEF WaitsOnce
    <3>2. CASE x # d
      <4>1. c \notin Heard(d)
        BY <2>2, <3>2, HeardIs
      <4> QED BY <4>1 DEF Heard
    <3> QED BY <3>1, <3>2
  <2> QED BY <2>3, <2>4
<1>11. \A c \in node[d].asked \cup Callers(G) : \E x \in Dirs : c \in Heard(x)
  BY <1>4 DEF Callers, Heard
<1>12. Proceeds
  BY <1>2, <1>7, <1>8, <1>10, <1>11, Answering
<1>13. ASSUME NEW x \in Dirs, node'[x].phase = "again" PROVE Kept(node'[x], node[x])
  BY <1>7, <1>13 DEF Follows, New
<1> QED BY <1>9, <1>12, <1>13

\* What the record of d misses, if there is one.
Misses(d, T) == missed' = IF T THEN [missed EXCEPT ![d] = skipped[d] \cup Moved(d)] ELSE missed

\* A directory that has not changed since the read began is what the read has seen.
LEMMA UpdatesRemember ==
  ASSUME IndexInv, NEW d \in Dirs, node[d].phase = "again", NEW T \in BOOLEAN,
         T <=> disk[d].mtime = node[d].first, Updates(d, T), disk' = disk, Misses(d, T)
  PROVE  CacheIsSound' /\ CacheIsComplete'
<1>1. /\ TypeOK /\ Tree /\ Typed(node) /\ Rooted(node) /\ disk \in [Dirs -> Places]
      /\ CallsInv /\ Timed /\ Seen /\ CacheIsSound /\ CacheIsComplete
  BY TypeIs DEF CallsInv, IndexInv
<1>2. PICK G : G = Gone(d)
  OBVIOUS
<1>3. PICK A : A = Created(d)
  OBVIOUS
<1>4. PICK K : K = Kids(node, d)
  OBVIOUS
<1>5. PICK I : I = Ids(d)
  OBVIOUS
<1>6. /\ G \subseteq Indexed(node) /\ d \notin G /\ G \subseteq Dirs /\ K \cap I \cap G = {}
      /\ \A x \in Indexed(node) : node[x].up \in G => x \in G
      /\ \A x \in G : node[x].up \in G \/ x \in K
  BY <1>1, <1>2, <1>4, <1>5, GoneIs DEF Indexed
<1>7. A = (I \ K) \ (Indexed(node) \ G) /\ Moved(d) = (I \ K) \ A /\ I \subseteq Dirs \ {Root}
  BY <1>1, <1>2, <1>3, <1>4, <1>5, EntryIs DEF Created, Moved
<1>8. K \ I \subseteq G /\ K \subseteq Indexed(node) /\ \A x \in Dirs : x \in K <=> x \in Indexed(node) /\ node[x].up = d
  BY <1>2, <1>4, <1>5 DEF Gone, Subtree, Kids
<1>9. NewNames(d) \subseteq K \cap I /\ \A x \in K \cap I : x \notin NewNames(d) => node[x].name = Entry(d, x).name
  BY <1>4, <1>5 DEF NewNames
<1>10. /\ d \notin A \cup G /\ node'[d].mtime = IF T THEN disk[d].mtime ELSE node[d].mtime
       /\ \A x \in A : /\ node'[x].up = d /\ node'[x].name = Entry(d, x).name /\ node'[x].mtime = Never
                       /\ node'[x].state # "none"
       /\ \A x \in G \ A : Vanished(node'[x])
       /\ \A x \in Dirs \ (A \cup G) :
            /\ node'[x].up = node[x].up
            /\ x # d => node'[x].mtime = node[x].mtime
            /\ node[x].state = "none" => Vanished(node'[x])
            /\ node[x].state # "none" => node'[x].state # "none" /\ node'[x].name \in NameOf(x, d)
  BY <1>2, <1>3 DEF Updates
<1>11. d # None /\ \A x \in Dirs : disk[x].mtime \in Nat /\ disk[x].mtime # Never
  BY <1>1, RootAssumption DEF Places, Never
\* The children of an old directory other than d, and of d.
<1>12. ASSUME NEW e \in Dirs \ (A \cup G), e # d, NEW c \in Dirs
       PROVE  c \in Kids(node, e)' <=> c \in Kids(node, e)
  <2>1. e # None
    BY RootAssumption
  <2>2. CASE c \in A
    <3>1. c \notin Kids(node, e)'
      BY <1>10, <1>12, <2>2 DEF Kids
    <3>2. c \notin Kids(node, e)
      BY <1>7, <1>12, <1>6, <2>2, <1>8 DEF Kids
    <3> QED BY <3>1, <3>2
  <2>3. CASE c \in G \ A
    <3>1. c \notin Kids(node, e)'
      BY <1>10, <2>1, <2>3 DEF Kids, Vanished
    <3>2. c \notin Kids(node, e)
      BY <1>6, <1>8, <1>12, <2>3 DEF Kids
    <3> QED BY <3>1, <3>2
  <2>4. CASE c \notin A \cup G
    BY <1>10, <2>1, <2>4 DEF Kids, Indexed, Vanished
  <2> QED BY <2>2, <2>3, <2>4
<1>13. ASSUME NEW c \in Dirs
       PROVE  c \in Kids(node, d)' <=> c \in A \/ c \in K \cap I
  <2>1. CASE c \in A
    BY <1>10, <2>1 DEF Kids, Indexed
  <2>2. CASE c \in G \ A
    BY <1>6, <1>10, <1>11, <2>2 DEF Kids, Vanished
  <2>3. CASE c \notin A \cup G
    BY <1>8, <1>10, <1>11, <2>3 DEF Kids, Indexed, Vanished
  <2> QED BY <2>1, <2>2, <2>3
<1>14. ASSUME NEW e \in Dirs, node'[e].state # "none", node'[e].mtime = disk[e].mtime
       PROVE  /\ e \notin A \cup G
              /\ e # d => e \in Indexed(node) /\ node[e].mtime = disk[e].mtime
              /\ e = d => T
  <2>1. e \notin A \cup G
    BY <1>10, <1>11, <1>14 DEF Vanished
  <2>2. ASSUME e # d PROVE e \in Indexed(node) /\ node[e].mtime = disk[e].mtime
    BY <1>10, <1>11, <1>14, <2>1, <2>2 DEF Indexed, Vanished
  <2>3. ASSUME e = d, ~T PROVE FALSE
    <3>1. node[d].mtime = disk[d].mtime
      BY <1>10, <1>14, <2>3
    <3>2. node[d].mtime <= node[d].first /\ node[d].first <= disk[d].mtime
      BY <1>1 DEF Timed
    <3>3. node[d].first \in Nat
      BY <1>1 DEF Typed, Objects
    <3> QED BY <1>11, <2>3, <3>1, <3>2, <3>3
  <2> QED BY <2>1, <2>2, <2>3
<1>15. ASSUME T
       PROVE  \A c \in Dirs \ missed'[d] : /\ c \in I <=> c \in DiskKids(d)
                                           /\ c \in I => Entry(d, c).name = disk[c].name
                                           /\ c \notin Moved(d)
  <2>1. /\ Ids(d) \ skipped[d] = DiskKids(d) \ skipped[d]
        /\ \A e \in node[d].entries : e.id \notin skipped[d] => e.name = disk[e.id].name
    BY <1>1, <1>15 DEF Seen
  <2>2. missed'[d] = skipped[d] \cup Moved(d)
    BY <1>15, TypeIs DEF CallsInv, IndexInv, Flags, Misses
  <2>3. ASSUME NEW c \in I, c \notin skipped[d] PROVE Entry(d, c).name = disk[c].name
    <3>1. Entry(d, c) \in node[d].entries /\ Entry(d, c).id = c
      BY <1>1, <1>5, EntryIs
    <3> QED BY <2>1, <2>3, <3>1
  <2> QED BY <1>5, <2>1, <2>2, <2>3
<1>20. ASSUME NEW e \in Dirs, e # d PROVE missed'[e] = missed[e]
  BY <1>20, TypeIs DEF CallsInv, IndexInv, Flags, Misses
<1>16. CacheIsSound'
  <2> SUFFICES ASSUME NEW e \in Indexed(node)', node'[e].mtime = disk'[e].mtime,
                      NEW c \in Kids(node, e)' \ missed'[e]
               PROVE  disk'[c].up = e /\ node'[c].name \in {disk'[c].name, Undefined}
    BY DEF CacheIsSound
  <2>1. e \in Dirs /\ c \in Dirs /\ node'[e].state # "none" /\ e \notin A \cup G
    BY <1>14 DEF Indexed, Kids
  <2>2. CASE e = d
    <3>1. T /\ (c \in A \/ c \in K \cap I)
      BY <1>13, <1>14, <2>1, <2>2
    <3>2. c \in I
      BY <1>7, <3>1
    <3>5. c \in Dirs \ missed'[d]
      BY <2>1, <2>2
    <3>3. disk[c].up = d /\ Entry(d, c).name = disk[c].name
      BY <1>15, <3>1, <3>2, <3>5 DEF DiskKids
    <3>4. node'[c].name \in {Entry(d, c).name, Undefined}
      <4>1. CASE c \in A
        BY <1>10, <4>1
      <4>2. CASE c \notin A
        <5>1. c \in K \cap I /\ c \notin G /\ node[c].state # "none"
          BY <1>6, <1>8, <3>1, <4>2 DEF Indexed
        <5>2. node'[c].name \in NameOf(c, d)
          BY <1>10, <2>1, <4>2, <5>1
        <5> QED BY <1>9, <5>1, <5>2 DEF NameOf
      <4> QED BY <4>1, <4>2
    <3> QED BY <2>2, <3>3, <3>4
  <2>3. CASE e # d
    <3>1. e \in Indexed(node) /\ node[e].mtime = disk[e].mtime
      BY <1>14, <2>1, <2>3
    <3>2. c \in Kids(node, e)
      BY <1>12, <2>1, <2>3
    <3>3. disk[c].up = e /\ node[c].name \in {disk[c].name, Undefined}
      BY <1>1, <1>20, <2>1, <2>3, <3>1, <3>2 DEF CacheIsSound
    <3>4. node[c].up = e /\ node[c].state # "none" /\ e # None
      BY <2>1, <3>2, RootAssumption DEF Kids, Indexed
    <3>5. c \notin A \cup G
      BY <1>6, <1>7, <1>8, <2>1, <2>3, <3>4 DEF Indexed
    <3>6. node'[c].name \in {node[c].name, Undefined}
      <4>1. c \notin NewNames(d)
        BY <1>8, <1>9, <2>1, <2>3, <3>4
      <4> QED BY <1>10, <2>1, <3>4, <3>5, <4>1 DEF NameOf
    <3> QED BY <3>3, <3>6
  <2> QED BY <2>2, <2>3
<1>17. CacheIsComplete'
  <2> SUFFICES ASSUME NEW e \in Indexed(node)', node'[e].mtime = disk'[e].mtime,
                      NEW c \in DiskKids(e)' \ missed'[e]
               PROVE  c \in Kids(node, e)'
    BY DEF CacheIsComplete
  <2>1. e \in Dirs /\ c \in Dirs /\ node'[e].state # "none" /\ e \notin A \cup G /\ c \in DiskKids(e)
    BY <1>14 DEF Indexed, DiskKids
  <2>3. CASE e = d
    <3>1. T
      BY <1>14, <2>1, <2>3
    <3>3. c \in Dirs \ missed'[d]
      BY <2>1, <2>3
    <3>2. c \in I /\ c \notin Moved(d)
      BY <1>15, <2>1, <2>3, <3>1, <3>3
    <3> QED BY <1>7, <1>13, <2>1, <2>3, <3>2
  <2>4. CASE e # d
    <3>1. e \in Indexed(node) /\ node[e].mtime = disk[e].mtime
      BY <1>14, <2>1, <2>4
    <3>2. c \in Kids(node, e)
      BY <1>1, <1>20, <2>1, <2>4, <3>1 DEF CacheIsComplete
    <3> QED BY <1>12, <2>1, <2>4, <3>2
  <2> QED BY <2>3, <2>4
<1> QED BY <1>16, <1>17

-----------------------------------------------------------------------------
(* The theorems.                                                           *)

Goes == /\ CallsInv' /\ Later /\ Remains /\ Grows /\ Skips(Dirs)
        /\ \A x \in Dirs : node'[x].phase = "again" => Reads(node'[x], node[x])
Listed(d) == CallsInv' /\ Later /\ Lists(d)
UpdatedTo(d, T) == /\ CallsInv' /\ Later /\ disk' = disk /\ node[d].phase = "again"
                   /\ (T <=> disk[d].mtime = node[d].first) /\ Updates(d, T)
                   /\ Misses(d, T) /\ skipped' = skipped
                   /\ \A x \in Dirs : node'[x].phase = "again" => Kept(node'[x], node[x])

LEMMA AdvancesGoes ==
  ASSUME CallsInv, Advances
  PROVE  Goes
<1>1. /\ Proceeds /\ Remains /\ Grows /\ Skips(Dirs)
      /\ \A x \in Dirs : node'[x].phase = "again" => Kept(node'[x], node[x])
  BY DEF Advances
<1>2. Tree'
  BY <1>1, Remaining
<1>3. CallsInv'
  BY <1>1, <1>2, Proceeding
<1>4. Later
  BY <1>1 DEF Proceeds, Later
<1>5. \A x \in Dirs : node'[x].phase = "again" => Reads(node'[x], node[x])
  BY <1>1 DEF Kept, Reads
<1> QED BY <1>1, <1>3, <1>4, <1>5 DEF Goes

LEMMA ListGoes ==
  ASSUME CallsInv, NEW d \in Dirs, ListDone(d)
  PROVE  Goes \/ Listed(d)
<1>1. CASE Advances
  BY <1>1, AdvancesGoes
<1>2. CASE Proceeds /\ Lists(d)
  <2>1. CallsInv'
    BY <1>2, Remaining, Proceeding DEF Lists
  <2>2. Later
    BY <1>2 DEF Proceeds, Later
  <2> QED BY <1>2, <2>1, <2>2 DEF Listed
<1> QED BY <1>1, <1>2, ListStep

LEMMA AgainGoes ==
  ASSUME CallsInv, NEW d \in Dirs, AgainDone(d)
  PROVE  Goes \/ \E T \in BOOLEAN : UpdatedTo(d, T)
<1>1. node[d].phase = "again"
  BY DEF AgainDone
<1>2. CASE Dies \/ \E kind : Fails(d, kind)
  BY <1>1, <1>2, DiesStep, FailsStep, AdvancesGoes
<1>3. CASE UpdateChildren(d, disk[d].mtime # node[d].first)
  <2>1. PICK t \in BOOLEAN : t <=> disk[d].mtime # node[d].first
    OBVIOUS
  <2>2. PICK T \in BOOLEAN : T <=> disk[d].mtime = node[d].first
    OBVIOUS
  <2>3. Records(disk[d].mtime # node[d].first) <=> T
    BY <2>2 DEF Records
  <2>4. CASE Dies
    BY <2>4, DiesStep, AdvancesGoes
  <2>5. ASSUME NEW again, node' = After(Recorded(d, T), d, again),
               Answer(node[d].asked, Callers(Gone(d)), Gone(d)),
               missed' = IF Records(disk[d].mtime # node[d].first)
                         THEN [missed EXCEPT ![d] = skipped[d] \cup Moved(d)] ELSE missed,
               due' = TRUE, UNCHANGED <<disk, faults, down, skipped>>
        PROVE  UpdatedTo(d, T)
    <3>1. Typed(node') /\ Updates(d, T)
      BY <1>1, <2>5, UpdateIs
    <3>2. Flags' /\ disk \in [Dirs -> Places] /\ Misses(d, T)
      <4>1. Flags /\ disk \in [Dirs -> Places] /\ Typed(node)
        BY TypeIs DEF CallsInv
      <4>2. Misses(d, T)
        BY <2>3, <2>5 DEF Misses
      <4>3. Ids(d) \subseteq Dirs
        BY <4>1, EntryIs
      <4>4. skipped[d] \cup Moved(d) \in SUBSET Dirs
        BY <4>1, <4>3 DEF Flags, Moved
      <4>5. missed' \in [Dirs -> SUBSET Dirs]
        BY <4>1, <4>2, <4>4 DEF Misses, Flags
      <4> QED BY <2>5, <4>1, <4>2, <4>5 DEF Flags
    <3>3. Proceeds /\ Tree' /\ \A x \in Dirs : node'[x].phase = "again" => Kept(node'[x], node[x])
      BY <1>1, <2>5, <3>1, <3>2, UpdatesStep
    <3>4. CallsInv'
      BY <3>3, Proceeding
    <3>5. Later
      BY <2>5, <3>2 DEF Later, Places
    <3>6. skipped' = skipped
      BY <2>5
    <3> QED BY <1>1, <2>2, <2>5, <3>1, <3>2, <3>3, <3>4, <3>5, <3>6 DEF UpdatedTo
  <2>6. Dies \/ \E again : /\ node' = After(Recorded(d, T), d, again)
                           /\ Answer(node[d].asked, Callers(Gone(d)), Gone(d))
                           /\ missed' = IF Records(disk[d].mtime # node[d].first)
                                        THEN [missed EXCEPT ![d] = skipped[d] \cup Moved(d)] ELSE missed
                           /\ due' = TRUE /\ UNCHANGED <<disk, faults, down, skipped>>
    BY <1>3, <2>3 DEF UpdateChildren, Recorded
  <2> QED BY <2>4, <2>5, <2>6
<1> QED BY <1>2, <1>3 DEF AgainDone, Completes

LEMMA NextGoes ==
  ASSUME CallsInv, Next
  PROVE  \/ Goes
         \/ \E d \in Dirs : ListDone(d) /\ Listed(d)
         \/ \E d \in Dirs, T \in BOOLEAN : UpdatedTo(d, T)
<1>1. CASE Sched \/ DeleteRoot
  BY <1>1, SchedStep, DeleteRootStep, AdvancesGoes
<1>2. CASE \E d \in Dirs : Timeout(d) \/ StatDone(d) \/ Fault(d)
  BY <1>2, TimeoutStep, StatStep, FaultStep, AdvancesGoes
<1>3. CASE \E d \in Dirs : ListDone(d)
  BY <1>3, ListGoes
<1>4. CASE \E d \in Dirs : AgainDone(d)
  BY <1>4, AgainGoes
<1>5. CASE \E c \in Clients : Ask(c) \/ Removed(c)
  <2>1. ASSUME NEW c \in Clients, Ask(c) PROVE Goes
    BY <2>1, AskStep, AdvancesGoes DEF Goes
  <2>2. ASSUME NEW c \in Clients, Removed(c) PROVE Goes
    BY <2>2, RemovedStep, AdvancesGoes
  <2> QED BY <1>5, <2>1, <2>2
<1>6. CASE \E c \in Clients, p \in Dirs : List(c, p) \/ RemoveTree(c, p)
  BY <1>6, ListCallStep, RemoveTreeStep, AdvancesGoes
<1>7. CASE \E c \in Clients, p, d \in Dirs, n \in Names : MakeDir(c, p, d, n) \/ Rename(c, p, d, n)
  BY <1>7, MakeDirStep, RenameStep, AdvancesGoes
<1>8. CASE \E c \in Clients, d \in Dirs : RemoveDir(c, d)
  BY <1>8, RemoveDirStep, AdvancesGoes
<1>9. CASE \E c \in Clients, p, d, t \in Dirs : Move(c, p, d, t)
  BY <1>9, MoveStep, AdvancesGoes
<1> QED BY <1>1, <1>2, <1>3, <1>4, <1>5, <1>6, <1>7, <1>8, <1>9 DEF Next

LEMMA Begun ==
  Init => IndexInv
<1> SUFFICES ASSUME Init PROVE IndexInv
  OBVIOUS
<1>1. disk \in Trees /\ disk \in [Dirs -> Places] /\ NotThere(disk)
  BY TreesAssumption DEF Init
<1>2. PICK v : v = [Absent EXCEPT !.state = "Init"]
  OBVIOUS
<1>3. /\ v \in Objects(v.path) /\ v.state = "Init" /\ v.up = None /\ v.mtime = Never /\ v.phase = "idle"
      /\ v.asked = {} /\ v.waiting = {}
  BY <1>2, AbsentIs DEF Objects
<1>4. DOMAIN node = Dirs /\ node[Root] = v /\ \A d \in Dirs \ {Root} : node[d] = Absent
  BY <1>2, RootAssumption DEF Init
<1>5. \A d \in Dirs : /\ node[d].up = None /\ node[d].mtime = Never /\ node[d].phase = "idle"
                      /\ node[d].asked = {} /\ node[d].waiting = {}
  BY <1>3, <1>4, AbsentIs
<1>6. Typed(node) /\ Rooted(node)
  BY <1>3, <1>4, <1>5, AbsentIs DEF Typed, Rooted
<1>7. /\ client \in [Clients -> Calls] /\ Flags
      /\ \A c \in Clients : client[c].turn = "none"
  <2>1. [todo |-> <<>>, turn |-> "none", since |-> 0] \in Calls
    BY DEF Calls
  <2> QED BY <1>1, <2>1, LimitAssumption DEF Init, Flags
<1>8. TypeOK
  BY <1>1, <1>6, <1>7, TypeIs
<1>9. WaitsOnce /\ InTime
  BY <1>5, <1>7 DEF WaitsOnce, InTime, Heard
<1>10. \A d \in Dirs : disk[d].mtime \in Nat
  BY <1>1 DEF Places
<1>11. Timed
  BY <1>5, <1>10 DEF Timed, Never
<1>12. Tree
  BY <1>5, RootAssumption DEF Tree, Indexed
<1>13. Seen
  BY <1>5 DEF Seen
<1>14. CacheIsSound /\ CacheIsComplete
  <2>1. \A d \in Indexed(node) : node[d].mtime # disk[d].mtime
    BY <1>5, <1>10 DEF Indexed, Never
  <2> QED BY <2>1 DEF CacheIsSound, CacheIsComplete
<1> QED BY <1>8, <1>9, <1>11, <1>12, <1>13, <1>14 DEF IndexInv, CallsInv

LEMMA CallsNext ==
  CallsInv /\ [Next]_vars => CallsInv'
<1>1. ASSUME CallsInv, Next PROVE CallsInv'
  BY <1>1, NextGoes DEF Goes, Listed, UpdatedTo
<1>2. ASSUME CallsInv, UNCHANGED vars PROVE CallsInv'
  BY <1>2 DEF vars, memory, CallsInv, TypeOK, NotThere, Indexed, Tree, WaitsOnce, Heard, Timed, InTime
<1> QED BY <1>1, <1>2

\* The tree of directories, the calls and the times are always in order.
THEOREM CallsInOrder ==
  Spec => []CallsInv
<1>1. Init => CallsInv
  BY Begun DEF IndexInv
<1> QED BY <1>1, CallsNext, PTL DEF Spec

\* A call's listing was read after the call asked for it: a read that was under way when it
\* asked, which might not have seen what the caller did, is never its answer (directory.js 304).
THEOREM Fresh ==
  Spec => AnswerIsFresh
<1>1. ASSUME CallsInv, NEW d \in Dirs, NEW c \in node[d].asked, client[c].turn = "waiting", node[d].phase = "again"
      PROVE  node[d].first >= client[c].since
  <2>1. c \in Heard(d)
    BY DEF Heard
  <2>2. client[c].since <= node[d].first
    BY <1>1, <2>1 DEF CallsInv, InTime
  <2>3. node[d].first \in Nat /\ client[c].since \in Nat
    <3>1. Typed(node) /\ client \in [Clients -> Calls]
      BY <1>1, TypeIs DEF CallsInv
    <3>2. node[d] \in Objects(node[d].path) /\ client[c] \in Calls
      BY <1>1, <2>1, <3>1, HeardIs DEF Typed
    <3> QED BY <3>2 DEF Objects, Calls
  <2> QED BY <2>2, <2>3
<1>2. CallsInv /\ [Next]_vars =>
        [\A d \in Dirs : \A c \in node[d].asked :
           client[c].turn = "waiting" /\ client'[c].turn \in {"ok", "ready"} /\ node[d].phase = "again"
             => node[d].first >= client[c].since]_vars
  BY <1>1
<1> QED BY <1>2, CallsInOrder, PTL DEF Spec, AnswerIsFresh

\* While readdir lists a directory by its path, no other directory is there that will be gone
\* again before it looks at the path once more (readdir.js 47 would not notice).
Itself == \A d \in Dirs : ListDone(d) => At(node[d].path) \subseteq {d}
Steady == [][Itself]_vars

LEMMA SeenIs ==
  ASSUME CallsInv', CacheIsSound', CacheIsComplete',
         \A x \in Dirs : node'[x].phase = "again" /\ node'[x].first = disk'[x].mtime => SeenIn(x)'
  PROVE  IndexInv'
<1>1. Seen'
  BY DEF Seen, SeenIn
<1> QED BY <1>1 DEF IndexInv

LEMMA IndexNext ==
  IndexInv /\ [Next]_vars /\ [Itself]_vars => IndexInv'
<1>1. ASSUME IndexInv, Goes PROVE IndexInv'
  <2>1. Later /\ Remains /\ Grows /\ CallsInv'
    BY <1>1 DEF Goes
  <2>2. CacheIsSound' /\ CacheIsComplete'
    BY <1>1, <2>1, Remembering
  <2>3. ASSUME NEW x \in Dirs, node'[x].phase = "again", node'[x].first = disk'[x].mtime
        PROVE  SeenIn(x)'
    <3>1. Reads(node'[x], node[x]) /\ Grown(x, skipped[x], skipped'[x])
      BY <1>1, <2>3 DEF Goes, Skips
    <3> QED BY <1>1, <2>1, <2>3, <3>1, Seeing
  <2> QED BY <2>1, <2>2, <2>3, SeenIs
<1>2. ASSUME IndexInv, NEW d \in Dirs, ListDone(d), Listed(d), Itself PROVE IndexInv'
  <2>1. /\ Later /\ Remains /\ Grows /\ Skips(Dirs \ {d}) /\ CallsInv' /\ disk' = disk
        /\ \A x \in Dirs \ {d} : Kept(node'[x], node[x])
    BY <1>2 DEF Listed, Lists
  <2>2. CacheIsSound' /\ CacheIsComplete'
    BY <1>2, <2>1, Remembering
  <2>3. Listing(d, d, skipped'[d]) /\ skipped'[d] \subseteq DiskKids(d)
    BY <1>2 DEF Listed, Lists, Itself
  <2>4. SeenIn(d)'
    <3>1. PICK K : K = DiskKids(d) \ skipped'[d]
      OBVIOUS
    <3>2. PICK E : E = {[id |-> c, name |-> disk[c].name, mtime |-> disk[c].mtime] : c \in K}
      OBVIOUS
    <3>3. node'[d].entries = E
      BY <2>3, <3>1, <3>2 DEF Listing
    <3>4. DiskKids(d)' = DiskKids(d)
      BY <2>1 DEF DiskKids
    <3>5. {e.id : e \in E} = K /\ \A e \in E : e.name = disk[e.id].name
      <4>1. \A e \in E : e.id \in K /\ e.name = disk[e.id].name
        BY <3>2
      <4>2. ASSUME NEW c \in K PROVE \E e \in E : e.id = c
        <5>1. [id |-> c, name |-> disk[c].name, mtime |-> disk[c].mtime] \in E
          BY <3>2
        <5> QED BY <5>1
      <4> QED BY <4>1, <4>2
    <3>6. Ids(d)' = K
      BY <3>3, <3>5 DEF Ids
    <3> QED BY <2>1, <3>1, <3>3, <3>4, <3>5, <3>6 DEF SeenIn
  <2>5. ASSUME NEW x \in Dirs, node'[x].phase = "again", node'[x].first = disk'[x].mtime
        PROVE  SeenIn(x)'
    <3>1. CASE x = d
      BY <2>4, <3>1
    <3>2. CASE x # d
      <4>1. Reads(node'[x], node[x]) /\ Grown(x, skipped[x], skipped'[x])
        BY <2>1, <3>2 DEF Kept, Reads, Skips
      <4> QED BY <1>2, <2>1, <2>5, <4>1, Seeing
    <3> QED BY <3>1, <3>2
  <2> QED BY <2>1, <2>2, <2>5, SeenIs
<1>3. ASSUME IndexInv, NEW d \in Dirs, NEW T \in BOOLEAN, UpdatedTo(d, T) PROVE IndexInv'
  <2>1. /\ Later /\ CallsInv' /\ disk' = disk /\ skipped' = skipped
        /\ \A x \in Dirs : node'[x].phase = "again" => Kept(node'[x], node[x])
    BY <1>3 DEF UpdatedTo
  <2>2. CacheIsSound' /\ CacheIsComplete'
    BY <1>3, UpdatesRemember DEF UpdatedTo
  <2>3. ASSUME NEW x \in Dirs, node'[x].phase = "again", node'[x].first = disk'[x].mtime
        PROVE  SeenIn(x)'
    <3>1. Reads(node'[x], node[x]) /\ Grown(x, skipped[x], skipped'[x])
      BY <2>1, <2>3, Still DEF Kept, Reads, Skips
    <3> QED BY <1>3, <2>1, <2>3, <3>1, Seeing
  <2> QED BY <2>1, <2>2, <2>3, SeenIs
<1>4. ASSUME IndexInv, UNCHANGED vars PROVE IndexInv'
  <2>1. CallsInv'
    BY <1>4, CallsNext DEF IndexInv
  <2>2. Seen' /\ CacheIsSound' /\ CacheIsComplete'
    BY <1>4 DEF vars, memory, IndexInv, Seen, CacheIsSound, CacheIsComplete, Ids, DiskKids, Kids, Indexed
  <2> QED BY <2>1, <2>2 DEF IndexInv
<1>5. ASSUME IndexInv, Next, ~UNCHANGED vars, Itself PROVE IndexInv'
  <2>1. CallsInv
    BY <1>5 DEF IndexInv
  <2> QED BY <1>1, <1>2, <1>3, <1>5, <2>1, NextGoes
<1> QED BY <1>4, <1>5

\* What the index takes to be read is what is on disk: a directory whose recorded mtime is the
\* one on disk, whose next read without a caller will be skipped (readdir.js 16), has the
\* children that are there and no others, but for those it has to miss: whose attributes the
\* last recorded read could not read (readdir.js 43), that it found still indexed elsewhere
\* (directory.js 261), or that changed after its listing within the millisecond of the mtime.
THEOREM CacheIsRight ==
  Spec /\ Steady => []IndexInv
BY Begun, IndexNext, PTL DEF Spec, Steady
=============================================================================
