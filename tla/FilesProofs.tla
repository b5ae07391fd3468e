----------------------------- MODULE FilesProofs -----------------------------
(* Safety of NameOps, for any calls, policies, names, sources and contents,   *)
(* and of FileIndex, for any files, directories, names and number of workers. *)
EXTENDS FileParts, SequencesExt, SequenceTheorems, FiniteSetTheorems, WellFoundedInduction, TLAPS

-----------------------------------------------------------------------------
(* The types.                                                              *)

Objects == Calls \cup {0} \cup UNION {{B[p].obj : p \in Paths} : B \in Begins}
Content == [kind : Kinds \cup {"none"}, obj : Objects]
CallRecs == [pc : Steps \cup {"idle", "done"}, op : Ops \cup {[api |-> "none"]}, name : Names,
             kind : {"file", "dir", "none"}, seen : Content,
             resolved : {"none", "same", "diff"}, locked : BOOLEAN,
             answer : {"none", "placed", "skipped", "error"}]
Tree(A) == A \in [Paths -> Content] /\ \A p \in Paths : A[p] = Free <=> A[p].kind = "none"

\* What a call does fits what it was asked; what it saw is why it renames or clears.
Fit(r) ==
  /\ r.answer # "none" <=> r.pc = "done"
  /\ r.pc \in Steps =>
       /\ r.op \in Ops
       /\ r.pc = "remove" => r.op.api = "REMOVE"
       /\ r.pc = "type" => r.op.api = "RENAME"
       /\ r.pc \in {"read", "clone", "check"} => r.op.api = "CPFILE"
       /\ r.pc = "act" => r.op.api \in {"NEWFILE", "MKDIR", "CPFILE"}
       /\ r.pc \in {"peek", "mv", "wait"} => r.op.api \in Renames
       /\ r.pc \in {"look", "list", "clear", "stat"} => r.op.api # "REMOVE"
       /\ r.pc \notin {"remove", "type"} => r.kind \in {"file", "dir"}
       /\ r.op.api \in {"MKDIR", "MVDIRS"} => r.kind = "dir"
       /\ r.op.api \in {"NEWFILE", "CPFILE", "MVFILE"} => r.kind = "file"
       /\ r.pc = "mv" => r.seen = Free
       /\ r.pc = "clear" => Told(r.op, r.kind, r.seen) = "replace"

Typed ==
  /\ Tree(at) /\ \A o \in Ops : Fits(o, at)
  /\ call \in [Calls -> CallRecs] /\ \A c \in Calls : Fit(call[c])
  /\ working \in BOOLEAN /\ faults \in 0 .. MaxFaults
  /\ alone \subseteq Active

\* Every call puts at most one thing under the name that follows the last one.
Placed == {c \in Calls : call[c].pc \in {"stat", "done"}}
Top == Cardinality(Names) - Cardinality(Calls)
Numbered ==
  /\ \A n \in Names : at[n] # Free => n <= Top + Cardinality(Placed)
  /\ \A c \in Calls \ Placed : call[c].name <= Top + Cardinality(Placed) + 1

\* A call's record after a step, and the others'.
LEMMA Changing ==
  ASSUME call \in [Calls -> CallRecs], NEW c \in Calls, NEW new \in CallRecs,
         call' = [call EXCEPT ![c] = new]
  PROVE  /\ call' \in [Calls -> CallRecs] /\ call'[c] = new
         /\ \A d \in Calls : d # c => call'[d] = call[d]
  OBVIOUS

LEMMA Things ==
  /\ Free \in Content /\ Free.kind = "none"
  /\ \A c \in Calls, k \in Kinds : /\ [kind |-> k, obj |-> c] \in Content
                                   /\ [kind |-> k, obj |-> c] # Free
                                   /\ [kind |-> k, obj |-> c].kind = k
<1>1. Free \in Content /\ Free.kind = "none"
  BY DEF Free, Content, Objects
<1>2. ASSUME NEW c \in Calls, NEW k \in Kinds
      PROVE  /\ [kind |-> k, obj |-> c] \in Content /\ [kind |-> k, obj |-> c] # Free
             /\ [kind |-> k, obj |-> c].kind = k
  <2>1. PICK e : e = [kind |-> k, obj |-> c]
    OBVIOUS
  <2>2. e \in Content /\ e.kind = k
    BY <2>1 DEF Content, Objects
  <2>3. k # "none"
    BY DEF Kinds
  <2> QED BY <1>1, <2>1, <2>2, <2>3
<1> QED BY <1>1, <1>2

\* What is put, cleared and moved leaves a tree, and sources are never put.
LEMMA TreeChanges ==
  ASSUME NEW A, Tree(A)
  PROVE  /\ \A p \in Paths : Tree([A EXCEPT ![p] = Free])
         /\ \A p \in Paths, c \in Calls, k \in Kinds : Tree([A EXCEPT ![p] = [kind |-> k, obj |-> c]])
         /\ \A p, q \in Paths : p # q => Tree(Move(A, p, q))
<1>1. ASSUME NEW p \in Paths, NEW e \in Content, e = Free <=> e.kind = "none"
      PROVE  Tree([A EXCEPT ![p] = e])
  BY <1>1 DEF Tree
<1>2. ASSUME NEW p \in Paths, NEW q \in Paths, p # q PROVE Tree(Move(A, p, q))
  BY <1>2, Things DEF Tree, Move
<1>3. \A c \in Calls, k \in Kinds : [kind |-> k, obj |-> c].kind # "none"
  BY Things DEF Kinds
<1>4. \A p \in Paths : Tree([A EXCEPT ![p] = Free])
  BY <1>1, Things
<1>5. ASSUME NEW p \in Paths, NEW c \in Calls, NEW k \in Kinds
      PROVE  Tree([A EXCEPT ![p] = [kind |-> k, obj |-> c]])
  BY <1>1, <1>3, Things
<1> QED BY <1>2, <1>4, <1>5

LEMMA FitsStay ==
  ASSUME Inputs, NEW A, NEW B, \A o \in Ops : Fits(o, A),
         \A p \in Sources : B[p] = A[p] \/ B[p] = Free
  PROVE  \A o \in Ops : Fits(o, B)
<1>1. ASSUME NEW o \in Ops PROVE Fits(o, B)
  <2>1. o.api \in Renames \cup {"CPFILE"} => o.from \in Sources
    BY DEF Inputs
  <2> QED BY <2>1, Things DEF Fits, Renames
<1> QED BY <1>1

LEMMA NoCallRec == Inputs => NoCall \in CallRecs /\ Fit(NoCall)
<1> SUFFICES ASSUME Inputs PROVE NoCall \in CallRecs /\ Fit(NoCall)
  OBVIOUS
<1>1. 1 \in Names
  BY FS_CardinalityType DEF Inputs
<1>2. PICK x : x = NoCall
  OBVIOUS
<1>3. x \in CallRecs /\ x.pc = "idle" /\ x.answer = "none"
  BY <1>1, <1>2, Things DEF NoCall, CallRecs
<1> QED BY <1>2, <1>3 DEF Fit, Steps

\* The records a call goes through.
LEMMA Records ==
  ASSUME Inputs, call \in [Calls -> CallRecs], NEW c \in Calls
  PROVE  /\ call[c] \in CallRecs
         /\ \A s \in Steps : /\ To(c, s) \in CallRecs /\ To(c, s).pc = s /\ To(c, s).op = call[c].op
                             /\ To(c, s).name = call[c].name /\ To(c, s).kind = call[c].kind
                             /\ To(c, s).seen = call[c].seen /\ To(c, s).answer = call[c].answer
         /\ \A a \in {"placed", "skipped", "error"} :
              /\ Done(c, a) \in CallRecs /\ Done(c, a).pc = "done" /\ Done(c, a).op = call[c].op
              /\ Done(c, a).name = call[c].name /\ Done(c, a).answer = a
<1>1. PICK x \in CallRecs : x = call[c]
  OBVIOUS
<1>2. ASSUME NEW s \in Steps
      PROVE  /\ To(c, s) \in CallRecs /\ To(c, s).pc = s /\ To(c, s).op = x.op /\ To(c, s).name = x.name
             /\ To(c, s).kind = x.kind /\ To(c, s).seen = x.seen /\ To(c, s).answer = x.answer
  BY <1>1 DEF To, CallRecs
<1>3. ASSUME NEW a \in {"placed", "skipped", "error"}
      PROVE  /\ Done(c, a) \in CallRecs /\ Done(c, a).pc = "done" /\ Done(c, a).op = x.op
             /\ Done(c, a).name = x.name /\ Done(c, a).answer = a
  <2>1. PICK n \in CallRecs : n = NoCall
    BY Things, NoCallRec
  <2>2. Done(c, a) = [n EXCEPT !.pc = "done", !.op = x.op, !.name = x.name, !.answer = a,
                               !.resolved = x.resolved, !.locked = x.locked]
    BY <1>1, <2>1 DEF Done
  <2> QED BY <2>2 DEF CallRecs
<1> QED BY <1>1, <1>2, <1>3

-----------------------------------------------------------------------------
(* The next name.                                                          *)

LEMMA Maximum ==
  ASSUME NEW k \in Nat, NEW S \in SUBSET (1 .. k), S # {}
  PROVE  Max(S) \in S /\ \A y \in S : y <= Max(S)
<1> DEFINE R == {p \in Nat \X Nat : p[1] < p[2]}
           T == {k - x : x \in S}
<1>1. IsWellFoundedOn(R, Nat)
  BY NatLessThanWellFounded DEF OpToRel
<1>2. T \subseteq Nat /\ T # {}
  <2>1. \A x \in S : x \in Nat /\ k - x \in Nat
    OBVIOUS
  <2> QED BY <2>1
<1>3. PICK m \in T : \A y \in T : ~(<<y, m>> \in R)
  BY <1>1, <1>2, WFMin
<1>4. PICK x \in S : m = k - x
  BY <1>3
<1>5. ASSUME NEW y \in S PROVE x >= y
  <2>1. k - y \in T /\ k - y \in Nat /\ m \in Nat
    BY <1>2
  <2>2. ~(k - y < m)
    BY <1>3, <2>1
  <2> QED BY <1>4, <2>1, <2>2
<1>6. \E z \in S : \A y \in S : z >= y
  BY <1>5
<1>7. Max(S) \in S /\ \A y \in S : Max(S) >= y
  BY <1>6 DEF Max
<1> QED BY <1>7

\* The numbers: there is a name left for each call that has put nothing.
LEMMA Sizes ==
  ASSUME Inputs
  PROVE  /\ Cardinality(Calls) \in Nat /\ Cardinality(Names) \in Nat /\ Top \in Nat /\ Top >= 1
         /\ Names = 1 .. Cardinality(Names) /\ Names \subseteq Paths /\ Sources \subseteq Paths
         /\ 1 \in Names
         /\ IsFiniteSet(Placed) /\ Cardinality(Placed) \in Nat
         /\ \A c \in Calls \ Placed :
              /\ Top + Cardinality(Placed) + 1 <= Cardinality(Names)
              /\ Cardinality(Placed \cup {c}) = Cardinality(Placed) + 1
<1>1. Cardinality(Calls) \in Nat /\ Cardinality(Names) \in Nat
  BY FS_CardinalityType DEF Inputs
<1>2. /\ Names = 1 .. Cardinality(Names) /\ Cardinality(Calls) < Cardinality(Names)
      /\ Names \subseteq Paths /\ Sources \subseteq Paths
  BY DEF Inputs, Paths
<1>3. IsFiniteSet(Placed) /\ Cardinality(Placed) \in Nat
  <2>1. Placed \subseteq Calls
    BY DEF Placed
  <2> QED BY <2>1, FS_Subset, FS_CardinalityType DEF Inputs
<1>4. ASSUME NEW c \in Calls \ Placed
      PROVE  /\ Top + Cardinality(Placed) + 1 <= Cardinality(Names)
             /\ Cardinality(Placed \cup {c}) = Cardinality(Placed) + 1
  <2>1. Cardinality(Placed \cup {c}) = Cardinality(Placed) + 1
    BY <1>3, FS_AddElement
  <2>2. Placed \cup {c} \subseteq Calls
    BY DEF Placed
  <2>3. Cardinality(Placed \cup {c}) <= Cardinality(Calls)
    BY <2>2, FS_Subset DEF Inputs
  <2> QED BY <1>1, <1>3, <2>1, <2>3 DEF Top
<1>5. Top \in Nat /\ Top >= 1 /\ 1 \in Names
  BY <1>1, <1>2 DEF Top
<1> QED BY <1>1, <1>2, <1>3, <1>4, <1>5

\* autoname() finds a free name, and a name there is.
LEMMA NextName ==
  ASSUME Inputs, Numbered, NEW c \in Calls \ Placed, NEW n \in Names,
         n <= Top + Cardinality(Placed) + 1
  PROVE  /\ AutoName(n, Listing) \in Names
         /\ AutoName(n, Listing) <= Top + Cardinality(Placed) + 1
         /\ at[AutoName(n, Listing)] = Free
<1>1. CASE n \notin Listing
  BY <1>1 DEF AutoName, Listing
<1>2. CASE n \in Listing
  <2>1. PICK k \in Nat : k = Cardinality(Names) /\ Names = 1 .. k
    BY Sizes
  <2>2. Listing \in SUBSET (1 .. k) /\ Listing # {}
    BY <1>2, <2>1 DEF Listing
  <2>3. PICK m \in Listing : m = Max(Listing) /\ \A y \in Listing : y <= m
    BY <2>1, <2>2, Maximum
  <2>4. PICK p \in Nat : p = Top + Cardinality(Placed) /\ p + 1 <= k
    <3>1. Top \in Nat /\ Cardinality(Placed) \in Nat /\ Top + Cardinality(Placed) + 1 <= Cardinality(Names)
      BY Sizes
    <3>2. Top + Cardinality(Placed) \in Nat
      BY <3>1
    <3> QED BY <2>1, <3>1, <3>2
  <2>5. m <= p /\ m \in 1 .. k
    BY <2>1, <2>3, <2>4 DEF Numbered, Listing
  <2>6. m + 1 \in Names /\ m + 1 <= p + 1 /\ m + 1 \notin Listing
    <3>1. m \in Nat /\ m + 1 <= p + 1 /\ m + 1 \in 1 .. k
      BY <2>4, <2>5
    <3>2. ~(m + 1 <= m)
      BY <3>1
    <3> QED BY <2>1, <2>3, <3>1, <3>2
  <2>7. AutoName(n, Listing) = m + 1
    BY <1>2, <2>3 DEF AutoName
  <2> QED BY <2>4, <2>6, <2>7 DEF Listing
<1> QED BY <1>1, <1>2

-----------------------------------------------------------------------------
(* What a step does.                                                       *)

Inv == Typed /\ Numbered

\* A step of a call changes one record, one name and the flag.
Changes(c, new) ==
  \/ at' = at
  \/ /\ call[c].pc = "remove" /\ call[c].op.from \in Paths /\ new.pc = "done"
     /\ at' = [at EXCEPT ![call[c].op.from] = Free]
  \/ /\ call[c].pc = "act" /\ at[call[c].name] = Free /\ new.pc = "stat"
     /\ at' = [at EXCEPT ![call[c].name] = [kind |-> call[c].kind, obj |-> c]]
  \/ /\ call[c].pc = "mv" /\ call[c].op.from \in Sources /\ new.pc = "stat"
     /\ at' = Move(at, call[c].op.from, call[c].name)
  \/ /\ call[c].pc = "clear" /\ new.pc \in {"act", "peek"}
     /\ at' = [at EXCEPT ![call[c].name] = Free]
Follows(c, new) ==
  /\ call[c].pc \in Steps /\ Goes(c, new) /\ Fit(new) /\ new.op = call[c].op
  /\ new.pc \in Steps \cup {"done"} /\ new.name \in Names
  /\ call[c].pc = "stat" => new.pc = "done"
  /\ \/ new.name = call[c].name
     \/ new.name <= Top + Cardinality(Placed) + 1 /\ call[c].pc = "list"
  /\ Changes(c, new)
  /\ working' \in BOOLEAN /\ faults' \in 0 .. MaxFaults

\* A call ends as it is.
LEMMA EndsFollows ==
  ASSUME Inputs, Inv, NEW c \in Calls, NEW a \in {"placed", "skipped", "error"}, call[c].pc \in Steps,
         Ends(c, a), faults' \in 0 .. MaxFaults, Changes(c, Done(c, a))
  PROVE  \E new \in CallRecs : Follows(c, new)
<1>1. PICK new \in CallRecs : /\ new = Done(c, a) /\ new.pc = "done" /\ new.op = call[c].op
                              /\ new.name = call[c].name /\ new.answer = a
  BY Records DEF Inv, Typed
<1>2. Fit(new)
  BY <1>1 DEF Fit, Steps
<1>3. working' \in BOOLEAN
  BY DEF Ends, Inv, Typed
<1>4. Goes(c, new) /\ new.name \in Names
  BY <1>1 DEF Ends, CallRecs
<1> QED BY <1>1, <1>2, <1>3, <1>4 DEF Follows

\* A call goes on with another step.
LEMMA GoesFollows ==
  ASSUME Inputs, Inv, NEW c \in Calls, NEW new \in CallRecs, call[c].pc \in Steps \ {"stat"},
         Goes(c, new), Fit(new), new.op = call[c].op, new.pc \in Steps,
         \/ new.name = call[c].name
         \/ new.name <= Top + Cardinality(Placed) + 1 /\ call[c].pc = "list",
         Changes(c, new), working' \in BOOLEAN, UNCHANGED faults
  PROVE  \E r \in CallRecs : Follows(c, r)
  BY DEF Follows, Inv, Typed, CallRecs

\* The next step, when only the step changes.
LEMMA ToFollows ==
  ASSUME Inputs, Inv, NEW c \in Calls, NEW s \in Steps, call[c].pc \in Steps \ {"stat"},
         Goes(c, To(c, s)), Fit(To(c, s)), Changes(c, To(c, s)), working' \in BOOLEAN, UNCHANGED faults
  PROVE  \E r \in CallRecs : Follows(c, r)
<1>1. PICK new \in CallRecs : /\ new = To(c, s) /\ new.pc = s /\ new.op = call[c].op
                              /\ new.name = call[c].name
  BY Records DEF Inv, Typed
<1> QED BY <1>1, GoesFollows

LEMMA ActFollows ==
  ASSUME Inputs, Inv, NEW c \in Calls, Act(c) PROVE \E r \in CallRecs : Follows(c, r)
<1>1. call[c].pc = "act" /\ UNCHANGED <<working, faults>> /\ Fit(call[c]) /\ "act" \in Steps
  BY DEF Act, Inv, Typed, Steps
<1>2. working' \in BOOLEAN
  BY <1>1 DEF Inv, Typed
<1>3. {"stat", "look"} \subseteq Steps
  BY DEF Steps
<1>4. PICK s \in {"stat", "look"} : /\ Goes(c, To(c, s))
                                    /\ \/ at' = at
                                       \/ /\ at[call[c].name] = Free /\ s = "stat"
                                          /\ at' = [at EXCEPT ![call[c].name] = [kind |-> call[c].kind, obj |-> c]]
  BY DEF Act
<1>5. PICK new \in CallRecs : /\ new = To(c, s) /\ new.pc = s /\ new.op = call[c].op
                              /\ new.name = call[c].name /\ new.kind = call[c].kind
                              /\ new.answer = call[c].answer
  BY <1>3, Records DEF Inv, Typed
<1>6. Fit(new)
  BY <1>1, <1>3, <1>5 DEF Fit
<1>7. Changes(c, new)
  BY <1>1, <1>4, <1>5 DEF Changes
<1> QED BY <1>1, <1>2, <1>3, <1>4, <1>5, <1>6, <1>7, ToFollows

LEMMA PeekFollows ==
  ASSUME Inputs, Inv, NEW c \in Calls, Peek(c) PROVE \E r \in CallRecs : Follows(c, r)
<1>1. call[c].pc = "peek" /\ UNCHANGED <<at, faults>> /\ Fit(call[c]) /\ "peek" \in Steps
  BY DEF Peek, Inv, Typed, Steps
<1>2. working' \in BOOLEAN
  BY DEF Peek, Inv, Typed
<1>3. {"mv", "look"} \subseteq Steps
  BY DEF Steps
<1>4. CASE Goes(c, To(c, "look"))
  <2>1. PICK new \in CallRecs : /\ new = To(c, "look") /\ new.pc = "look" /\ new.op = call[c].op
                                /\ new.name = call[c].name /\ new.kind = call[c].kind
                                /\ new.answer = call[c].answer
    BY <1>3, Records DEF Inv, Typed
  <2>2. Fit(new)
    BY <1>1, <1>3, <2>1 DEF Fit, Renames
  <2> QED BY <1>1, <1>2, <1>3, <1>4, <2>1, <2>2, ToFollows DEF Changes
<1>5. CASE Goes(c, [To(c, "mv") EXCEPT !.seen = Free])
  <2>1. PICK x \in CallRecs : /\ x = To(c, "mv") /\ x.pc = "mv" /\ x.op = call[c].op
                              /\ x.name = call[c].name /\ x.kind = call[c].kind
                              /\ x.answer = call[c].answer
    BY <1>3, Records DEF Inv, Typed
  <2>2. PICK new : new = [x EXCEPT !.seen = Free]
    OBVIOUS
  <2>3. /\ new \in CallRecs /\ new.pc = "mv" /\ new.op = call[c].op /\ new.seen = Free
        /\ new.name = call[c].name /\ new.kind = call[c].kind /\ new.answer = call[c].answer
    BY <2>1, <2>2, Things DEF CallRecs
  <2>4. Fit(new)
    BY <1>1, <1>3, <2>3 DEF Fit, Renames
  <2> QED BY <1>1, <1>2, <1>3, <1>5, <2>1, <2>2, <2>3, <2>4, GoesFollows DEF Changes
<1> QED BY <1>4, <1>5 DEF Peek

LEMMA MvFollows ==
  ASSUME Inputs, Inv, NEW c \in Calls, Mv(c) PROVE \E r \in CallRecs : Follows(c, r)
<1>1. call[c].pc = "mv" /\ UNCHANGED faults /\ Fit(call[c]) /\ "mv" \in Steps /\ "stat" \in Steps
  BY DEF Mv, Inv, Typed, Steps
<1>2. call[c].op \in Ops /\ call[c].op.api \in Renames /\ call[c].op.from \in Sources
  BY <1>1 DEF Fit, Inputs
<1>3. CASE at' = at /\ Ends(c, "error")
  BY <1>1, <1>3, EndsFollows DEF Changes, Inv, Typed
<1>4. CASE at' = Move(at, call[c].op.from, call[c].name) /\ Goes(c, To(c, "stat")) /\ UNCHANGED working
  <2>1. PICK new \in CallRecs : /\ new = To(c, "stat") /\ new.pc = "stat" /\ new.op = call[c].op
                                /\ new.name = call[c].name /\ new.kind = call[c].kind
                                /\ new.answer = call[c].answer
    BY <1>1, Records DEF Inv, Typed
  <2>2. Fit(new)
    BY <1>1, <2>1 DEF Fit, Renames
  <2>3. Changes(c, new) /\ working' \in BOOLEAN
    BY <1>1, <1>2, <1>4, <2>1 DEF Changes, Inv, Typed
  <2> QED BY <1>1, <1>4, <2>1, <2>2, <2>3, ToFollows
<1> QED BY <1>3, <1>4 DEF Mv

LEMMA LookFollows ==
  ASSUME Inputs, Inv, NEW c \in Calls, Look(c) PROVE \E r \in CallRecs : Follows(c, r)
<1>1. /\ call[c].pc = "look" /\ UNCHANGED <<at, faults>> /\ Fit(call[c])
      /\ {"look", "list", "clear"} \subseteq Steps
  BY DEF Look, Inv, Typed, Steps
<1>2. PICK x \in CallRecs : x = call[c]
  BY DEF Inv, Typed
<1>3. PICK e \in Content : e = at[x.name]
  <2>1. x.name \in Paths
    BY Sizes DEF CallRecs
  <2> QED BY <2>1 DEF Inv, Typed, Tree
<1>4. x.op \in Ops /\ {x.op.same, x.op.diff} \subseteq {"none", "skip", "rename", "replace"}
  BY <1>1, <1>2 DEF Fit, Inputs
<1>5. PICK q \in {"none", "same", "diff"} :
        q = IF x.resolved = "none" THEN (IF e.kind = x.kind THEN "same" ELSE "diff") ELSE x.resolved
  BY DEF CallRecs
<1>6. PICK met : met = [x EXCEPT !.seen = e, !.resolved = q]
  OBVIOUS
<1>7. /\ met \in CallRecs /\ met.seen = e /\ met.op = x.op /\ met.name = x.name /\ met.kind = x.kind
      /\ met.answer = x.answer
  BY <1>6 DEF CallRecs
<1>8. Policy(x.op, x.kind, e) \in {"none", "skip", "rename", "replace"}
  BY <1>4 DEF Policy
<1>9. \/ Ends(c, "error")
      \/ /\ working' = (working /\ ~call[c].locked)
         /\ Goes(c, [Done(c, "skipped") EXCEPT !.resolved = q])
      \/ Policy(x.op, x.kind, e) = "rename" /\ Goes(c, [met EXCEPT !.pc = "list"]) /\ UNCHANGED working
      \/ Policy(x.op, x.kind, e) = "replace" /\ Goes(c, [met EXCEPT !.pc = "clear"]) /\ UNCHANGED working
  <2>1. [x EXCEPT !.seen = e, !.resolved = IF @ = "none" THEN (IF e.kind = x.kind THEN "same" ELSE "diff") ELSE @]
          = met
    BY <1>5, <1>6
  <2>2. at[call[c].name] = e /\ met.resolved = q
    BY <1>2, <1>3, <1>6 DEF CallRecs
  <2>3. CASE e = Free \/ Policy(x.op, x.kind, e) = "none"
    BY <1>2, <2>2, <2>3 DEF Look
  <2>4. CASE e # Free /\ Policy(x.op, x.kind, e) = "skip"
    BY <1>2, <2>1, <2>2, <2>4 DEF Look
  <2>5. CASE e # Free /\ Policy(x.op, x.kind, e) = "rename"
    BY <1>2, <2>1, <2>2, <2>5 DEF Look
  <2>6. CASE e # Free /\ Policy(x.op, x.kind, e) = "replace"
    BY <1>2, <2>1, <2>2, <2>6 DEF Look
  <2> QED BY <1>8, <2>3, <2>4, <2>5, <2>6
<1>10. CASE Ends(c, "error")
  BY <1>1, <1>10, EndsFollows DEF Changes, Inv, Typed
<1>11. CASE /\ working' = (working /\ ~call[c].locked)
            /\ Goes(c, [Done(c, "skipped") EXCEPT !.resolved = q])
  <2>1. PICK d \in CallRecs : /\ d = Done(c, "skipped") /\ d.pc = "done" /\ d.op = x.op
                              /\ d.name = x.name /\ d.answer = "skipped"
    BY <1>2, Records DEF Inv, Typed
  <2>2. PICK new : new = [d EXCEPT !.resolved = q]
    OBVIOUS
  <2>3. /\ new \in CallRecs /\ new.pc = "done" /\ new.op = x.op /\ new.name = x.name /\ new.answer = "skipped"
    BY <2>1, <2>2 DEF CallRecs
  <2>4. Fit(new)
    BY <2>3 DEF Fit, Steps
  <2>5. working' \in BOOLEAN
    BY <1>11 DEF Inv, Typed
  <2> QED BY <1>1, <1>2, <1>11, <2>1, <2>2, <2>3, <2>4, <2>5 DEF Follows, Changes, CallRecs, Inv, Typed
<1>12. ASSUME NEW s \in {"list", "clear"}, Goes(c, [met EXCEPT !.pc = s]), UNCHANGED working,
              s = "clear" => Policy(x.op, x.kind, e) = "replace"
       PROVE  \E r \in CallRecs : Follows(c, r)
  <2>1. PICK new : new = [met EXCEPT !.pc = s]
    OBVIOUS
  <2>2. /\ new \in CallRecs /\ new.pc = s /\ new.op = x.op /\ new.name = x.name /\ new.kind = x.kind
        /\ new.seen = e /\ new.answer = x.answer
    BY <1>1, <1>7, <1>12, <2>1 DEF CallRecs
  <2>3. Fit(new)
    BY <1>1, <1>2, <1>12, <2>2 DEF Fit, Policy, Told
  <2>4. working' \in BOOLEAN
    BY <1>12 DEF Inv, Typed
  <2> QED BY <1>1, <1>2, <1>12, <2>1, <2>2, <2>3, <2>4, GoesFollows DEF Changes
<1> QED BY <1>9, <1>10, <1>11, <1>12

LEMMA ListFollows ==
  ASSUME Inputs, Inv, NEW c \in Calls, List(c) PROVE \E r \in CallRecs : Follows(c, r)
<1>1. /\ call[c].pc = "list" /\ UNCHANGED <<at, faults>> /\ Fit(call[c])
      /\ {"list", "act", "peek", "wait"} \subseteq Steps
  BY DEF List, Inv, Typed, Steps
<1>2. PICK x \in CallRecs : x = call[c] /\ x.op \in Ops /\ x.name \in Names
  BY <1>1 DEF Inv, Typed, CallRecs, Fit
<1>3. PICK m \in Names : /\ m = AutoName(x.name, Listing) /\ m <= Top + Cardinality(Placed) + 1
  <2>1. c \in Calls \ Placed
    BY <1>1 DEF Placed
  <2>2. x.name <= Top + Cardinality(Placed) + 1
    BY <1>2, <2>1 DEF Inv, Numbered
  <2> QED BY <1>2, <2>1, <2>2, NextName DEF Inv
<1>4. PICK y : y = [x EXCEPT !.name = m]
  OBVIOUS
<1>5. /\ y \in CallRecs /\ y.op = x.op /\ y.name = m /\ y.kind = x.kind /\ y.answer = x.answer
      /\ y = [call[c] EXCEPT !.name = AutoName(@, Listing)]
  BY <1>2, <1>3, <1>4 DEF CallRecs
<1>6. PICK s \in {"act", "peek"} : s = Again(c) /\ (s = "peek" <=> x.op.api \in Renames)
  BY <1>2 DEF Again
<1>7. PICK b \in BOOLEAN : b <=> x.op.api \in Renames
  <2>1. CASE x.op.api \in Renames
    <3> WITNESS TRUE \in BOOLEAN
    <3> QED BY <2>1
  <2>2. CASE x.op.api \notin Renames
    <3> WITNESS FALSE \in BOOLEAN
    <3> QED BY <2>2
  <2> QED BY <2>1, <2>2
<1>8. \/ Goes(c, [y EXCEPT !.pc = s, !.locked = b])
      \/ x.op.api \in Renames /\ Goes(c, [y EXCEPT !.pc = "wait"])
  BY <1>2, <1>5, <1>6, <1>7 DEF List
<1>9. working' \in BOOLEAN
  <2>1. working' = (working \/ x.op.api \in Renames) \/ working' = working
    BY <1>2 DEF List
  <2> QED BY <1>7, <2>1 DEF Inv, Typed
<1>10. PICK new : \/ new = [y EXCEPT !.pc = s, !.locked = b] /\ Goes(c, new)
                  \/ new = [y EXCEPT !.pc = "wait"] /\ Goes(c, new) /\ x.op.api \in Renames
  BY <1>8
<1>11. /\ new \in CallRecs /\ new.op = x.op /\ new.name = m /\ new.kind = x.kind /\ new.answer = x.answer
       /\ new.pc = s \/ (new.pc = "wait" /\ x.op.api \in Renames)
  <2>1. CASE new = [y EXCEPT !.pc = s, !.locked = b]
    BY <1>1, <1>5, <1>6, <1>7, <2>1 DEF CallRecs
  <2>2. CASE new = [y EXCEPT !.pc = "wait"] /\ x.op.api \in Renames
    BY <1>1, <1>5, <2>2 DEF CallRecs
  <2> QED BY <1>10, <2>1, <2>2
<1>12. Fit(new)
  <2>1. x.op.api \in {"NEWFILE", "MKDIR", "REMOVE", "CPFILE"} \cup Renames /\ Fit(x)
    BY <1>1, <1>2 DEF Inputs
  <2> QED BY <1>1, <1>2, <1>6, <1>11, <2>1 DEF Fit
<1> QED BY <1>1, <1>2, <1>3, <1>6, <1>9, <1>10, <1>11, <1>12, GoesFollows DEF Changes

LEMMA WaitFollows ==
  ASSUME Inputs, Inv, NEW c \in Calls, Wait(c) PROVE \E r \in CallRecs : Follows(c, r)
<1>1. call[c].pc = "wait" /\ UNCHANGED <<at, faults>> /\ Fit(call[c]) /\ {"wait", "peek"} \subseteq Steps
  BY DEF Wait, Inv, Typed, Steps
<1>2. PICK x \in CallRecs : /\ x = To(c, "peek") /\ x.pc = "peek" /\ x.op = call[c].op
                            /\ x.name = call[c].name /\ x.kind = call[c].kind
                            /\ x.answer = call[c].answer
  BY <1>1, Records DEF Inv, Typed
<1>3. PICK new : new = [x EXCEPT !.locked = TRUE]
  OBVIOUS
<1>4. /\ new \in CallRecs /\ new.pc = "peek" /\ new.op = call[c].op
      /\ new.name = call[c].name /\ new.kind = call[c].kind /\ new.answer = call[c].answer
  BY <1>2, <1>3 DEF CallRecs
<1>5. Fit(new)
  BY <1>1, <1>4 DEF Fit, Renames
<1>6. Goes(c, new) /\ working' \in BOOLEAN
  BY <1>2, <1>3 DEF Wait
<1> QED BY <1>1, <1>4, <1>5, <1>6, GoesFollows DEF Changes

LEMMA ClearFollows ==
  ASSUME Inputs, Inv, NEW c \in Calls, Clear(c) PROVE \E r \in CallRecs : Follows(c, r)
<1>1. /\ call[c].pc = "clear" /\ UNCHANGED <<working, faults>> /\ Fit(call[c])
      /\ {"clear", "act", "peek"} \subseteq Steps /\ call[c].op \in Ops
  BY DEF Clear, Inv, Typed, Steps, Fit
<1>2. PICK s \in {"act", "peek"} : s = Again(c) /\ (s = "peek" <=> call[c].op.api \in Renames)
  BY DEF Again
<1>3. PICK new \in CallRecs : /\ new = To(c, s) /\ new.pc = s /\ new.op = call[c].op
                              /\ new.name = call[c].name /\ new.kind = call[c].kind
                              /\ new.answer = call[c].answer
  BY <1>1, Records DEF Inv, Typed
<1>4. Fit(new)
  <2>1. call[c].op.api \in {"NEWFILE", "MKDIR", "REMOVE", "CPFILE"} \cup Renames
    BY <1>1 DEF Inputs
  <2> QED BY <1>1, <1>2, <1>3, <2>1 DEF Fit
<1>5. Changes(c, new) /\ working' \in BOOLEAN /\ Goes(c, new)
  BY <1>1, <1>2, <1>3 DEF Clear, Changes, Inv, Typed
<1> QED BY <1>1, <1>2, <1>3, <1>4, <1>5, ToFollows

\* A call that cannot go on ends.
LEMMA OverFollows ==
  ASSUME Inputs, Inv, NEW c \in Calls, Stat(c) \/ Fault(c) PROVE \E r \in CallRecs : Follows(c, r)
<1>1. at' = at /\ (Ends(c, "error") \/ Ends(c, "placed")) /\ call[c].pc \in Steps
  BY DEF Stat, Fault, Steps
<1>2. faults' \in 0 .. MaxFaults
  BY DEF Stat, Fault, Inv, Typed, Inputs
<1> QED BY <1>1, <1>2, EndsFollows DEF Changes

LEMMA SourceFollows ==
  ASSUME Inputs, Inv, NEW c \in Calls,
         TypeRead(c) \/ Rimrafs(c) \/ CloneReads(c) \/ CloneCopies(c) \/ CloneChecks(c)
  PROVE  \E r \in CallRecs : Follows(c, r)
<1>1. /\ call[c].pc \in {"type", "remove", "read", "clone", "check"} /\ UNCHANGED faults
      /\ Fit(call[c]) /\ call[c].pc \in Steps \ {"stat"} /\ faults' \in 0 .. MaxFaults
      /\ {"type", "remove", "read", "clone", "check", "peek", "act"} \subseteq Steps
  BY DEF TypeRead, Rimrafs, CloneReads, CloneCopies, CloneChecks, Steps, Inv, Typed
<1>2. call[c].op.from \in Paths /\ call[c].op \in Ops
  BY <1>1, Sizes DEF Fit, Inputs
<1>3. PICK x \in CallRecs : x = call[c]
  BY DEF Inv, Typed
<1>4. PICK e \in Content : e = at[x.op.from] /\ e.kind \in Kinds \cup {"none"}
  BY <1>2, <1>3 DEF Inv, Typed, Tree, Content
<1>5. CASE Ends(c, "error") /\ at' = at
  BY <1>1, <1>5, EndsFollows DEF Changes
<1>6. CASE Rimrafs(c)
  <2>1. Ends(c, "placed") /\ Changes(c, Done(c, "placed"))
    <3>1. Done(c, "placed").pc = "done"
      BY Records DEF Inv, Typed
    <3> QED BY <1>2, <1>6, <3>1 DEF Rimrafs, Changes
  <2> QED BY <1>1, <2>1, EndsFollows
<1>7. CASE TypeRead(c) /\ ~Ends(c, "error")
  <2>1. /\ e.kind \in {"file", "dir"} /\ UNCHANGED <<at, working>> /\ call[c].pc = "type"
        /\ Goes(c, [To(c, "peek") EXCEPT !.kind = e.kind])
    BY <1>3, <1>4, <1>7 DEF TypeRead, Kinds
  <2>2. PICK y \in CallRecs : /\ y = To(c, "peek") /\ y.pc = "peek" /\ y.op = x.op
                              /\ y.name = x.name /\ y.answer = x.answer
    BY <1>1, <1>3, Records DEF Inv, Typed
  <2>3. PICK new : new = [y EXCEPT !.kind = e.kind]
    OBVIOUS
  <2>4. /\ new \in CallRecs /\ new.pc = "peek" /\ new.op = x.op /\ new.kind = e.kind
        /\ new.name = x.name /\ new.answer = x.answer
    BY <2>1, <2>2, <2>3 DEF CallRecs
  <2>5. Fit(new)
    BY <1>1, <1>3, <2>1, <2>4 DEF Fit, Renames
  <2>6. working' \in BOOLEAN
    BY <2>1 DEF Inv, Typed
  <2> QED BY <1>1, <1>3, <2>1, <2>2, <2>3, <2>4, <2>5, <2>6, GoesFollows DEF Changes
<1>8. CASE CloneReads(c) /\ ~Ends(c, "error")
  <2>1. UNCHANGED <<at, working>> /\ Goes(c, [To(c, "clone") EXCEPT !.seen = e]) /\ call[c].pc = "read"
    BY <1>3, <1>4, <1>8 DEF CloneReads
  <2>2. PICK y \in CallRecs : /\ y = To(c, "clone") /\ y.pc = "clone" /\ y.op = x.op /\ y.kind = x.kind
                              /\ y.name = x.name /\ y.answer = x.answer
    BY <1>1, <1>3, Records DEF Inv, Typed
  <2>3. PICK new : new = [y EXCEPT !.seen = e]
    OBVIOUS
  <2>4. /\ new \in CallRecs /\ new.pc = "clone" /\ new.op = x.op /\ new.kind = x.kind
        /\ new.name = x.name /\ new.answer = x.answer
    BY <2>2, <2>3 DEF CallRecs
  <2>5. Fit(new)
    BY <1>1, <1>3, <2>1, <2>4 DEF Fit, Renames
  <2>6. working' \in BOOLEAN
    BY <2>1 DEF Inv, Typed
  <2> QED BY <1>1, <1>3, <2>1, <2>2, <2>3, <2>4, <2>5, <2>6, GoesFollows DEF Changes
<1>9. CASE (CloneCopies(c) \/ CloneChecks(c)) /\ ~Ends(c, "error")
  <2>1. PICK s \in {"check", "act"} : /\ UNCHANGED <<at, working>> /\ Goes(c, To(c, s))
                                      /\ call[c].pc \in {"clone", "check"}
    BY <1>9 DEF CloneCopies, CloneChecks
  <2>2. PICK new \in CallRecs : /\ new = To(c, s) /\ new.pc = s /\ new.op = x.op /\ new.kind = x.kind
                                /\ new.name = x.name /\ new.answer = x.answer
    BY <1>1, <1>3, Records DEF Inv, Typed
  <2>3. Fit(new)
    BY <1>1, <1>3, <2>1, <2>2 DEF Fit, Renames
  <2>4. working' \in BOOLEAN
    BY <2>1 DEF Inv, Typed
  <2> QED BY <1>1, <2>1, <2>2, <2>3, <2>4, ToFollows DEF Changes
<1>10. TypeRead(c) \/ CloneReads(c) \/ CloneCopies(c) \/ CloneChecks(c) => at' = at
  BY DEF TypeRead, CloneReads, CloneCopies, CloneChecks
<1> QED BY <1>5, <1>6, <1>7, <1>8, <1>9, <1>10

LEMMA Following ==
  ASSUME Inputs, Inv, NEW c \in Calls, Proceed(c) \/ Fault(c) PROVE \E r \in CallRecs : Follows(c, r)
  BY ActFollows, PeekFollows, MvFollows, LookFollows, ListFollows, WaitFollows, ClearFollows,
     OverFollows, SourceFollows DEF Proceed

\* A call begins with what it was asked.
Starts(c, new) ==
  /\ call[c].pc = "idle" /\ call' = [call EXCEPT ![c] = new]
  /\ Fit(new) /\ new.pc \in Steps \ {"stat", "look", "list", "wait", "clear", "mv", "clone", "check"}
  /\ new.name = 1 /\ new.op \in Ops /\ (new.op.api = "RENAME" => new.pc = "type")
  /\ alone' = (IF Active = {} THEN {c} ELSE {}) /\ began' = [began EXCEPT ![c] = at]
  /\ UNCHANGED <<at, working, faults>>

LEMMA Asking ==
  ASSUME Inputs, Inv, NEW c \in Calls, Ask(c) PROVE \E r \in CallRecs : Starts(c, r)
<1>1. PICK o \in Ops : \/ NEWFILE(c, o) \/ MKDIR(c, o) \/ CPFILE(c, o) \/ RENAME(c, o)
                       \/ MVFILE(c, o) \/ MVDIRS(c, o) \/ REMOVE(c, o)
  BY DEF Ask
<1>2. PICK n \in CallRecs : /\ n = NoCall /\ n.name = 1 /\ n.answer = "none"
  <2>1. NoCall.name = 1 /\ NoCall.answer = "none"
    BY DEF NoCall
  <2> QED BY <2>1, NoCallRec
<1>3. PICK s \in {"act", "read", "type", "peek", "remove"}, k \in {"file", "dir", "none"} :
        /\ Begin(c, o, s, k)
        /\ \/ o.api = "NEWFILE" /\ s = "act" /\ k = "file"
           \/ o.api = "MKDIR" /\ s = "act" /\ k = "dir"
           \/ o.api = "CPFILE" /\ s = "read" /\ k = "file"
           \/ o.api = "RENAME" /\ s = "type" /\ k = "none"
           \/ o.api = "MVFILE" /\ s = "peek" /\ k = "file"
           \/ o.api = "MVDIRS" /\ s = "peek" /\ k = "dir"
           \/ o.api = "REMOVE" /\ s = "remove" /\ k = "none"
  BY <1>1 DEF NEWFILE, MKDIR, CPFILE, RENAME, MVFILE, MVDIRS, REMOVE
<1>4. PICK new : new = [n EXCEPT !.pc = s, !.op = o, !.kind = k]
  OBVIOUS
<1>5. /\ new \in CallRecs /\ new.pc = s /\ new.op = o /\ new.kind = k /\ new.name = 1
      /\ new.answer = "none"
  <2>1. s \in Steps
    BY DEF Steps
  <2> QED BY <1>2, <1>4, <2>1 DEF CallRecs
<1>6. Fit(new)
  BY <1>3, <1>5 DEF Fit, Renames
<1>7. new.pc \in Steps \ {"stat", "look", "list", "wait", "clear", "mv", "clone", "check"}
  BY <1>5 DEF Steps
<1>8. Starts(c, new)
  BY <1>2, <1>3, <1>4, <1>5, <1>6, <1>7 DEF Begin, Starts
<1> QED BY <1>5, <1>8

-----------------------------------------------------------------------------
(* The invariant.                                                          *)

\* A step of a call, whichever it is.
LEMMA ATree ==
  ASSUME Inputs, Inv, NEW c \in Calls, NEW new \in CallRecs, Follows(c, new)
  PROVE  Tree(at') /\ \A o \in Ops : Fits(o, at')
<1>1. call[c].name \in Names /\ call[c] \in CallRecs /\ Names \subseteq Paths /\ Sources \subseteq Paths
  BY Sizes DEF Inv, Typed, CallRecs
<1>2. Names \cap Sources = {}
  BY DEF Inputs
<1>3. Tree(at) /\ (\A o \in Ops : Fits(o, at)) /\ Fit(call[c]) /\ at \in [Paths -> Content]
  BY DEF Inv, Typed, Tree
<1>4. CASE at' = at
  BY <1>3, <1>4
<1>5. CASE call[c].op.from \in Paths /\ at' = [at EXCEPT ![call[c].op.from] = Free]
  <2>1. \A p \in Sources : at'[p] = at[p] \/ at'[p] = Free
    BY <1>1, <1>3, <1>5
  <2> QED BY <1>3, <1>5, <2>1, TreeChanges, FitsStay
<1>6. CASE /\ call[c].pc = "act" /\ at[call[c].name] = Free
           /\ at' = [at EXCEPT ![call[c].name] = [kind |-> call[c].kind, obj |-> c]]
  <2>1. \A p \in Sources : at'[p] = at[p] \/ at'[p] = Free
    BY <1>1, <1>2, <1>3, <1>6
  <2>2. call[c].kind \in Kinds
    BY <1>3, <1>6 DEF Fit, Steps, Kinds
  <2> QED BY <1>1, <1>3, <1>6, <2>1, <2>2, TreeChanges, FitsStay
<1>7. CASE call[c].op.from \in Sources /\ at' = Move(at, call[c].op.from, call[c].name)
  <2>1. \A p \in Sources : at'[p] = at[p] \/ at'[p] = Free
    BY <1>1, <1>2, <1>3, <1>7 DEF Move
  <2>2. call[c].op.from # call[c].name
    BY <1>1, <1>2, <1>7
  <2> QED BY <1>1, <1>3, <1>7, <2>1, <2>2, TreeChanges, FitsStay
<1>8. CASE at' = [at EXCEPT ![call[c].name] = Free]
  <2>1. \A p \in Sources : at'[p] = at[p] \/ at'[p] = Free
    BY <1>1, <1>3, <1>8
  <2> QED BY <1>1, <1>3, <1>8, <2>1, TreeChanges, FitsStay
<1> QED BY <1>4, <1>5, <1>6, <1>7, <1>8 DEF Follows, Changes

LEMMA AType ==
  ASSUME Inputs, Inv, NEW c \in Calls, NEW new \in CallRecs,
         Follows(c, new) \/ Starts(c, new)
  PROVE  /\ call' \in [Calls -> CallRecs] /\ \A d \in Calls : Fit(call'[d])
         /\ call'[c] = new /\ (\A d \in Calls : d # c => call'[d] = call[d])
         /\ working' \in BOOLEAN /\ faults' \in 0 .. MaxFaults
<1>1. call' = [call EXCEPT ![c] = new] /\ Fit(new) /\ call \in [Calls -> CallRecs]
  BY DEF Follows, Starts, Goes, Inv, Typed
<1>2. /\ call' \in [Calls -> CallRecs] /\ call'[c] = new
      /\ \A d \in Calls : d # c => call'[d] = call[d]
  BY <1>1, Changing
<1>3. \A d \in Calls : Fit(call'[d])
  BY <1>1, <1>2 DEF Inv, Typed
<1> QED BY <1>2, <1>3 DEF Follows, Starts, Inv, Typed

LEMMA ATyped ==
  ASSUME Inputs, Inv, NEW c \in Calls, NEW new \in CallRecs,
         Follows(c, new) \/ Starts(c, new)
  PROVE  Typed'
<1>1. Tree(at') /\ \A o \in Ops : Fits(o, at')
  BY ATree DEF Starts, Inv, Typed
<1>2. alone' \subseteq Active'
  <2>1. CASE Follows(c, new)
    <3>1. alone' \subseteq alone \cap {c} /\ (new.pc = "done" => alone' = {})
      BY <2>1 DEF Follows, Goes
    <3>2. new.pc \in Steps \cup {"done"}
      BY <2>1 DEF Follows
    <3> QED BY <3>1, <3>2, AType, <2>1 DEF Active
  <2>2. CASE Starts(c, new)
    <3>1. alone' \subseteq {c} /\ new.pc \in Steps
      BY <2>2 DEF Starts
    <3> QED BY <3>1, AType, <2>2 DEF Active
  <2> QED BY <2>1, <2>2
<1> QED BY <1>1, <1>2, AType DEF Typed

\* What a step puts, it puts under the call's name, and then the call is done with names.
LEMMA Puts ==
  ASSUME Inputs, Inv, NEW c \in Calls, NEW new \in CallRecs, Follows(c, new), NEW n \in Names,
         at'[n] # Free
  PROVE  at[n] # Free \/ (n = call[c].name /\ call[c].pc \in {"act", "mv"} /\ new.pc = "stat")
<1>1. n \in Paths /\ Names \cap Sources = {} /\ at \in [Paths -> Content] /\ Sources \subseteq Paths
  BY Sizes DEF Inputs, Inv, Typed, Tree
<1>2. CASE at' = at
  BY <1>2
<1>3. CASE \E p \in Paths : at' = [at EXCEPT ![p] = Free]
  BY <1>1, <1>3
<1>4. CASE \E e : /\ at' = [at EXCEPT ![call[c].name] = e] /\ call[c].pc = "act" /\ new.pc = "stat"
  BY <1>1, <1>4
<1>5. CASE /\ call[c].op.from \in Sources /\ at' = Move(at, call[c].op.from, call[c].name)
           /\ call[c].pc = "mv" /\ new.pc = "stat"
  BY <1>1, <1>5 DEF Move
<1>6. call[c].name \in Paths
  BY Sizes DEF Inv, Typed, CallRecs
<1> QED BY <1>2, <1>3, <1>4, <1>5, <1>6 DEF Follows, Changes

LEMMA ANumbered ==
  ASSUME Inputs, Inv, NEW c \in Calls, NEW new \in CallRecs,
         Follows(c, new) \/ Starts(c, new)
  PROVE  Numbered'
<1>1. PICK k \in Nat : k = Top + Cardinality(Placed)
  <2>1. Top \in Nat /\ Cardinality(Placed) \in Nat
    BY Sizes
  <2>2. Top + Cardinality(Placed) \in Nat
    BY <2>1
  <2> QED BY <2>2
<1>2. /\ \A n \in Names : at[n] # Free => n <= k
      /\ \A d \in Calls \ Placed : call[d].name <= k + 1
  BY <1>1 DEF Inv, Numbered
<1>3. Names \subseteq Int
  <2>1. Cardinality(Names) \in Nat /\ Names = 1 .. Cardinality(Names)
    BY Sizes
  <2> QED BY <2>1
<1>4. call'[c] = new /\ \A d \in Calls : d # c => call'[d] = call[d]
  BY AType
<1>5. CASE Starts(c, new)
  <2>1. Placed' = Placed
    BY <1>4, <1>5 DEF Placed, Starts, Steps
  <2>2. at' = at /\ new.name = 1 /\ Top' = Top
    BY <1>5 DEF Starts, Top
  <2>3. \A d \in Calls \ Placed : call'[d].name <= k + 1
    <3>1. 1 <= k + 1
      BY <1>1
    <3> QED BY <1>2, <1>4, <2>2, <3>1
  <2> QED BY <1>1, <1>2, <2>1, <2>2, <2>3 DEF Numbered
<1>6. CASE Follows(c, new)
  <2>1. \A n \in Names : at'[n] # Free =>
          \/ at[n] # Free
          \/ (n = call[c].name /\ call[c].pc \in {"act", "mv"} /\ new.pc = "stat")
    BY <1>6, Puts
  <2>2. /\ call[c].pc = "stat" => new.pc = "done"
        /\ \/ new.name = call[c].name
           \/ new.name <= k + 1 /\ call[c].pc = "list"
        /\ call[c].pc \in Steps
    BY <1>1, <1>6 DEF Follows
  <2>3. PICK h \in Nat : /\ h = Top + Cardinality(Placed') /\ h >= k
                         /\ c \notin Placed /\ new.pc = "stat" => h = k + 1
                         /\ Placed \subseteq Placed'
    <3>1. CASE new.pc \in {"stat", "done"} /\ c \notin Placed
      <4>1. Placed' = Placed \cup {c}
        BY <1>4, <3>1 DEF Placed
      <4>2. Cardinality(Placed') = Cardinality(Placed) + 1
        BY <3>1, <4>1, Sizes
      <4>3. Top \in Nat /\ Cardinality(Placed) \in Nat
        BY Sizes
      <4>4. Top + Cardinality(Placed') = k + 1
        BY <1>1, <4>2, <4>3
      <4>5. k + 1 \in Nat /\ k + 1 >= k
        BY <1>1
      <4> QED BY <4>1, <4>4, <4>5
    <3>2. CASE new.pc \notin {"stat", "done"} \/ c \in Placed
      <4>1. Placed' = Placed
        BY <1>4, <2>2, <3>2 DEF Placed, Steps
      <4> QED BY <1>1, <3>2, <4>1
    <3> QED BY <3>1, <3>2
  <2>4. ASSUME NEW n \in Names, at'[n] # Free PROVE n <= h
    <3>1. CASE at[n] # Free
      BY <1>1, <1>2, <1>3, <2>3, <3>1
    <3>2. CASE n = call[c].name /\ call[c].pc \in {"act", "mv"} /\ new.pc = "stat"
      <4>1. c \notin Placed
        BY <3>2 DEF Placed
      <4> QED BY <1>2, <2>3, <3>2, <4>1
    <3> QED BY <2>1, <2>4, <3>1, <3>2
  <2>5. ASSUME NEW d \in Calls \ Placed' PROVE call'[d].name <= h + 1
    <3>1. d \notin Placed /\ call[d].name <= k + 1 /\ call[d].name \in Names
      BY <1>2, <2>3, <2>5 DEF Inv, Typed, CallRecs
    <3>2. call'[d].name = call[d].name \/ call'[d].name <= k + 1
      BY <1>4, <2>2
    <3>3. call'[d].name \in Names
      BY AType DEF CallRecs
    <3>4. PICK x \in Int : x = call'[d].name /\ x <= k + 1
      <4>1. call'[d].name <= k + 1
        BY <3>1, <3>2
      <4> QED BY <1>3, <3>3, <4>1
    <3> QED BY <1>1, <2>3, <3>4
  <2>6. Top' = Top
    BY DEF Top
  <2> QED BY <2>3, <2>4, <2>5, <2>6 DEF Numbered
<1> QED BY <1>5, <1>6

LEMMA Beginning == Inputs /\ Init => Inv
<1> SUFFICES ASSUME Inputs, Init PROVE Inv
  OBVIOUS
<1>1. \A c \in Calls : call[c] = NoCall
  BY DEF Init
<1>2. NoCall \in CallRecs /\ Fit(NoCall) /\ NoCall.pc = "idle" /\ NoCall.name = 1
  BY NoCallRec DEF NoCall
<1>3. Tree(at) /\ \A o \in Ops : Fits(o, at)
  <2>1. at \in Begins /\ Entries(at) /\ \A o \in Ops : Fits(o, at)
    BY DEF Init, Inputs
  <2>2. {at[p].obj : p \in Paths} \subseteq Objects
    BY <2>1 DEF Objects
  <2> QED BY <2>1, <2>2 DEF Entries, Tree, Content
<1>4. Typed
  <2>1. call \in [Calls -> CallRecs] /\ \A c \in Calls : Fit(call[c])
    BY <1>1, <1>2 DEF Init
  <2>2. working = FALSE /\ faults = 0 /\ alone = {} /\ MaxFaults \in Nat
    BY DEF Init, Inputs
  <2>3. working \in BOOLEAN /\ alone \subseteq Active
    BY <2>2
  <2>4. faults \in 0 .. MaxFaults
    BY <2>2
  <2> QED BY <1>3, <2>1, <2>3, <2>4 DEF Typed
<1>5. Placed = {} /\ Cardinality(Placed) = 0
  <2>1. Placed = {}
    BY <1>1, <1>2 DEF Placed
  <2> QED BY <2>1, FS_EmptySet
<1>6. Numbered
  <2>1. PICK j \in Nat : j = Cardinality(Calls)
    BY Sizes
  <2>2. PICK m \in Nat : m = Cardinality(Names) /\ j < m /\ Names = 1 .. m
    BY <2>1, Sizes DEF Inputs
  <2>3. Top + Cardinality(Placed) = m - j
    BY <1>5, <2>1, <2>2 DEF Top
  <2>4. \A n \in Names : at[n] # Free => n + j <= m
    <3>1. PICK B \in Begins : B = at
      BY DEF Init
    <3>2. \A n \in Names : B[n] # Free => n + Cardinality(Calls) <= Cardinality(Names)
      BY <3>1 DEF Inputs
    <3> QED BY <2>1, <2>2, <3>1, <3>2
  <2>5. \A n \in Names : at[n] # Free => n <= m - j
    BY <2>1, <2>2, <2>4
  <2>6. 1 <= m - j + 1
    BY <2>1, <2>2
  <2> QED BY <1>1, <1>2, <2>3, <2>5, <2>6 DEF Numbered
<1> QED BY <1>4, <1>6 DEF Inv

LEMMA Keeping == Inputs /\ Inv /\ [Next]_vars => Inv'
<1> SUFFICES ASSUME Inputs, Inv, [Next]_vars PROVE Inv'
  OBVIOUS
<1>1. CASE UNCHANGED vars
  BY <1>1 DEF vars, Inv, Typed, Numbered, Placed, Top, Active
<1>2. ASSUME NEW c \in Calls, Ask(c) PROVE Inv'
  BY <1>2, Asking, ATyped, ANumbered DEF Inv
<1>3. ASSUME NEW c \in Calls, Proceed(c) \/ Fault(c) PROVE Inv'
  BY <1>3, Following, ATyped, ANumbered DEF Inv
<1> QED BY <1>1, <1>2, <1>3 DEF Next

LEMMA TypesHold == Inv => TypeOK
<1> SUFFICES ASSUME Inv PROVE TypeOK
  OBVIOUS
<1>1. \A p \in Paths : at[p].kind \in Kinds \cup {"none"} /\ (at[p] = Free <=> at[p].kind = "none")
  BY DEF Inv, Typed, Tree, Content
<1>2. ASSUME NEW c \in Calls
      PROVE  /\ call[c].pc \in Steps \cup {"idle", "done"} /\ call[c].name \in Names
             /\ call[c].answer # "none" <=> call[c].pc = "done"
             /\ call[c].answer \in {"none", "placed", "skipped", "error"}
  BY DEF Inv, Typed, CallRecs, Fit
<1> QED BY <1>1, <1>2 DEF Inv, Typed, TypeOK, Active

\* Whatever the calls do, the types hold: autoname() never runs out of names, and finds one
\* that is free.
THEOREM Types == Spec => []TypeOK
<1>0. Inputs
  BY InputsAssumption
<1>1. Init => Inv
  BY <1>0, Beginning
<1>2. Inv /\ [Next]_vars => Inv'
  BY <1>0, Keeping
<1> QED BY <1>1, <1>2, TypesHold, PTL DEF Spec

-----------------------------------------------------------------------------
(* What is replaced.                                                       *)

LEMMA Replacing ==
  ASSUME Inputs, Inv, NEW c \in Calls, NEW new \in CallRecs, Follows(c, new)
  PROVE  Takes
<1> SUFFICES ASSUME NEW p \in Paths, at[p] # Free, at'[p] # at[p]
             PROVE  /\ call'[c] # call[c]
                    /\ \/ Asked(c, p)
                       \/ at[p] # call[c].seen
                       \/ Told(call[c].op, call[c].kind, at[p]) = "replace"
  BY DEF Takes
<1>1. call'[c] = new
  BY AType
<1>2. Fit(call[c]) /\ at \in [Paths -> Content]
  BY DEF Inv, Typed, Tree
<1>3. call[c].name \in Paths
  BY Sizes DEF Inv, Typed, CallRecs
<1>4. CASE /\ call[c].pc = "remove" /\ at' = [at EXCEPT ![call[c].op.from] = Free]
           /\ call[c].op.from \in Paths /\ new.pc = "done"
  <2>1. call[c].op.from = p /\ call[c].op.api = "REMOVE"
    BY <1>2, <1>4 DEF Fit, Steps
  <2> QED BY <1>1, <1>4, <2>1 DEF Asked
<1>5. CASE /\ call[c].pc = "act" /\ at[call[c].name] = Free
           /\ \E e : at' = [at EXCEPT ![call[c].name] = e]
  BY <1>2, <1>3, <1>5
<1>6. CASE /\ call[c].pc = "mv" /\ new.pc = "stat"
           /\ call[c].op.from \in Sources /\ at' = Move(at, call[c].op.from, call[c].name)
  <2>1. call[c].op.api \in Renames /\ call[c].seen = Free
    BY <1>2, <1>6 DEF Fit, Steps
  <2> QED BY <1>1, <1>6, <2>1 DEF Asked
<1>7. CASE /\ call[c].pc = "clear" /\ new.pc \in {"act", "peek"}
           /\ at' = [at EXCEPT ![call[c].name] = Free]
  <2>1. Told(call[c].op, call[c].kind, call[c].seen) = "replace"
    BY <1>2, <1>7 DEF Fit, Steps
  <2> QED BY <1>1, <1>7, <2>1
<1> QED BY <1>4, <1>5, <1>6, <1>7 DEF Follows, Changes

\* A call takes away what it was asked to move or remove, or what its policy replaces, or
\* what it has not seen: never what it saw under a name that it was not to replace.
THEOREM Replaces == Spec => ReplacesAsTold
<1>0. Inputs
  BY InputsAssumption
<1>1. Init => Inv
  BY <1>0, Beginning
<1>2. Inv /\ [Next]_vars => Inv'
  BY <1>0, Keeping
<1>3. Inv /\ [Next]_vars => [Takes]_vars
  <2> SUFFICES ASSUME Inv, Next PROVE Takes
    OBVIOUS
  <2>1. ASSUME NEW c \in Calls, Ask(c) PROVE Takes
    <3>1. at' = at
      BY <1>0, <2>1, Asking DEF Starts
    <3> QED BY <3>1 DEF Takes
  <2>2. ASSUME NEW c \in Calls, Proceed(c) \/ Fault(c) PROVE Takes
    BY <1>0, <2>2, Following, Replacing
  <2> QED BY <2>1, <2>2 DEF Next
<1> QED BY <1>1, <1>2, <1>3, PTL DEF Spec, ReplacesAsTold

-----------------------------------------------------------------------------
(* A call that no other disturbs.                                          *)

\* What it has done so far: r is its record, A what was there when it began, B what is now.
\* Its source is there, and is of the kind it is for.
Given(op, A) == op.api \in Renames \cup {"CPFILE"} => A[op.from].kind \in {"file", "dir"}
Offered(r, A) == IF r.op.api \in Renames THEN A[r.op.from].kind ELSE r.kind
FirstNext(A) == AutoName(1, {n \in Names : A[n] # Free})
Ready(r, A, B) ==
  \/ r.name = 1 /\ B = A
  \/ r.name = 1 /\ A[1] # Free /\ Told(r.op, r.kind, A[1]) = "replace" /\ B = [A EXCEPT ![1] = Free]
  \/ /\ r.name = FirstNext(A) /\ A[1] # Free /\ Told(r.op, r.kind, A[1]) = "rename"
     /\ B = A /\ B[r.name] = Free
Undisturbed(c, r, A, B) ==
  /\ r.pc \in {"type", "remove", "read", "clone", "check", "look", "list", "clear"} => B = A /\ r.name = 1
  /\ r.pc \in {"clone", "check"} => r.seen = A[r.op.from]
  /\ r.pc \in {"look", "list", "clear"} => A[1] # Free
  /\ r.pc = "list" => Told(r.op, r.kind, A[1]) = "rename"
  /\ r.pc = "clear" => Told(r.op, r.kind, A[1]) = "replace"
  /\ r.pc # "type" => r.op.api = "REMOVE" \/ r.kind = Offered(r, A)
  /\ r.pc \in {"act", "peek", "mv", "wait"} => Ready(r, A, B)
  /\ r.pc \in {"mv", "wait"} => B[r.name] = Free
  /\ r.pc = "stat" => /\ Promise(c, r.op, A) = [at |-> B, answer |-> "placed"]
                      /\ B[r.name].kind \in {"file", "dir"}
Onward(c, r, A, B) ==
  IF r.pc = "done" THEN Promise(c, r.op, A) = [at |-> B, answer |-> r.answer]
  ELSE Undisturbed(c, r, A, B)

\* What is put under a name.
Put(c, op, A, n) == [at |-> [Left(op, A) EXCEPT ![n] = New(c, op, A)], answer |-> "placed"]

\* What is promised, by what is there and the policy for it.
LEMMA Promised ==
  ASSUME Inputs, NEW c, NEW A, NEW r \in CallRecs, Fit(r), r.pc \in Steps \ {"type", "remove"},
         r.kind = Offered(r, A)
  PROVE  /\ New(c, r.op, A).kind = r.kind
         /\ A[1] = Free => Promise(c, r.op, A) = Put(c, r.op, A, 1)
         /\ A[1] # Free /\ Told(r.op, r.kind, A[1]) = "none" =>
              Promise(c, r.op, A) = [at |-> A, answer |-> "error"]
         /\ A[1] # Free /\ Told(r.op, r.kind, A[1]) = "skip" =>
              Promise(c, r.op, A) = [at |-> A, answer |-> "skipped"]
         /\ A[1] # Free /\ Told(r.op, r.kind, A[1]) = "replace" => Promise(c, r.op, A) = Put(c, r.op, A, 1)
         /\ A[1] # Free /\ Told(r.op, r.kind, A[1]) = "rename" => Promise(c, r.op, A) = Put(c, r.op, A, FirstNext(A))
<1>1. r.op \in Ops /\ r.op.api \in {"NEWFILE", "MKDIR", "REMOVE", "CPFILE"} \cup Renames
  BY DEF Fit, Inputs
<1>2. r.op.api # "REMOVE"
  BY DEF Fit, Steps, Renames
<1>3. New(c, r.op, A).kind = r.kind
  <2>1. CASE r.op.api \in Renames
    BY <2>1 DEF New, Offered
  <2>2. CASE r.op.api = "MKDIR"
    BY <2>2 DEF New, Fit, Renames
  <2>3. CASE r.op.api \in {"NEWFILE", "CPFILE"}
    BY <2>3 DEF New, Fit, Renames
  <2> QED BY <1>1, <1>2, <2>1, <2>2, <2>3
<1>4. PICK new : new = New(c, r.op, A) /\ new.kind = r.kind
  BY <1>3
<1>5. CASE A[1] = Free
  BY <1>2, <1>4, <1>5 DEF Promise, Put
<1>6. CASE A[1] # Free /\ Told(r.op, r.kind, A[1]) = "none"
  BY <1>2, <1>4, <1>6 DEF Promise
<1>7. CASE A[1] # Free /\ Told(r.op, r.kind, A[1]) = "skip"
  BY <1>2, <1>4, <1>7 DEF Promise
<1>8. CASE A[1] # Free /\ Told(r.op, r.kind, A[1]) = "replace"
  BY <1>2, <1>4, <1>8 DEF Promise, Put
<1>9. CASE A[1] # Free /\ Told(r.op, r.kind, A[1]) = "rename"
  BY <1>2, <1>4, <1>9 DEF Promise, Put, FirstNext
<1> QED BY <1>3, <1>5, <1>6, <1>7, <1>8, <1>9

\* A call that is ready, and finds its name free, keeps the promise.
Stands(c, r, A, B) ==
  [at |-> [(IF r.op.api \in Renames THEN [B EXCEPT ![r.op.from] = Free] ELSE B)
             EXCEPT ![r.name] = New(c, r.op, A)], answer |-> "placed"]
LEMMA Puttable ==
  ASSUME Inputs, NEW c \in Calls, NEW A, Tree(A), NEW B, NEW r \in CallRecs, Fit(r),
         r.pc \in Steps \ {"type", "remove"}, r.kind = Offered(r, A), Ready(r, A, B), B[r.name] = Free,
         Tree(B)
  PROVE  Promise(c, r.op, A) = Stands(c, r, A, B)
<1>1. PICK new : new = New(c, r.op, A)
  OBVIOUS
<1>2. A \in [Paths -> Content] /\ B \in [Paths -> Content] /\ 1 \in Names /\ Names \subseteq Paths
  BY Sizes DEF Tree
<1>3. r.op.api \in Renames => r.op.from \in Sources /\ r.op.from # 1 /\ r.op.from \in Paths
  <2>1. r.op \in Ops
    BY DEF Fit
  <2> QED BY <1>2, <2>1, Sizes DEF Inputs
<1>4. /\ A[1] = Free => Promise(c, r.op, A) = Put(c, r.op, A, 1)
      /\ A[1] # Free /\ Told(r.op, r.kind, A[1]) = "replace" => Promise(c, r.op, A) = Put(c, r.op, A, 1)
      /\ A[1] # Free /\ Told(r.op, r.kind, A[1]) = "rename" =>
           Promise(c, r.op, A) = Put(c, r.op, A, FirstNext(A))
  BY Promised
<1>5. CASE Promise(c, r.op, A) = Put(c, r.op, A, r.name) /\ B = A
  BY <1>5 DEF Left, Put, Stands
<1>6. CASE /\ r.name = 1 /\ Promise(c, r.op, A) = Put(c, r.op, A, 1)
           /\ B = [A EXCEPT ![1] = Free]
  <2>1. CASE r.op.api \in Renames
    <3>1. [[A EXCEPT ![r.op.from] = Free] EXCEPT ![1] = new] = [[B EXCEPT ![r.op.from] = Free] EXCEPT ![1] = new]
      BY <1>2, <1>3, <1>6, <2>1
    <3> QED BY <1>1, <1>6, <2>1, <3>1 DEF Left, Put, Stands
  <2>2. CASE r.op.api \notin Renames
    <3>1. [A EXCEPT ![1] = new] = [B EXCEPT ![1] = new]
      BY <1>2, <1>6
    <3> QED BY <1>1, <1>6, <2>2, <3>1 DEF Left, Put, Stands
  <2> QED BY <2>1, <2>2
<1> QED BY <1>4, <1>5, <1>6 DEF Ready

\* A name that is taken is the first one, and what has it was there at first.
LEMMA Taken ==
  ASSUME Inputs, NEW A, Tree(A), NEW r, NEW B, Ready(r, A, B), B[r.name] # Free
  PROVE  B = A /\ r.name = 1 /\ A[1] # Free
<1>1. A \in [Paths -> Content] /\ 1 \in Paths
  BY Sizes DEF Tree
<1> QED BY <1>1 DEF Ready

Alone(c, A) == /\ Tree(A) /\ (\A o \in Ops : Fits(o, A)) /\ Given(call[c].op, A)
               /\ Undisturbed(c, call[c], A, at)

LEMMA Going ==
  ASSUME Inputs, Inv, NEW c \in Calls, NEW new \in CallRecs, Goes(c, new) PROVE call'[c] = new
  BY DEF Goes, Inv, Typed

LEMMA ActAlone ==
  ASSUME Inputs, Inv, NEW c \in Calls, NEW A, Alone(c, A), Act(c)
  PROVE  Onward(c, call'[c], A, at')
<1>1. PICK r \in CallRecs : r = call[c] /\ Fit(r) /\ r.pc = "act" /\ r.name \in Paths
  <2>1. call[c] \in CallRecs /\ Fit(call[c]) /\ call[c].name \in Names
    BY DEF Inv, Typed, CallRecs
  <2> QED BY <2>1, Sizes DEF Act
<1>2. Tree(A) /\ Undisturbed(c, r, A, at) /\ Tree(at) /\ at \in [Paths -> Content]
  BY <1>1 DEF Alone, Inv, Typed, Tree
<1>3. /\ r.op.api \in {"NEWFILE", "MKDIR", "CPFILE"} /\ r.kind \in {"file", "dir"}
      /\ r.op.api = "MKDIR" <=> r.kind = "dir"
      /\ r.op.api \notin Renames /\ {"act", "stat", "look"} \subseteq Steps
  BY <1>1 DEF Fit, Renames, Steps
<1>4. Ready(r, A, at) /\ r.kind = Offered(r, A)
  BY <1>1, <1>2, <1>3 DEF Undisturbed
<1>5. CASE at[r.name] = Free
  <2>1. PICK e : e = [kind |-> r.kind, obj |-> c]
    OBVIOUS
  <2>2. New(c, r.op, A) = e
    BY <1>3, <2>1 DEF New
  <2>3. at' = [at EXCEPT ![r.name] = e] /\ Goes(c, To(c, "stat"))
    BY <1>1, <1>5, <2>1 DEF Act
  <2>4. Promise(c, r.op, A) = [at |-> at', answer |-> "placed"]
    <3>1. Promise(c, r.op, A) = Stands(c, r, A, at)
      BY <1>1, <1>2, <1>3, <1>4, <1>5, Puttable
    <3> QED BY <1>3, <2>2, <2>3, <3>1 DEF Stands
  <2>5. PICK new \in CallRecs : /\ new = To(c, "stat") /\ new.pc = "stat" /\ new.op = r.op
                                /\ new.name = r.name /\ new.kind = r.kind
    BY <1>1, <1>3, Records DEF Inv, Typed
  <2>6. at'[new.name].kind \in {"file", "dir"}
    <3>1. e.kind = r.kind
      BY <2>1
    <3> QED BY <1>1, <1>2, <1>3, <2>3, <2>5, <3>1
  <2>7. Undisturbed(c, new, A, at')
    BY <1>3, <1>4, <2>4, <2>5, <2>6 DEF Undisturbed, Offered
  <2> QED BY <2>3, <2>5, <2>7, Going DEF Onward
<1>6. CASE at[r.name] # Free
  <2>1. at' = at /\ Goes(c, To(c, "look"))
    BY <1>1, <1>6 DEF Act
  <2>2. PICK new \in CallRecs : /\ new = To(c, "look") /\ new.pc = "look" /\ new.op = r.op
                                /\ new.name = r.name /\ new.kind = r.kind
    BY <1>1, <1>3, Records DEF Inv, Typed
  <2>3. at = A /\ r.name = 1 /\ A[1] # Free
    BY <1>2, <1>4, <1>6, Taken
  <2>4. Undisturbed(c, new, A, at')
    BY <1>3, <1>4, <2>1, <2>2, <2>3 DEF Undisturbed, Offered
  <2> QED BY <2>1, <2>2, <2>4, Going DEF Onward
<1> QED BY <1>5, <1>6

LEMMA PeekAlone ==
  ASSUME Inputs, Inv, NEW c \in Calls, NEW A, Alone(c, A), Peek(c)
  PROVE  Onward(c, call'[c], A, at')
<1>1. PICK r \in CallRecs : r = call[c] /\ Fit(r) /\ r.pc = "peek" /\ r.name \in Paths
  <2>1. call[c] \in CallRecs /\ Fit(call[c]) /\ call[c].name \in Names
    BY DEF Inv, Typed, CallRecs
  <2> QED BY <2>1, Sizes DEF Peek
<1>2. Tree(A) /\ Undisturbed(c, r, A, at) /\ at' = at
  BY <1>1 DEF Alone, Peek
<1>3. r.op.api \in Renames /\ {"peek", "mv", "look"} \subseteq Steps
  BY <1>1 DEF Fit, Steps
<1>4. Ready(r, A, at) /\ r.kind = Offered(r, A)
  BY <1>1, <1>2, <1>3 DEF Undisturbed, Renames
<1>5. CASE at[r.name] = Free
  <2>1. Goes(c, [To(c, "mv") EXCEPT !.seen = Free])
    BY <1>1, <1>5 DEF Peek
  <2>2. PICK x \in CallRecs : /\ x = To(c, "mv") /\ x.pc = "mv" /\ x.op = r.op
                              /\ x.name = r.name /\ x.kind = r.kind
    BY <1>1, <1>3, Records DEF Inv, Typed
  <2>3. PICK new : new = [x EXCEPT !.seen = Free]
    OBVIOUS
  <2>4. new \in CallRecs /\ new.pc = "mv" /\ new.op = r.op /\ new.name = r.name /\ new.kind = r.kind
    BY <2>2, <2>3, Things DEF CallRecs
  <2>5. Ready(new, A, at) /\ new.kind = Offered(new, A)
    BY <1>4, <2>4 DEF Ready, Offered
  <2>6. Undisturbed(c, new, A, at')
    BY <1>2, <1>5, <2>4, <2>5 DEF Undisturbed
  <2> QED BY <2>1, <2>2, <2>3, <2>4, <2>6, Going DEF Onward
<1>6. CASE at[r.name] # Free
  <2>1. Goes(c, To(c, "look"))
    BY <1>1, <1>6 DEF Peek
  <2>2. PICK new \in CallRecs : /\ new = To(c, "look") /\ new.pc = "look" /\ new.op = r.op
                                /\ new.name = r.name /\ new.kind = r.kind
    BY <1>1, <1>3, Records DEF Inv, Typed
  <2>3. at = A /\ r.name = 1 /\ A[1] # Free
    BY <1>2, <1>4, <1>6, Taken
  <2>4. Undisturbed(c, new, A, at')
    BY <1>2, <1>4, <2>2, <2>3 DEF Undisturbed, Offered
  <2> QED BY <2>1, <2>2, <2>4, Going DEF Onward
<1> QED BY <1>5, <1>6

LEMMA MvAlone ==
  ASSUME Inputs, Inv, NEW c \in Calls, NEW A, Alone(c, A), Mv(c)
  PROVE  Onward(c, call'[c], A, at')
<1>1. PICK r \in CallRecs : r = call[c] /\ Fit(r) /\ r.pc = "mv" /\ r.name \in Names /\ r.name \in Paths
  <2>1. call[c] \in CallRecs /\ Fit(call[c]) /\ call[c].name \in Names
    BY DEF Inv, Typed, CallRecs
  <2> QED BY <2>1, Sizes DEF Mv
<1>2. Tree(A) /\ Undisturbed(c, r, A, at) /\ Tree(at) /\ at \in [Paths -> Content] /\ A \in [Paths -> Content]
  BY <1>1 DEF Alone, Inv, Typed, Tree
<1>3. r.op.api \in Renames /\ {"mv", "stat"} \subseteq Steps /\ r.op \in Ops
  BY <1>1 DEF Fit, Steps
<1>4. Ready(r, A, at) /\ r.kind = Offered(r, A) /\ at[r.name] = Free
  BY <1>1, <1>2, <1>3 DEF Undisturbed, Renames
<1>5. r.op.from \in Sources /\ r.op.from \in Paths /\ r.op.from # 1 /\ r.op.from # r.name
  <2>1. r.op.from \in Sources /\ Names \cap Sources = {}
    BY <1>3 DEF Inputs
  <2> QED BY <1>1, <2>1, Sizes
<1>6. at[r.op.from] = A[r.op.from] /\ A[r.op.from].kind \in {"file", "dir"}
  <2>1. at[r.op.from] = A[r.op.from]
    BY <1>2, <1>4, <1>5 DEF Ready
  <2> QED BY <1>1, <1>3, <2>1 DEF Alone, Given
<1>7. at[r.op.from] # Free /\ Yields(at[r.name], at[r.op.from])
  BY <1>4, <1>6, Things DEF Yields
<1>8. at' = Move(at, r.op.from, r.name) /\ Goes(c, To(c, "stat"))
  BY <1>1, <1>7 DEF Mv
<1>9. Promise(c, r.op, A) = [at |-> at', answer |-> "placed"]
  <2>1. Promise(c, r.op, A) = Stands(c, r, A, at)
    BY <1>1, <1>2, <1>4, Puttable DEF Steps
  <2>2. PICK e : e = A[r.op.from]
    OBVIOUS
  <2>3. New(c, r.op, A) = e /\ at[r.op.from] = e
    BY <1>3, <1>6, <2>2 DEF New
  <2>4. [[at EXCEPT ![r.op.from] = Free] EXCEPT ![r.name] = e] = [[at EXCEPT ![r.name] = e] EXCEPT ![r.op.from] = Free]
    BY <1>1, <1>2, <1>5
  <2> QED BY <1>3, <1>8, <2>1, <2>3, <2>4 DEF Stands, Move
<1>10. PICK new \in CallRecs : /\ new = To(c, "stat") /\ new.pc = "stat" /\ new.op = r.op
                               /\ new.name = r.name /\ new.kind = r.kind
  BY <1>1, <1>3, Records DEF Inv, Typed
<1>11. at'[new.name].kind \in {"file", "dir"}
  BY <1>1, <1>2, <1>5, <1>6, <1>8, <1>10 DEF Move
<1>12. Undisturbed(c, new, A, at')
  BY <1>4, <1>9, <1>10, <1>11 DEF Undisturbed, Offered
<1> QED BY <1>8, <1>10, <1>12, Going DEF Onward

\* A call that ends.
LEMMA Ending ==
  ASSUME Inputs, Inv, NEW c \in Calls, NEW a \in {"placed", "skipped", "error"}, Ends(c, a)
  PROVE  call'[c].pc = "done" /\ call'[c].op = call[c].op /\ call'[c].answer = a
<1>1. PICK new \in CallRecs : /\ new = Done(c, a) /\ new.pc = "done" /\ new.op = call[c].op /\ new.answer = a
  BY Records DEF Inv, Typed
<1> QED BY <1>1, Going DEF Ends

LEMMA LookAlone ==
  ASSUME Inputs, Inv, NEW c \in Calls, NEW A, Alone(c, A), Look(c)
  PROVE  Onward(c, call'[c], A, at')
<1>1. PICK r \in CallRecs : r = call[c] /\ Fit(r) /\ r.pc = "look"
  BY DEF Look, Inv, Typed
<1>2. /\ Tree(A) /\ Undisturbed(c, r, A, at) /\ at' = at
      /\ {"look", "list", "clear"} \subseteq Steps /\ r.pc \in Steps \ {"type", "remove"}
  BY <1>1 DEF Alone, Look, Steps
<1>3. at = A /\ r.name = 1 /\ A[1] # Free /\ r.op.api # "REMOVE" /\ r.kind = Offered(r, A)
  BY <1>1, <1>2 DEF Undisturbed, Fit
<1>4. PICK e \in Content : e = A[1]
  <2>1. 1 \in Paths
    BY Sizes
  <2> QED BY <1>2, <2>1 DEF Tree
<1>5. PICK p : p = Told(r.op, r.kind, e) /\ p = Policy(r.op, r.kind, e)
  BY DEF Told, Policy
<1>6. p \in {"none", "skip", "rename", "replace"}
  <2>1. r.op \in Ops
    BY <1>1, <1>2 DEF Fit
  <2>2. {r.op.same, r.op.diff} \subseteq {"none", "skip", "rename", "replace"}
    BY <2>1 DEF Inputs
  <2> QED BY <1>5, <2>2 DEF Told
<1>7. /\ p = "none" => Promise(c, r.op, A) = [at |-> A, answer |-> "error"]
      /\ p = "skip" => Promise(c, r.op, A) = [at |-> A, answer |-> "skipped"]
  <2>1. /\ Told(r.op, r.kind, A[1]) = "none" => Promise(c, r.op, A) = [at |-> A, answer |-> "error"]
        /\ Told(r.op, r.kind, A[1]) = "skip" => Promise(c, r.op, A) = [at |-> A, answer |-> "skipped"]
    BY <1>1, <1>2, <1>3, Promised
  <2> QED BY <1>4, <1>5, <2>1
<1>8. PICK q \in {"none", "same", "diff"} :
        q = IF r.resolved = "none" THEN (IF e.kind = r.kind THEN "same" ELSE "diff") ELSE r.resolved
  BY DEF CallRecs
<1>9. PICK met : met = [r EXCEPT !.seen = e, !.resolved = q]
  OBVIOUS
<1>10. /\ met \in CallRecs /\ met.op = r.op /\ met.name = r.name /\ met.kind = r.kind /\ met.resolved = q
       /\ [r EXCEPT !.seen = e, !.resolved = IF @ = "none" THEN (IF e.kind = r.kind THEN "same" ELSE "diff") ELSE @]
            = met
  BY <1>8, <1>9 DEF CallRecs
<1>11. at[call[c].name] = e
  BY <1>1, <1>3, <1>4
<1>12. CASE p = "none"
  <2>1. Ends(c, "error")
    BY <1>1, <1>3, <1>4, <1>5, <1>11, <1>12 DEF Look
  <2> QED BY <1>1, <1>2, <1>3, <1>7, <1>12, <2>1, Ending DEF Onward
<1>13. CASE p = "skip"
  <2>1. Goes(c, [Done(c, "skipped") EXCEPT !.resolved = q])
    BY <1>1, <1>3, <1>4, <1>5, <1>10, <1>11, <1>13 DEF Look
  <2>2. PICK d \in CallRecs : /\ d = Done(c, "skipped") /\ d.pc = "done" /\ d.op = r.op /\ d.answer = "skipped"
    BY <1>1, Records DEF Inv, Typed
  <2>3. PICK new : new = [d EXCEPT !.resolved = q]
    OBVIOUS
  <2>4. new \in CallRecs /\ new.pc = "done" /\ new.op = r.op /\ new.answer = "skipped"
    BY <2>2, <2>3 DEF CallRecs
  <2>5. call'[c] = new
    BY <2>1, <2>2, <2>3, <2>4, Going
  <2> QED BY <1>2, <1>3, <1>7, <1>13, <2>4, <2>5 DEF Onward
<1>14. ASSUME NEW s \in {"list", "clear"}, Goes(c, [met EXCEPT !.pc = s]),
              s = "list" => p = "rename", s = "clear" => p = "replace"
       PROVE  Onward(c, call'[c], A, at')
  <2>1. PICK new : new = [met EXCEPT !.pc = s]
    OBVIOUS
  <2>2. new \in CallRecs /\ new.pc = s /\ new.op = r.op /\ new.name = r.name /\ new.kind = r.kind
    <3>1. s \in Steps
      BY <1>2, <1>14
    <3>2. met \in CallRecs /\ met.op = r.op /\ met.name = r.name /\ met.kind = r.kind
      BY <1>10
    <3> QED BY <2>1, <3>1, <3>2 DEF CallRecs
  <2>3. Undisturbed(c, new, A, at')
    BY <1>2, <1>3, <1>4, <1>5, <1>14, <2>2 DEF Undisturbed, Offered
  <2> QED BY <1>14, <2>1, <2>2, <2>3, Going DEF Onward
<1>15. CASE p = "rename"
  <2>1. Goes(c, [met EXCEPT !.pc = "list"])
    BY <1>1, <1>3, <1>4, <1>5, <1>10, <1>11, <1>15 DEF Look
  <2> QED BY <1>14, <1>15, <2>1
<1>16. CASE p = "replace"
  <2>1. Goes(c, [met EXCEPT !.pc = "clear"])
    BY <1>1, <1>3, <1>4, <1>5, <1>10, <1>11, <1>16 DEF Look
  <2> QED BY <1>14, <1>16, <2>1
<1> QED BY <1>6, <1>12, <1>13, <1>15, <1>16

LEMMA ListAlone ==
  ASSUME Inputs, Inv, NEW c \in Calls, NEW A, Alone(c, A), List(c)
  PROVE  Onward(c, call'[c], A, at')
<1>1. PICK r \in CallRecs : r = call[c] /\ Fit(r) /\ r.pc = "list" /\ r.name \in Names
  BY DEF List, Inv, Typed, CallRecs
<1>2. Undisturbed(c, r, A, at) /\ at' = at /\ {"list", "act", "peek", "wait"} \subseteq Steps
  BY <1>1 DEF Alone, List, Steps
<1>3. /\ at = A /\ r.name = 1 /\ A[1] # Free /\ r.op.api # "REMOVE" /\ r.kind = Offered(r, A)
      /\ Told(r.op, r.kind, A[1]) = "rename"
  BY <1>1, <1>2 DEF Undisturbed, Fit
<1>4. PICK m \in Names : m = AutoName(r.name, Listing) /\ at[m] = Free
  <2>1. c \in Calls \ Placed
    BY <1>1 DEF Placed
  <2>2. r.name <= Top + Cardinality(Placed) + 1
    BY <1>1, <2>1 DEF Inv, Numbered
  <2> QED BY <1>1, <2>1, <2>2, NextName DEF Inv
<1>5. m = FirstNext(A)
  BY <1>3, <1>4 DEF FirstNext, Listing
<1>6. PICK y : y = [r EXCEPT !.name = m]
  OBVIOUS
<1>7. y \in CallRecs /\ y.op = r.op /\ y.name = m /\ y.kind = r.kind
      /\ y = [call[c] EXCEPT !.name = AutoName(@, Listing)]
  BY <1>1, <1>4, <1>6 DEF CallRecs
<1>8. PICK s \in {"act", "peek"} : s = Again(c)
  BY DEF Again
<1>9. PICK b \in BOOLEAN : b <=> r.op.api \in Renames
  <2>1. CASE r.op.api \in Renames
    <3> WITNESS TRUE \in BOOLEAN
    <3> QED BY <2>1
  <2>2. CASE r.op.api \notin Renames
    <3> WITNESS FALSE \in BOOLEAN
    <3> QED BY <2>2
  <2> QED BY <2>1, <2>2
<1>10. PICK new : \/ new = [y EXCEPT !.pc = s, !.locked = b] /\ Goes(c, new)
                  \/ new = [y EXCEPT !.pc = "wait"] /\ Goes(c, new)
  BY <1>1, <1>7, <1>8, <1>9 DEF List
<1>11. new \in CallRecs /\ new.pc \in {s, "wait"} /\ new.op = r.op /\ new.name = m /\ new.kind = r.kind
  <2>1. CASE new = [y EXCEPT !.pc = s, !.locked = b]
    <3>1. s \in Steps
      BY <1>2, <1>8
    <3>2. new \in CallRecs /\ new.pc = s /\ new.op = r.op /\ new.name = m /\ new.kind = r.kind
      BY <1>7, <1>9, <2>1, <3>1 DEF CallRecs
    <3> QED BY <3>2
  <2>2. CASE new = [y EXCEPT !.pc = "wait"]
    BY <1>2, <1>7, <2>2 DEF CallRecs
  <2> QED BY <1>10, <2>1, <2>2
<1>12. Ready(new, A, at) /\ new.kind = Offered(new, A)
  BY <1>3, <1>4, <1>5, <1>11 DEF Ready, Offered
<1>13. Undisturbed(c, new, A, at')
  BY <1>2, <1>4, <1>11, <1>12 DEF Undisturbed
<1> QED BY <1>10, <1>11, <1>13, Going DEF Onward

LEMMA WaitAlone ==
  ASSUME Inputs, Inv, NEW c \in Calls, NEW A, Alone(c, A), Wait(c)
  PROVE  Onward(c, call'[c], A, at')
<1>1. /\ call[c].pc = "wait" /\ Fit(call[c]) /\ at' = at /\ {"wait", "peek"} \subseteq Steps
      /\ Goes(c, [To(c, "peek") EXCEPT !.locked = TRUE])
  BY DEF Wait, Inv, Typed, Steps
<1>2. PICK x \in CallRecs : /\ x = To(c, "peek") /\ x.op = call[c].op
                            /\ x.name = call[c].name /\ x.kind = call[c].kind /\ x.pc = "peek"
  BY <1>1, Records DEF Inv, Typed
<1>3. PICK new : new = [x EXCEPT !.locked = TRUE]
  OBVIOUS
<1>4. /\ new \in CallRecs /\ new.op = call[c].op /\ new.name = call[c].name /\ new.kind = call[c].kind
      /\ new.pc = "peek"
  BY <1>2, <1>3 DEF CallRecs
<1>5. Undisturbed(c, call[c], A, at)
  BY DEF Alone
<1>6. Ready(call[c], A, at) /\ call[c].op.api # "REMOVE" /\ call[c].kind = Offered(call[c], A)
  BY <1>1, <1>5 DEF Undisturbed, Fit, Renames
<1>7. Ready(new, A, at) /\ new.kind = Offered(new, A)
  BY <1>4, <1>6 DEF Ready, Offered
<1>8. Undisturbed(c, new, A, at')
  BY <1>1, <1>4, <1>7 DEF Undisturbed
<1> QED BY <1>1, <1>2, <1>3, <1>4, <1>8, Going DEF Onward

LEMMA ClearAlone ==
  ASSUME Inputs, Inv, NEW c \in Calls, NEW A, Alone(c, A), Clear(c)
  PROVE  Onward(c, call'[c], A, at')
<1>1. /\ call[c].pc = "clear" /\ Fit(call[c]) /\ {"clear", "act", "peek"} \subseteq Steps
      /\ Goes(c, To(c, Again(c))) /\ at' = [at EXCEPT ![call[c].name] = Free]
  BY DEF Clear, Inv, Typed, Steps
<1>2. PICK s \in {"act", "peek"} : s = Again(c)
  BY DEF Again
<1>3. PICK new \in CallRecs : /\ new = To(c, s) /\ new.pc = s /\ new.op = call[c].op
                              /\ new.name = call[c].name /\ new.kind = call[c].kind
  BY <1>1, Records DEF Inv, Typed
<1>4. Undisturbed(c, call[c], A, at)
  BY DEF Alone
<1>5. /\ at = A /\ call[c].name = 1 /\ A[1] # Free /\ call[c].op.api # "REMOVE"
      /\ Told(call[c].op, call[c].kind, A[1]) = "replace" /\ call[c].kind = Offered(call[c], A)
  BY <1>1, <1>4 DEF Undisturbed, Fit
<1>6. Ready(new, A, at') /\ new.kind = Offered(new, A)
  <2>1. at' = [A EXCEPT ![1] = Free]
    BY <1>1, <1>5
  <2> QED BY <1>3, <1>5, <2>1 DEF Ready, Offered
<1>7. Undisturbed(c, new, A, at')
  BY <1>3, <1>6 DEF Undisturbed
<1> QED BY <1>1, <1>2, <1>3, <1>7, Going DEF Onward

LEMMA StatAlone ==
  ASSUME Inputs, Inv, NEW c \in Calls, NEW A, Alone(c, A), Stat(c)
  PROVE  Onward(c, call'[c], A, at')
<1>1. call[c].pc = "stat" /\ at' = at
  BY DEF Stat
<1>2. /\ Promise(c, call[c].op, A) = [at |-> at, answer |-> "placed"]
      /\ at[call[c].name].kind \in {"file", "dir"}
  BY <1>1 DEF Alone, Undisturbed
<1>3. Ends(c, "placed")
  BY <1>2 DEF Stat
<1> QED BY <1>1, <1>2, <1>3, Ending DEF Onward

LEMMA SourceAlone ==
  ASSUME Inputs, Inv, NEW c \in Calls, NEW A, Alone(c, A),
         TypeRead(c) \/ Rimrafs(c) \/ CloneReads(c) \/ CloneCopies(c) \/ CloneChecks(c)
  PROVE  Onward(c, call'[c], A, at')
<1>1. PICK r \in CallRecs : r = call[c] /\ Fit(r) /\ r.pc \in {"type", "remove", "read", "clone", "check"}
  BY DEF TypeRead, Rimrafs, CloneReads, CloneCopies, CloneChecks, Inv, Typed
<1>2. /\ Undisturbed(c, r, A, at) /\ Given(r.op, A) /\ (\A o \in Ops : Fits(o, A))
      /\ {"type", "remove", "read", "clone", "check", "peek", "act"} \subseteq Steps
  BY <1>1 DEF Alone, Steps
<1>3. /\ at = A /\ r.name = 1 /\ (r.pc \in {"clone", "check"} => r.seen = A[r.op.from]) /\ r.op \in Ops
      /\ r.pc = "remove" => r.op.api = "REMOVE"
      /\ r.pc = "type" => r.op.api = "RENAME"
      /\ r.pc \in {"read", "clone", "check"} => r.op.api = "CPFILE"
  BY <1>1, <1>2 DEF Undisturbed, Fit
<1>4. CASE Rimrafs(c)
  <2>1. Ends(c, "placed") /\ at' = [A EXCEPT ![r.op.from] = Free] /\ r.op.api = "REMOVE"
    BY <1>1, <1>3, <1>4 DEF Rimrafs
  <2>2. Promise(c, r.op, A) = [at |-> at', answer |-> "placed"]
    BY <2>1 DEF Promise
  <2> QED BY <1>1, <2>1, <2>2, Ending DEF Onward
<1>5. CASE TypeRead(c)
  <2>1. r.op.api = "RENAME" /\ A[r.op.from].kind \in {"file", "dir"}
    BY <1>1, <1>2, <1>3, <1>5 DEF TypeRead, Given, Renames
  <2>2. Goes(c, [To(c, "peek") EXCEPT !.kind = A[r.op.from].kind]) /\ at' = at
    BY <1>1, <1>3, <1>5, <2>1 DEF TypeRead
  <2>3. PICK y \in CallRecs : y = To(c, "peek") /\ y.pc = "peek" /\ y.op = r.op /\ y.name = r.name
    BY <1>1, <1>2, Records DEF Inv, Typed
  <2>4. PICK new : new = [y EXCEPT !.kind = A[r.op.from].kind]
    OBVIOUS
  <2>5. new \in CallRecs /\ new.pc = "peek" /\ new.op = r.op /\ new.kind = A[r.op.from].kind /\ new.name = r.name
    BY <2>1, <2>3, <2>4 DEF CallRecs
  <2>6. Ready(new, A, at) /\ new.kind = Offered(new, A)
    BY <1>3, <2>1, <2>5 DEF Ready, Offered, Renames
  <2>7. Undisturbed(c, new, A, at')
    BY <2>2, <2>5, <2>6 DEF Undisturbed
  <2> QED BY <2>2, <2>3, <2>4, <2>5, <2>7, Going DEF Onward
<1>6. CASE CloneReads(c) \/ CloneCopies(c) \/ CloneChecks(c)
  <2>1. r.op.api = "CPFILE" /\ A[r.op.from].kind = "file" /\ r.op.api \notin Renames /\ at' = at
    BY <1>1, <1>2, <1>3, <1>6 DEF CloneReads, CloneCopies, CloneChecks, Given, Fits, Renames
  <2>2. ASSUME NEW new \in CallRecs, Goes(c, new), new.pc \in {"clone", "check", "act"}, new.op = r.op,
               new.name = r.name, new.pc \in {"clone", "check"} => new.seen = A[r.op.from]
        PROVE  Onward(c, call'[c], A, at')
    <3>1. new.kind = Offered(new, A)
      BY <2>1, <2>2 DEF Offered
    <3>2. Ready(new, A, at)
      BY <1>3, <2>2 DEF Ready
    <3>3. Undisturbed(c, new, A, at')
      BY <1>3, <2>1, <2>2, <3>1, <3>2 DEF Undisturbed
    <3> QED BY <2>2, <3>3, Going DEF Onward
  <2>3. CASE CloneReads(c)
    <3>1. Goes(c, [To(c, "clone") EXCEPT !.seen = A[r.op.from]])
      BY <1>1, <1>3, <2>1, <2>3 DEF CloneReads
    <3>2. PICK y \in CallRecs : y = To(c, "clone") /\ y.pc = "clone" /\ y.op = r.op /\ y.name = r.name
      BY <1>1, <1>2, Records DEF Inv, Typed
    <3>3. PICK e \in Content : e = A[r.op.from]
      <4>1. r.op.from \in Paths
        BY <1>3, <2>1, Sizes DEF Inputs
      <4> QED BY <4>1 DEF Alone, Tree
    <3>4. PICK new : new = [y EXCEPT !.seen = e]
      OBVIOUS
    <3>5. new \in CallRecs /\ new.pc = "clone" /\ new.op = r.op /\ new.seen = e /\ new.name = r.name
      BY <3>2, <3>4 DEF CallRecs
    <3> QED BY <2>2, <3>1, <3>2, <3>3, <3>4, <3>5
  <2>4. CASE CloneCopies(c)
    <3>1. Goes(c, To(c, "check")) /\ r.pc = "clone"
      BY <1>1, <1>3, <2>1, <2>4 DEF CloneCopies
    <3>2. PICK new \in CallRecs : /\ new = To(c, "check") /\ new.pc = "check" /\ new.op = r.op
                                  /\ new.name = r.name /\ new.seen = r.seen
      BY <1>1, <1>2, Records DEF Inv, Typed
    <3> QED BY <1>3, <2>2, <3>1, <3>2
  <2>5. CASE CloneChecks(c)
    <3>1. Goes(c, To(c, "act"))
      BY <1>1, <1>3, <2>1, <2>5 DEF CloneChecks
    <3>2. PICK new \in CallRecs : new = To(c, "act") /\ new.pc = "act" /\ new.op = r.op /\ new.name = r.name
      BY <1>1, <1>2, Records DEF Inv, Typed
    <3> QED BY <2>2, <3>1, <3>2
  <2> QED BY <1>6, <2>3, <2>4, <2>5
<1> QED BY <1>4, <1>5, <1>6

\* What the history says of the calls that nobody has disturbed.
History ==
  /\ DOMAIN began = Calls
  /\ \A c \in alone : /\ Tree(began[c]) /\ \A o \in Ops : Fits(o, began[c])
                      /\ Given(call[c].op, began[c]) => Undisturbed(c, call[c], began[c], at)

LEMMA ProceedAlone ==
  ASSUME Inputs, Inv, NEW c \in Calls, NEW A, Alone(c, A), Proceed(c)
  PROVE  Onward(c, call'[c], A, at')
  BY ActAlone, PeekAlone, MvAlone, LookAlone, ListAlone, WaitAlone, ClearAlone, StatAlone, SourceAlone
     DEF Proceed

LEMMA HistoryAsks ==
  ASSUME Inputs, Inv, History, NEW c \in Calls, Ask(c)
  PROVE  History' /\ Promises
<1>1. PICK new \in CallRecs : Starts(c, new)
  BY Asking
<1>2. /\ call'[c] = new /\ (\A d \in Calls : d # c => call'[d] = call[d]) /\ at' = at
      /\ new.pc \in {"act", "peek", "type", "remove", "read"} /\ new.name = 1 /\ Fit(new)
      /\ alone \subseteq Calls \ {c}
  BY <1>1, AType DEF Starts, Inv, Typed, Active, Steps
<1>3. DOMAIN began' = Calls /\ began'[c] = at /\ alone' \subseteq {c}
  BY <1>1 DEF History, Starts
<1>4. ASSUME Given(new.op, at) PROVE Undisturbed(c, new, at, at)
  <2>1. Ready(new, at, at)
    BY <1>2 DEF Ready
  <2>2. new.pc # "type" => new.op.api = "REMOVE" \/ new.kind = Offered(new, at)
    <3>1. CASE new.op.api \in {"MVFILE", "MVDIRS"}
      <4>1. new.op \in Ops /\ Fits(new.op, at) /\ new.op.api \in Renames
        BY <1>2, <3>1 DEF Fit, Inv, Typed, Steps, Renames
      <4>2. new.op.api = "MVFILE" => at[new.op.from].kind = "file"
        BY <1>4, <4>1 DEF Given, Fits
      <4>3. new.op.api = "MVDIRS" => at[new.op.from].kind = "dir"
        BY <1>4, <4>1 DEF Given, Fits
      <4>4. /\ new.op.api = "MVFILE" => new.kind = "file"
            /\ new.op.api = "MVDIRS" => new.kind = "dir"
        BY <1>2 DEF Fit, Steps
      <4> QED BY <3>1, <4>1, <4>2, <4>3, <4>4 DEF Offered
    <3>2. CASE new.op.api = "RENAME"
      BY <1>1, <1>2, <3>2 DEF Starts
    <3>3. CASE new.op.api \notin Renames
      BY <3>3 DEF Offered
    <3> QED BY <3>1, <3>2, <3>3 DEF Renames
  <2> QED BY <1>2, <2>1, <2>2 DEF Undisturbed
<1>5. History'
  <2>1. Tree(at) /\ \A o \in Ops : Fits(o, at)
    BY DEF Inv, Typed
  <2> QED BY <1>2, <1>3, <1>4, <2>1 DEF History
<1>6. Promises
  <2>1. \A d \in alone : call'[d].pc # "done"
    BY <1>2 DEF Inv, Typed, Active, Steps
  <2> QED BY <2>1 DEF Promises
<1> QED BY <1>5, <1>6

LEMMA HistoryGoes ==
  ASSUME Inputs, Inv, History, NEW c \in Calls, Proceed(c) \/ Fault(c)
  PROVE  History' /\ Promises
<1>1. PICK new \in CallRecs : Follows(c, new)
  BY Following
<1>2. call'[c] = new /\ (\A d \in Calls : d # c => call'[d] = call[d]) /\ new.op = call[c].op
  BY <1>1, AType DEF Follows
<1>3. /\ alone' \subseteq alone \cap {c} /\ (alone' # {} => new.pc # "done" /\ began' = began)
      /\ alone \subseteq Active
  BY <1>1 DEF Follows, Goes, Inv, Typed
<1>4. \A d \in alone : d \in Calls /\ (d # c => call'[d].pc # "done")
  BY <1>2, <1>3 DEF Active, Steps
<1>5. DOMAIN began' = Calls
  BY <1>1 DEF History, Follows, Goes
<1>6. Fault(c) => new.pc = "done" /\ faults' # faults
  <2> SUFFICES ASSUME Fault(c) PROVE new.pc = "done" /\ faults' # faults
    OBVIOUS
  <2>1. new.pc = "done"
    BY <1>2, Ending DEF Fault
  <2>2. faults' = faults + 1 /\ faults \in 0 .. MaxFaults /\ MaxFaults \in Nat
    BY DEF Fault, Inv, Typed, Inputs
  <2> QED BY <2>1, <2>2
<1>7. ASSUME c \in alone, Given(call[c].op, began[c]), ~Fault(c)
      PROVE  Onward(c, new, began[c], at')
  <2>1. Alone(c, began[c])
    BY <1>7 DEF Alone, History
  <2> QED BY <1>2, <1>7, <2>1, ProceedAlone
<1>8. History'
  <2>1. ASSUME NEW d \in alone'
        PROVE  /\ Tree(began'[d]) /\ \A o \in Ops : Fits(o, began'[d])
               /\ Given(call'[d].op, began'[d]) => Undisturbed(d, call'[d], began'[d], at')
    <3>1. d = c /\ c \in alone /\ new.pc # "done" /\ began' = began /\ ~Fault(c)
      BY <1>3, <1>6, <2>1
    <3>2. Given(call[c].op, began[c]) => Undisturbed(c, new, began[c], at')
      BY <1>7, <3>1 DEF Onward
    <3> QED BY <1>2, <3>1, <3>2 DEF History
  <2> QED BY <1>5, <2>1 DEF History
<1>9. Promises
  <2> SUFFICES ASSUME NEW d \in alone, call'[d].pc = "done", faults' = faults,
                      call[d].op.api \in Renames \cup {"CPFILE"} => began[d][call[d].op.from].kind \in {"file", "dir"}
               PROVE  [at |-> at', answer |-> call'[d].answer] = Promise(d, call[d].op, began[d])
    BY DEF Promises
  <2>1. d = c /\ ~Fault(c)
    BY <1>4, <1>6
  <2>2. Given(call[c].op, began[c])
    BY <2>1 DEF Given
  <2> QED BY <1>2, <1>7, <2>1, <2>2 DEF Onward
<1> QED BY <1>8, <1>9

\* A call whose source is there, that no other call disturbs and no fault stops, does as its
\* policies say in all the system calls it takes, and answers so: it is one step.
THEOREM OneStep == Spec => AsOneStep
<1>0. Inputs
  BY InputsAssumption
<1>1. Init => Inv /\ History
  BY <1>0, Beginning DEF Init, History
<1>2. Inv /\ History /\ [Next]_vars => Inv' /\ History'
  <2> SUFFICES ASSUME Inv, History, [Next]_vars PROVE Inv' /\ History'
    OBVIOUS
  <2>1. Inv'
    BY <1>0, Keeping
  <2>2. CASE UNCHANGED vars
    BY <2>1, <2>2 DEF vars, History
  <2>3. CASE Next
    BY <1>0, <2>1, <2>3, HistoryAsks, HistoryGoes DEF Next
  <2> QED BY <2>2, <2>3
<1>3. Inv /\ History /\ [Next]_vars => [Promises]_vars
  BY <1>0, HistoryAsks, HistoryGoes DEF Next
<1> QED BY <1>1, <1>2, <1>3, PTL DEF Spec, AsOneStep

-----------------------------------------------------------------------------
(* FileIndex.  Ruled is what the indices of one memory have in common with *)
(* its objects; Of adds that their records are in a set K, and             *)
(* updateChildren() leaves no K that is closed under destroy() and has the *)
(* records born of what is listed.  K is first all records, then those     *)
(* whose hashes are true of the disk.                                      *)

Hashes == {<<>>} \cup (Files \X Nat)
WorkRecs == [phase : {"none", "lstat", "digest", "update"}, dir : Dirs \cup {"none"}, name : FileNames \cup {"none"},
             time : Nat, hash : Hashes]
FileRecs == [uuid : Files, dir : Dirs, name : FileNames, hash : Hashes, fails : Nat, work : WorkRecs,
             state : {"hashless", "hashing", "hashed", "failed", "gone"}]
Mems == [obj : Seq(FileRecs), fileMap : [Files -> Nat], hashless : Seq(Nat), hashing : SUBSET Nat,
         meta : SUBSET (Hashes \X Nat), sched : BOOLEAN]
Listed == [uuid : Files, name : FileNames, hash : Hashes]
Spots == [dir : Dirs, name : FileNames, version : Nat, hash : Hashes, hashed : Nat]

\* The indices, each by the objects it is of.
In(O, state) == {o \in DOMAIN O : O[o].state = state}
Mapped(O, m) ==
  /\ \A o \in DOMAIN O : O[o].state # "gone" => m[O[o].uuid] = o
  /\ \A f \in Files : m[f] # 0 => m[f] \in DOMAIN O /\ O[m[f]].state # "gone" /\ O[m[f]].uuid = f
Queued(S, q) == {q[i] : i \in DOMAIN q} = S /\ \A i, j \in DOMAIN q : q[i] = q[j] => i = j
Worked(S, h) == h = S /\ IsFiniteSet(h) /\ Cardinality(h) <= Workers
Sorted(O, t) == t = {<<O[o].hash, o>> : o \in In(O, "hashed")}
Phased(b) == b.work.phase # "none" => b.state \in {"hashing", "gone"} /\ b.work.dir \in Dirs
Ruled(M) ==
  /\ M \in Mems
  /\ Mapped(M.obj, M.fileMap) /\ Queued(In(M.obj, "hashless"), M.hashless)
  /\ Worked(In(M.obj, "hashing"), M.hashing) /\ Sorted(M.obj, M.meta)
  /\ \A o \in DOMAIN M.obj : Phased(M.obj[o])

\* The queue, as an object comes to it and leaves it.
LEMMA QueueGets ==
  ASSUME NEW S, NEW q \in Seq(Nat), Queued(S, q), NEW o \in Nat, o \notin S
  PROVE  Append(q, o) \in Seq(Nat) /\ Queued(S \cup {o}, Append(q, o))
<1>1. PICK n \in Nat : n = Len(q) /\ DOMAIN q = 1 .. n
  <2>1. Len(q) \in Nat /\ DOMAIN q = 1 .. Len(q)
    OBVIOUS
  <2> QED BY <2>1
<1>2. PICK r : r = Append(q, o)
  OBVIOUS
<1>3. r \in Seq(Nat) /\ DOMAIN r = 1 .. (n + 1) /\ r[n + 1] = o /\ \A i \in 1 .. n : r[i] = q[i]
  BY <1>1, <1>2
<1>4. DOMAIN r = DOMAIN q \cup {n + 1} /\ n + 1 \notin DOMAIN q
  BY <1>1, <1>3
<1>5. \A i \in DOMAIN q : r[i] = q[i] /\ q[i] \in S
  BY <1>1, <1>3 DEF Queued
<1>6. {r[i] : i \in DOMAIN r} = S \cup {o}
  <2>1. \A x \in S : \E i \in DOMAIN q : x = q[i]
    BY DEF Queued
  <2>2. \A x \in S \cup {o} : \E i \in DOMAIN r : x = r[i]
    <3> SUFFICES ASSUME NEW x \in S \cup {o} PROVE \E i \in DOMAIN r : x = r[i]
      OBVIOUS
    <3>1. CASE x \in S
      BY <1>4, <1>5, <2>1, <3>1
    <3>2. CASE x = o
      BY <1>3, <1>4, <3>2
    <3> QED BY <3>1, <3>2
  <2>3. \A i \in DOMAIN r : r[i] \in S \cup {o}
    BY <1>3, <1>4, <1>5
  <2> QED BY <2>2, <2>3
<1>7. \A i, j \in DOMAIN r : r[i] = r[j] => i = j
  BY <1>3, <1>4, <1>5 DEF Queued
<1> QED BY <1>2, <1>3, <1>6, <1>7 DEF Queued

LEMMA QueueLoses ==
  ASSUME NEW S, NEW q \in Seq(Nat), Queued(S, q), NEW o \in S
  PROVE  Index!Without(q, o) \in Seq(Nat) /\ Queued(S \ {o}, Index!Without(q, o))
<1>1. PICK n \in Nat : n = Len(q) /\ DOMAIN q = 1 .. n
  <2>1. Len(q) \in Nat /\ DOMAIN q = 1 .. Len(q)
    OBVIOUS
  <2> QED BY <2>1
<1>2. PICK k : k = CHOOSE i \in DOMAIN q : q[i] = o
  OBVIOUS
<1>3. k \in 1 .. n /\ q[k] = o
  <2>1. \E i \in DOMAIN q : q[i] = o
    BY DEF Queued
  <2> QED BY <1>1, <1>2, <2>1
<1>4. PICK r : r = Index!Without(q, o)
  OBVIOUS
<1>5. r = SubSeq(q, 1, k - 1) \o SubSeq(q, k + 1, n)
  BY <1>1, <1>2, <1>4 DEF Index!Without, Index!RemoveAt
<1>6. /\ r \in Seq(Nat) /\ DOMAIN r = 1 .. (n - 1)
      /\ \A i \in 1 .. (n - 1) : r[i] = IF i < k THEN q[i] ELSE q[i + 1]
  <2>1. PICK a, b : a = SubSeq(q, 1, k - 1) /\ b = SubSeq(q, k + 1, n)
    OBVIOUS
  <2>2. a \in Seq(Nat) /\ Len(a) = k - 1 /\ \A i \in 1 .. (k - 1) : a[i] = q[i]
    BY <1>1, <1>3, <2>1
  <2>3. b \in Seq(Nat) /\ Len(b) = n - k /\ \A i \in 1 .. (n - k) : b[i] = q[k + i]
    BY <1>1, <1>3, <2>1
  <2>4. r \in Seq(Nat) /\ Len(r) = n - 1
    <3>1. r = a \o b
      BY <1>5, <2>1
    <3>2. r \in Seq(Nat) /\ Len(r) = Len(a) + Len(b)
      BY <2>2, <2>3, <3>1, ConcatProperties
    <3> QED BY <1>3, <2>2, <2>3, <3>2
  <2>5. \A i \in 1 .. (n - 1) : r[i] = IF i < k THEN a[i] ELSE b[i - (k - 1)]
    <3>1. r = a \o b
      BY <1>5, <2>1
    <3>2. PICK z : z = k - 1
      OBVIOUS
    <3>3. z \in Nat /\ Len(a) = z /\ Len(b) \in Nat /\ z + Len(b) = n - 1
      BY <1>3, <2>2, <2>3, <3>2
    <3>4. \A i \in 1 .. (z + Len(b)) : r[i] = IF i <= z THEN a[i] ELSE b[i - z]
      BY <2>2, <2>3, <3>1, <3>3, ConcatProperties, Zenon
    <3>5. \A i \in 1 .. (n - 1) : i < k <=> i <= z
      BY <1>3, <3>2
    <3> QED BY <3>2, <3>3, <3>4, <3>5
  <2>6. \A i \in 1 .. (n - 1) : ~(i < k) => i - (k - 1) \in 1 .. (n - k) /\ k + (i - (k - 1)) = i + 1
    BY <1>3
  <2>7. \A i \in 1 .. (n - 1) : i < k => i \in 1 .. (k - 1)
    BY <1>3
  <2>8. DOMAIN r = 1 .. (n - 1)
    BY <2>4
  <2>9. ASSUME NEW i \in 1 .. (n - 1) PROVE r[i] = IF i < k THEN q[i] ELSE q[i + 1]
    BY <2>2, <2>3, <2>5, <2>6, <2>7
  <2> QED BY <2>4, <2>8, <2>9
<1>7. ASSUME NEW i \in DOMAIN r
      PROVE  r[i] \in S /\ r[i] # o /\ \E l \in 1 .. n : r[i] = q[l] /\ l # k /\ (i < k => l = i) /\ (~(i < k) => l = i + 1)
  <2>1. PICK l \in 1 .. n : r[i] = q[l] /\ l # k /\ (i < k => l = i) /\ (~(i < k) => l = i + 1)
    <3>1. i \in 1 .. (n - 1) /\ r[i] = IF i < k THEN q[i] ELSE q[i + 1]
      BY <1>6
    <3>2. CASE i < k
      <4>1. i \in 1 .. n /\ i # k /\ r[i] = q[i]
        BY <1>3, <3>1, <3>2
      <4> QED BY <3>2, <4>1
    <3>3. CASE ~(i < k)
      <4>1. i + 1 \in 1 .. n /\ i + 1 # k /\ r[i] = q[i + 1]
        BY <1>3, <3>1, <3>3
      <4> QED BY <3>3, <4>1
    <3> QED BY <3>2, <3>3
  <2>2. q[l] # q[k]
    BY <1>1, <1>3, <2>1 DEF Queued
  <2> QED BY <1>1, <1>3, <2>1, <2>2 DEF Queued
<1>8. {r[i] : i \in DOMAIN r} = S \ {o}
  <2>1. ASSUME NEW x \in S, x # o PROVE \E i \in DOMAIN r : r[i] = x
    <3>1. PICK l \in 1 .. n : q[l] = x
      BY <1>1 DEF Queued
    <3>2. l # k
      BY <1>3, <2>1, <3>1
    <3>3. CASE l < k
      <4>1. l \in 1 .. (n - 1)
        BY <1>3, <3>3
      <4> QED BY <1>6, <3>1, <3>3, <4>1
    <3>4. CASE l > k
      <4>1. l - 1 \in 1 .. (n - 1) /\ ~(l - 1 < k) /\ (l - 1) + 1 = l
        BY <1>3, <3>4
      <4> QED BY <1>6, <3>1, <4>1
    <3> QED BY <1>3, <3>2, <3>3, <3>4
  <2> QED BY <1>7, <2>1
<1>9. ASSUME NEW i \in DOMAIN r, NEW j \in DOMAIN r, r[i] = r[j] PROVE i = j
  <2>1. PICK l \in 1 .. n : r[i] = q[l] /\ (i < k => l = i) /\ (~(i < k) => l = i + 1)
    BY <1>7
  <2>2. PICK w \in 1 .. n : r[j] = q[w] /\ (j < k => w = j) /\ (~(j < k) => w = j + 1)
    BY <1>7
  <2>3. l = w
    BY <1>1, <1>9, <2>1, <2>2 DEF Queued
  <2> QED BY <1>3, <1>6, <2>1, <2>2, <2>3
<1> QED BY <1>4, <1>6, <1>8, <1>9 DEF Queued

\* The objects, as one changes and one is made.
LEMMA FileChanged ==
  ASSUME NEW O \in Seq(FileRecs), NEW o \in DOMAIN O, NEW b \in FileRecs, NEW Q, Q = [O EXCEPT ![o] = b]
  PROVE  /\ Q \in Seq(FileRecs) /\ DOMAIN Q = DOMAIN O /\ Len(Q) = Len(O)
         /\ Q[o] = b /\ \A p \in DOMAIN O : p # o => Q[p] = O[p]
<1>2. Q \in Seq(FileRecs) /\ Len(Q) = Len(O)
  OBVIOUS
<1>3. DOMAIN Q = DOMAIN O /\ Q[o] = b /\ \A p \in DOMAIN O : p # o => Q[p] = O[p]
  OBVIOUS
<1> QED BY <1>2, <1>3

LEMMA FileMade ==
  ASSUME NEW O \in Seq(FileRecs), NEW b \in FileRecs, NEW Q, Q = Append(O, b), NEW n, n = Len(O) + 1
  PROVE  /\ Q \in Seq(FileRecs) /\ DOMAIN Q = DOMAIN O \cup {n} /\ n \notin DOMAIN O /\ n \in Nat \ {0} /\ Len(Q) = n
         /\ Q[n] = b /\ \A p \in DOMAIN O : Q[p] = O[p]
<1>1. PICK k \in Nat : k = Len(O) /\ DOMAIN O = 1 .. k /\ n = k + 1
  <2>1. Len(O) \in Nat /\ DOMAIN O = 1 .. Len(O)
    OBVIOUS
  <2> QED BY <2>1
<1>2. Q \in Seq(FileRecs) /\ Len(Q) = n /\ DOMAIN Q = 1 .. n /\ Q[n] = b /\ \A p \in 1 .. k : Q[p] = O[p]
  BY <1>1
<1>3. DOMAIN Q = DOMAIN O \cup {n} /\ n \notin DOMAIN O /\ n \in Nat \ {0}
  BY <1>1, <1>2
<1> QED BY <1>1, <1>2, <1>3

\* The map of files and that of hashes, as one object changes.
LEMMA MapChanged ==
  ASSUME NEW O \in Seq(FileRecs), NEW o \in DOMAIN O, NEW b \in FileRecs, NEW Q, Q = [O EXCEPT ![o] = b],
         NEW m \in [Files -> Nat], Mapped(O, m), O[o].state # "gone", b.uuid = O[o].uuid
  PROVE  /\ b.state # "gone" => Mapped(Q, m)
         /\ b.state = "gone" => Mapped(Q, [m EXCEPT ![b.uuid] = 0])
<1>1. /\ DOMAIN Q = DOMAIN O /\ Q[o] = b /\ \A p \in DOMAIN O : p # o => Q[p] = O[p]
      /\ DOMAIN O \subseteq Nat \ {0} /\ \A p \in DOMAIN O : O[p].uuid \in Files
  <2>1. DOMAIN O \subseteq Nat \ {0}
    OBVIOUS
  <2>2. \A p \in DOMAIN O : O[p] \in FileRecs
    OBVIOUS
  <2> QED BY <2>1, <2>2, FileChanged DEF FileRecs
<1>2. \A p \in DOMAIN O : p # o /\ O[p].state # "gone" => O[p].uuid # b.uuid
  BY DEF Mapped
<1>3. ASSUME b.state # "gone" PROVE Mapped(Q, m)
  BY <1>1, <1>3 DEF Mapped
<1>4. ASSUME b.state = "gone" PROVE Mapped(Q, [m EXCEPT ![b.uuid] = 0])
  <2>1. PICK w : w = [m EXCEPT ![b.uuid] = 0]
    OBVIOUS
  <2>2. w[b.uuid] = 0 /\ \A f \in Files : f # b.uuid => w[f] = m[f]
    BY <1>1, <2>1
  <2>3. m[b.uuid] = o
    BY DEF Mapped
  <2>4. ASSUME NEW p \in DOMAIN Q, Q[p].state # "gone" PROVE w[Q[p].uuid] = p
    <3>1. p # o /\ Q[p] = O[p] /\ O[p].uuid # b.uuid /\ O[p].uuid \in Files
      BY <1>1, <1>2, <1>4, <2>4
    <3> QED BY <2>2, <2>4, <3>1 DEF Mapped
  <2>5. ASSUME NEW f \in Files, w[f] # 0 PROVE w[f] \in DOMAIN Q /\ Q[w[f]].state # "gone" /\ Q[w[f]].uuid = f
    <3>1. f # b.uuid /\ w[f] = m[f] /\ m[f] \in DOMAIN O /\ O[m[f]].state # "gone" /\ O[m[f]].uuid = f
      BY <2>2, <2>5 DEF Mapped
    <3>2. m[f] # o
      BY <3>1
    <3> QED BY <1>1, <3>1, <3>2
  <2> QED BY <2>1, <2>4, <2>5 DEF Mapped
<1> QED BY <1>3, <1>4

LEMMA HashesChanged ==
  ASSUME NEW O \in Seq(FileRecs), NEW o \in DOMAIN O, NEW b \in FileRecs, NEW Q, Q = [O EXCEPT ![o] = b],
         NEW t, Sorted(O, t)
  PROVE  /\ O[o].state # "hashed" /\ b.state # "hashed" => Sorted(Q, t)
         /\ O[o].state # "hashed" /\ b.state = "hashed" => Sorted(Q, t \cup {<<b.hash, o>>})
         /\ O[o].state = "hashed" /\ b.state # "hashed" => Sorted(Q, t \ {<<O[o].hash, o>>})
<1>1. /\ DOMAIN Q = DOMAIN O /\ Q[o] = b /\ \A p \in DOMAIN O : p # o => Q[p] = O[p]
      /\ In(Q, "hashed") = IF b.state = "hashed" THEN In(O, "hashed") \cup {o} ELSE In(O, "hashed") \ {o}
  <2>1. DOMAIN Q = DOMAIN O /\ Q[o] = b /\ \A p \in DOMAIN O : p # o => Q[p] = O[p]
    BY FileChanged
  <2>2. In(Q, "hashed") = IF b.state = "hashed" THEN In(O, "hashed") \cup {o} ELSE In(O, "hashed") \ {o}
    BY <2>1 DEF In
  <2> QED BY <2>1, <2>2
<1>2. \A s : In(O, s) \subseteq DOMAIN O
  BY DEF In
<1>3. \A p \in In(O, "hashed") : p # o => Q[p] = O[p]
  BY <1>1, <1>2
<1>4. O[o].state = "hashed" <=> o \in In(O, "hashed")
  BY DEF In
<1>5. PICK I, J : I = In(O, "hashed") /\ J = In(Q, "hashed")
  OBVIOUS
<1>6. CASE O[o].state # "hashed" /\ b.state # "hashed"
  BY <1>1, <1>3, <1>4, <1>5, <1>6 DEF Sorted
<1>7. CASE O[o].state # "hashed" /\ b.state = "hashed"
  BY <1>1, <1>3, <1>4, <1>5, <1>7 DEF Sorted
<1>8. CASE O[o].state = "hashed" /\ b.state # "hashed"
  <2>1. J = I \ {o} /\ \A p \in J : Q[p] = O[p]
    BY <1>1, <1>3, <1>5, <1>8
  <2>2. t = {<<O[p].hash, p>> : p \in I}
    BY <1>5 DEF Sorted
  <2>3. ASSUME NEW e \in t \ {<<O[o].hash, o>>} PROVE e \in {<<Q[p].hash, p>> : p \in J}
    <3>1. PICK p \in I : e = <<O[p].hash, p>>
      BY <2>2, <2>3
    <3>2. p # o
      BY <3>1, <2>3
    <3> QED BY <2>1, <3>1, <3>2
  <2>4. ASSUME NEW e \in {<<Q[p].hash, p>> : p \in J} PROVE e \in t \ {<<O[o].hash, o>>}
    <3>1. PICK p \in J : e = <<Q[p].hash, p>>
      BY <2>4
    <3>2. p \in I /\ p # o /\ e = <<O[p].hash, p>>
      BY <2>1, <3>1
    <3>3. e # <<O[o].hash, o>>
      BY <3>2
    <3> QED BY <2>2, <3>2, <3>3
  <2>5. t \ {<<O[o].hash, o>>} = {<<Q[p].hash, p>> : p \in J}
    BY <2>3, <2>4
  <2> QED BY <1>5, <1>8, <2>5 DEF Sorted
<1> QED BY <1>6, <1>7, <1>8

LEMMA Fewer ==
  ASSUME NEW S, NEW h, Worked(S, h), NEW o, Workers \in Nat
  PROVE  Worked(S \ {o}, h \ {o})
<1>1. IsFiniteSet(h \ {o}) /\ Cardinality(h \ {o}) <= Cardinality(h)
  BY FS_Subset DEF Worked
<1>2. Cardinality(h \ {o}) \in Nat /\ Cardinality(h) \in Nat
  BY <1>1, FS_CardinalityType DEF Worked
<1> QED BY <1>1, <1>2 DEF Worked

\* What destroy() makes of the memory.
Ended(b) == [b EXCEPT !.state = "gone", !.work = Index!Stop(b.work)]

LEMMA EndedIs ==
  ASSUME NEW b \in FileRecs, Phased(b)
  PROVE  /\ Ended(b) \in FileRecs /\ Ended(b).state = "gone" /\ Ended(b).uuid = b.uuid /\ Ended(b).hash = b.hash
         /\ Phased(Ended(b)) /\ Ended(b).work \in {b.work, Index!Resting}
<1>1. Index!Resting \in WorkRecs /\ Index!Resting.phase = "none"
  BY DEF Index!Resting, Index!NoHash, WorkRecs, Hashes
<1>2. PICK w : w = Index!Stop(b.work) /\ w \in {b.work, Index!Resting}
  BY DEF Index!Stop
<1>3. PICK c : c = [b EXCEPT !.state = "gone", !.work = w]
  OBVIOUS
<1>4. c = Ended(b)
  BY <1>2, <1>3 DEF Ended
<1>5. b.work \in WorkRecs
  BY DEF FileRecs
<1>6. /\ c \in FileRecs /\ c.state = "gone" /\ c.uuid = b.uuid /\ c.hash = b.hash /\ c.work = w
  BY <1>1, <1>2, <1>3, <1>5 DEF FileRecs
<1> QED BY <1>1, <1>2, <1>4, <1>6 DEF Phased

DestroyOf(M, o, b, D) ==
  /\ D.obj = [M.obj EXCEPT ![o] = Ended(b)] /\ D.fileMap = [M.fileMap EXCEPT ![b.uuid] = 0]
  /\ D.hashless = IF b.state = "hashless" THEN Index!Without(M.hashless, o) ELSE M.hashless
  /\ D.hashing = IF b.state = "hashing" THEN M.hashing \ {o} ELSE M.hashing
  /\ D.meta = IF b.state = "hashed" THEN M.meta \ {<<b.hash, o>>} ELSE M.meta
  /\ D.sched \in BOOLEAN
  /\ D = [obj |-> D.obj, fileMap |-> D.fileMap, hashless |-> D.hashless, hashing |-> D.hashing,
          meta |-> D.meta, sched |-> D.sched]
LEMMA DestroyIs ==
  ASSUME NEW M \in Mems, NEW o \in DOMAIN M.obj, NEW b, b = M.obj[o], b.state # "gone", b \in FileRecs,
         NEW D, D = Index!Destroy(M, o)
  PROVE  DestroyOf(M, o, b, D)
<1>1. PICK w : w = Index!Stop(b.work)
  OBVIOUS
<1>2. PICK N : N = [M EXCEPT !.obj[o].state = "gone", !.obj[o].work = Index!Stop(@), !.fileMap[M.obj[o].uuid] = 0]
  OBVIOUS
<1>3. /\ M = [obj |-> M.obj, fileMap |-> M.fileMap, hashless |-> M.hashless, hashing |-> M.hashing,
              meta |-> M.meta, sched |-> M.sched]
      /\ M.sched \in BOOLEAN /\ M.obj \in Seq(FileRecs) /\ M.fileMap \in [Files -> Nat]
  BY DEF Mems
<1>4. PICK Q, m : Q = [M.obj EXCEPT ![o] = Ended(b)] /\ m = [M.fileMap EXCEPT ![b.uuid] = 0]
  OBVIOUS
<1>5. N = [obj |-> Q, fileMap |-> m, hashless |-> M.hashless, hashing |-> M.hashing,
           meta |-> M.meta, sched |-> M.sched]
  BY <1>2, <1>3, <1>4 DEF Ended
<1>6. CASE b.state = "hashless"
  <2>1. D = [N EXCEPT !.hashless = Index!Without(@, o)]
    BY <1>2, <1>6 DEF Index!Destroy
  <2> QED BY <1>3, <1>4, <1>5, <1>6, <2>1 DEF DestroyOf
<1>7. CASE b.state = "hashing"
  <2>1. D = Index!ExitHashing(N, o)
    BY <1>2, <1>7 DEF Index!Destroy
  <2> QED BY <1>3, <1>4, <1>5, <1>7, <2>1 DEF DestroyOf, Index!ExitHashing, Index!Asked
<1>8. CASE b.state = "hashed"
  <2>1. D = [N EXCEPT !.meta = @ \ {<<M.obj[o].hash, o>>}]
    BY <1>2, <1>8 DEF Index!Destroy
  <2> QED BY <1>3, <1>4, <1>5, <1>8, <2>1 DEF DestroyOf
<1>9. CASE b.state = "failed"
  <2>1. D = N
    BY <1>2, <1>9 DEF Index!Destroy
  <2> QED BY <1>3, <1>4, <1>5, <1>9, <2>1 DEF DestroyOf
<1> QED BY <1>6, <1>7, <1>8, <1>9 DEF FileRecs

\* M holds N, when every part of the index is right; the memories are the record of their parts.
LEMMA RuledParts ==
  ASSUME NEW O \in Seq(FileRecs), NEW m \in [Files -> Nat], NEW q \in Seq(Nat), NEW h, NEW t, NEW s \in BOOLEAN,
         Mapped(O, m), Queued(In(O, "hashless"), q), Worked(In(O, "hashing"), h), Sorted(O, t),
         \A o \in DOMAIN O : Phased(O[o]),
         NEW N, N = [obj |-> O, fileMap |-> m, hashless |-> q, hashing |-> h, meta |-> t, sched |-> s]
  PROVE  Ruled(N)
<1>1. DOMAIN O \subseteq Nat /\ \A o \in DOMAIN O : O[o].hash \in Hashes
  <2>1. DOMAIN O \subseteq Nat /\ \A o \in DOMAIN O : O[o] \in FileRecs
    OBVIOUS
  <2> QED BY <2>1 DEF FileRecs
<1>2. h \in SUBSET Nat
  BY <1>1 DEF Worked, In
<1>3. t \in SUBSET (Hashes \X Nat)
  BY <1>1 DEF Sorted, In
<1>4. N \in Mems
  BY <1>2, <1>3 DEF Mems
<1>5. N.obj = O /\ N.fileMap = m /\ N.hashless = q /\ N.hashing = h /\ N.meta = t
  OBVIOUS
<1> QED BY <1>4, <1>5 DEF Ruled

LEMMA Destroyed ==
  ASSUME Index!Inputs, NEW M, Ruled(M), NEW o \in DOMAIN M.obj, M.obj[o].state # "gone",
         NEW D, D = Index!Destroy(M, o)
  PROVE  /\ Ruled(D) /\ D.obj = [M.obj EXCEPT ![o] = Ended(M.obj[o])]
         /\ D.fileMap[M.obj[o].uuid] = 0
<1>1. PICK O, b : O = M.obj /\ b = M.obj[o]
  OBVIOUS
<1>2. /\ M \in Mems /\ O \in Seq(FileRecs) /\ o \in DOMAIN O /\ b = O[o] /\ b \in FileRecs /\ b.uuid \in Files
      /\ Phased(b) /\ M.fileMap \in [Files -> Nat] /\ M.hashless \in Seq(Nat) /\ Workers \in Nat
  <2>1. M \in Mems /\ O \in Seq(FileRecs) /\ o \in DOMAIN O /\ b = O[o] /\ Phased(b)
    BY <1>1 DEF Ruled, Mems
  <2>2. b \in FileRecs
    BY <2>1
  <2> QED BY <2>1, <2>2 DEF FileRecs, Mems, Index!Inputs
<1>3. PICK Q, m, c : Q = [O EXCEPT ![o] = c] /\ m = [M.fileMap EXCEPT ![b.uuid] = 0] /\ c = Ended(b)
  OBVIOUS
<1>4. c \in FileRecs /\ c.state = "gone" /\ c.uuid = b.uuid /\ Phased(c)
  BY <1>2, <1>3, EndedIs
<1>5. /\ Q \in Seq(FileRecs) /\ DOMAIN Q = DOMAIN O /\ Q[o] = c /\ \A p \in DOMAIN O : p # o => Q[p] = O[p]
      /\ In(Q, "hashless") = In(O, "hashless") \ {o} /\ In(Q, "hashing") = In(O, "hashing") \ {o}
  <2>1. Q \in Seq(FileRecs) /\ DOMAIN Q = DOMAIN O /\ Q[o] = c /\ \A p \in DOMAIN O : p # o => Q[p] = O[p]
    BY <1>2, <1>3, <1>4, FileChanged
  <2>2. In(Q, "hashless") = In(O, "hashless") \ {o}
    BY <1>4, <2>1 DEF In
  <2>3. In(Q, "hashing") = In(O, "hashing") \ {o}
    BY <1>4, <2>1 DEF In
  <2> QED BY <2>1, <2>2, <2>3
<1>6. /\ D.obj = Q /\ D.fileMap = m
      /\ D.hashless = IF b.state = "hashless" THEN Index!Without(M.hashless, o) ELSE M.hashless
      /\ D.hashing = IF b.state = "hashing" THEN M.hashing \ {o} ELSE M.hashing
      /\ D.meta = IF b.state = "hashed" THEN M.meta \ {<<b.hash, o>>} ELSE M.meta
      /\ D.sched \in BOOLEAN
      /\ D = [obj |-> D.obj, fileMap |-> D.fileMap, hashless |-> D.hashless, hashing |-> D.hashing,
              meta |-> D.meta, sched |-> D.sched]
  <2>1. b = M.obj[o] /\ b.state # "gone" /\ M \in Mems /\ b \in FileRecs
    BY <1>1, <1>2
  <2>2. DestroyOf(M, o, b, D)
    BY <2>1, DestroyIs
  <2> QED BY <1>1, <1>3, <2>2 DEF DestroyOf
<1>7. m \in [Files -> Nat] /\ m[b.uuid] = 0 /\ Mapped(Q, m)
  <2>1. Mapped(O, M.fileMap)
    BY <1>1 DEF Ruled
  <2>2. Mapped(Q, [M.fileMap EXCEPT ![c.uuid] = 0])
    BY <1>1, <1>2, <1>3, <1>4, <2>1, MapChanged
  <2> QED BY <1>2, <1>3, <1>4, <2>2
<1>8. D.hashless \in Seq(Nat) /\ Queued(In(Q, "hashless"), D.hashless)
  <2>1. Queued(In(O, "hashless"), M.hashless) /\ In(Q, "hashless") = In(O, "hashless") \ {o}
    BY <1>1, <1>4, <1>5 DEF Ruled
  <2>2. CASE b.state = "hashless"
    <3>1. o \in In(O, "hashless")
      BY <1>2, <2>2 DEF In
    <3>2. D.hashless = Index!Without(M.hashless, o)
      BY <1>6, <2>2
    <3> QED BY <1>2, <2>1, <3>1, <3>2, QueueLoses
  <2>3. CASE b.state # "hashless"
    <3>1. In(Q, "hashless") = In(O, "hashless")
      BY <1>2, <2>1, <2>3 DEF In
    <3> QED BY <1>2, <1>6, <2>1, <2>3, <3>1
  <2> QED BY <2>2, <2>3
<1>9. Worked(In(Q, "hashing"), D.hashing)
  <2>1. Worked(In(O, "hashing"), M.hashing) /\ In(Q, "hashing") = In(O, "hashing") \ {o}
    BY <1>1, <1>4, <1>5 DEF Ruled
  <2>2. CASE b.state = "hashing"
    <3>1. Worked(In(O, "hashing") \ {o}, M.hashing \ {o})
      BY <1>2, <2>1, Fewer
    <3>2. D.hashing = M.hashing \ {o}
      BY <1>6, <2>2
    <3> QED BY <2>1, <3>1, <3>2
  <2>3. CASE b.state # "hashing"
    <3>1. In(Q, "hashing") = In(O, "hashing")
      BY <1>2, <2>1, <2>3 DEF In
    <3> QED BY <1>6, <2>1, <2>3, <3>1
  <2> QED BY <2>2, <2>3
<1>10. Sorted(Q, D.meta)
  <2>1. Sorted(O, M.meta)
    BY <1>1 DEF Ruled
  <2>2. /\ b.state # "hashed" => Sorted(Q, M.meta)
        /\ b.state = "hashed" => Sorted(Q, M.meta \ {<<b.hash, o>>})
    BY <1>2, <1>3, <1>4, <2>1, HashesChanged
  <2> QED BY <1>6, <2>2
<1>11. \A p \in DOMAIN Q : Phased(Q[p])
  <2>1. \A p \in DOMAIN O : Phased(O[p])
    BY <1>1 DEF Ruled
  <2> QED BY <1>4, <1>5, <2>1
<1>12. Ruled(D)
  BY <1>5, <1>6, <1>7, <1>8, <1>9, <1>10, <1>11, RuledParts
<1> QED BY <1>1, <1>3, <1>6, <1>7, <1>12

\* new File().
Born(d, x) == [uuid |-> x.uuid, dir |-> d, name |-> x.name, hash |-> x.hash,
               state |-> IF x.hash = <<>> THEN "hashless" ELSE "hashed", fails |-> 0, work |-> Index!Resting]

LEMMA BornIs ==
  ASSUME NEW d \in Dirs, NEW x \in Listed
  PROVE  Born(d, x) \in FileRecs /\ Born(d, x).work.phase = "none"
<1>1. Index!Resting \in WorkRecs /\ Index!Resting.phase = "none"
  BY DEF Index!Resting, Index!NoHash, WorkRecs, Hashes
<1>2. x.uuid \in Files /\ x.name \in FileNames /\ x.hash \in Hashes
  BY DEF Listed
<1> QED BY <1>1, <1>2 DEF Born, FileRecs

\* The states an object enters.
IsMem(N) == N = [obj |-> N.obj, fileMap |-> N.fileMap, hashless |-> N.hashless, hashing |-> N.hashing,
                 meta |-> N.meta, sched |-> N.sched]
HashedOf(N, o, v) ==
  [obj |-> [N.obj EXCEPT ![o] = [N.obj[o] EXCEPT !.state = "hashed", !.hash = v, !.fails = 0]],
   fileMap |-> N.fileMap, hashless |-> N.hashless, hashing |-> N.hashing, meta |-> N.meta \cup {<<v, o>>},
   sched |-> N.sched]
HashlessOf(N, o) ==
  [obj |-> [N.obj EXCEPT ![o] = [N.obj[o] EXCEPT !.state = "hashless"]], fileMap |-> N.fileMap,
   hashless |-> Append(N.hashless, o), hashing |-> N.hashing, meta |-> N.meta, sched |-> TRUE]

LEMMA HashedIs ==
  ASSUME NEW N, IsMem(N), NEW o \in DOMAIN N.obj, NEW v
  PROVE  Index!EnterHashed(N, o, v) = HashedOf(N, o, v)
<1>0. PICK O, m, q, h, t, s : /\ O = N.obj /\ m = N.fileMap /\ q = N.hashless /\ h = N.hashing /\ t = N.meta
                              /\ s = N.sched
  OBVIOUS
<1> N = [obj |-> O, fileMap |-> m, hashless |-> q, hashing |-> h, meta |-> t, sched |-> s] /\ o \in DOMAIN O
  BY <1>0 DEF IsMem
<1>1. PICK b, e : b = O[o] /\ e = [b EXCEPT !.state = "hashed", !.hash = v, !.fails = 0]
  OBVIOUS
<1>2. PICK F, c : F = [N EXCEPT !.obj[o].state = "hashed"] /\ c = [b EXCEPT !.state = "hashed"]
  OBVIOUS
<1>3. F = [N EXCEPT !.obj = [O EXCEPT ![o] = c]]
  BY <1>1, <1>2
<1>4. PICK G, d : G = [F EXCEPT !.obj[o].hash = v] /\ d = [c EXCEPT !.hash = v]
  OBVIOUS
<1>5. G = [N EXCEPT !.obj = [O EXCEPT ![o] = d]]
  BY <1>3, <1>4
<1>6. e = [d EXCEPT !.fails = 0]
  BY <1>1, <1>2, <1>4
<1>7. PICK H, u, k : H = [G EXCEPT !.obj[o].fails = 0] /\ u = [O EXCEPT ![o] = e] /\ k = {<<v, o>>}
  OBVIOUS
<1>8. H = [N EXCEPT !.obj = u]
  BY <1>5, <1>6, <1>7
<1>9. H = [obj |-> u, fileMap |-> m, hashless |-> q, hashing |-> h, meta |-> t, sched |-> s]
  BY <1>8
<1>10. PICK w : w = t \cup k
  OBVIOUS
<1>11. [H EXCEPT !.meta = w] = [obj |-> u, fileMap |-> m, hashless |-> q, hashing |-> h, meta |-> w, sched |-> s]
  BY <1>9
<1>12. [H EXCEPT !.meta = @ \cup k] = [H EXCEPT !.meta = w]
  BY <1>9, <1>10
<1>13. Index!EnterHashed(N, o, v) = [H EXCEPT !.meta = @ \cup k]
  BY <1>2, <1>4, <1>7 DEF Index!EnterHashed
<1> QED BY <1>0, <1>1, <1>7, <1>10, <1>11, <1>12, <1>13 DEF HashedOf

LEMMA HashlessIs ==
  ASSUME NEW N, IsMem(N), NEW o \in DOMAIN N.obj
  PROVE  Index!EnterHashless(N, o) = HashlessOf(N, o)
<1>0. PICK O, m, q, h, t, s : /\ O = N.obj /\ m = N.fileMap /\ q = N.hashless /\ h = N.hashing /\ t = N.meta
                              /\ s = N.sched
  OBVIOUS
<1> N = [obj |-> O, fileMap |-> m, hashless |-> q, hashing |-> h, meta |-> t, sched |-> s] /\ o \in DOMAIN O
  BY <1>0 DEF IsMem
<1>1. PICK c, k : c = [O[o] EXCEPT !.state = "hashless"] /\ k = Append(q, o)
  OBVIOUS
<1>2. PICK F : F = [N EXCEPT !.obj[o].state = "hashless"]
  OBVIOUS
<1>3. F = [obj |-> [O EXCEPT ![o] = c], fileMap |-> m, hashless |-> q, hashing |-> h, meta |-> t, sched |-> s]
  BY <1>1, <1>2
<1>4. PICK G : G = [F EXCEPT !.hashless = k]
  OBVIOUS
<1>5. G = [obj |-> [O EXCEPT ![o] = c], fileMap |-> m, hashless |-> k, hashing |-> h, meta |-> t, sched |-> s]
  BY <1>3, <1>4
<1>6. [N EXCEPT !.obj[o].state = "hashless", !.hashless = Append(@, o)] = G
  BY <1>1, <1>2, <1>3, <1>4
<1>7. Index!EnterHashless(N, o) = [G EXCEPT !.sched = TRUE]
  BY <1>6 DEF Index!EnterHashless, Index!Asked
<1> QED BY <1>0, <1>1, <1>5, <1>7 DEF HashlessOf

CreateOf(M, d, x, n, C) ==
  /\ C.obj = Append(M.obj, Born(d, x)) /\ C.fileMap = [M.fileMap EXCEPT ![x.uuid] = n]
  /\ C.hashless = IF x.hash = <<>> THEN Append(M.hashless, n) ELSE M.hashless
  /\ C.hashing = M.hashing
  /\ C.meta = IF x.hash = <<>> THEN M.meta ELSE M.meta \cup {<<x.hash, n>>}
  /\ C.sched \in BOOLEAN
  /\ C = [obj |-> C.obj, fileMap |-> C.fileMap, hashless |-> C.hashless, hashing |-> C.hashing,
          meta |-> C.meta, sched |-> C.sched]
LEMMA CreateIs ==
  ASSUME NEW M \in Mems, NEW d \in Dirs, NEW x \in Listed, NEW C, C = Index!Create(M, d, x), NEW n, n = Len(M.obj) + 1
  PROVE  CreateOf(M, d, x, n, C)
<1>1. PICK b : b = [uuid |-> x.uuid, dir |-> d, name |-> x.name, hash |-> x.hash, state |-> "hashless",
                    fails |-> 0, work |-> Index!Resting]
  OBVIOUS
<1>2. PICK N : N = [M EXCEPT !.obj = Append(@, b), !.fileMap[x.uuid] = n]
  OBVIOUS
<1>3. C = IF x.hash = <<>> THEN Index!EnterHashless(N, n) ELSE Index!EnterHashed(N, n, x.hash)
  BY <1>1, <1>2 DEF Index!Create, Index!NoHash
<1>4. PICK Q, m, z : Q = Append(M.obj, b) /\ m = [M.fileMap EXCEPT ![x.uuid] = n] /\ z = Len(M.obj)
  OBVIOUS
<1>5. /\ M = [obj |-> M.obj, fileMap |-> M.fileMap, hashless |-> M.hashless, hashing |-> M.hashing,
              meta |-> M.meta, sched |-> M.sched]
      /\ M.sched \in BOOLEAN /\ M.obj \in Seq(FileRecs) /\ M.fileMap \in [Files -> Nat]
  BY DEF Mems
<1>6. N = [obj |-> Q, fileMap |-> m, hashless |-> M.hashless, hashing |-> M.hashing,
           meta |-> M.meta, sched |-> M.sched]
  BY <1>2, <1>4, <1>5
<1>7. /\ z \in Nat /\ n = z + 1 /\ DOMAIN Q = 1 .. n /\ Len(Q) = n /\ Q[n] = b
      /\ \A p \in 1 .. z : Q[p] = M.obj[p]
  BY <1>4, <1>5
<1>8. ASSUME NEW c PROVE [Q EXCEPT ![n] = c] = Append(M.obj, c)
  <2>1. PICK F, G : F = [Q EXCEPT ![n] = c] /\ G = Append(M.obj, c)
    OBVIOUS
  <2>2. DOMAIN F = 1 .. n /\ F[n] = c /\ \A p \in 1 .. z : F[p] = M.obj[p]
    BY <1>7, <2>1
  <2>3. G = [i \in 1 .. n |-> IF i = n THEN c ELSE M.obj[i]]
    <3>1. G = [i \in 1 .. (z + 1) |-> IF i = z + 1 THEN c ELSE M.obj[i]]
      BY <1>4, <2>1 DEF Append
    <3> QED BY <1>7, <3>1
  <2>4. F = [i \in 1 .. n |-> F[i]]
    BY <2>1, <2>2
  <2>5. \A i \in 1 .. n : F[i] = IF i = n THEN c ELSE M.obj[i]
    BY <1>7, <2>2
  <2> QED BY <2>1, <2>3, <2>4, <2>5
<1>9. n \in DOMAIN Q /\ Q[n] = b
  BY <1>7
<1>10. CASE x.hash = <<>>
  <2>1. C = [obj |-> [Q EXCEPT ![n] = [Q[n] EXCEPT !.state = "hashless"]], fileMap |-> m,
             hashless |-> Append(M.hashless, n), hashing |-> M.hashing, meta |-> M.meta, sched |-> TRUE]
    <3>1. C = Index!EnterHashless(N, n)
      BY <1>3, <1>10
    <3>2. Index!EnterHashless(N, n) =
            [obj |-> [Q EXCEPT ![n] = [Q[n] EXCEPT !.state = "hashless"]], fileMap |-> m,
             hashless |-> Append(M.hashless, n), hashing |-> M.hashing, meta |-> M.meta, sched |-> TRUE]
      <4>1. IsMem(N) /\ n \in DOMAIN N.obj
        BY <1>6, <1>9 DEF IsMem
      <4>2. Index!EnterHashless(N, n) = HashlessOf(N, n)
        BY <4>1, HashlessIs
      <4> QED BY <1>6, <4>2 DEF HashlessOf
    <3> QED BY <3>1, <3>2
  <2>2. [b EXCEPT !.state = "hashless"] = Born(d, x)
    BY <1>1, <1>10 DEF Born
  <2>3. [Q EXCEPT ![n] = Born(d, x)] = Append(M.obj, Born(d, x))
    BY <1>8
  <2>4. C.obj = Append(M.obj, Born(d, x))
    BY <1>9, <2>1, <2>2, <2>3
  <2> QED BY <1>4, <1>10, <2>1, <2>4 DEF CreateOf
<1>11. CASE x.hash # <<>>
  <2>1. C = [obj |-> [Q EXCEPT ![n] = [Q[n] EXCEPT !.state = "hashed", !.hash = x.hash, !.fails = 0]],
             fileMap |-> m, hashless |-> M.hashless, hashing |-> M.hashing,
             meta |-> M.meta \cup {<<x.hash, n>>}, sched |-> M.sched]
    <3>1. C = Index!EnterHashed(N, n, x.hash)
      BY <1>3, <1>11
    <3>2. Index!EnterHashed(N, n, x.hash) =
            [obj |-> [Q EXCEPT ![n] = [Q[n] EXCEPT !.state = "hashed", !.hash = x.hash, !.fails = 0]],
             fileMap |-> m, hashless |-> M.hashless, hashing |-> M.hashing,
             meta |-> M.meta \cup {<<x.hash, n>>}, sched |-> M.sched]
      <4>1. IsMem(N) /\ n \in DOMAIN N.obj
        BY <1>6, <1>9 DEF IsMem
      <4>2. Index!EnterHashed(N, n, x.hash) = HashedOf(N, n, x.hash)
        BY <4>1, HashedIs
      <4> QED BY <1>6, <4>2 DEF HashedOf
    <3> QED BY <3>1, <3>2
  <2>2. [b EXCEPT !.state = "hashed", !.hash = x.hash, !.fails = 0] = Born(d, x)
    <3>1. PICK u, y, v, w : u = x.uuid /\ y = x.name /\ v = x.hash /\ w = Index!Resting
      OBVIOUS
    <3>2. b = [uuid |-> u, dir |-> d, name |-> y, hash |-> v, state |-> "hashless", fails |-> 0, work |-> w]
      BY <1>1, <3>1
    <3>3. PICK c : c = [b EXCEPT !.state = "hashed"]
      OBVIOUS
    <3>4. c = [uuid |-> u, dir |-> d, name |-> y, hash |-> v, state |-> "hashed", fails |-> 0, work |-> w]
      BY <3>2, <3>3
    <3>5. [c EXCEPT !.hash = v] = c /\ [c EXCEPT !.fails = 0] = c
      BY <3>4
    <3>6. [b EXCEPT !.state = "hashed", !.hash = v, !.fails = 0] = c
      BY <3>3, <3>5
    <3>7. c = Born(d, x)
      BY <1>11, <3>1, <3>4 DEF Born
    <3> QED BY <3>1, <3>6, <3>7
  <2>3. [Q EXCEPT ![n] = Born(d, x)] = Append(M.obj, Born(d, x))
    BY <1>8
  <2>4. C.obj = Append(M.obj, Born(d, x))
    BY <1>9, <2>1, <2>2, <2>3
  <2> QED BY <1>4, <1>5, <1>11, <2>1, <2>4 DEF CreateOf
<1> QED BY <1>10, <1>11

\* A file that is nowhere in the index is made.
LEMMA Created ==
  ASSUME NEW M, Ruled(M), NEW d \in Dirs, NEW x \in Listed, M.fileMap[x.uuid] = 0, NEW C, C = Index!Create(M, d, x)
  PROVE  Ruled(C) /\ C.obj = Append(M.obj, Born(d, x))
<1>1. PICK O, b, n : O = M.obj /\ b = Born(d, x) /\ n = Len(O) + 1
  OBVIOUS
<1>2. /\ M \in Mems /\ O \in Seq(FileRecs) /\ b \in FileRecs /\ b.work.phase = "none"
      /\ b.uuid = x.uuid /\ x.uuid \in Files /\ b.hash = x.hash
      /\ b.state = IF x.hash = <<>> THEN "hashless" ELSE "hashed"
      /\ M.fileMap \in [Files -> Nat] /\ M.hashless \in Seq(Nat)
  <2>1. M \in Mems /\ O \in Seq(FileRecs) /\ M.fileMap \in [Files -> Nat] /\ M.hashless \in Seq(Nat)
    BY <1>1 DEF Ruled, Mems
  <2>2. b \in FileRecs /\ b.work.phase = "none"
    BY <1>1, BornIs
  <2>3. b.uuid = x.uuid /\ b.hash = x.hash /\ b.state = IF x.hash = <<>> THEN "hashless" ELSE "hashed"
    BY <1>1 DEF Born
  <2>4. x.uuid \in Files
    BY DEF Listed
  <2> QED BY <2>1, <2>2, <2>3, <2>4
<1>3. CreateOf(M, d, x, n, C)
  BY <1>1, <1>2, CreateIs
<1>4. PICK Q, m : Q = Append(O, b) /\ m = [M.fileMap EXCEPT ![x.uuid] = n]
  OBVIOUS
<1>5. /\ C.obj = Q /\ C.fileMap = m
      /\ C.hashless = IF x.hash = <<>> THEN Append(M.hashless, n) ELSE M.hashless
      /\ C.hashing = M.hashing
      /\ C.meta = IF x.hash = <<>> THEN M.meta ELSE M.meta \cup {<<x.hash, n>>}
      /\ C.sched \in BOOLEAN
      /\ C = [obj |-> C.obj, fileMap |-> C.fileMap, hashless |-> C.hashless, hashing |-> C.hashing,
              meta |-> C.meta, sched |-> C.sched]
  BY <1>1, <1>3, <1>4 DEF CreateOf
<1>6. /\ Q \in Seq(FileRecs) /\ DOMAIN Q = DOMAIN O \cup {n} /\ n \notin DOMAIN O /\ n \in Nat \ {0}
      /\ Q[n] = b /\ \A p \in DOMAIN O : Q[p] = O[p]
  BY <1>1, <1>2, <1>4, FileMade
<1>7. \A s : In(O, s) \subseteq DOMAIN O
  BY DEF In
<1>8. m \in [Files -> Nat] /\ Mapped(Q, m)
  <2>1. Mapped(O, M.fileMap)
    BY <1>1 DEF Ruled
  <2>2. m \in [Files -> Nat] /\ m[x.uuid] = n /\ \A f \in Files : f # x.uuid => m[f] = M.fileMap[f]
    BY <1>2, <1>4, <1>6
  <2>3. ASSUME NEW p \in DOMAIN O, O[p].state # "gone" PROVE m[O[p].uuid] = p
    <3>1. O[p] \in FileRecs /\ p # 0
      BY <1>2
    <3>2. O[p].uuid \in Files /\ M.fileMap[O[p].uuid] = p /\ O[p].uuid # x.uuid
      BY <2>1, <2>3, <3>1 DEF Mapped, FileRecs
    <3> QED BY <2>2, <3>2
  <2>4. \A p \in DOMAIN Q : Q[p].state # "gone" => m[Q[p].uuid] = p
    BY <1>2, <1>6, <2>2, <2>3
  <2>5. ASSUME NEW f \in Files, m[f] # 0 PROVE m[f] \in DOMAIN Q /\ Q[m[f]].state # "gone" /\ Q[m[f]].uuid = f
    <3>1. CASE f = x.uuid
      BY <1>2, <1>6, <2>2, <3>1
    <3>2. CASE f # x.uuid
      BY <1>6, <2>1, <2>2, <2>5, <3>2 DEF Mapped
    <3> QED BY <3>1, <3>2
  <2> QED BY <2>2, <2>4, <2>5 DEF Mapped
<1>9. C.hashless \in Seq(Nat) /\ Queued(In(Q, "hashless"), C.hashless)
  <2>1. Queued(In(O, "hashless"), M.hashless)
    BY <1>1 DEF Ruled
  <2>2. CASE x.hash = <<>>
    <3>1. In(Q, "hashless") = In(O, "hashless") \cup {n} /\ n \notin In(O, "hashless")
      BY <1>2, <1>6, <2>2 DEF In
    <3>2. C.hashless = Append(M.hashless, n)
      BY <1>5, <2>2
    <3>3. PICK S, q : S = In(O, "hashless") /\ q = M.hashless
      OBVIOUS
    <3>4. q \in Seq(Nat) /\ Queued(S, q) /\ n \in Nat /\ n \notin S
      BY <1>2, <1>6, <2>1, <3>1, <3>3
    <3>5. Append(q, n) \in Seq(Nat) /\ Queued(S \cup {n}, Append(q, n))
      BY <3>4, QueueGets
    <3> QED BY <3>1, <3>2, <3>3, <3>5
  <2>3. CASE x.hash # <<>>
    <3>1. In(Q, "hashless") = In(O, "hashless")
      BY <1>2, <1>6, <2>3 DEF In
    <3> QED BY <1>2, <1>5, <2>1, <2>3, <3>1
  <2> QED BY <2>2, <2>3
<1>10. Worked(In(Q, "hashing"), C.hashing)
  <2>1. In(Q, "hashing") = In(O, "hashing")
    BY <1>2, <1>6 DEF In
  <2> QED BY <1>1, <1>5, <2>1 DEF Ruled
<1>11. Sorted(Q, C.meta)
  <2>1. M.meta = {<<O[p].hash, p>> : p \in In(O, "hashed")}
    BY <1>1 DEF Ruled, Sorted
  <2>2. \A p \in In(O, "hashed") : Q[p] = O[p]
    BY <1>6, <1>7
  <2>3. PICK I, J : I = In(O, "hashed") /\ J = In(Q, "hashed")
    OBVIOUS
  <2>4. CASE x.hash = <<>>
    <3>1. J = I
      BY <1>2, <1>6, <2>3, <2>4 DEF In
    <3> QED BY <1>5, <2>1, <2>2, <2>3, <2>4, <3>1 DEF Sorted
  <2>5. CASE x.hash # <<>>
    <3>1. J = I \cup {n}
      BY <1>2, <1>6, <2>3, <2>5 DEF In
    <3>2. C.meta = M.meta \cup {<<x.hash, n>>}
      BY <1>5, <2>5
    <3>3. {<<Q[p].hash, p>> : p \in J} = M.meta \cup {<<x.hash, n>>}
      BY <1>2, <1>6, <2>1, <2>2, <2>3, <3>1
    <3> QED BY <2>3, <3>2, <3>3 DEF Sorted
  <2> QED BY <2>4, <2>5
<1>12. \A p \in DOMAIN Q : Phased(Q[p])
  <2>1. \A p \in DOMAIN O : Phased(O[p])
    BY <1>1 DEF Ruled
  <2> QED BY <1>2, <1>6, <2>1 DEF Phased
<1>13. Ruled(C)
  BY <1>5, <1>6, <1>8, <1>9, <1>10, <1>11, <1>12, RuledParts
<1> QED BY <1>1, <1>4, <1>5, <1>13

\* A set of numbers has a smallest one.
LEMMA Least ==
  ASSUME NEW K \in SUBSET Nat, K # {}
  PROVE  \E m \in K : \A l \in K : m <= l
<1> DEFINE R == {p \in Nat \X Nat : p[1] < p[2]}
<1>1. IsWellFoundedOn(R, Nat)
  BY NatLessThanWellFounded DEF OpToRel
<1>2. PICK m \in K : \A l \in K : ~(<<l, m>> \in R)
  BY <1>1, WFMin
<1>3. ASSUME NEW l \in K PROVE m <= l
  <2>1. ~(l < m)
    BY <1>2
  <2> QED BY <2>1
<1> QED BY <1>3

\* What holds of the memory and is kept at every object holds when all are seen.
SeenAt(M, d, L, i, N) == IF i \in Index!In(M, d) THEN Index!Renewed(N, i, d, L) ELSE N
LEMMA UpdatedInduction ==
  ASSUME NEW M, NEW n \in Nat, n = Len(M.obj), NEW d, NEW L, NEW P, M \in P[0],
         \A i \in 1 .. n : \A N \in P[i - 1] : SeenAt(M, d, L, i, N) \in P[i]
  PROVE  Index!Updated(M, d, L) \in P[n]
<1> DEFINE Runs(f, k) == f = [i \in 0 .. k |-> IF i = 0 THEN M ELSE SeenAt(M, d, L, i, f[i - 1])]
<1>1. \E f : Runs(f, 0)
  <2>1. Runs([i \in 0 .. 0 |-> M], 0)
    OBVIOUS
  <2> QED BY <2>1
<1>2. ASSUME NEW k \in Nat, NEW f, Runs(f, k) PROVE \E g : Runs(g, k + 1)
  <2> DEFINE g == [i \in 0 .. k + 1 |-> IF i <= k THEN f[i] ELSE SeenAt(M, d, L, k + 1, f[k])]
  <2>1. ASSUME NEW i \in 0 .. k + 1
        PROVE  g[i] = IF i = 0 THEN M ELSE SeenAt(M, d, L, i, g[i - 1])
    <3>1. CASE i <= k
      <4>1. g[i] = f[i] /\ i \in 0 .. k /\ (i # 0 => g[i - 1] = f[i - 1])
        BY <3>1
      <4>2. f[i] = IF i = 0 THEN M ELSE SeenAt(M, d, L, i, f[i - 1])
        BY <1>2, <4>1
      <4> QED BY <4>1, <4>2
    <3>2. CASE ~(i <= k)
      <4>1. i = k + 1 /\ i # 0 /\ i - 1 = k /\ g[k] = f[k]
        BY <3>2
      <4> QED BY <3>2, <4>1
    <3> QED BY <3>1, <3>2
  <2>2. g = [i \in 0 .. k + 1 |-> g[i]]
    OBVIOUS
  <2> HIDE DEF g
  <2>3. Runs(g, k + 1)
    BY <2>1, <2>2
  <2> QED BY <2>3
<1> HIDE DEF Runs
<1>3. \A k \in Nat : \E f : Runs(f, k)
  <2> DEFINE K == {k \in Nat : ~\E f : Runs(f, k)}
  <2> SUFFICES ASSUME K # {} PROVE FALSE
    OBVIOUS
  <2>1. PICK m \in K : \A l \in K : m <= l
    BY Least
  <2>2. m # 0 /\ m \in Nat
    BY <1>1
  <2>3. m - 1 \in Nat /\ m - 1 \notin K /\ m = (m - 1) + 1
    BY <2>1, <2>2
  <2>4. PICK f : Runs(f, m - 1)
    BY <2>3
  <2>5. \E g : Runs(g, m)
    BY <1>2, <2>3, <2>4
  <2> QED BY <2>5
<1>4. PICK T : Runs(T, n) /\ Index!Updated(M, d, L) = T[n]
  <2> DEFINE T == CHOOSE T : Runs(T, n)
  <2>1. Runs(T, n)
    BY <1>3
  <2>2. Index!Updated(M, d, L) = T[n]
    BY DEF Index!Updated, SeenAt, Runs
  <2> QED BY <2>1, <2>2
<1>5. \A i \in 0 .. n : T[i] \in P[i]
  <2> DEFINE K == {k \in 0 .. n : T[k] \notin P[k]}
  <2> SUFFICES ASSUME K # {} PROVE FALSE
    OBVIOUS
  <2>0. K \in SUBSET Nat
    OBVIOUS
  <2>1. PICK m \in K : \A l \in K : m <= l
    BY <2>0, Least
  <2>2. T[0] = M /\ \A i \in 1 .. n : T[i] = SeenAt(M, d, L, i, T[i - 1])
    <3>1. T = [i \in 0 .. n |-> IF i = 0 THEN M ELSE SeenAt(M, d, L, i, T[i - 1])]
      BY <1>4 DEF Runs
    <3>2. \A i \in 0 .. n : T[i] = IF i = 0 THEN M ELSE SeenAt(M, d, L, i, T[i - 1])
      BY <3>1, Zenon
    <3>3. 0 \in 0 .. n /\ \A i \in 1 .. n : i \in 0 .. n /\ i # 0
      OBVIOUS
    <3> QED BY <3>2, <3>3, Zenon
  <2>3. m \in 1 .. n /\ m - 1 \in 0 .. n /\ m - 1 \notin K
    BY <2>1, <2>2
  <2>4. T[m - 1] \in P[m - 1]
    BY <2>3
  <2> QED BY <2>2, <2>3, <2>4
<1> QED BY <1>4, <1>5

\* The same of those that are new.
LEMMA AddedInduction ==
  ASSUME NEW M, NEW d, NEW L, NEW new, new = Index!SetToSeq(Index!New(M, d, L)), NEW n \in Nat, n = Len(new), NEW P, M \in P[0],
         \A i \in 1 .. n : \A N \in P[i - 1] : Index!Indexed(N, d, new[i]) \in P[i]
  PROVE  Index!Added(M, d, L) \in P[n]
<1> DEFINE Runs(f, k) == f = [i \in 0 .. k |-> IF i = 0 THEN M ELSE Index!Indexed(f[i - 1], d, new[i])]
<1>1. \E f : Runs(f, 0)
  <2>1. Runs([i \in 0 .. 0 |-> M], 0)
    OBVIOUS
  <2> QED BY <2>1
<1>2. ASSUME NEW k \in Nat, NEW f, Runs(f, k) PROVE \E g : Runs(g, k + 1)
  <2> DEFINE g == [i \in 0 .. k + 1 |-> IF i <= k THEN f[i] ELSE Index!Indexed(f[k], d, new[k + 1])]
  <2>1. ASSUME NEW i \in 0 .. k + 1
        PROVE  g[i] = IF i = 0 THEN M ELSE Index!Indexed(g[i - 1], d, new[i])
    <3>1. CASE i <= k
      <4>1. g[i] = f[i] /\ i \in 0 .. k /\ (i # 0 => g[i - 1] = f[i - 1])
        BY <3>1
      <4>2. f[i] = IF i = 0 THEN M ELSE Index!Indexed(f[i - 1], d, new[i])
        BY <1>2, <4>1
      <4> QED BY <4>1, <4>2
    <3>2. CASE ~(i <= k)
      <4>1. i = k + 1 /\ i # 0 /\ i - 1 = k /\ g[k] = f[k]
        BY <3>2
      <4> QED BY <3>2, <4>1
    <3> QED BY <3>1, <3>2
  <2>2. g = [i \in 0 .. k + 1 |-> g[i]]
    OBVIOUS
  <2> HIDE DEF g
  <2>3. Runs(g, k + 1)
    BY <2>1, <2>2
  <2> QED BY <2>3
<1> HIDE DEF Runs
<1>3. \A k \in Nat : \E f : Runs(f, k)
  <2> DEFINE K == {k \in Nat : ~\E f : Runs(f, k)}
  <2> SUFFICES ASSUME K # {} PROVE FALSE
    OBVIOUS
  <2>1. PICK m \in K : \A l \in K : m <= l
    BY Least
  <2>2. m # 0 /\ m \in Nat
    BY <1>1
  <2>3. m - 1 \in Nat /\ m - 1 \notin K /\ m = (m - 1) + 1
    BY <2>1, <2>2
  <2>4. PICK f : Runs(f, m - 1)
    BY <2>3
  <2>5. \E g : Runs(g, m)
    BY <1>2, <2>3, <2>4
  <2> QED BY <2>5
<1>4. PICK T : Runs(T, n) /\ Index!Added(M, d, L) = T[n]
  <2> DEFINE T == CHOOSE T : Runs(T, n)
  <2>1. Runs(T, n)
    BY <1>3
  <2>2. Index!Added(M, d, L) = T[n]
    BY DEF Index!Added, Runs
  <2> QED BY <2>1, <2>2
<1>5. \A i \in 0 .. n : T[i] \in P[i]
  <2> DEFINE K == {k \in 0 .. n : T[k] \notin P[k]}
  <2> SUFFICES ASSUME K # {} PROVE FALSE
    OBVIOUS
  <2>0. K \in SUBSET Nat
    OBVIOUS
  <2>1. PICK m \in K : \A l \in K : m <= l
    BY <2>0, Least
  <2>2. T[0] = M /\ \A i \in 1 .. n : T[i] = Index!Indexed(T[i - 1], d, new[i])
    BY <1>4 DEF Runs
  <2>3. m \in 1 .. n /\ m - 1 \in 0 .. n /\ m - 1 \notin K
    BY <2>1, <2>2
  <2>4. T[m - 1] \in P[m - 1]
    BY <2>3
  <2> QED BY <2>2, <2>3, <2>4
<1> QED BY <1>4, <1>5

LEMMA Counts == \A S : Index!Cardinality(S) = Cardinality(S)
BY DEF Index!Cardinality, Cardinality

\* A finite set in some order.
LEMMA OrderIs ==
  ASSUME NEW S, IsFiniteSet(S), NEW q, q = Index!SetToSeq(S)
  PROVE  Len(q) \in Nat /\ \A i \in 1 .. Len(q) : q[i] \in S
<1>1. PICK n : n = Cardinality(S) /\ n \in Nat
  BY FS_CardinalityType
<1>2. \E f \in [1 .. n -> S] : Index!IsInjective(f)
  <2>1. PICK f \in Bijection(1 .. n, S) : TRUE
    BY <1>1, FS_CardinalityType DEF ExistsBijection
  <2>2. f \in [1 .. n -> S] /\ IsInjective(f)
    BY <2>1 DEF Bijection, Injection
  <2> QED BY <2>2 DEF IsInjective, Index!IsInjective
<1>3. q = CHOOSE f \in [1 .. n -> S] : Index!IsInjective(f)
  BY <1>1, Counts DEF Index!SetToSeq
<1>4. q \in [1 .. n -> S]
  BY <1>2, <1>3
<1>5. q \in Seq(S) /\ Len(q) = n
  BY <1>1, <1>4
<1> QED BY <1>1, <1>4, <1>5

\* The memory holds, and every object is one of K.
Of(M, K) == Ruled(M) /\ \A o \in DOMAIN M.obj : M.obj[o] \in K
\* K holds with an object what it becomes when it is destroyed, and those made of L.
Closed(K) == K \subseteq FileRecs /\ \A b \in K : Phased(b) => Ended(b) \in K
Bears(K, d, L) == \A x \in L : Born(d, x) \in K

LEMMA CreateOn ==
  ASSUME NEW K, NEW d \in Dirs, NEW N, Of(N, K),
         NEW x \in Listed, Born(d, x) \in K, N.fileMap[x.uuid] = 0, NEW C, C = Index!Create(N, d, x)
  PROVE  Of(C, K) /\ C.obj = Append(N.obj, Born(d, x))
<1>1. Ruled(N) /\ x \in Listed /\ N.obj \in Seq(FileRecs) /\ Born(d, x) \in FileRecs /\ Born(d, x) \in K
  BY BornIs DEF Of, Ruled, Mems
<1>2. Ruled(C) /\ C.obj = Append(N.obj, Born(d, x))
  BY <1>1, Created
<1>3. PICK n : n = Len(N.obj) + 1
  OBVIOUS
<1>4. /\ DOMAIN C.obj = DOMAIN N.obj \cup {n} /\ C.obj[n] = Born(d, x)
      /\ \A p \in DOMAIN N.obj : C.obj[p] = N.obj[p]
  BY <1>1, <1>2, <1>3, FileMade
<1>5. \A p \in DOMAIN C.obj : C.obj[p] \in K
  BY <1>1, <1>4 DEF Of
<1> QED BY <1>2, <1>5 DEF Of

LEMMA DestroyOn ==
  ASSUME Index!Inputs, NEW K, Closed(K), NEW N, Of(N, K),
         NEW o \in DOMAIN N.obj, N.obj[o].state # "gone", NEW D, D = Index!Destroy(N, o)
  PROVE  /\ Of(D, K) /\ D.fileMap[N.obj[o].uuid] = 0
         /\ D.obj \in Seq(FileRecs) /\ Len(D.obj) = Len(N.obj)
         /\ DOMAIN D.obj = DOMAIN N.obj /\ \A p \in DOMAIN N.obj : p # o => D.obj[p] = N.obj[p]
<1>1. PICK O, b, c : O = N.obj /\ b = N.obj[o] /\ c = Ended(b)
  OBVIOUS
<1>2. O \in Seq(FileRecs) /\ b \in FileRecs /\ b \in K /\ Phased(b) /\ b.state # "gone" /\ Ruled(N) /\ o \in DOMAIN O
  <2>1. O \in Seq(FileRecs) /\ b \in K /\ Phased(b) /\ b.state # "gone" /\ Ruled(N) /\ o \in DOMAIN O
    BY <1>1 DEF Of, Ruled, Mems
  <2> QED BY <2>1 DEF Closed
<1>3. c \in FileRecs /\ c \in K
  BY <1>1, <1>2, EndedIs DEF Closed
<1>4. Ruled(D) /\ D.obj = [O EXCEPT ![o] = c] /\ D.fileMap[N.obj[o].uuid] = 0
  BY <1>1, <1>2, Destroyed
<1>5. /\ D.obj \in Seq(FileRecs) /\ DOMAIN D.obj = DOMAIN O /\ Len(D.obj) = Len(O)
      /\ D.obj[o] = c /\ \A p \in DOMAIN O : p # o => D.obj[p] = O[p]
  BY <1>2, <1>3, <1>4, FileChanged
<1>6. \A p \in DOMAIN D.obj : D.obj[p] \in K
  BY <1>1, <1>3, <1>5 DEF Of
<1> QED BY <1>1, <1>4, <1>5, <1>6 DEF Of

\* One object of a directory that was read.
Forward(N, o, S) == /\ DOMAIN N.obj \subseteq DOMAIN S.obj
                    /\ \A p \in DOMAIN N.obj : p # o => S.obj[p] = N.obj[p]
LEMMA SeenOn ==
  ASSUME Index!Inputs, NEW K, NEW d \in Dirs, NEW L \in SUBSET Listed, Closed(K), Bears(K, d, L), NEW M, NEW N, Of(N, K),
         NEW o \in DOMAIN N.obj, o \in DOMAIN M.obj => N.obj[o] = M.obj[o],
         NEW S, S = SeenAt(M, d, L, o, N)
  PROVE  Of(S, K) /\ Forward(N, o, S)
<1>1. CASE o \notin Index!In(M, d)
  BY <1>1 DEF SeenAt, Forward
<1>2. CASE o \in Index!In(M, d)
  <2>1. o \in DOMAIN M.obj /\ N.obj[o] = M.obj[o] /\ N.obj[o].state # "gone"
    BY <1>2 DEF Index!In
  <2>2. S = Index!Renewed(N, o, d, L)
    BY <1>2 DEF SeenAt
  <2>3. PICK X : X = {x \in L : x.uuid = N.obj[o].uuid}
    OBVIOUS
  <2>4. PICK D : D = Index!Destroy(N, o)
    OBVIOUS
  <2>5. /\ Of(D, K) /\ D.fileMap[N.obj[o].uuid] = 0
        /\ D.obj \in Seq(FileRecs) /\ Len(D.obj) = Len(N.obj)
        /\ DOMAIN D.obj = DOMAIN N.obj /\ \A p \in DOMAIN N.obj : p # o => D.obj[p] = N.obj[p]
    BY <2>1, <2>4, DestroyOn
  <2>6. CASE X = {}
    <3>1. S = D
      BY <2>2, <2>3, <2>4, <2>6 DEF Index!Renewed
    <3> QED BY <2>5, <3>1 DEF Forward
  <2>7. CASE X # {} /\ \A x \in X : x.name = N.obj[o].name /\ x.hash = N.obj[o].hash
    <3>1. S = N
      BY <2>2, <2>3, <2>7 DEF Index!Renewed
    <3> QED BY <3>1 DEF Forward
  <2>8. CASE \E x \in X : ~(x.name = N.obj[o].name /\ x.hash = N.obj[o].hash)
    <3>1. PICK x : x = CHOOSE y \in X : TRUE
      OBVIOUS
    <3>2. x \in X /\ x \in L /\ x.uuid = N.obj[o].uuid
      BY <2>3, <2>8, <3>1
    <3>3. S = Index!Create(D, d, x)
      BY <2>2, <2>3, <2>4, <2>8, <3>1 DEF Index!Renewed
    <3>4. Of(S, K) /\ S.obj = Append(D.obj, Born(d, x))
      <4>1. D.fileMap[x.uuid] = 0 /\ x \in Listed /\ Born(d, x) \in K
        BY <2>5, <3>2 DEF Bears
      <4>2. Of(D, K)
        BY <2>5
      <4>3. PICK C : C = Index!Create(D, d, x)
        OBVIOUS
      <4>4. Of(C, K)
        BY <4>1, <4>2, <4>3, CreateOn, Zenon
      <4>5. C.obj = Append(D.obj, Born(d, x))
        <5>1. Ruled(D)
          BY <4>2 DEF Of
        <5> QED BY <4>1, <4>3, <5>1, Created
      <4> QED BY <3>3, <4>3, <4>4, <4>5
    <3>5. Born(d, x) \in FileRecs
      BY <3>2, BornIs
    <3>6. PICK n : n = Len(D.obj) + 1
      OBVIOUS
    <3>7. DOMAIN S.obj = DOMAIN D.obj \cup {n} /\ \A p \in DOMAIN D.obj : S.obj[p] = D.obj[p]
      BY <2>5, <3>4, <3>5, <3>6, FileMade
    <3> QED BY <2>5, <3>4, <3>7 DEF Forward
  <2> QED BY <2>6, <2>7, <2>8
<1> QED BY <1>1, <1>2

\* A directory that was read is in the index as the reading found it, to the last object.
LEMMA UpdatedOn ==
  ASSUME Index!Inputs, NEW K, NEW d \in Dirs, NEW L \in SUBSET Listed, Closed(K), Bears(K, d, L), NEW M, Of(M, K)
  PROVE  Of(Index!Updated(M, d, L), K)
<1>1. PICK n : n = Len(M.obj) /\ n \in Nat /\ DOMAIN M.obj = 1 .. n
  <2>1. M.obj \in Seq(FileRecs)
    BY DEF Of, Ruled, Mems
  <2> QED BY <2>1
<1> DEFINE P == [i \in 0 .. n |-> {N \in Mems : /\ Of(N, K) /\ DOMAIN M.obj \subseteq DOMAIN N.obj
                                                /\ \A p \in DOMAIN M.obj : p > i => N.obj[p] = M.obj[p]}]
<1>2. M \in P[0]
  BY <1>1 DEF Of, Ruled
<1>3. ASSUME NEW i \in 1 .. n, NEW N \in P[i - 1] PROVE SeenAt(M, d, L, i, N) \in P[i]
  <2>1. i - 1 \in 0 .. n /\ i \in 0 .. n
    BY <1>1
  <2>2. Of(N, K) /\ DOMAIN M.obj \subseteq DOMAIN N.obj /\ \A p \in DOMAIN M.obj : p > i - 1 => N.obj[p] = M.obj[p]
    BY <1>3, <2>1
  <2>3. i \in DOMAIN M.obj /\ i \in DOMAIN N.obj /\ N.obj[i] = M.obj[i]
    BY <1>1, <2>2
  <2>4. PICK S : S = SeenAt(M, d, L, i, N)
    OBVIOUS
  <2>5. /\ Of(S, K) /\ DOMAIN N.obj \subseteq DOMAIN S.obj
        /\ \A p \in DOMAIN N.obj : p # i => S.obj[p] = N.obj[p]
    <3>1. i \in DOMAIN M.obj => N.obj[i] = M.obj[i]
      BY <2>3
    <3>2. Of(S, K) /\ Forward(N, i, S)
      BY <2>2, <2>3, <2>4, <3>1, SeenOn
    <3> QED BY <3>2 DEF Forward
  <2>6. \A p \in DOMAIN M.obj : p > i => p # i /\ p > i - 1
    BY <1>1
  <2>7. \A p \in DOMAIN M.obj : p > i => S.obj[p] = M.obj[p]
    BY <2>2, <2>5, <2>6
  <2>8. S \in Mems
    BY <2>5 DEF Of, Ruled
  <2> QED BY <2>1, <2>2, <2>4, <2>5, <2>7, <2>8
<1>4. P[n] = {N \in Mems : /\ Of(N, K) /\ DOMAIN M.obj \subseteq DOMAIN N.obj
                           /\ \A p \in DOMAIN M.obj : p > n => N.obj[p] = M.obj[p]}
  BY <1>1
<1> HIDE DEF P
<1>5. Index!Updated(M, d, L) \in P[n]
  BY <1>1, <1>2, <1>3, UpdatedInduction
<1> QED BY <1>4, <1>5

LEMMA AddedOn ==
  ASSUME Index!Inputs, NEW K, NEW d \in Dirs, NEW L \in SUBSET Listed, Closed(K), Bears(K, d, L), IsFiniteSet(L), NEW M, Of(M, K)
  PROVE  Of(Index!Added(M, d, L), K)
<1>1. Index!New(M, d, L) \subseteq L /\ IsFiniteSet(Index!New(M, d, L))
  <2>1. Index!New(M, d, L) \subseteq L
    BY DEF Index!New
  <2> QED BY <2>1, FS_Subset
<1>2. PICK new : new = Index!SetToSeq(Index!New(M, d, L))
  OBVIOUS
<1>3. PICK n : n = Len(new) /\ n \in Nat /\ \A i \in 1 .. n : new[i] \in L
  BY <1>1, <1>2, OrderIs
<1> DEFINE P == [i \in 0 .. n |-> {N \in Mems : Of(N, K)}]
<1>4. M \in P[0]
  BY <1>3 DEF Of, Ruled
<1>5. ASSUME NEW i \in 1 .. n, NEW N \in P[i - 1] PROVE Index!Indexed(N, d, new[i]) \in P[i]
  <2>1. i - 1 \in 0 .. n /\ i \in 0 .. n
    BY <1>3
  <2>2. Of(N, K) /\ N \in Mems
    BY <1>5, <2>1
  <2>3. PICK x : x = new[i] /\ x \in L
    BY <1>3
  <2>4. PICK C : C = Index!Indexed(N, d, x)
    OBVIOUS
  <2>5. CASE Index!Taken(N, d, x)
    BY <2>1, <2>2, <2>3, <2>4, <2>5 DEF Index!Indexed
  <2>6. CASE ~Index!Taken(N, d, x)
    <3>1. C = Index!Create(N, d, x) /\ N.fileMap[x.uuid] = 0
      BY <2>4, <2>6 DEF Index!Indexed, Index!Taken
    <3>2. Of(C, K)
      <4>1. x \in Listed /\ Born(d, x) \in K
        BY <2>3 DEF Bears
      <4> QED BY <2>2, <3>1, <4>1, CreateOn
    <3>3. C \in Mems
      BY <3>2 DEF Of, Ruled
    <3> QED BY <2>1, <2>3, <2>4, <3>2, <3>3
  <2> QED BY <2>5, <2>6
<1>6. P[n] = {N \in Mems : Of(N, K)}
  BY <1>3
<1> HIDE DEF P
<1>7. Index!Added(M, d, L) \in P[n]
  BY <1>2, <1>3, <1>4, <1>5, AddedInduction
<1> QED BY <1>6, <1>7

\* What the callback of a worker makes of an object and of the memory.
Rested(b) == [b EXCEPT !.work = Index!Resting]
Answered(b, ok) ==
  IF ok THEN [Rested(b) EXCEPT !.state = "hashed", !.hash = b.work.hash, !.fails = 0]
  ELSE IF b.fails + 1 > 3 THEN [Rested(b) EXCEPT !.state = "failed", !.fails = 0]
  ELSE [Rested(b) EXCEPT !.fails = b.fails + 1, !.state = "hashless"]
ToldOf(M, o, c, R) ==
  /\ R.obj = [M.obj EXCEPT ![o] = c] /\ R.fileMap = M.fileMap /\ R.hashing = M.hashing \ {o}
  /\ R.hashless = IF c.state = "hashless" THEN Append(M.hashless, o) ELSE M.hashless
  /\ R.meta = IF c.state = "hashed" THEN M.meta \cup {<<c.hash, o>>} ELSE M.meta
  /\ R.sched \in BOOLEAN /\ IsMem(R)

LEMMA AnsweredIs ==
  ASSUME NEW b \in FileRecs, NEW ok \in BOOLEAN, NEW c, c = Answered(b, ok)
  PROVE  /\ c \in FileRecs /\ c.uuid = b.uuid /\ c.work = Index!Resting /\ Index!Resting.phase = "none"
         /\ c.state \in {"hashed", "failed", "hashless"}
         /\ ok => c.state = "hashed" /\ c.hash = b.work.hash
         /\ ~ok => c.state # "hashed" /\ c.hash = b.hash
<1>1. Index!Resting \in WorkRecs /\ Index!Resting.phase = "none"
  BY DEF Index!Resting, Index!NoHash, WorkRecs, Hashes
<1>2. PICK e : e = Rested(b)
  OBVIOUS
<1>3. e \in FileRecs /\ e.uuid = b.uuid /\ e.work = Index!Resting /\ e.hash = b.hash
  BY <1>1, <1>2 DEF Rested, FileRecs
<1>4. b.fails \in Nat /\ b.work.hash \in Hashes
  BY DEF FileRecs, WorkRecs
<1>5. CASE ok
  <2>1. PICK v : v = b.work.hash
    OBVIOUS
  <2>2. c = [e EXCEPT !.state = "hashed", !.hash = v, !.fails = 0]
    BY <1>2, <1>5, <2>1 DEF Answered
  <2>3. c \in FileRecs /\ c.uuid = e.uuid /\ c.work = e.work /\ c.state = "hashed" /\ c.hash = v
    <3>1. PICK e1 : e1 = [e EXCEPT !.state = "hashed"]
      OBVIOUS
    <3>2. e1 \in FileRecs /\ e1.uuid = e.uuid /\ e1.work = e.work /\ e1.state = "hashed"
      BY <1>3, <3>1 DEF FileRecs
    <3>3. PICK e2 : e2 = [e1 EXCEPT !.hash = v]
      OBVIOUS
    <3>4. e2 \in FileRecs /\ e2.uuid = e.uuid /\ e2.work = e.work /\ e2.state = "hashed" /\ e2.hash = v
      BY <1>4, <2>1, <3>2, <3>3 DEF FileRecs
    <3>5. c = [e2 EXCEPT !.fails = 0]
      BY <2>2, <3>1, <3>3
    <3> QED BY <3>4, <3>5 DEF FileRecs
  <2> QED BY <1>1, <1>3, <1>5, <2>1, <2>3
<1>6. CASE ~ok /\ b.fails + 1 > 3
  <2>1. c = [e EXCEPT !.state = "failed", !.fails = 0]
    BY <1>2, <1>6 DEF Answered
  <2>2. c \in FileRecs /\ c.uuid = e.uuid /\ c.work = e.work /\ c.state = "failed" /\ c.hash = e.hash
    <3>1. PICK e1 : e1 = [e EXCEPT !.state = "failed"]
      OBVIOUS
    <3>2. e1 \in FileRecs /\ e1.uuid = e.uuid /\ e1.work = e.work /\ e1.state = "failed" /\ e1.hash = e.hash
      BY <1>3, <3>1 DEF FileRecs
    <3>3. c = [e1 EXCEPT !.fails = 0]
      BY <2>1, <3>1
    <3> QED BY <3>2, <3>3 DEF FileRecs
  <2> QED BY <1>1, <1>3, <1>6, <2>2
<1>7. CASE ~ok /\ ~(b.fails + 1 > 3)
  <2>1. PICK k \in Nat : k = b.fails + 1
    BY <1>4
  <2>2. c = [e EXCEPT !.fails = k, !.state = "hashless"]
    BY <1>2, <1>7, <2>1 DEF Answered
  <2>3. c \in FileRecs /\ c.uuid = e.uuid /\ c.work = e.work /\ c.state = "hashless" /\ c.hash = e.hash
    BY <1>3, <2>1, <2>2 DEF FileRecs
  <2> QED BY <1>1, <1>3, <1>7, <2>3
<1> QED BY <1>5, <1>6, <1>7

LEMMA ToldIs ==
  ASSUME NEW M \in Mems, NEW o \in DOMAIN M.obj, NEW ok \in BOOLEAN, NEW c, c = Answered(M.obj[o], ok),
         NEW R, R = Index!Told(M, o, ok)
  PROVE  ToldOf(M, o, c, R)
<1>1. PICK O, b, e, h : O = M.obj /\ b = M.obj[o] /\ e = Rested(b) /\ h = M.hashing \ {o}
  OBVIOUS
<1>2. /\ M = [obj |-> O, fileMap |-> M.fileMap, hashless |-> M.hashless, hashing |-> M.hashing,
              meta |-> M.meta, sched |-> M.sched]
      /\ M.sched \in BOOLEAN /\ O \in Seq(FileRecs) /\ o \in DOMAIN O /\ b = O[o] /\ b \in FileRecs
  BY <1>1 DEF Mems
<1>3. PICK F : F = [M EXCEPT !.obj[o].work = Index!Resting]
  OBVIOUS
<1>4. F = [obj |-> [O EXCEPT ![o] = e], fileMap |-> M.fileMap, hashless |-> M.hashless, hashing |-> M.hashing,
           meta |-> M.meta, sched |-> M.sched]
  BY <1>1, <1>2, <1>3 DEF Rested
<1>5. PICK N, Q : N = Index!ExitHashing(F, o) /\ Q = [O EXCEPT ![o] = e]
  OBVIOUS
<1>6. N = [obj |-> Q, fileMap |-> M.fileMap, hashless |-> M.hashless, hashing |-> h, meta |-> M.meta, sched |-> TRUE]
  BY <1>1, <1>4, <1>5 DEF Index!ExitHashing, Index!Asked
<1>7. DOMAIN Q = DOMAIN O /\ Q[o] = e /\ o \in DOMAIN Q /\ \A k : [Q EXCEPT ![o] = k] = [O EXCEPT ![o] = k]
  BY <1>2, <1>5
<1>8. IsMem(N) /\ o \in DOMAIN N.obj /\ N.obj[o] = e
  BY <1>6, <1>7 DEF IsMem
<1>9. CASE ok
  <2>1. PICK v : v = b.work.hash
    OBVIOUS
  <2>2. R = HashedOf(N, o, v)
    <3>1. R = Index!EnterHashed(N, o, v)
      BY <1>1, <1>3, <1>5, <1>9, <2>1 DEF Index!Told
    <3> QED BY <1>8, <3>1, HashedIs
  <2>3. c = [e EXCEPT !.state = "hashed", !.hash = v, !.fails = 0]
    BY <1>1, <1>9, <2>1 DEF Answered
  <2>4. R = [obj |-> [Q EXCEPT ![o] = c], fileMap |-> M.fileMap, hashless |-> M.hashless, hashing |-> h,
             meta |-> M.meta \cup {<<v, o>>}, sched |-> TRUE]
    BY <1>6, <1>7, <2>2, <2>3 DEF HashedOf
  <2>5. c.state = "hashed" /\ c.hash = v
    BY <1>1, <1>2, <1>9, <2>1, AnsweredIs
  <2>6. R = [obj |-> [O EXCEPT ![o] = c], fileMap |-> M.fileMap, hashless |-> M.hashless, hashing |-> h,
             meta |-> M.meta \cup {<<c.hash, o>>}, sched |-> TRUE]
    BY <1>7, <2>4, <2>5
  <2> QED BY <1>1, <2>5, <2>6 DEF ToldOf, IsMem
<1>10. CASE ~ok /\ b.fails + 1 > 3
  <2>1. R = [N EXCEPT !.obj[o].state = "failed", !.obj[o].fails = 0]
    BY <1>1, <1>3, <1>5, <1>10 DEF Index!Told, Index!EnterFailed
  <2>2. c = [e EXCEPT !.state = "failed", !.fails = 0]
    BY <1>1, <1>10 DEF Answered
  <2>3. R = [obj |-> [Q EXCEPT ![o] = c], fileMap |-> M.fileMap, hashless |-> M.hashless, hashing |-> h,
             meta |-> M.meta, sched |-> TRUE]
    <3>1. PICK G, a : G = [N EXCEPT !.obj[o].state = "failed"] /\ a = [e EXCEPT !.state = "failed"]
      OBVIOUS
    <3>2. G = [obj |-> [Q EXCEPT ![o] = a], fileMap |-> M.fileMap, hashless |-> M.hashless, hashing |-> h,
               meta |-> M.meta, sched |-> TRUE]
      BY <1>6, <1>7, <3>1
    <3>3. R = [G EXCEPT !.obj[o].fails = 0] /\ c = [a EXCEPT !.fails = 0]
      BY <2>1, <2>2, <3>1
    <3>4. PICK u : u = [Q EXCEPT ![o] = a]
      OBVIOUS
    <3>5. u[o] = a /\ [u EXCEPT ![o] = c] = [Q EXCEPT ![o] = c]
      BY <1>7, <3>4
    <3>6. G.obj = u
      BY <3>2, <3>4
    <3>7. R = [G EXCEPT !.obj = [u EXCEPT ![o] = c]]
      BY <3>3, <3>5, <3>6
    <3> QED BY <3>2, <3>5, <3>7
  <2>4. c.state # "hashed" /\ c.state # "hashless"
    <3>1. e \in FileRecs
      BY <1>1, <1>2 DEF Rested, FileRecs, Index!Resting, Index!NoHash, WorkRecs, Hashes
    <3>2. c.state = "failed"
      BY <2>2, <3>1 DEF FileRecs
    <3> QED BY <3>2
  <2>5. R = [obj |-> [O EXCEPT ![o] = c], fileMap |-> M.fileMap, hashless |-> M.hashless, hashing |-> h,
             meta |-> M.meta, sched |-> TRUE]
    BY <1>7, <2>3
  <2> QED BY <1>1, <2>4, <2>5 DEF ToldOf, IsMem
<1>11. CASE ~ok /\ ~(b.fails + 1 > 3)
  <2>1. PICK k, G, a : k = b.fails + 1 /\ G = [N EXCEPT !.obj[o].fails = k] /\ a = [e EXCEPT !.fails = k]
    OBVIOUS
  <2>2. G = [obj |-> [Q EXCEPT ![o] = a], fileMap |-> M.fileMap, hashless |-> M.hashless, hashing |-> h,
             meta |-> M.meta, sched |-> TRUE]
    BY <1>6, <1>7, <2>1
  <2>3. e.fails = b.fails
    BY <1>1, <1>2 DEF Rested, FileRecs
  <2>4. R = Index!EnterHashless(G, o)
    <3>1. R = Index!EnterHashless([N EXCEPT !.obj[o].fails = @ + 1], o)
      BY <1>1, <1>3, <1>5, <1>11 DEF Index!Told
    <3>2. [N EXCEPT !.obj[o].fails = @ + 1] = G
      BY <1>6, <1>7, <2>1, <2>3
    <3> QED BY <3>1, <3>2
  <2>5. IsMem(G) /\ o \in DOMAIN G.obj /\ G.obj[o] = a
    BY <1>7, <2>2 DEF IsMem
  <2>6. R = HashlessOf(G, o)
    BY <2>4, <2>5, HashlessIs
  <2>7. c = [a EXCEPT !.state = "hashless"]
    BY <1>1, <1>11, <2>1 DEF Answered
  <2>8. R = [obj |-> [O EXCEPT ![o] = c], fileMap |-> M.fileMap, hashless |-> Append(M.hashless, o), hashing |-> h,
             meta |-> M.meta, sched |-> TRUE]
    BY <1>7, <2>2, <2>5, <2>6, <2>7 DEF HashlessOf
  <2>9. c.state = "hashless"
    <3>1. e \in FileRecs
      BY <1>1, <1>2 DEF Rested, FileRecs, Index!Resting, Index!NoHash, WorkRecs, Hashes
    <3>2. DOMAIN a = DOMAIN e /\ "state" \in DOMAIN e
      BY <2>1, <3>1 DEF FileRecs
    <3> QED BY <2>7, <3>2
  <2> QED BY <1>1, <2>8, <2>9 DEF ToldOf, IsMem
<1> QED BY <1>9, <1>10, <1>11

LEMMA ToldOn ==
  ASSUME Index!Inputs, NEW M, Ruled(M), NEW o \in DOMAIN M.obj, M.obj[o].state = "hashing", NEW ok \in BOOLEAN,
         NEW c, c = Answered(M.obj[o], ok), NEW R, R = Index!Told(M, o, ok)
  PROVE  Ruled(R) /\ R.obj = [M.obj EXCEPT ![o] = c]
<1>1. PICK O, b : O = M.obj /\ b = M.obj[o]
  OBVIOUS
<1>2. /\ M \in Mems /\ O \in Seq(FileRecs) /\ o \in DOMAIN O /\ b = O[o] /\ b \in FileRecs /\ b.state = "hashing"
      /\ M.fileMap \in [Files -> Nat] /\ M.hashless \in Seq(Nat) /\ Workers \in Nat /\ o \in Nat
  <2>1. M \in Mems /\ O \in Seq(FileRecs) /\ o \in DOMAIN O /\ b = O[o] /\ b.state = "hashing"
    BY <1>1 DEF Ruled, Mems
  <2>2. b \in FileRecs /\ o \in Nat
    BY <2>1
  <2> QED BY <2>1, <2>2 DEF Mems, Index!Inputs
<1>3. /\ c \in FileRecs /\ c.uuid = b.uuid /\ c.work = Index!Resting /\ Index!Resting.phase = "none"
      /\ c.state \in {"hashed", "failed", "hashless"}
  BY <1>1, <1>2, AnsweredIs
<1>4. ToldOf(M, o, c, R)
  BY <1>2, ToldIs
<1>5. PICK Q : Q = [O EXCEPT ![o] = c]
  OBVIOUS
<1>6. /\ R.obj = Q /\ R.fileMap = M.fileMap /\ R.hashing = M.hashing \ {o}
      /\ R.hashless = IF c.state = "hashless" THEN Append(M.hashless, o) ELSE M.hashless
      /\ R.meta = IF c.state = "hashed" THEN M.meta \cup {<<c.hash, o>>} ELSE M.meta
      /\ R.sched \in BOOLEAN /\ IsMem(R)
  BY <1>1, <1>4, <1>5 DEF ToldOf
<1>7. Q \in Seq(FileRecs) /\ DOMAIN Q = DOMAIN O /\ Q[o] = c /\ \A p \in DOMAIN O : p # o => Q[p] = O[p]
  BY <1>2, <1>3, <1>5, FileChanged
<1>8. Mapped(Q, R.fileMap)
  <2>1. Mapped(O, M.fileMap) /\ O[o].state # "gone" /\ c.state # "gone" /\ c.uuid = O[o].uuid
    BY <1>1, <1>2, <1>3 DEF Ruled
  <2> QED BY <1>2, <1>3, <1>5, <1>6, <2>1, MapChanged
<1>9. R.hashless \in Seq(Nat) /\ Queued(In(Q, "hashless"), R.hashless)
  <2>1. Queued(In(O, "hashless"), M.hashless) /\ o \notin In(O, "hashless")
    BY <1>1, <1>2 DEF Ruled, In
  <2>2. CASE c.state = "hashless"
    <3>1. In(Q, "hashless") = In(O, "hashless") \cup {o}
      BY <1>2, <1>7, <2>2 DEF In
    <3>2. R.hashless = Append(M.hashless, o)
      BY <1>6, <2>2
    <3> QED BY <1>2, <2>1, <3>1, <3>2, QueueGets
  <2>3. CASE c.state # "hashless"
    <3>1. In(Q, "hashless") = In(O, "hashless")
      BY <1>2, <1>7, <2>3 DEF In
    <3>2. R.hashless = M.hashless
      BY <1>6, <2>3
    <3> QED BY <1>2, <2>1, <3>1, <3>2
  <2> QED BY <2>2, <2>3
<1>10. Worked(In(Q, "hashing"), R.hashing)
  <2>1. Worked(In(O, "hashing"), M.hashing)
    BY <1>1 DEF Ruled
  <2>2. In(Q, "hashing") = In(O, "hashing") \ {o}
    BY <1>3, <1>7 DEF In
  <2>3. Worked(In(O, "hashing") \ {o}, M.hashing \ {o})
    BY <1>2, <2>1, Fewer
  <2> QED BY <1>6, <2>2, <2>3
<1>11. Sorted(Q, R.meta)
  <2>1. Sorted(O, M.meta)
    BY <1>1 DEF Ruled
  <2>2. /\ c.state # "hashed" => Sorted(Q, M.meta)
        /\ c.state = "hashed" => Sorted(Q, M.meta \cup {<<c.hash, o>>})
    BY <1>2, <1>3, <1>5, <2>1, HashesChanged
  <2> QED BY <1>6, <2>2
<1>12. \A p \in DOMAIN Q : Phased(Q[p])
  <2>1. \A p \in DOMAIN O : Phased(O[p])
    BY <1>1 DEF Ruled
  <2> QED BY <1>3, <1>7, <2>1 DEF Phased
<1>13. Ruled(R)
  BY <1>2, <1>6, <1>7, <1>8, <1>9, <1>10, <1>11, <1>12, RuledParts DEF IsMem
<1> QED BY <1>1, <1>5, <1>6, <1>13

\* A worker goes on: its object stays in its place.
LEMMA WorkOn ==
  ASSUME Index!Inputs, NEW M, Ruled(M), NEW o \in DOMAIN M.obj, NEW w \in WorkRecs,
         M.obj[o].work.phase # "none", w.dir = M.obj[o].work.dir,
         NEW R, R = [M EXCEPT !.obj = [M.obj EXCEPT ![o] = [M.obj[o] EXCEPT !.work = w]]]
  PROVE  Ruled(R)
<1>1. PICK O, b, c, Q : O = M.obj /\ b = M.obj[o] /\ c = [b EXCEPT !.work = w] /\ Q = [O EXCEPT ![o] = c]
  OBVIOUS
<1>2. /\ M \in Mems /\ O \in Seq(FileRecs) /\ o \in DOMAIN O /\ b = O[o] /\ b \in FileRecs /\ Phased(b)
  <2>1. M \in Mems /\ O \in Seq(FileRecs) /\ o \in DOMAIN O /\ b = O[o] /\ Phased(b)
    BY <1>1 DEF Ruled, Mems
  <2> QED BY <2>1
<1>3. /\ c \in FileRecs /\ c.uuid = b.uuid /\ c.work = w /\ c.state = b.state /\ c.hash = b.hash
  BY <1>1, <1>2 DEF FileRecs
<1>4. Q \in Seq(FileRecs) /\ DOMAIN Q = DOMAIN O /\ Q[o] = c /\ \A p \in DOMAIN O : p # o => Q[p] = O[p]
  BY <1>1, <1>2, <1>3, FileChanged
<1>5. \A p \in DOMAIN O : Q[p].state = O[p].state /\ Q[p].hash = O[p].hash /\ Q[p].uuid = O[p].uuid
  BY <1>2, <1>3, <1>4
<1>6. In(Q, "hashless") = In(O, "hashless") /\ In(Q, "hashing") = In(O, "hashing") /\ In(Q, "hashed") = In(O, "hashed")
  BY <1>4, <1>5 DEF In
<1>7. R = [obj |-> Q, fileMap |-> M.fileMap, hashless |-> M.hashless, hashing |-> M.hashing,
           meta |-> M.meta, sched |-> M.sched] /\ M.sched \in BOOLEAN
      /\ M.fileMap \in [Files -> Nat] /\ M.hashless \in Seq(Nat)
  BY <1>1, <1>2 DEF Mems
<1>8. Mapped(Q, M.fileMap)
  <2>1. Mapped(O, M.fileMap)
    BY <1>1 DEF Ruled
  <2> QED BY <1>4, <1>5, <2>1 DEF Mapped
<1>9. Sorted(Q, M.meta)
  <2>1. \A p \in In(O, "hashed") : Q[p].hash = O[p].hash
    BY <1>5 DEF In
  <2>2. M.meta = {<<O[p].hash, p>> : p \in In(O, "hashed")}
    BY <1>1 DEF Ruled, Sorted
  <2> QED BY <1>6, <2>1, <2>2 DEF Sorted
<1>10. Queued(In(Q, "hashless"), M.hashless) /\ Worked(In(Q, "hashing"), M.hashing)
  BY <1>1, <1>6 DEF Ruled
<1>11. \A p \in DOMAIN Q : Phased(Q[p])
  <2>1. \A p \in DOMAIN O : Phased(O[p])
    BY <1>1 DEF Ruled
  <2>2. Phased(c)
    BY <1>1, <1>2, <1>3 DEF Phased
  <2> QED BY <1>4, <2>1, <2>2
<1>12. /\ R.obj = Q /\ R.fileMap = M.fileMap /\ R.hashless = M.hashless /\ R.hashing = M.hashing
       /\ R.meta = M.meta /\ R.sched \in BOOLEAN
       /\ R = [obj |-> R.obj, fileMap |-> R.fileMap, hashless |-> R.hashless, hashing |-> R.hashing,
               meta |-> R.meta, sched |-> R.sched]
  <2>1. R = [obj |-> Q, fileMap |-> M.fileMap, hashless |-> M.hashless, hashing |-> M.hashing,
             meta |-> M.meta, sched |-> M.sched]
    BY <1>7
  <2>2. /\ R.obj = Q /\ R.fileMap = M.fileMap /\ R.hashless = M.hashless /\ R.hashing = M.hashing
        /\ R.meta = M.meta /\ R.sched = M.sched
    BY <2>1
  <2> QED BY <1>7, <2>1, <2>2, Zenon
<1> QED BY <1>4, <1>7, <1>8, <1>9, <1>10, <1>11, <1>12, RuledParts

\* As many of the queue as there is room for are taken.
TakenOf(S, q, n, T, r) == /\ r \in Seq(Nat) /\ Queued(S \ T, r)
                          /\ T \subseteq S /\ IsFiniteSet(T) /\ Cardinality(T) <= n
LEMMA Taking ==
  ASSUME NEW S, NEW q \in Seq(Nat), Queued(S, q), NEW n \in Nat, n <= Len(q), NEW T, T = {q[i] : i \in 1 .. n},
         NEW r, r = SubSeq(q, n + 1, Len(q))
  PROVE  TakenOf(S, q, n, T, r)
<1>1. PICK k \in Nat : k = Len(q) /\ DOMAIN q = 1 .. k /\ n <= k
  <2>1. Len(q) \in Nat /\ DOMAIN q = 1 .. Len(q)
    OBVIOUS
  <2> QED BY <2>1
<1>2. r = SubSeq(q, n + 1, Len(q))
  OBVIOUS
<1>3. /\ r \in Seq(Nat) /\ DOMAIN r = 1 .. (k - n) /\ \A i \in 1 .. (k - n) : r[i] = q[n + i]
  <2>1. r \in Seq(Nat) /\ Len(r) = k - n /\ \A i \in 1 .. (k - n) : r[i] = q[n + i]
    <3>1. r = SubSeq(q, n + 1, k) /\ n + 1 \in Nat
      BY <1>1, <1>2
    <3>2. \A i \in 1 .. (k - n) : r[i] = q[n + 1 + i - 1] /\ n + 1 + i - 1 = n + i
      BY <1>1, <3>1
    <3>3. r \in Seq(Nat) /\ Len(r) = k - n
      BY <1>1, <3>1
    <3> QED BY <3>2, <3>3
  <2>2. DOMAIN r = 1 .. (k - n)
    BY <1>1, <2>1
  <2> QED BY <2>1, <2>2
<1>4. \A i \in 1 .. n : i \in DOMAIN q
  BY <1>1
<1>5. T \subseteq S
  BY <1>4 DEF Queued
<1>6. \A i \in 1 .. (k - n) : n + i \in DOMAIN q /\ n + i \notin 1 .. n
  BY <1>1
<1>7. ASSUME NEW i \in DOMAIN r PROVE r[i] \in S \ T
  <2>1. n + i \in DOMAIN q /\ r[i] = q[n + i] /\ n + i \notin 1 .. n
    BY <1>3, <1>6
  <2>2. ASSUME NEW j \in 1 .. n PROVE q[j] # q[n + i]
    <3>1. j \in DOMAIN q /\ j # n + i
      BY <1>4, <2>1
    <3> QED BY <2>1, <3>1 DEF Queued
  <2> QED BY <2>1, <2>2 DEF Queued
<1>8. ASSUME NEW x \in S \ T PROVE \E i \in DOMAIN r : r[i] = x
  <2>1. PICK j \in DOMAIN q : q[j] = x
    BY DEF Queued
  <2>2. j \notin 1 .. n
    BY <2>1
  <2>3. j - n \in 1 .. (k - n) /\ n + (j - n) = j
    BY <1>1, <2>2
  <2> QED BY <1>3, <2>1, <2>3
<1>9. ASSUME NEW i \in DOMAIN r, NEW j \in DOMAIN r, r[i] = r[j] PROVE i = j
  <2>1. n + i \in DOMAIN q /\ n + j \in DOMAIN q /\ q[n + i] = q[n + j]
    BY <1>3, <1>6, <1>9
  <2>2. n + i = n + j
    BY <2>1 DEF Queued
  <2> QED BY <1>1, <1>3, <2>2
<1>10. IsFiniteSet(T) /\ Cardinality(T) <= n
  <2>1. PICK f : f = [i \in 1 .. n |-> q[i]]
    OBVIOUS
  <2>2. f \in Surjection(1 .. n, T)
    BY <2>1 DEF Surjection
  <2>3. IsFiniteSet(1 .. n) /\ Cardinality(1 .. n) = n
    BY FS_Interval
  <2> QED BY <2>2, <2>3, FS_Surjection
<1>11. {r[i] : i \in DOMAIN r} = S \ T
  BY <1>7, <1>8
<1>12. Queued(S \ T, r)
  BY <1>9, <1>11 DEF Queued
<1> QED BY <1>2, <1>3, <1>5, <1>10, <1>12 DEF TakenOf

LEMMA StartedIs ==
  ASSUME Ruled(mem), NEW o \in DOMAIN mem.obj
  PROVE  LET c == Index!Started(o) IN
         /\ c \in FileRecs /\ c.state = "hashing" /\ c.uuid = mem.obj[o].uuid /\ c.hash = mem.obj[o].hash
         /\ c.work.phase = "lstat" /\ c.work.time = 0 /\ c.work.dir \in Dirs /\ Phased(c)
<1>1. PICK b, w, e : b = mem.obj[o] /\ e = Index!Resting /\ w = [e EXCEPT !.phase = "lstat", !.dir = b.dir, !.name = b.name]
  OBVIOUS
<1>2. b \in FileRecs
  BY <1>1 DEF Ruled, Mems
<1>3. w \in WorkRecs /\ w.phase = "lstat" /\ w.time = 0 /\ w.dir \in Dirs
  <2>1. e \in WorkRecs /\ e.time = 0
    BY <1>1 DEF Index!Resting, Index!NoHash, WorkRecs, Hashes
  <2>2. b.dir \in Dirs /\ b.name \in FileNames
    BY <1>2 DEF FileRecs
  <2> QED BY <1>1, <2>1, <2>2 DEF WorkRecs
<1>4. PICK c : c = [b EXCEPT !.state = "hashing", !.work = w]
  OBVIOUS
<1>5. c = Index!Started(o)
  BY <1>1, <1>4 DEF Index!Started
<1>6. c \in FileRecs /\ c.state = "hashing" /\ c.uuid = b.uuid /\ c.hash = b.hash /\ c.work = w
  BY <1>2, <1>3, <1>4 DEF FileRecs
<1> QED BY <1>1, <1>3, <1>5, <1>6 DEF Phased

LEMMA Scheduled ==
  ASSUME Index!Inputs, Ruled(mem), Index!Schedule
  PROVE  /\ Ruled(mem') /\ DOMAIN mem'.obj = DOMAIN mem.obj
         /\ \A o \in DOMAIN mem.obj : mem'.obj[o] = mem.obj[o] \/ mem'.obj[o] = Index!Started(o)
<1>1. PICK O, q, h, k : O = mem.obj /\ q = mem.hashless /\ h = mem.hashing /\ k = Len(mem.hashless)
  OBVIOUS
<1>2. /\ O \in Seq(FileRecs) /\ q \in Seq(Nat) /\ k \in Nat /\ mem \in Mems /\ mem.sched \in BOOLEAN
      /\ mem.fileMap \in [Files -> Nat] /\ Queued(In(O, "hashless"), q) /\ Worked(In(O, "hashing"), h)
      /\ Mapped(O, mem.fileMap) /\ Sorted(O, mem.meta) /\ \A o \in DOMAIN O : Phased(O[o])
      /\ mem = [obj |-> O, fileMap |-> mem.fileMap, hashless |-> q, hashing |-> h, meta |-> mem.meta,
                sched |-> mem.sched]
  <2>1. /\ O \in Seq(FileRecs) /\ q \in Seq(Nat) /\ mem \in Mems /\ mem.fileMap \in [Files -> Nat]
        /\ Queued(In(O, "hashless"), q) /\ Worked(In(O, "hashing"), h)
        /\ Mapped(O, mem.fileMap) /\ Sorted(O, mem.meta) /\ \A o \in DOMAIN O : Phased(O[o])
    BY <1>1 DEF Ruled, Mems
  <2>2. /\ mem = [obj |-> O, fileMap |-> mem.fileMap, hashless |-> q, hashing |-> h, meta |-> mem.meta,
                  sched |-> mem.sched]
        /\ mem.sched \in BOOLEAN
    BY <1>1, <2>1 DEF Mems
  <2> QED BY <1>1, <2>1, <2>2
<1>3. PICK room : room = Workers - Cardinality(h) /\ room \in Nat
  <2>1. Cardinality(h) \in Nat /\ Workers \in Nat /\ Cardinality(h) <= Workers
    BY <1>2, FS_CardinalityType DEF Worked, Index!Inputs
  <2> QED BY <2>1
<1>4. PICK n \in Nat : n = (IF k < room THEN k ELSE room) /\ n <= k /\ n <= room
  BY <1>2, <1>3
<1>5. PICK first, r, Q : /\ first = {q[i] : i \in 1 .. n} /\ r = SubSeq(q, n + 1, k)
                         /\ Q = [o \in DOMAIN O |-> IF o \in first THEN Index!Started(o) ELSE O[o]]
  OBVIOUS
<1>6. mem' = [mem EXCEPT !.sched = FALSE, !.hashless = r, !.hashing = @ \cup first, !.obj = Q]
  BY <1>1, <1>3, <1>4, <1>5, Counts DEF Index!Schedule, Index!Objects
<1>7. /\ mem'.obj = Q /\ mem'.fileMap = mem.fileMap /\ mem'.hashless = r /\ mem'.hashing = h \cup first
      /\ mem'.meta = mem.meta /\ mem'.sched \in BOOLEAN
      /\ mem' = [obj |-> mem'.obj, fileMap |-> mem'.fileMap, hashless |-> mem'.hashless, hashing |-> mem'.hashing,
                 meta |-> mem'.meta, sched |-> mem'.sched]
  <2>1. PICK y, m, t : y = h \cup first /\ m = mem.fileMap /\ t = mem.meta
    OBVIOUS
  <2>2. mem' = [obj |-> Q, fileMap |-> m, hashless |-> r, hashing |-> y, meta |-> t, sched |-> FALSE]
    <3>1. mem' = [mem EXCEPT !.sched = FALSE, !.hashless = r, !.hashing = y, !.obj = Q]
      <4>1. mem.hashing = h
        BY <1>1
      <4> QED BY <1>6, <2>1, <4>1
    <3> QED BY <1>2, <2>1, <3>1
  <2> QED BY <2>1, <2>2
<1>8. /\ r \in Seq(Nat) /\ Queued(In(O, "hashless") \ first, r)
      /\ first \subseteq In(O, "hashless") /\ IsFiniteSet(first) /\ Cardinality(first) <= n
  <2>1. k = Len(q) /\ n <= Len(q) /\ r = SubSeq(q, n + 1, Len(q))
    BY <1>1, <1>4, <1>5
  <2>2. PICK S : S = In(O, "hashless") /\ Queued(S, q)
    BY <1>2
  <2>3. first = {q[i] : i \in 1 .. n} /\ n \in Nat
    BY <1>4, <1>5
  <2>4. q \in Seq(Nat)
    BY <1>2
  <2>5. TakenOf(S, q, n, first, r)
    BY <2>1, <2>2, <2>3, <2>4, Taking
  <2> QED BY <2>2, <2>5 DEF TakenOf
<1>9. \A o \in DOMAIN O : /\ Index!Started(o) \in FileRecs /\ Index!Started(o).state = "hashing"
                          /\ Index!Started(o).uuid = O[o].uuid /\ Phased(Index!Started(o))
  BY <1>1, StartedIs
<1>10. /\ DOMAIN Q = DOMAIN O /\ \A o \in DOMAIN O : Q[o] = IF o \in first THEN Index!Started(o) ELSE O[o]
       /\ first \subseteq DOMAIN O /\ \A o \in first : O[o].state = "hashless"
  BY <1>5, <1>8 DEF In
<1>11. Q \in Seq(FileRecs)
  <2>1. PICK z \in Nat : DOMAIN O = 1 .. z
    BY <1>2
  <2>2. Q \in [1 .. z -> FileRecs]
    BY <1>2, <1>5, <1>9, <2>1
  <2> QED BY <2>2
<1>12. In(Q, "hashless") = In(O, "hashless") \ first /\ In(Q, "hashing") = In(O, "hashing") \cup first
       /\ In(Q, "hashed") = In(O, "hashed")
  BY <1>9, <1>10 DEF In
<1>13. Mapped(Q, mem.fileMap)
  <2>1. \A o \in DOMAIN O : Q[o].uuid = O[o].uuid /\ (Q[o].state = "gone" <=> O[o].state = "gone")
    BY <1>9, <1>10
  <2>2. Mapped(O, mem.fileMap)
    BY <1>2
  <2> QED BY <1>10, <2>1, <2>2 DEF Mapped
<1>14. Sorted(Q, mem.meta)
  <2>1. \A o \in In(O, "hashed") : Q[o] = O[o]
    BY <1>10 DEF In
  <2> QED BY <1>2, <1>12, <2>1 DEF Sorted
<1>15. Worked(In(Q, "hashing"), h \cup first)
  <2>1. IsFiniteSet(h) /\ IsFiniteSet(first) /\ h = In(O, "hashing")
    BY <1>2, <1>8 DEF Worked
  <2>2. IsFiniteSet(h \cup first) /\ Cardinality(h \cup first) = Cardinality(h) + Cardinality(first) - Cardinality(h \cap first)
    BY <2>1, FS_Union
  <2>3. Cardinality(h) \in Nat /\ Cardinality(first) \in Nat /\ Cardinality(h \cap first) \in Nat
    <3>1. IsFiniteSet(h \cap first)
      BY <2>1, FS_Intersection
    <3> QED BY <2>1, <3>1, FS_CardinalityType
  <2>4. Workers \in Nat
    BY DEF Index!Inputs
  <2>5. Cardinality(h \cup first) <= Workers
    BY <1>3, <1>4, <1>8, <2>2, <2>3, <2>4
  <2> QED BY <1>12, <2>1, <2>2, <2>5 DEF Worked
<1>16. \A o \in DOMAIN Q : Phased(Q[o])
  BY <1>2, <1>9, <1>10
<1>17. Ruled(mem')
  BY <1>2, <1>7, <1>8, <1>11, <1>12, <1>13, <1>14, <1>15, <1>16, RuledParts
<1> QED BY <1>1, <1>7, <1>10, <1>17

-----------------------------------------------------------------------------
\* The disk, and what the readings of it have listed.
Disked ==
  /\ disk \in [Files -> Spots \cup {Index!NoFile}] /\ changes \in Nat
  /\ \A f \in Files : disk[f] # Index!NoFile => disk[f].version <= changes + 1
  /\ \A f, g \in Files : disk[f].dir \in Dirs /\ disk[f].dir = disk[g].dir /\ disk[f].name = disk[g].name => f = g
Readings ==
  /\ listing \in [Dirs -> [entries : SUBSET Listed, taken : BOOLEAN]]
  /\ \A d \in Dirs : IsFiniteSet(listing[d].entries)
IndexInv == Ruled(mem) /\ Disked /\ Readings /\ due \in [Dirs -> BOOLEAN] /\ down \in BOOLEAN

LEMMA NoFileIs ==
  ASSUME Index!Inputs
  PROVE  /\ Index!NoFile.dir \notin Dirs /\ Index!NoFile.hash = <<>> /\ Index!NoFile.version = 0 /\ Index!NoFile.hashed = 0
         /\ Index!NoFile \notin Spots /\ Index!Unread \in [entries : SUBSET Listed, taken : BOOLEAN]
         /\ Index!Unread.entries = {} /\ Index!Resting.time = 0 /\ Index!Resting.phase = "none" /\ Index!NoHash = <<>>
  BY DEF Index!Inputs, Index!NoFile, Index!NoHash, Index!Unread, Index!Resting, Spots

LEMMA Begun ==
  ASSUME Index!Inputs
  PROVE  Ruled(Index!NoMem) /\ DOMAIN Index!NoMem.obj = {}
<1>1. PICK M : M = Index!NoMem
  OBVIOUS
<1>2. /\ M.obj = <<>> /\ M.fileMap = [f \in Files |-> 0] /\ M.hashless = <<>> /\ M.hashing = {} /\ M.meta = {}
      /\ M \in Mems /\ DOMAIN M.obj = {}
  BY <1>1 DEF Index!NoMem, Mems
<1>3. \A s : In(M.obj, s) = {}
  BY <1>2 DEF In
<1>4. Mapped(M.obj, M.fileMap)
  BY <1>2 DEF Mapped
<1>5. Queued(In(M.obj, "hashless"), M.hashless)
  BY <1>2, <1>3 DEF Queued
<1>6. Worked(In(M.obj, "hashing"), M.hashing)
  <2>1. IsFiniteSet({}) /\ Cardinality({}) = 0 /\ 0 <= Workers
    BY FS_EmptySet DEF Index!Inputs
  <2> QED BY <1>2, <1>3, <2>1 DEF Worked
<1>7. Sorted(M.obj, M.meta)
  BY <1>2, <1>3 DEF Sorted
<1> QED BY <1>1, <1>2, <1>4, <1>5, <1>6, <1>7 DEF Ruled

LEMMA IndexStarts ==
  ASSUME Index!Inputs, Index!Init
  PROVE  IndexInv
<1>1. PICK place \in [Files -> Dirs \X FileNames] :
        /\ \A f, g \in Files : place[f] = place[g] => f = g
        /\ disk = [f \in Files |-> [dir |-> place[f][1], name |-> place[f][2], version |-> 1,
                                   hash |-> Index!NoHash, hashed |-> 0]]
  BY DEF Index!Init
<1>2. \A f \in Files : disk[f].dir = place[f][1] /\ disk[f].name = place[f][2] /\ disk[f].version = 1 /\ disk[f] \in Spots
  BY <1>1, NoFileIs DEF Spots, Hashes
<1>3. changes = 0 /\ disk \in [Files -> Spots \cup {Index!NoFile}]
  BY <1>1, <1>2 DEF Index!Init
<1>4. \A f, g \in Files : disk[f].dir = disk[g].dir /\ disk[f].name = disk[g].name => f = g
  BY <1>1, <1>2
<1>5. Disked
  BY <1>2, <1>3, <1>4 DEF Disked
<1>6. Readings
  <2>1. listing \in [Dirs -> [entries : SUBSET Listed, taken : BOOLEAN]] /\ \A d \in Dirs : listing[d].entries = {}
    BY NoFileIs DEF Index!Init
  <2> QED BY <2>1, FS_EmptySet DEF Readings
<1>7. Ruled(mem) /\ due \in [Dirs -> BOOLEAN] /\ down \in BOOLEAN
  BY Begun DEF Index!Init
<1> QED BY <1>5, <1>6, <1>7 DEF IndexInv

\* A file of a directory is listed with the hash that is recorded with its version.
LEMMA ListedIs ==
  ASSUME Disked, NEW f \in Files, disk[f].dir \in Dirs, Index!Inputs, NEW x, x = Index!Xstat(f)
  PROVE  /\ x \in Listed /\ x.uuid = f
         /\ x.hash = (IF disk[f].hashed = disk[f].version THEN disk[f].hash ELSE <<>>)
<1>1. disk[f] \in Spots
  BY NoFileIs DEF Disked
<1>2. PICK h : h = IF disk[f].hashed = disk[f].version THEN disk[f].hash ELSE <<>>
  OBVIOUS
<1>3. h \in Hashes
  BY <1>1, <1>2 DEF Spots, Hashes
<1>4. x = [uuid |-> f, name |-> disk[f].name, hash |-> h]
  BY <1>2, NoFileIs DEF Index!Xstat
<1> QED BY <1>1, <1>2, <1>3, <1>4 DEF Spots, Listed

LEMMA Lists ==
  ASSUME Index!Inputs, IndexInv, NEW d \in Dirs, Index!List(d)
  PROVE  /\ IndexInv' /\ \A e \in Dirs : e # d => listing'[e] = listing[e]
         /\ \A x \in listing'[d].entries : \E f \in Files : disk[f].dir = d /\ x = Index!Xstat(f)
<1>1. PICK S, T : S = {g \in Files : disk[g].dir = d} /\ T = {Index!Xstat(f) : f \in S}
  OBVIOUS
<1>2. T \in SUBSET Listed
  <2>1. \A f \in S : f \in Files /\ disk[f].dir \in Dirs
    BY <1>1
  <2>2. \A f \in S : Index!Xstat(f) \in Listed
    BY <2>1, ListedIs DEF IndexInv
  <2> QED BY <1>1, <2>2
<1>3. IsFiniteSet(T)
  <2>1. PICK g : g = [f \in S |-> Index!Xstat(f)]
    OBVIOUS
  <2>2. g \in Surjection(S, T)
    BY <1>1, <2>1 DEF Surjection
  <2>3. IsFiniteSet(Files)
    BY DEF Index!Inputs, Index!IsFiniteSet, IsFiniteSet
  <2>4. IsFiniteSet(S)
    BY <1>1, <2>3, FS_Subset
  <2> QED BY <2>2, <2>4, FS_Surjection
<1>4. listing' = [listing EXCEPT ![d] = [entries |-> T, taken |-> TRUE]]
  BY <1>1 DEF Index!List
<1>5. listing'[d].entries = T /\ \A e \in Dirs : e # d => listing'[e] = listing[e]
  BY <1>4 DEF IndexInv, Readings
<1>6. Readings'
  <2>1. [entries |-> T, taken |-> TRUE] \in [entries : SUBSET Listed, taken : BOOLEAN]
    BY <1>2
  <2>2. listing' \in [Dirs -> [entries : SUBSET Listed, taken : BOOLEAN]]
    BY <1>4, <2>1 DEF IndexInv, Readings
  <2>3. \A e \in Dirs : IsFiniteSet(listing'[e].entries)
    BY <1>3, <1>5 DEF IndexInv, Readings
  <2> QED BY <2>2, <2>3 DEF Readings
<1>7. Ruled(mem)' /\ down' \in BOOLEAN /\ due' \in [Dirs -> BOOLEAN] /\ Disked'
  <2>1. mem' = mem /\ down' = down /\ disk' = disk /\ changes' = changes /\ due' = [due EXCEPT ![d] = FALSE]
    BY DEF Index!List
  <2>2. Ruled(mem) /\ down \in BOOLEAN /\ due \in [Dirs -> BOOLEAN] /\ Disked
    BY DEF IndexInv
  <2> QED BY <2>1, <2>2 DEF Disked
<1> QED BY <1>1, <1>5, <1>6, <1>7 DEF IndexInv

\* A directory is used, with files of any kind that those of the index and those listed are of.
LEMMA UsedOn ==
  ASSUME Index!Inputs, IndexInv, NEW d \in Dirs, Index!Update(d), NEW K, Of(mem, K), Closed(K),
         Bears(K, d, listing[d].entries)
  PROVE  Of(mem', K)
<1>1. PICK L, M : L = listing[d].entries /\ M = Index!Updated(mem, d, L)
  OBVIOUS
<1>2. L \in SUBSET Listed /\ IsFiniteSet(L) /\ Bears(K, d, L)
  BY <1>1 DEF IndexInv, Readings
<1>3. Of(M, K)
  BY <1>1, <1>2, UpdatedOn
<1>4. Of(Index!Added(M, d, L), K)
  BY <1>2, <1>3, AddedOn
<1> QED BY <1>1, <1>4 DEF Index!Update

LEMMA EndedOf ==
  ASSUME NEW b \in FileRecs, Phased(b)
  PROVE  Ended(b) \in FileRecs
  BY EndedIs

LEMMA Updates ==
  ASSUME Index!Inputs, IndexInv, NEW d \in Dirs, Index!Update(d)
  PROVE  IndexInv' /\ \A e \in Dirs : listing'[e].entries \in {{}, listing[e].entries}
<1>1. Of(mem, FileRecs)
  BY DEF IndexInv, Of, Ruled, Mems
<1>2. Closed(FileRecs)
  BY EndedOf DEF Closed
<1>3. listing[d].entries \subseteq Listed
  BY DEF IndexInv, Readings
<1>4. Bears(FileRecs, d, listing[d].entries)
  <2> SUFFICES ASSUME NEW x \in listing[d].entries PROVE Born(d, x) \in FileRecs
    BY DEF Bears
  <2> QED BY <1>3, BornIs
<1>5. Ruled(mem)'
  BY <1>1, <1>2, <1>4, UsedOn DEF Of
<1>6. PICK L : L = listing
  OBVIOUS
<1>7. Readings' /\ \A e \in Dirs : listing'[e].entries \in {{}, listing[e].entries}
  <2>1. listing' = [L EXCEPT ![d] = Index!Unread]
    BY <1>6 DEF Index!Update
  <2>2. L \in [Dirs -> [entries : SUBSET Listed, taken : BOOLEAN]] /\ \A e \in Dirs : IsFiniteSet(L[e].entries)
    BY <1>6 DEF IndexInv, Readings
  <2>3. listing' \in [Dirs -> [entries : SUBSET Listed, taken : BOOLEAN]]
    BY <2>1, <2>2, NoFileIs
  <2>4. \A e \in Dirs : listing'[e] = IF e = d THEN Index!Unread ELSE L[e]
    BY <2>1, <2>2
  <2>5. \A e \in Dirs : IsFiniteSet(listing'[e].entries)
    BY <2>2, <2>4, NoFileIs, FS_EmptySet
  <2> QED BY <1>6, <2>3, <2>4, <2>5, NoFileIs DEF Readings
<1>8. Disked' /\ down' \in BOOLEAN
  BY DEF IndexInv, Disked, Index!Update
<1>9. due' \in [Dirs -> BOOLEAN]
  <2>1. PICK E : due' = [e \in Dirs |-> due[e] \/ e \in E]
    BY DEF Index!Update
  <2>2. due \in [Dirs -> BOOLEAN]
    BY DEF IndexInv
  <2> QED BY <2>1, <2>2, Zenon
<1> QED BY <1>5, <1>7, <1>8, <1>9 DEF IndexInv

LEMMA Schedules ==
  ASSUME Index!Inputs, IndexInv, Index!Schedule
  PROVE  IndexInv' /\ UNCHANGED <<disk, listing, changes>>
<1>1. Ruled(mem)'
  BY Scheduled DEF IndexInv
<1> QED BY <1>1 DEF IndexInv, Disked, Readings, Index!Schedule

-----------------------------------------------------------------------------
(* The worker of a file.                                                   *)

\* It is told of, or the process ends.
CalledOf(o, ok) ==
  \/ mem' = mem /\ down' = TRUE
  \/ /\ mem.obj[o].state = "hashing" /\ UNCHANGED down
     /\ mem'.obj = [mem.obj EXCEPT ![o] = Answered(mem.obj[o], ok)]
LEMMA Called ==
  ASSUME Index!Inputs, Ruled(mem), down \in BOOLEAN, NEW o \in DOMAIN mem.obj, mem.obj[o].work.phase # "none",
         NEW ok \in BOOLEAN, Index!Callback(o, ok)
  PROVE  Ruled(mem)' /\ down' \in BOOLEAN /\ CalledOf(o, ok)
<1>1. mem.obj[o].state \in {"hashing", "gone"}
  BY DEF Ruled, Phased
<1>2. CASE mem.obj[o].state = "gone"
  BY <1>2 DEF Index!Callback, CalledOf
<1>3. CASE mem.obj[o].state = "hashing"
  <2>1. PICK M, c, R : M = mem /\ c = Answered(M.obj[o], ok) /\ R = Index!Told(M, o, ok)
    OBVIOUS
  <2>2. Ruled(R) /\ R.obj = [M.obj EXCEPT ![o] = c]
    BY <1>3, <2>1, ToldOn
  <2>3. mem' = R /\ down' = down
    BY <1>3, <2>1 DEF Index!Callback
  <2> QED BY <1>3, <2>1, <2>2, <2>3 DEF CalledOf
<1> QED BY <1>1, <1>2, <1>3

\* Its record changes.
WorkedOf(o, w) == mem'.obj = [mem.obj EXCEPT ![o] = [mem.obj[o] EXCEPT !.work = w]]
LEMMA WorksOn ==
  ASSUME Index!Inputs, Ruled(mem), NEW o \in DOMAIN mem.obj, mem.obj[o].work.phase # "none",
         NEW w \in WorkRecs, w.dir = mem.obj[o].work.dir,
         mem' = [mem EXCEPT !.obj = [mem.obj EXCEPT ![o] = [mem.obj[o] EXCEPT !.work = w]]]
  PROVE  Ruled(mem)' /\ WorkedOf(o, w)
<1>1. PICK M, R : M = mem /\ R = [M EXCEPT !.obj = [M.obj EXCEPT ![o] = [M.obj[o] EXCEPT !.work = w]]]
  OBVIOUS
<1>2. Ruled(R)
  BY <1>1, WorkOn
<1>3. R.obj = [M.obj EXCEPT ![o] = [M.obj[o] EXCEPT !.work = w]]
  BY <1>1 DEF Ruled, Mems
<1> QED BY <1>1, <1>2, <1>3 DEF WorkedOf

LEMMA WorkIs ==
  ASSUME Ruled(mem), NEW o \in DOMAIN mem.obj
  PROVE  /\ mem.obj[o] \in FileRecs /\ mem.obj[o].work \in WorkRecs /\ mem.obj[o].uuid \in Files
         /\ mem.obj[o].work.phase # "none" => mem.obj[o].work.dir \in Dirs
<1>1. mem.obj[o] \in FileRecs
  BY DEF Ruled, Mems
<1>2. Phased(mem.obj[o])
  BY DEF Ruled
<1> QED BY <1>1, <1>2 DEF Phased, FileRecs

LEMMA Lstats ==
  ASSUME Index!Inputs, IndexInv, NEW o \in DOMAIN mem.obj, Index!Lstat(o)
  PROVE  /\ IndexInv' /\ UNCHANGED <<disk, listing, changes>>
         /\ \/ CalledOf(o, FALSE)
            \/ \E f \in Files, w \in WorkRecs :
                 /\ WorkedOf(o, w) /\ disk[f] # Index!NoFile /\ w.time = disk[f].version
                 /\ w.phase = "digest"
<1>1. /\ mem.obj[o].work.phase = "lstat" /\ UNCHANGED <<disk, listing, due, changes>>
      /\ Ruled(mem) /\ down \in BOOLEAN
  BY DEF Index!Lstat, Index!Work, IndexInv
<1>2. mem.obj[o] \in FileRecs /\ mem.obj[o].work \in WorkRecs /\ mem.obj[o].work.dir \in Dirs
  BY <1>1, WorkIs
<1>3. ASSUME Ruled(mem)', down' \in BOOLEAN
      PROVE  IndexInv'
  BY <1>1, <1>3 DEF IndexInv, Disked, Readings
<1>4. CASE Index!Callback(o, FALSE)
  BY <1>1, <1>3, <1>4, Called
<1>5. CASE ~Index!Callback(o, FALSE)
  <2>1. PICK f \in Files : /\ disk[f].dir = mem.obj[o].work.dir /\ down' = down
                           /\ mem' = [mem EXCEPT !.obj[o].work.phase = "digest", !.obj[o].work.time = disk[f].version]
    BY <1>5 DEF Index!Lstat, Index!Found, Index!At, Index!Work
  <2>2. disk[f] # Index!NoFile /\ disk[f].version \in Nat
    BY <1>2, <2>1, NoFileIs DEF IndexInv, Disked, Spots
  <2>3. PICK M, b, e, t : M = mem /\ b = mem.obj[o] /\ e = b.work /\ t = disk[f].version
    OBVIOUS
  <2>4. PICK w : w = [e EXCEPT !.phase = "digest", !.time = t]
    OBVIOUS
  <2>5. w \in WorkRecs /\ w.dir = e.dir /\ w.time = t /\ w.phase = "digest"
    BY <1>2, <2>2, <2>3, <2>4 DEF WorkRecs
  <2>6. mem' = [mem EXCEPT !.obj = [mem.obj EXCEPT ![o] = [mem.obj[o] EXCEPT !.work = w]]]
    <3>1. PICK c : c = [b EXCEPT !.work = [e EXCEPT !.phase = "digest"]]
      OBVIOUS
    <3>2. PICK N : N = [M EXCEPT !.obj = [M.obj EXCEPT ![o] = c]]
      OBVIOUS
    <3>3. M.obj[o] = b /\ N.obj = [M.obj EXCEPT ![o] = c] /\ N.obj[o] = c /\ c.work = [e EXCEPT !.phase = "digest"]
      BY <1>1, <1>2, <2>3, <3>1, <3>2 DEF Ruled, Mems, FileRecs
    <3>4. [c EXCEPT !.work = w] = [b EXCEPT !.work = w]
      BY <3>1
    <3>5. [N.obj EXCEPT ![o] = [c EXCEPT !.work = w]] = [M.obj EXCEPT ![o] = [b EXCEPT !.work = w]]
      BY <3>3, <3>4
    <3>6. [N EXCEPT !.obj = [N.obj EXCEPT ![o] = [c EXCEPT !.work = w]]]
          = [M EXCEPT !.obj = [M.obj EXCEPT ![o] = [b EXCEPT !.work = w]]]
      BY <3>2, <3>5
    <3>7. w = [c.work EXCEPT !.time = t]
      BY <2>4, <3>3
    <3>8. mem' = [N EXCEPT !.obj = [N.obj EXCEPT ![o] = [c EXCEPT !.work = [c.work EXCEPT !.time = t]]]]
      BY <2>1, <2>3, <3>1, <3>2, <3>3
    <3> QED BY <2>3, <3>6, <3>7, <3>8
  <2>7. Ruled(mem)' /\ WorkedOf(o, w)
    BY <1>1, <2>3, <2>5, <2>6, WorksOn
  <2> QED BY <1>1, <1>3, <2>1, <2>2, <2>3, <2>5, <2>7
<1> QED BY <1>4, <1>5

LEMMA Digests ==
  ASSUME Index!Inputs, IndexInv, NEW o \in DOMAIN mem.obj, Index!Digest(o)
  PROVE  /\ IndexInv' /\ UNCHANGED <<disk, listing, changes>> /\ mem.obj[o].work.phase = "digest"
         /\ \/ CalledOf(o, FALSE)
            \/ \E f \in Files, w \in WorkRecs :
                 /\ WorkedOf(o, w) /\ disk[f] # Index!NoFile /\ w.hash = <<f, disk[f].version>>
                 /\ disk[f].dir = w.dir /\ disk[f].name = w.name
                 /\ w.time = mem.obj[o].work.time /\ w.phase = "update"
<1>1. /\ mem.obj[o].work.phase = "digest" /\ UNCHANGED <<disk, listing, due, changes>>
      /\ Ruled(mem) /\ down \in BOOLEAN
  BY DEF Index!Digest, Index!Work, IndexInv
<1>2. mem.obj[o] \in FileRecs /\ mem.obj[o].work \in WorkRecs /\ mem.obj[o].work.dir \in Dirs
  BY <1>1, WorkIs
<1>3. ASSUME Ruled(mem)', down' \in BOOLEAN
      PROVE  IndexInv'
  BY <1>1, <1>3 DEF IndexInv, Disked, Readings
<1>4. CASE Index!Callback(o, FALSE)
  BY <1>1, <1>3, <1>4, Called
<1>5. CASE ~Index!Callback(o, FALSE)
  <2>1. PICK f \in Files : /\ disk[f].dir = mem.obj[o].work.dir /\ disk[f].name = mem.obj[o].work.name /\ down' = down
                           /\ mem' = [mem EXCEPT !.obj[o].work.phase = "update",
                                                 !.obj[o].work.hash = <<f, disk[f].version>>]
    BY <1>5 DEF Index!Digest, Index!Found, Index!At, Index!Work
  <2>2. disk[f] # Index!NoFile /\ disk[f].version \in Nat
    BY <1>2, <2>1, NoFileIs DEF IndexInv, Disked, Spots
  <2>3. PICK M, b, e, t : M = mem /\ b = mem.obj[o] /\ e = b.work /\ t = <<f, disk[f].version>>
    OBVIOUS
  <2>4. PICK w : w = [e EXCEPT !.phase = "update", !.hash = t]
    OBVIOUS
  <2>5. t \in Hashes
    BY <2>2, <2>3 DEF Hashes
  <2>6. w \in WorkRecs /\ w.dir = e.dir /\ w.name = e.name /\ w.hash = t /\ w.phase = "update" /\ w.time = e.time
    BY <1>2, <2>3, <2>4, <2>5 DEF WorkRecs
  <2>7. mem' = [mem EXCEPT !.obj = [mem.obj EXCEPT ![o] = [mem.obj[o] EXCEPT !.work = w]]]
    <3>1. PICK c : c = [b EXCEPT !.work = [e EXCEPT !.phase = "update"]]
      OBVIOUS
    <3>2. PICK N : N = [M EXCEPT !.obj = [M.obj EXCEPT ![o] = c]]
      OBVIOUS
    <3>3. M.obj[o] = b /\ N.obj = [M.obj EXCEPT ![o] = c] /\ N.obj[o] = c /\ c.work = [e EXCEPT !.phase = "update"]
      <4>1. M.obj[o] = b /\ N.obj = [M.obj EXCEPT ![o] = c] /\ N.obj[o] = c
        BY <1>1, <2>3, <3>2 DEF Ruled, Mems
      <4>2. c.work = [e EXCEPT !.phase = "update"]
        BY <1>2, <2>3, <3>1 DEF FileRecs
      <4> QED BY <4>1, <4>2
    <3>4. [c EXCEPT !.work = w] = [b EXCEPT !.work = w]
      BY <3>1
    <3>5. [N.obj EXCEPT ![o] = [c EXCEPT !.work = w]] = [M.obj EXCEPT ![o] = [b EXCEPT !.work = w]]
      BY <3>3, <3>4
    <3>6. [N EXCEPT !.obj = [N.obj EXCEPT ![o] = [c EXCEPT !.work = w]]]
          = [M EXCEPT !.obj = [M.obj EXCEPT ![o] = [b EXCEPT !.work = w]]]
      BY <3>2, <3>5
    <3>7. w = [c.work EXCEPT !.hash = t]
      BY <2>4, <3>3
    <3>8. mem' = [N EXCEPT !.obj = [N.obj EXCEPT ![o] = [c EXCEPT !.work = [c.work EXCEPT !.hash = t]]]]
      BY <2>1, <2>3, <3>1, <3>2, <3>3
    <3> QED BY <2>3, <3>6, <3>7, <3>8
  <2>8. Ruled(mem)' /\ WorkedOf(o, w)
    BY <1>1, <2>3, <2>6, <2>7, WorksOn
  <2>9. disk[f].dir = w.dir /\ disk[f].name = w.name
    BY <2>1, <2>3, <2>6
  <2> QED BY <1>1, <1>3, <2>1, <2>2, <2>3, <2>6, <2>8, <2>9
<1> QED BY <1>4, <1>5

\* A file changes and the others do not.
LEMMA Spotted ==
  ASSUME Disked, NEW f \in Files, NEW s \in Spots \cup {Index!NoFile}, disk' = [disk EXCEPT ![f] = s],
         changes' \in Nat, changes <= changes', s # Index!NoFile => s.version <= changes' + 1,
         \A g \in Files : g # f /\ s.dir \in Dirs => disk[g].dir # s.dir \/ disk[g].name # s.name
  PROVE  Disked' /\ disk'[f] = s /\ \A g \in Files : g # f => disk'[g] = disk[g]
<1>1. PICK D, E : D = disk /\ E = disk'
  OBVIOUS
<1>2. /\ D \in [Files -> Spots \cup {Index!NoFile}] /\ E = [D EXCEPT ![f] = s]
      /\ changes \in Nat /\ \A g \in Files : D[g] # Index!NoFile => D[g].version <= changes + 1
      /\ \A g, h \in Files : D[g].dir \in Dirs /\ D[g].dir = D[h].dir /\ D[g].name = D[h].name => g = h
      /\ \A g \in Files : g # f /\ s.dir \in Dirs => D[g].dir # s.dir \/ D[g].name # s.name
  BY <1>1 DEF Disked
<1>3. E \in [Files -> Spots \cup {Index!NoFile}] /\ E[f] = s /\ \A g \in Files : g # f => E[g] = D[g]
  BY <1>2
<1>4. ASSUME NEW g \in Files, E[g] # Index!NoFile PROVE E[g].version <= changes' + 1
  <2>1. CASE g = f
    BY <1>3, <1>4, <2>1
  <2>2. CASE g # f
    <3>1. D[g] # Index!NoFile /\ D[g] \in Spots
      BY <1>2, <1>3, <1>4, <2>2
    <3>2. D[g].version \in Nat /\ D[g].version <= changes + 1
      BY <1>2, <3>1 DEF Spots
    <3> QED BY <1>2, <1>3, <2>2, <3>2
  <2> QED BY <2>1, <2>2
<1>5. ASSUME NEW g \in Files, NEW h \in Files, E[g].dir \in Dirs, E[g].dir = E[h].dir, E[g].name = E[h].name
      PROVE  g = h
  BY <1>2, <1>3, <1>5
<1> QED BY <1>1, <1>3, <1>4, <1>5 DEF Disked

LEMMA Recorded ==
  ASSUME Index!Inputs, IndexInv, NEW o \in DOMAIN mem.obj, Index!Record(o)
  PROVE  /\ IndexInv' /\ UNCHANGED <<listing, changes>> /\ mem.obj[o].work.phase = "update"
         /\ \/ CalledOf(o, FALSE) /\ UNCHANGED disk
            \/ \E f \in Files : LET w == mem.obj[o].work IN
                 /\ CalledOf(o, TRUE) /\ f = mem.obj[o].uuid /\ disk[f] # Index!NoFile
                 /\ disk[f].dir = w.dir /\ disk[f].name = w.name /\ disk[f].version = w.time
                 /\ disk'[f] = [disk[f] EXCEPT !.hashed = w.time, !.hash = w.hash]
                 /\ \A g \in Files : g # f => disk'[g] = disk[g]
<1>1. /\ mem.obj[o].work.phase = "update" /\ UNCHANGED <<listing, due, changes>>
      /\ Ruled(mem) /\ down \in BOOLEAN /\ Disked
  BY DEF Index!Record, Index!Work, IndexInv
<1>2. mem.obj[o] \in FileRecs /\ mem.obj[o].work \in WorkRecs /\ mem.obj[o].work.dir \in Dirs
  BY <1>1, WorkIs
<1>3. ASSUME Ruled(mem)', down' \in BOOLEAN, Disked'
      PROVE  IndexInv'
  BY <1>1, <1>3 DEF IndexInv, Readings
<1>4. CASE disk' = disk /\ Index!Callback(o, FALSE)
  <2>1. Ruled(mem)' /\ down' \in BOOLEAN /\ CalledOf(o, FALSE)
    BY <1>1, <1>4, Called
  <2>2. Disked'
    BY <1>1, <1>4 DEF Disked
  <2> QED BY <1>1, <1>3, <1>4, <2>1, <2>2
<1>5. CASE ~(disk' = disk /\ Index!Callback(o, FALSE))
  <2>1. PICK w : w = mem.obj[o].work
    OBVIOUS
  <2>2. PICK f \in Files :
          /\ disk[f].dir = w.dir /\ disk[f].name = w.name /\ disk[f].version = w.time /\ f = mem.obj[o].uuid
          /\ disk' = [disk EXCEPT ![f].hashed = w.time, ![f].hash = w.hash]
          /\ Index!Callback(o, TRUE)
    BY <1>5, <2>1 DEF Index!Record, Index!Found, Index!At, Index!IsStill, Index!Work
  <2>3. Ruled(mem)' /\ down' \in BOOLEAN /\ CalledOf(o, TRUE)
    BY <1>1, <2>2, Called
  <2>4. PICK D, s, t : D = disk /\ s = disk[f] /\ t = [s EXCEPT !.hashed = w.time, !.hash = w.hash]
    OBVIOUS
  <2>5. s \in Spots /\ s # Index!NoFile /\ D \in [Files -> Spots \cup {Index!NoFile}]
    BY <1>1, <1>2, <2>1, <2>2, <2>4, NoFileIs DEF Disked
  <2>6. t \in Spots /\ t.dir = s.dir /\ t.name = s.name /\ t.version = s.version
    BY <1>2, <2>1, <2>4, <2>5 DEF Spots, WorkRecs
  <2>7. disk' = [disk EXCEPT ![f] = t]
    <3>1. PICK E : E = [D EXCEPT ![f].hashed = w.time]
      OBVIOUS
    <3>2. E[f] = [s EXCEPT !.hashed = w.time] /\ E = [D EXCEPT ![f] = [s EXCEPT !.hashed = w.time]]
      BY <2>4, <2>5, <3>1
    <3>3. [E EXCEPT ![f] = t] = [D EXCEPT ![f] = t]
      BY <3>2
    <3>4. t = [E[f] EXCEPT !.hash = w.hash]
      BY <2>4, <3>2
    <3>5. disk' = [E EXCEPT ![f] = [E[f] EXCEPT !.hash = w.hash]]
      BY <2>2, <2>4, <3>1
    <3> QED BY <2>4, <3>3, <3>4, <3>5
  <2>8. changes' \in Nat /\ changes <= changes' /\ t.version <= changes' + 1
    BY <1>1, <2>4, <2>5, <2>6 DEF Disked
  <2>9. \A g \in Files : g # f /\ t.dir \in Dirs => disk[g].dir # t.dir \/ disk[g].name # t.name
    BY <1>1, <2>4, <2>6 DEF Disked
  <2>10. Disked' /\ disk'[f] = t /\ \A g \in Files : g # f => disk'[g] = disk[g]
    BY <1>1, <2>6, <2>7, <2>8, <2>9, Spotted
  <2> QED BY <1>1, <1>3, <2>1, <2>2, <2>3, <2>4, <2>5, <2>10
<1> QED BY <1>4, <1>5

-----------------------------------------------------------------------------
(* The disk changes, or the process is started again.                      *)

LEMMA DiskChanges ==
  ASSUME IndexInv, NEW D, Index!Change(D), mem' = mem, Disked'
  PROVE  IndexInv' /\ UNCHANGED <<mem, listing>> /\ changes' = changes + 1
<1>1. mem' = mem /\ listing' = listing /\ down' = down /\ changes' = changes + 1
      /\ due' = [d \in Dirs |-> due[d] \/ d \in D]
  BY DEF Index!Change
<1>2. Ruled(mem) /\ Readings /\ down \in BOOLEAN /\ due \in [Dirs -> BOOLEAN]
  BY DEF IndexInv
<1>3. due' \in [Dirs -> BOOLEAN]
  BY <1>1, <1>2, Zenon
<1> QED BY <1>1, <1>2, <1>3 DEF IndexInv, Readings

LEMMA Moves ==
  ASSUME Index!Inputs, IndexInv, NEW f \in Files, NEW d \in Dirs, NEW n \in FileNames, Index!Move(f, d, n)
  PROVE  /\ IndexInv' /\ UNCHANGED <<mem, listing>> /\ changes' = changes + 1
         /\ disk'[f].hash = disk[f].hash /\ disk'[f].hashed = disk[f].hashed /\ disk'[f].version = disk[f].version
         /\ disk[f] # Index!NoFile /\ \A g \in Files : g # f => disk'[g] = disk[g]
<1>1. PICK D, s, t : D = disk /\ s = disk[f] /\ t = [s EXCEPT !.dir = d, !.name = n]
  OBVIOUS
<1>2. Disked /\ disk[f] # Index!NoFile /\ mem' = mem /\ changes' = changes + 1 /\ changes \in Nat
      /\ disk' = [disk EXCEPT ![f].dir = d, ![f].name = n] /\ Index!Change({d, disk[f].dir})
      /\ \A g \in Files : disk[g].dir # d \/ disk[g].name # n
  BY DEF Index!Move, Index!Change, IndexInv, Disked, Index!At
<1>3. s \in Spots /\ s.version \in Nat /\ s.version <= changes + 1 /\ D \in [Files -> Spots \cup {Index!NoFile}]
  BY <1>1, <1>2 DEF Disked, Spots
<1>4. t \in Spots /\ t.dir = d /\ t.name = n /\ t.version = s.version /\ t.hash = s.hash /\ t.hashed = s.hashed
  BY <1>1, <1>3 DEF Spots
<1>5. disk' = [disk EXCEPT ![f] = t]
  <2>1. PICK E : E = [D EXCEPT ![f].dir = d]
    OBVIOUS
  <2>2. E[f] = [s EXCEPT !.dir = d] /\ E = [D EXCEPT ![f] = [s EXCEPT !.dir = d]]
    BY <1>1, <1>3, <2>1
  <2>3. [E EXCEPT ![f] = t] = [D EXCEPT ![f] = t]
    BY <2>2
  <2>4. t = [E[f] EXCEPT !.name = n]
    BY <1>1, <2>2
  <2>5. disk' = [E EXCEPT ![f] = [E[f] EXCEPT !.name = n]]
    BY <1>1, <1>2, <2>1
  <2> QED BY <1>1, <2>3, <2>4, <2>5
<1>6. changes' \in Nat /\ changes <= changes' /\ t.version <= changes' + 1
  BY <1>2, <1>3, <1>4
<1>7. \A g \in Files : g # f /\ t.dir \in Dirs => disk[g].dir # t.dir \/ disk[g].name # t.name
  BY <1>2, <1>4
<1>8. Disked' /\ disk'[f] = t /\ \A g \in Files : g # f => disk'[g] = disk[g]
  <2>1. Disked /\ t \in Spots \cup {Index!NoFile} /\ (t # Index!NoFile => t.version <= changes' + 1)
    BY <1>2, <1>4, <1>6
  <2> QED BY <1>5, <1>6, <1>7, <2>1, Spotted
<1>9. IndexInv' /\ UNCHANGED <<mem, listing>>
  BY <1>2, <1>8, DiskChanges
<1> QED BY <1>1, <1>2, <1>4, <1>8, <1>9

LEMMA Writes ==
  ASSUME Index!Inputs, IndexInv, NEW f \in Files, Index!Write(f)
  PROVE  /\ IndexInv' /\ UNCHANGED <<mem, listing>> /\ changes' = changes + 1
         /\ disk[f] # Index!NoFile /\ disk'[f] = [disk[f] EXCEPT !.version = changes + 2]
         /\ \A g \in Files : g # f => disk'[g] = disk[g]
<1>1. PICK D, s, t : D = disk /\ s = disk[f] /\ t = [s EXCEPT !.version = changes + 2]
  OBVIOUS
<1>2. Disked /\ disk[f] # Index!NoFile /\ mem' = mem /\ changes' = changes + 1 /\ changes \in Nat
      /\ disk' = [disk EXCEPT ![f].version = changes + 2] /\ Index!Change({disk[f].dir})
  BY DEF Index!Write, Index!Change, IndexInv, Disked
<1>3. s \in Spots /\ D \in [Files -> Spots \cup {Index!NoFile}]
  BY <1>1, <1>2 DEF Disked
<1>4. t \in Spots /\ t.dir = s.dir /\ t.name = s.name /\ t.version = changes + 2
  BY <1>1, <1>2, <1>3 DEF Spots
<1>5. disk' = [disk EXCEPT ![f] = t]
  BY <1>1, <1>2
<1>6. changes' \in Nat /\ changes <= changes' /\ t.version <= changes' + 1
  BY <1>2, <1>4
<1>7. \A g \in Files : g # f /\ t.dir \in Dirs => disk[g].dir # t.dir \/ disk[g].name # t.name
  BY <1>1, <1>2, <1>4 DEF Disked
<1>8. Disked' /\ disk'[f] = t /\ \A g \in Files : g # f => disk'[g] = disk[g]
  <2>1. Disked /\ t \in Spots \cup {Index!NoFile} /\ (t # Index!NoFile => t.version <= changes' + 1)
    BY <1>2, <1>4, <1>6
  <2> QED BY <1>5, <1>6, <1>7, <2>1, Spotted
<1>9. IndexInv' /\ UNCHANGED <<mem, listing>>
  BY <1>2, <1>8, DiskChanges
<1> QED BY <1>1, <1>2, <1>8, <1>9

LEMMA Unlinks ==
  ASSUME Index!Inputs, IndexInv, NEW f \in Files, Index!Unlink(f)
  PROVE  /\ IndexInv' /\ UNCHANGED <<mem, listing>> /\ changes' = changes + 1
         /\ disk'[f] = Index!NoFile /\ \A g \in Files : g # f => disk'[g] = disk[g]
<1>1. Disked /\ mem' = mem /\ changes' = changes + 1 /\ changes \in Nat /\ disk' = [disk EXCEPT ![f] = Index!NoFile]
      /\ Index!Change({disk[f].dir})
  BY DEF Index!Unlink, Index!Change, IndexInv, Disked
<1>2. PICK t : t = Index!NoFile
  OBVIOUS
<1>3. t \in Spots \cup {Index!NoFile} /\ t.dir \notin Dirs /\ disk' = [disk EXCEPT ![f] = t]
  BY <1>1, <1>2, NoFileIs
<1>4. changes' \in Nat /\ changes <= changes'
  BY <1>1
<1>5. Disked' /\ disk'[f] = t /\ \A g \in Files : g # f => disk'[g] = disk[g]
  BY <1>1, <1>2, <1>3, <1>4, Spotted
<1>6. IndexInv' /\ UNCHANGED <<mem, listing>>
  BY <1>1, <1>5, DiskChanges
<1> QED BY <1>1, <1>2, <1>5, <1>6

LEMMA Restarts ==
  ASSUME Index!Inputs, IndexInv, Index!Restart
  PROVE  /\ IndexInv' /\ UNCHANGED <<disk, changes>> /\ DOMAIN mem'.obj = {}
         /\ \A d \in Dirs : listing'[d].entries = {}
<1>1. mem' = Index!NoMem /\ disk' = disk /\ changes' = changes /\ down' = FALSE
      /\ listing' = [d \in Dirs |-> Index!Unread] /\ due' = [d \in Dirs |-> TRUE]
  BY DEF Index!Restart
<1>2. Ruled(mem)' /\ DOMAIN mem'.obj = {}
  BY <1>1, Begun
<1>3. Disked'
  BY <1>1 DEF IndexInv, Disked
<1>4. listing' \in [Dirs -> [entries : SUBSET Listed, taken : BOOLEAN]] /\ \A d \in Dirs : listing'[d].entries = {}
  BY <1>1, NoFileIs
<1>5. Readings'
  BY <1>4, FS_EmptySet DEF Readings
<1> QED BY <1>1, <1>2, <1>3, <1>4, <1>5 DEF IndexInv

-----------------------------------------------------------------------------
\* What the indices promise is a part of what they are.
LEMMA Agrees ==
  ASSUME IndexInv
  PROVE  Index!IndicesAgree
<1>1. PICK O : O = mem.obj
  OBVIOUS
<1>2. /\ Mapped(O, mem.fileMap) /\ Queued(In(O, "hashless"), mem.hashless) /\ Worked(In(O, "hashing"), mem.hashing)
      /\ Sorted(O, mem.meta) /\ mem.hashless \in Seq(Nat)
  BY <1>1 DEF IndexInv, Ruled, Mems
<1>3. \A s : s # "gone" => Index!Holds(s) = In(O, s)
  BY <1>1 DEF Index!Holds, Index!Live, Index!Objects, In
<1>4. \A o \in Index!Live : mem.fileMap[mem.obj[o].uuid] = o
  BY <1>1, <1>2 DEF Mapped, Index!Live, Index!Objects
<1>5. \A f \in Files : mem.fileMap[f] # 0 => mem.fileMap[f] \in Index!Live
  BY <1>1, <1>2 DEF Mapped, Index!Live, Index!Objects
<1>6. Index!ToSet(mem.hashless) = Index!Holds("hashless") /\ Index!IsInjective(mem.hashless)
  BY <1>2, <1>3 DEF Queued, Index!ToSet, Index!IsInjective
<1>7. mem.hashing = Index!Holds("hashing") /\ Index!Cardinality(mem.hashing) <= Workers
  BY <1>2, <1>3, Counts DEF Worked
<1>8. mem.meta = {<<mem.obj[o].hash, o>> : o \in Index!Holds("hashed")}
  BY <1>1, <1>2, <1>3 DEF Sorted
<1> QED BY <1>4, <1>5, <1>6, <1>7, <1>8 DEF Index!IndicesAgree

LEMMA Keeps ==
  ASSUME Index!Inputs, IndexInv, [Index!Next]_(Index!vars)
  PROVE  IndexInv'
<1>1. CASE Index!Next
  <2>1. ASSUME NEW d \in Dirs, Index!List(d) \/ Index!Update(d)
        PROVE  IndexInv'
    BY <2>1, Lists, Updates
  <2>2. ASSUME NEW o \in DOMAIN mem.obj, Index!Lstat(o) \/ Index!Digest(o) \/ Index!Record(o)
        PROVE  IndexInv'
    BY <2>2, Lstats, Digests, Recorded
  <2>3. ASSUME NEW f \in Files, Index!Write(f) \/ Index!Unlink(f)
        PROVE  IndexInv'
    BY <2>3, Writes, Unlinks
  <2>4. ASSUME NEW f \in Files, NEW d \in Dirs, NEW n \in FileNames, Index!Move(f, d, n)
        PROVE  IndexInv'
    BY <2>4, Moves
  <2> QED BY <1>1, <2>1, <2>2, <2>3, <2>4, Schedules, Restarts DEF Index!Next, Index!Proceed, Index!Objects
<1>2. CASE UNCHANGED Index!vars
  BY <1>2 DEF Index!vars, IndexInv, Disked, Readings
<1> QED BY <1>1, <1>2

\* The indices of the forest agree, for any files, directories and number of workers: every uuid
\* has one object, which is found by it, the sets of hashless, hashing and hashed files hold the
\* objects in that state, and no more workers run than there may.
THEOREM IndexAgrees == Index!Inputs => (Index!Spec => []Index!IndicesAgree)
<1> SUFFICES ASSUME Index!Inputs PROVE Index!Spec => []Index!IndicesAgree
  OBVIOUS
<1>1. Index!Init => IndexInv
  BY IndexStarts
<1>2. IndexInv /\ [Index!Next]_(Index!vars) => IndexInv'
  BY Keeps
<1>3. IndexInv => Index!IndicesAgree
  BY Agrees
<1> QED BY <1>1, <1>2, <1>3, PTL DEF Index!Spec

-----------------------------------------------------------------------------
(* The hashes.                                                             *)

\* A hash is of the file and of a version it has had.  A worker that is to record one has seen the
\* file at the path, unless the file was written since or was not there.
TrueOf(D, f, h) == h = <<>> \/ (h[1] = f /\ (D[f] # Index!NoFile => h[2] <= D[f].version))
StandsAt(D, f, w) == D[f].dir = w.dir /\ D[f].name = w.name
SeenOf(D, f, w) ==
  w.phase = "update" =>
    /\ w.hash # <<>>
    /\ StandsAt(D, f, w) => w.hash[1] = f /\ (w.hash[2] = D[f].version \/ w.time < D[f].version)
Sound(D, n) == {b \in FileRecs : /\ TrueOf(D, b.uuid, b.hash) /\ (b.state = "hashed" => b.hash # <<>>)
                                 /\ b.work.time <= n + 1 /\ SeenOf(D, b.uuid, b.work)}
TruthInv ==
  /\ \A o \in DOMAIN mem.obj : mem.obj[o] \in Sound(disk, changes)
  /\ \A d \in Dirs : \A x \in listing[d].entries : TrueOf(disk, x.uuid, x.hash)
  /\ \A f \in Files : disk[f].hash = <<>> \/ disk[f].hash = <<f, disk[f].hashed>>

LEMMA EndedSound ==
  ASSUME Index!Inputs, NEW D, NEW n \in Nat, NEW b \in Sound(D, n), Phased(b)
  PROVE  Ended(b) \in Sound(D, n)
<1>1. b \in FileRecs /\ TrueOf(D, b.uuid, b.hash) /\ b.work.time <= n + 1 /\ SeenOf(D, b.uuid, b.work)
  BY DEF Sound
<1>2. PICK s, c : s = Index!Stop(b.work) /\ c = [b EXCEPT !.state = "gone", !.work = s]
  OBVIOUS
<1>3. c \in FileRecs
  BY <1>1, <1>2, EndedIs DEF Ended
<1>4. c.uuid = b.uuid /\ c.hash = b.hash /\ c.state = "gone" /\ c.work = s
  BY <1>1, <1>2 DEF FileRecs
<1>5. s = b.work \/ (s.phase = "none" /\ s.time = 0)
  BY <1>2, NoFileIs DEF Index!Stop
<1>6. s.time <= n + 1
  BY <1>1, <1>5
<1>7. SeenOf(D, b.uuid, s)
  BY <1>1, <1>5 DEF SeenOf
<1>8. c \in Sound(D, n)
  BY <1>1, <1>3, <1>4, <1>6, <1>7 DEF Sound
<1> QED BY <1>2, <1>8 DEF Ended

LEMMA BornSound ==
  ASSUME Index!Inputs, NEW D, NEW n \in Nat, NEW d \in Dirs, NEW x \in Listed, TrueOf(D, x.uuid, x.hash)
  PROVE  Born(d, x) \in Sound(D, n)
<1>1. PICK b : b = Born(d, x)
  OBVIOUS
<1>2. b \in FileRecs /\ b.uuid = x.uuid /\ b.hash = x.hash /\ b.work = Index!Resting
  BY <1>1, BornIs DEF Born
<1>3. b.state = "hashed" => b.hash # <<>>
  BY <1>1, NoFileIs DEF Born
<1>4. b.work.time <= n + 1 /\ SeenOf(D, b.uuid, b.work)
  BY <1>2, NoFileIs DEF SeenOf
<1> QED BY <1>1, <1>2, <1>3, <1>4 DEF Sound

LEMMA AnsweredSound ==
  ASSUME Index!Inputs, NEW D, NEW n \in Nat, NEW b \in Sound(D, n), NEW ok \in BOOLEAN,
         ok => b.work.hash # <<>> /\ TrueOf(D, b.uuid, b.work.hash), NEW c, c = Answered(b, ok)
  PROVE  c \in Sound(D, n)
<1>1. b \in FileRecs /\ TrueOf(D, b.uuid, b.hash)
  BY DEF Sound
<1>2. /\ c \in FileRecs /\ c.uuid = b.uuid /\ c.work = Index!Resting /\ Index!Resting.phase = "none"
      /\ ok => c.hash = b.work.hash
      /\ ~ok => c.state # "hashed" /\ c.hash = b.hash
  BY <1>1, AnsweredIs
<1>3. c.work.time <= n + 1 /\ SeenOf(D, c.uuid, c.work)
  BY <1>2, NoFileIs DEF SeenOf
<1>4. TrueOf(D, c.uuid, c.hash) /\ (c.state = "hashed" => c.hash # <<>>)
  <2>1. CASE ok
    BY <1>2, <2>1
  <2>2. CASE ~ok
    BY <1>1, <1>2, <2>2
  <2> QED BY <2>1, <2>2
<1> QED BY <1>2, <1>3, <1>4 DEF Sound

\* What is true stays so while a file only becomes newer, and a worker's path is not taken by its file.
Newer(D, E, f) == E[f] # Index!NoFile => D[f] # Index!NoFile /\ D[f].version \in Nat /\ E[f].version \in Nat
                                          /\ D[f].version <= E[f].version
LEMMA TrueLater ==
  ASSUME NEW D, NEW E, NEW f, NEW h \in Hashes, TrueOf(D, f, h), Newer(D, E, f)
  PROVE  TrueOf(E, f, h)
<1>1. CASE h = <<>>
  BY <1>1 DEF TrueOf
<1>2. CASE h # <<>>
  <2>1. h[2] \in Nat /\ h[1] = f /\ (D[f] # Index!NoFile => h[2] <= D[f].version)
    BY <1>2 DEF Hashes, TrueOf
  <2> QED BY <2>1 DEF TrueOf, Newer
<1> QED BY <1>1, <1>2

FollowsOn(D, E, f, w) == w.phase = "update" /\ StandsAt(E, f, w) =>
                         StandsAt(D, f, w) /\ (E[f].version = D[f].version \/ w.time < E[f].version)
LEMMA SoundLater ==
  ASSUME NEW D, NEW E, NEW n \in Nat, NEW m \in Nat, n <= m, NEW b \in Sound(D, n), Newer(D, E, b.uuid),
         FollowsOn(D, E, b.uuid, b.work)
  PROVE  b \in Sound(E, m)
<1>1. /\ b \in FileRecs /\ TrueOf(D, b.uuid, b.hash) /\ (b.state = "hashed" => b.hash # <<>>)
      /\ b.work.time <= n + 1 /\ SeenOf(D, b.uuid, b.work)
  BY DEF Sound
<1>2. b.hash \in Hashes /\ b.work.time \in Nat
  BY <1>1 DEF FileRecs, WorkRecs
<1>3. TrueOf(E, b.uuid, b.hash)
  BY <1>1, <1>2, TrueLater
<1>4. b.work.time <= m + 1
  BY <1>1, <1>2
<1>5. SeenOf(E, b.uuid, b.work)
  BY <1>1 DEF SeenOf, FollowsOn
<1> QED BY <1>1, <1>3, <1>4, <1>5 DEF Sound

\* One object changes and the others do not.
LEMMA OneSound ==
  ASSUME IndexInv, NEW D, NEW n, NEW o \in DOMAIN mem.obj, NEW c \in Sound(D, n),
         mem'.obj = [mem.obj EXCEPT ![o] = c], \A p \in DOMAIN mem.obj : p # o => mem.obj[p] \in Sound(D, n)
  PROVE  \A p \in DOMAIN mem'.obj : mem'.obj[p] \in Sound(D, n)
<1>1. PICK O, Q : O = mem.obj /\ Q = mem'.obj
  OBVIOUS
<1>2. O \in Seq(FileRecs) /\ o \in DOMAIN O /\ Q = [O EXCEPT ![o] = c]
  BY <1>1 DEF IndexInv, Ruled, Mems
<1>3. DOMAIN Q = DOMAIN O /\ Q[o] = c /\ \A p \in DOMAIN O : p # o => Q[p] = O[p]
  BY <1>2
<1> QED BY <1>1, <1>2, <1>3

\* A worker is told of on the disk there is then.
LEMMA CalledSound ==
  ASSUME Index!Inputs, IndexInv, NEW D, NEW n \in Nat, \A p \in DOMAIN mem.obj : mem.obj[p] \in Sound(D, n),
         NEW o \in DOMAIN mem.obj, NEW ok \in BOOLEAN, CalledOf(o, ok),
         ok => mem.obj[o].work.hash # <<>> /\ TrueOf(D, mem.obj[o].uuid, mem.obj[o].work.hash)
  PROVE  \A p \in DOMAIN mem'.obj : mem'.obj[p] \in Sound(D, n)
<1>1. CASE mem' = mem
  BY <1>1
<1>2. CASE mem'.obj = [mem.obj EXCEPT ![o] = Answered(mem.obj[o], ok)]
  <2>1. PICK b, c : b = mem.obj[o] /\ c = Answered(b, ok)
    OBVIOUS
  <2>2. b \in Sound(D, n) /\ (ok => b.work.hash # <<>> /\ TrueOf(D, b.uuid, b.work.hash))
    BY <2>1
  <2>3. c \in Sound(D, n)
    BY <2>1, <2>2, AnsweredSound
  <2>4. mem'.obj = [mem.obj EXCEPT ![o] = c]
    BY <1>2, <2>1
  <2> QED BY <2>3, <2>4, OneSound
<1> QED BY <1>1, <1>2 DEF CalledOf

LEMMA WorkedSound ==
  ASSUME IndexInv, NEW D, NEW n \in Nat, \A p \in DOMAIN mem.obj : mem.obj[p] \in Sound(D, n),
         NEW o \in DOMAIN mem.obj, NEW w \in WorkRecs, WorkedOf(o, w), w.time <= n + 1, SeenOf(D, mem.obj[o].uuid, w)
  PROVE  \A p \in DOMAIN mem'.obj : mem'.obj[p] \in Sound(D, n)
<1>1. PICK b, c : b = mem.obj[o] /\ c = [b EXCEPT !.work = w]
  OBVIOUS
<1>2. b \in FileRecs /\ TrueOf(D, b.uuid, b.hash) /\ (b.state = "hashed" => b.hash # <<>>) /\ SeenOf(D, b.uuid, w)
  BY <1>1 DEF Sound
<1>3. c \in FileRecs /\ c.uuid = b.uuid /\ c.hash = b.hash /\ c.state = b.state /\ c.work = w
  BY <1>1, <1>2 DEF FileRecs
<1>4. c \in Sound(D, n)
  BY <1>2, <1>3 DEF Sound
<1>5. mem'.obj = [mem.obj EXCEPT ![o] = c]
  BY <1>1 DEF WorkedOf
<1> QED BY <1>4, <1>5, OneSound

LEMMA TrueStarts ==
  ASSUME Index!Inputs, Index!Init
  PROVE  TruthInv
<1>1. DOMAIN mem.obj = {} /\ \A d \in Dirs : listing[d].entries = {}
  BY Begun, NoFileIs DEF Index!Init
<1>2. \A f \in Files : disk[f].hash = <<>>
  BY NoFileIs DEF Index!Init
<1> QED BY <1>1, <1>2 DEF TruthInv

LEMMA TrueLists ==
  ASSUME Index!Inputs, IndexInv, TruthInv, NEW d \in Dirs, Index!List(d)
  PROVE  TruthInv'
<1>1. mem' = mem /\ disk' = disk /\ changes' = changes
  BY DEF Index!List
<1>2. ASSUME NEW x \in listing'[d].entries
      PROVE  TrueOf(disk, x.uuid, x.hash)
  <2>1. PICK f \in Files : disk[f].dir = d /\ x = Index!Xstat(f)
    BY Lists
  <2>2. x.uuid = f /\ x.hash = (IF disk[f].hashed = disk[f].version THEN disk[f].hash ELSE <<>>)
    BY <2>1, ListedIs DEF IndexInv
  <2>3. disk[f] # Index!NoFile /\ disk[f].version \in Nat
    BY <2>1, NoFileIs DEF IndexInv, Disked, Spots
  <2>4. x.hash = <<>> \/ x.hash = <<f, disk[f].version>>
    BY <2>2 DEF TruthInv
  <2> QED BY <2>2, <2>3, <2>4 DEF TrueOf
<1>3. \A e \in Dirs : e # d => listing'[e] = listing[e]
  BY Lists
<1> QED BY <1>1, <1>2, <1>3 DEF TruthInv

LEMMA TrueUpdates ==
  ASSUME Index!Inputs, IndexInv, TruthInv, NEW d \in Dirs, Index!Update(d)
  PROVE  TruthInv'
<1>1. PICK D, n, K : D = disk /\ n = changes /\ K = Sound(D, n)
  OBVIOUS
<1>2. n \in Nat
  BY <1>1 DEF IndexInv, Disked
<1>3. Of(mem, K)
  BY <1>1 DEF Of, IndexInv, TruthInv
<1>4. Closed(K)
  <2>1. K \subseteq FileRecs
    BY <1>1 DEF Sound
  <2>2. ASSUME NEW b \in K, Phased(b) PROVE Ended(b) \in K
    BY <1>1, <1>2, <2>2, EndedSound
  <2> QED BY <2>1, <2>2 DEF Closed
<1>5. Bears(K, d, listing[d].entries)
  <2> SUFFICES ASSUME NEW x \in listing[d].entries PROVE Born(d, x) \in K
    BY DEF Bears
  <2>1. x \in Listed /\ TrueOf(D, x.uuid, x.hash)
    BY <1>1 DEF IndexInv, Readings, TruthInv
  <2> QED BY <1>1, <1>2, <2>1, BornSound
<1>6. Of(mem', K)
  BY <1>3, <1>4, <1>5, UsedOn
<1>7. disk' = disk /\ changes' = changes
  BY DEF Index!Update
<1>8. \A e \in Dirs : listing'[e].entries \in {{}, listing[e].entries}
  BY Updates
<1>9. \A e \in Dirs : \A x \in listing'[e].entries : TrueOf(disk, x.uuid, x.hash)
  BY <1>8 DEF TruthInv
<1> QED BY <1>1, <1>6, <1>7, <1>9 DEF Of, TruthInv

LEMMA TrueSchedules ==
  ASSUME Index!Inputs, IndexInv, TruthInv, Index!Schedule
  PROVE  TruthInv'
<1>1. changes \in Nat /\ Ruled(mem)
  BY DEF IndexInv, Disked
<1>2. ASSUME NEW o \in DOMAIN mem.obj PROVE Index!Started(o) \in Sound(disk, changes)
  <2>1. PICK c, b : c = Index!Started(o) /\ b = mem.obj[o]
    OBVIOUS
  <2>2. c \in FileRecs /\ c.state = "hashing" /\ c.uuid = b.uuid /\ c.hash = b.hash
        /\ c.work.phase = "lstat" /\ c.work.time = 0
    BY <1>1, <2>1, StartedIs
  <2>3. TrueOf(disk, c.uuid, c.hash)
    BY <2>1, <2>2 DEF TruthInv, Sound
  <2>4. c.work.time <= changes + 1 /\ SeenOf(disk, c.uuid, c.work)
    BY <1>1, <2>2 DEF SeenOf
  <2> QED BY <2>1, <2>2, <2>3, <2>4 DEF Sound
<1>3. /\ DOMAIN mem'.obj = DOMAIN mem.obj
      /\ \A o \in DOMAIN mem.obj : mem'.obj[o] = mem.obj[o] \/ mem'.obj[o] = Index!Started(o)
  BY <1>1, Scheduled
<1>4. \A o \in DOMAIN mem.obj : mem'.obj[o] \in Sound(disk, changes)
  BY <1>2, <1>3 DEF TruthInv
<1>5. UNCHANGED <<disk, listing, changes>>
  BY Schedules
<1> QED BY <1>3, <1>4, <1>5 DEF TruthInv

LEMMA TrueLstats ==
  ASSUME Index!Inputs, IndexInv, TruthInv, NEW o \in DOMAIN mem.obj, Index!Lstat(o)
  PROVE  TruthInv'
<1>1. UNCHANGED <<disk, listing, changes>> /\ changes \in Nat
      /\ \A p \in DOMAIN mem.obj : mem.obj[p] \in Sound(disk, changes)
  BY Lstats DEF IndexInv, Disked, TruthInv
<1>2. \A p \in DOMAIN mem'.obj : mem'.obj[p] \in Sound(disk, changes)
  <2>1. CASE CalledOf(o, FALSE)
    BY <1>1, <2>1, CalledSound
  <2>2. CASE ~CalledOf(o, FALSE)
    <3>1. PICK f \in Files, w \in WorkRecs :
            WorkedOf(o, w) /\ disk[f] # Index!NoFile /\ w.time = disk[f].version /\ w.phase = "digest"
      BY <2>2, Lstats
    <3>2. w.time <= changes + 1 /\ SeenOf(disk, mem.obj[o].uuid, w)
      BY <3>1 DEF IndexInv, Disked, SeenOf
    <3> QED BY <1>1, <3>1, <3>2, WorkedSound
  <2> QED BY <2>1, <2>2
<1> QED BY <1>1, <1>2 DEF TruthInv

LEMMA TrueDigests ==
  ASSUME Index!Inputs, IndexInv, TruthInv, NEW o \in DOMAIN mem.obj, Index!Digest(o)
  PROVE  TruthInv'
<1>1. UNCHANGED <<disk, listing, changes>> /\ changes \in Nat /\ Disked /\ mem.obj[o].uuid \in Files
      /\ \A p \in DOMAIN mem.obj : mem.obj[p] \in Sound(disk, changes)
  BY Digests, WorkIs DEF IndexInv, Disked, TruthInv
<1>2. \A p \in DOMAIN mem'.obj : mem'.obj[p] \in Sound(disk, changes)
  <2>1. CASE CalledOf(o, FALSE)
    BY <1>1, <2>1, CalledSound
  <2>2. CASE ~CalledOf(o, FALSE)
    <3>1. PICK f \in Files, w \in WorkRecs :
            /\ WorkedOf(o, w) /\ disk[f] # Index!NoFile /\ w.hash = <<f, disk[f].version>>
            /\ disk[f].dir = w.dir /\ disk[f].name = w.name /\ w.time = mem.obj[o].work.time /\ w.phase = "update"
      BY <2>2, Digests
    <3>2. w.time <= changes + 1
      BY <1>1, <3>1 DEF Sound
    <3>3. disk[f].dir \in Dirs
      BY <1>1, <3>1 DEF Disked, Spots
    <3>4. StandsAt(disk, mem.obj[o].uuid, w) => mem.obj[o].uuid = f
      BY <1>1, <3>1, <3>3 DEF Disked, StandsAt
    <3>5. SeenOf(disk, mem.obj[o].uuid, w)
      BY <3>1, <3>4 DEF SeenOf
    <3> QED BY <1>1, <3>1, <3>2, <3>5, WorkedSound
  <2> QED BY <2>1, <2>2
<1> QED BY <1>1, <1>2 DEF TruthInv

LEMMA TrueRecords ==
  ASSUME Index!Inputs, IndexInv, TruthInv, NEW o \in DOMAIN mem.obj, Index!Record(o)
  PROVE  TruthInv'
<1>1. UNCHANGED <<listing, changes>> /\ changes \in Nat /\ Disked /\ Disked' /\ mem.obj[o].uuid \in Files
      /\ \A p \in DOMAIN mem.obj : mem.obj[p] \in Sound(disk, changes)
  BY Recorded, WorkIs DEF IndexInv, Disked, TruthInv
<1>2. CASE CalledOf(o, FALSE) /\ UNCHANGED disk
  <2>1. \A p \in DOMAIN mem'.obj : mem'.obj[p] \in Sound(disk, changes)
    BY <1>1, <1>2, CalledSound
  <2> QED BY <1>1, <1>2, <2>1 DEF TruthInv
<1>3. CASE ~(CalledOf(o, FALSE) /\ UNCHANGED disk)
  <2>1. PICK w, f, D, E : w = mem.obj[o].work /\ f = mem.obj[o].uuid /\ D = disk /\ E = disk'
    OBVIOUS
  <2>2. /\ CalledOf(o, TRUE) /\ f \in Files /\ D[f] # Index!NoFile
        /\ D[f].dir = w.dir /\ D[f].name = w.name /\ D[f].version = w.time
        /\ E[f] = [D[f] EXCEPT !.hashed = w.time, !.hash = w.hash]
        /\ \A g \in Files : g # f => E[g] = D[g]
    BY <1>3, <2>1, Recorded
  <2>3. D[f] \in Spots /\ E[f] # Index!NoFile
    <3>1. D[f] \in Spots
      BY <1>1, <2>1, <2>2 DEF Disked
    <3>2. E[f].dir \in Dirs
      BY <2>2, <3>1 DEF Spots
    <3> QED BY <3>1, <3>2, NoFileIs
  <2>4. /\ E[f].dir = D[f].dir /\ E[f].name = D[f].name /\ E[f].version = D[f].version
        /\ E[f].hashed = w.time /\ E[f].hash = w.hash
    BY <2>2, <2>3 DEF Spots
  <2>5. w.hash = <<f, w.time>>
    <3>1. w.phase = "update" /\ w.hash \in Hashes /\ w.time \in Nat
      <4>1. mem.obj[o].work \in WorkRecs /\ mem.obj[o].work.phase = "update"
        BY Recorded, WorkIs DEF IndexInv
      <4> QED BY <2>1, <4>1 DEF WorkRecs
    <3>2. SeenOf(D, f, w)
      BY <1>1, <2>1 DEF Sound
    <3>3. w.hash # <<>> /\ w.hash[1] = f /\ w.hash[2] = w.time
      BY <2>2, <3>1, <3>2 DEF SeenOf, StandsAt
    <3> QED BY <3>1, <3>3 DEF Hashes
  <2>6. \A g \in Files : Newer(D, E, g) /\ \A v : FollowsOn(D, E, g, v)
    <3> SUFFICES ASSUME NEW g \in Files PROVE Newer(D, E, g) /\ \A v : FollowsOn(D, E, g, v)
      OBVIOUS
    <3>1. E[g].dir = D[g].dir /\ E[g].name = D[g].name /\ E[g].version = D[g].version
      BY <2>2, <2>4
    <3>2. E[g] # Index!NoFile => D[g] # Index!NoFile /\ D[g].version \in Nat
      <4>1. E[g] # Index!NoFile => D[g] # Index!NoFile
        BY <2>2
      <4>2. D[g] # Index!NoFile => D[g] \in Spots
        BY <1>1, <2>1 DEF Disked
      <4> QED BY <4>1, <4>2 DEF Spots
    <3> QED BY <3>1, <3>2 DEF Newer, FollowsOn, StandsAt
  <2>7. \A p \in DOMAIN mem.obj : mem.obj[p] \in Sound(E, changes)
    <3> SUFFICES ASSUME NEW p \in DOMAIN mem.obj PROVE mem.obj[p] \in Sound(E, changes)
      OBVIOUS
    <3>1. PICK b : b = mem.obj[p]
      OBVIOUS
    <3>2. b \in Sound(D, changes) /\ b.uuid \in Files
      BY <1>1, <2>1, <3>1, WorkIs DEF IndexInv
    <3>3. Newer(D, E, b.uuid) /\ FollowsOn(D, E, b.uuid, b.work)
      BY <2>6, <3>2
    <3> QED BY <1>1, <3>1, <3>2, <3>3, SoundLater
  <2>8. TrueOf(E, f, w.hash) /\ w.hash # <<>>
    BY <2>2, <2>3, <2>4, <2>5 DEF TrueOf, Spots
  <2>9. \A p \in DOMAIN mem'.obj : mem'.obj[p] \in Sound(E, changes)
    BY <1>1, <2>1, <2>2, <2>7, <2>8, CalledSound
  <2>10. \A d \in Dirs : \A x \in listing[d].entries : TrueOf(E, x.uuid, x.hash)
    <3> SUFFICES ASSUME NEW d \in Dirs, NEW x \in listing[d].entries PROVE TrueOf(E, x.uuid, x.hash)
      OBVIOUS
    <3>1. x \in Listed /\ TrueOf(D, x.uuid, x.hash)
      BY <2>1 DEF IndexInv, Readings, TruthInv
    <3>2. x.uuid \in Files /\ x.hash \in Hashes
      BY <3>1 DEF Listed
    <3> QED BY <2>6, <3>1, <3>2, TrueLater
  <2>11. \A g \in Files : E[g].hash = <<>> \/ E[g].hash = <<g, E[g].hashed>>
    <3> SUFFICES ASSUME NEW g \in Files PROVE E[g].hash = <<>> \/ E[g].hash = <<g, E[g].hashed>>
      OBVIOUS
    <3>1. CASE g = f
      BY <2>4, <2>5, <3>1
    <3>2. CASE g # f
      BY <2>1, <2>2, <3>2 DEF TruthInv
    <3> QED BY <3>1, <3>2
  <2> QED BY <1>1, <2>1, <2>9, <2>10, <2>11 DEF TruthInv
<1> QED BY <1>2, <1>3

\* The disk changes and the index does not.
LEMMA TrueChanges ==
  ASSUME IndexInv, TruthInv, UNCHANGED <<mem, listing>>, changes' = changes + 1,
         \A g \in Files : Newer(disk, disk', g),
         \A o \in DOMAIN mem.obj : FollowsOn(disk, disk', mem.obj[o].uuid, mem.obj[o].work),
         \A g \in Files : disk'[g].hash = <<>> \/ (disk'[g].hash = disk[g].hash /\ disk'[g].hashed = disk[g].hashed)
  PROVE  TruthInv'
<1>1. PICK D, E, n, m : D = disk /\ E = disk' /\ n = changes /\ m = changes'
  OBVIOUS
<1>2. n \in Nat /\ m \in Nat /\ n <= m
  BY <1>1 DEF IndexInv, Disked
<1>3. \A o \in DOMAIN mem.obj : mem.obj[o] \in Sound(E, m)
  <2> SUFFICES ASSUME NEW o \in DOMAIN mem.obj PROVE mem.obj[o] \in Sound(E, m)
    OBVIOUS
  <2>1. PICK b : b = mem.obj[o]
    OBVIOUS
  <2>2. b \in Sound(D, n) /\ b.uuid \in Files
    BY <1>1, <2>1, WorkIs DEF IndexInv, TruthInv
  <2>3. Newer(D, E, b.uuid) /\ FollowsOn(D, E, b.uuid, b.work)
    BY <1>1, <2>1, <2>2
  <2> QED BY <1>2, <2>1, <2>2, <2>3, SoundLater
<1>4. \A d \in Dirs : \A x \in listing[d].entries : TrueOf(E, x.uuid, x.hash)
  <2> SUFFICES ASSUME NEW d \in Dirs, NEW x \in listing[d].entries PROVE TrueOf(E, x.uuid, x.hash)
    OBVIOUS
  <2>1. x \in Listed /\ TrueOf(D, x.uuid, x.hash)
    BY <1>1 DEF IndexInv, Readings, TruthInv
  <2>2. x.uuid \in Files /\ x.hash \in Hashes /\ Newer(D, E, x.uuid)
    BY <1>1, <2>1 DEF Listed
  <2> QED BY <2>1, <2>2, TrueLater
<1>5. \A g \in Files : E[g].hash = <<>> \/ E[g].hash = <<g, E[g].hashed>>
  BY <1>1 DEF TruthInv
<1> QED BY <1>1, <1>3, <1>4, <1>5 DEF TruthInv

\* A file that the disk has is as it was seen.
LEMMA SpotIs ==
  ASSUME Disked, NEW f \in Files, disk[f] # Index!NoFile
  PROVE  disk[f].dir \in Dirs /\ disk[f].version \in Nat /\ disk[f].version <= changes + 1 /\ disk[f] \in Spots
  BY DEF Disked, Spots

LEMMA TrueMoves ==
  ASSUME Index!Inputs, IndexInv, TruthInv, NEW f \in Files, NEW d \in Dirs, NEW n \in FileNames, Index!Move(f, d, n),
         Index!NoReturn
  PROVE  TruthInv'
<1>1. /\ UNCHANGED <<mem, listing>> /\ changes' = changes + 1
      /\ disk'[f].hash = disk[f].hash /\ disk'[f].hashed = disk[f].hashed /\ disk'[f].version = disk[f].version
      /\ disk[f] # Index!NoFile /\ \A g \in Files : g # f => disk'[g] = disk[g]
  BY Moves
<1>2. \A g \in Files : Newer(disk, disk', g)
  <2> SUFFICES ASSUME NEW g \in Files PROVE Newer(disk, disk', g)
    OBVIOUS
  <2>1. disk'[g].version = disk[g].version /\ (disk'[g] # Index!NoFile => disk[g] # Index!NoFile)
    BY <1>1
  <2>2. disk[g] # Index!NoFile => disk[g].version \in Nat
    BY SpotIs DEF IndexInv
  <2> QED BY <2>1, <2>2 DEF Newer
<1>3. ASSUME NEW o \in DOMAIN mem.obj
      PROVE  FollowsOn(disk, disk', mem.obj[o].uuid, mem.obj[o].work)
  <2>1. PICK b : b = mem.obj[o]
    OBVIOUS
  <2>2. b.uuid \in Files
    BY <2>1, WorkIs DEF IndexInv
  <2>3. b.work.phase = "update" /\ StandsAt(disk', b.uuid, b.work) => StandsAt(disk, b.uuid, b.work)
    BY <2>1, <2>2 DEF Index!NoReturn, Index!Objects, Index!Work, Index!Found, Index!At, StandsAt
  <2>4. disk'[b.uuid].version = disk[b.uuid].version
    BY <1>1, <2>2
  <2> QED BY <2>1, <2>3, <2>4 DEF FollowsOn
<1>4. \A g \in Files : disk'[g].hash = disk[g].hash /\ disk'[g].hashed = disk[g].hashed
  BY <1>1
<1> QED BY <1>1, <1>2, <1>3, <1>4, TrueChanges

LEMMA TrueWrites ==
  ASSUME Index!Inputs, IndexInv, TruthInv, NEW f \in Files, Index!Write(f)
  PROVE  TruthInv'
<1>1. /\ UNCHANGED <<mem, listing>> /\ changes' = changes + 1 /\ changes \in Nat /\ Disked
      /\ disk[f] # Index!NoFile /\ disk'[f] = [disk[f] EXCEPT !.version = changes + 2]
      /\ \A g \in Files : g # f => disk'[g] = disk[g]
  BY Writes DEF IndexInv, Disked
<1>2. /\ disk'[f].dir = disk[f].dir /\ disk'[f].name = disk[f].name /\ disk'[f].version = changes + 2
      /\ disk'[f].hash = disk[f].hash /\ disk'[f].hashed = disk[f].hashed
  <2>1. disk[f] \in Spots
    BY <1>1, SpotIs
  <2> QED BY <1>1, <2>1 DEF Spots
<1>3. \A g \in Files : Newer(disk, disk', g)
  <2> SUFFICES ASSUME NEW g \in Files PROVE Newer(disk, disk', g)
    OBVIOUS
  <2>1. disk[g] # Index!NoFile => disk[g].version \in Nat /\ disk[g].version <= changes + 1
    BY <1>1, SpotIs
  <2>2. CASE g = f
    <3>1. PICK v, u : v = disk[f].version /\ u = disk'[f].version
      OBVIOUS
    <3>2. v \in Nat /\ u \in Nat /\ v <= u
      BY <1>1, <1>2, <2>1, <2>2, <3>1
    <3> QED BY <1>1, <2>2, <3>1, <3>2 DEF Newer
  <2>3. CASE g # f
    BY <1>1, <2>1, <2>3 DEF Newer
  <2> QED BY <2>2, <2>3
<1>4. ASSUME NEW o \in DOMAIN mem.obj
      PROVE  FollowsOn(disk, disk', mem.obj[o].uuid, mem.obj[o].work)
  <2>1. PICK b : b = mem.obj[o]
    OBVIOUS
  <2>2. b.uuid \in Files /\ b.work.time \in Nat /\ b.work.time <= changes + 1
    BY <2>1, WorkIs DEF IndexInv, TruthInv, Sound, WorkRecs
  <2>3. StandsAt(disk', b.uuid, b.work) => StandsAt(disk, b.uuid, b.work)
    BY <1>1, <1>2, <2>2 DEF StandsAt
  <2>4. disk'[b.uuid].version = disk[b.uuid].version \/ b.work.time < disk'[b.uuid].version
    <3>1. b.work.time < changes + 2
      BY <1>1, <2>2
    <3> QED BY <1>1, <1>2, <2>2, <3>1
  <2> QED BY <2>1, <2>3, <2>4 DEF FollowsOn
<1>5. \A g \in Files : disk'[g].hash = disk[g].hash /\ disk'[g].hashed = disk[g].hashed
  BY <1>1, <1>2
<1> QED BY <1>1, <1>3, <1>4, <1>5, TrueChanges

LEMMA TrueUnlinks ==
  ASSUME Index!Inputs, IndexInv, TruthInv, NEW f \in Files, Index!Unlink(f)
  PROVE  TruthInv'
<1>1. /\ UNCHANGED <<mem, listing>> /\ changes' = changes + 1
      /\ disk'[f] = Index!NoFile /\ \A g \in Files : g # f => disk'[g] = disk[g]
  BY Unlinks
<1>2. \A g \in Files : Newer(disk, disk', g)
  <2> SUFFICES ASSUME NEW g \in Files PROVE Newer(disk, disk', g)
    OBVIOUS
  <2>1. disk[g] # Index!NoFile => disk[g].version \in Nat
    BY SpotIs DEF IndexInv
  <2> QED BY <1>1, <2>1 DEF Newer
<1>3. ASSUME NEW o \in DOMAIN mem.obj
      PROVE  FollowsOn(disk, disk', mem.obj[o].uuid, mem.obj[o].work)
  <2>1. PICK b : b = mem.obj[o]
    OBVIOUS
  <2>2. b.uuid \in Files /\ (b.work.phase = "update" => b.work.dir \in Dirs)
    BY <2>1, WorkIs DEF IndexInv
  <2>3. CASE b.uuid = f
    BY <1>1, <2>1, <2>2, <2>3, NoFileIs DEF FollowsOn, StandsAt
  <2>4. CASE b.uuid # f
    BY <1>1, <2>1, <2>2, <2>4 DEF FollowsOn, StandsAt
  <2> QED BY <2>3, <2>4
<1>4. \A g \in Files : disk'[g].hash = <<>> \/ (disk'[g].hash = disk[g].hash /\ disk'[g].hashed = disk[g].hashed)
  BY <1>1, NoFileIs
<1> QED BY <1>1, <1>2, <1>3, <1>4, TrueChanges

LEMMA TrueRestarts ==
  ASSUME Index!Inputs, IndexInv, TruthInv, Index!Restart
  PROVE  TruthInv'
  BY Restarts DEF TruthInv

LEMMA TrueKeeps ==
  ASSUME Index!Inputs, IndexInv, TruthInv, [Index!Next]_(Index!vars), [Index!NoReturn]_(Index!vars)
  PROVE  TruthInv'
<1>1. CASE UNCHANGED Index!vars
  BY <1>1 DEF Index!vars, TruthInv
<1>2. CASE Index!Next /\ Index!NoReturn
  <2>1. ASSUME NEW d \in Dirs, Index!List(d) \/ Index!Update(d)
        PROVE  TruthInv'
    BY <2>1, TrueLists, TrueUpdates
  <2>2. ASSUME NEW o \in DOMAIN mem.obj, Index!Lstat(o) \/ Index!Digest(o) \/ Index!Record(o)
        PROVE  TruthInv'
    BY <2>2, TrueLstats, TrueDigests, TrueRecords
  <2>3. ASSUME NEW f \in Files, Index!Write(f) \/ Index!Unlink(f)
        PROVE  TruthInv'
    BY <2>3, TrueWrites, TrueUnlinks
  <2>4. ASSUME NEW f \in Files, NEW d \in Dirs, NEW n \in FileNames, Index!Move(f, d, n)
        PROVE  TruthInv'
    BY <1>2, <2>4, TrueMoves
  <2> QED BY <1>2, <2>1, <2>2, <2>3, <2>4, TrueSchedules, TrueRestarts DEF Index!Next, Index!Proceed, Index!Objects
<1> QED BY <1>1, <1>2

LEMMA Owned ==
  ASSUME IndexInv, TruthInv, Index!Inputs
  PROVE  Index!HashIsOwn
<1>1. ASSUME NEW o \in Index!Holds("hashed")
      PROVE  /\ mem.obj[o].hash[1] = mem.obj[o].uuid
             /\ disk[mem.obj[o].uuid] # Index!NoFile => mem.obj[o].hash[2] <= disk[mem.obj[o].uuid].version
  <2>1. o \in DOMAIN mem.obj /\ mem.obj[o].state = "hashed"
    BY DEF Index!Holds, Index!Live, Index!Objects
  <2>2. TrueOf(disk, mem.obj[o].uuid, mem.obj[o].hash) /\ mem.obj[o].hash # <<>>
    BY <2>1 DEF TruthInv, Sound
  <2> QED BY <2>2 DEF TrueOf
<1>2. \A f \in Files : disk[f].hash = Index!NoHash \/ disk[f].hash = <<f, disk[f].hashed>>
  BY NoFileIs DEF TruthInv
<1> QED BY <1>1, <1>2 DEF Index!HashIsOwn

\* A file is never indexed by the hash of another, nor by that of a content it has not had, for any
\* files, directories and number of workers and however the disk changes, as long as no file comes
\* back to the path where its worker is about to record what it digested there.
THEOREM HashesAreOwn ==
  Index!Inputs => (Index!Spec /\ [][Index!NoReturn]_(Index!vars) => []Index!HashIsOwn)
<1> SUFFICES ASSUME Index!Inputs PROVE Index!Spec /\ [][Index!NoReturn]_(Index!vars) => []Index!HashIsOwn
  OBVIOUS
<1>1. Index!Init => IndexInv /\ TruthInv
  BY IndexStarts, TrueStarts
<1>2. IndexInv /\ TruthInv /\ [Index!Next]_(Index!vars) /\ [Index!NoReturn]_(Index!vars) => IndexInv' /\ TruthInv'
  BY Keeps, TrueKeeps
<1>3. IndexInv /\ TruthInv => Index!HashIsOwn
  BY Owned
<1> QED BY <1>1, <1>2, <1>3, PTL DEF Index!Spec

-----------------------------------------------------------------------------
(* Xstat.                                                                  *)

\* The tags there are: those of the jobs and the one that may be on the file at first.
TagsThereAre == {2} \cup UNION {j.tags : j \in Jobs}
Attributes == [uuid : Nat, hash : Seq(Nat), time : Nat, tags : SUBSET TagsThereAre]
Inodes == [mtime : Nat, content : Seq(Nat), attr : Attributes]
Processes ==
  [pc : {"idle", "lstat", "get", "set", "decide", "ulstat", "uget", "uset", "digest",
         "concat", "check", "force", "rename", "done"},
   job : Jobs \cup {Attrs!NoProc.job}, time : Nat, attr : Attributes, hash : Seq(Nat),
   content : Seq(Nat), stale : BOOLEAN, past : BOOLEAN,
   answer : {"none", "ok", "invalid", "changed", "instance", "mismatch", "race"}]

\* Which process is where with what.
Doing(v) ==
  /\ v.pc \in {"get", "set", "decide"} => v.job.do # "hash"
  /\ v.pc = "digest" => v.job.do = "hash"
  /\ v.pc \in {"ulstat", "uget", "uset"} => v.job.do \in Attrs!Tagging \cup {"hash"}
  /\ v.pc \in {"concat", "check", "rename"} => v.job.do = "APPEND" /\ v.attr.hash # <<>>
  /\ v.pc = "done" <=> v.answer # "none"
AttrTyped ==
  /\ file \in Seq(Inodes) /\ Len(file) \in Nat \ {0} /\ path \in 1 .. Len(file)
  /\ proc \in [Procs -> Processes] /\ \A p \in Procs : Doing(proc[p])
  /\ lockset \in BOOLEAN /\ uuids \in Nat /\ writes \in Nat /\ kept \in SUBSET TagsThereAre
Locked ==
  /\ \A p, q \in Procs : proc[p].pc = "set" /\ proc[q].pc = "set" => p = q
  /\ \A p \in Procs : proc[p].pc = "set" => lockset

\* What was written at each time.  A time is still to come while APPEND has a file with it that
\* is not in place; a time that was and is not the file's any more does not come again.
Histories == [1 .. writes + 1 -> Seq(Nat)]
Stamp(v) == v.content[Len(v.content)]
Carries(v) == v.pc \in {"check", "rename"}
Awaited(t) == \E q \in Procs : Carries(proc[q]) /\ Stamp(proc[q]) = t
Past(t) == t # file[path].mtime /\ ~Awaited(t)
TrueTo(C, a) == a.hash # <<>> => a.time \in 1 .. writes + 1 /\ a.hash = C[a.time]
Dated(v) == v.pc \notin {"idle", "lstat", "done"}
Reads(v) == v.pc \in {"set", "decide", "concat", "check", "rename"}
FilesTrue(C) ==
  \A f \in Attrs!Inums : /\ file[f].mtime \in 1 .. writes + 1 /\ ~Awaited(file[f].mtime)
                         /\ file[f].content = C[file[f].mtime]
                         /\ TrueTo(C, file[f].attr)
ProcTrue(C, v) ==
  /\ TrueTo(C, v.attr)
  /\ Dated(v) => v.time \in 1 .. writes + 1 /\ ~Awaited(v.time)
  /\ Reads(v) /\ v.attr.hash # <<>> => v.attr.time = v.time
  /\ v.pc = "ulstat" /\ v.job.do = "hash" => v.hash = C[v.time] \/ Past(v.time)
  /\ v.pc = "uget" /\ v.job.do = "hash" => v.hash = C[v.time]
  /\ Carries(v) => /\ v.content # <<>> /\ Stamp(v) \in 1 .. writes + 1 /\ v.content = C[Stamp(v)]
                   /\ \/ v.content = Append(C[v.time], Stamp(v))
                      \/ v.pc = "check" /\ Past(v.time)
Apart == \A p, q \in Procs :
           Carries(proc[p]) /\ Carries(proc[q]) /\ Stamp(proc[p]) = Stamp(proc[q]) => p = q
TrueBy(C) == FilesTrue(C) /\ \A p \in Procs : ProcTrue(C, proc[p])
Remembered == Apart /\ \E C \in Histories : TrueBy(C)

\* Who the file is: whoever writes, and read the attribute of this very file, has its uuid, or
\* gives it its first one, under the lock.
Named ==
  /\ \A f \in Attrs!Inums : /\ file[f].attr.uuid \in 0 .. uuids
                            /\ file[f].attr.uuid = 0 => file[f].attr = Attrs!NoAttr
  /\ \A p \in Procs :
       /\ proc[p].attr.uuid \in 0 .. uuids
       /\ Dated(proc[p]) /\ proc[p].pc # "get" => proc[p].attr.uuid # 0
       /\ proc[p].pc = "lstat" /\ proc[p].job.do = "hash" => proc[p].attr.uuid # 0
Fresh(w) == /\ w.pc = "set" => file[path].attr.uuid \in {0, w.attr.uuid}
            /\ w.pc = "uset" => file[path].attr.uuid = w.attr.uuid
OfFile == \A p \in Procs : proc[p].past \/ Fresh(proc[p])

\* Who will write has the tags that must stay, or has not seen the last change.
Tagged(v) ==
  /\ ~v.stale /\ v.pc \in {"set", "decide", "ulstat", "uget"} /\ v.job.do # "hash" => kept \subseteq v.attr.tags
  /\ ~v.stale /\ v.pc = "uset" /\ v.job.do \in {"hash", "ADDTAGS"} => kept \subseteq v.attr.tags
  /\ ~v.stale /\ v.pc = "uset" /\ v.job.do = "REMOVETAGS" => kept \ v.job.tags \subseteq v.attr.tags
  /\ v.pc = "uset" /\ v.job.do = "ADDTAGS" => v.job.tags \subseteq v.attr.tags
KeepsTags == kept \subseteq file[path].attr.tags /\ \A p \in Procs : Tagged(proc[p])

XInv == AttrTyped /\ Locked /\ Remembered /\ Named /\ OfFile /\ KeepsTags

-----------------------------------------------------------------------------
(* One process goes on, and neither the file nor the path changes.         *)

\* What is known of the process where it goes.
Suits(p, w) ==
  /\ w \in Processes /\ Doing(w)
  /\ w.pc = "set" => ~lockset
  /\ Carries(w) => Carries(proc[p]) /\ w.content = proc[p].content
  /\ Dated(w) /\ w.pc # "get" => w.attr.uuid # 0
  /\ w.pc = "lstat" /\ w.job.do = "hash" => w.attr.uuid # 0
  /\ Tagged(w)

LEMMA Transits ==
  ASSUME XInv, NEW p \in Procs, NEW w, Suits(p, w),
         proc' = [proc EXCEPT ![p] = w], UNCHANGED <<file, path, writes, kept>>,
         uuids' \in Nat, uuids <= uuids', w.attr.uuid \in 0 .. uuids',
         lockset' \in BOOLEAN, lockset \/ w.pc = "set" => lockset',
         \A C \in Histories : TrueBy(C) => ProcTrue(C, w),
         Fresh(w)
  PROVE  XInv'
<1>0. \A q \in Procs : proc'[q] = IF q = p THEN w ELSE proc[q]
  BY DEF XInv, AttrTyped
<1>1. AttrTyped'
  BY <1>0 DEF XInv, AttrTyped, Suits
<1>2. Locked'
  BY <1>0 DEF XInv, Locked, Suits
<1>3. \A t : Awaited(t)' => Awaited(t)
  BY <1>0 DEF Awaited, Suits, Stamp
<1>4. Remembered'
  <2>1. Apart'
    BY <1>0 DEF XInv, Remembered, Apart, Suits, Stamp
  <2>2. PICK C \in Histories : TrueBy(C)
    BY DEF XInv, Remembered
  <2>3. FilesTrue(C)'
    BY <1>3, <2>2 DEF TrueBy, FilesTrue, TrueTo, Attrs!Inums
  <2>4. \A t : Past(t) => Past(t)'
    BY <1>3 DEF Past
  <2>5. ASSUME NEW v, ProcTrue(C, v) PROVE ProcTrue(C, v)'
    BY <1>3, <2>4, <2>5 DEF ProcTrue, TrueTo
  <2>6. \A q \in Procs : ProcTrue(C, proc'[q])
    BY <1>0, <2>2 DEF TrueBy
  <2>7. \A q \in Procs : ProcTrue(C, proc[q])'
    BY <2>5, <2>6 DEF ProcTrue, TrueTo
  <2>8. C \in Histories'
    BY DEF Histories
  <2> QED BY <2>1, <2>3, <2>7, <2>8 DEF Remembered, TrueBy
<1>5. Named'
  BY <1>0 DEF XInv, Named, Suits, AttrTyped, Attrs!Inums
<1>6. OfFile'
  BY <1>0 DEF XInv, OfFile, Fresh
<1>7. KeepsTags'
  BY <1>0 DEF XInv, KeepsTags, Tagged, Suits
<1> QED BY <1>1, <1>2, <1>4, <1>5, <1>6, <1>7 DEF XInv

LEMMA MovesOn ==
  ASSUME XInv, NEW p \in Procs, NEW w, Suits(p, w), Fresh(w), w.pc # "set", w.attr.uuid \in 0 .. uuids,
         proc' = [proc EXCEPT ![p] = w], UNCHANGED <<file, path, lockset, uuids, writes, kept>>,
         \A C \in Histories : TrueBy(C) => ProcTrue(C, w)
  PROVE  XInv'
<1>1. /\ uuids' \in Nat /\ uuids <= uuids' /\ w.attr.uuid \in 0 .. uuids'
      /\ lockset' \in BOOLEAN /\ (lockset \/ w.pc = "set" => lockset')
  BY DEF XInv, AttrTyped
<1> HIDE DEF Suits, Fresh, ProcTrue
<1> QED BY <1>1, Transits

\* What a reader makes of the attribute.
LEMMA ReadIs ==
  ASSUME AttrTyped, Named, NEW t \in Nat
  PROVE  LET a == file[path].attr
             r == Attrs!readXattr(path, t)
         IN  /\ r \in Attributes /\ r.uuid \in 1 .. uuids + 1 /\ r.tags = a.tags
             /\ r.hash # <<>> => r = a /\ r.time = t
             /\ ~Attrs!Dirty(path, r) => r = a
             /\ r.uuid > uuids <=> a.uuid = 0
             /\ a.uuid # 0 => r.uuid = a.uuid
<1> DEFINE a == file[path].attr
           r == Attrs!readXattr(path, t)
<1>1. a \in Attributes /\ a.uuid \in 0 .. uuids /\ (a.uuid = 0 => a = Attrs!NoAttr) /\ uuids \in Nat
  <2>1. path \in DOMAIN file /\ file[path] \in Inodes
    BY DEF AttrTyped
  <2> QED BY <2>1 DEF AttrTyped, Named, Inodes, Attrs!Inums
<1> HIDE DEF a
<1>2. r = IF a.uuid = 0 THEN [Attrs!NoAttr EXCEPT !.uuid = uuids + 1]
          ELSE IF a.time = t THEN a ELSE [a EXCEPT !.hash = <<>>, !.time = 0]
  BY DEF Attrs!readXattr, a
<1> HIDE DEF r
<1>3. r \in Attributes /\ r.uuid \in 1 .. uuids + 1 /\ r.tags = a.tags
      /\ (r.hash # <<>> => r = a /\ r.time = t)
      /\ (r.uuid > uuids <=> a.uuid = 0) /\ (a.uuid # 0 => r.uuid = a.uuid)
  <2>1. CASE a.uuid = 0
    BY <1>1, <1>2, <2>1 DEF Attributes, Attrs!NoAttr
  <2>2. CASE a.uuid # 0 /\ a.time = t
    BY <1>1, <1>2, <2>2 DEF Attributes
  <2>3. CASE a.uuid # 0 /\ a.time # t
    <3>1. <<>> \in Seq(Nat)
      OBVIOUS
    <3>2. PICK e : e = [a EXCEPT !.hash = <<>>, !.time = 0]
      OBVIOUS
    <3>3. e \in Attributes /\ e.hash = <<>> /\ e.uuid = a.uuid /\ e.tags = a.tags
      BY <1>1, <3>1, <3>2 DEF Attributes
    <3>4. r = e
      BY <1>2, <2>3, <3>2
    <3> QED BY <1>1, <2>3, <3>3, <3>4
  <2> QED BY <2>1, <2>2, <2>3
<1>4. ~Attrs!Dirty(path, r) => r = a
  BY DEF Attrs!Dirty, a
<1> QED BY <1>3, <1>4 DEF a, r

\* A process that ended knows nothing.
LEMMA OverFits ==
  ASSUME XInv, NEW p \in Procs, NEW s \in {"ok", "invalid", "changed", "instance", "mismatch", "race"}
  PROVE  /\ Suits(p, Attrs!Over(s)) /\ Attrs!Over(s).pc = "done" /\ Attrs!Over(s).attr.uuid = 0
         /\ Fresh(Attrs!Over(s)) /\ \A C : ProcTrue(C, Attrs!Over(s))
<1>1. Attrs!NoAttr \in Attributes /\ <<>> \in Seq(Nat)
  BY DEF Attrs!NoAttr, Attributes
<1>2. /\ Attrs!Over(s) \in Processes /\ Attrs!Over(s).pc = "done" /\ Attrs!Over(s).attr = Attrs!NoAttr /\ Attrs!Over(s).answer = s
  BY <1>1 DEF Attrs!Over, Attrs!NoProc, Processes
<1> QED BY <1>2 DEF Suits, Fresh, ProcTrue, TrueTo, Doing, Carries, Dated, Reads, Tagged, Attrs!NoAttr

LEMMA OverMoves ==
  ASSUME XInv, NEW p \in Procs, NEW s \in {"ok", "invalid", "changed", "instance", "mismatch", "race"},
         Attrs!Ends(p, s), UNCHANGED <<file, path, lockset, uuids, writes, kept>>
  PROVE  XInv'
<1>1. /\ Suits(p, Attrs!Over(s)) /\ Attrs!Over(s).pc = "done" /\ Attrs!Over(s).attr.uuid = 0
      /\ Fresh(Attrs!Over(s)) /\ \A C : ProcTrue(C, Attrs!Over(s))
  BY OverFits
<1>2. uuids \in Nat /\ lockset \in BOOLEAN
  BY DEF XInv, AttrTyped
<1>3. PICK w : w = Attrs!Over(s)
  OBVIOUS
<1>4. proc' = [proc EXCEPT ![p] = w]
  BY <1>3 DEF Attrs!Ends, Attrs!Goes
<1>5. Suits(p, w) /\ w.pc = "done" /\ w.attr.uuid = 0 /\ Fresh(w) /\ \A C : ProcTrue(C, w)
  BY <1>1, <1>3
<1>6. /\ uuids' \in Nat /\ uuids <= uuids' /\ w.attr.uuid \in 0 .. uuids'
      /\ lockset' \in BOOLEAN /\ (lockset \/ w.pc = "set" => lockset')
  BY <1>2, <1>5
<1> HIDE DEF Suits, Fresh, ProcTrue
<1> QED BY <1>4, <1>5, <1>6, Transits

-----------------------------------------------------------------------------
(* The actions of that kind.                                               *)

LEMMA Facts ==
  ASSUME XInv, NEW p \in Procs
  PROVE  /\ proc[p] \in Processes /\ Doing(proc[p]) /\ proc[p].attr \in Attributes
         /\ file \in Seq(Inodes) /\ path \in DOMAIN file /\ file[path] \in Inodes
         /\ uuids \in Nat /\ lockset \in BOOLEAN /\ writes \in Nat
         /\ proc[p].attr.uuid \in 0 .. uuids /\ file[path].attr.uuid \in 0 .. uuids
         /\ file[path].attr \in Attributes /\ Tagged(proc[p])
         /\ Dated(proc[p]) /\ proc[p].pc # "get" => proc[p].attr.uuid # 0
         /\ \A C : TrueBy(C) => /\ ProcTrue(C, proc[p]) /\ TrueTo(C, file[path].attr)
                                /\ file[path].mtime \in 1 .. writes + 1 /\ ~Awaited(file[path].mtime)
                                /\ file[path].content = C[file[path].mtime]
<1>1. path \in DOMAIN file /\ file[path] \in Inodes /\ proc[p] \in Processes
  BY DEF XInv, AttrTyped
<1> QED BY <1>1 DEF XInv, AttrTyped, Named, KeepsTags, Inodes, Processes, Attrs!Inums, TrueBy, FilesTrue

LEMMA BeginStep ==
  ASSUME XInv, NEW p \in Procs, NEW j \in Jobs, Attrs!Begin(p, j)
  PROVE  XInv'
<1>1. PICK u : u = IF j.do = "hash" THEN file[path].attr.uuid ELSE 0
  OBVIOUS
<1>2. PICK w : w = [Attrs!NoProc EXCEPT !.pc = "lstat", !.job = j, !.attr.uuid = u]
  OBVIOUS
<1>3. proc' = [proc EXCEPT ![p] = w] /\ UNCHANGED <<file, path, lockset, uuids, writes, kept>>
  BY <1>1, <1>2 DEF Attrs!Begin, Attrs!Goes
<1>4. u \in 0 .. uuids /\ (j.do = "hash" => u # 0) /\ uuids \in Nat /\ lockset \in BOOLEAN
  BY <1>1, Facts DEF Attrs!Begin
<1>5. PICK N : N = Attrs!NoAttr
  OBVIOUS
<1>6. PICK v : v = Attrs!NoProc
  OBVIOUS
<1>7. N \in Attributes /\ N.hash = <<>> /\ <<>> \in Seq(Nat)
  BY <1>5 DEF Attributes, Attrs!NoAttr
<1>8. v \in Processes /\ v.attr = N /\ v.answer = "none"
  BY <1>5, <1>6, <1>7 DEF Attrs!NoProc, Processes
<1>9. w = [v EXCEPT !.pc = "lstat", !.job = j, !.attr = [N EXCEPT !.uuid = u]]
  BY <1>2, <1>6, <1>8
<1>10. PICK a : a = [N EXCEPT !.uuid = u]
  OBVIOUS
<1>11. a \in Attributes /\ a.uuid = u /\ a.hash = <<>>
  BY <1>4, <1>7, <1>10 DEF Attributes
<1>12. w.pc = "lstat" /\ w.job = j /\ w.attr = a /\ w \in Processes /\ w.answer = "none"
  BY <1>8, <1>9, <1>10, <1>11 DEF Processes
<1>13. Suits(p, w) /\ Fresh(w) /\ \A C : ProcTrue(C, w)
  BY <1>4, <1>11, <1>12 DEF Suits, Fresh, Doing, Carries, Dated, Tagged, ProcTrue, TrueTo, Reads
<1> HIDE DEF Suits, Fresh, ProcTrue
<1> QED BY <1>3, <1>4, <1>11, <1>12, <1>13, MovesOn

LEMMA LstatStep ==
  ASSUME XInv, NEW p \in Procs, Attrs!Lstat(p)
  PROVE  XInv'
<1>1. PICK v : v = proc[p]
  OBVIOUS
<1>2. PICK pc : pc = IF v.job.do = "hash" THEN "digest" ELSE "get"
  OBVIOUS
<1>3. PICK w : w = [v EXCEPT !.pc = pc, !.time = file[path].mtime]
  OBVIOUS
<1>4. proc' = [proc EXCEPT ![p] = w] /\ UNCHANGED <<file, path, lockset, uuids, writes, kept>>
  BY <1>1, <1>2, <1>3 DEF Attrs!Lstat, Attrs!Goes, Attrs!To
<1>5. v \in Processes /\ v.pc = "lstat" /\ Doing(v) /\ file[path].mtime \in Nat
  BY <1>1, Facts DEF Attrs!Lstat, Inodes
<1>6. /\ w \in Processes /\ w.pc = pc /\ w.job = v.job /\ w.attr = v.attr /\ w.answer = v.answer
      /\ w.time = file[path].mtime
  BY <1>2, <1>3, <1>5 DEF Processes
<1>7. v.job.do = "hash" => v.attr.uuid # 0
  BY <1>1, <1>5 DEF XInv, Named
<1>8. Suits(p, w) /\ Fresh(w)
  BY <1>2, <1>5, <1>6, <1>7 DEF Suits, Fresh, Doing, Carries, Dated, Tagged
<1>9. ASSUME NEW C \in Histories, TrueBy(C) PROVE ProcTrue(C, w)
  <2>1. TrueTo(C, v.attr) /\ file[path].mtime \in 1 .. writes + 1 /\ ~Awaited(file[path].mtime)
    BY <1>1, <1>9, Facts DEF ProcTrue
  <2> QED BY <1>2, <1>6, <2>1 DEF ProcTrue, Reads, Carries
<1>10. w.attr.uuid \in 0 .. uuids /\ w.pc # "set"
  BY <1>1, <1>2, <1>6, Facts
<1> HIDE DEF Suits, Fresh, ProcTrue
<1> QED BY <1>4, <1>8, <1>9, <1>10, MovesOn

LEMMA DigestStep ==
  ASSUME XInv, NEW p \in Procs, Attrs!Digest(p)
  PROVE  XInv'
<1>1. PICK v : v = proc[p]
  OBVIOUS
<1>2. PICK w : w = [v EXCEPT !.pc = "ulstat", !.hash = file[path].content]
  OBVIOUS
<1>3. proc' = [proc EXCEPT ![p] = w] /\ UNCHANGED <<file, path, lockset, uuids, writes, kept>>
  BY <1>1, <1>2 DEF Attrs!Digest, Attrs!Goes, Attrs!To
<1>4. v \in Processes /\ v.pc = "digest" /\ Doing(v) /\ file[path].content \in Seq(Nat) /\ v.attr.uuid # 0
  BY <1>1, Facts DEF Attrs!Digest, Inodes, Dated
<1>5. /\ w \in Processes /\ w.pc = "ulstat" /\ w.job = v.job /\ w.attr = v.attr /\ w.answer = v.answer
      /\ w.time = v.time /\ w.hash = file[path].content
  BY <1>2, <1>4 DEF Processes
<1>6. Suits(p, w) /\ Fresh(w)
  BY <1>4, <1>5 DEF Suits, Fresh, Doing, Carries, Dated, Tagged
<1>7. ASSUME NEW C \in Histories, TrueBy(C) PROVE ProcTrue(C, w)
  <2>1. ProcTrue(C, v) /\ file[path].content = C[file[path].mtime]
    BY <1>1, <1>7, Facts
  <2>2. v.time \in 1 .. writes + 1 /\ ~Awaited(v.time) /\ TrueTo(C, v.attr)
    BY <1>4, <2>1 DEF ProcTrue, Dated
  <2> QED BY <1>5, <2>1, <2>2 DEF ProcTrue, Reads, Carries, Past
<1>8. w.attr.uuid \in 0 .. uuids /\ w.pc # "set"
  BY <1>1, <1>5, Facts
<1> HIDE DEF Suits, Fresh, ProcTrue
<1> QED BY <1>3, <1>6, <1>7, <1>8, MovesOn

LEMMA DecideStep ==
  ASSUME XInv, NEW p \in Procs, Attrs!Decide(p) \/ Attrs!AppendDecide(p)
  PROVE  XInv'
<1>1. PICK v : v = proc[p]
  OBVIOUS
<1>2. UNCHANGED <<file, path, lockset, uuids, writes, kept>>
  BY DEF Attrs!Decide, Attrs!AppendDecide
<1>3. v \in Processes /\ v.pc = "decide" /\ Doing(v) /\ v.attr.uuid # 0 /\ Tagged(v)
  BY <1>1, Facts DEF Attrs!Decide, Attrs!AppendDecide, Dated
<1>4. CASE Attrs!Ends(p, "ok") \/ Attrs!Ends(p, "invalid") \/ Attrs!Ends(p, "mismatch")
  BY <1>2, <1>4, OverMoves
<1>5. ASSUME NEW pc \in {"ulstat", "concat"}, Attrs!Goes(p, Attrs!To(p, pc)),
             pc = "ulstat" => v.job.do \in Attrs!Tagging,
             pc = "concat" => v.job.do = "APPEND" /\ v.attr.hash # <<>>
      PROVE  XInv'
  <2>1. PICK w : w = [v EXCEPT !.pc = pc]
    OBVIOUS
  <2>2. proc' = [proc EXCEPT ![p] = w]
    BY <1>1, <1>5, <2>1 DEF Attrs!Goes, Attrs!To
  <2>3. /\ w \in Processes /\ w.pc = pc /\ w.job = v.job /\ w.attr = v.attr /\ w.answer = v.answer
        /\ w.time = v.time /\ w.stale = v.stale
    BY <1>3, <2>1 DEF Processes
  <2>4. Suits(p, w) /\ Fresh(w)
    BY <1>3, <1>5, <2>3 DEF Suits, Fresh, Doing, Carries, Dated, Tagged, Attrs!Tagging
  <2>5. ASSUME NEW C \in Histories, TrueBy(C) PROVE ProcTrue(C, w)
    <3>1. ProcTrue(C, v)
      BY <1>1, <2>5, Facts
    <3> QED BY <1>3, <1>5, <2>3, <3>1 DEF ProcTrue, Reads, Carries, Dated, Attrs!Tagging
  <2>6. w.attr.uuid \in 0 .. uuids /\ w.pc # "set"
    BY <1>1, <2>3, Facts
  <2> HIDE DEF Suits, Fresh, ProcTrue
  <2> QED BY <1>2, <2>2, <2>4, <2>5, <2>6, MovesOn
<1>6. CASE Attrs!Decide(p) /\ Attrs!Goes(p, Attrs!To(p, "ulstat"))
  BY <1>1, <1>5, <1>6 DEF Attrs!Decide
<1>7. CASE Attrs!AppendDecide(p) /\ Attrs!Goes(p, Attrs!To(p, "concat")) /\ v.attr.hash # <<>>
  BY <1>1, <1>5, <1>7 DEF Attrs!AppendDecide
<1> QED BY <1>1, <1>4, <1>6, <1>7 DEF Attrs!Decide, Attrs!AppendDecide

LEMMA UpdateStep ==
  ASSUME XInv, NEW p \in Procs, Attrs!Update(p)
  PROVE  XInv'
<1>1. PICK v : v = proc[p]
  OBVIOUS
<1>2. UNCHANGED <<file, path, lockset, uuids, writes, kept>>
  BY DEF Attrs!Update
<1>3. /\ v \in Processes /\ v.pc = "ulstat" /\ Doing(v) /\ v.attr.uuid # 0 /\ Tagged(v)
      /\ file[path].mtime \in Nat
  BY <1>1, Facts DEF Attrs!Update, Dated, Inodes
<1>4. CASE Attrs!Ends(p, "changed")
  BY <1>2, <1>4, OverMoves
<1>5. CASE /\ v.job.do = "hash" => file[path].mtime = v.time
           /\ Attrs!Goes(p, [Attrs!To(p, "uget") EXCEPT !.time = file[path].mtime])
  <2>1. PICK w : w = [v EXCEPT !.pc = "uget", !.time = file[path].mtime]
    OBVIOUS
  <2>2. proc' = [proc EXCEPT ![p] = w]
    BY <1>1, <1>5, <2>1 DEF Attrs!Goes, Attrs!To
  <2>3. /\ w \in Processes /\ w.pc = "uget" /\ w.job = v.job /\ w.attr = v.attr /\ w.answer = v.answer
        /\ w.time = file[path].mtime /\ w.stale = v.stale /\ w.hash = v.hash
    BY <1>3, <2>1 DEF Processes
  <2>4. Suits(p, w) /\ Fresh(w)
    BY <1>3, <2>3 DEF Suits, Fresh, Doing, Carries, Dated, Tagged
  <2>5. ASSUME NEW C \in Histories, TrueBy(C) PROVE ProcTrue(C, w)
    <3>1. ProcTrue(C, v) /\ file[path].mtime \in 1 .. writes + 1 /\ ~Awaited(file[path].mtime)
      BY <1>1, <2>5, Facts
    <3>2. v.job.do = "hash" => v.hash = C[v.time]
      BY <1>3, <1>5, <3>1 DEF ProcTrue, Past
    <3> QED BY <1>5, <2>3, <3>1, <3>2 DEF ProcTrue, Reads, Carries, Dated
  <2>6. w.attr.uuid \in 0 .. uuids /\ w.pc # "set"
    BY <1>1, <2>3, Facts
  <2> HIDE DEF Suits, Fresh, ProcTrue
  <2> QED BY <1>2, <2>2, <2>4, <2>5, <2>6, MovesOn
<1> QED BY <1>1, <1>4, <1>5 DEF Attrs!Update

LEMMA CheckStep ==
  ASSUME XInv, NEW p \in Procs, Attrs!Check(p)
  PROVE  XInv'
<1>1. PICK v : v = proc[p]
  OBVIOUS
<1>2. UNCHANGED <<file, path, lockset, uuids, writes, kept>>
  BY DEF Attrs!Check
<1>3. v \in Processes /\ v.pc = "check" /\ Doing(v) /\ v.attr.uuid # 0
  BY <1>1, Facts DEF Attrs!Check, Dated
<1>4. CASE Attrs!Ends(p, "race")
  BY <1>2, <1>4, OverMoves
<1>5. CASE file[path].mtime = v.time /\ Attrs!Goes(p, Attrs!To(p, "rename"))
  <2>1. PICK w : w = [v EXCEPT !.pc = "rename"]
    OBVIOUS
  <2>2. proc' = [proc EXCEPT ![p] = w]
    BY <1>1, <1>5, <2>1 DEF Attrs!Goes, Attrs!To
  <2>3. /\ w \in Processes /\ w.pc = "rename" /\ w.job = v.job /\ w.attr = v.attr /\ w.answer = v.answer
        /\ w.time = v.time /\ w.content = v.content
    BY <1>3, <2>1 DEF Processes
  <2>4. Suits(p, w) /\ Fresh(w)
    BY <1>1, <1>3, <2>3 DEF Suits, Fresh, Doing, Carries, Dated, Tagged
  <2>5. ASSUME NEW C \in Histories, TrueBy(C) PROVE ProcTrue(C, w)
    <3>1. ProcTrue(C, v)
      BY <1>1, <2>5, Facts
    <3> QED BY <1>3, <1>5, <2>3, <3>1 DEF ProcTrue, Reads, Carries, Dated, Past, Stamp
  <2>6. w.attr.uuid \in 0 .. uuids /\ w.pc # "set"
    BY <1>1, <2>3, Facts
  <2> HIDE DEF Suits, Fresh, ProcTrue
  <2> QED BY <1>2, <2>2, <2>4, <2>5, <2>6, MovesOn
<1> QED BY <1>1, <1>4, <1>5 DEF Attrs!Check, Attrs!Same

LEMMA UpdateGetStep ==
  ASSUME XInv, NEW p \in Procs, Attrs!UpdateGet(p)
  PROVE  XInv'
<1>1. PICK v : v = proc[p]
  OBVIOUS
<1>2. PICK a : a = file[path].attr
  OBVIOUS
<1>3. PICK r : r = Attrs!readXattr(path, v.time)
  OBVIOUS
<1>4. UNCHANGED <<file, path, lockset, uuids, writes, kept>>
  BY DEF Attrs!UpdateGet
<1>5. /\ v \in Processes /\ v.pc = "uget" /\ Doing(v) /\ v.attr.uuid # 0 /\ Tagged(v)
      /\ v.attr \in Attributes /\ v.attr.uuid \in 0 .. uuids /\ v.job \in Jobs \cup {Attrs!NoProc.job}
      /\ v.time \in Nat /\ v.hash \in Seq(Nat) /\ v.stale \in BOOLEAN /\ v.attr.tags \in SUBSET TagsThereAre
  BY <1>1, Facts DEF Attrs!UpdateGet, Dated, Processes, Attributes
<1>6. /\ r \in Attributes /\ r.tags = a.tags /\ (r.hash # <<>> => r = a /\ r.time = v.time)
      /\ (r.uuid > uuids <=> a.uuid = 0) /\ (a.uuid # 0 => r.uuid = a.uuid)
  BY <1>2, <1>3, <1>5, ReadIs DEF XInv
<1>7. CASE Attrs!Ends(p, "instance")
  BY <1>4, <1>7, OverMoves
<1>8. ASSUME r.uuid = v.attr.uuid,
             Attrs!Goes(p, [Attrs!To(p, "uset") EXCEPT !.stale = proc[p].job.do # "hash" /\ @,
                                     !.attr = IF proc[p].job.do = "hash" THEN Attrs!AssignHash(p, r)
                                              ELSE Attrs!AssignTags(p, r)])
      PROVE  XInv'
  <2>1. PICK s \in BOOLEAN : s = (v.job.do # "hash" /\ v.stale)
    OBVIOUS
  <2>2. PICK b : b = IF v.job.do = "hash" THEN Attrs!AssignHash(p, r) ELSE Attrs!AssignTags(p, r)
    OBVIOUS
  <2>3. PICK w : w = [v EXCEPT !.pc = "uset", !.stale = s, !.attr = b]
    OBVIOUS
  <2>4. v.stale = s \/ v.job.do = "hash"
    BY <1>5, <2>1
  <2>5. proc' = [proc EXCEPT ![p] = w]
    <3>1. [Attrs!To(p, "uset") EXCEPT !.stale = proc[p].job.do # "hash" /\ @,
                   !.attr = IF proc[p].job.do = "hash" THEN Attrs!AssignHash(p, r) ELSE Attrs!AssignTags(p, r)] = w
      BY <1>1, <1>5, <2>1, <2>2, <2>3 DEF Attrs!To, Processes
    <3> QED BY <1>8, <3>1 DEF Attrs!Goes
  <2>6. PICK T : T = Attrs!newTags(v.job, v.attr.tags)
    OBVIOUS
  <2>7. b = IF v.job.do = "hash" THEN [r EXCEPT !.hash = v.hash, !.time = v.time] ELSE [r EXCEPT !.tags = T]
    BY <1>1, <2>2, <2>6 DEF Attrs!AssignHash, Attrs!AssignTags
  <2>8. v.job.do # "hash" => v.job.do \in Attrs!Tagging
    BY <1>5 DEF Doing
  <2>9. v.job.do \in Attrs!Tagging => v.job \in Jobs /\ v.job.tags \in SUBSET TagsThereAre
    BY <1>5 DEF Attrs!Tagging, Attrs!NoProc, TagsThereAre
  <2>10. v.job.do \in Attrs!Tagging => /\ T \in SUBSET TagsThereAre
                                       /\ v.job.do = "ADDTAGS" => T = v.attr.tags \cup v.job.tags
                                       /\ v.job.do = "REMOVETAGS" => T = v.attr.tags \ v.job.tags
    BY <1>5, <2>6, <2>9 DEF Attrs!newTags, Attrs!Tagging
  <2>11. /\ b \in Attributes /\ b.uuid = r.uuid
         /\ v.job.do = "hash" => b.hash = v.hash /\ b.time = v.time /\ b.tags = r.tags
         /\ v.job.do # "hash" => b.hash = r.hash /\ b.time = r.time /\ b.tags = T
    <3>1. CASE v.job.do = "hash"
      BY <1>5, <1>6, <2>7, <3>1 DEF Attributes
    <3>2. CASE v.job.do # "hash"
      BY <1>6, <2>7, <2>8, <2>10, <3>2 DEF Attributes
    <3> QED BY <3>1, <3>2
  <2>12. /\ w \in Processes /\ w.pc = "uset" /\ w.job = v.job /\ w.attr = b /\ w.answer = v.answer
         /\ w.time = v.time /\ w.stale = s
    BY <1>5, <2>3, <2>11 DEF Processes
  <2>13. Tagged(w)
    <3>1. kept \subseteq a.tags
      BY <1>2 DEF XInv, KeepsTags
    <3>2. CASE v.job.do = "hash"
      BY <1>6, <2>11, <2>12, <3>1, <3>2 DEF Tagged
    <3>3. CASE v.job.do = "ADDTAGS"
      <4>1. ~s => kept \subseteq v.attr.tags
        BY <1>5, <2>4, <3>3 DEF Tagged
      <4> QED BY <2>10, <2>11, <2>12, <3>3, <4>1 DEF Tagged, Attrs!Tagging
    <3>4. CASE v.job.do = "REMOVETAGS"
      <4>1. ~s => kept \subseteq v.attr.tags
        BY <1>5, <2>4, <3>4 DEF Tagged
      <4> QED BY <2>10, <2>11, <2>12, <3>4, <4>1 DEF Tagged, Attrs!Tagging
    <3>5. CASE v.job.do \notin {"hash", "ADDTAGS", "REMOVETAGS"}
      BY <2>12, <3>5 DEF Tagged
    <3> QED BY <3>2, <3>3, <3>4, <3>5
  <2>14. Suits(p, w)
    BY <1>5, <1>8, <2>11, <2>12, <2>13 DEF Suits, Doing, Carries, Dated
  <2>15. Fresh(w)
    <3>1. uuids \in Nat
      BY DEF XInv, AttrTyped
    <3>2. r.uuid = a.uuid
      BY <1>5, <1>6, <1>8, <3>1
    <3> QED BY <1>2, <2>11, <2>12, <3>2 DEF Fresh
  <2>16. ASSUME NEW C \in Histories, TrueBy(C) PROVE ProcTrue(C, w)
    <3>1. ProcTrue(C, v) /\ TrueTo(C, a)
      BY <1>1, <1>2, <2>16, Facts
    <3>2. v.time \in 1 .. writes + 1 /\ ~Awaited(v.time)
      BY <1>5, <3>1 DEF ProcTrue, Dated
    <3>3. TrueTo(C, b)
      <4>1. CASE v.job.do = "hash"
        BY <1>5, <2>11, <3>1, <3>2, <4>1 DEF ProcTrue, TrueTo
      <4>2. CASE v.job.do # "hash"
        BY <1>6, <2>11, <3>1, <4>2 DEF TrueTo
      <4> QED BY <4>1, <4>2
    <3> QED BY <2>12, <3>2, <3>3 DEF ProcTrue, Reads, Carries
  <2>17. uuids \in Nat /\ lockset \in BOOLEAN /\ w.attr.uuid \in 0 .. uuids /\ w.pc # "set"
    BY <1>5, <1>8, <2>11, <2>12, Facts
  <2>18. uuids' \in Nat /\ uuids <= uuids' /\ w.attr.uuid \in 0 .. uuids'
         /\ lockset' \in BOOLEAN /\ (lockset \/ w.pc = "set" => lockset')
    BY <1>4, <2>17
  <2> HIDE DEF Suits, Fresh, ProcTrue
  <2> QED BY <1>4, <2>5, <2>14, <2>15, <2>16, <2>18, Transits
<1> QED BY <1>1, <1>3, <1>7, <1>8 DEF Attrs!UpdateGet

LEMMA GetStep ==
  ASSUME XInv, NEW p \in Procs, Attrs!Get(p)
  PROVE  XInv'
<1>1. PICK v : v = proc[p]
  OBVIOUS
<1>2. PICK a : a = file[path].attr
  OBVIOUS
<1>3. PICK r : r = Attrs!readXattr(path, v.time)
  OBVIOUS
<1>4. PICK pc : pc = IF Attrs!Dirty(path, r) THEN "set" ELSE Attrs!After(v.job)
  OBVIOUS
<1>5. UNCHANGED <<file, path, writes, kept>> /\ ~lockset /\ v.pc = "get"
      /\ uuids' = (IF r.uuid > uuids THEN uuids + 1 ELSE uuids) /\ lockset' = (pc = "set")
      /\ Attrs!Goes(p, IF pc = "done" THEN Attrs!Over("ok") ELSE [Attrs!To(p, pc) EXCEPT !.attr = r, !.stale = FALSE])
  BY <1>1, <1>3, <1>4 DEF Attrs!Get, Attrs!Open
<1>6. /\ v \in Processes /\ Doing(v) /\ v.time \in Nat /\ uuids \in Nat
  BY <1>1, Facts DEF Processes
<1>7. /\ r \in Attributes /\ r.uuid \in 1 .. uuids + 1 /\ r.tags = a.tags
      /\ (r.hash # <<>> => r = a /\ r.time = v.time) /\ (~Attrs!Dirty(path, r) => r = a)
      /\ (r.uuid > uuids <=> a.uuid = 0) /\ (a.uuid # 0 => r.uuid = a.uuid)
  BY <1>2, <1>3, <1>6, ReadIs DEF XInv
<1>8. uuids' \in Nat /\ uuids <= uuids' /\ r.uuid \in 0 .. uuids' /\ lockset' \in BOOLEAN
  BY <1>5, <1>6, <1>7
<1>9. CASE pc = "done"
  <2>1. PICK w : w = Attrs!Over("ok")
    OBVIOUS
  <2>2. proc' = [proc EXCEPT ![p] = w]
    BY <1>5, <1>9, <2>1 DEF Attrs!Goes
  <2>3. Suits(p, w) /\ w.pc = "done" /\ w.attr.uuid = 0 /\ Fresh(w) /\ \A C : ProcTrue(C, w)
    BY <2>1, OverFits
  <2>4. w.attr.uuid \in 0 .. uuids' /\ (lockset \/ w.pc = "set" => lockset')
    BY <1>5, <1>8, <2>3
  <2> HIDE DEF Suits, Fresh, ProcTrue
  <2> QED BY <1>5, <1>8, <2>2, <2>3, <2>4, Transits
<1>10. CASE pc # "done"
  <2>1. PICK w : w = [v EXCEPT !.pc = pc, !.attr = r, !.stale = FALSE]
    OBVIOUS
  <2>2. proc' = [proc EXCEPT ![p] = w]
    <3>1. [Attrs!To(p, pc) EXCEPT !.attr = r, !.stale = FALSE] = w
      BY <1>1, <1>6, <2>1 DEF Attrs!To, Processes
    <3> QED BY <1>5, <1>10, <3>1 DEF Attrs!Goes
  <2>3. pc \in {"set", "decide"}
    BY <1>4, <1>10 DEF Attrs!After
  <2>4. /\ w \in Processes /\ w.pc = pc /\ w.job = v.job /\ w.attr = r /\ w.answer = v.answer
        /\ w.time = v.time /\ w.stale = FALSE
    BY <1>6, <1>7, <2>1, <2>3 DEF Processes
  <2>5. Suits(p, w)
    <3>1. kept \subseteq a.tags
      BY <1>2 DEF XInv, KeepsTags
    <3> QED BY <1>5, <1>6, <1>7, <2>3, <2>4, <3>1 DEF Suits, Doing, Carries, Dated, Tagged
  <2>6. Fresh(w)
    BY <1>2, <1>7, <2>3, <2>4 DEF Fresh
  <2>7. ASSUME NEW C \in Histories, TrueBy(C) PROVE ProcTrue(C, w)
    <3>1. ProcTrue(C, v) /\ TrueTo(C, a)
      BY <1>1, <1>2, <2>7, Facts
    <3>2. v.time \in 1 .. writes + 1 /\ ~Awaited(v.time)
      BY <1>5, <3>1 DEF ProcTrue, Dated
    <3>3. TrueTo(C, r)
      BY <1>7, <3>1 DEF TrueTo
    <3> QED BY <1>7, <2>3, <2>4, <3>2, <3>3 DEF ProcTrue, Reads, Carries
  <2>8. w.attr.uuid \in 0 .. uuids' /\ (lockset \/ w.pc = "set" => lockset')
    BY <1>5, <1>8, <2>3, <2>4
  <2> HIDE DEF Suits, Fresh, ProcTrue
  <2> QED BY <1>5, <1>8, <2>2, <2>5, <2>6, <2>7, <2>8, Transits
<1> QED BY <1>9, <1>10

\* A copy of the file with something at its end, of a time that nothing else has.
LEMMA ConcatStep ==
  ASSUME XInv, NEW p \in Procs, Attrs!Concat(p)
  PROVE  XInv'
<1>1. PICK v : v = proc[p]
  OBVIOUS
<1>2. PICK k : k = writes + 2
  OBVIOUS
<1>3. PICK content : content = Append(file[path].content, k)
  OBVIOUS
<1>4. PICK w : w = [v EXCEPT !.pc = "check", !.content = content]
  OBVIOUS
<1>5. UNCHANGED <<file, path, lockset, uuids, kept>> /\ writes' = writes + 1 /\ v.pc = "concat"
      /\ proc' = [proc EXCEPT ![p] = w]
  BY <1>1, <1>2, <1>3, <1>4 DEF Attrs!Concat, Attrs!Goes, Attrs!To
<1>6. /\ v \in Processes /\ Doing(v) /\ v.attr.uuid # 0 /\ v.attr.uuid \in 0 .. uuids
      /\ file[path].content \in Seq(Nat) /\ writes \in Nat
  BY <1>1, <1>5, Facts DEF Dated, Inodes
<1>7. content \in Seq(Nat) /\ content # <<>> /\ content[Len(content)] = k /\ k \in Nat
  BY <1>2, <1>3, <1>6
<1>8. /\ w \in Processes /\ w.pc = "check" /\ w.job = v.job /\ w.attr = v.attr /\ w.answer = v.answer
      /\ w.time = v.time /\ w.content = content
  BY <1>4, <1>6, <1>7 DEF Processes
<1>9. \A q \in Procs : proc'[q] = IF q = p THEN w ELSE proc[q]
  BY <1>5 DEF XInv, AttrTyped
<1>10. AttrTyped'
  <2>1. \A q \in Procs : proc'[q] \in Processes /\ Doing(proc'[q])
    BY <1>5, <1>6, <1>8, <1>9 DEF XInv, AttrTyped, Doing
  <2> QED BY <1>5, <1>6, <2>1 DEF XInv, AttrTyped
<1>11. Locked'
  BY <1>5, <1>8, <1>9 DEF XInv, Locked
<1>12. PICK C \in Histories : TrueBy(C)
  BY DEF XInv, Remembered
<1>13. Stamp(w) = k /\ Carries(w)
  BY <1>7, <1>8 DEF Stamp, Carries
<1>14. \A t : Awaited(t)' <=> Awaited(t) \/ t = k
  <2>1. ~Carries(v)
    BY <1>5 DEF Carries
  <2>2. ASSUME NEW t PROVE Awaited(t)' <=> \E q \in Procs : Carries(proc'[q]) /\ Stamp(proc'[q]) = t
    BY DEF Awaited, Carries, Stamp
  <2>3. ASSUME NEW t PROVE Awaited(t)' <=> Awaited(t) \/ t = k
    BY <1>1, <1>9, <1>13, <2>1, <2>2 DEF Awaited
  <2> QED BY <2>3
<1>15. \A q \in Procs : ProcTrue(C, proc[q])
  BY <1>12 DEF TrueBy
<1>16. PICK D : D = [t \in 1 .. writes + 2 |-> IF t = k THEN content ELSE C[t]]
  OBVIOUS
<1>17. D \in Histories' /\ D[k] = content /\ \A t \in 1 .. writes + 1 : D[t] = C[t]
  BY <1>2, <1>5, <1>6, <1>7, <1>12, <1>16 DEF Histories
<1>18. \A t \in 1 .. writes + 1 : t \in 1 .. writes' + 1 /\ t # k
  BY <1>2, <1>5, <1>6
<1>19. Apart'
  <2>1. \A q \in Procs : Carries(proc[q]) => Stamp(proc[q]) # k
    BY <1>15, <1>18 DEF ProcTrue
  <2>2. \A q, r \in Procs : Carries(proc'[q]) /\ Carries(proc'[r]) /\ Stamp(proc'[q]) = Stamp(proc'[r]) => q = r
    BY <1>9, <1>13, <2>1 DEF XInv, Remembered, Apart
  <2> QED BY <2>2 DEF Apart, Carries, Stamp
<1>20. \A a : TrueTo(C, a) => TrueTo(D, a)'
  BY <1>17, <1>18 DEF TrueTo
<1>21. FilesTrue(D)'
  BY <1>5, <1>12, <1>14, <1>17, <1>18, <1>20 DEF TrueBy, FilesTrue, Attrs!Inums
<1>22. \A t \in 1 .. writes + 1 : Past(t) => Past(t)'
  BY <1>5, <1>14, <1>18 DEF Past
<1>23. ASSUME NEW u, ProcTrue(C, u) PROVE ProcTrue(D, u)'
  <2>1. TrueTo(D, u.attr)'
    BY <1>20, <1>23 DEF ProcTrue
  <2>2. Dated(u) => /\ u.time \in 1 .. writes + 1 /\ D[u.time] = C[u.time] /\ u.time \in 1 .. writes' + 1
                    /\ ~Awaited(u.time)' /\ (Past(u.time) => Past(u.time)')
    BY <1>14, <1>17, <1>18, <1>22, <1>23 DEF ProcTrue
  <2>3. u.pc \in {"ulstat", "uget", "check", "rename"} => Dated(u)
    BY DEF Dated
  <2>4. Carries(u) => Stamp(u) \in 1 .. writes' + 1 /\ D[Stamp(u)] = C[Stamp(u)]
    BY <1>17, <1>18, <1>23 DEF ProcTrue
  <2> QED BY <1>23, <2>1, <2>2, <2>3, <2>4 DEF ProcTrue, Carries
<1>24. ProcTrue(D, w)'
  <2>1. ProcTrue(C, v)
    BY <1>1, <1>15
  <2>2. v.time \in 1 .. writes + 1 /\ ~Awaited(v.time)' /\ v.time \in 1 .. writes' + 1 /\ D[v.time] = C[v.time]
    BY <1>5, <1>14, <1>17, <1>18, <2>1 DEF ProcTrue, Dated
  <2>3. TrueTo(D, v.attr)'
    BY <1>20, <2>1 DEF ProcTrue
  <2>4. v.attr.hash # <<>> => v.attr.time = v.time
    BY <1>5, <2>1 DEF ProcTrue, Reads
  <2>5. content = Append(C[v.time], k) \/ Past(v.time)'
    <3>1. file[path].content = C[file[path].mtime]
      BY <1>12, Facts
    <3> QED BY <1>3, <1>5, <2>2, <3>1 DEF Past
  <2>6. k \in 1 .. writes' + 1
    BY <1>2, <1>5, <1>6
  <2> QED BY <1>7, <1>8, <1>13, <1>17, <2>2, <2>3, <2>4, <2>5, <2>6 DEF ProcTrue, Carries
<1>25. Remembered'
  <2>1. ASSUME NEW q \in Procs PROVE ProcTrue(D, proc[q])'
    <3>1. PICK u : u = proc'[q]
      OBVIOUS
    <3>2. ProcTrue(D, u)'
      <4>1. CASE q = p
        BY <1>9, <1>24, <3>1, <4>1
      <4>2. CASE q # p
        <5>1. u = proc[q]
          BY <1>9, <3>1, <4>2
        <5>2. ProcTrue(C, u)
          BY <1>15, <5>1
        <5> QED BY <1>23, <5>2
      <4> QED BY <4>1, <4>2
    <3> QED BY <3>1, <3>2 DEF ProcTrue, TrueTo
  <2> QED BY <1>17, <1>19, <1>21, <2>1 DEF Remembered, TrueBy
<1>26. Named'
  BY <1>5, <1>6, <1>8, <1>9 DEF XInv, Named, Attrs!Inums
<1>27. OfFile' /\ KeepsTags'
  BY <1>5, <1>8, <1>9 DEF XInv, OfFile, Fresh, KeepsTags, Tagged
<1> QED BY <1>10, <1>11, <1>25, <1>26, <1>27 DEF XInv

-----------------------------------------------------------------------------
(* The attribute is written, or another file takes the place.               *)

Alike(u, v) == /\ u.pc = v.pc /\ u.job = v.job /\ u.time = v.time /\ u.attr = v.attr
               /\ u.hash = v.hash /\ u.content = v.content /\ u.answer = v.answer

\* Whoever has read the attribute is outdated, and, if the file has become another one, whoever
\* is about to write what it read of the one before; nothing else happens to anybody.
LEMMA OutdatesIs ==
  ASSUME NEW P \in [Procs -> Processes], NEW but, NEW swap \in BOOLEAN
  PROVE  /\ Attrs!Outdates(but, P, swap) \in [Procs -> Processes]
         /\ \A q \in Procs : LET u == Attrs!Outdates(but, P, swap)[q]
                             IN  /\ Alike(u, P[q]) /\ (q \in but => u = P[q])
                                 /\ q \notin but /\ P[q].pc \in {"set", "decide", "ulstat", "uget", "uset"} => u.stale
                                 /\ q \notin but /\ swap /\ P[q].pc \in {"set", "uset"} => u.past
                                 /\ P[q].past => u.past
<1>1. ASSUME NEW q \in Procs
      PROVE  LET u == Attrs!Outdates(but, P, swap)[q]
             IN  /\ Alike(u, P[q]) /\ (q \in but => u = P[q]) /\ u \in Processes
                 /\ q \notin but /\ P[q].pc \in {"set", "decide", "ulstat", "uget", "uset"} => u.stale
                 /\ q \notin but /\ swap /\ P[q].pc \in {"set", "uset"} => u.past
                 /\ P[q].past => u.past
  <2>1. PICK v : v = P[q]
    OBVIOUS
  <2>2. v \in Processes /\ v.past \in BOOLEAN
    BY <2>1 DEF Processes
  <2>3. PICK past \in BOOLEAN : past = (v.past \/ (swap /\ v.pc \in {"set", "uset"}))
    OBVIOUS
  <2>4. PICK u : u = [v EXCEPT !.stale = TRUE, !.past = past]
    OBVIOUS
  <2>5. u \in Processes /\ Alike(u, v) /\ u.stale /\ u.past = past
    BY <2>2, <2>4 DEF Processes, Alike
  <2>6. past <=> v.past \/ (swap /\ v.pc \in {"set", "uset"})
    BY <2>2, <2>3
  <2>7. Alike(v, v)
    BY DEF Alike
  <2>8. Attrs!Outdates(but, P, swap)[q] = IF q \notin but /\ v.pc \in {"set", "decide", "ulstat", "uget", "uset"} THEN u ELSE v
    <3>1. [P[q] EXCEPT !.stale = TRUE, !.past = @ \/ (swap /\ P[q].pc \in {"set", "uset"})] = u
      BY <2>1, <2>2, <2>3, <2>4 DEF Processes
    <3> QED BY <2>1, <3>1 DEF Attrs!Outdates
  <2> QED BY <2>1, <2>2, <2>5, <2>6, <2>7, <2>8
<1>2. Attrs!Outdates(but, P, swap) = [q \in Procs |-> Attrs!Outdates(but, P, swap)[q]]
  BY DEF Attrs!Outdates
<1> QED BY <1>1, <1>2

\* What is known of a process does not depend on whether it is outdated.
LEMMA AlikeTrue ==
  ASSUME NEW u, NEW v, Alike(u, v)
  PROVE  /\ Doing(u) <=> Doing(v)
         /\ Carries(u) <=> Carries(v)
         /\ Stamp(u) = Stamp(v)
         /\ Dated(u) <=> Dated(v)
         /\ \A C : ProcTrue(C, u) <=> ProcTrue(C, v)
BY DEF Alike, Doing, Carries, Stamp, Dated, ProcTrue, TrueTo, Reads

LEMMA Sets ==
  ASSUME XInv, NEW p \in Procs, proc[p].pc \in {"set", "uset"}, Attrs!Set(path, proc[p].attr),
         NEW w, w \in Processes, Doing(w), ~Carries(w),
         w.pc = "done" \/ (w.pc = "decide" /\ w.attr = proc[p].attr),
         w.attr.uuid \in 0 .. uuids, \A C \in Histories : TrueBy(C) => ProcTrue(C, w),
         proc' = Attrs!Outdates({p}, [proc EXCEPT ![p] = w], proc[p].past), UNCHANGED <<path, uuids, writes>>,
         lockset' = IF proc[p].pc = "set" THEN FALSE ELSE lockset,
         kept' \in SUBSET TagsThereAre, kept' \subseteq proc[p].attr.tags
  PROVE  XInv'
<1>1. PICK v : v = proc[p]
  OBVIOUS
<1>2. PICK P : P = [proc EXCEPT ![p] = w]
  OBVIOUS
<1>3. P \in [Procs -> Processes] /\ \A q \in Procs : P[q] = IF q = p THEN w ELSE proc[q]
  BY <1>2 DEF XInv, AttrTyped
<1>4. /\ proc' \in [Procs -> Processes]
      /\ \A q \in Procs : /\ Alike(proc'[q], P[q]) /\ (q = p => proc'[q] = w)
                          /\ q # p /\ P[q].pc \in {"set", "decide", "ulstat", "uget", "uset"} => proc'[q].stale
                          /\ q # p /\ v.past /\ P[q].pc \in {"set", "uset"} => proc'[q].past
                          /\ P[q].past => proc'[q].past
  <2>1. v \in Processes /\ v.past \in BOOLEAN
    BY <1>1 DEF XInv, AttrTyped, Processes
  <2>2. proc' = Attrs!Outdates({p}, P, v.past)
    BY <1>1, <1>2
  <2>3. P[p] = w
    BY <1>3
  <2>4. PICK but : but = {p}
    OBVIOUS
  <2>5. \A q \in Procs : q \in but <=> q = p
    BY <2>4
  <2>6. proc' = Attrs!Outdates(but, P, v.past)
    BY <2>2, <2>4
  <2> HIDE DEF Alike
  <2>7. P \in [Procs -> Processes] /\ v.past \in BOOLEAN
    BY <1>3, <2>1
  <2>8. Attrs!Outdates(but, P, v.past) \in [Procs -> Processes]
    BY <2>7, OutdatesIs
  <2>9. ASSUME NEW q \in Procs
        PROVE  /\ Alike(proc'[q], P[q]) /\ (q \in but => proc'[q] = P[q])
               /\ q \notin but /\ P[q].pc \in {"set", "decide", "ulstat", "uget", "uset"} => proc'[q].stale
               /\ q \notin but /\ v.past /\ P[q].pc \in {"set", "uset"} => proc'[q].past
               /\ P[q].past => proc'[q].past
    BY <2>6, <2>7, OutdatesIs
  <2> QED BY <2>3, <2>5, <2>6, <2>8, <2>9
<1>5. v \in Processes /\ v.attr \in Attributes /\ v.attr.uuid \in 1 .. uuids /\ v.attr.uuid # 0
  BY <1>1, Facts DEF Dated
<1>6. /\ file' \in Seq(Inodes) /\ Len(file') = Len(file) /\ DOMAIN file' = DOMAIN file
      /\ \A f \in DOMAIN file : /\ file'[f].mtime = file[f].mtime /\ file'[f].content = file[f].content
                                /\ file'[f].attr = IF f = path THEN v.attr ELSE file[f].attr
  <2>1. file \in Seq(Inodes) /\ path \in DOMAIN file
    BY Facts
  <2>2. PICK g : g = file[path]
    OBVIOUS
  <2>3. PICK i : i = [g EXCEPT !.attr = v.attr]
    OBVIOUS
  <2>4. g \in Inodes
    BY <2>1, <2>2
  <2>5. i \in Inodes /\ i.mtime = g.mtime /\ i.content = g.content /\ i.attr = v.attr
    BY <1>5, <2>3, <2>4 DEF Inodes
  <2>6. file' = [file EXCEPT ![path] = i]
    BY <1>1, <2>2, <2>3 DEF Attrs!Set
  <2> QED BY <2>1, <2>2, <2>5, <2>6
<1>7. \A q \in Procs : q # p => Alike(proc'[q], proc[q])
  BY <1>3, <1>4
<1>8. AttrTyped'
  <2>1. \A q \in Procs : Doing(proc'[q])
    BY <1>4, <1>7, AlikeTrue DEF XInv, AttrTyped
  <2> QED BY <1>4, <1>6, <2>1 DEF XInv, AttrTyped
<1>9. w.pc # "set" /\ w.pc # "uset"
  OBVIOUS
<1>10. Locked'
  <2>1. \A q \in Procs : proc'[q].pc = "set" => q # p /\ proc[q].pc = "set"
    BY <1>4, <1>7, <1>9 DEF Alike
  <2>2. \A q, r \in Procs : proc[q].pc = "set" /\ proc[r].pc = "set" => q = r /\ lockset
    BY DEF XInv, Locked
  <2>3. \A q, r \in Procs : proc'[q].pc = "set" /\ proc'[r].pc = "set" => q = r
    BY <2>1, <2>2
  <2>4. \A q \in Procs : proc'[q].pc = "set" => lockset'
    BY <2>1, <2>2
  <2> QED BY <2>3, <2>4 DEF Locked
<1>11. ~Carries(v)
  BY <1>1 DEF Carries
<1>12. \A t : Awaited(t)' <=> Awaited(t)
  <2>1. ASSUME NEW t PROVE Awaited(t)' <=> \E q \in Procs : Carries(proc'[q]) /\ Stamp(proc'[q]) = t
    BY DEF Awaited, Carries, Stamp
  <2> QED BY <1>1, <1>4, <1>7, <1>11, <2>1, AlikeTrue DEF Awaited
<1>13. Remembered'
  <2>1. Apart'
    <3>1. \A q, r \in Procs : Carries(proc'[q]) /\ Carries(proc'[r]) /\ Stamp(proc'[q]) = Stamp(proc'[r]) => q = r
      BY <1>4, <1>7, AlikeTrue DEF XInv, Remembered, Apart
    <3> QED BY <3>1 DEF Apart, Carries, Stamp
  <2>2. PICK C \in Histories : TrueBy(C)
    BY DEF XInv, Remembered
  <2>3. FilesTrue(C)'
    <3>1. TrueTo(C, v.attr)
      BY <1>1, <2>2, Facts DEF ProcTrue
    <3>2. \A f \in Attrs!Inums : TrueTo(C, file'[f].attr)
      BY <1>6, <2>2, <3>1 DEF TrueBy, FilesTrue, Attrs!Inums
    <3> QED BY <1>6, <1>12, <2>2, <3>2 DEF TrueBy, FilesTrue, TrueTo, Attrs!Inums
  <2>4. \A t : Past(t) <=> Past(t)'
    <3>1. file'[path'].mtime = file[path].mtime
      BY <1>6, Facts
    <3> QED BY <1>12, <3>1 DEF Past
  <2>5. ASSUME NEW u, ProcTrue(C, u) PROVE ProcTrue(C, u)'
    BY <1>12, <2>4, <2>5 DEF ProcTrue, TrueTo
  <2>6. ASSUME NEW q \in Procs PROVE ProcTrue(C, proc'[q])
    <3>1. CASE q = p
      BY <1>4, <2>2, <3>1
    <3>2. CASE q # p
      <4>1. ProcTrue(C, proc[q]) /\ Alike(proc'[q], proc[q])
        BY <1>7, <2>2, <3>2 DEF TrueBy
      <4> QED BY <4>1, AlikeTrue
    <3> QED BY <3>1, <3>2
  <2>7. \A q \in Procs : ProcTrue(C, proc[q])'
    BY <2>5, <2>6 DEF ProcTrue, TrueTo
  <2>8. C \in Histories'
    BY DEF Histories
  <2> QED BY <2>1, <2>3, <2>7, <2>8 DEF Remembered, TrueBy
<1>14. Named'
  <2>1. \A f \in Attrs!Inums' : file'[f].attr.uuid \in 0 .. uuids /\ (file'[f].attr.uuid = 0 => file'[f].attr = Attrs!NoAttr)
    BY <1>5, <1>6 DEF XInv, Named, Attrs!Inums
  <2>2. w.pc = "decide" => w.attr = v.attr
    BY <1>1
  <2>3. w.pc \in {"done", "decide"}
    OBVIOUS
  <2>4. ASSUME NEW q \in Procs
        PROVE  /\ proc'[q].attr.uuid \in 0 .. uuids
               /\ Dated(proc'[q]) /\ proc'[q].pc # "get" => proc'[q].attr.uuid # 0
               /\ proc'[q].pc = "lstat" /\ proc'[q].job.do = "hash" => proc'[q].attr.uuid # 0
    <3>1. CASE q = p
      BY <1>4, <1>5, <2>2, <2>3, <3>1 DEF Dated
    <3>2. CASE q # p
      BY <1>7, <3>2 DEF XInv, Named, Alike, Dated
    <3> QED BY <3>1, <3>2
  <2> QED BY <2>1, <2>4 DEF Named, Dated
<1>15. OfFile'
  <2>1. file'[path'].attr = v.attr
    BY <1>6, Facts
  <2>2. ASSUME NEW q \in Procs, ~proc'[q].past
        PROVE  /\ proc'[q].pc = "set" => v.attr.uuid \in {0, proc'[q].attr.uuid}
               /\ proc'[q].pc = "uset" => v.attr.uuid = proc'[q].attr.uuid
    <3>1. CASE q = p
      BY <1>4, <1>9, <3>1
    <3>2. CASE q # p /\ proc'[q].pc \in {"set", "uset"}
      <4>1. proc'[q].pc = proc[q].pc /\ proc'[q].attr = proc[q].attr /\ ~proc[q].past /\ ~v.past
        BY <1>3, <1>4, <1>7, <2>2, <3>2 DEF Alike
      <4>2. Fresh(v) /\ Fresh(proc[q])
        BY <1>1, <4>1 DEF XInv, OfFile
      <4>3. ~(v.pc = "set" /\ proc[q].pc = "set") /\ proc[q].attr.uuid # 0
        BY <1>1, <3>2, <4>1 DEF XInv, Locked, Named, Dated
      <4> QED BY <1>1, <1>5, <4>1, <4>2, <4>3 DEF Fresh
    <3> QED BY <3>1, <3>2
  <2> QED BY <2>1, <2>2 DEF OfFile, Fresh
<1>16. KeepsTags'
  <2>1. kept' \subseteq file'[path'].attr.tags
    BY <1>1, <1>6, Facts
  <2>2. ASSUME NEW q \in Procs, q # p PROVE Tagged(proc[q])'
    <3>1. Tagged(proc[q])
      BY DEF XInv, KeepsTags
    <3>2. Alike(proc'[q], proc[q]) /\ (proc[q].pc \in {"set", "decide", "ulstat", "uget", "uset"} => proc'[q].stale)
      BY <1>3, <1>4, <2>2
    <3> QED BY <3>1, <3>2 DEF Tagged, Alike
  <2>3. Tagged(proc[p])'
    <3>1. CASE w.pc = "done"
      BY <1>4, <3>1 DEF Tagged
    <3>2. CASE w.pc = "decide"
      BY <1>4, <3>2 DEF Tagged
    <3> QED BY <3>1, <3>2
  <2> QED BY <2>1, <2>2, <2>3 DEF KeepsTags
<1> QED BY <1>8, <1>10, <1>13, <1>14, <1>15, <1>16 DEF XInv

LEMMA RepairStep ==
  ASSUME XInv, NEW p \in Procs, Attrs!Repair(p)
  PROVE  XInv'
<1>1. PICK v : v = proc[p]
  OBVIOUS
<1>2. PICK w : w = IF Attrs!After(v.job) = "done" THEN Attrs!Over("ok")
                   ELSE [Attrs!To(p, Attrs!After(v.job)) EXCEPT !.stale = FALSE, !.past = FALSE]
  OBVIOUS
<1>3. /\ Attrs!Set(path, proc[p].attr) /\ lockset' = FALSE /\ kept' = kept \cap proc[p].attr.tags
      /\ UNCHANGED <<path, uuids, writes>> /\ proc[p].pc = "set"
      /\ proc' = Attrs!Outdates({p}, [proc EXCEPT ![p] = w], proc[p].past)
  BY <1>1, <1>2 DEF Attrs!Repair
<1>4. v \in Processes /\ Doing(v) /\ v.attr.uuid \in 0 .. uuids /\ v.pc = "set" /\ kept \in SUBSET TagsThereAre
  BY <1>1, <1>3, Facts DEF XInv, AttrTyped
<1>5. CASE Attrs!After(v.job) = "done"
  <2>1. w = Attrs!Over("ok")
    BY <1>2, <1>5
  <2>2. Suits(p, w) /\ w.pc = "done" /\ w.attr.uuid = 0 /\ \A C : ProcTrue(C, w)
    BY <2>1, OverFits
  <2>3. w \in Processes /\ Doing(w) /\ ~Carries(w) /\ w.attr.uuid \in 0 .. uuids
    BY <2>2, Facts DEF Suits, Carries
  <2> QED BY <1>3, <1>4, <2>2, <2>3, Sets
<1>6. CASE Attrs!After(v.job) = "decide"
  <2>1. w = [v EXCEPT !.pc = "decide", !.stale = FALSE, !.past = FALSE]
    BY <1>1, <1>2, <1>4, <1>6 DEF Attrs!To, Processes
  <2>2. /\ w \in Processes /\ w.pc = "decide" /\ w.job = v.job /\ w.attr = v.attr /\ w.time = v.time
        /\ w.answer = v.answer
    BY <1>4, <2>1 DEF Processes
  <2>3. Doing(w) /\ ~Carries(w) /\ w.attr.uuid \in 0 .. uuids
    BY <1>4, <2>2 DEF Doing, Carries
  <2>4. ASSUME NEW C \in Histories, TrueBy(C) PROVE ProcTrue(C, w)
    <3>1. ProcTrue(C, v)
      BY <1>1, <2>4, Facts
    <3> QED BY <1>4, <2>2, <3>1 DEF ProcTrue, Reads, Carries, Dated
  <2> QED BY <1>1, <1>3, <1>4, <2>2, <2>3, <2>4, Sets
<1> QED BY <1>5, <1>6 DEF Attrs!After

LEMMA UpdateSetStep ==
  ASSUME XInv, NEW p \in Procs, Attrs!UpdateSet(p)
  PROVE  XInv'
<1>1. PICK v : v = proc[p]
  OBVIOUS
<1>2. PICK w : w = Attrs!Over("ok")
  OBVIOUS
<1>3. /\ Attrs!Set(path, proc[p].attr) /\ UNCHANGED <<path, lockset, uuids, writes>> /\ proc[p].pc = "uset"
      /\ proc' = Attrs!Outdates({p}, [proc EXCEPT ![p] = w], proc[p].past)
      /\ kept' = IF v.job.do = "ADDTAGS" THEN (kept \cap v.attr.tags) \cup v.job.tags ELSE kept \cap v.attr.tags
  BY <1>1, <1>2 DEF Attrs!UpdateSet
<1>4. /\ v \in Processes /\ v.attr \in Attributes /\ kept \in SUBSET TagsThereAre /\ Tagged(v)
  BY <1>1, <1>3, Facts DEF XInv, AttrTyped
<1>5. v.job.do = "ADDTAGS" => v.job.tags \subseteq v.attr.tags
  BY <1>1, <1>3, <1>4 DEF Tagged
<1>6. kept' \in SUBSET TagsThereAre /\ kept' \subseteq v.attr.tags
  BY <1>3, <1>4, <1>5 DEF Attributes
<1>7. Suits(p, w) /\ w.pc = "done" /\ w.attr.uuid = 0 /\ \A C : ProcTrue(C, w)
  BY <1>2, OverFits
<1>8. w \in Processes /\ Doing(w) /\ ~Carries(w) /\ w.attr.uuid \in 0 .. uuids
  BY <1>7, Facts DEF Suits, Carries
<1> QED BY <1>1, <1>3, <1>6, <1>7, <1>8, Sets

\* What was true stays so, if no time comes again.
LEMMA StaysTrue ==
  ASSUME NEW C \in Histories, NEW D \in Histories', writes \in Nat, writes' \in {writes, writes + 1},
         \A t \in 1 .. writes + 1 : /\ D[t] = C[t] /\ (Awaited(t)' => Awaited(t)) /\ (Past(t) => Past(t)')
  PROVE  /\ \A a : TrueTo(C, a) => TrueTo(D, a)'
         /\ \A u : ProcTrue(C, u) => ProcTrue(D, u)'
<1>1. \A t \in 1 .. writes + 1 : t \in 1 .. writes' + 1
  <2>1. CASE writes' = writes
    BY <2>1
  <2>2. CASE writes' = writes + 1
    BY <2>2
  <2> QED BY <2>1, <2>2
<1>2. \A a : TrueTo(C, a) => TrueTo(D, a)'
  BY <1>1 DEF TrueTo
<1>3. ASSUME NEW u, ProcTrue(C, u) PROVE ProcTrue(D, u)'
  <2>1. TrueTo(D, u.attr)'
    BY <1>2, <1>3 DEF ProcTrue
  <2>2. Dated(u) => /\ u.time \in 1 .. writes + 1 /\ D[u.time] = C[u.time] /\ u.time \in 1 .. writes' + 1
                    /\ ~Awaited(u.time)' /\ (Past(u.time) => Past(u.time)')
    BY <1>1, <1>3 DEF ProcTrue
  <2>3. u.pc \in {"ulstat", "uget", "check", "rename"} => Dated(u)
    BY DEF Dated
  <2>4. Carries(u) => Stamp(u) \in 1 .. writes' + 1 /\ D[Stamp(u)] = C[Stamp(u)]
    BY <1>1, <1>3 DEF ProcTrue
  <2> QED BY <1>3, <2>1, <2>2, <2>3, <2>4 DEF ProcTrue, Carries
<1> QED BY <1>2, <1>3

LEMMA NewTime ==
  ASSUME NEW C \in Histories, writes \in Nat, writes' = writes + 1, NEW content \in Seq(Nat)
  PROVE  \E D \in Histories' : D[writes + 2] = content /\ \A t \in 1 .. writes + 1 : D[t] = C[t]
<1>1. PICK D : D = [t \in 1 .. writes + 2 |-> IF t = writes + 2 THEN content ELSE C[t]]
  OBVIOUS
<1>2. D \in Histories' /\ D[writes + 2] = content /\ \A t \in 1 .. writes + 1 : D[t] = C[t]
  BY <1>1 DEF Histories
<1> QED BY <1>2

\* Another file takes the place, of a time that nobody has but the one that put it there.
Retired(p, k) == /\ Carries(proc[p]) /\ Stamp(proc[p]) = k /\ proc'[p].pc = "done" /\ proc'[p].attr.uuid = 0
                 /\ \A C : ProcTrue(C, proc'[p])
LEMMA NewFile ==
  ASSUME XInv, NEW i \in Inodes, i.attr.uuid \in 0 .. uuids, i.attr.uuid = 0 => i.attr = Attrs!NoAttr,
         file' = Append(file, i), path' = Len(file) + 1,
         UNCHANGED <<lockset, uuids>>, kept' = {}, writes' \in {writes, writes + 1},
         proc' \in [Procs -> Processes], \A q \in Procs : Doing(proc'[q]),
         \A q \in Procs : proc'[q].pc \in {"set", "uset"} => proc'[q].past,
         \A q \in Procs : Alike(proc'[q], proc[q]) \/ Retired(q, i.mtime),
         i.mtime \in 1 .. writes' + 1, i.mtime \in 1 .. writes + 1 => Awaited(i.mtime),
         \A q \in Procs : Carries(proc[q]) /\ Stamp(proc[q]) = i.mtime => ~Carries(proc'[q]),
         \A C \in Histories : TrueBy(C) =>
           \E D \in Histories' : /\ \A t \in 1 .. writes + 1 : D[t] = C[t]
                                 /\ i.content = D[i.mtime]
                                 /\ i.attr.hash # <<>> => /\ i.attr.time \in 1 .. writes' + 1
                                                          /\ i.attr.hash = D[i.attr.time]
  PROVE  XInv'
<1>1. file \in Seq(Inodes) /\ Len(file) \in Nat /\ path \in DOMAIN file /\ writes \in Nat /\ uuids \in Nat
  BY Facts DEF XInv, AttrTyped
<1>2. /\ file' \in Seq(Inodes) /\ Len(file') = Len(file) + 1 /\ DOMAIN file' = DOMAIN file \cup {path'}
      /\ file'[path'] = i /\ \A f \in DOMAIN file : file'[f] = file[f] /\ f # path'
  BY <1>1
<1>3. AttrTyped'
  BY <1>1, <1>2 DEF XInv, AttrTyped
<1>4. ASSUME NEW q \in Procs, Carries(proc'[q])
      PROVE  Alike(proc'[q], proc[q]) /\ Carries(proc[q]) /\ Stamp(proc'[q]) = Stamp(proc[q]) /\ Stamp(proc[q]) # i.mtime
  <2>1. Alike(proc'[q], proc[q])
    BY <1>4 DEF Retired, Carries
  <2> QED BY <1>4, <2>1, AlikeTrue
<1>5. Locked'
  BY DEF XInv, Locked, Alike, Retired
<1>6. \A t : Awaited(t)' => Awaited(t) /\ t # i.mtime
  <2>1. ASSUME NEW t PROVE Awaited(t)' <=> \E q \in Procs : Carries(proc'[q]) /\ Stamp(proc'[q]) = t
    BY DEF Awaited, Carries, Stamp
  <2> QED BY <1>4, <2>1 DEF Awaited
<1>7. Remembered'
  <2>1. Apart'
    <3>1. \A q, r \in Procs : Carries(proc'[q]) /\ Carries(proc'[r]) /\ Stamp(proc'[q]) = Stamp(proc'[r]) => q = r
      BY <1>4 DEF XInv, Remembered, Apart
    <3> QED BY <3>1 DEF Apart, Carries, Stamp
  <2>2. PICK C \in Histories : TrueBy(C)
    BY DEF XInv, Remembered
  <2>3. PICK D \in Histories' : /\ \A t \in 1 .. writes + 1 : D[t] = C[t]
                                /\ i.content = D[i.mtime]
                                /\ i.attr.hash # <<>> => /\ i.attr.time \in 1 .. writes' + 1
                                                         /\ i.attr.hash = D[i.attr.time]
    BY <2>2
  <2>4. \A t \in 1 .. writes + 1 : Past(t) => Past(t)'
    <3>1. file'[path'].mtime = i.mtime
      BY <1>2
    <3> QED BY <1>6, <3>1 DEF Past
  <2>5. /\ \A a : TrueTo(C, a) => TrueTo(D, a)'
        /\ \A u : ProcTrue(C, u) => ProcTrue(D, u)'
    BY <1>1, <1>6, <2>3, <2>4, StaysTrue
  <2>6. FilesTrue(D)'
    <3>1. ASSUME NEW f \in DOMAIN file', NEW g, g = file'[f]
          PROVE  /\ g.mtime \in 1 .. writes' + 1 /\ ~Awaited(g.mtime)' /\ g.content = D[g.mtime]
                 /\ g.attr.hash # <<>> => /\ g.attr.time \in 1 .. writes' + 1
                                          /\ g.attr.hash = D[g.attr.time]
      <4>1. CASE f = path'
        BY <1>2, <1>6, <2>3, <3>1, <4>1
      <4>2. CASE f \in DOMAIN file
        <5>1. g = file[f]
          BY <1>2, <3>1, <4>2
        <5>2. g.mtime \in 1 .. writes + 1 /\ ~Awaited(g.mtime) /\ g.content = C[g.mtime] /\ TrueTo(C, g.attr)
          BY <2>2, <4>2, <5>1 DEF TrueBy, FilesTrue, Attrs!Inums
        <5>3. g.mtime \in 1 .. writes' + 1 /\ ~Awaited(g.mtime)' /\ g.content = D[g.mtime] /\ TrueTo(D, g.attr)'
          BY <1>1, <1>6, <2>3, <2>5, <5>2
        <5> QED BY <5>3 DEF TrueTo
      <4> QED BY <1>2, <3>1, <4>1, <4>2
    <3> QED BY <3>1 DEF FilesTrue, Attrs!Inums, TrueTo
  <2>7. ASSUME NEW q \in Procs PROVE ProcTrue(D, proc[q])'
    <3>1. PICK u : u = proc'[q]
      OBVIOUS
    <3>2. ProcTrue(C, u)
      <4>1. CASE Alike(proc'[q], proc[q])
        <5>1. ProcTrue(C, proc[q])
          BY <2>2 DEF TrueBy
        <5> QED BY <3>1, <4>1, <5>1, AlikeTrue
      <4>2. CASE Retired(q, i.mtime)
        BY <3>1, <4>2 DEF Retired
      <4> QED BY <4>1, <4>2
    <3>3. ProcTrue(D, u)'
      BY <2>5, <3>2
    <3> QED BY <3>1, <3>3 DEF ProcTrue, TrueTo
  <2> QED BY <2>1, <2>6, <2>7, <2>3 DEF Remembered, TrueBy
<1>8. Named'
  <2>1. \A f \in Attrs!Inums' : file'[f].attr.uuid \in 0 .. uuids /\ (file'[f].attr.uuid = 0 => file'[f].attr = Attrs!NoAttr)
    BY <1>2 DEF XInv, Named, Attrs!Inums
  <2>2. ASSUME NEW q \in Procs
        PROVE  /\ proc'[q].attr.uuid \in 0 .. uuids
               /\ Dated(proc'[q]) /\ proc'[q].pc # "get" => proc'[q].attr.uuid # 0
               /\ proc'[q].pc = "lstat" /\ proc'[q].job.do = "hash" => proc'[q].attr.uuid # 0
    <3>1. CASE Alike(proc'[q], proc[q])
      BY <3>1 DEF XInv, Named, Alike, Dated
    <3>2. CASE Retired(q, i.mtime)
      BY <1>1, <3>2 DEF Retired, Dated
    <3> QED BY <3>1, <3>2
  <2> QED BY <2>1, <2>2 DEF Named, Dated
<1>9. OfFile'
  BY DEF OfFile, Fresh
<1>10. KeepsTags'
  <2>1. ASSUME NEW q \in Procs PROVE Tagged(proc[q])'
    <3>1. Tagged(proc[q])
      BY DEF XInv, KeepsTags
    <3> QED BY <3>1 DEF Tagged, Alike, Retired
  <2> QED BY <2>1 DEF KeepsTags
<1> QED BY <1>3, <1>5, <1>7, <1>8, <1>9, <1>10 DEF XInv

LEMMA AppendRenameStep ==
  ASSUME XInv, NEW p \in Procs, Attrs!AppendRename(p)
  PROVE  XInv'
<1>1. PICK v : v = proc[p]
  OBVIOUS
<1>2. PICK k : k = Stamp(v)
  OBVIOUS
<1>3. PICK a : a = [uuid |-> v.attr.uuid, time |-> k, tags |-> {}, hash |-> Append(v.attr.hash, k)]
  OBVIOUS
<1>4. PICK i : i = [mtime |-> k, content |-> v.content, attr |-> a]
  OBVIOUS
<1>5. PICK w : w = Attrs!Over("ok")
  OBVIOUS
<1>6. /\ file' = Append(file, i) /\ path' = Len(file) + 1 /\ kept' = kept \cap file'[path'].attr.tags
      /\ v.pc = "rename"
      /\ proc' = Attrs!Outdates({p}, [proc EXCEPT ![p] = w], TRUE) /\ UNCHANGED <<lockset, uuids, writes>>
  BY <1>1, <1>2, <1>3, <1>4, <1>5 DEF Attrs!AppendRename, Stamp
<1>7. PICK C \in Histories : TrueBy(C)
  BY DEF XInv, Remembered
<1>8. ASSUME NEW D \in Histories, TrueBy(D)
      PROVE  /\ k \in 1 .. writes + 1 /\ v.content = D[k] /\ v.attr.hash = D[v.time]
             /\ v.content = Append(D[v.time], k)
  <2>1. ProcTrue(D, v) /\ Doing(v)
    BY <1>1, <1>8, Facts
  <2> QED BY <1>2, <1>6, <2>1 DEF ProcTrue, TrueTo, Carries, Reads, Doing
<1>9. /\ v \in Processes /\ v.attr.uuid # 0 /\ v.attr.uuid \in 0 .. uuids /\ v.attr.hash \in Seq(Nat)
      /\ v.content \in Seq(Nat) /\ writes \in Nat /\ Carries(v)
  BY <1>1, <1>6, Facts DEF Dated, Processes, Attributes, Carries
<1>10. k \in Nat /\ k \in 1 .. writes + 1
  BY <1>7, <1>8, <1>9
<1>11. a \in Attributes /\ i \in Inodes /\ i.mtime = k /\ i.content = v.content /\ i.attr = a /\ a.uuid = v.attr.uuid
       /\ a.time = k /\ a.hash = Append(v.attr.hash, k)
  BY <1>3, <1>4, <1>9, <1>10 DEF Attributes, Inodes
<1>12. Suits(p, w) /\ w.pc = "done" /\ w.attr.uuid = 0 /\ \A D : ProcTrue(D, w)
  BY <1>5, OverFits
<1>13. w \in Processes /\ Doing(w) /\ ~Carries(w)
  BY <1>12 DEF Suits, Carries
<1>14. PICK P : P = [proc EXCEPT ![p] = w]
  OBVIOUS
<1>15. P \in [Procs -> Processes] /\ \A q \in Procs : P[q] = IF q = p THEN w ELSE proc[q]
  BY <1>13, <1>14 DEF XInv, AttrTyped
<1>16. /\ proc' \in [Procs -> Processes]
       /\ \A q \in Procs : /\ Alike(proc'[q], P[q]) /\ (q = p => proc'[q] = w)
                           /\ q # p /\ P[q].pc \in {"set", "uset"} => proc'[q].past
  BY <1>6, <1>14, <1>15, OutdatesIs
<1>17. \A q \in Procs : q # p => Alike(proc'[q], proc[q])
  BY <1>15, <1>16
<1>18. Retired(p, k) /\ Awaited(k)
  BY <1>1, <1>2, <1>9, <1>12, <1>16 DEF Retired, Awaited
<1>19. \A q \in Procs : Doing(proc'[q])
  BY <1>13, <1>16, <1>17, AlikeTrue DEF XInv, AttrTyped
<1>20. \A q \in Procs : Carries(proc[q]) /\ Stamp(proc[q]) = k => ~Carries(proc'[q])
  <2>1. \A q \in Procs : Carries(proc[q]) /\ Stamp(proc[q]) = k => q = p
    BY <1>1, <1>2, <1>9 DEF XInv, Remembered, Apart
  <2> QED BY <1>13, <1>16, <2>1
<1>21. ASSUME NEW D \in Histories, TrueBy(D)
       PROVE  \E E \in Histories' : /\ \A t \in 1 .. writes + 1 : E[t] = D[t]
                                    /\ i.content = E[i.mtime]
                                    /\ i.attr.hash # <<>> => /\ i.attr.time \in 1 .. writes' + 1
                                                             /\ i.attr.hash = E[i.attr.time]
  <2>1. D \in Histories'
    BY <1>6 DEF Histories
  <2>2. v.content = D[k] /\ a.hash = D[k]
    BY <1>8, <1>11, <1>21
  <2> QED BY <1>6, <1>10, <1>11, <2>1, <2>2
<1>22. kept' = {}
  <2>1. file \in Seq(Inodes)
    BY Facts
  <2>2. file'[path'] = i
    BY <1>6, <1>11, <2>1
  <2>3. a.tags = {}
    BY <1>3
  <2> QED BY <1>6, <1>11, <2>2, <2>3
<1>23. \A q \in Procs : proc'[q].pc \in {"set", "uset"} => proc'[q].past
  BY <1>12, <1>15, <1>16 DEF Alike
<1> HIDE DEF Retired
<1> QED BY <1>6, <1>9, <1>10, <1>11, <1>16, <1>17, <1>18, <1>19, <1>20, <1>21, <1>22, <1>23, NewFile

LEMMA ReplaceStep ==
  ASSUME XInv, Attrs!Replace
  PROVE  XInv'
<1>1. PICK k : k = writes + 2
  OBVIOUS
<1>2. PICK a \in {Attrs!NoAttr, [uuid |-> file[path].attr.uuid, hash |-> <<k>>, time |-> k, tags |-> {}]} :
        /\ a = Attrs!NoAttr \/ a.uuid # 0
        /\ file' = Append(file, [mtime |-> k, content |-> <<k>>, attr |-> a])
  BY <1>1 DEF Attrs!Replace
<1>3. PICK i : i = [mtime |-> k, content |-> <<k>>, attr |-> a]
  OBVIOUS
<1>4. /\ file' = Append(file, i) /\ path' = Len(file) + 1 /\ writes' = writes + 1
      /\ kept' = kept \cap file'[path'].attr.tags /\ proc' = Attrs!Outdates({}, proc, TRUE) /\ UNCHANGED <<lockset, uuids>>
  BY <1>2, <1>3 DEF Attrs!Replace
<1>5. writes \in Nat /\ uuids \in Nat /\ file[path].attr.uuid \in 0 .. uuids
  BY DEF XInv, AttrTyped, Named, Attrs!Inums
<1>6. k \in Nat /\ k \in 1 .. writes' + 1 /\ k \notin 1 .. writes + 1 /\ <<k>> \in Seq(Nat)
  BY <1>1, <1>4, <1>5
<1>7. /\ a \in Attributes /\ a.uuid \in 0 .. uuids /\ (a.uuid = 0 => a = Attrs!NoAttr)
      /\ a.hash # <<>> => a.time = k /\ a.hash = <<k>>
  <2>1. CASE a = Attrs!NoAttr
    BY <1>5, <2>1 DEF Attributes, Attrs!NoAttr
  <2>2. CASE a = [uuid |-> file[path].attr.uuid, hash |-> <<k>>, time |-> k, tags |-> {}] /\ a.uuid # 0
    BY <1>5, <1>6, <2>2 DEF Attributes
  <2> QED BY <1>2, <2>1, <2>2
<1>8. i \in Inodes /\ i.mtime = k /\ i.content = <<k>> /\ i.attr = a
  BY <1>3, <1>6, <1>7 DEF Inodes
<1>9. /\ proc' \in [Procs -> Processes]
      /\ \A q \in Procs : Alike(proc'[q], proc[q]) /\ (proc[q].pc \in {"set", "uset"} => proc'[q].past)
  BY <1>4, OutdatesIs DEF XInv, AttrTyped
<1>10. \A q \in Procs : Doing(proc'[q])
  BY <1>9, AlikeTrue DEF XInv, AttrTyped
<1>11. \A q \in Procs : ~(Carries(proc[q]) /\ Stamp(proc[q]) = k)
  <2>1. PICK C \in Histories : TrueBy(C)
    BY DEF XInv, Remembered
  <2> QED BY <1>6, <2>1 DEF TrueBy, ProcTrue
<1>12. ASSUME NEW C \in Histories, TrueBy(C)
       PROVE  \E D \in Histories' : /\ \A t \in 1 .. writes + 1 : D[t] = C[t]
                                    /\ i.content = D[i.mtime]
                                    /\ i.attr.hash # <<>> => /\ i.attr.time \in 1 .. writes' + 1
                                                             /\ i.attr.hash = D[i.attr.time]
  <2>1. PICK D \in Histories' : D[writes + 2] = <<k>> /\ \A t \in 1 .. writes + 1 : D[t] = C[t]
    BY <1>4, <1>5, <1>6, NewTime
  <2> QED BY <1>1, <1>6, <1>7, <1>8, <2>1
<1>13. kept' = {}
  <2>1. file \in Seq(Inodes)
    BY DEF XInv, AttrTyped
  <2>2. file'[path'] = i /\ i.attr = a
    BY <1>4, <1>8, <2>1
  <2>3. a.tags = {}
    BY <1>2 DEF Attrs!NoAttr
  <2> QED BY <1>4, <2>2, <2>3
<1>14. \A q \in Procs : proc'[q].pc \in {"set", "uset"} => proc'[q].past
  BY <1>9 DEF Alike
<1> QED BY <1>4, <1>6, <1>7, <1>8, <1>9, <1>10, <1>11, <1>12, <1>13, <1>14, NewFile

LEMMA WriteStep ==
  ASSUME XInv, Attrs!Write
  PROVE  XInv'
<1>1. PICK k : k = writes + 2
  OBVIOUS
<1>2. PICK g : g = file[path]
  OBVIOUS
<1>3. PICK c : c = Append(g.content, k)
  OBVIOUS
<1>4. PICK i : i = [g EXCEPT !.mtime = k, !.content = c]
  OBVIOUS
<1>5. /\ file \in Seq(Inodes) /\ path \in DOMAIN file /\ g \in Inodes /\ g.content \in Seq(Nat) /\ writes \in Nat
      /\ proc \in [Procs -> Processes]
  <2>1. path \in DOMAIN file /\ g \in Inodes
    BY <1>2 DEF XInv, AttrTyped
  <2> QED BY <2>1 DEF XInv, AttrTyped, Inodes
<1>6. k \in Nat /\ c \in Seq(Nat)
  BY <1>1, <1>3, <1>5
<1>7. i \in Inodes /\ i.mtime = k /\ i.content = c /\ i.attr = g.attr
  BY <1>4, <1>5, <1>6 DEF Inodes
<1>8. /\ file' = [file EXCEPT ![path] = i] /\ writes' = writes + 1
      /\ UNCHANGED <<path, proc, lockset, uuids, kept>>
  <2>1. [file EXCEPT ![path].mtime = k, ![path].content = Append(@, k)] = [file EXCEPT ![path] = i]
    <3>1. [file EXCEPT ![path].mtime = k] = [file EXCEPT ![path] = [g EXCEPT !.mtime = k]]
      BY <1>2
    <3> QED BY <1>2, <1>3, <1>4, <1>5, <3>1 DEF Inodes
  <2> QED BY <1>1, <2>1 DEF Attrs!Write
<1>9. /\ file' \in Seq(Inodes) /\ Len(file') = Len(file) /\ DOMAIN file' = DOMAIN file
      /\ \A f \in DOMAIN file : file'[f] = IF f = path THEN i ELSE file[f]
  BY <1>5, <1>7, <1>8
<1>10. AttrTyped'
  BY <1>8, <1>9 DEF XInv, AttrTyped
<1>11. Locked' /\ Named' /\ OfFile' /\ KeepsTags'
  <2>1. \A f \in DOMAIN file : file'[f].attr = file[f].attr
    BY <1>2, <1>7, <1>9
  <2>2. Named'
    BY <1>8, <1>9, <2>1 DEF XInv, Named, Attrs!Inums
  <2>3. OfFile'
    <3>1. file'[path'].attr = file[path].attr
      BY <1>5, <1>8, <2>1
    <3> QED BY <1>8, <3>1 DEF XInv, OfFile, Fresh
  <2>4. KeepsTags'
    BY <1>5, <1>8, <2>1 DEF XInv, KeepsTags, Tagged
  <2> QED BY <1>8, <2>2, <2>3, <2>4 DEF XInv, Locked
<1>12. Remembered'
  <2>1. PICK C \in Histories : TrueBy(C)
    BY DEF XInv, Remembered
  <2>2. PICK D \in Histories' : D[k] = c /\ \A t \in 1 .. writes + 1 : D[t] = C[t]
    BY <1>1, <1>5, <1>6, <1>8, NewTime
  <2>3. \A t : Awaited(t)' <=> Awaited(t)
    BY <1>8 DEF Awaited
  <2>4. k \notin 1 .. writes + 1 /\ k \in 1 .. writes' + 1
    BY <1>1, <1>5, <1>8
  <2>5. ~Awaited(k)
    BY <2>1, <2>4 DEF TrueBy, ProcTrue, Awaited
  <2>6. \A t \in 1 .. writes + 1 : Past(t) => Past(t)'
    <3>1. file'[path'].mtime = k
      BY <1>5, <1>7, <1>8, <1>9
    <3> QED BY <2>3, <2>4, <3>1 DEF Past
  <2>7. /\ \A a : TrueTo(C, a) => TrueTo(D, a)'
        /\ \A u : ProcTrue(C, u) => ProcTrue(D, u)'
    BY <1>5, <1>8, <2>2, <2>3, <2>6, StaysTrue
  <2>8. FilesTrue(D)'
    <3>1. ASSUME NEW f \in DOMAIN file', NEW h, h = file'[f]
          PROVE  /\ h.mtime \in 1 .. writes' + 1 /\ ~Awaited(h.mtime)' /\ h.content = D[h.mtime]
                 /\ h.attr.hash # <<>> => /\ h.attr.time \in 1 .. writes' + 1
                                          /\ h.attr.hash = D[h.attr.time]
      <4>1. PICK o : o = file[f]
        OBVIOUS
      <4>2. o.mtime \in 1 .. writes + 1 /\ ~Awaited(o.mtime) /\ o.content = C[o.mtime] /\ TrueTo(C, o.attr)
        BY <1>9, <2>1, <3>1, <4>1 DEF TrueBy, FilesTrue, Attrs!Inums
      <4>3. h.attr = o.attr /\ TrueTo(D, o.attr)'
        BY <1>2, <1>7, <1>9, <2>7, <3>1, <4>1, <4>2
      <4>4. h.mtime \in 1 .. writes' + 1 /\ ~Awaited(h.mtime)' /\ h.content = D[h.mtime]
        <5>1. CASE f = path
          BY <1>7, <1>9, <2>2, <2>3, <2>4, <2>5, <3>1, <5>1
        <5>2. CASE f # path
          BY <1>5, <1>8, <1>9, <2>2, <2>3, <3>1, <4>1, <4>2, <5>2
        <5> QED BY <5>1, <5>2
      <4> QED BY <4>3, <4>4 DEF TrueTo
    <3> QED BY <3>1 DEF FilesTrue, Attrs!Inums, TrueTo
  <2>9. ASSUME NEW q \in Procs PROVE ProcTrue(D, proc[q])'
    <3>1. PICK u : u = proc[q]
      OBVIOUS
    <3>2. ProcTrue(C, u)
      BY <2>1, <3>1 DEF TrueBy
    <3>3. ProcTrue(D, u)'
      BY <2>7, <3>2
    <3> QED BY <1>8, <3>1, <3>3 DEF ProcTrue, TrueTo
  <2>10. Apart'
    BY <1>8 DEF XInv, Remembered, Apart
  <2> QED BY <2>2, <2>8, <2>9, <2>10 DEF Remembered, TrueBy
<1> QED BY <1>10, <1>11, <1>12 DEF XInv

-----------------------------------------------------------------------------
(* The theorems.                                                            *)

LEMMA XInit == Attrs!Init => XInv
<1> SUFFICES ASSUME Attrs!Init PROVE XInv
  OBVIOUS
<1>1. PICK a \in {Attrs!NoAttr, [uuid |-> 1, hash |-> <<1>>, time |-> 1, tags |-> {2}]} :
        /\ file = <<[mtime |-> 1, content |-> <<1>>, attr |-> a]>>
        /\ uuids = a.uuid /\ kept = a.tags
  BY DEF Attrs!Init
<1>2. PICK i : i = [mtime |-> 1, content |-> <<1>>, attr |-> a]
  OBVIOUS
<1>3. PICK N : N = Attrs!NoProc
  OBVIOUS
<1>4. path = 1 /\ proc = [p \in Procs |-> N] /\ lockset = FALSE /\ writes = 0 /\ file = <<i>>
  BY <1>1, <1>2, <1>3 DEF Attrs!Init
<1>5. /\ a \in Attributes /\ a.uuid \in Nat /\ (a.uuid = 0 => a = Attrs!NoAttr)
      /\ a.hash # <<>> => a.time = 1 /\ a.hash = <<1>>
  <2>1. CASE a = Attrs!NoAttr
    BY <2>1 DEF Attributes, Attrs!NoAttr
  <2>2. CASE a = [uuid |-> 1, hash |-> <<1>>, time |-> 1, tags |-> {2}]
    <3>1. {2} \in SUBSET TagsThereAre /\ <<1>> \in Seq(Nat)
      BY DEF TagsThereAre
    <3> QED BY <2>2, <3>1 DEF Attributes
  <2> QED BY <1>1, <2>1, <2>2
<1>6. i \in Inodes /\ i.mtime = 1 /\ i.content = <<1>> /\ i.attr = a
  BY <1>2, <1>5 DEF Inodes
<1>7. N \in Processes /\ N.pc = "idle" /\ N.answer = "none" /\ N.attr.uuid = 0 /\ N.attr.hash = <<>>
  BY <1>3 DEF Attrs!NoProc, Attrs!NoAttr, Processes, Attributes
<1>8. AttrTyped
  <2>1. file \in Seq(Inodes) /\ Len(file) = 1
    BY <1>4, <1>6
  <2>2. \A p \in Procs : Doing(proc[p])
    BY <1>4, <1>7 DEF Doing
  <2>3. uuids \in Nat /\ kept \in SUBSET TagsThereAre
    BY <1>1, <1>5 DEF Attributes
  <2>4. path \in 1 .. Len(file) /\ Len(file) \in Nat \ {0} /\ writes \in Nat /\ lockset \in BOOLEAN
    <3>1. path = 1 /\ writes = 0
      BY <1>4
    <3>2. PICK n \in Nat \ {0} : n = Len(file) /\ n = 1
      BY <2>1
    <3>3. lockset \in BOOLEAN
      BY DEF Attrs!Init
    <3> QED BY <3>1, <3>2, <3>3
  <2>5. proc \in [Procs -> Processes]
    BY <1>4, <1>7
  <2> QED BY <2>1, <2>2, <2>3, <2>4, <2>5 DEF AttrTyped
<1>9. DOMAIN file = {1} /\ file[1] = i
  BY <1>4
<1>10. Locked /\ Named /\ OfFile /\ KeepsTags
  BY <1>1, <1>4, <1>5, <1>6, <1>7, <1>9 DEF Locked, Named, OfFile, Fresh, KeepsTags, Tagged, Dated, Attrs!Inums
<1>11. \A p \in Procs : ~Carries(proc[p])
  BY <1>4, <1>7 DEF Carries
<1>12. PICK C : C = [t \in 1 .. 1 |-> <<1>>]
  OBVIOUS
<1>13. C \in Histories /\ C[1] = <<1>>
  BY <1>4, <1>12 DEF Histories
<1>14. FilesTrue(C)
  BY <1>4, <1>5, <1>6, <1>9, <1>11, <1>13 DEF FilesTrue, TrueTo, Attrs!Inums, Awaited
<1>15. \A p \in Procs : ProcTrue(C, proc[p])
  BY <1>4, <1>7 DEF ProcTrue, TrueTo, Dated, Reads, Carries
<1> QED BY <1>8, <1>10, <1>11, <1>13, <1>14, <1>15 DEF XInv, Remembered, Apart, TrueBy

LEMMA XNext == XInv /\ [Attrs!Next]_(Attrs!vars) => XInv'
<1> SUFFICES ASSUME XInv, [Attrs!Next]_(Attrs!vars) PROVE XInv'
  OBVIOUS
<1>1. ASSUME NEW p \in Procs, Attrs!Proceed(p) PROVE XInv'
  BY <1>1, LstatStep, GetStep, RepairStep, DecideStep, UpdateStep, UpdateGetStep, UpdateSetStep,
     DigestStep, ConcatStep, CheckStep, AppendRenameStep DEF Attrs!Proceed
<1>2. CASE UNCHANGED Attrs!vars
  <2> USE <1>2 DEF Attrs!vars
  <2>1. AttrTyped' /\ Locked' /\ Named' /\ OfFile' /\ KeepsTags'
    BY DEF XInv, AttrTyped, Locked, Named, Attrs!Inums, OfFile, Fresh, KeepsTags, Tagged
  <2>2. Apart'
    BY DEF XInv, Remembered, Apart
  <2>3. PICK C \in Histories : TrueBy(C)
    BY DEF XInv, Remembered
  <2>4. C \in Histories' /\ \A t : (Awaited(t)' <=> Awaited(t)) /\ (Past(t)' <=> Past(t))
    BY DEF Histories, Awaited, Past
  <2>5. FilesTrue(C)'
    BY <2>3, <2>4 DEF TrueBy, FilesTrue, TrueTo, Attrs!Inums
  <2>6. \A p \in Procs : ProcTrue(C, proc[p])'
    BY <2>3, <2>4 DEF TrueBy, ProcTrue, TrueTo
  <2> QED BY <2>1, <2>2, <2>4, <2>5, <2>6 DEF XInv, Remembered, TrueBy
<1> QED BY <1>1, <1>2, BeginStep, WriteStep, ReplaceStep DEF Attrs!Next

LEMMA Invariance == Attrs!Spec => []XInv
<1>1. XInv /\ [Attrs!Next]_(Attrs!vars) => XInv'
  BY XNext
<1> QED BY <1>1, XInit, PTL DEF Attrs!Spec

LEMMA SoundNow == XInv => Attrs!HashSound
  BY DEF XInv, Remembered, TrueBy, FilesTrue, TrueTo, Attrs!HashSound, Attrs!Inums

\* A recorded hash whose time is the file's is that of the file's content: the fingerprint
\* worker, which digests a file that others write, APPEND, which puts a copy of an older one,
\* and the readers that repair what they read before all keep to it (xstat.js).
THEOREM HashIsSound == Attrs!Spec => []Attrs!HashSound
  BY SoundNow, Invariance, PTL

\* What the writing of an attribute changes.
LEMMA Writing ==
  ASSUME XInv, NEW p \in Procs, Attrs!Repair(p) \/ Attrs!UpdateSet(p)
  PROVE  /\ proc[p].pc \in {"set", "uset"} /\ proc'[p].pc # proc[p].pc /\ path' = path
         /\ file'[path].attr = proc[p].attr
         /\ \A f \in DOMAIN file : f # path => file'[f] = file[f]
         /\ Attrs!Repair(p) => proc[p].pc = "set"
         /\ Attrs!UpdateSet(p) => proc[p].pc = "uset"
<1>1. proc[p].pc \in {"set", "uset"} /\ Attrs!Set(path, proc[p].attr) /\ path' = path
  BY DEF Attrs!Repair, Attrs!UpdateSet
<1>2. PICK w, swap : proc' = Attrs!Outdates({p}, [proc EXCEPT ![p] = w], swap) /\ w.pc \in {"done", "decide"}
  <2>1. Attrs!Over("ok").pc = "done"
    BY DEF Attrs!Over, Attrs!NoProc
  <2>2. PICK v \in Processes : v = proc[p]
    BY DEF XInv, AttrTyped
  <2>3. [[v EXCEPT !.pc = "decide"] EXCEPT !.stale = FALSE, !.past = FALSE].pc = "decide"
    BY <2>2 DEF Processes
  <2>4. CASE Attrs!Repair(p) /\ Attrs!After(proc[p].job) = "done"
    BY <2>1, <2>4 DEF Attrs!Repair
  <2>5. CASE Attrs!Repair(p) /\ Attrs!After(proc[p].job) # "done"
    BY <2>2, <2>3, <2>5 DEF Attrs!Repair, Attrs!After, Attrs!To
  <2>6. CASE Attrs!UpdateSet(p)
    BY <2>1, <2>6 DEF Attrs!UpdateSet
  <2> QED BY <2>4, <2>5, <2>6
<1>3. proc'[p] = w
  <2>1. [proc EXCEPT ![p] = w][p] = w
    BY DEF XInv, AttrTyped
  <2> QED BY <1>2, <2>1 DEF Attrs!Outdates
<1>4. path \in DOMAIN file /\ file \in Seq(Inodes)
  BY Facts
<1>5. PICK g \in Inodes : g = file[path]
  BY <1>4
<1>6. PICK i : i = [g EXCEPT !.attr = proc[p].attr]
  OBVIOUS
<1>7. i.attr = proc[p].attr
  BY <1>5, <1>6 DEF Inodes
<1>8. file' = [file EXCEPT ![path] = i]
  BY <1>1, <1>5, <1>6 DEF Attrs!Set
<1>9. (Attrs!Repair(p) => proc[p].pc = "set") /\ (Attrs!UpdateSet(p) => proc[p].pc = "uset")
  BY DEF Attrs!Repair, Attrs!UpdateSet
<1> QED BY <1>1, <1>2, <1>3, <1>4, <1>7, <1>8, <1>9

\* Nothing else changes the attribute of a file that is there.
LEMMA Resting ==
  ASSUME XInv, Attrs!Next, ~\E p \in Procs : Attrs!Repair(p) \/ Attrs!UpdateSet(p)
  PROVE  /\ \A f \in DOMAIN file : file'[f].attr = file[f].attr
         /\ path' # path => Attrs!Replace \/ \E p \in Procs : Attrs!AppendRename(p)
<1>1. file \in Seq(Inodes) /\ path \in DOMAIN file
  BY DEF XInv, AttrTyped
<1>2. CASE Attrs!Write
  <2>1. PICK g \in Inodes : g = file[path]
    BY <1>1
  <2>2. PICK i : i = [g EXCEPT !.mtime = writes + 2, !.content = Append(@, writes + 2)]
    OBVIOUS
  <2>3. i.attr = g.attr
    BY <2>1, <2>2 DEF Inodes
  <2>4. file' = [file EXCEPT ![path] = i]
    <3>1. [file EXCEPT ![path].mtime = writes + 2]
            = [file EXCEPT ![path] = [g EXCEPT !.mtime = writes + 2]]
      BY <2>1
    <3> QED BY <1>1, <1>2, <2>1, <2>2, <3>1 DEF Attrs!Write, Inodes
  <2>5. path' = path
    BY <1>2 DEF Attrs!Write
  <2> QED BY <1>1, <2>1, <2>3, <2>4, <2>5
<1>3. ASSUME NEW i, file' = Append(file, i) PROVE \A f \in DOMAIN file : file'[f].attr = file[f].attr
  BY <1>1, <1>3
<1>4. CASE Attrs!Replace \/ \E p \in Procs : Attrs!AppendRename(p)
  BY <1>3, <1>4 DEF Attrs!Replace, Attrs!AppendRename
<1>5. ASSUME NEW p \in Procs, Attrs!Proceed(p)
      PROVE  (\E q \in Procs : Attrs!AppendRename(q)) \/ UNCHANGED <<file, path>>
  BY <1>5 DEF Attrs!Proceed, Attrs!Lstat, Attrs!Get, Attrs!Decide, Attrs!Update, Attrs!UpdateGet, Attrs!Digest, Attrs!AppendDecide, Attrs!Concat, Attrs!Check
<1>6. ASSUME NEW p \in Procs, NEW j \in Jobs, Attrs!Begin(p, j) PROVE UNCHANGED <<file, path>>
  BY <1>6 DEF Attrs!Begin
<1> QED BY <1>2, <1>4, <1>5, <1>6 DEF Attrs!Next

LEMMA UuidStep ==
  ASSUME XInv, Attrs!Next
  PROVE  Attrs!OneUuidStep
<1> SUFFICES ASSUME NEW f \in Attrs!Inums, file[f].attr.uuid \notin {0, file'[f].attr.uuid}
             PROVE  \E p \in Procs : proc'[p].pc # proc[p].pc /\ proc[p].past
  BY DEF Attrs!OneUuidStep
<1>1. PICK p \in Procs : Attrs!Repair(p) \/ Attrs!UpdateSet(p)
  BY Resting DEF Attrs!Inums
<1>2. /\ proc[p].pc \in {"set", "uset"} /\ proc'[p].pc # proc[p].pc /\ file'[path].attr = proc[p].attr
      /\ \A g \in DOMAIN file : g # path => file'[g] = file[g]
  BY <1>1, Writing
<1>3. f = path
  BY <1>2 DEF Attrs!Inums
<1>4. proc[p].past \/ Fresh(proc[p])
  BY DEF XInv, OfFile
<1> QED BY <1>2, <1>3, <1>4 DEF Fresh

\* A file keeps the uuid it has, and gets its first one once: the lock of readXstatAsync() and
\* the comparison in updateFileHash() and updateFileTags(); but for a step of a process that had
\* read the attribute before another file came to the path, and writes it to that one.
THEOREM OneUuid == Attrs!Spec => [][Attrs!OneUuidStep]_(Attrs!vars)
<1>1. XInv /\ [Attrs!Next]_(Attrs!vars) => [Attrs!OneUuidStep]_(Attrs!vars)
  BY UuidStep
<1> QED BY <1>1, Invariance, PTL DEF Attrs!Spec

\* Who may take tags from the file with its step.
Loses(v, lost) ==
  \/ v.stale \/ v.pc = "rename"
  \/ v.pc = "uset" /\ v.job.do = "SETTAGS"
  \/ v.pc = "uset" /\ v.job.do = "REMOVETAGS" /\ lost \subseteq v.job.tags

LEMMA TagsStep ==
  ASSUME XInv, Attrs!Next
  PROVE  Attrs!TagsStayStep
<1>1. PICK lost : lost = kept \ file'[path'].attr.tags
  OBVIOUS
<1>2. SUFFICES ASSUME lost # {}
               PROVE  \/ \E p \in Procs : proc'[p].pc # proc[p].pc /\ Loses(proc[p], lost)
                      \/ path' # path /\ \A p \in Procs : proc'[p].pc = proc[p].pc
  BY <1>1 DEF Attrs!TagsStayStep, Loses
<1>3. kept \subseteq file[path].attr.tags /\ path \in DOMAIN file
  BY DEF XInv, AttrTyped, KeepsTags
<1>4. ASSUME NEW p \in Procs, Attrs!Repair(p) \/ Attrs!UpdateSet(p)
      PROVE  proc'[p].pc # proc[p].pc /\ Loses(proc[p], lost)
  <2>1. /\ proc[p].pc \in {"set", "uset"} /\ proc'[p].pc # proc[p].pc /\ path' = path
        /\ file'[path].attr = proc[p].attr
    BY <1>4, Writing
  <2>2. lost = kept \ proc[p].attr.tags
    BY <1>1, <2>1
  <2>3. Tagged(proc[p]) /\ Doing(proc[p])
    BY Facts
  <2> QED BY <1>2, <2>1, <2>2, <2>3 DEF Tagged, Doing, Attrs!Tagging, Loses
<1>5. CASE \E p \in Procs : Attrs!Repair(p) \/ Attrs!UpdateSet(p)
  BY <1>4, <1>5
<1>6. CASE ~\E p \in Procs : Attrs!Repair(p) \/ Attrs!UpdateSet(p)
  <2>1. path' # path /\ (Attrs!Replace \/ \E p \in Procs : Attrs!AppendRename(p))
    BY <1>1, <1>2, <1>3, <1>6, Resting
  <2>2. CASE Attrs!Replace
    <3>1. proc' = Attrs!Outdates({}, proc, TRUE)
      BY <2>2 DEF Attrs!Replace
    <3>2. \A q \in Procs : Alike(proc'[q], proc[q])
      BY <3>1, OutdatesIs DEF XInv, AttrTyped
    <3> QED BY <2>1, <3>2 DEF Alike
  <2>3. ASSUME NEW p \in Procs, Attrs!AppendRename(p) PROVE proc'[p].pc # proc[p].pc /\ Loses(proc[p], lost)
    <3>1. proc[p].pc = "rename" /\ proc' = Attrs!Outdates({p}, [proc EXCEPT ![p] = Attrs!Over("ok")], TRUE)
      BY <2>3 DEF Attrs!AppendRename
    <3>2. [proc EXCEPT ![p] = Attrs!Over("ok")][p] = Attrs!Over("ok")
      BY DEF XInv, AttrTyped
    <3>3. proc'[p] = Attrs!Over("ok")
      BY <3>1, <3>2 DEF Attrs!Outdates
    <3> QED BY <3>1, <3>3 DEF Attrs!Over, Attrs!NoProc, Loses
  <2> QED BY <2>1, <2>2, <2>3
<1> QED BY <1>5, <1>6

\* A tag that somebody was told is on the file leaves it only by a call that takes that tag away
\* or sets others, by APPEND, whose file has none (VFS.js 612), by one that had read the
\* attribute before it changed and writes all of it (updateFileTags(), updateFileHash() and the
\* repair in readXstat1 have no other protection), and when others put another file in the place.
THEOREM TagsStay == Attrs!Spec => [][Attrs!TagsStayStep]_(Attrs!vars)
<1>1. XInv /\ [Attrs!Next]_(Attrs!vars) => [Attrs!TagsStayStep]_(Attrs!vars)
  BY TagsStep
<1> QED BY <1>1, Invariance, PTL DEF Attrs!Spec

-----------------------------------------------------------------------------
(* The three together.                                                     *)

\* Files come only while there is room for them.
LEMMA RoomFor ==
  ASSUME AttrTyped, Len(file) <= MaxFiles, [Attrs!Next]_(Attrs!vars)
  PROVE  Len(file') <= MaxFiles
<1>0. MaxFiles \in Nat /\ file \in Seq(Inodes) /\ Len(file) \in Nat
  BY AttrsAssumption DEF AttrTyped
<1>1. CASE file' = file
  BY <1>0, <1>1
<1>2. ASSUME NEW g, NEW r, file' = [file EXCEPT ![g] = r] PROVE Len(file') = Len(file)
  BY <1>0, <1>2
<1>3. ASSUME NEW p \in Procs, Attrs!Repair(p) \/ Attrs!UpdateSet(p) PROVE Len(file') = Len(file)
  <2>1. PICK r : file' = [file EXCEPT ![path] = r]
    BY <1>3 DEF Attrs!Repair, Attrs!UpdateSet, Attrs!Set
  <2> QED BY <1>2, <2>1
<1>4. ASSUME NEW i, file' = Append(file, i), Attrs!Room PROVE Len(file') <= MaxFiles
  BY <1>0, <1>4 DEF Attrs!Room
<1>5. CASE Attrs!Replace \/ \E p \in Procs : Attrs!AppendRename(p)
  BY <1>4, <1>5 DEF Attrs!Replace, Attrs!AppendRename
<1>6. CASE Attrs!Write
  <2>1. file' = [file EXCEPT ![path].mtime = writes + 2, ![path].content = Append(@, writes + 2)]
    BY <1>6 DEF Attrs!Write
  <2>2. Len(file') = Len(file)
    BY <1>0, <2>1
  <2> QED BY <1>0, <2>2
<1>7. ASSUME NEW p \in Procs, Attrs!Proceed(p)
      PROVE  Attrs!Repair(p) \/ Attrs!UpdateSet(p) \/ Attrs!AppendRename(p) \/ file' = file
  BY <1>7 DEF Attrs!Proceed, Attrs!Lstat, Attrs!Get, Attrs!Decide, Attrs!Update, Attrs!UpdateGet, Attrs!Digest,
              Attrs!AppendDecide, Attrs!Concat, Attrs!Check
<1>8. ASSUME NEW p \in Procs, NEW j \in Jobs, Attrs!Begin(p, j) PROVE file' = file
  BY <1>8 DEF Attrs!Begin
<1>9. CASE UNCHANGED Attrs!vars
  BY <1>1, <1>9 DEF Attrs!vars
<1> QED BY <1>0, <1>1, <1>3, <1>5, <1>6, <1>7, <1>8, <1>9 DEF Attrs!Next

\* The types of Xstat.
LEMMA AttrsTypes ==
  ASSUME XInv, Len(file) <= MaxFiles
  PROVE  Attrs!TypeOK
<1>1. Len(file) <= MaxFiles /\ path \in Attrs!Inums
  BY DEF XInv, AttrTyped, Attrs!Inums
<1>2. ASSUME NEW f \in Attrs!Inums PROVE file[f].mtime \in 1 .. writes + 1 /\ file[f].attr.uuid \in 0 .. uuids
  BY DEF XInv, Remembered, TrueBy, FilesTrue, Named
<1>3. ASSUME NEW p \in Procs
      PROVE  /\ proc[p].pc \in {"idle", "lstat", "get", "set", "decide", "ulstat", "uget", "uset", "digest",
                                "concat", "check", "force", "rename", "done"}
             /\ proc[p].pc = "done" <=> proc[p].answer # "none"
  BY DEF XInv, AttrTyped, Processes, Doing
<1>4. \E Q \in SUBSET Procs : /\ \A p \in Procs : p \in Q <=> proc[p].pc = "set"
                              /\ Cardinality(Q) <= 1 /\ (Q # {} => lockset)
  <2>1. PICK Q \in SUBSET Procs : \A p \in Procs : p \in Q <=> proc[p].pc = "set"
    <3> WITNESS {p \in Procs : proc[p].pc = "set"} \in SUBSET Procs
    <3> QED OBVIOUS
  <2>2. Cardinality(Q) <= 1
    <3>1. CASE Q = {}
      BY <3>1, FS_EmptySet
    <3>2. CASE Q # {}
      <4>1. PICK p \in Q : TRUE
        BY <3>2
      <4>2. Q = {p}
        BY <2>1, <4>1 DEF XInv, Locked
      <4>3. Cardinality({p}) = 1
        BY FS_Singleton
      <4> QED BY <4>2, <4>3
    <3> QED BY <3>1, <3>2
  <2>3. Q # {} => lockset
    BY <2>1 DEF XInv, Locked
  <2> QED BY <2>1, <2>2, <2>3
<1>5. \A Q : Attrs!Cardinality(Q) = Cardinality(Q)
  BY DEF Attrs!Cardinality, Cardinality
<1> QED BY <1>1, <1>2, <1>3, <1>4, <1>5 DEF Attrs!TypeOK

PartsInv ==
  /\ part \in {"names", "attrs", "index"}
  /\ part = "names" => Inv
  /\ part = "attrs" => XInv /\ Len(file) <= MaxFiles
  /\ part = "index" => IndexInv /\ TruthInv

LEMMA PartsBegin == FilesInit => PartsInv
<1> SUFFICES ASSUME FilesInit PROVE PartsInv
  OBVIOUS
<1>1. CASE part = "names" /\ Init
  BY <1>1, InputsAssumption, Beginning DEF PartsInv
<1>2. CASE part = "attrs" /\ Attrs!Init
  <2>1. Len(file) <= MaxFiles
    BY <1>2, AttrsAssumption DEF Attrs!Init
  <2> QED BY <1>2, <2>1, XInit DEF PartsInv
<1>3. CASE part = "index" /\ Index!Init
  BY <1>3, IndexAssumption, IndexStarts, TrueStarts DEF PartsInv
<1> QED BY <1>1, <1>2, <1>3 DEF FilesInit

LEMMA PartsStep == PartsInv /\ [FilesNext]_filesVars => PartsInv'
<1> SUFFICES ASSUME PartsInv, [FilesNext]_filesVars PROVE PartsInv'
  OBVIOUS
<1>1. part' = part
  BY DEF FilesNext, filesVars
<1>2. CASE part = "names"
  <2>1. [Next]_vars
    BY <1>2 DEF FilesNext, filesVars
  <2>2. Inv'
    BY <1>2, <2>1, InputsAssumption, Keeping DEF PartsInv
  <2> QED BY <1>1, <1>2, <2>2 DEF PartsInv
<1>3. CASE part = "attrs"
  <2>1. [Attrs!Next]_(Attrs!vars)
    BY <1>3 DEF FilesNext, filesVars, attrVars, Attrs!vars
  <2>2. XInv' /\ Len(file') <= MaxFiles
    BY <1>3, <2>1, XNext, RoomFor DEF PartsInv, XInv
  <2> QED BY <1>1, <1>3, <2>2 DEF PartsInv
<1>4. CASE part = "index"
  <2>1. [Index!Next]_(Index!vars) /\ [Index!NoReturn]_(Index!vars)
    BY <1>4 DEF FilesNext, filesVars, indexVars, Index!vars
  <2>2. IndexInv' /\ TruthInv'
    BY <1>4, <2>1, IndexAssumption, Keeps, TrueKeeps DEF PartsInv
  <2> QED BY <1>1, <1>4, <2>2 DEF PartsInv
<1> QED BY <1>2, <1>3, <1>4 DEF PartsInv

LEMMA PartsHold == FilesSpec => []PartsInv
  BY PartsBegin, PartsStep, PTL DEF FilesSpec

\* The types of the calls on names and of the attributes, and the indices that agree with the
\* objects (underlying.js, xstat.js, forest.js).
THEOREM FilesAreIndexed == FilesSpec => []FilesInv
<1>1. PartsInv => FilesInv
  <2> SUFFICES ASSUME PartsInv PROVE FilesInv
    OBVIOUS
  <2>1. CASE part = "names"
    BY <2>1, TypesHold DEF PartsInv, FilesInv
  <2>2. CASE part = "attrs"
    BY <2>2, AttrsTypes DEF PartsInv, FilesInv
  <2>3. CASE part = "index"
    BY <2>3, Agrees DEF PartsInv, FilesInv
  <2> QED BY <2>1, <2>2, <2>3 DEF PartsInv
<1> QED BY <1>1, PartsHold, PTL

\* A recorded hash is that of its content, and the index knows a file by its own only
\* (xstat.js, file.js, xfingerprint.js).
THEOREM HashesAreTrue == FilesSpec => []HashTrue
<1>1. PartsInv => HashTrue
  <2> SUFFICES ASSUME PartsInv PROVE HashTrue
    OBVIOUS
  <2>1. CASE part = "attrs"
    BY <2>1, SoundNow DEF PartsInv, HashTrue
  <2>2. CASE part = "index"
    BY <2>2, IndexAssumption, Owned DEF PartsInv, HashTrue
  <2> QED BY <2>1, <2>2 DEF HashTrue
<1> QED BY <1>1, PartsHold, PTL

\* A file keeps its uuid, but for what a call writes that had read the attribute of the one before
\* it on the path, and its tags, but for REMOVETAGS, SETTAGS, APPEND, another file in its place
\* and a call that had read its attribute before it changed (xstat.js, VFS.js).
THEOREM MarksAreKept == FilesSpec => MarksStay
<1>1. PartsInv /\ [FilesNext]_filesVars => [part = "attrs" => Attrs!OneUuidStep /\ Attrs!TagsStayStep]_filesVars
  <2> SUFFICES ASSUME PartsInv, FilesNext, part = "attrs" PROVE Attrs!OneUuidStep /\ Attrs!TagsStayStep
    OBVIOUS
  <2>1. Attrs!Next /\ XInv
    BY DEF FilesNext, PartsInv
  <2> QED BY <2>1, UuidStep, TagsStep
<1> QED BY <1>1, PartsHold, PTL DEF FilesSpec, MarksStay

=============================================================================
