---------------------------- MODULE DriveProofs -----------------------------
(* Safety of NativeFs, for any calls, names, directories, lengths and         *)
(* failures, of Backup, for any calls, listings and failures, of Storage, for *)
(* any machines, targets and failures, and of Thumbnail, for any clients,     *)
(* keys and failures.                                                         *)
EXTENDS Integers, Sequences, FiniteSets, SequencesExt, FiniteSetTheorems, WellFoundedInduction, TLAPS

CONSTANTS Calls, Ops, Names, Sources, Begins, Units, MaxFaults, MaxCrashes,
          Machines, Targets, Clients, Keys, Kinds, Limit
VARIABLES drives, at, size, wrote, lost, raced, call, down, faults, alone, began,
          data, attrs, white, dir, queue, task, crashes, stale,
          blocks, mounts, swaps, fmt,
          client, pending, converting, cache

-----------------------------------------------------------------------------
(* Names on USB volumes.                                                   *)

Native == INSTANCE NativeFs

\* A set of numbers has a least one.
LEMMA Lowest ==
  ASSUME NEW K \in SUBSET Nat, K # {}
  PROVE  \E m \in K : \A l \in K : m <= l
<1> DEFINE R == {p \in Nat \X Nat : p[1] < p[2]}
<1>1. IsWellFoundedOn(R, Nat)
  BY NatLessThanWellFounded DEF OpToRel
<1>2. PICK m \in K : \A l \in K : ~(<<l, m>> \in R)
  BY <1>1, WFMin
<1>3. ASSUME NEW l \in K PROVE m <= l
  <2>1. ~(l < m)
    BY <1>2
  <2> QED BY <2>1
<1> QED BY <1>3

Movers == {"MVFILE", "MVDIR", "PATCH"}
Makers == {"NEWFILE", "CPFILE", "MKDIR"}
NativeCalls == [pc : Native!Steps \cup {"idle", "done"}, op : Ops \cup {[api |-> "none"]}, kind : {"none", "file", "dir"},
                name : Names, part : Native!Parts, cleared : BOOLEAN, left : SUBSET Names, found : SUBSET Names,
                answer : {"none", "placed", "skipped", "error"}]
Top == Cardinality(Names) - Cardinality(Calls)

\* What a call does is what it was asked for.
Asking(r) ==
  /\ r.pc = "idle" => r.op.api = "none" /\ r.answer = "none"
  /\ r.pc # "idle" => r.op \in Ops
  /\ r.pc \in Native!Steps => r.answer \in {"none", "error"}
  /\ r.pc \in Native!Steps \ (Native!FormSteps \cup {"target"}) => r.answer = "none"
  /\ r.pc = "stat" => r.op.api = "PATCH"
  /\ r.pc \in {"peek", "mv"} => r.op.api \in Movers
  /\ r.pc = "make" => r.op.api \in Makers
  /\ r.pc = "made" => r.op.api = "MKDIR"
  /\ r.pc \in {"look", "clear", "list"} => r.op.api \in Movers \cup Makers
  /\ r.pc = "stream" => r.op.api \in {"NEWFILE", "CPFILE"}
  /\ r.pc = "remove" => r.op.api = "DELETE"
  /\ r.pc \in {"readdir", "lstats"} => r.op.api = "GET"
  /\ r.pc \in Native!FormSteps => r.op.api = "POSTFORM"
  /\ r.pc = "target" => r.op.api \in {"GET", "POSTFORM"} /\ (r.op.api = "GET" => r.answer = "none")
  /\ r.pc \in Native!Steps /\ r.op.api \in {"NEWFILE", "CPFILE", "MVFILE"} => r.kind = "file"
  /\ r.pc \in Native!Steps /\ r.op.api \in {"MKDIR", "MVDIR"} => r.kind = "dir"
  /\ r.pc \in Native!Steps \ {"stat"} /\ r.op.api = "PATCH" => r.kind \in {"file", "dir"}
  /\ r.pc \in Native!Steps => {r.op.same, r.op.diff} \subseteq Native!Policies
\* A form is at one of its parts, and this is one of the step's kind.
Parting(r) ==
  IF r.op.api # "POSTFORM" THEN r.part = 0 ELSE
    /\ r.part <= Len(r.op.parts) /\ r.name <= Top
    /\ r.pc \in {"flstat", "fopen", "fdata"} => r.part >= 1 /\ r.op.parts[r.part].do = "file"
    /\ r.pc \in {"target", "prelude", "dlstat", "mkdirp", "rimraf"} => r.part = 0 \/ r.op.parts[r.part].do # "file"
\* What it has written: the file under way, and whole ones before.
Wrote(c, r, S) ==
  /\ r.pc = "stream" => S[<<c, 0>>] \in 0 .. Units - 1
  /\ r.pc = "fdata" => S[<<c, r.part>>] \in 0 .. Units - 1
  /\ r.op.api \in {"NEWFILE", "CPFILE"} /\ r.answer = "placed" => S[<<c, 0>>] = Units
  /\ r.op.api = "POSTFORM" =>
       \A i \in 1 .. Len(r.op.parts) :
         r.op.parts[i].do = "file" /\ (i < r.part \/ (i = r.part /\ (r.pc = "part" \/ r.answer = "placed")))
           => S[<<c, i>>] = Units
NativeTyped ==
  /\ call \in [Calls -> NativeCalls] /\ size \in [Calls \X Native!Parts -> Nat]
  /\ faults \in Nat /\ down \in BOOLEAN /\ drives \in BOOLEAN
  /\ at = [p \in Native!Paths |-> at[p]]
  /\ \A p \in Native!Paths : at[p] = Native!Free \/ at[p].kind \in {"file", "dir"}
\* Every call puts at most one thing under the name that follows the last one.
Placers == {c \in Calls : call[c].pc \in {"stream", "made", "done"}}
Counting ==
  /\ \A n \in Names : at[n] # Native!Free => n <= Top + Cardinality(Placers)
  /\ \A c \in Calls \ Placers : call[c].name <= Top + Cardinality(Placers) + 1
NativeInv ==
  /\ NativeTyped /\ Counting
  /\ \A c \in Calls : Asking(call[c]) /\ Parting(call[c]) /\ Wrote(c, call[c], size)

LEMMA NativeSets ==
  (\A S : Native!Cardinality(S) = Cardinality(S)) /\ (\A S : Native!IsFiniteSet(S) <=> IsFiniteSet(S))
<1>1. \A S : Native!Cardinality(S) = Cardinality(S)
  BY DEF Native!Cardinality, Cardinality
<1>2. \A S : Native!IsFiniteSet(S) <=> IsFiniteSet(S)
  BY DEF Native!IsFiniteSet, IsFiniteSet
<1> QED BY <1>1, <1>2

LEMMA NativeSizes ==
  ASSUME Native!Inputs
  PROVE  /\ Cardinality(Calls) \in Nat /\ Cardinality(Names) \in Nat /\ Top \in Nat /\ Top >= 1
         /\ Names = 1 .. Cardinality(Names) /\ Names \subseteq Native!Paths /\ Sources \subseteq Native!Paths
         /\ 1 \in Names
         /\ IsFiniteSet(Placers) /\ Cardinality(Placers) \in Nat
         /\ \A c \in Calls \ Placers :
              /\ Top + Cardinality(Placers) + 1 <= Cardinality(Names)
              /\ Cardinality(Placers \cup {c}) = Cardinality(Placers) + 1
<1>0. /\ IsFiniteSet(Calls) /\ IsFiniteSet(Names) /\ Names = 1 .. Cardinality(Names)
      /\ Cardinality(Calls) < Cardinality(Names)
  BY NativeSets DEF Native!Inputs
<1>1. Cardinality(Calls) \in Nat /\ Cardinality(Names) \in Nat
  BY <1>0, FS_CardinalityType
<1>2. Names \subseteq Native!Paths /\ Sources \subseteq Native!Paths
  BY DEF Native!Paths
<1>3. IsFiniteSet(Placers) /\ Cardinality(Placers) \in Nat
  <2>1. Placers \subseteq Calls
    BY DEF Placers
  <2> QED BY <1>0, <2>1, FS_Subset, FS_CardinalityType
<1>4. ASSUME NEW c \in Calls \ Placers
      PROVE  /\ Top + Cardinality(Placers) + 1 <= Cardinality(Names)
             /\ Cardinality(Placers \cup {c}) = Cardinality(Placers) + 1
  <2>1. Cardinality(Placers \cup {c}) = Cardinality(Placers) + 1
    BY <1>3, FS_AddElement
  <2>2. Placers \cup {c} \subseteq Calls
    BY DEF Placers
  <2>3. Cardinality(Placers \cup {c}) <= Cardinality(Calls)
    BY <1>0, <2>2, FS_Subset
  <2> QED BY <1>1, <1>3, <2>1, <2>3 DEF Top
<1>5. Top \in Nat /\ Top >= 1 /\ 1 \in Names
  BY <1>0, <1>1 DEF Top
<1> QED BY <1>0, <1>1, <1>2, <1>3, <1>4, <1>5

LEMMA Highest ==
  ASSUME NEW k \in Nat, NEW S \in SUBSET (1 .. k), S # {}
  PROVE  Native!Max(S) \in S /\ \A y \in S : y <= Native!Max(S)
<1> DEFINE T == {k - x : x \in S}
<1>1. T \subseteq Nat /\ T # {}
  <2>1. \A x \in S : x \in Nat /\ k - x \in Nat
    OBVIOUS
  <2> QED BY <2>1
<1>2. PICK m \in T : \A y \in T : m <= y
  BY <1>1, Lowest
<1>3. PICK x \in S : m = k - x
  BY <1>2
<1>4. ASSUME NEW y \in S PROVE x >= y
  <2>1. k - y \in T /\ k - y \in Nat /\ m \in Nat
    BY <1>1
  <2>2. m <= k - y
    BY <1>2, <2>1
  <2> QED BY <1>3, <2>1, <2>2
<1>5. \E z \in S : \A y \in S : z >= y
  BY <1>4
<1>6. Native!Max(S) \in S /\ \A y \in S : Native!Max(S) >= y
  BY <1>5 DEF Native!Max
<1> QED BY <1>6

\* autoname() finds a free name, and a name there is.
LEMMA NextName ==
  ASSUME Native!Inputs, NativeInv, NEW c \in Calls \ Placers, NEW n \in Names,
         n <= Top + Cardinality(Placers) + 1
  PROVE  /\ Native!AutoName(n, Native!Listing) \in Names
         /\ Native!AutoName(n, Native!Listing) <= Top + Cardinality(Placers) + 1
         /\ at[Native!AutoName(n, Native!Listing)] = Native!Free
<1>1. CASE n \notin Native!Listing
  BY <1>1 DEF Native!AutoName, Native!Listing
<1>2. CASE n \in Native!Listing
  <2>1. PICK k \in Nat : k = Cardinality(Names) /\ Names = 1 .. k
    BY NativeSizes
  <2>2. Native!Listing \in SUBSET (1 .. k) /\ Native!Listing # {}
    BY <1>2, <2>1 DEF Native!Listing
  <2>3. PICK m \in Native!Listing : m = Native!Max(Native!Listing) /\ \A y \in Native!Listing : y <= m
    BY <2>1, <2>2, Highest
  <2>4. PICK p \in Nat : p = Top + Cardinality(Placers) /\ p + 1 <= k
    <3>1. Top \in Nat /\ Cardinality(Placers) \in Nat /\ Top + Cardinality(Placers) + 1 <= Cardinality(Names)
      BY NativeSizes
    <3>2. Top + Cardinality(Placers) \in Nat
      BY <3>1
    <3> QED BY <2>1, <3>1, <3>2
  <2>5. m <= p /\ m \in 1 .. k
    BY <2>1, <2>3, <2>4 DEF NativeInv, Counting, Native!Listing
  <2>6. m + 1 \in Names /\ m + 1 <= p + 1 /\ m + 1 \notin Native!Listing
    <3>1. m \in Nat /\ m + 1 <= p + 1 /\ m + 1 \in 1 .. k
      BY <2>4, <2>5
    <3>2. ~(m + 1 <= m)
      BY <3>1
    <3> QED BY <2>1, <2>3, <3>1, <3>2
  <2>7. Native!AutoName(n, Native!Listing) = m + 1
    BY <1>2, <2>3 DEF Native!AutoName
  <2> QED BY <2>4, <2>6, <2>7 DEF Native!Listing
<1> QED BY <1>1, <1>2

-----------------------------------------------------------------------------
LEMMA NoCallRec ==
  ASSUME Native!Inputs
  PROVE  Native!NoCall \in NativeCalls /\ Native!NoCall.pc = "idle" /\ Native!NoCall.answer = "none"
         /\ Native!NoCall.op.api = "none" /\ Native!NoCall.part = 0 /\ Native!NoCall.name = 1 /\ Native!NoCall.kind = "none"
<1>1. 1 \in Names
  BY NativeSizes
<1>2. Native!NoCall.op = [api |-> "none"] /\ [api |-> "none"].api = "none"
  BY DEF Native!NoCall
<1>3. 0 \in Native!Parts
  BY DEF Native!Parts
<1> QED BY <1>1, <1>2, <1>3 DEF Native!NoCall, NativeCalls

LEMMA NativeRecs ==
  ASSUME Native!Inputs, call \in [Calls -> NativeCalls], NEW c \in Calls
  PROVE  /\ \A s \in Native!Steps :
              /\ Native!To(c, s) \in NativeCalls /\ Native!To(c, s).pc = s /\ Native!To(c, s).op = call[c].op
              /\ Native!To(c, s).name = call[c].name /\ Native!To(c, s).kind = call[c].kind
              /\ Native!To(c, s).part = call[c].part /\ Native!To(c, s).answer = call[c].answer
              /\ Native!To(c, s).cleared = call[c].cleared
         /\ \A a \in {"placed", "skipped", "error"} :
              /\ Native!Done(c, a) \in NativeCalls /\ Native!Done(c, a).pc = "done" /\ Native!Done(c, a).op = call[c].op
              /\ Native!Done(c, a).answer = a /\ Native!Done(c, a).part = call[c].part /\ Native!Done(c, a).name = 1
<1>1. PICK x \in NativeCalls : x = call[c]
  OBVIOUS
<1>2. ASSUME NEW s \in Native!Steps
      PROVE  /\ Native!To(c, s) \in NativeCalls /\ Native!To(c, s).pc = s /\ Native!To(c, s).op = x.op
             /\ Native!To(c, s).name = x.name /\ Native!To(c, s).kind = x.kind /\ Native!To(c, s).part = x.part
             /\ Native!To(c, s).answer = x.answer /\ Native!To(c, s).cleared = x.cleared
  BY <1>1 DEF Native!To, NativeCalls
<1>3. ASSUME NEW a \in {"placed", "skipped", "error"}
      PROVE  /\ Native!Done(c, a) \in NativeCalls /\ Native!Done(c, a).pc = "done" /\ Native!Done(c, a).op = x.op
             /\ Native!Done(c, a).answer = a /\ Native!Done(c, a).part = x.part /\ Native!Done(c, a).name = 1
  <2>1. PICK n \in NativeCalls : n = Native!NoCall /\ n.name = 1
    BY NoCallRec
  <2>2. Native!Done(c, a) = [n EXCEPT !.pc = "done", !.op = x.op, !.answer = a, !.part = x.part, !.found = x.found]
    BY <1>1, <2>1 DEF Native!Done
  <2> QED BY <2>1, <2>2 DEF NativeCalls
<1> QED BY <1>1, <1>2, <1>3

\* A step of a call changes one record, and what is put at one name.
Tidy(A) ==
  /\ A = [p \in Native!Paths |-> A[p]]
  /\ \A p \in Native!Paths : A[p] = Native!Free \/ A[p].kind \in {"file", "dir"}
Puts(c, new) ==
  \/ at' = at
  \/ \E p \in Native!Paths : at' = [at EXCEPT ![p] = Native!Free]
  \/ /\ (c \notin Placers /\ new.pc \in {"stream", "made", "done"}) \/ call[c].op.api = "POSTFORM"
     /\ \E k \in {"file", "dir"}, x \in Calls \X Native!Parts : at' = [at EXCEPT ![call[c].name] = [kind |-> k, obj |-> x]]
  \/ /\ c \notin Placers /\ new.pc \in {"stream", "made", "done"}
     /\ \E p \in Sources : at' = [at EXCEPT ![call[c].name] = at[p], ![p] = Native!Free]
Sized(c) ==
  size' \in [Calls \X Native!Parts -> Nat] /\ \A d \in Calls \ {c}, i \in Native!Parts : size'[<<d, i>>] = size[<<d, i>>]
Called(c, new) ==
  /\ call[c].pc \in Native!Steps \cup {"idle"} /\ (call[c].pc \in {"stream", "made"} => new.pc \in {"stream", "made", "done"})
  /\ new.pc \notin {"stream", "made", "done"} => new.name <= Top + Cardinality(Placers) + 1
Flags == faults' \in Nat /\ down' \in BOOLEAN /\ drives' \in BOOLEAN

LEMMA Tidied ==
  ASSUME Native!Inputs, NativeInv, NEW c \in Calls, NEW new \in NativeCalls, Puts(c, new)
  PROVE  Tidy(at') /\ \A n \in Names : at'[n] # Native!Free =>
           at[n] # Native!Free \/ n <= Top \/ (n = call[c].name /\ c \notin Placers /\ new.pc \in {"stream", "made", "done"})
<1>1. Tidy(at) /\ call[c].name \in Names /\ Names \subseteq Native!Paths /\ Sources \subseteq Native!Paths
  BY NativeSizes DEF Tidy, NativeInv, NativeTyped, NativeCalls
<1>2. CASE at' = at
  BY <1>1, <1>2
<1>3. CASE \E p \in Native!Paths : at' = [at EXCEPT ![p] = Native!Free]
  BY <1>1, <1>3 DEF Tidy
<1>4. CASE /\ (c \notin Placers /\ new.pc \in {"stream", "made", "done"}) \/ call[c].op.api = "POSTFORM"
           /\ \E k \in {"file", "dir"}, x \in Calls \X Native!Parts : at' = [at EXCEPT ![call[c].name] = [kind |-> k, obj |-> x]]
  <2>1. call[c].op.api = "POSTFORM" => call[c].name <= Top
    BY DEF NativeInv, Parting
  <2>2. PICK k \in {"file", "dir"}, x \in Calls \X Native!Parts : at' = [at EXCEPT ![call[c].name] = [kind |-> k, obj |-> x]]
    BY <1>4
  <2>3. PICK e : e = [kind |-> k, obj |-> x]
    OBVIOUS
  <2>4. at' = [at EXCEPT ![call[c].name] = e] /\ e.kind \in {"file", "dir"}
    BY <2>2, <2>3
  <2> QED BY <1>1, <1>4, <2>1, <2>4 DEF Tidy
<1>5. CASE /\ c \notin Placers /\ new.pc \in {"stream", "made", "done"}
           /\ \E p \in Sources : at' = [at EXCEPT ![call[c].name] = at[p], ![p] = Native!Free]
  <2>1. PICK p \in Native!Paths : at' = [at EXCEPT ![call[c].name] = at[p], ![p] = Native!Free]
    BY <1>1, <1>5
  <2>2. \A q \in Native!Paths : at'[q] = Native!Free \/ at'[q] = at[q] \/ (q = call[c].name /\ at'[q] = at[p])
    BY <1>1, <2>1 DEF Tidy
  <2>3. at' = [q \in Native!Paths |-> at'[q]]
    BY <1>1, <2>1 DEF Tidy
  <2> QED BY <1>1, <1>5, <2>1, <2>2, <2>3 DEF Tidy
<1> QED BY <1>2, <1>3, <1>4, <1>5 DEF Puts

LEMMA NativeStep ==
  ASSUME Native!Inputs, NativeInv, NEW c \in Calls, NEW new \in NativeCalls, call' = [call EXCEPT ![c] = new],
         Asking(new), Parting(new), Wrote(c, new, size'), Puts(c, new), Sized(c), Called(c, new), Flags
  PROVE  NativeInv'
<1>0. call' \in [Calls -> NativeCalls] /\ call'[c] = new /\ \A d \in Calls \ {c} : call'[d] = call[d]
  BY DEF NativeInv, NativeTyped
<1>1. NativeTyped'
  BY <1>0, Tidied DEF NativeTyped, Tidy, Flags, Sized
<1>2. /\ Top \in Nat /\ Cardinality(Placers) \in Nat
      /\ c \notin Placers => Cardinality(Placers \cup {c}) = Cardinality(Placers) + 1
  BY NativeSizes
<1>3. Placers' = IF new.pc \in {"stream", "made", "done"} THEN Placers \cup {c} ELSE Placers
  BY <1>0 DEF Placers, Called, Native!Steps, Native!FormSteps
<1>4. PICK k \in Nat : k = Cardinality(Placers') /\ k >= Cardinality(Placers)
                       /\ (c \notin Placers /\ new.pc \in {"stream", "made", "done"} => k = Cardinality(Placers) + 1)
  <2>1. CASE Placers' = Placers
    <3>1. c \notin Placers => new.pc \notin {"stream", "made", "done"}
      BY <1>3, <2>1
    <3> QED BY <1>2, <2>1, <3>1
  <2>2. CASE Placers' = Placers \cup {c} /\ c \notin Placers
    BY <1>2, <2>2
  <2>3. Placers' = Placers \/ (Placers' = Placers \cup {c} /\ c \notin Placers)
    BY <1>3
  <2> QED BY <2>1, <2>2, <2>3
<1>5. \A n \in Names : at'[n] # Native!Free => n <= Top + k
  <2> SUFFICES ASSUME NEW n \in Names, at'[n] # Native!Free PROVE n <= Top + k
    OBVIOUS
  <2>1. n \in Nat
    BY NativeSizes
  <2>2. at[n] # Native!Free \/ n <= Top \/ (n = call[c].name /\ c \notin Placers /\ new.pc \in {"stream", "made", "done"})
    BY Tidied
  <2>3. at[n] # Native!Free => n <= Top + Cardinality(Placers)
    BY DEF NativeInv, Counting
  <2>4. c \notin Placers => call[c].name <= Top + Cardinality(Placers) + 1
    BY DEF NativeInv, Counting
  <2> QED BY <1>2, <1>4, <2>1, <2>2, <2>3, <2>4
<1>6. \A d \in Calls \ Placers' : call'[d].name <= Top + k + 1
  <2> SUFFICES ASSUME NEW d \in Calls \ Placers' PROVE call'[d].name <= Top + k + 1
    OBVIOUS
  <2>1. call'[d].name \in Nat
    <3>1. call'[d].name \in Names
      BY <1>0 DEF NativeCalls
    <3> QED BY <3>1, NativeSizes
  <2>2. CASE d = c
    <3>1. new.pc \notin {"stream", "made", "done"}
      BY <1>3, <2>2
    <3>2. new.name <= Top + Cardinality(Placers) + 1
      BY <3>1 DEF Called
    <3> QED BY <1>0, <1>2, <1>4, <2>1, <2>2, <3>2
  <2>3. CASE d # c
    <3>1. d \notin Placers
      BY <1>3
    <3>2. call[d].name <= Top + Cardinality(Placers) + 1
      BY <3>1 DEF NativeInv, Counting
    <3> QED BY <1>0, <1>2, <1>4, <2>1, <2>3, <3>2
  <2> QED BY <2>2, <2>3
<1>7. Counting'
  BY <1>4, <1>5, <1>6 DEF Counting, Top
<1>8. ASSUME NEW d \in Calls PROVE (Asking(call[d]) /\ Parting(call[d]) /\ Wrote(d, call[d], size))'
  <2>1. CASE d = c
    BY <1>0, <2>1
  <2>2. CASE d # c
    <3>1. call'[d] = call[d] /\ call[d] \in NativeCalls
      BY <1>0, <2>2 DEF NativeInv, NativeTyped
    <3>2. Asking(call[d]) /\ Parting(call[d]) /\ Wrote(d, call[d], size)
      BY DEF NativeInv
    <3>3. \A i \in Native!Parts : size'[<<d, i>>] = size[<<d, i>>]
      BY <2>2 DEF Sized
    <3>4. Wrote(d, call[d], size')
      <4>1. 0 \in Native!Parts /\ call[d].part \in Native!Parts
        BY <3>1 DEF NativeCalls, Native!Parts
      <4>2. call[d].op.api = "POSTFORM" => \A i \in 1 .. Len(call[d].op.parts) : i \in Native!Parts
        <5>1. call[d].op.api = "POSTFORM" => call[d].op \in Ops
          BY <3>2 DEF Asking
        <5>2. call[d].op \in Ops => call[d].op.parts \in Seq(Native!PartRecs) /\ Len(call[d].op.parts) <= 3
          BY DEF Native!Inputs
        <5>3. call[d].op \in Ops => Len(call[d].op.parts) \in Nat
          BY <5>2
        <5> QED BY <5>1, <5>2, <5>3 DEF Native!Parts
      <4> QED BY <3>2, <3>3, <4>1, <4>2 DEF Wrote
    <3> QED BY <3>1, <3>2, <3>4
  <2> QED BY <2>1, <2>2
<1> QED BY <1>1, <1>7, <1>8 DEF NativeInv

-----------------------------------------------------------------------------
\* Calls end, or go on.
LEMMA NativeEnds ==
  ASSUME Native!Inputs, NativeInv, NEW c \in Calls, NEW a \in {"placed", "skipped", "error"},
         call[c].pc \in Native!Steps, Native!Ends(c, a), size' = size,
         a = "placed" => call[c].op.api \notin {"NEWFILE", "CPFILE", "POSTFORM"},
         Puts(c, Native!Done(c, a)), Flags
  PROVE  NativeInv'
<1>1. PICK new \in NativeCalls : new = Native!Done(c, a) /\ new.pc = "done" /\ new.op = call[c].op
                                 /\ new.answer = a /\ new.part = call[c].part /\ new.name = 1
  BY NativeRecs DEF NativeInv, NativeTyped
<1>2. call' = [call EXCEPT ![c] = new]
  BY <1>1 DEF Native!Ends, Native!Goes
<1>3. Asking(call[c]) /\ Parting(call[c]) /\ Wrote(c, call[c], size) /\ call[c].pc # "idle" /\ call[c].pc # "done"
  BY DEF NativeInv, Native!Steps, Native!FormSteps
<1>4. Asking(new) /\ Parting(new)
  <2>1. 1 <= Top
    BY NativeSizes
  <2> QED BY <1>1, <1>3, <2>1 DEF Asking, Parting, Native!Steps, Native!FormSteps
<1>5. Wrote(c, new, size')
  BY <1>1, <1>3 DEF Wrote
<1>6. Sized(c) /\ Called(c, new)
  BY <1>1 DEF Sized, Called, NativeInv, NativeTyped
<1> QED BY <1>1, <1>2, <1>4, <1>5, <1>6, NativeStep

LEMMA NativeGoes ==
  ASSUME Native!Inputs, NativeInv, NEW c \in Calls, NEW new \in NativeCalls, call[c].pc \in Native!Steps \ {"stream", "made"},
         new.pc \in Native!Steps, Native!Goes(c, new), new.op = call[c].op, new.answer = call[c].answer,
         Asking(new), Parting(new), Wrote(c, new, size'), Puts(c, new), Sized(c), Flags,
         new.name <= Top + Cardinality(Placers) + 1
  PROVE  NativeInv'
<1>1. call' = [call EXCEPT ![c] = new]
  BY DEF Native!Goes
<1>2. Called(c, new)
  BY DEF Called
<1> QED BY <1>1, <1>2, NativeStep

LEMMA NamedSoFar ==
  ASSUME Native!Inputs, NativeInv, NEW c \in Calls, call[c].pc \in Native!Steps
  PROVE  call[c].pc \notin {"stream", "made"} => call[c].name <= Top + Cardinality(Placers) + 1
BY DEF NativeInv, Counting, Placers, Native!Steps, Native!FormSteps

\* A step that changes neither the names nor what is written.
LEMMA NativeTo ==
  ASSUME Native!Inputs, NativeInv, NEW c \in Calls, NEW s \in Native!Steps, call[c].pc \in Native!Steps \ {"stream", "made"},
         Native!Goes(c, Native!To(c, s)), s \notin {"stream", "made", "fdata"}, 
         s = "part" => call[c].pc \in {"target", "prelude", "dlstat", "mkdirp", "rimraf"},
         size' = size, Puts(c, Native!To(c, s)), Flags,
         Asking([call[c] EXCEPT !.pc = s]), Parting([call[c] EXCEPT !.pc = s])
  PROVE  NativeInv'
<1>1. PICK new \in NativeCalls :
        /\ new = Native!To(c, s) /\ new.pc = s /\ new.op = call[c].op /\ new.name = call[c].name
        /\ new.kind = call[c].kind /\ new.part = call[c].part /\ new.answer = call[c].answer
  BY NativeRecs DEF NativeInv, NativeTyped
<1>2. Asking(new) /\ Parting(new)
  BY <1>1 DEF Native!To
<1>3. Asking(call[c]) /\ Parting(call[c]) /\ Wrote(c, call[c], size)
  BY DEF NativeInv
<1>4. Wrote(c, new, size')
  <2>1. new.op.api = "POSTFORM" /\ s = "part" => new.part = 0 \/ new.op.parts[new.part].do # "file"
    BY <1>1, <1>3 DEF Parting, Asking, Native!Steps, Native!FormSteps
  <2>2. new.answer # "placed"
    BY <1>1, <1>2 DEF Asking
  <2> QED BY <1>1, <1>3, <2>1, <2>2 DEF Wrote
<1>5. new.name <= Top + Cardinality(Placers) + 1
  BY <1>1, NamedSoFar
<1>6. Sized(c)
  BY DEF Sized, NativeInv, NativeTyped
<1> QED BY <1>1, <1>2, <1>4, <1>5, <1>6, NativeGoes

-----------------------------------------------------------------------------
LEMMA Started ==
  ASSUME Native!Inputs, NativeInv, NEW c \in Calls, NEW new \in NativeCalls, call[c].pc = "idle",
         call' = [call EXCEPT ![c] = new], new.answer \in {"none", "error"}, new.name = 1, new.part = 0,
         Asking(new), new.pc \notin {"stream", "made", "fdata"}, UNCHANGED <<drives, down, faults, at, size>>,
         Parting(new)
  PROVE  NativeInv'
<1>1. Wrote(c, new, size')
  <2>1. new.op.api = "POSTFORM" => \A i \in 1 .. Len(new.op.parts) : ~(i < 0 \/ i = 0)
    <3>1. new.op.api = "POSTFORM" => new.op \in Ops \/ new.op.api = "none"
      BY DEF Asking
    <3>2. new.op \in Ops => Len(new.op.parts) \in Nat
      BY DEF Native!Inputs
    <3> QED BY <3>1, <3>2
  <2> QED BY <2>1 DEF Wrote
<1>2. new.name <= Top + Cardinality(Placers) + 1
  BY NativeSizes
<1>3. Called(c, new) /\ Sized(c) /\ Flags /\ Puts(c, new)
  BY <1>2 DEF Called, Sized, Flags, Puts, NativeInv, NativeTyped
<1> QED BY <1>1, <1>3, NativeStep

LEMMA NativeAsks ==
  ASSUME Native!Inputs, NativeInv, NEW c \in Calls, NEW o \in Ops, Native!Ask(c, o)
  PROVE  NativeInv'
<1>0. PICK n \in NativeCalls : /\ n = Native!NoCall /\ n.pc = "idle" /\ n.answer = "none" /\ n.op.api = "none"
                               /\ n.part = 0 /\ n.name = 1 /\ n.kind = "none"
  BY NoCallRec
<1>1. ASSUME NEW pc \in Native!Steps \ {"stream", "made", "fdata"}, NEW kind \in {"none", "file", "dir"}, Native!Starts(c, o, pc, kind),
             \A r \in NativeCalls : r.pc = pc /\ r.op = o /\ r.kind = kind /\ r.answer = "none" => Asking(r),
             pc \notin {"flstat", "fopen", "fdata"}
      PROVE  NativeInv'
  <2>0. call[c].pc = "idle" /\ UNCHANGED <<drives, down, faults, at, size>>
    BY <1>1 DEF Native!Starts, Native!Rest, Native!Disk, Native!Files
  <2>a. Len(o.parts) >= 0 /\ Top >= 1
    <3>1. Len(o.parts) \in Nat
      BY DEF Native!Inputs
    <3> QED BY <3>1, NativeSizes
  <2>1. CASE drives
    <3>1. PICK new : new = [n EXCEPT !.pc = pc, !.op = o, !.kind = kind]
      OBVIOUS
    <3>2. call' = [call EXCEPT ![c] = new]
      BY <1>0, <1>1, <2>1, <3>1 DEF Native!Starts
    <3>3. new \in NativeCalls /\ new.pc = pc /\ new.op = o /\ new.kind = kind /\ new.answer = "none" /\ new.name = 1 /\ new.part = 0
      BY <1>0, <3>1 DEF NativeCalls
    <3>4. Asking(new)
      BY <1>1, <3>3
    <3>5. Parting(new)
      BY <1>1, <2>a, <3>3 DEF Parting
    <3> QED BY <2>0, <3>2, <3>3, <3>4, <3>5, Started
  <2>2. CASE ~drives
    <3>1. PICK new : new = [n EXCEPT !.pc = "done", !.op = o, !.answer = "error"]
      OBVIOUS
    <3>2. call' = [call EXCEPT ![c] = new]
      BY <1>0, <1>1, <2>2, <3>1 DEF Native!Starts
    <3>3. new \in NativeCalls /\ new.pc = "done" /\ new.op = o /\ new.answer = "error" /\ new.name = 1 /\ new.part = 0
      BY <1>0, <3>1 DEF NativeCalls
    <3>4. Asking(new)
      BY <3>3 DEF Asking, Native!Steps, Native!FormSteps
    <3>5. Parting(new)
      BY <2>a, <3>3 DEF Parting
    <3> QED BY <2>0, <3>2, <3>3, <3>4, <3>5, Started
  <2> QED BY <2>1, <2>2
<1>2. o.api # "PATCH" => {o.same, o.diff} \subseteq Native!Policies
  BY DEF Native!Inputs
<1>3. CASE Native!MKDIRS(c, o)
  BY <1>1, <1>2, <1>3 DEF Native!MKDIRS, Asking, Native!Steps, Native!FormSteps, Makers, Movers
<1>4. CASE Native!MVDIRS(c, o)
  BY <1>1, <1>2, <1>4 DEF Native!MVDIRS, Asking, Native!Steps, Native!FormSteps, Makers, Movers
<1>5. CASE Native!NEWFILE(c, o)
  BY <1>1, <1>2, <1>5 DEF Native!NEWFILE, Asking, Native!Steps, Native!FormSteps, Makers, Movers
<1>6. CASE Native!CPFILE(c, o)
  BY <1>1, <1>2, <1>6 DEF Native!CPFILE, Asking, Native!Steps, Native!FormSteps, Makers, Movers
<1>7. CASE Native!MVFILE(c, o)
  BY <1>1, <1>2, <1>7 DEF Native!MVFILE, Asking, Native!Steps, Native!FormSteps, Makers, Movers
<1>8. CASE Native!DELETE(c, o)
  BY <1>1, <1>2, <1>8 DEF Native!DELETE, Asking, Native!Steps, Native!FormSteps, Makers, Movers
<1>9. CASE Native!GET(c, o)
  BY <1>1, <1>2, <1>9 DEF Native!GET, Asking, Native!Steps, Native!FormSteps, Makers, Movers
<1>10. CASE Native!POSTFORM(c, o)
  <2>1. PICK pc \in {"target", "part"} : Native!Starts(c, o, pc, "none") /\ o.api = "POSTFORM"
    BY <1>10 DEF Native!POSTFORM
  <2> QED BY <1>1, <1>2, <2>1 DEF Asking, Native!Steps, Native!FormSteps, Makers, Movers
<1>11. CASE Native!PATCH(c, o)
  <2>1. CASE {o.same, o.diff} \subseteq {"none", "skip", "replace", "rename"}
    <3>1. o.api = "PATCH" /\ Native!Starts(c, o, "stat", "none")
      BY <1>11, <2>1 DEF Native!PATCH
    <3> QED BY <1>1, <2>1, <3>1 DEF Asking, Native!Steps, Native!FormSteps, Makers, Movers, Native!Policies
  <2>2. CASE ~({o.same, o.diff} \subseteq {"none", "skip", "replace", "rename"})
    <3>1. PICK new : new = [n EXCEPT !.pc = "done", !.op = o, !.answer = "error"]
      OBVIOUS
    <3>2. call' = [call EXCEPT ![c] = new] /\ call[c].pc = "idle" /\ UNCHANGED <<drives, down, faults, at, size>>
      BY <1>0, <1>11, <2>2, <3>1 DEF Native!PATCH, Native!Rest, Native!Disk, Native!Files
    <3>3. new \in NativeCalls /\ new.pc = "done" /\ new.op = o /\ new.answer = "error" /\ new.name = 1 /\ new.part = 0
      BY <1>0, <3>1 DEF NativeCalls
    <3>4. Asking(new)
      BY <3>3 DEF Asking, Native!Steps, Native!FormSteps
    <3>5. Parting(new)
      BY <1>11, <3>3 DEF Parting, Native!PATCH
    <3> QED BY <3>2, <3>3, <3>4, <3>5, Started
  <2> QED BY <2>1, <2>2
<1> QED BY <1>3, <1>4, <1>5, <1>6, <1>7, <1>8, <1>9, <1>10, <1>11 DEF Native!Ask

\* What names files and does what a policy says.
LEMMA NativeNames ==
  ASSUME Native!Inputs, NativeInv, NEW c \in Calls,
         Native!Stat(c) \/ Native!Create(c) \/ Native!Peek(c) \/ Native!Look(c) \/ Native!Clear(c) \/ Native!List(c)
  PROVE  NativeInv'
<1>0. Flags
  BY DEF Flags, NativeInv, NativeTyped, Native!Rest, Native!Stat, Native!Create, Native!Peek, Native!Look, Native!Clear, Native!List
<1>p. PICK x \in NativeCalls : x = call[c] /\ Asking(x) /\ Parting(x) /\ Wrote(c, x, size)
  BY DEF NativeInv, NativeTyped
<1>q. x.name \in Native!Paths /\ c \notin Placers <=> x.pc \notin {"stream", "made", "done"}
  BY <1>p, NativeSizes DEF Placers, NativeCalls
<1>1. CASE Native!Stat(c)
  <2>0. x.pc = "stat" /\ UNCHANGED <<at, size>> /\ x.op.api = "PATCH" /\ x.op.from \in Sources
    BY <1>1, <1>p DEF Native!Stat, Native!Disk, Native!Files, Asking, Native!Inputs
  <2>1. CASE Native!Ends(c, "error")
    BY <1>0, <1>p, <2>0, <2>1, NativeEnds DEF Puts, Native!Steps
  <2>2. CASE at[x.op.from] # Native!Free
    <3>1. PICK k \in {"file", "dir"} : k = at[x.op.from].kind
      BY <2>0, <2>2, NativeSizes DEF NativeInv, NativeTyped
    <3>2. PICK new : new = [x EXCEPT !.pc = "peek", !.kind = k]
      OBVIOUS
    <3>3. new \in NativeCalls /\ new.pc = "peek" /\ new.kind = k /\ new.op = x.op /\ new.answer = x.answer
          /\ new.part = x.part /\ new.name = x.name
      BY <1>p, <3>2 DEF NativeCalls, Native!Steps
    <3>4. Native!Goes(c, new)
      BY <1>1, <1>p, <2>2, <3>1, <3>2 DEF Native!Stat, Native!To, NativeCalls
    <3>5. Asking(new) /\ Parting(new) /\ Wrote(c, new, size')
      BY <1>p, <2>0, <3>3 DEF Asking, Parting, Wrote, Movers, Native!Steps, Native!FormSteps
    <3>6. new.name <= Top + Cardinality(Placers) + 1
      BY <1>p, <2>0, <3>3, NamedSoFar DEF Native!Steps
    <3>7. Sized(c) /\ Puts(c, new)
      BY <2>0 DEF Sized, Puts, NativeInv, NativeTyped
    <3> QED BY <1>0, <1>p, <2>0, <3>3, <3>4, <3>5, <3>6, <3>7, NativeGoes DEF Native!Steps
  <2> QED BY <1>1, <1>p, <2>1, <2>2 DEF Native!Stat
<1>2. CASE Native!Create(c)
  <2>0. x.pc = "make" /\ x.op.api \in Makers /\ x.kind \in {"file", "dir"} /\ (x.kind = "dir" => x.op.api = "MKDIR")
        /\ (x.kind = "file" => x.op.api \in {"NEWFILE", "CPFILE"}) /\ x.answer = "none"
    BY <1>2, <1>p DEF Native!Create, Asking, Makers, Native!Steps, Native!FormSteps
  <2>1. CASE at[x.name] # Native!Free
    <3>1. Native!Goes(c, Native!To(c, "look")) /\ UNCHANGED <<at, size>>
      BY <1>2, <1>p, <2>1 DEF Native!Create, Native!Disk, Native!Files
    <3>2. PICK r : r = [x EXCEPT !.pc = "look"]
      OBVIOUS
    <3>3. Asking(r) /\ Parting(r)
      BY <1>p, <2>0, <3>2 DEF NativeCalls, Asking, Parting, Native!Steps, Native!FormSteps, Makers
    <3>4. Puts(c, Native!To(c, "look")) /\ size' = size
      BY <3>1 DEF Puts
    <3> QED BY <1>0, <1>p, <2>0, <3>1, <3>2, <3>3, <3>4, NativeTo DEF Native!Steps
  <2>a. Native!Here(c) = <<c, 0>>
    BY <1>p, <2>0 DEF Parting, Makers, Native!Here
  <2>2. CASE at[x.name] = Native!Free /\ x.kind = "dir"
    <3>1. Native!Goes(c, Native!To(c, "made")) /\ size' = size /\ at' = [at EXCEPT ![x.name] = [kind |-> "dir", obj |-> <<c, 0>>]]
      BY <1>2, <1>p, <2>2, <2>a DEF Native!Create, Native!Make
    <3>2. PICK new \in NativeCalls : /\ new = Native!To(c, "made") /\ new.pc = "made" /\ new.op = x.op /\ new.answer = x.answer
                                     /\ new.part = x.part /\ new.name = x.name /\ new.kind = x.kind
      BY <1>p, NativeRecs DEF NativeInv, NativeTyped, Native!Steps
    <3>3. Puts(c, new)
      <4>1. <<c, 0>> \in Calls \X Native!Parts
        BY DEF Native!Parts
      <4> QED BY <1>p, <1>q, <2>0, <3>1, <3>2, <4>1 DEF Puts
    <3>4. Sized(c)
      BY <3>1 DEF Sized, NativeInv, NativeTyped
    <3>5. Asking(new) /\ Parting(new) /\ Wrote(c, new, size')
      BY <1>p, <2>0, <2>2, <3>1, <3>2 DEF Asking, Parting, Wrote, Native!Steps, Native!FormSteps
    <3>7. new.name <= Top + Cardinality(Placers) + 1
      BY <1>p, <2>0, <3>2, NamedSoFar DEF Native!Steps
    <3> QED BY <1>0, <1>p, <2>0, <3>1, <3>2, <3>3, <3>4, <3>5, <3>7, NativeGoes DEF Native!Steps
  <2>3. CASE at[x.name] = Native!Free /\ x.kind = "file"
    <3>1. /\ Native!Goes(c, Native!To(c, "stream")) /\ size' = [size EXCEPT ![<<c, 0>>] = 0]
          /\ at' = [at EXCEPT ![x.name] = [kind |-> "file", obj |-> <<c, 0>>]]
      BY <1>2, <1>p, <2>3, <2>a DEF Native!Create, Native!Make, Native!Opens
    <3>2. PICK new \in NativeCalls : /\ new = Native!To(c, "stream") /\ new.pc = "stream" /\ new.op = x.op /\ new.answer = x.answer
                                     /\ new.part = x.part /\ new.name = x.name /\ new.kind = x.kind
      BY <1>p, NativeRecs DEF NativeInv, NativeTyped, Native!Steps
    <3>a. <<c, 0>> \in Calls \X Native!Parts
      BY DEF Native!Parts
    <3>3. Puts(c, new)
      BY <1>p, <1>q, <2>0, <3>1, <3>2, <3>a DEF Puts
    <3>4. Sized(c) /\ size'[<<c, 0>>] = 0
      BY <3>1, <3>a DEF Sized, NativeInv, NativeTyped
    <3>5. Asking(new) /\ Parting(new)
      BY <1>p, <2>0, <2>3, <3>2 DEF Asking, Parting, Native!Steps, Native!FormSteps
    <3>6. Wrote(c, new, size')
      <4>1. 0 \in 0 .. Units - 1
        BY DEF Native!Inputs
      <4> QED BY <2>0, <2>3, <3>2, <3>4, <4>1 DEF Wrote
    <3>7. new.name <= Top + Cardinality(Placers) + 1
      BY <1>p, <2>0, <3>2, NamedSoFar DEF Native!Steps
    <3> QED BY <1>0, <1>p, <2>0, <3>1, <3>2, <3>3, <3>4, <3>5, <3>6, <3>7, NativeGoes DEF Native!Steps
  <2> QED BY <2>0, <2>1, <2>2, <2>3
<1>3. CASE Native!Peek(c)
  <2>0. x.pc = "peek" /\ x.op.api \in Movers /\ x.answer = "none" /\ UNCHANGED <<at, size>>
    BY <1>3, <1>p DEF Native!Peek, Native!Disk, Native!Files, Asking, Native!Steps, Native!FormSteps
  <2>1. PICK s \in {"mv", "look"} : Native!Goes(c, Native!To(c, s))
    BY <1>3 DEF Native!Peek
  <2>2. PICK r : r = [x EXCEPT !.pc = s]
    OBVIOUS
  <2>3. Asking(r) /\ Parting(r)
    BY <1>p, <2>0, <2>2 DEF NativeCalls, Asking, Parting, Native!Steps, Native!FormSteps, Movers
  <2>4. Puts(c, Native!To(c, s)) /\ size' = size
    BY <2>0 DEF Puts
  <2> QED BY <1>0, <1>p, <2>0, <2>1, <2>2, <2>3, <2>4, NativeTo DEF Native!Steps
<1>4. CASE Native!Look(c)
  <2>0. x.pc = "look" /\ x.op.api \in Movers \cup Makers /\ x.answer = "none" /\ UNCHANGED <<at, size>>
    BY <1>4, <1>p DEF Native!Look, Native!Disk, Native!Files, Asking, Native!Steps, Native!FormSteps
  <2>a. PICK e : e = at[x.name]
    OBVIOUS
  <2>b. PICK policy \in Native!Policies : policy = Native!Policy(x.op, x.kind, e)
    BY <1>p, <2>0 DEF Native!Policy, Asking, Native!Steps
  <2>c. \/ Native!Ends(c, "error") \/ Native!Ends(c, "skipped")
        \/ Native!Goes(c, Native!To(c, "clear")) \/ Native!Goes(c, Native!To(c, "list"))
    <3>1. CASE e = Native!Free \/ policy = "none"
      BY <1>4, <1>p, <2>a, <2>b, <3>1 DEF Native!Look
    <3>2. CASE e # Native!Free /\ policy = "skip"
      BY <1>4, <1>p, <2>a, <2>b, <3>2 DEF Native!Look
    <3>3. CASE e # Native!Free /\ policy = "replace"
      BY <1>4, <1>p, <2>a, <2>b, <3>3 DEF Native!Look
    <3>4. CASE e # Native!Free /\ policy = "rename"
      BY <1>4, <1>p, <2>a, <2>b, <3>4 DEF Native!Look
    <3> QED BY <2>b, <3>1, <3>2, <3>3, <3>4 DEF Native!Policies
  <2>1. ASSUME NEW a \in {"error", "skipped"}, Native!Ends(c, a) PROVE NativeInv'
    BY <1>0, <1>p, <2>0, <2>1, NativeEnds DEF Puts, Native!Steps
  <2>2. ASSUME NEW s \in {"clear", "list"}, Native!Goes(c, Native!To(c, s)) PROVE NativeInv'
    <3>2. PICK r : r = [x EXCEPT !.pc = s]
      OBVIOUS
    <3>3. Asking(r) /\ Parting(r)
      BY <1>p, <2>0, <3>2 DEF NativeCalls, Asking, Parting, Native!Steps, Native!FormSteps, Movers, Makers
    <3>4. Puts(c, Native!To(c, s)) /\ size' = size
      BY <2>0 DEF Puts
    <3> QED BY <1>0, <1>p, <2>0, <2>2, <3>2, <3>3, <3>4, NativeTo DEF Native!Steps
  <2> QED BY <2>c, <2>1, <2>2
<1>5. CASE Native!Clear(c)
  <2>0. x.pc = "clear" /\ x.op.api \in Movers \cup Makers /\ x.answer = "none" /\ UNCHANGED size
        /\ at' = [at EXCEPT ![x.name] = Native!Free]
    BY <1>5, <1>p DEF Native!Clear, Native!Files, Asking, Native!Steps, Native!FormSteps
  <2>a. PICK s \in {"mv", "make"} : s = Native!After(c) /\ (s = "mv" <=> x.op.api \in Movers)
    BY <1>p DEF Native!After, Native!Moves, Movers
  <2>1. PICK new : new = [x EXCEPT !.pc = s, !.cleared = TRUE]
    OBVIOUS
  <2>2. new \in NativeCalls /\ new.pc = s /\ new.kind = x.kind /\ new.op = x.op /\ new.answer = x.answer
        /\ new.part = x.part /\ new.name = x.name
    BY <1>p, <2>1 DEF NativeCalls, Native!Steps
  <2>3. Native!Goes(c, new)
    BY <1>5, <1>p, <2>a, <2>1 DEF Native!Clear, Native!To, NativeCalls
  <2>4. Asking(new) /\ Parting(new) /\ Wrote(c, new, size')
    BY <1>p, <2>0, <2>a, <2>2 DEF Asking, Parting, Wrote, Movers, Makers, Native!Steps, Native!FormSteps
  <2>5. new.name <= Top + Cardinality(Placers) + 1
    BY <1>p, <2>0, <2>2, NamedSoFar DEF Native!Steps
  <2>6. Sized(c) /\ Puts(c, new)
    BY <1>p, <1>q, <2>0 DEF Sized, Puts, NativeInv, NativeTyped
  <2> QED BY <1>0, <1>p, <2>0, <2>2, <2>3, <2>4, <2>5, <2>6, NativeGoes DEF Native!Steps
<1>6. CASE Native!List(c)
  <2>0. x.pc = "list" /\ x.op.api \in Movers \cup Makers /\ x.answer = "none" /\ UNCHANGED <<at, size>>
    BY <1>6, <1>p DEF Native!List, Asking, Native!Steps, Native!FormSteps, Native!Disk, Native!Files
  <2>a. PICK s \in {"mv", "make"} : s = Native!After(c) /\ (s = "mv" <=> x.op.api \in Movers)
    BY <1>p DEF Native!After, Native!Moves, Movers
  <2>b. PICK m \in Names : m = Native!AutoName(x.name, Native!Listing) /\ m <= Top + Cardinality(Placers) + 1
    <3>1. c \in Calls \ Placers /\ x.name \in Names
      BY <1>p, <2>0 DEF Placers, NativeCalls
    <3>2. x.name <= Top + Cardinality(Placers) + 1
      BY <1>p, <2>0, NamedSoFar DEF Native!Steps
    <3> QED BY <3>1, <3>2, NextName
  <2>1. PICK new : new = [x EXCEPT !.pc = s, !.name = m]
    OBVIOUS
  <2>2. new \in NativeCalls /\ new.pc = s /\ new.kind = x.kind /\ new.op = x.op /\ new.answer = x.answer
        /\ new.part = x.part /\ new.name = m
    BY <1>p, <2>1 DEF NativeCalls, Native!Steps
  <2>3. Native!Goes(c, new)
    <3>1. PICK y : y = Native!To(c, s)
      OBVIOUS
    <3>2. y = [x EXCEPT !.pc = s] /\ y.name = x.name
      BY <1>p, <3>1 DEF Native!To, NativeCalls
    <3>3. Native!Goes(c, [y EXCEPT !.name = Native!AutoName(@, Native!Listing)])
      BY <1>6, <2>a, <3>1 DEF Native!List
    <3>4. [y EXCEPT !.name = Native!AutoName(@, Native!Listing)] = [y EXCEPT !.name = m]
      BY <2>b, <3>2
    <3>5. [y EXCEPT !.name = m] = new
      BY <2>1, <3>2
    <3> QED BY <3>3, <3>4, <3>5
  <2>4. Asking(new) /\ Parting(new) /\ Wrote(c, new, size')
    BY <1>p, <2>0, <2>a, <2>2 DEF Asking, Parting, Wrote, Movers, Makers, Native!Steps, Native!FormSteps
  <2>6. Sized(c) /\ Puts(c, new)
    BY <2>0 DEF Sized, Puts, NativeInv, NativeTyped
  <2> QED BY <1>0, <1>p, <2>0, <2>b, <2>2, <2>3, <2>4, <2>6, NativeGoes DEF Native!Steps
<1> QED BY <1>1, <1>2, <1>3, <1>4, <1>5, <1>6

\* Moves, streams, and calls that only look or remove.
LEMMA NativeMoves ==
  ASSUME Native!Inputs, NativeInv, NEW c \in Calls, Native!Mv(c) \/ Native!MvFault(c)
  PROVE  NativeInv'
<1>p. PICK x \in NativeCalls : x = call[c] /\ Asking(x) /\ Parting(x) /\ Wrote(c, x, size)
  BY DEF NativeInv, NativeTyped
<1>0. x.pc = "mv" /\ x.op.api \in Movers /\ x.op.from \in Sources /\ size' = size /\ drives' = drives
  BY <1>p DEF Native!Mv, Native!MvFault, Native!Disk, Native!Files, Asking, Native!Inputs, Movers, Native!Steps, Native!FormSteps
<1>1. faults' \in Nat
  BY DEF Native!Mv, Native!MvFault, NativeInv, NativeTyped
<1>2. CASE Native!RenameFails(c) /\ at' = at
  <2>1. CASE down' = TRUE /\ UNCHANGED <<call, alone, began>>
    <3>1. UNCHANGED <<call, at, size, drives>> /\ down' \in BOOLEAN
      BY <1>0, <1>2, <2>1
    <3> QED BY <1>1, <3>1 DEF NativeInv, NativeTyped, Counting, Placers
  <2>2. CASE Native!Ends(c, "error") /\ UNCHANGED down
    <3>1. Flags
      BY <1>0, <1>1, <2>2 DEF Flags, NativeInv, NativeTyped
    <3> QED BY <1>0, <1>2, <1>p, <2>2, <3>1, NativeEnds DEF Puts, Native!Steps
  <2> QED BY <1>2, <2>1, <2>2 DEF Native!RenameFails
<1>3. CASE at' = [at EXCEPT ![x.name] = at[x.op.from], ![x.op.from] = Native!Free] /\ Native!Ends(c, "placed") /\ UNCHANGED down
  <2>1. Flags
    BY <1>0, <1>1, <1>3 DEF Flags, NativeInv, NativeTyped
  <2>2. PICK new : new = Native!Done(c, "placed") /\ new.pc = "done"
    BY NativeRecs DEF NativeInv, NativeTyped
  <2>3. c \notin Placers
    BY <1>0, <1>p DEF Placers
  <2>4. Puts(c, new)
    BY <1>0, <1>3, <1>p, <2>2, <2>3 DEF Puts
  <2> QED BY <1>0, <1>3, <1>p, <2>1, <2>2, <2>4, NativeEnds DEF Native!Steps, Movers
<1> QED BY <1>p, <1>2, <1>3 DEF Native!Mv, Native!MvFault, Native!Disk, Native!Files

LEMMA NativeStreams ==
  ASSUME Native!Inputs, NativeInv, NEW c \in Calls, Native!Stream(c)
  PROVE  NativeInv'
<1>p. PICK x \in NativeCalls : x = call[c] /\ Asking(x) /\ Parting(x) /\ Wrote(c, x, size)
  BY DEF NativeInv, NativeTyped
<1>0. /\ x.pc = "stream" /\ x.op.api \in {"NEWFILE", "CPFILE"} /\ size' = [size EXCEPT ![<<c, 0>>] = size[<<c, 0>>] + 1]
      /\ UNCHANGED <<at, drives, down, faults>> /\ Native!Here(c) = <<c, 0>>
  <2>1. x.pc = "stream" /\ x.op.api \in {"NEWFILE", "CPFILE"}
    BY <1>p DEF Native!Stream, Asking
  <2>2. Native!Here(c) = <<c, 0>>
    BY <1>p, <2>1 DEF Parting, Native!Here
  <2> QED BY <2>1, <2>2 DEF Native!Stream, Native!Writes, Native!Rest
<1>a. <<c, 0>> \in Calls \X Native!Parts /\ size[<<c, 0>>] \in 0 .. Units - 1 /\ Units \in Nat
  BY <1>0, <1>p DEF Native!Parts, Wrote, Native!Inputs
<1>1. Sized(c) /\ Flags /\ size'[<<c, 0>>] = size[<<c, 0>>] + 1
  BY <1>0, <1>a DEF Sized, Flags, NativeInv, NativeTyped
<1>2. CASE size[<<c, 0>>] + 1 = Units
  <2>1. PICK new \in NativeCalls : new = Native!Done(c, "placed") /\ new.pc = "done" /\ new.op = x.op
                                   /\ new.answer = "placed" /\ new.part = x.part /\ new.name = 1
    BY <1>p, NativeRecs DEF NativeInv, NativeTyped
  <2>2. call' = [call EXCEPT ![c] = new]
    BY <1>0, <1>2, <2>1 DEF Native!Stream, Native!Ends, Native!Goes
  <2>3. Asking(new) /\ Parting(new) /\ Wrote(c, new, size')
    BY <1>0, <1>1, <1>2, <1>p, <2>1 DEF Asking, Parting, Wrote, Native!Steps, Native!FormSteps
  <2>4. Called(c, new) /\ Puts(c, new)
    BY <1>0, <1>p, <2>1 DEF Called, Puts, Native!Steps
  <2> QED BY <1>1, <2>1, <2>2, <2>3, <2>4, NativeStep
<1>3. CASE size[<<c, 0>>] + 1 # Units
  <2>1. call' = [call EXCEPT ![c] = x]
    BY <1>0, <1>3, <1>p DEF Native!Stream, Native!Goes
  <2>2. size'[<<c, 0>>] \in 0 .. Units - 1
    BY <1>1, <1>3, <1>a
  <2>3. Wrote(c, x, size')
    BY <1>0, <1>p, <2>2 DEF Wrote, Asking, Native!Steps
  <2>4. Called(c, x) /\ Puts(c, x)
    BY <1>0, <1>p DEF Called, Puts, Native!Steps
  <2> QED BY <1>1, <1>p, <2>1, <2>3, <2>4, NativeStep
<1> QED BY <1>2, <1>3

LEMMA NativeMade ==
  ASSUME Native!Inputs, NativeInv, NEW c \in Calls, Native!Made(c)
  PROVE  NativeInv'
<1>1. call[c].pc = "made" /\ call[c].op.api = "MKDIR" /\ call[c].pc \in Native!Steps
  BY DEF Native!Made, NativeInv, Asking, Native!Steps
<1>2. UNCHANGED <<at, size, drives, down, faults>> /\ (Native!Ends(c, "error") \/ Native!Ends(c, "placed"))
  BY DEF Native!Made, Native!Rest, Native!Disk, Native!Files
<1>3. Flags /\ \A new : Puts(c, new)
  BY <1>2 DEF Flags, Puts, NativeInv, NativeTyped
<1> QED BY <1>1, <1>2, <1>3, NativeEnds

LEMMA NativeLooks ==
  ASSUME Native!Inputs, NativeInv, NEW c \in Calls,
         Native!Delete(c) \/ Native!GetTarget(c) \/ Native!ReadDir(c) \/ \E n \in Names : Native!Lstats(c, n)
  PROVE  NativeInv'
<1>0. Flags /\ size' = size
  BY DEF Flags, NativeInv, NativeTyped, Native!Rest, Native!Disk, Native!Files, Native!Delete, Native!GetTarget, Native!ReadDir, Native!Lstats
<1>p. PICK x \in NativeCalls : x = call[c] /\ Asking(x) /\ Parting(x) /\ Wrote(c, x, size)
  BY DEF NativeInv, NativeTyped
<1>1. CASE Native!Delete(c)
  <2>1. x.pc = "remove" /\ x.op.api = "DELETE" /\ x.op.from \in Native!Paths /\ Native!Ends(c, "placed")
        /\ at' = [at EXCEPT ![x.op.from] = Native!Free]
    BY <1>1, <1>p DEF Native!Delete, Asking, Native!Inputs
  <2> QED BY <1>0, <1>p, <2>1, NativeEnds DEF Puts, Native!Steps
<1>2. CASE Native!GetTarget(c)
  <2>1. x.pc = "target" /\ x.op.api = "GET" /\ at' = at
    BY <1>2, <1>p DEF Native!GetTarget, Native!Disk, Native!Files
  <2>2. \/ Native!Ends(c, "error") \/ Native!Ends(c, "placed") \/ Native!Goes(c, Native!To(c, "readdir"))
    BY <1>2 DEF Native!GetTarget
  <2>3. CASE Native!Ends(c, "error") \/ Native!Ends(c, "placed")
    BY <1>0, <1>p, <2>1, <2>3, NativeEnds DEF Puts, Native!Steps, Native!FormSteps
  <2>4. CASE Native!Goes(c, Native!To(c, "readdir"))
    <3>1. PICK new \in NativeCalls : /\ new = Native!To(c, "readdir") /\ new.pc = "readdir" /\ new.op = x.op /\ new.answer = x.answer
                                     /\ new.part = x.part /\ new.name = x.name /\ new.kind = x.kind
      BY <1>p, NativeRecs DEF NativeInv, NativeTyped, Native!Steps
    <3>2. CASE x.answer = "none"
      <4>1. PICK r : r = [x EXCEPT !.pc = "readdir"]
        OBVIOUS
      <4>2. Asking(r) /\ Parting(r)
        BY <1>p, <2>1, <3>2, <4>1 DEF NativeCalls, Asking, Parting, Native!Steps, Native!FormSteps
      <4> QED BY <1>0, <1>p, <2>1, <2>4, <4>1, <4>2, NativeTo DEF Native!Steps, Native!FormSteps, Puts
    <3>3. x.answer = "none"
      BY <1>p, <2>1 DEF Asking, Native!Steps
    <3> QED BY <3>2, <3>3
  <2> QED BY <2>2, <2>3, <2>4
<1>3. CASE Native!ReadDir(c)
  <2>1. x.pc = "readdir" /\ x.op.api = "GET" /\ at' = at /\ x.answer = "none"
    BY <1>3, <1>p DEF Native!ReadDir, Native!Disk, Native!Files, Asking, Native!Steps, Native!FormSteps
  <2>2. CASE Native!Ends(c, "placed")
    BY <1>0, <1>p, <2>1, <2>2, NativeEnds DEF Puts, Native!Steps, Native!FormSteps
  <2>3. CASE Native!Goes(c, [Native!To(c, "lstats") EXCEPT !.left = Native!Listing])
    <3>1. PICK new : new = [x EXCEPT !.pc = "lstats", !.left = Native!Listing]
      OBVIOUS
    <3>2. /\ new \in NativeCalls /\ new.pc = "lstats" /\ new.op = x.op /\ new.answer = x.answer
          /\ new.part = x.part /\ new.name = x.name /\ new.kind = x.kind
      BY <1>p, <3>1 DEF NativeCalls, Native!Steps, Native!Listing
    <3>3. Native!Goes(c, new)
      BY <1>p, <2>3, <3>1 DEF Native!To, NativeCalls
    <3>4. Asking(new) /\ Parting(new) /\ Wrote(c, new, size')
      BY <1>0, <1>p, <2>1, <3>2 DEF Asking, Parting, Wrote, Native!Steps, Native!FormSteps
    <3>5. new.name <= Top + Cardinality(Placers) + 1
      BY <1>p, <2>1, <3>2, NamedSoFar DEF Native!Steps
    <3>6. Sized(c) /\ Puts(c, new)
      BY <1>0, <2>1 DEF Sized, Puts, NativeInv, NativeTyped
    <3> QED BY <1>0, <1>p, <2>1, <3>2, <3>3, <3>4, <3>5, <3>6, NativeGoes DEF Native!Steps
  <2> QED BY <1>3, <2>2, <2>3 DEF Native!ReadDir
<1>4. CASE \E n \in Names : Native!Lstats(c, n)
  <2>0. PICK n \in Names : Native!Lstats(c, n)
    BY <1>4
  <2>1. x.pc = "lstats" /\ x.op.api = "GET" /\ at' = at /\ x.answer = "none"
    BY <2>0, <1>p DEF Native!Lstats, Native!Disk, Native!Files, Asking, Native!Steps, Native!FormSteps
  <2>2. PICK found \in SUBSET Names : found = IF at[n] = Native!Free THEN x.found ELSE x.found \cup {n}
    BY DEF NativeCalls
  <2>3. CASE Native!Goes(c, [Native!Done(c, "placed") EXCEPT !.found = found])
    <3>1. PICK y \in NativeCalls : y = Native!Done(c, "placed") /\ y.pc = "done" /\ y.op = x.op
                                   /\ y.answer = "placed" /\ y.part = x.part /\ y.name = 1
      BY <1>p, NativeRecs DEF NativeInv, NativeTyped
    <3>2. PICK new : new = [y EXCEPT !.found = found]
      OBVIOUS
    <3>3. /\ new \in NativeCalls /\ new.pc = "done" /\ new.op = x.op /\ new.answer = "placed" /\ new.part = x.part /\ new.name = 1
      BY <3>1, <3>2 DEF NativeCalls
    <3>4. call' = [call EXCEPT ![c] = new]
      BY <2>3, <3>1, <3>2 DEF Native!Goes
    <3>5. Asking(new) /\ Parting(new) /\ Wrote(c, new, size')
      BY <1>0, <1>p, <2>1, <3>3 DEF Asking, Parting, Wrote, Native!Steps, Native!FormSteps
    <3>6. Called(c, new) /\ Puts(c, new) /\ Sized(c)
      BY <1>0, <1>p, <2>1, <3>3 DEF Called, Puts, Sized, NativeInv, NativeTyped, Native!Steps
    <3> QED BY <1>0, <3>3, <3>4, <3>5, <3>6, NativeStep
  <2>4. CASE Native!Goes(c, [x EXCEPT !.left = @ \ {n}, !.found = found])
    <3>1. PICK new : new = [x EXCEPT !.left = @ \ {n}, !.found = found]
      OBVIOUS
    <3>2. /\ new \in NativeCalls /\ new.pc = "lstats" /\ new.op = x.op /\ new.answer = x.answer
          /\ new.part = x.part /\ new.name = x.name /\ new.kind = x.kind
      BY <1>p, <2>1, <3>1 DEF NativeCalls
    <3>3. Native!Goes(c, new)
      BY <2>4, <3>1
    <3>4. Asking(new) /\ Parting(new) /\ Wrote(c, new, size')
      BY <1>0, <1>p, <2>1, <3>2 DEF Asking, Parting, Wrote, Native!Steps, Native!FormSteps
    <3>5. new.name <= Top + Cardinality(Placers) + 1
      BY <1>p, <2>1, <3>2, NamedSoFar DEF Native!Steps
    <3>6. Sized(c) /\ Puts(c, new)
      BY <1>0, <2>1 DEF Sized, Puts, NativeInv, NativeTyped
    <3> QED BY <1>0, <1>p, <2>1, <3>2, <3>3, <3>4, <3>5, <3>6, NativeGoes DEF Native!Steps
  <2> QED BY <1>p, <2>0, <2>2, <2>3, <2>4 DEF Native!Lstats
<1> QED BY <1>1, <1>2, <1>3, <1>4

-----------------------------------------------------------------------------
\* Forms, part by part.
LEMMA FormParts ==
  ASSUME Native!Inputs, NEW o \in Ops
  PROVE  /\ o.parts \in Seq(Native!PartRecs) /\ Len(o.parts) \in Nat /\ Len(o.parts) <= 3 /\ o.path \in BOOLEAN
         /\ \A i \in 1 .. Len(o.parts) : /\ o.parts[i].do \in {"prelude", "file", "directory", "remove"}
                                         /\ o.parts[i].name \in Names /\ o.parts[i].name <= Top
                                         /\ i \in Native!Parts
<1>1. o.parts \in Seq(Native!PartRecs) /\ Len(o.parts) <= 3 /\ o.path \in BOOLEAN
  BY DEF Native!Inputs
<1>2. Len(o.parts) \in Nat /\ \A i \in 1 .. Len(o.parts) : o.parts[i] \in Native!PartRecs
  BY <1>1
<1>3. Native!Cardinality(Names) = Cardinality(Names) /\ Native!Cardinality(Calls) = Cardinality(Calls)
  BY NativeSets
<1>4. \A e \in Native!PartRecs : e.do \in {"prelude", "file", "directory", "remove"} /\ e.name \in 1 .. Top
  BY <1>3 DEF Native!PartRecs, Top
<1>5. \A k \in 1 .. Top : k \in Names /\ k <= Top
  <2>1. /\ Cardinality(Calls) \in Nat /\ Cardinality(Names) \in Nat /\ Names = 1 .. Cardinality(Names)
    BY NativeSizes
  <2> QED BY <2>1 DEF Top
<1>6. \A i \in 1 .. Len(o.parts) : i \in Native!Parts
  BY <1>1, <1>2 DEF Native!Parts
<1> QED BY <1>1, <1>2, <1>4, <1>5, <1>6

\* A form's call ends with an error.
LEMMA FormFails ==
  ASSUME Native!Inputs, NativeInv, NEW c \in Calls, call[c].pc \in Native!Steps, call[c].pc \notin {"stream", "made"}, Native!FormError(c),
         UNCHANGED <<drives, down, faults, at, size>>
  PROVE  NativeInv'
<1>1. Flags /\ Puts(c, Native!Done(c, "error"))
  BY DEF Flags, Puts, NativeInv, NativeTyped
<1> QED BY <1>1, NativeEnds DEF Native!FormError

\* It goes on to a step that has nothing to write.
LEMMA FormGoes ==
  ASSUME Native!Inputs, NativeInv, NEW c \in Calls, NEW s \in Native!FormSteps \cup {"target"}, s # "fdata",
         call[c].pc \in Native!FormSteps \cup {"target"}, call[c].op.api = "POSTFORM",
         Native!Goes(c, Native!To(c, s)), size' = size, UNCHANGED <<drives, down, faults>>,
         Puts(c, Native!To(c, s)),
         s \in {"flstat", "fopen"} => call[c].pc \in {"flstat", "fopen", "fdata"},
         s \in {"part", "target", "mkdirp", "prelude"} => call[c].pc \in {"target", "prelude", "dlstat", "mkdirp", "rimraf"},
         s \notin {"dlstat", "rimraf"}
  PROVE  NativeInv'
<1>p. PICK x \in NativeCalls : x = call[c] /\ Asking(x) /\ Parting(x)
  BY DEF NativeInv, NativeTyped
<1>1. PICK r : r = [x EXCEPT !.pc = s]
  OBVIOUS
<1>2. r.pc = s /\ r.op = x.op /\ r.answer = x.answer /\ r.part = x.part /\ r.name = x.name /\ r.kind = x.kind
  BY <1>p, <1>1 DEF NativeCalls
<1>3. Asking(r)
  <2>1. x.pc \in Native!Steps /\ s \in Native!Steps /\ s \notin {"idle", "done", "stat", "peek", "mv", "make", "made", "look", "clear", "list", "stream", "remove", "readdir", "lstats"}
    BY <1>p DEF Native!Steps, Native!FormSteps
  <2> QED BY <1>p, <1>2, <2>1 DEF Asking, Native!FormSteps
<1>4. Parting(r)
  BY <1>p, <1>2 DEF Parting, Native!FormSteps
<1>5. Flags
  BY DEF Flags, NativeInv, NativeTyped
<1>6. s \in Native!Steps /\ call[c].pc \in Native!Steps \ {"stream", "made"} /\ s \notin {"stream", "made"}
  BY DEF Native!Steps, Native!FormSteps
<1> QED BY <1>p, <1>1, <1>3, <1>4, <1>5, <1>6, NativeTo

\* The next part is begun.
LEMMA FormWrites ==
  ASSUME Native!Inputs, NativeInv, NEW c \in Calls, Native!Write(c)
  PROVE  NativeInv'
<1>p. PICK x \in NativeCalls : x = call[c] /\ Asking(x) /\ Parting(x) /\ Wrote(c, x, size)
  BY DEF NativeInv, NativeTyped
<1>0. x.pc = "part" /\ x.op.api = "POSTFORM" /\ UNCHANGED <<drives, down, faults, at, size>> /\ x.op \in Ops /\ x.part \in Nat
      /\ Native!Goes(c, Native!Next1(c)) /\ (x.answer = "error" => x.part < Len(x.op.parts)) /\ x.answer \in {"none", "error"}
  BY <1>p DEF Native!Write, Native!Broken, Native!Rest, Native!Disk, Native!Files, Asking, Native!FormSteps, Native!Steps, NativeCalls, Native!Parts
<1>1. Flags /\ Sized(c)
  BY <1>0 DEF Flags, Sized, NativeInv, NativeTyped
<1>2. CASE x.part = Len(x.op.parts)
  <2>1. PICK new \in NativeCalls : new = Native!Done(c, "placed") /\ new.pc = "done" /\ new.op = x.op
                                   /\ new.answer = "placed" /\ new.part = x.part /\ new.name = 1
    BY <1>p, NativeRecs DEF NativeInv, NativeTyped
  <2>2. call' = [call EXCEPT ![c] = new]
    BY <1>0, <1>2, <1>p, <2>1 DEF Native!Next1, Native!Goes
  <2>3. 1 <= Top
    BY NativeSizes
  <2>4. Asking(new) /\ Parting(new)
    BY <1>0, <1>p, <2>1, <2>3 DEF Asking, Parting, Native!Steps, Native!FormSteps
  <2>5. Wrote(c, new, size')
    BY <1>0, <1>p, <2>1 DEF Wrote
  <2>6. Called(c, new) /\ Puts(c, new)
    BY <1>0, <1>p, <2>1 DEF Called, Puts, Native!Steps, Native!FormSteps
  <2> QED BY <1>1, <2>1, <2>2, <2>4, <2>5, <2>6, NativeStep
<1>3. CASE x.part # Len(x.op.parts)
  <2>0. PICK i \in 1 .. Len(x.op.parts) : i = x.part + 1
    <3>1. x.part \in Nat /\ x.part <= Len(x.op.parts) /\ Len(x.op.parts) \in Nat
      BY <1>0, <1>p, FormParts DEF Parting
    <3> QED BY <1>3, <3>1
  <2>a. PICK e : e = x.op.parts[i] /\ e.do \in {"prelude", "file", "directory", "remove"} /\ e.name \in Names /\ e.name <= Top /\ i \in Native!Parts
    BY <1>0, FormParts
  <2>b. CASE Native!Expected(c, i)
    <3>1. PICK s \in {"prelude", "flstat", "dlstat", "rimraf"} : s = Native!PartStep(e.do) /\ (s = "flstat" <=> e.do = "file")
      BY <2>a DEF Native!PartStep
    <3>2. PICK new : new = [x EXCEPT !.part = i, !.name = e.name, !.pc = s]
      OBVIOUS
    <3>3. new \in NativeCalls /\ new.pc = s /\ new.op = x.op /\ new.answer = x.answer /\ new.part = i /\ new.name = e.name /\ new.kind = x.kind
      <4>1. s \in Native!Steps
        BY DEF Native!Steps, Native!FormSteps
      <4> QED BY <1>p, <2>a, <3>2, <4>1 DEF NativeCalls
    <3>4. Native!Goes(c, new)
      BY <1>0, <1>3, <1>p, <2>0, <2>a, <2>b, <3>1, <3>2 DEF Native!Next1, Native!Part
    <3>5. Asking(new)
      BY <1>0, <1>p, <3>3 DEF Asking, Native!Steps, Native!FormSteps
    <3>6. Parting(new)
      BY <1>0, <2>0, <2>a, <3>1, <3>3, FormParts DEF Parting
    <3>7. Wrote(c, new, size')
      <4>1. ASSUME NEW j \in 1 .. Len(x.op.parts), x.op.parts[j].do = "file", j < i PROVE size[<<c, j>>] = Units
        <5>1. j < x.part \/ j = x.part
          BY <1>0, <2>0, <4>1, FormParts
        <5> QED BY <1>0, <1>p, <4>1, <5>1 DEF Wrote
      <4> QED BY <1>0, <3>3, <4>1 DEF Wrote
    <3>8. new.name <= Top + Cardinality(Placers) + 1
      <4>1. Top \in Nat /\ Cardinality(Placers) \in Nat /\ e.name \in Nat
        BY <2>a, NativeSizes
      <4> QED BY <2>a, <3>3, <4>1
    <3>9. Puts(c, new)
      BY <1>0 DEF Puts
    <3> QED BY <1>0, <1>1, <1>p, <3>3, <3>4, <3>5, <3>6, <3>7, <3>8, <3>9, NativeGoes DEF Native!Steps, Native!FormSteps
  <2>c. CASE ~Native!Expected(c, i)
    <3>1. Native!FormError(c)
      BY <1>0, <1>3, <1>p, <2>0, <2>c DEF Native!Next1, Native!FormError, Native!Ends
    <3> QED BY <1>0, <1>p, <3>1, FormFails DEF Native!Steps, Native!FormSteps
  <2> QED BY <2>b, <2>c
<1> QED BY <1>2, <1>3

LEMMA FormFiles ==
  ASSUME Native!Inputs, NativeInv, NEW c \in Calls, Native!FileLstat(c) \/ Native!FileOpen(c) \/ Native!FileData(c)
  PROVE  NativeInv'
<1>p. PICK x \in NativeCalls : x = call[c] /\ Asking(x) /\ Parting(x) /\ Wrote(c, x, size)
  BY DEF NativeInv, NativeTyped
<1>0. /\ x.pc \in {"flstat", "fopen", "fdata"} /\ x.op.api = "POSTFORM" /\ UNCHANGED <<drives, down, faults>> /\ x.op \in Ops
      /\ x.part \in Native!Parts /\ x.part \in 1 .. Len(x.op.parts) /\ x.op.parts[x.part].do = "file"
      /\ x.answer \in {"none", "error"} /\ x.name <= Top
  <2>1. /\ x.pc \in {"flstat", "fopen", "fdata"} /\ UNCHANGED <<drives, down, faults>>
    BY <1>p DEF Native!FileLstat, Native!FileOpen, Native!FileData, Native!Rest
  <2>2. x.op.api = "POSTFORM" /\ x.op \in Ops /\ x.answer \in {"none", "error"}
    BY <1>p, <2>1 DEF Asking, Native!FormSteps, Native!Steps
  <2>3. x.part \in Native!Parts /\ x.part \in Nat /\ x.part >= 1 /\ x.part <= Len(x.op.parts) /\ x.op.parts[x.part].do = "file" /\ x.name <= Top
    BY <1>p, <2>1, <2>2 DEF Parting, NativeCalls, Native!Parts
  <2> QED BY <2>1, <2>2, <2>3, FormParts
<1>1. Flags
  BY <1>0 DEF Flags, NativeInv, NativeTyped
<1>2. CASE Native!FileLstat(c)
  <2>1. x.pc = "flstat" /\ UNCHANGED <<at, size>>
    BY <1>2, <1>p DEF Native!FileLstat, Native!Disk, Native!Files
  <2>2. CASE Native!FormError(c)
    BY <1>0, <1>p, <2>1, <2>2, FormFails DEF Native!Steps, Native!FormSteps
  <2>3. CASE Native!Goes(c, Native!To(c, "fopen"))
    <3>1. Puts(c, Native!To(c, "fopen"))
      BY <2>1 DEF Puts
    <3> QED BY <1>0, <1>p, <2>1, <2>3, <3>1, FormGoes DEF Native!FormSteps
  <2> QED BY <1>2, <2>2, <2>3 DEF Native!FileLstat
<1>3. CASE Native!FileOpen(c)
  <2>1. x.pc = "fopen"
    BY <1>3, <1>p DEF Native!FileOpen
  <2>2. CASE Native!FormError(c) /\ UNCHANGED <<at, size>>
    BY <1>0, <1>p, <2>1, <2>2, FormFails DEF Native!Steps, Native!FormSteps
  <2>3. CASE /\ Native!Goes(c, Native!To(c, "fdata")) /\ size' = [size EXCEPT ![<<c, x.part>>] = 0]
             /\ at' = at \/ at' = [at EXCEPT ![x.name] = [kind |-> "file", obj |-> <<c, x.part>>]]
    <3>1. PICK new \in NativeCalls : /\ new = Native!To(c, "fdata") /\ new.pc = "fdata" /\ new.op = x.op /\ new.answer = x.answer
                                     /\ new.part = x.part /\ new.name = x.name /\ new.kind = x.kind
      BY <1>p, NativeRecs DEF NativeInv, NativeTyped, Native!Steps, Native!FormSteps
    <3>a. <<c, x.part>> \in Calls \X Native!Parts
      BY <1>0
    <3>2. Puts(c, new)
      BY <1>0, <1>p, <2>3, <3>a DEF Puts
    <3>3. Sized(c) /\ size'[<<c, x.part>>] = 0 /\ \A i \in Native!Parts : i # x.part => size'[<<c, i>>] = size[<<c, i>>]
      BY <2>3, <3>a DEF Sized, NativeInv, NativeTyped
    <3>4. Asking(new) /\ Parting(new)
      BY <1>0, <1>p, <2>1, <3>1 DEF Asking, Parting, Native!Steps, Native!FormSteps
    <3>5. Wrote(c, new, size')
      <4>1. 0 \in 0 .. Units - 1
        BY DEF Native!Inputs
      <4>2. \A i \in 1 .. Len(x.op.parts) : x.op.parts[i].do = "file" /\ i < x.part => size'[<<c, i>>] = Units
        BY <1>0, <1>p, <3>3, FormParts DEF Wrote
      <4> QED BY <1>0, <3>1, <3>3, <4>1, <4>2 DEF Wrote
    <3>6. new.name <= Top + Cardinality(Placers) + 1
      BY <1>p, <2>1, <3>1, NamedSoFar DEF Native!Steps, Native!FormSteps
    <3> QED BY <1>1, <1>p, <2>1, <2>3, <3>1, <3>2, <3>3, <3>4, <3>5, <3>6, NativeGoes DEF Native!Steps, Native!FormSteps
  <2> QED BY <1>3, <1>p, <2>2, <2>3 DEF Native!FileOpen, Native!Make, Native!Opens, Native!Here, Native!Disk, Native!Files
<1>4. CASE Native!FileData(c)
  <2>1. x.pc = "fdata" /\ at' = at /\ size' = [size EXCEPT ![<<c, x.part>>] = size[<<c, x.part>>] + 1]
    BY <1>4, <1>p DEF Native!FileData, Native!Writes, Native!Here
  <2>a. <<c, x.part>> \in Calls \X Native!Parts /\ size[<<c, x.part>>] \in 0 .. Units - 1 /\ Units \in Nat
    BY <1>0, <1>p, <2>1 DEF Wrote, Native!Inputs
  <2>3. /\ Sized(c) /\ size'[<<c, x.part>>] = size[<<c, x.part>>] + 1
        /\ \A i \in Native!Parts : i # x.part => size'[<<c, i>>] = size[<<c, i>>]
    BY <2>1, <2>a DEF Sized, NativeInv, NativeTyped
  <2>4. \A i \in 1 .. Len(x.op.parts) : x.op.parts[i].do = "file" /\ i < x.part => size'[<<c, i>>] = Units
    BY <1>0, <1>p, <2>3, FormParts DEF Wrote
  <2>5. CASE size[<<c, x.part>>] + 1 = Units
    <3>1. PICK new \in NativeCalls : /\ new = Native!To(c, "part") /\ new.pc = "part" /\ new.op = x.op /\ new.answer = x.answer
                                     /\ new.part = x.part /\ new.name = x.name /\ new.kind = x.kind
      BY <1>p, NativeRecs DEF NativeInv, NativeTyped, Native!Steps, Native!FormSteps
    <3>2. Native!Goes(c, new)
      BY <1>4, <1>p, <2>5, <3>1 DEF Native!FileData, Native!Here
    <3>3. Asking(new) /\ Parting(new)
      BY <1>0, <1>p, <2>1, <3>1 DEF Asking, Parting, Native!Steps, Native!FormSteps
    <3>4. Wrote(c, new, size')
      <4>1. size'[<<c, x.part>>] = Units
        BY <2>3, <2>5
      <4> QED BY <1>0, <2>4, <3>1, <4>1 DEF Wrote
    <3>5. new.name <= Top + Cardinality(Placers) + 1
      BY <1>p, <2>1, <3>1, NamedSoFar DEF Native!Steps, Native!FormSteps
    <3>6. Puts(c, new)
      BY <2>1 DEF Puts
    <3> QED BY <1>1, <1>p, <2>1, <2>3, <3>1, <3>2, <3>3, <3>4, <3>5, <3>6, NativeGoes DEF Native!Steps, Native!FormSteps
  <2>6. CASE size[<<c, x.part>>] + 1 # Units
    <3>2. Native!Goes(c, x)
      BY <1>4, <1>p, <2>6 DEF Native!FileData, Native!Here
    <3>4. Wrote(c, x, size')
      <4>1. size'[<<c, x.part>>] \in 0 .. Units - 1
        BY <2>3, <2>6, <2>a
      <4> QED BY <1>0, <2>1, <2>4, <4>1 DEF Wrote
    <3>5. x.name <= Top + Cardinality(Placers) + 1
      BY <1>p, <2>1, NamedSoFar DEF Native!Steps, Native!FormSteps
    <3>6. Puts(c, x)
      BY <2>1 DEF Puts
    <3> QED BY <1>1, <1>p, <2>1, <2>3, <3>2, <3>4, <3>5, <3>6, NativeGoes DEF Native!Steps, Native!FormSteps
  <2> QED BY <2>5, <2>6
<1> QED BY <1>2, <1>3, <1>4

LEMMA FormRest ==
  ASSUME Native!Inputs, NativeInv, NEW c \in Calls,
         \/ Native!FormTarget(c) \/ Native!Prelude(c) \/ Native!DirLstat(c) \/ Native!Mkdirp(c) \/ Native!Rimraf(c)
         \/ Native!Stops(c)
  PROVE  NativeInv'
<1>p. PICK x \in NativeCalls : x = call[c] /\ Asking(x) /\ Parting(x) /\ Wrote(c, x, size)
  BY DEF NativeInv, NativeTyped
<1>0. /\ x.pc \in {"target", "prelude", "dlstat", "mkdirp", "rimraf", "part", "fdata"} /\ UNCHANGED <<drives, down, faults, size>>
      /\ x.pc \in Native!Steps /\ x.pc \notin {"stream", "made"} /\ x.name \in Native!Paths /\ x.part \in Native!Parts
  <2>1. /\ x.pc \in {"target", "prelude", "dlstat", "mkdirp", "rimraf", "part", "fdata"} /\ UNCHANGED <<drives, down, faults>>
    BY <1>p DEF Native!FormTarget, Native!Prelude, Native!DirLstat, Native!Mkdirp, Native!Rimraf, Native!Stops, Native!Rest
  <2>2. size' = size
    <3>1. CASE Native!Mkdirp(c)
      <4>1. PICK e : e = at[x.name]
        OBVIOUS
      <4>2. e = Native!Free \/ e.kind \in {"file", "dir"}
        BY <1>p, <4>1, NativeSizes DEF NativeInv, NativeTyped, NativeCalls
      <4>3. e.kind \in {"none", "file", "dir"} /\ (e = Native!Free <=> e.kind = "none")
        BY <4>2 DEF Native!Free
      <4>4. CASE e.kind = "none"
        BY <1>p, <3>1, <4>1, <4>3, <4>4 DEF Native!Mkdirp, Native!Make, Native!Files
      <4>5. CASE e.kind = "dir"
        BY <1>p, <3>1, <4>1, <4>3, <4>5 DEF Native!Mkdirp, Native!Disk, Native!Files
      <4>6. CASE e.kind = "file"
        BY <1>p, <3>1, <4>1, <4>3, <4>6 DEF Native!Mkdirp, Native!Disk, Native!Files
      <4> QED BY <4>3, <4>4, <4>5, <4>6
    <3>2. CASE ~Native!Mkdirp(c)
      BY <3>2 DEF Native!FormTarget, Native!Prelude, Native!DirLstat, Native!Rimraf, Native!Stops, Native!Disk, Native!Files
    <3> QED BY <3>1, <3>2
  <2>3. x.name \in Native!Paths /\ x.part \in Native!Parts
    BY NativeSizes DEF NativeCalls
  <2> QED BY <2>1, <2>2, <2>3 DEF Native!Steps, Native!FormSteps
<1>a. x.op.api = "POSTFORM"
  <2>1. CASE x.pc = "target"
    BY <1>p, <2>1 DEF Native!FormTarget, Native!Prelude, Native!DirLstat, Native!Mkdirp, Native!Rimraf, Native!Stops
  <2>2. CASE x.pc # "target"
    BY <1>0, <1>p, <2>2 DEF Asking, Native!FormSteps
  <2> QED BY <2>1, <2>2
<1>b. ASSUME Native!FormError(c), at' = at PROVE NativeInv'
  BY <1>0, <1>p, <1>b, FormFails
<1>c. ASSUME Native!Goes(c, Native!To(c, "part")), Puts(c, Native!To(c, "part")),
             x.pc \in {"target", "prelude", "dlstat", "mkdirp", "rimraf"}
      PROVE  NativeInv'
  BY <1>0, <1>p, <1>a, <1>c, FormGoes DEF Native!FormSteps
<1>d. at' = at => \A s : Puts(c, Native!To(c, s))
  BY DEF Puts
<1>1. CASE Native!FormTarget(c)
  BY <1>1, <1>c, <1>d, <1>p DEF Native!FormTarget, Native!Disk, Native!Files
<1>2. CASE Native!Prelude(c)
  <2>1. x.pc = "prelude" /\ at' = at
    BY <1>2, <1>p DEF Native!Prelude, Native!Disk, Native!Files
  <2>2. CASE Native!FormError(c)
    BY <1>b, <2>1, <2>2
  <2>3. CASE Native!Goes(c, Native!To(c, "target"))
    BY <1>0, <1>a, <1>d, <1>p, <2>1, <2>3, FormGoes DEF Native!FormSteps
  <2> QED BY <1>2, <2>2, <2>3 DEF Native!Prelude
<1>3. CASE Native!DirLstat(c)
  <2>1. x.pc = "dlstat" /\ at' = at
    BY <1>3, <1>p DEF Native!DirLstat, Native!Disk, Native!Files
  <2>2. CASE Native!FormError(c)
    BY <1>b, <2>1, <2>2
  <2>3. CASE Native!Goes(c, Native!To(c, "mkdirp"))
    BY <1>0, <1>a, <1>d, <1>p, <2>1, <2>3, FormGoes DEF Native!FormSteps
  <2>4. CASE Native!Goes(c, Native!To(c, "part"))
    BY <1>c, <1>d, <2>1, <2>4
  <2>5. Native!Free.kind = "none" /\ (at[x.name] = Native!Free \/ at[x.name].kind \in {"file", "dir"})
    BY <1>0 DEF Native!Free, NativeInv, NativeTyped
  <2>6. PICK e : e = at[x.name]
    OBVIOUS
  <2>7. CASE e = Native!Free
    BY <1>3, <1>p, <2>3, <2>5, <2>6, <2>7 DEF Native!DirLstat
  <2>8. CASE e # Native!Free /\ e.kind = "dir"
    BY <1>3, <1>p, <2>4, <2>5, <2>6, <2>8 DEF Native!DirLstat
  <2>9. CASE e # Native!Free /\ e.kind = "file"
    BY <1>3, <1>p, <2>2, <2>5, <2>6, <2>9 DEF Native!DirLstat
  <2> QED BY <2>5, <2>6, <2>7, <2>8, <2>9
<1>4. CASE Native!Mkdirp(c)
  <2>1. x.pc = "mkdirp"
    BY <1>4, <1>p DEF Native!Mkdirp
  <2>2. CASE Native!FormError(c) /\ at' = at
    BY <1>b, <2>1, <2>2
  <2>3. CASE Native!Goes(c, Native!To(c, "part")) /\ at' = [at EXCEPT ![x.name] = [kind |-> "dir", obj |-> <<c, x.part>>]]
    <3>1. <<c, x.part>> \in Calls \X Native!Parts
      BY <1>0
    <3>2. Puts(c, Native!To(c, "part"))
      BY <1>a, <1>p, <2>3, <3>1 DEF Puts
    <3> QED BY <1>c, <2>1, <2>3, <3>2
  <2>4. CASE Native!Goes(c, Native!To(c, "part")) /\ at' = at
    BY <1>c, <1>d, <2>1, <2>4
  <2>5. Native!Free.kind = "none" /\ (at[x.name] = Native!Free \/ at[x.name].kind \in {"file", "dir"})
    BY <1>0 DEF Native!Free, NativeInv, NativeTyped
  <2>6. PICK e : e = at[x.name]
    OBVIOUS
  <2>7. CASE e = Native!Free
    BY <1>4, <1>p, <2>3, <2>5, <2>6, <2>7 DEF Native!Mkdirp, Native!Make, Native!Here
  <2>8. CASE e # Native!Free /\ e.kind = "dir"
    BY <1>4, <1>p, <2>4, <2>5, <2>6, <2>8 DEF Native!Mkdirp, Native!Disk, Native!Files
  <2>9. CASE e # Native!Free /\ e.kind = "file"
    BY <1>4, <1>p, <2>2, <2>5, <2>6, <2>9 DEF Native!Mkdirp, Native!Disk, Native!Files
  <2> QED BY <2>5, <2>6, <2>7, <2>8, <2>9
<1>5. CASE Native!Rimraf(c)
  <2>1. x.pc = "rimraf" /\ at' = [at EXCEPT ![x.name] = Native!Free] /\ Native!Goes(c, Native!To(c, "part"))
    BY <1>5, <1>p DEF Native!Rimraf
  <2>2. Puts(c, Native!To(c, "part"))
    BY <1>0, <2>1 DEF Puts
  <2> QED BY <1>c, <2>1, <2>2
<1>6. CASE Native!Stops(c)
  BY <1>6, <1>b DEF Native!Stops, Native!Disk, Native!Files, Native!FormError
<1> QED BY <1>1, <1>2, <1>3, <1>4, <1>5, <1>6

LEMMA NativeFaults ==
  ASSUME Native!Inputs, NativeInv, NEW c \in Calls, Native!StreamFails(c) \/ Native!BreaksOff(c) \/ Native!Fault(c)
  PROVE  NativeInv'
<1>p. PICK x \in NativeCalls : x = call[c] /\ Asking(x) /\ Parting(x) /\ Wrote(c, x, size)
  BY DEF NativeInv, NativeTyped
<1>0. faults' \in Nat /\ UNCHANGED <<drives, at, size>> /\ x.pc \in Native!Steps
  <2>1. faults' = faults + 1 /\ UNCHANGED <<drives, at, size>>
    BY DEF Native!StreamFails, Native!BreaksOff, Native!Fault, Native!Disk, Native!Files
  <2>2. x.pc \in Native!Steps
    BY <1>p DEF Native!StreamFails, Native!BreaksOff, Native!Fault, Native!Steps, Native!FormSteps
  <2> QED BY <2>1, <2>2 DEF NativeInv, NativeTyped
<1>1. ASSUME Native!Ends(c, "error"), UNCHANGED down PROVE NativeInv'
  <2>1. Flags /\ Puts(c, Native!Done(c, "error"))
    BY <1>0, <1>1 DEF Flags, Puts, NativeInv, NativeTyped
  <2> QED BY <1>0, <1>1, <1>p, <2>1, NativeEnds
<1>2. CASE Native!Fault(c)
  BY <1>1, <1>2 DEF Native!Fault
<1>3. CASE Native!StreamFails(c)
  <2>1. CASE down' = TRUE /\ UNCHANGED <<call, alone, began>>
    <3>1. UNCHANGED <<call, at, size, drives>> /\ down' \in BOOLEAN
      BY <1>0, <2>1
    <3> QED BY <1>0, <3>1 DEF NativeInv, NativeTyped, Counting, Placers
  <2> QED BY <1>1, <1>3, <2>1 DEF Native!StreamFails
<1>4. CASE Native!BreaksOff(c)
  <2>1. CASE Native!Ends(c, "error")
    BY <1>1, <1>4, <2>1 DEF Native!BreaksOff
  <2>2. CASE Native!Goes(c, [call[c] EXCEPT !.answer = "error"]) /\ x.pc # "part"
    <3>1. PICK new : new = [x EXCEPT !.answer = "error"]
      OBVIOUS
    <3>2. new \in NativeCalls /\ new.pc = x.pc /\ new.op = x.op /\ new.answer = "error" /\ new.part = x.part /\ new.name = x.name /\ new.kind = x.kind
      BY <1>p, <3>1 DEF NativeCalls
    <3>3. call' = [call EXCEPT ![c] = new]
      BY <1>p, <2>2, <3>1 DEF Native!Goes
    <3>4. x.op.api = "POSTFORM" /\ x.pc \in Native!FormSteps \cup {"target"}
      BY <1>4, <1>p DEF Native!BreaksOff, Asking
    <3>5. Asking(new) /\ Parting(new) /\ Wrote(c, new, size')
      BY <1>0, <1>p, <3>2, <3>4 DEF Asking, Parting, Wrote, Native!Steps, Native!FormSteps
    <3>6. Called(c, new)
      BY <1>0, <1>p, <3>2, <3>4, NamedSoFar DEF Called, Native!FormSteps
    <3>7. Puts(c, new) /\ Sized(c) /\ Flags
      BY <1>0, <1>4 DEF Puts, Sized, Flags, NativeInv, NativeTyped, Native!BreaksOff
    <3> QED BY <3>2, <3>3, <3>5, <3>6, <3>7, NativeStep
  <2> QED BY <1>4, <1>p, <2>1, <2>2 DEF Native!BreaksOff
<1> QED BY <1>2, <1>3, <1>4

LEMMA NativeBegins == Native!Inputs /\ Native!Init => NativeInv
<1> SUFFICES ASSUME Native!Inputs, Native!Init PROVE NativeInv
  OBVIOUS
<1>0. PICK n \in NativeCalls : /\ n = Native!NoCall /\ n.pc = "idle" /\ n.answer = "none" /\ n.op.api = "none"
                               /\ n.part = 0 /\ n.name = 1 /\ n.kind = "none"
  BY NoCallRec
<1>1. call = [c \in Calls |-> n]
  BY <1>0 DEF Native!Init
<1>2. NativeTyped
  <2>1. at = [p \in Native!Paths |-> at[p]] /\ \A p \in Native!Paths : at[p] = Native!Free \/ at[p].kind \in {"file", "dir"}
    BY DEF Native!Init, Native!Inputs
  <2> QED BY <1>1, <2>1 DEF NativeTyped, Native!Init, Native!Streams
<1>3. Counting
  <2>1. Top \in Nat /\ Cardinality(Placers) \in Nat /\ Native!Cardinality(Names) - Native!Cardinality(Calls) = Top
    BY NativeSizes, NativeSets DEF Top
  <2>2. \A m \in Names : at[m] # Native!Free => m <= Top
    BY <2>1 DEF Native!Init, Native!Inputs
  <2>3. Names \subseteq Nat
    BY NativeSizes
  <2>4. PICK k \in Nat : k = Cardinality(Placers)
    BY <2>1
  <2>5. ASSUME NEW m \in Names, at[m] # Native!Free PROVE m <= Top + k
    <3>1. m <= Top /\ m \in Nat
      BY <2>2, <2>3, <2>5
    <3> QED BY <2>1, <3>1
  <2>6. ASSUME NEW c \in Calls PROVE call[c].name <= Top + k + 1
    <3>1. call[c].name = 1
      BY <1>0, <1>1
    <3> QED BY <2>1, <3>1
  <2> QED BY <2>4, <2>5, <2>6 DEF Counting
<1>4. ASSUME NEW c \in Calls PROVE Asking(call[c]) /\ Parting(call[c]) /\ Wrote(c, call[c], size)
  BY <1>0, <1>1 DEF Asking, Parting, Wrote, Native!Steps, Native!FormSteps
<1> QED BY <1>2, <1>3, <1>4 DEF NativeInv

LEMMA NativeKept == Native!Inputs /\ NativeInv /\ [Native!Next]_(Native!vars) => NativeInv'
<1> SUFFICES ASSUME Native!Inputs, NativeInv, [Native!Next]_(Native!vars) PROVE NativeInv'
  OBVIOUS
<1>1. CASE UNCHANGED Native!vars
  <2>1. UNCHANGED <<drives, call, faults, at, size, down>>
    BY <1>1 DEF Native!vars
  <2> QED BY <2>1 DEF NativeInv, NativeTyped, Counting, Placers
<1>2. CASE Native!Update
  <2>1. UNCHANGED <<call, faults, at, size, down>> /\ drives' \in BOOLEAN
    BY <1>2 DEF Native!Update, Native!Disk, Native!Files
  <2> QED BY <2>1 DEF NativeInv, NativeTyped, Counting, Placers
<1>3. ASSUME NEW c \in Calls, NEW o \in Ops, Native!Ask(c, o) PROVE NativeInv'
  BY <1>3, NativeAsks
<1>4. ASSUME NEW c \in Calls, Native!Proceed(c) PROVE NativeInv'
  BY <1>4, NativeNames, NativeMoves, NativeStreams, NativeMade, NativeLooks, FormWrites, FormFiles, FormRest DEF Native!Proceed
<1>5. ASSUME NEW c \in Calls, Native!StreamFails(c) \/ Native!BreaksOff(c) \/ Native!Fault(c) \/ Native!MvFault(c)
      PROVE  NativeInv'
  BY <1>5, NativeFaults, NativeMoves
<1> QED BY <1>1, <1>2, <1>3, <1>4, <1>5 DEF Native!Next

-----------------------------------------------------------------------------
\* Whose stream is on whose file: a file is first that of the stream that made it, and who
\* shares it with one who is writing has been noted.
Before == {"idle", "stat", "peek", "make", "look", "clear", "list", "flstat", "fopen"}
Unopened(r, i) == r.pc = "idle" \/ i > r.part \/ (i = r.part /\ r.pc \in Before)
Streaming(r) == r.pc \in {"stream", "fdata"}
Known(x, W) == x # <<>> /\ (x \in Native!Streams => W[x] = x)
ApartInv ==
  /\ wrote = [v \in Native!Streams |-> wrote[v]]
  /\ lost \subseteq raced
  /\ \A c \in Calls, i \in Native!Parts : Unopened(call[c], i) => wrote[<<c, i>>] = <<>>
  /\ \A c \in Calls : Streaming(call[c]) => wrote[Native!Here(c)] # <<>>
  /\ \A p \in Native!Paths : at[p].kind = "file" => Known(at[p].obj, wrote)
  /\ \A v \in Native!Streams : wrote[v] # <<>> => Known(wrote[v], wrote)
  /\ \A c \in Calls, v \in Native!Streams :
       Streaming(call[c]) /\ v # Native!Here(c) /\ wrote[v] = wrote[Native!Here(c)] => v \in raced

\* A step that opens nothing.
Onward(r, n) ==
  /\ Streaming(n) => Streaming(r) /\ n.part = r.part
  /\ \A i \in Native!Parts : Unopened(n, i) => Unopened(r, i)
Stays == \A p \in Native!Paths : at'[p].kind = "file" => \E q \in Native!Paths : at'[p] = at[q]

LEMMA HereIsOne ==
  ASSUME NativeInv, NEW c \in Calls
  PROVE  Native!Here(c) \in Native!Streams /\ Native!Here(c) = <<c, call[c].part>> /\ call[c].part \in Native!Parts
BY DEF NativeInv, NativeTyped, NativeCalls, Native!Here, Native!Streams

LEMMA ApartGoes ==
  ASSUME NativeInv, ApartInv, NEW c \in Calls, NEW new, call' = [call EXCEPT ![c] = new], Onward(call[c], new),
         UNCHANGED <<wrote, raced>>, lost' \subseteq raced, Stays
  PROVE  ApartInv'
<1>1. call'[c] = new /\ \A d \in Calls \ {c} : call'[d] = call[d]
  BY DEF NativeInv, NativeTyped
<1>2. ASSUME NEW d \in Calls
      PROVE  /\ Streaming(call'[d]) => Streaming(call[d]) /\ call'[d].part = call[d].part
             /\ \A i \in Native!Parts : Unopened(call'[d], i) => Unopened(call[d], i)
  <2>1. CASE d = c
    BY <1>1, <2>1 DEF Onward
  <2>2. CASE d # c
    BY <1>1, <2>2
  <2> QED BY <2>1, <2>2
<1>3. \A d \in Calls : Streaming(call'[d]) => Native!Here(d)' = Native!Here(d) /\ Streaming(call[d])
  BY <1>2 DEF Native!Here
<1>4. \A p \in Native!Paths : at'[p].kind = "file" => Known(at'[p].obj, wrote)
  BY DEF Stays, ApartInv
<1> QED BY <1>2, <1>3, <1>4 DEF ApartInv

LEMMA ApartRests ==
  ASSUME ApartInv, UNCHANGED <<call, at, wrote, lost, raced>> PROVE ApartInv'
<1>1. Native!Streams' = Native!Streams /\ Native!Parts' = Native!Parts /\ Native!Paths' = Native!Paths
  BY DEF Native!Streams, Native!Parts, Native!Paths
<1>2. \A c \in Calls : Native!Here(c)' = Native!Here(c)
  BY DEF Native!Here
<1> QED BY <1>1, <1>2 DEF ApartInv

\* A stream on a file of its own.
LEMMA ApartMakes ==
  ASSUME NativeInv, ApartInv, NEW c \in Calls, NEW new, call' = [call EXCEPT ![c] = new],
         Streaming(new), new.part = call[c].part, call[c].pc \in Before, UNCHANGED <<lost, raced>>,
         wrote' = [wrote EXCEPT ![Native!Here(c)] = Native!Here(c)],
         \A p \in Native!Paths : at'[p].kind = "file" => at'[p].obj = Native!Here(c) \/ \E q \in Native!Paths : at'[p] = at[q]
  PROVE  ApartInv'
<1>0. PICK h : h = Native!Here(c) /\ h \in Native!Streams /\ h = <<c, call[c].part>> /\ call[c].part \in Native!Parts
  BY HereIsOne
<1>1. call'[c] = new /\ \A d \in Calls \ {c} : call'[d] = call[d]
  BY DEF NativeInv, NativeTyped
<1>2. /\ wrote' = [v \in Native!Streams |-> wrote'[v]] /\ wrote'[h] = h
      /\ \A v \in Native!Streams \ {h} : wrote'[v] = wrote[v]
  BY <1>0 DEF ApartInv
<1>3. wrote[h] = <<>> /\ h # <<>>
  <2>1. Unopened(call[c], call[c].part)
    BY DEF Unopened
  <2>2. wrote[<<c, call[c].part>>] = <<>>
    BY <1>0, <2>1 DEF ApartInv
  <2>3. \A i : <<c, i>> # <<>>
    OBVIOUS
  <2> QED BY <1>0, <2>2, <2>3
<1>4. \A d \in Calls : Native!Here(d)' = Native!Here(d)
  BY <1>1 DEF Native!Here
<1>5. \A v \in Native!Streams : wrote[v] # h
  BY <1>0, <1>3 DEF ApartInv, Known
<1>6. \A x : Known(x, wrote) => Known(x, wrote')
  BY <1>2, <1>3 DEF Known
<1>7. \A p \in Native!Paths : at'[p].kind = "file" => Known(at'[p].obj, wrote')
  <2>1. Known(h, wrote')
    BY <1>2, <1>3 DEF Known
  <2> QED BY <1>0, <1>6, <2>1 DEF ApartInv
<1>8. \A v \in Native!Streams : wrote'[v] # <<>> => Known(wrote'[v], wrote')
  BY <1>2, <1>3, <1>6 DEF ApartInv, Known
<1>9. ASSUME NEW d \in Calls, NEW i \in Native!Parts, Unopened(call'[d], i) PROVE wrote'[<<d, i>>] = <<>>
  <2>1. <<d, i>> \in Native!Streams
    BY DEF Native!Streams
  <2>2. CASE d = c
    <3>1. i > call[c].part
      BY <1>1, <1>9, <2>2 DEF Unopened, Streaming, Before
    <3>2. i # call[c].part /\ Unopened(call[c], i)
      BY <1>0, <3>1 DEF Unopened, Native!Parts
    <3>3. wrote[<<d, i>>] = <<>> /\ <<d, i>> # h
      BY <1>0, <2>2, <3>2 DEF ApartInv
    <3> QED BY <1>2, <2>1, <3>3
  <2>3. CASE d # c
    BY <1>0, <1>1, <1>2, <1>9, <2>1, <2>3 DEF ApartInv
  <2> QED BY <2>2, <2>3
<1>10. \A d \in Calls : Streaming(call'[d]) => wrote'[Native!Here(d)] # <<>>
  BY <1>0, <1>1, <1>2, <1>3, HereIsOne DEF ApartInv
<1>11. ASSUME NEW d \in Calls, NEW v \in Native!Streams, Streaming(call'[d]), v # Native!Here(d), wrote'[v] = wrote'[Native!Here(d)]
       PROVE  v \in raced
  <2>1. CASE d = c
    BY <1>0, <1>2, <1>5, <1>11, <2>1
  <2>2. CASE d # c /\ v = h
    BY <1>0, <1>2, <1>5, <1>11, <2>2, HereIsOne
  <2>3. CASE d # c /\ v # h
    <3>1. Native!Here(d) # h /\ Native!Here(d) \in Native!Streams
      BY <1>0, <2>3, HereIsOne
    <3> QED BY <1>1, <1>2, <1>11, <2>3, <3>1 DEF ApartInv
  <2> QED BY <2>1, <2>2, <2>3
<1>12. lost' \subseteq raced'
  BY DEF ApartInv
<1> QED BY <1>2, <1>4, <1>7, <1>8, <1>9, <1>10, <1>11, <1>12 DEF ApartInv

\* A stream on a file that is there.
LEMMA ApartShares ==
  ASSUME NativeInv, ApartInv, NEW c \in Calls, NEW new, call' = [call EXCEPT ![c] = new],
         Streaming(new), new.part = call[c].part, call[c].pc \in Before, at' = at,
         NEW x, Known(x, wrote), wrote' = [wrote EXCEPT ![Native!Here(c)] = x],
         NEW others, others = Native!Others(Native!Here(c), x),
         lost' \subseteq lost \cup others,
         raced' = raced \cup others \cup {v \in {Native!Here(c)} : \E u \in others : Native!Writing(u)}
  PROVE  ApartInv'
<1>0. PICK h : h = Native!Here(c) /\ h \in Native!Streams /\ h = <<c, call[c].part>> /\ call[c].part \in Native!Parts
  BY HereIsOne
<1>1. call'[c] = new /\ \A d \in Calls \ {c} : call'[d] = call[d]
  BY DEF NativeInv, NativeTyped
<1>2. /\ wrote' = [v \in Native!Streams |-> wrote'[v]] /\ wrote'[h] = x
      /\ \A v \in Native!Streams \ {h} : wrote'[v] = wrote[v]
  BY <1>0 DEF ApartInv
<1>3. wrote[h] = <<>> /\ h # <<>> /\ x # <<>> /\ x # h
  <2>1. Unopened(call[c], call[c].part)
    BY DEF Unopened
  <2>2. wrote[<<c, call[c].part>>] = <<>>
    BY <1>0, <2>1 DEF ApartInv
  <2>3. \A i : <<c, i>> # <<>>
    OBVIOUS
  <2> QED BY <1>0, <2>2, <2>3 DEF Known
<1>4. \A d \in Calls : Native!Here(d)' = Native!Here(d)
  BY <1>1 DEF Native!Here
<1>5. \A v \in Native!Streams : v \in others <=> v # h /\ wrote[v] = x
  BY <1>0 DEF Native!Others
<1>6. \A y : Known(y, wrote) => Known(y, wrote')
  BY <1>2, <1>3 DEF Known
<1>7. \A p \in Native!Paths : at'[p].kind = "file" => Known(at'[p].obj, wrote')
  BY <1>6 DEF ApartInv
<1>8. \A v \in Native!Streams : wrote'[v] # <<>> => Known(wrote'[v], wrote')
  BY <1>2, <1>6 DEF ApartInv
<1>9. ASSUME NEW d \in Calls, NEW i \in Native!Parts, Unopened(call'[d], i) PROVE wrote'[<<d, i>>] = <<>>
  <2>1. <<d, i>> \in Native!Streams
    BY DEF Native!Streams
  <2>2. CASE d = c
    <3>1. i > call[c].part
      BY <1>1, <1>9, <2>2 DEF Unopened, Streaming, Before
    <3>2. i # call[c].part /\ Unopened(call[c], i)
      BY <1>0, <3>1 DEF Unopened, Native!Parts
    <3>3. wrote[<<d, i>>] = <<>> /\ <<d, i>> # h
      BY <1>0, <2>2, <3>2 DEF ApartInv
    <3> QED BY <1>2, <2>1, <3>3
  <2>3. CASE d # c
    BY <1>0, <1>1, <1>2, <1>9, <2>1, <2>3 DEF ApartInv
  <2> QED BY <2>2, <2>3
<1>10. \A d \in Calls : Streaming(call'[d]) => wrote'[Native!Here(d)] # <<>>
  BY <1>0, <1>1, <1>2, <1>3, HereIsOne DEF ApartInv
<1>11. ASSUME NEW d \in Calls, NEW v \in Native!Streams, Streaming(call'[d]), v # Native!Here(d), wrote'[v] = wrote'[Native!Here(d)]
       PROVE  v \in raced'
  <2>1. CASE d = c
    BY <1>0, <1>2, <1>5, <1>11, <2>1
  <2>2. CASE d # c /\ v = h
    <3>1. PICK u : u = Native!Here(d) /\ u \in Native!Streams /\ u = <<d, call[d].part>>
      BY HereIsOne
    <3>2. u # h /\ u \in others
      BY <1>0, <1>2, <1>5, <1>11, <2>2, <3>1
    <3>3. Native!Writing(u)
      <4>1. u[1] = d
        BY <3>1
      <4>2. call[d].pc \in {"stream", "fdata"}
        BY <1>1, <1>11, <2>2 DEF Streaming
      <4> QED BY <3>1, <4>1, <4>2 DEF Native!Writing
    <3> QED BY <1>0, <2>2, <3>2, <3>3
  <2>3. CASE d # c /\ v # h
    <3>1. Native!Here(d) # h /\ Native!Here(d) \in Native!Streams
      BY <1>0, <2>3, HereIsOne
    <3> QED BY <1>1, <1>2, <1>11, <2>3, <3>1 DEF ApartInv
  <2> QED BY <2>1, <2>2, <2>3
<1>12. lost' \subseteq raced'
  BY DEF ApartInv
<1> QED BY <1>2, <1>4, <1>7, <1>8, <1>9, <1>10, <1>11, <1>12 DEF ApartInv

LEMMA Stayings ==
  ASSUME NativeInv
  PROVE  /\ at' = at => Stays
         /\ \A p : at' = [at EXCEPT ![p] = Native!Free] => Stays
         /\ \A p, x : at' = [at EXCEPT ![p] = [kind |-> "dir", obj |-> x]] => Stays
         /\ \A p, q \in Native!Paths : at' = [at EXCEPT ![p] = at[q], ![q] = Native!Free] => Stays
<1>0. at = [p \in Native!Paths |-> at[p]] /\ Native!Free.kind # "file"
  BY DEF NativeInv, NativeTyped, Native!Free
<1>1. \A p : at' = [at EXCEPT ![p] = Native!Free] => Stays
  BY <1>0 DEF Stays
<1>2. ASSUME NEW p, NEW x, at' = [at EXCEPT ![p] = [kind |-> "dir", obj |-> x]] PROVE Stays
  <2>1. PICK e : e = [kind |-> "dir", obj |-> x]
    OBVIOUS
  <2>2. e.kind # "file"
    BY <2>1
  <2> QED BY <1>0, <1>2, <2>1, <2>2 DEF Stays
<1>3. ASSUME NEW p \in Native!Paths, NEW q \in Native!Paths, at' = [at EXCEPT ![p] = at[q], ![q] = Native!Free] PROVE Stays
  <2>1. \A r \in Native!Paths : at'[r] = at[r] \/ at'[r] = at[q] \/ at'[r] = Native!Free
    BY <1>0, <1>3
  <2> QED BY <1>0, <2>1 DEF Stays
<1> QED BY <1>1, <1>2, <1>3 DEF Stays

LEMMA ApartNew ==
  ASSUME NativeInv, ApartInv, NEW c \in Calls, NEW new, Native!Goes(c, new), new.part = call[c].part, new.pc # "idle",
         new.pc \notin Before \/ call[c].pc \in Before, ~Streaming(new) \/ Streaming(call[c]),
         UNCHANGED <<wrote, raced>>, lost' \subseteq raced, Stays
  PROVE  ApartInv'
<1>1. Onward(call[c], new)
  BY DEF Onward, Unopened
<1>2. call' = [call EXCEPT ![c] = new]
  BY DEF Native!Goes
<1> QED BY <1>1, <1>2, ApartGoes

LEMMA ApartTo ==
  ASSUME Native!Inputs, NativeInv, ApartInv, NEW c \in Calls, NEW s \in Native!Steps \ {"stream", "fdata"}, Native!Goes(c, Native!To(c, s)),
         s \notin Before \/ call[c].pc \in Before, UNCHANGED Native!Files, Stays
  PROVE  ApartInv'
<1>1. PICK new : new = Native!To(c, s) /\ new.pc = s /\ new.part = call[c].part
  BY NativeRecs DEF NativeInv, NativeTyped
<1>2. s # "idle" /\ UNCHANGED <<wrote, raced>> /\ lost' \subseteq raced
  BY DEF Native!Steps, Native!FormSteps, Native!Files, ApartInv
<1> QED BY <1>1, <1>2, ApartNew DEF Streaming

LEMMA ApartEnds ==
  ASSUME Native!Inputs, NativeInv, ApartInv, NEW c \in Calls, NEW a \in {"placed", "skipped", "error"}, Native!Ends(c, a),
         UNCHANGED <<wrote, raced>>, lost' \subseteq raced, Stays
  PROVE  ApartInv'
<1>1. PICK new : new = Native!Done(c, a) /\ new.pc = "done" /\ new.part = call[c].part
  BY NativeRecs DEF NativeInv, NativeTyped
<1> QED BY <1>1, ApartNew DEF Native!Ends, Before, Streaming

LEMMA ApartStarts ==
  ASSUME Native!Inputs, NativeInv, ApartInv, NEW c \in Calls, NEW o \in Ops, Native!Ask(c, o)
  PROVE  ApartInv'
<1>1. call[c].pc = "idle" /\ UNCHANGED <<at, wrote, lost, raced>>
  BY DEF Native!Ask, Native!MKDIRS, Native!MVDIRS, Native!NEWFILE, Native!CPFILE, Native!MVFILE, Native!DELETE, Native!GET,
         Native!POSTFORM, Native!PATCH, Native!Starts, Native!Disk, Native!Files
<1>2. ASSUME NEW pc \in {"make", "peek", "remove", "target", "part", "stat"}, NEW kind, Native!Starts(c, o, pc, kind)
      PROVE  \E new : call' = [call EXCEPT ![c] = new] /\ new.pc \in {pc, "done"}
  <2>1. CASE drives
    <3>1. PICK new : new = [Native!NoCall EXCEPT !.pc = pc, !.op = o, !.kind = kind]
      OBVIOUS
    <3>2. new.pc = pc
      BY <3>1 DEF Native!NoCall
    <3>3. call' = [call EXCEPT ![c] = new]
      BY <1>2, <2>1, <3>1 DEF Native!Starts
    <3> QED BY <3>2, <3>3
  <2>2. CASE ~drives
    <3>1. PICK new : new = [Native!NoCall EXCEPT !.pc = "done", !.op = o, !.answer = "error"]
      OBVIOUS
    <3>2. new.pc = "done"
      BY <3>1 DEF Native!NoCall
    <3>3. call' = [call EXCEPT ![c] = new]
      BY <1>2, <2>2, <3>1 DEF Native!Starts
    <3> QED BY <3>2, <3>3
  <2> QED BY <2>1, <2>2
<1>3. \E new : call' = [call EXCEPT ![c] = new] /\ ~Streaming(new)
  <2>1. ASSUME NEW pc \in {"make", "peek", "remove", "target", "part", "stat"}, NEW kind, Native!Starts(c, o, pc, kind)
        PROVE  \E new : call' = [call EXCEPT ![c] = new] /\ ~Streaming(new)
    BY <1>2, <2>1 DEF Streaming
  <2>2. CASE Native!PATCH(c, o)
    <3>1. CASE \E pc \in {"stat"}, kind \in {"none"} : Native!Starts(c, o, pc, kind)
      BY <2>1, <3>1
    <3>2. CASE call' = [call EXCEPT ![c] = [Native!NoCall EXCEPT !.pc = "done", !.op = o, !.answer = "error"]]
      <4>1. PICK new : new = [Native!NoCall EXCEPT !.pc = "done", !.op = o, !.answer = "error"]
        OBVIOUS
      <4>2. new.pc = "done"
        BY <4>1 DEF Native!NoCall
      <4> QED BY <3>2, <4>1, <4>2 DEF Streaming
    <3> QED BY <2>2, <3>1, <3>2 DEF Native!PATCH
  <2>3. CASE Native!POSTFORM(c, o)
    <3>1. PICK pc \in {"target", "part"} : Native!Starts(c, o, pc, "none")
      BY <2>3 DEF Native!POSTFORM
    <3> QED BY <2>1, <3>1
  <2> QED BY <2>1, <2>2, <2>3 DEF Native!Ask, Native!MKDIRS, Native!MVDIRS, Native!NEWFILE, Native!CPFILE, Native!MVFILE, Native!DELETE, Native!GET
<1>4. PICK new : call' = [call EXCEPT ![c] = new] /\ ~Streaming(new)
  BY <1>3
<1>5. Onward(call[c], new)
  BY <1>1, <1>4 DEF Onward, Unopened
<1>6. Stays /\ lost' \subseteq raced
  BY <1>1 DEF Stays, ApartInv
<1> QED BY <1>1, <1>4, <1>5, <1>6, ApartGoes

LEMMA ApartNames ==
  ASSUME Native!Inputs, NativeInv, ApartInv, NEW c \in Calls,
         \/ Native!Stat(c) \/ Native!Made(c) \/ Native!Peek(c) \/ Native!Look(c) \/ Native!Clear(c) \/ Native!List(c)
         \/ Native!Mv(c) \/ Native!MvFault(c) \/ Native!Delete(c) \/ Native!GetTarget(c) \/ Native!ReadDir(c)
         \/ \E n \in Names : Native!Lstats(c, n)
  PROVE  ApartInv'
<1>p. PICK x \in NativeCalls : x = call[c] /\ Asking(x)
  BY DEF NativeInv, NativeTyped
<1>0. UNCHANGED Native!Files /\ UNCHANGED <<wrote, raced>> /\ lost' \subseteq raced
  BY DEF Native!Stat, Native!Made, Native!Peek, Native!Look, Native!Clear, Native!List, Native!Mv, Native!MvFault, Native!Delete,
         Native!GetTarget, Native!ReadDir, Native!Lstats, Native!Disk, Native!Files, ApartInv
<1>e. ASSUME NEW a \in {"placed", "skipped", "error"}, Native!Ends(c, a), Stays PROVE ApartInv'
  BY <1>0, <1>e, ApartEnds
<1>t. ASSUME NEW s \in {"peek", "look", "clear", "list", "mv", "make", "readdir"}, Native!Goes(c, Native!To(c, s)), Stays,
             s \notin Before \/ x.pc \in Before
      PROVE  ApartInv'
  BY <1>0, <1>p, <1>t, ApartTo DEF Native!Steps
<1>n. ASSUME NEW new, Native!Goes(c, new), new.part = x.part, new.pc \in Native!Steps \cup {"done"}, new.pc \notin {"stream", "fdata"}, Stays,
             new.pc \notin Before \/ x.pc \in Before
      PROVE  ApartInv'
  <2>1. new.pc # "idle"
    BY <1>n DEF Native!Steps, Native!FormSteps
  <2> QED BY <1>0, <1>n, <1>p, <2>1, ApartNew DEF Streaming
<1>1. CASE Native!Made(c) \/ Native!GetTarget(c)
  <2>1. Stays
    BY <1>1, Stayings DEF Native!Made, Native!GetTarget, Native!Disk
  <2>2. Native!Ends(c, "error") \/ Native!Ends(c, "placed") \/ Native!Goes(c, Native!To(c, "readdir"))
    BY <1>1 DEF Native!Made, Native!GetTarget
  <2> QED BY <1>e, <1>t, <2>1, <2>2 DEF Before
<1>2. CASE Native!Stat(c)
  <2>1. Stays /\ x.pc = "stat"
    BY <1>2, <1>p, Stayings DEF Native!Stat, Native!Disk
  <2>2. CASE Native!Goes(c, [Native!To(c, "peek") EXCEPT !.kind = at[call[c].op.from].kind])
    <3>1. PICK new, k : new = [x EXCEPT !.pc = "peek", !.kind = k] /\ k = at[x.op.from].kind
      OBVIOUS
    <3>2. new.pc = "peek" /\ new.part = x.part /\ Native!Goes(c, new)
      BY <1>p, <2>2, <3>1 DEF NativeCalls, Native!To
    <3> QED BY <1>n, <2>1, <3>2 DEF Before, Native!Steps
  <2> QED BY <1>2, <1>e, <2>1, <2>2 DEF Native!Stat
<1>3. CASE Native!Peek(c) \/ Native!Look(c)
  <2>1. Stays /\ x.pc \in Before
    BY <1>3, <1>p, Stayings DEF Native!Peek, Native!Look, Native!Disk, Before
  <2>2. CASE Native!Peek(c)
    BY <1>t, <2>1, <2>2 DEF Native!Peek
  <2>3. CASE Native!Look(c)
    <3>1. PICK e, policy : e = at[call[c].name] /\ policy = Native!Policy(call[c].op, call[c].kind, e)
      OBVIOUS
    <3>2. policy \in Native!Policies
      BY <1>p, <2>3, <3>1 DEF Native!Policy, Native!Look, Asking, Native!Steps
    <3>3. \/ Native!Ends(c, "error") \/ Native!Ends(c, "skipped")
          \/ Native!Goes(c, Native!To(c, "clear")) \/ Native!Goes(c, Native!To(c, "list"))
      <4>1. CASE e = Native!Free \/ policy = "none"
        BY <2>3, <3>1, <4>1 DEF Native!Look
      <4>2. CASE e # Native!Free /\ policy = "skip"
        BY <2>3, <3>1, <4>2 DEF Native!Look
      <4>3. CASE e # Native!Free /\ policy = "replace"
        BY <2>3, <3>1, <4>3 DEF Native!Look
      <4>4. CASE e # Native!Free /\ policy = "rename"
        BY <2>3, <3>1, <4>4 DEF Native!Look
      <4> QED BY <3>2, <4>1, <4>2, <4>3, <4>4 DEF Native!Policies
    <3> QED BY <1>e, <1>t, <2>1, <3>3
  <2> QED BY <1>3, <2>2, <2>3
<1>4. CASE Native!Clear(c)
  <2>1. Stays /\ x.pc = "clear"
    BY <1>4, <1>p, Stayings DEF Native!Clear
  <2>2. PICK s \in {"mv", "make"} : s = Native!After(c)
    BY DEF Native!After
  <2>3. PICK new : new = [x EXCEPT !.pc = s, !.cleared = TRUE]
    OBVIOUS
  <2>4. new.pc = s /\ new.part = x.part /\ Native!Goes(c, new)
    BY <1>4, <1>p, <2>2, <2>3 DEF Native!Clear, NativeCalls, Native!To
  <2> QED BY <1>n, <2>1, <2>4 DEF Before, Native!Steps
<1>5. CASE Native!List(c)
  <2>1. Stays /\ x.pc = "list"
    BY <1>5, <1>p, Stayings DEF Native!List, Native!Disk
  <2>2. PICK s \in {"mv", "make"} : s = Native!After(c)
    BY DEF Native!After
  <2>3. PICK y : y = [x EXCEPT !.pc = s] /\ y.part = x.part /\ y.pc = s /\ y = Native!To(c, s)
    BY <1>p DEF NativeCalls, Native!To
  <2>4. PICK new : new = [y EXCEPT !.name = Native!AutoName(@, Native!Listing)]
    OBVIOUS
  <2>5. new.pc = s /\ new.part = x.part
    BY <1>p, <2>3, <2>4 DEF NativeCalls
  <2>6. Native!Goes(c, new)
    BY <1>5, <2>2, <2>3, <2>4 DEF Native!List
  <2> QED BY <1>n, <2>1, <2>5, <2>6 DEF Before, Native!Steps
<1>6. CASE Native!Mv(c) \/ Native!MvFault(c)
  <2>1. x.op.from \in Native!Paths /\ x.name \in Native!Paths
    <3>1. x.op.from \in Sources
      BY <1>6, <1>p DEF Native!Mv, Native!MvFault, Asking, Native!Inputs, Movers, Native!Steps, Native!FormSteps
    <3> QED BY <1>p, <3>1, NativeSizes DEF NativeCalls
  <2>2. \/ at' = at /\ Native!RenameFails(c)
        \/ at' = [at EXCEPT ![x.name] = at[x.op.from], ![x.op.from] = Native!Free] /\ Native!Ends(c, "placed")
    BY <1>6, <1>p DEF Native!Mv, Native!MvFault, Native!Disk
  <2>3. Stays
    BY <2>1, <2>2, Stayings
  <2>4. CASE Native!Ends(c, "placed") \/ Native!Ends(c, "error")
    BY <1>e, <2>3, <2>4
  <2>5. CASE UNCHANGED call /\ at' = at
    BY <1>0, <2>5, ApartRests DEF Native!Files
  <2> QED BY <2>2, <2>4, <2>5 DEF Native!RenameFails
<1>7. CASE Native!Delete(c)
  BY <1>7, <1>e, Stayings DEF Native!Delete
<1>8. CASE Native!ReadDir(c)
  <2>1. Stays
    BY <1>8, Stayings DEF Native!ReadDir, Native!Disk
  <2>2. CASE Native!Goes(c, [Native!To(c, "lstats") EXCEPT !.left = Native!Listing])
    <3>1. PICK new : new = [x EXCEPT !.pc = "lstats", !.left = Native!Listing]
      OBVIOUS
    <3>2. new.pc = "lstats" /\ new.part = x.part /\ Native!Goes(c, new)
      BY <1>p, <2>2, <3>1 DEF NativeCalls, Native!To
    <3> QED BY <1>n, <2>1, <3>2 DEF Before, Native!Steps
  <2> QED BY <1>8, <1>e, <2>1, <2>2 DEF Native!ReadDir
<1>9. CASE \E n \in Names : Native!Lstats(c, n)
  <2>0. PICK n \in Names : Native!Lstats(c, n)
    BY <1>9
  <2>1. Stays /\ x.pc = "lstats"
    BY <1>p, <2>0, Stayings DEF Native!Lstats, Native!Disk
  <2>2. PICK found : found = IF at[n] = Native!Free THEN x.found ELSE x.found \cup {n}
    OBVIOUS
  <2>3. CASE Native!Goes(c, [Native!Done(c, "placed") EXCEPT !.found = found])
    <3>1. PICK y \in NativeCalls : y = Native!Done(c, "placed") /\ y.pc = "done" /\ y.part = x.part
      BY <1>p, NativeRecs DEF NativeInv, NativeTyped
    <3>2. PICK new : new = [y EXCEPT !.found = found]
      OBVIOUS
    <3>3. new.pc = "done" /\ new.part = x.part /\ Native!Goes(c, new)
      BY <2>3, <3>1, <3>2 DEF NativeCalls
    <3> QED BY <1>n, <2>1, <3>3 DEF Before
  <2>4. CASE Native!Goes(c, [x EXCEPT !.left = @ \ {n}, !.found = found])
    <3>1. PICK new : new = [x EXCEPT !.left = @ \ {n}, !.found = found]
      OBVIOUS
    <3>2. new.pc = "lstats" /\ new.part = x.part /\ Native!Goes(c, new)
      BY <1>p, <2>1, <2>4, <3>1 DEF NativeCalls
    <3> QED BY <1>n, <2>1, <3>2 DEF Before, Native!Steps
  <2> QED BY <1>p, <2>0, <2>2, <2>3, <2>4 DEF Native!Lstats
<1> QED BY <1>1, <1>2, <1>3, <1>4, <1>5, <1>6, <1>7, <1>8, <1>9

\* A stream that writes: over those that share its file.
LEMMA ApartWrites ==
  ASSUME NativeInv, ApartInv, NEW c \in Calls, Native!Writes(Native!Here(c)), Streaming(call[c])
  PROVE  UNCHANGED <<wrote, raced>> /\ lost' \subseteq raced
<1>1. \A u \in Native!Others(Native!Here(c), wrote[Native!Here(c)]) : u \in raced
  BY DEF Native!Others, ApartInv
<1> QED BY <1>1 DEF Native!Writes, ApartInv

LEMMA ApartStreams ==
  ASSUME Native!Inputs, NativeInv, ApartInv, NEW c \in Calls, Native!Create(c) \/ Native!Stream(c)
  PROVE  ApartInv'
<1>p. PICK x \in NativeCalls : x = call[c] /\ Asking(x)
  BY DEF NativeInv, NativeTyped
<1>1. CASE Native!Stream(c)
  <2>1. Streaming(x) /\ Native!Writes(Native!Here(c)) /\ Stays
    BY <1>1, <1>p, Stayings DEF Native!Stream, Streaming
  <2>2. UNCHANGED <<wrote, raced>> /\ lost' \subseteq raced
    BY <1>p, <2>1, ApartWrites
  <2>3. CASE Native!Ends(c, "placed")
    BY <2>1, <2>2, <2>3, ApartEnds
  <2>4. CASE Native!Goes(c, call[c])
    <3>1. call[c].pc # "idle"
      BY <1>p, <2>1 DEF Streaming
    <3> QED BY <1>p, <2>1, <2>2, <2>4, <3>1, ApartNew DEF Streaming, Before
  <2> QED BY <1>1, <2>3, <2>4 DEF Native!Stream
<1>2. CASE Native!Create(c)
  <2>0. x.pc = "make" /\ x.kind \in {"file", "dir"}
    BY <1>2, <1>p DEF Native!Create, Asking, Makers, Native!Steps, Native!FormSteps
  <2>1. CASE at[x.name] # Native!Free
    <3>1. Native!Goes(c, Native!To(c, "look")) /\ UNCHANGED Native!Files /\ Stays
      BY <1>2, <1>p, <2>1, Stayings DEF Native!Create, Native!Disk
    <3>2. "look" \in Native!Steps \ {"stream", "fdata"}
      BY DEF Native!Steps
    <3> QED BY <1>p, <2>0, <3>1, <3>2, ApartTo DEF Before
  <2>2. CASE at[x.name] = Native!Free /\ x.kind = "dir"
    <3>1. Native!Goes(c, Native!To(c, "made")) /\ UNCHANGED Native!Files
          /\ at' = [at EXCEPT ![x.name] = [kind |-> "dir", obj |-> Native!Here(c)]]
      BY <1>2, <1>p, <2>2 DEF Native!Create, Native!Files, Native!Make
    <3>2. "made" \in Native!Steps \ {"stream", "fdata"} /\ Stays
      BY <3>1, Stayings DEF Native!Steps
    <3> QED BY <3>1, <3>2, ApartTo DEF Before
  <2>3. CASE at[x.name] = Native!Free /\ x.kind = "file"
    <3>1. Native!Goes(c, Native!To(c, "stream")) /\ UNCHANGED <<lost, raced>>
          /\ wrote' = [wrote EXCEPT ![Native!Here(c)] = Native!Here(c)]
          /\ at' = [at EXCEPT ![x.name] = [kind |-> "file", obj |-> Native!Here(c)]]
      BY <1>2, <1>p, <2>3 DEF Native!Create, Native!Opens, Native!Make
    <3>2. PICK new : new = Native!To(c, "stream") /\ new.pc = "stream" /\ new.part = call[c].part
      BY NativeRecs DEF NativeInv, NativeTyped, Native!Steps
    <3>3. call' = [call EXCEPT ![c] = new] /\ Streaming(new)
      BY <3>1, <3>2 DEF Native!Goes, Streaming
    <3>4. PICK e : e = [kind |-> "file", obj |-> Native!Here(c)]
      OBVIOUS
    <3>5. e.obj = Native!Here(c) /\ at' = [at EXCEPT ![x.name] = e] /\ at = [p \in Native!Paths |-> at[p]]
      BY <3>1, <3>4 DEF NativeInv, NativeTyped
    <3>6. \A p \in Native!Paths : at'[p].kind = "file" => at'[p].obj = Native!Here(c) \/ \E q \in Native!Paths : at'[p] = at[q]
      BY <3>5
    <3> QED BY <1>p, <2>0, <3>1, <3>2, <3>3, <3>6, ApartMakes DEF Before
  <2> QED BY <2>0, <2>1, <2>2, <2>3
<1> QED BY <1>1, <1>2

LEMMA ApartFiles ==
  ASSUME Native!Inputs, NativeInv, ApartInv, NEW c \in Calls, Native!FileLstat(c) \/ Native!FileOpen(c) \/ Native!FileData(c)
  PROVE  ApartInv'
<1>p. PICK x \in NativeCalls : x = call[c]
  BY DEF NativeInv, NativeTyped
<1>1. CASE Native!FileLstat(c)
  <2>1. x.pc = "flstat" /\ Stays /\ UNCHANGED Native!Files
    BY <1>1, <1>p, Stayings DEF Native!FileLstat, Native!Disk
  <2>2. CASE Native!Goes(c, Native!To(c, "fopen"))
    <3>1. "fopen" \in Native!Steps \ {"stream", "fdata"}
      BY DEF Native!Steps, Native!FormSteps
    <3> QED BY <1>p, <2>1, <2>2, <3>1, ApartTo DEF Before
  <2>3. CASE Native!Ends(c, "error")
    BY <2>1, <2>3, ApartEnds DEF Native!Files, ApartInv
  <2> QED BY <1>1, <2>2, <2>3 DEF Native!FileLstat, Native!FormError
<1>2. CASE Native!FileData(c)
  <2>1. Streaming(x) /\ Native!Writes(Native!Here(c)) /\ Stays /\ x.pc = "fdata"
    BY <1>2, <1>p, Stayings DEF Native!FileData, Streaming
  <2>2. UNCHANGED <<wrote, raced>> /\ lost' \subseteq raced
    BY <1>p, <2>1, ApartWrites
  <2>3. PICK new : Native!Goes(c, new) /\ new \in {x, Native!To(c, "part")}
    BY <1>2, <1>p DEF Native!FileData
  <2>4. Native!To(c, "part").pc = "part" /\ Native!To(c, "part").part = call[c].part
    BY NativeRecs DEF NativeInv, NativeTyped, Native!Steps, Native!FormSteps
  <2>5. new.pc \in {"part", "fdata"} /\ new.part = call[c].part
    BY <1>p, <2>1, <2>3, <2>4
  <2> QED BY <1>p, <2>1, <2>2, <2>3, <2>5, ApartNew DEF Streaming, Before
<1>3. CASE Native!FileOpen(c)
  <2>0. PICK e : e = at[x.name]
    OBVIOUS
  <2>1. x.pc = "fopen" /\ x.name \in Native!Paths
    BY <1>3, <1>p, NativeSizes DEF Native!FileOpen, NativeCalls
  <2>2. PICK new : new = Native!To(c, "fdata") /\ new.pc = "fdata" /\ new.part = call[c].part
    BY NativeRecs DEF NativeInv, NativeTyped, Native!Steps, Native!FormSteps
  <2>3. CASE e.kind = "dir" /\ Native!FormError(c) /\ UNCHANGED Native!Disk
    BY <2>3, ApartEnds, Stayings DEF Native!FormError, Native!Disk, Native!Files, ApartInv
  <2>4. CASE /\ e.kind = "none" /\ Native!Make(x.name, "file", Native!Here(c)) /\ Native!Opens(c, Native!Here(c))
             /\ Native!Goes(c, Native!To(c, "fdata")) /\ UNCHANGED <<lost, raced>>
    <3>1. PICK f : f = [kind |-> "file", obj |-> Native!Here(c)]
      OBVIOUS
    <3>2. f.obj = Native!Here(c) /\ at' = [at EXCEPT ![x.name] = f] /\ at = [p \in Native!Paths |-> at[p]]
      BY <2>4, <3>1 DEF NativeInv, NativeTyped, Native!Make
    <3>3. \A p \in Native!Paths : at'[p].kind = "file" => at'[p].obj = Native!Here(c) \/ \E q \in Native!Paths : at'[p] = at[q]
      BY <3>2
    <3>4. call' = [call EXCEPT ![c] = new] /\ Streaming(new) /\ call[c].pc \in Before
          /\ wrote' = [wrote EXCEPT ![Native!Here(c)] = Native!Here(c)]
      BY <1>p, <2>1, <2>2, <2>4 DEF Native!Goes, Native!Opens, Streaming, Before
    <3> QED BY <2>2, <2>4, <3>3, <3>4, ApartMakes
  <2>5. CASE /\ e.kind = "file" /\ Native!Opens(c, e.obj) /\ Native!Goes(c, Native!To(c, "fdata")) /\ UNCHANGED at
             /\ lost' = lost \cup {v \in Native!Others(Native!Here(c), e.obj) : size[v] > 0}
             /\ raced' = raced \cup Native!Others(Native!Here(c), e.obj)
                  \cup {v \in {Native!Here(c)} : \E u \in Native!Others(Native!Here(c), e.obj) : Native!Writing(u)}
    <3>1. PICK others : others = Native!Others(Native!Here(c), e.obj)
      OBVIOUS
    <3>2. lost' \subseteq lost \cup others
          /\ raced' = raced \cup others \cup {v \in {Native!Here(c)} : \E u \in others : Native!Writing(u)}
      BY <2>5, <3>1
    <3>3. Known(e.obj, wrote)
      BY <2>0, <2>1, <2>5 DEF ApartInv
    <3>4. call' = [call EXCEPT ![c] = new] /\ Streaming(new) /\ call[c].pc \in Before
          /\ wrote' = [wrote EXCEPT ![Native!Here(c)] = e.obj] /\ at' = at
      BY <1>p, <2>1, <2>2, <2>5 DEF Native!Goes, Native!Opens, Streaming, Before
    <3> QED BY <2>2, <3>1, <3>2, <3>3, <3>4, ApartShares
  <2> QED BY <1>3, <1>p, <2>0, <2>3, <2>4, <2>5 DEF Native!FileOpen
<1> QED BY <1>1, <1>2, <1>3

LEMMA ApartForms ==
  ASSUME Native!Inputs, NativeInv, ApartInv, NEW c \in Calls,
         \/ Native!FormTarget(c) \/ Native!Prelude(c) \/ Native!DirLstat(c) \/ Native!Mkdirp(c) \/ Native!Rimraf(c)
         \/ Native!Stops(c) \/ Native!Write(c)
  PROVE  ApartInv'
<1>p. PICK x \in NativeCalls : x = call[c] /\ Asking(x) /\ Parting(x)
  BY DEF NativeInv, NativeTyped
<1>0. UNCHANGED Native!Files /\ UNCHANGED <<wrote, raced>> /\ lost' \subseteq raced
  BY DEF Native!FormTarget, Native!Prelude, Native!DirLstat, Native!Mkdirp, Native!Rimraf, Native!Stops, Native!Write,
         Native!Disk, Native!Files, ApartInv
<1>a. x.name \in Native!Paths
  BY NativeSizes DEF NativeCalls
<1>f. PICK e : e = at[x.name] /\ e.kind \in {"none", "file", "dir"} /\ (e = Native!Free <=> e.kind = "none")
  BY <1>a DEF NativeInv, NativeTyped, Native!Free
<1>s. Stays
  <2>1. CASE Native!Mkdirp(c)
    <3>1. at' = at \/ at' = [at EXCEPT ![x.name] = [kind |-> "dir", obj |-> Native!Here(c)]]
      <4>1. CASE e.kind = "none"
        BY <1>p, <1>f, <2>1, <4>1 DEF Native!Mkdirp, Native!Make
      <4>2. CASE e.kind = "dir"
        BY <1>p, <1>f, <2>1, <4>2 DEF Native!Mkdirp
      <4>3. CASE e.kind = "file"
        BY <1>p, <1>f, <2>1, <4>3 DEF Native!Mkdirp
      <4> QED BY <1>f, <4>1, <4>2, <4>3
    <3> QED BY <3>1, Stayings
  <2>2. CASE ~Native!Mkdirp(c)
    BY <2>2, Stayings DEF Native!FormTarget, Native!Prelude, Native!DirLstat, Native!Rimraf, Native!Stops, Native!Write, Native!Disk
  <2> QED BY <2>1, <2>2
<1>e. ASSUME NEW a \in {"placed", "error"}, Native!Ends(c, a) PROVE ApartInv'
  BY <1>0, <1>e, <1>s, ApartEnds
<1>t. ASSUME NEW s \in {"part", "target", "mkdirp"}, Native!Goes(c, Native!To(c, s)) PROVE ApartInv'
  <2>1. s \in Native!Steps \ {"stream", "fdata"} /\ s \notin Before
    BY DEF Native!Steps, Native!FormSteps, Before
  <2> QED BY <1>0, <1>s, <1>t, <2>1, ApartTo
<1>1. CASE Native!FormTarget(c) \/ Native!Prelude(c) \/ Native!Rimraf(c) \/ Native!Stops(c)
  BY <1>1, <1>e, <1>t DEF Native!FormTarget, Native!Prelude, Native!Rimraf, Native!Stops, Native!FormError
<1>2. CASE Native!DirLstat(c)
  <2>1. CASE e.kind = "none"
    BY <1>p, <1>f, <1>t, <1>2, <2>1 DEF Native!DirLstat
  <2>2. CASE e.kind = "dir"
    BY <1>p, <1>f, <1>t, <1>2, <2>2 DEF Native!DirLstat
  <2>3. CASE e.kind = "file"
    BY <1>p, <1>f, <1>e, <1>2, <2>3 DEF Native!DirLstat, Native!FormError
  <2> QED BY <1>f, <2>1, <2>2, <2>3
<1>3. CASE Native!Mkdirp(c)
  <2>1. CASE e.kind = "none"
    BY <1>p, <1>f, <1>t, <1>3, <2>1 DEF Native!Mkdirp
  <2>2. CASE e.kind = "dir"
    BY <1>p, <1>f, <1>t, <1>3, <2>2 DEF Native!Mkdirp
  <2>3. CASE e.kind = "file"
    BY <1>p, <1>f, <1>e, <1>3, <2>3 DEF Native!Mkdirp, Native!FormError
  <2> QED BY <1>f, <2>1, <2>2, <2>3
<1>4. CASE Native!Write(c)
  <2>0. x.pc = "part" /\ Native!Goes(c, Native!Next1(c)) /\ x.op.api = "POSTFORM" /\ x.op \in Ops /\ x.part \in Nat
    BY <1>4, <1>p DEF Native!Write, Asking, Native!FormSteps, Native!Steps, NativeCalls, Native!Parts
  <2>1. CASE Native!Next1(c) = Native!Done(c, "placed") \/ Native!Next1(c) = Native!Done(c, "error")
    BY <1>e, <2>0, <2>1 DEF Native!Ends
  <2>2. CASE x.part # Len(x.op.parts) /\ Native!Expected(c, x.part + 1)
    <3>1. PICK i, s, d, n : i = x.part + 1 /\ d = Native!Part(c, i).do /\ s = Native!PartStep(d) /\ n = Native!Part(c, i).name
      OBVIOUS
    <3>2. PICK new : new = [x EXCEPT !.part = i, !.name = n, !.pc = s]
      OBVIOUS
    <3>3. new.part = i /\ new.pc = s
      BY <1>p, <3>2 DEF NativeCalls
    <3>4. Native!Goes(c, new)
      BY <1>p, <2>0, <2>2, <3>1, <3>2 DEF Native!Next1
    <3>5. d \in {"prelude", "file", "directory", "remove"}
      <4>1. i \in 1 .. Len(x.op.parts)
        <5>1. x.part \in Nat /\ x.part <= Len(x.op.parts) /\ Len(x.op.parts) \in Nat
          BY <1>p, <2>0, FormParts DEF Parting
        <5> QED BY <2>2, <3>1, <5>1
      <4> QED BY <1>p, <2>0, <3>1, <4>1, FormParts DEF Native!Part
    <3>6. s \in {"prelude", "flstat", "dlstat", "rimraf"}
      BY <3>1, <3>5 DEF Native!PartStep
    <3>7. Onward(x, new)
      <4>1. ~Streaming(new) /\ new.pc # "idle"
        BY <3>3, <3>6 DEF Streaming
      <4>2. ASSUME NEW j \in Native!Parts, Unopened(new, j) PROVE j > x.part
        BY <2>0, <3>1, <3>3, <4>1, <4>2 DEF Unopened, Native!Parts
      <4> QED BY <4>1, <4>2 DEF Onward, Unopened
    <3> QED BY <1>0, <1>p, <1>s, <3>4, <3>7, ApartGoes DEF Native!Goes
  <2> QED BY <1>p, <2>1, <2>2 DEF Native!Next1
<1> QED BY <1>1, <1>2, <1>3, <1>4

LEMMA ApartFaults ==
  ASSUME Native!Inputs, NativeInv, ApartInv, NEW c \in Calls, Native!StreamFails(c) \/ Native!BreaksOff(c) \/ Native!Fault(c)
  PROVE  ApartInv'
<1>1. UNCHANGED <<at, wrote, lost, raced>>
  BY DEF Native!StreamFails, Native!BreaksOff, Native!Fault, Native!Disk, Native!Files
<1>2. Stays /\ lost' \subseteq raced
  BY <1>1, Stayings DEF ApartInv
<1>3. CASE Native!Ends(c, "error")
  BY <1>1, <1>2, <1>3, ApartEnds
<1>4. CASE UNCHANGED call
  BY <1>1, <1>4, ApartRests
<1>5. CASE Native!BreaksOff(c) /\ Native!Goes(c, [call[c] EXCEPT !.answer = "error"])
  <2>1. PICK x \in NativeCalls : x = call[c]
    BY DEF NativeInv, NativeTyped
  <2>2. PICK new : new = [x EXCEPT !.answer = "error"]
    OBVIOUS
  <2>3. new.pc = x.pc /\ new.part = x.part
    BY <2>2 DEF NativeCalls
  <2>4. Onward(x, new) /\ call' = [call EXCEPT ![c] = new]
    BY <1>5, <2>1, <2>2, <2>3 DEF Onward, Unopened, Streaming, Native!Goes
  <2> QED BY <1>1, <1>2, <2>1, <2>4, ApartGoes
<1> QED BY <1>3, <1>4, <1>5 DEF Native!StreamFails, Native!BreaksOff, Native!Fault

LEMMA ApartBegins == Native!Inputs /\ Native!Init => ApartInv
<1> SUFFICES ASSUME Native!Inputs, Native!Init PROVE ApartInv
  OBVIOUS
<1>1. wrote = [v \in Native!Streams |-> <<>>] /\ lost = {} /\ raced = {} /\ call = [c \in Calls |-> Native!NoCall]
  BY DEF Native!Init
<1>2. \A c \in Calls : call[c].pc = "idle"
  BY <1>1 DEF Native!NoCall
<1>3. \A p \in Native!Paths : at[p].kind = "file" => Known(at[p].obj, wrote)
  <2>1. Native!Free.kind # "file"
    BY DEF Native!Free
  <2>2. \A p \in Native!Paths : at[p] = Native!Free \/ at[p].obj \notin Native!Streams \cup {<<>>}
    BY DEF Native!Init, Native!Inputs
  <2> QED BY <2>1, <2>2 DEF Known
<1>4. \A c \in Calls, i \in Native!Parts : wrote[<<c, i>>] = <<>>
  BY <1>1 DEF Native!Streams
<1> QED BY <1>1, <1>2, <1>3, <1>4 DEF ApartInv, Streaming

LEMMA ApartKept == Native!Inputs /\ NativeInv /\ ApartInv /\ [Native!Next]_(Native!vars) => ApartInv'
<1> SUFFICES ASSUME Native!Inputs, NativeInv, ApartInv, [Native!Next]_(Native!vars) PROVE ApartInv'
  OBVIOUS
<1>1. CASE UNCHANGED Native!vars \/ Native!Update
  BY <1>1, ApartRests DEF Native!vars, Native!Update, Native!Disk, Native!Files
<1>2. ASSUME NEW c \in Calls, NEW o \in Ops, Native!Ask(c, o) PROVE ApartInv'
  BY <1>2, ApartStarts
<1>3. ASSUME NEW c \in Calls, Native!Proceed(c) PROVE ApartInv'
  BY <1>3, ApartNames, ApartStreams, ApartFiles, ApartForms DEF Native!Proceed
<1>4. ASSUME NEW c \in Calls, Native!StreamFails(c) \/ Native!BreaksOff(c) \/ Native!Fault(c) \/ Native!MvFault(c)
      PROVE  ApartInv'
  BY <1>4, ApartFaults, ApartNames
<1> QED BY <1>1, <1>2, <1>3, <1>4 DEF Native!Next

LEMMA NativeWhole == Native!Inputs /\ NativeInv /\ ApartInv => Native!DoneIsWhole
<1> SUFFICES ASSUME Native!Inputs, NativeInv, ApartInv, NEW c \in Calls
             PROVE  /\ call[c].op.api \in {"NEWFILE", "CPFILE"} /\ call[c].answer = "placed" => Native!Whole(<<c, 0>>)
                    /\ call[c].op.api = "POSTFORM" =>
                         \A i \in Native!FileParts(c) :
                           i < call[c].part \/ (call[c].answer = "placed" /\ i <= call[c].part) => Native!Whole(<<c, i>>)
  BY DEF Native!DoneIsWhole
<1>1. Asking(call[c]) /\ Parting(call[c]) /\ Wrote(c, call[c], size) /\ call[c].part \in Nat
  BY DEF NativeInv, NativeTyped, NativeCalls, Native!Parts
<1>2. call[c].op.api = "POSTFORM" => call[c].op \in Ops
  BY <1>1 DEF Asking, NativeInv, NativeTyped, NativeCalls
<1>3. ASSUME call[c].op.api = "POSTFORM", NEW i \in Native!FileParts(c),
             i < call[c].part \/ (call[c].answer = "placed" /\ i <= call[c].part)
      PROVE  Native!Whole(<<c, i>>)
  <2>1. i \in 1 .. Len(call[c].op.parts) /\ call[c].op.parts[i].do = "file" /\ i \in Nat
    BY <1>2, <1>3, FormParts DEF Native!FileParts
  <2>2. i < call[c].part \/ (i = call[c].part /\ call[c].answer = "placed")
    BY <1>1, <1>3, <2>1
  <2> QED BY <1>1, <1>3, <2>1, <2>2 DEF Wrote, Native!Whole, ApartInv
<1>4. call[c].op.api \in {"NEWFILE", "CPFILE"} /\ call[c].answer = "placed" => Native!Whole(<<c, 0>>)
  BY <1>1 DEF Wrote, Native!Whole, ApartInv
<1> QED BY <1>3, <1>4

\* Who was told that a file, a copy or a form on a USB volume is done has written whole files,
\* and no part of a form is done behind one that failed; what was written is emptied or written
\* over only by a form that opened the file later or still wrote it (NFS.js, PartStream.js).
THEOREM NativeDoneIsWhole == Native!Inputs => (Native!Spec => []Native!DoneIsWhole)
<1> SUFFICES ASSUME Native!Inputs PROVE Native!Spec => []Native!DoneIsWhole
  OBVIOUS
<1>1. Native!Init => NativeInv /\ ApartInv
  BY NativeBegins, ApartBegins
<1>2. NativeInv /\ ApartInv /\ [Native!Next]_(Native!vars) => NativeInv' /\ ApartInv'
  BY NativeKept, ApartKept
<1>3. NativeInv /\ ApartInv => Native!DoneIsWhole
  BY NativeWhole
<1> QED BY <1>1, <1>2, <1>3, PTL DEF Native!Spec

-----------------------------------------------------------------------------
\* What a call that nobody disturbs leaves, and how far it is: the directory of now comes
\* from the one it began with.
Moving(r) == r.op.api \in Movers
NextFree(b) == Native!AutoName(1, {n \in Names : b[n] # Native!Free})
NewOf(c, r, b) == IF Moving(r) THEN b[r.op.from] ELSE [kind |-> r.kind, obj |-> <<c, 0>>]
LeftOf(r, b) == IF Moving(r) THEN [b EXCEPT ![r.op.from] = Native!Free] ELSE b
Renames(r, b) == b[1] # Native!Free /\ Native!Told(r.op, r.kind, b[1]) = "rename"
Replaces(r, b) == b[1] # Native!Free /\ Native!Told(r.op, r.kind, b[1]) = "replace"
Result(c, r, b, A) ==
  \/ (b[1] = Native!Free \/ Replaces(r, b)) /\ A = [LeftOf(r, b) EXCEPT ![1] = NewOf(c, r, b)]
  \/ Renames(r, b) /\ A = [LeftOf(r, b) EXCEPT ![NextFree(b)] = NewOf(c, r, b)]
Ready(r, b, A) ==
  \/ A = b /\ r.name = 1 /\ (Moving(r) => b[1] = Native!Free)
  \/ Replaces(r, b) /\ r.name = 1 /\ A = [b EXCEPT ![1] = Native!Free]
  \/ Renames(r, b) /\ A = b /\ r.name = NextFree(b) /\ b[r.name] = Native!Free
Lone(c, r, b, A) ==
  /\ Tidy(b)
  /\ r.op.api \in Movers \cup Makers =>
       /\ r.pc \in {"stat", "peek", "look", "clear", "list"} => A = b /\ r.name = 1
       /\ r.pc \in {"look", "clear", "list"} => b[1] # Native!Free
       /\ r.pc = "clear" => Replaces(r, b)
       /\ r.pc = "list" => Renames(r, b)
       /\ r.pc \in {"make", "mv"} => Ready(r, b, A)
       /\ r.pc \in {"stream", "made"} => Result(c, r, b, A)
       /\ r.pc = "made" => A[r.name] # Native!Free
AloneInv ==
  /\ began = [c \in Calls |-> began[c]]
  /\ \A c \in alone : /\ c \in Calls /\ call[c].pc \in Native!Steps
                      /\ \A d \in Calls : call[d].pc \in Native!Steps => d = c
                      /\ Lone(c, call[c], began[c], at)

\* What a step does to a call alone: it is on its way, or it has done as promised.
LoneStep(c, new) ==
  c \in alone /\ new.op.api \in Movers \cup Makers =>
    /\ new.pc \in Native!Steps => Lone(c, new, began[c], at')
    /\ new.pc = "done" /\ faults' = 0 /\ (Moving(call[c]) => began[c][call[c].op.from].kind = call[c].kind /\ call[c].kind # "none")
         => [at |-> at', answer |-> new.answer] = Native!Promise(c, began[c])

LEMMA Promised ==
  ASSUME NEW c, NEW b
  PROVE  /\ \A A : Result(c, call[c], b, A) => [at |-> A, answer |-> "placed"] = Native!Promise(c, b)
         /\ b[1] # Native!Free /\ Native!Told(call[c].op, call[c].kind, b[1]) = "skip"
              => [at |-> b, answer |-> "skipped"] = Native!Promise(c, b)
         /\ b[1] # Native!Free /\ Native!Told(call[c].op, call[c].kind, b[1]) = "none"
              => [at |-> b, answer |-> "error"] = Native!Promise(c, b)
<1>1. PICK r : r = call[c]
  OBVIOUS
<1>2. Native!Moves(c) <=> Moving(r)
  BY <1>1 DEF Native!Moves, Moving, Movers
<1>3. PICK new, left, next, policy :
        /\ new = NewOf(c, r, b) /\ left = LeftOf(r, b) /\ next = NextFree(b) /\ policy = Native!Told(r.op, r.kind, b[1])
  OBVIOUS
<1>4. Native!Promise(c, b) =
        CASE b[1] = Native!Free -> [at |-> [left EXCEPT ![1] = new], answer |-> "placed"]
          [] b[1] # Native!Free /\ policy \in {"none", "other"} -> [at |-> b, answer |-> "error"]
          [] b[1] # Native!Free /\ policy = "skip" -> [at |-> b, answer |-> "skipped"]
          [] b[1] # Native!Free /\ policy = "replace" -> [at |-> [left EXCEPT ![1] = new], answer |-> "placed"]
          [] b[1] # Native!Free /\ policy = "rename" -> [at |-> [left EXCEPT ![next] = new], answer |-> "placed"]
  BY <1>1, <1>2, <1>3 DEF Native!Promise, NewOf, LeftOf, NextFree
<1>5. CASE b[1] = Native!Free
  <2>1. Native!Promise(c, b) = [at |-> [left EXCEPT ![1] = new], answer |-> "placed"]
    BY <1>4, <1>5
  <2> QED BY <1>1, <1>3, <1>5, <2>1 DEF Result, Renames
<1>6. CASE b[1] # Native!Free /\ policy = "none"
  <2>1. Native!Promise(c, b) = [at |-> b, answer |-> "error"]
    BY <1>4, <1>6
  <2> QED BY <1>1, <1>3, <1>6, <2>1 DEF Result, Renames, Replaces
<1>7. CASE b[1] # Native!Free /\ policy = "skip"
  <2>1. Native!Promise(c, b) = [at |-> b, answer |-> "skipped"]
    BY <1>4, <1>7
  <2> QED BY <1>1, <1>3, <1>7, <2>1 DEF Result, Renames, Replaces
<1>8. CASE b[1] # Native!Free /\ policy = "replace"
  <2>1. Native!Promise(c, b) = [at |-> [left EXCEPT ![1] = new], answer |-> "placed"]
    BY <1>4, <1>8
  <2> QED BY <1>1, <1>3, <1>8, <2>1 DEF Result, Renames, Replaces
<1>9. CASE b[1] # Native!Free /\ policy = "rename"
  <2>1. Native!Promise(c, b) = [at |-> [left EXCEPT ![next] = new], answer |-> "placed"]
    BY <1>4, <1>9
  <2> QED BY <1>1, <1>3, <1>9, <2>1 DEF Result, Renames, Replaces
<1>10. CASE b[1] # Native!Free /\ policy \notin {"none", "skip", "replace", "rename"}
  BY <1>1, <1>3, <1>10 DEF Result, Renames, Replaces
<1> QED BY <1>5, <1>6, <1>7, <1>8, <1>9, <1>10

\* A step of one call: of those alone it leaves that call, or none.
LEMMA AloneGoes ==
  ASSUME Native!Inputs, NativeInv, AloneInv, NEW c \in Calls, NEW new \in NativeCalls, call[c].pc \in Native!Steps,
         Native!Goes(c, new), new.op = call[c].op, new.pc \in Native!Steps \cup {"done"},
         LoneStep(c, new)
  PROVE  AloneInv' /\ Native!AsTold
<1>1. call' = [call EXCEPT ![c] = new] /\ call'[c] = new /\ \A d \in Calls \ {c} : call'[d] = call[d]
  BY DEF Native!Goes, NativeInv, NativeTyped
<1>2. began' = [d \in Calls |-> began'[d]]
  <2>1. began' = began \/ began' = [began EXCEPT ![c] = <<>>]
    BY DEF Native!Goes
  <2> QED BY <2>1 DEF AloneInv
<1>3. AloneInv'
  <2> SUFFICES ASSUME NEW d \in alone'
               PROVE  /\ d \in Calls /\ call'[d].pc \in Native!Steps
                      /\ \A e \in Calls : call'[e].pc \in Native!Steps => e = d
                      /\ Lone(d, call'[d], began'[d], at')
    BY <1>2 DEF AloneInv, Lone, Tidy
  <2>1. d = c /\ c \in alone /\ new.pc # "done" /\ began' = began
    BY DEF Native!Goes
  <2>2. new.pc \in Native!Steps
    BY <2>1
  <2>3. \A e \in Calls : call'[e].pc \in Native!Steps => e = c
    BY <1>1, <2>1 DEF AloneInv
  <2>4. Lone(c, new, began[c], at')
    <3>1. CASE new.op.api \in Movers \cup Makers
      BY <2>1, <2>2, <3>1 DEF LoneStep
    <3>2. CASE new.op.api \notin Movers \cup Makers
      BY <2>1, <3>2 DEF Lone, AloneInv
    <3> QED BY <3>1, <3>2
  <2> QED BY <1>1, <2>1, <2>2, <2>3, <2>4
<1>4. Native!AsTold
  <2> SUFFICES ASSUME NEW d \in alone, call'[d].pc = "done", faults' = 0, call[d].op.api \notin {"DELETE", "GET", "POSTFORM"},
                      Native!Moves(d) => began[d][call[d].op.from].kind = call[d].kind /\ call[d].kind # "none"
               PROVE  [at |-> at', answer |-> call'[d].answer] = Native!Promise(d, began[d])
    BY DEF Native!AsTold
  <2>1. d = c
    BY DEF AloneInv
  <2>2. call[c].op \in Ops
    BY DEF NativeInv, Asking, Native!Steps, Native!FormSteps
  <2>3. new.op.api \in Movers \cup Makers
    BY <2>1, <2>2 DEF Native!Inputs, Movers, Makers
  <2>4. Native!Moves(c) <=> Moving(call[c])
    BY DEF Native!Moves, Moving, Movers
  <2> QED BY <1>1, <2>1, <2>3, <2>4 DEF LoneStep
<1> QED BY <1>3, <1>4

LEMMA LoneNames ==
  ASSUME Native!Inputs, NativeInv, AloneInv, NEW c \in Calls,
         \/ Native!Stat(c) \/ Native!Create(c) \/ Native!Peek(c) \/ Native!Look(c) \/ Native!Clear(c) \/ Native!List(c)
  PROVE  AloneInv' /\ Native!AsTold
<1>p. PICK x \in NativeCalls : x = call[c] /\ Asking(x)
  BY DEF NativeInv, NativeTyped
<1>b. PICK b : b = began[c]
  OBVIOUS
<1>0. Tidy(at) /\ 1 \in Native!Paths /\ x.pc \in {"stat", "make", "peek", "look", "clear", "list"} /\ x.pc \in Native!Steps
  BY <1>p, NativeSizes DEF Tidy, NativeInv, NativeTyped, Native!Stat, Native!Create, Native!Peek, Native!Look, Native!Clear, Native!List, Native!Steps
<1>l. c \in alone => Lone(c, x, b, at) /\ Tidy(b)
  BY <1>b, <1>p DEF AloneInv, Lone
<1>o. x.op.api \in Movers \cup Makers
  BY <1>0, <1>p DEF Asking, Movers, Makers
<1>e. ASSUME NEW a \in {"placed", "skipped", "error"}, Native!Ends(c, a),
             c \in alone /\ (Moving(x) => b[x.op.from].kind = x.kind /\ x.kind # "none")
               => [at |-> at', answer |-> a] = Native!Promise(c, b)
      PROVE  AloneInv' /\ Native!AsTold
  <2>1. PICK new \in NativeCalls : new = Native!Done(c, a) /\ new.pc = "done" /\ new.op = x.op /\ new.answer = a
    BY <1>p, NativeRecs DEF NativeInv, NativeTyped
  <2>2. LoneStep(c, new)
    BY <1>b, <1>e, <1>p, <2>1 DEF LoneStep, Native!Steps, Native!FormSteps
  <2> QED BY <1>0, <1>e, <1>p, <2>1, <2>2, AloneGoes DEF Native!Ends
<1>g. ASSUME NEW new \in NativeCalls, Native!Goes(c, new), new.op = x.op, new.pc \in Native!Steps,
             c \in alone => Lone(c, new, b, at')
      PROVE  AloneInv' /\ Native!AsTold
  <2>1. LoneStep(c, new)
    BY <1>b, <1>g DEF LoneStep, Native!Steps, Native!FormSteps
  <2> QED BY <1>0, <1>g, <1>p, <2>1, AloneGoes
<1>t. ASSUME NEW s \in Native!Steps, Native!Goes(c, Native!To(c, s)),
             \A r : r.pc = s /\ r.op = x.op /\ r.name = x.name /\ r.kind = x.kind /\ c \in alone => Lone(c, r, b, at')
      PROVE  AloneInv' /\ Native!AsTold
  <2>1. PICK new \in NativeCalls :
          /\ new = Native!To(c, s) /\ new.pc = s /\ new.op = x.op /\ new.name = x.name /\ new.kind = x.kind
    BY <1>p, NativeRecs DEF NativeInv, NativeTyped
  <2> QED BY <1>g, <1>t, <2>1
<1>1. CASE Native!Stat(c)
  <2>0. x.pc = "stat" /\ UNCHANGED at /\ x.op.api = "PATCH" /\ x.op.from \in Sources
    BY <1>1, <1>p DEF Native!Stat, Native!Disk, Native!Files, Asking, Native!Inputs
  <2>a. c \in alone => at = b /\ x.name = 1
    BY <1>l, <1>o, <2>0 DEF Lone
  <2>1. CASE Native!Ends(c, "error") /\ at[x.op.from] = Native!Free
    BY <1>e, <2>0, <2>1, <2>a DEF Moving, Movers, Native!Free
  <2>2. CASE at[x.op.from] # Native!Free /\ Native!Goes(c, [Native!To(c, "peek") EXCEPT !.kind = at[x.op.from].kind])
    <3>1. PICK k \in {"file", "dir"} : k = at[x.op.from].kind
      BY <1>0, <2>0, <2>2, NativeSizes DEF Tidy
    <3>2. PICK new : new = [x EXCEPT !.pc = "peek", !.kind = k]
      OBVIOUS
    <3>3. new \in NativeCalls /\ new.pc = "peek" /\ new.op = x.op /\ new.name = x.name
      BY <1>p, <3>2 DEF NativeCalls, Native!Steps
    <3>4. Native!Goes(c, new)
      BY <1>p, <2>2, <3>1, <3>2 DEF Native!To, NativeCalls
    <3>5. c \in alone => Lone(c, new, b, at')
      BY <1>l, <2>0, <2>a, <3>3 DEF Lone
    <3> QED BY <1>g, <3>3, <3>4, <3>5 DEF Native!Steps
  <2> QED BY <1>1, <1>p, <2>1, <2>2 DEF Native!Stat
<1>2. CASE Native!Create(c)
  <2>0. x.pc = "make" /\ x.op.api \in Makers /\ ~Moving(x) /\ x.kind \in {"file", "dir"} /\ x.name \in Native!Paths
    BY <1>2, <1>p, NativeSizes DEF Native!Create, Asking, Makers, Native!Steps, Moving, Movers, NativeCalls
  <2>l. c \in alone => Ready(x, b, at)
    BY <1>l, <1>o, <2>0 DEF Lone
  <2>1. CASE at[x.name] # Native!Free
    <3>1. Native!Goes(c, Native!To(c, "look")) /\ UNCHANGED at
      BY <1>2, <1>p, <2>1 DEF Native!Create, Native!Disk, Native!Files
    <3>2. c \in alone => at = b /\ x.name = 1 /\ b[1] # Native!Free
      BY <1>0, <1>l, <2>1, <2>l DEF Ready, Tidy
    <3>3. ASSUME NEW r, r.pc = "look", r.op = x.op, r.name = x.name, c \in alone PROVE Lone(c, r, b, at')
      BY <1>l, <3>1, <3>2, <3>3 DEF Lone
    <3>4. "look" \in Native!Steps
      BY DEF Native!Steps
    <3> QED BY <1>t, <3>1, <3>3, <3>4
  <2>2. CASE at[x.name] = Native!Free
    <3>0. PICK e : e = [kind |-> x.kind, obj |-> <<c, 0>>]
      OBVIOUS
    <3>1. at' = [at EXCEPT ![x.name] = e]
      <4>1. Native!Here(c) = <<c, 0>>
        BY <1>p, <2>0 DEF Native!Here, NativeInv, Parting, Makers
      <4> QED BY <1>2, <1>p, <2>2, <3>0, <4>1 DEF Native!Create, Native!Make
    <3>2. c \in alone => Result(c, x, b, at')
      <4>1. NewOf(c, x, b) = e /\ LeftOf(x, b) = b
        BY <2>0, <3>0 DEF NewOf, LeftOf
      <4> SUFFICES ASSUME c \in alone PROVE Result(c, x, b, at')
        OBVIOUS
      <4>2. CASE at = b /\ x.name = 1
        BY <2>2, <3>1, <4>1, <4>2 DEF Result
      <4>3. CASE Replaces(x, b) /\ x.name = 1 /\ at = [b EXCEPT ![1] = Native!Free]
        <5>1. at' = [b EXCEPT ![1] = e]
          BY <1>0, <1>l, <3>1, <4>3 DEF Tidy
        <5> QED BY <4>1, <4>3, <5>1 DEF Result
      <4>4. CASE Renames(x, b) /\ at = b /\ x.name = NextFree(b)
        BY <3>1, <4>1, <4>4 DEF Result
      <4> QED BY <2>l, <4>2, <4>3, <4>4 DEF Ready
    <3>3. CASE x.kind = "dir"
      <4>1. Native!Goes(c, Native!To(c, "made"))
        BY <1>2, <1>p, <2>2, <3>3 DEF Native!Create
      <4>2. at'[x.name] # Native!Free
        <5>1. e.kind # Native!Free.kind
          BY <3>0, <3>3 DEF Native!Free
        <5> QED BY <1>0, <2>0, <3>1, <5>1 DEF Tidy
      <4>3. ASSUME NEW r, r.pc = "made", r.op = x.op, r.kind = x.kind, r.name = x.name, c \in alone PROVE Lone(c, r, b, at')
        <5>1. Result(c, r, b, at')
          BY <3>2, <4>3 DEF Result, Renames, Replaces, NewOf, LeftOf, Moving
        <5> QED BY <1>l, <4>2, <4>3, <5>1 DEF Lone
      <4>4. "made" \in Native!Steps
        BY DEF Native!Steps
      <4> QED BY <1>t, <4>1, <4>3, <4>4
    <3>4. CASE x.kind = "file"
      <4>1. Native!Goes(c, Native!To(c, "stream"))
        BY <1>2, <1>p, <2>2, <3>4 DEF Native!Create
      <4>2. ASSUME NEW r, r.pc = "stream", r.op = x.op, r.kind = x.kind, c \in alone PROVE Lone(c, r, b, at')
        <5>1. Result(c, r, b, at')
          BY <3>2, <4>2 DEF Result, Renames, Replaces, NewOf, LeftOf, Moving
        <5> QED BY <1>l, <4>2, <5>1 DEF Lone
      <4>3. "stream" \in Native!Steps
        BY DEF Native!Steps
      <4> QED BY <1>t, <4>1, <4>2, <4>3
    <3> QED BY <2>0, <3>3, <3>4
  <2> QED BY <2>1, <2>2
<1>3. CASE Native!Peek(c)
  <2>0. x.pc = "peek" /\ UNCHANGED at /\ {"mv", "look"} \subseteq Native!Steps
    BY <1>3, <1>p DEF Native!Peek, Native!Disk, Native!Files, Native!Steps
  <2>a. c \in alone => at = b /\ x.name = 1
    BY <1>l, <1>o, <2>0 DEF Lone
  <2>1. CASE at[x.name] = Native!Free
    <3>1. Native!Goes(c, Native!To(c, "mv"))
      BY <1>3, <1>p, <2>1 DEF Native!Peek
    <3>2. ASSUME NEW r, r.pc = "mv", r.op = x.op, r.name = x.name, c \in alone PROVE Lone(c, r, b, at')
      <4>1. Ready(r, b, at')
        BY <2>0, <2>1, <2>a, <3>2 DEF Ready
      <4> QED BY <1>l, <3>2, <4>1 DEF Lone
    <3> QED BY <1>t, <2>0, <3>1, <3>2
  <2>2. CASE at[x.name] # Native!Free
    <3>1. Native!Goes(c, Native!To(c, "look"))
      BY <1>3, <1>p, <2>2 DEF Native!Peek
    <3>2. ASSUME NEW r, r.pc = "look", r.op = x.op, r.name = x.name, c \in alone PROVE Lone(c, r, b, at')
      BY <1>l, <2>0, <2>2, <2>a, <3>2 DEF Lone
    <3> QED BY <1>t, <2>0, <3>1, <3>2
  <2> QED BY <2>1, <2>2
<1>4. CASE Native!Look(c)
  <2>0. x.pc = "look" /\ UNCHANGED at /\ {"clear", "list"} \subseteq Native!Steps
    BY <1>4, <1>p DEF Native!Look, Native!Disk, Native!Files, Native!Steps
  <2>x. c \in alone => at = b /\ x.name = 1 /\ b[1] # Native!Free
    BY <1>l, <1>o, <2>0 DEF Lone
  <2>a. PICK e : e = at[x.name]
    OBVIOUS
  <2>b. PICK policy \in Native!Policies : policy = Native!Policy(x.op, x.kind, e)
    BY <1>p, <1>0 DEF Native!Policy, Asking
  <2>c. policy = Native!Told(x.op, x.kind, e)
    BY <2>b DEF Native!Policy, Native!Told
  <2>1. CASE e = Native!Free \/ policy = "none"
    <3>1. Native!Ends(c, "error")
      BY <1>4, <1>p, <2>1, <2>a, <2>b DEF Native!Look
    <3>2. c \in alone => [at |-> at', answer |-> "error"] = Native!Promise(c, b)
      BY <1>p, <2>0, <2>1, <2>a, <2>c, <2>x, Promised
    <3> QED BY <1>e, <3>1, <3>2
  <2>2. CASE e # Native!Free /\ policy = "skip"
    <3>1. Native!Ends(c, "skipped")
      BY <1>4, <1>p, <2>2, <2>a, <2>b DEF Native!Look
    <3>2. c \in alone => [at |-> at', answer |-> "skipped"] = Native!Promise(c, b)
      BY <1>p, <2>0, <2>2, <2>a, <2>c, <2>x, Promised
    <3> QED BY <1>e, <3>1, <3>2
  <2>3. CASE e # Native!Free /\ policy = "replace"
    <3>1. Native!Goes(c, Native!To(c, "clear"))
      BY <1>4, <1>p, <2>3, <2>a, <2>b DEF Native!Look
    <3>2. ASSUME NEW r, r.pc = "clear", r.op = x.op, r.name = x.name, r.kind = x.kind, c \in alone PROVE Lone(c, r, b, at')
      BY <1>l, <2>0, <2>3, <2>a, <2>c, <2>x, <3>2 DEF Lone, Replaces
    <3> QED BY <1>t, <2>0, <3>1, <3>2
  <2>4. CASE e # Native!Free /\ policy = "rename"
    <3>1. Native!Goes(c, Native!To(c, "list"))
      BY <1>4, <1>p, <2>4, <2>a, <2>b DEF Native!Look
    <3>2. ASSUME NEW r, r.pc = "list", r.op = x.op, r.name = x.name, r.kind = x.kind, c \in alone PROVE Lone(c, r, b, at')
      BY <1>l, <2>0, <2>4, <2>a, <2>c, <2>x, <3>2 DEF Lone, Renames
    <3> QED BY <1>t, <2>0, <3>1, <3>2
  <2> QED BY <2>b, <2>1, <2>2, <2>3, <2>4 DEF Native!Policies
<1>5. CASE Native!Clear(c)
  <2>0. x.pc = "clear" /\ at' = [at EXCEPT ![x.name] = Native!Free]
    BY <1>5, <1>p DEF Native!Clear
  <2>x. c \in alone => at = b /\ x.name = 1 /\ Replaces(x, b)
    BY <1>l, <1>o, <2>0 DEF Lone
  <2>a. PICK s \in {"mv", "make"} : s = Native!After(c)
    BY DEF Native!After
  <2>1. PICK new : new = [x EXCEPT !.pc = s, !.cleared = TRUE]
    OBVIOUS
  <2>2. new \in NativeCalls /\ new.pc = s /\ new.kind = x.kind /\ new.op = x.op /\ new.name = x.name
    BY <1>p, <2>1 DEF NativeCalls, Native!Steps
  <2>3. Native!Goes(c, new)
    BY <1>5, <1>p, <2>a, <2>1 DEF Native!Clear, Native!To, NativeCalls
  <2>4. ASSUME c \in alone PROVE Lone(c, new, b, at')
    <3>1. Ready(new, b, at')
      BY <2>0, <2>2, <2>4, <2>x DEF Ready, Replaces
    <3> QED BY <1>l, <2>2, <2>4, <3>1 DEF Lone
  <2> QED BY <1>g, <2>2, <2>3, <2>4 DEF Native!Steps
<1>6. CASE Native!List(c)
  <2>0. x.pc = "list" /\ UNCHANGED at
    BY <1>6, <1>p DEF Native!List, Native!Disk, Native!Files
  <2>x. c \in alone => at = b /\ x.name = 1 /\ Renames(x, b)
    BY <1>l, <1>o, <2>0 DEF Lone
  <2>a. PICK s \in {"mv", "make"} : s = Native!After(c)
    BY DEF Native!After
  <2>b. PICK m \in Names : m = Native!AutoName(x.name, Native!Listing) /\ at[m] = Native!Free
    <3>1. c \in Calls \ Placers /\ x.name \in Names
      BY <1>p, <2>0 DEF Placers, NativeCalls
    <3>2. x.name <= Top + Cardinality(Placers) + 1
      BY <1>0, <1>p, <2>0, NamedSoFar
    <3> QED BY <3>1, <3>2, NextName
  <2>1. PICK new : new = [x EXCEPT !.pc = s, !.name = m]
    OBVIOUS
  <2>2. new \in NativeCalls /\ new.pc = s /\ new.kind = x.kind /\ new.op = x.op /\ new.name = m
    BY <1>p, <2>1 DEF NativeCalls, Native!Steps
  <2>3. Native!Goes(c, new)
    <3>1. PICK y : y = Native!To(c, s)
      OBVIOUS
    <3>2. y = [x EXCEPT !.pc = s] /\ y.name = x.name
      BY <1>p, <3>1 DEF Native!To, NativeCalls
    <3>3. Native!Goes(c, [y EXCEPT !.name = Native!AutoName(@, Native!Listing)])
      BY <1>6, <2>a, <3>1 DEF Native!List
    <3>4. [y EXCEPT !.name = Native!AutoName(@, Native!Listing)] = [y EXCEPT !.name = m]
      BY <2>b, <3>2
    <3>5. [y EXCEPT !.name = m] = new
      BY <2>1, <3>2
    <3> QED BY <3>3, <3>4, <3>5
  <2>4. ASSUME c \in alone PROVE Lone(c, new, b, at')
    <3>0. m = NextFree(b)
      BY <2>4, <2>b, <2>x DEF NextFree, Native!Listing
    <3>1. Ready(new, b, at')
      BY <2>0, <2>2, <2>4, <2>b, <2>x, <3>0 DEF Ready, Renames
    <3> QED BY <1>l, <2>2, <2>4, <3>1 DEF Lone
  <2> QED BY <1>g, <2>2, <2>3, <2>4 DEF Native!Steps
<1> QED BY <1>1, <1>2, <1>3, <1>4, <1>5, <1>6

\* No call goes on.
LEMMA AloneRests ==
  ASSUME NativeInv, AloneInv, UNCHANGED <<call, alone, began, at>>
  PROVE  AloneInv' /\ Native!AsTold
<1>1. AloneInv'
  BY DEF AloneInv
<1>2. \A c \in alone : call'[c].pc # "done"
  BY DEF AloneInv, Native!Steps, Native!FormSteps
<1> QED BY <1>1, <1>2 DEF Native!AsTold

LEMMA LoneMoves ==
  ASSUME Native!Inputs, NativeInv, AloneInv, NEW c \in Calls, Native!Mv(c) \/ Native!MvFault(c)
  PROVE  AloneInv' /\ Native!AsTold
<1>p. PICK x \in NativeCalls : x = call[c] /\ Asking(x)
  BY DEF NativeInv, NativeTyped
<1>b. PICK b : b = began[c]
  OBVIOUS
<1>0. Tidy(at) /\ x.pc = "mv" /\ x.op.api \in Movers /\ x.op.from \in Sources /\ x.name \in Names /\ x.pc \in Native!Steps
  BY <1>p DEF Native!Mv, Native!MvFault, Tidy, NativeInv, NativeTyped, Asking, Native!Inputs, Movers, NativeCalls, Native!Steps
<1>q. PICK p, q : p = x.op.from /\ q = x.name
  OBVIOUS
<1>n. p \in Native!Paths /\ q \in Native!Paths /\ 1 \in Native!Paths /\ p # q /\ p # 1
  <2>1. Names \cap Sources = {}
    BY DEF Native!Inputs
  <2> QED BY <1>0, <1>q, <2>1, NativeSizes
<1>l. c \in alone => Tidy(b) /\ Ready(x, b, at)
  BY <1>0, <1>b, <1>p DEF AloneInv, Lone
<1>m. c \in alone => at[q] = Native!Free /\ at[p] = b[p]
  <2> SUFFICES ASSUME c \in alone PROVE at[q] = Native!Free /\ at[p] = b[p]
    OBVIOUS
  <2>1. CASE at = b /\ x.name = 1 /\ b[1] = Native!Free
    BY <1>q, <2>1
  <2>2. CASE Replaces(x, b) /\ x.name = 1 /\ at = [b EXCEPT ![1] = Native!Free]
    BY <1>l, <1>n, <1>q, <2>2 DEF Tidy
  <2>3. CASE Renames(x, b) /\ at = b /\ x.name = NextFree(b) /\ b[x.name] = Native!Free
    BY <1>q, <2>3
  <2>4. Moving(x)
    BY <1>0 DEF Moving
  <2> QED BY <1>l, <2>1, <2>2, <2>3, <2>4 DEF Ready
<1>e. ASSUME NEW a \in {"placed", "error"}, Native!Ends(c, a),
             c \in alone /\ faults' = 0 /\ b[p].kind = x.kind /\ x.kind # "none" => [at |-> at', answer |-> a] = Native!Promise(c, b)
      PROVE  AloneInv' /\ Native!AsTold
  <2>1. PICK new \in NativeCalls : new = Native!Done(c, a) /\ new.pc = "done" /\ new.op = x.op /\ new.answer = a
    BY <1>p, NativeRecs DEF NativeInv, NativeTyped
  <2>2. LoneStep(c, new)
    BY <1>0, <1>b, <1>e, <1>p, <1>q, <2>1 DEF LoneStep, Native!Steps, Native!FormSteps, Moving
  <2> QED BY <1>0, <1>e, <1>p, <2>1, <2>2, AloneGoes DEF Native!Ends
<1>f. ASSUME Native!RenameFails(c), at' = at, faults' = 0 => ~(at[p] # Native!Free /\ Native!Yields(at[q], at[p]))
      PROVE  AloneInv' /\ Native!AsTold
  <2>1. CASE down' = TRUE /\ UNCHANGED <<call, alone, began>>
    BY <1>f, <2>1, AloneRests
  <2>2. CASE Native!Ends(c, "error")
    <3>1. b[p].kind = x.kind /\ x.kind # "none" => b[p] # Native!Free
      BY DEF Native!Free
    <3>2. c \in alone /\ faults' = 0 => ~(b[p].kind = x.kind /\ x.kind # "none")
      BY <1>f, <1>m, <3>1 DEF Native!Yields
    <3> QED BY <1>e, <2>2, <3>2
  <2> QED BY <1>f, <2>1, <2>2 DEF Native!RenameFails
<1>1. CASE Native!MvFault(c)
  <2>1. faults' = faults + 1 /\ faults \in Nat /\ Native!RenameFails(c) /\ at' = at
    BY <1>1 DEF Native!MvFault, Native!Disk, Native!Files, NativeInv, NativeTyped
  <2>2. faults' # 0
    BY <2>1
  <2> QED BY <1>f, <2>1, <2>2
<1>2. CASE Native!Mv(c) /\ ~(at[p] # Native!Free /\ Native!Yields(at[q], at[p]))
  <2>1. Native!RenameFails(c) /\ at' = at
    BY <1>2, <1>p, <1>q DEF Native!Mv
  <2> QED BY <1>2, <1>f, <2>1
<1>3. CASE Native!Mv(c) /\ at[p] # Native!Free /\ Native!Yields(at[q], at[p])
  <2>1. Native!Ends(c, "placed") /\ at' = [at EXCEPT ![q] = at[p], ![p] = Native!Free]
    BY <1>3, <1>p, <1>q DEF Native!Mv
  <2>2. ASSUME c \in alone PROVE Result(c, x, b, at')
    <3>1. NewOf(c, x, b) = b[p] /\ LeftOf(x, b) = [b EXCEPT ![p] = Native!Free]
      BY <1>0, <1>q DEF NewOf, LeftOf, Moving
    <3>2. CASE at = b /\ x.name = 1 /\ b[1] = Native!Free
      <4>1. at' = [[b EXCEPT ![p] = Native!Free] EXCEPT ![1] = b[p]]
        BY <1>l, <1>n, <1>q, <2>1, <2>2, <3>2 DEF Tidy
      <4> QED BY <3>1, <3>2, <4>1 DEF Result
    <3>3. CASE Replaces(x, b) /\ x.name = 1 /\ at = [b EXCEPT ![1] = Native!Free]
      <4>1. at' = [[b EXCEPT ![p] = Native!Free] EXCEPT ![1] = b[p]]
        BY <1>l, <1>n, <1>q, <2>1, <2>2, <3>3 DEF Tidy
      <4> QED BY <3>1, <3>3, <4>1 DEF Result
    <3>4. CASE Renames(x, b) /\ at = b /\ x.name = NextFree(b) /\ b[x.name] = Native!Free
      <4>1. at' = [[b EXCEPT ![p] = Native!Free] EXCEPT ![q] = b[p]]
        BY <1>l, <1>n, <1>q, <2>1, <2>2, <3>4 DEF Tidy
      <4> QED BY <1>q, <3>1, <3>4, <4>1 DEF Result
    <3>5. Moving(x)
      BY <1>0 DEF Moving
    <3> QED BY <1>l, <2>2, <3>2, <3>3, <3>4, <3>5 DEF Ready
  <2>3. c \in alone => [at |-> at', answer |-> "placed"] = Native!Promise(c, b)
    BY <1>p, <2>2, Promised
  <2> QED BY <1>e, <2>1, <2>3
<1> QED BY <1>1, <1>2, <1>3

LEMMA LoneMade ==
  ASSUME Native!Inputs, NativeInv, AloneInv, NEW c \in Calls, Native!Made(c)
  PROVE  AloneInv' /\ Native!AsTold
<1>p. PICK x \in NativeCalls : x = call[c] /\ Asking(x)
  BY DEF NativeInv, NativeTyped
<1>0. x.pc = "made" /\ at' = at /\ x.pc \in Native!Steps /\ x.op.api \in Makers
  BY <1>p DEF Native!Made, Native!Steps, Native!Disk, Asking, Makers
<1>l. c \in alone => Result(c, x, began[c], at) /\ at[x.name] # Native!Free
  BY <1>0, <1>p DEF AloneInv, Lone
<1>1. PICK a \in {"placed", "error"} : Native!Ends(c, a) /\ (a = "error" => at[x.name] = Native!Free)
  BY <1>p DEF Native!Made
<1>2. PICK new \in NativeCalls : new = Native!Done(c, a) /\ new.pc = "done" /\ new.op = x.op /\ new.answer = a
  BY <1>p, NativeRecs DEF NativeInv, NativeTyped
<1>3. c \in alone => [at |-> at', answer |-> a] = Native!Promise(c, began[c])
  BY <1>0, <1>1, <1>l, <1>p, Promised
<1>4. LoneStep(c, new)
  BY <1>2, <1>3 DEF LoneStep, Native!Steps, Native!FormSteps
<1> QED BY <1>0, <1>1, <1>2, <1>4, <1>p, AloneGoes DEF Native!Ends

LEMMA LoneStreams ==
  ASSUME Native!Inputs, NativeInv, AloneInv, NEW c \in Calls, Native!Stream(c)
  PROVE  AloneInv' /\ Native!AsTold
<1>p. PICK x \in NativeCalls : x = call[c] /\ Asking(x)
  BY DEF NativeInv, NativeTyped
<1>0. x.pc = "stream" /\ at' = at /\ x.pc \in Native!Steps /\ x.op.api \in Makers
  BY <1>p DEF Native!Stream, Native!Steps, Asking, Makers
<1>l. c \in alone => Lone(c, x, began[c], at) /\ Result(c, x, began[c], at)
  BY <1>0, <1>p DEF AloneInv, Lone
<1>1. CASE Native!Ends(c, "placed")
  <2>1. PICK new \in NativeCalls : new = Native!Done(c, "placed") /\ new.pc = "done" /\ new.op = x.op /\ new.answer = "placed"
    BY <1>p, NativeRecs DEF NativeInv, NativeTyped
  <2>2. c \in alone => [at |-> at', answer |-> "placed"] = Native!Promise(c, began[c])
    BY <1>0, <1>l, <1>p, Promised
  <2>3. LoneStep(c, new)
    BY <2>1, <2>2 DEF LoneStep, Native!Steps, Native!FormSteps
  <2> QED BY <1>0, <1>1, <1>p, <2>1, <2>3, AloneGoes DEF Native!Ends
<1>2. CASE Native!Goes(c, call[c])
  <2>1. LoneStep(c, x)
    BY <1>0, <1>l DEF LoneStep
  <2> QED BY <1>0, <1>2, <1>p, <2>1, AloneGoes
<1> QED BY <1>1, <1>2 DEF Native!Stream

\* Other calls than those whose names have a policy, and faults.
LEMMA LoneOthers ==
  ASSUME Native!Inputs, NativeInv, AloneInv, NEW c \in Calls, NEW new \in NativeCalls, Native!Goes(c, new),
         call[c].pc \in Native!Steps, new.op = call[c].op, new.pc \in Native!Steps \cup {"done"},
         call[c].op.api \notin Movers \cup Makers
  PROVE  AloneInv' /\ Native!AsTold
<1>1. LoneStep(c, new)
  BY DEF LoneStep
<1> QED BY <1>1, AloneGoes
LEMMA LoneTo ==
  ASSUME Native!Inputs, NativeInv, AloneInv, NEW c \in Calls, NEW s \in Native!Steps, Native!Goes(c, Native!To(c, s)),
         call[c].pc \in Native!Steps, call[c].op.api \notin Movers \cup Makers
  PROVE  AloneInv' /\ Native!AsTold
<1>1. PICK new \in NativeCalls : new = Native!To(c, s) /\ new.pc = s /\ new.op = call[c].op
  BY NativeRecs DEF NativeInv, NativeTyped
<1> QED BY <1>1, LoneOthers
LEMMA LoneEnds ==
  ASSUME Native!Inputs, NativeInv, AloneInv, NEW c \in Calls, NEW a \in {"placed", "skipped", "error"}, Native!Ends(c, a),
         call[c].pc \in Native!Steps, call[c].op.api \notin Movers \cup Makers
  PROVE  AloneInv' /\ Native!AsTold
<1>1. PICK new \in NativeCalls : new = Native!Done(c, a) /\ new.pc = "done" /\ new.op = call[c].op
  BY NativeRecs DEF NativeInv, NativeTyped
<1> QED BY <1>1, LoneOthers DEF Native!Ends
LEMMA LoneFails ==
  ASSUME Native!Inputs, NativeInv, AloneInv, NEW c \in Calls, Native!Ends(c, "error"), call[c].pc \in Native!Steps, faults' # 0
  PROVE  AloneInv' /\ Native!AsTold
<1>1. PICK new \in NativeCalls : new = Native!Done(c, "error") /\ new.pc = "done" /\ new.op = call[c].op
  BY NativeRecs DEF NativeInv, NativeTyped
<1>2. LoneStep(c, new)
  BY <1>1 DEF LoneStep, Native!Steps, Native!FormSteps
<1> QED BY <1>1, <1>2, AloneGoes DEF Native!Ends

LEMMA LoneFaults ==
  ASSUME Native!Inputs, NativeInv, AloneInv, NEW c \in Calls, Native!StreamFails(c) \/ Native!BreaksOff(c) \/ Native!Fault(c)
  PROVE  AloneInv' /\ Native!AsTold
<1>1. faults' # 0 /\ at' = at
  <2>1. faults \in Nat /\ faults' = faults + 1 /\ at' = at
    BY DEF NativeInv, NativeTyped, Native!StreamFails, Native!BreaksOff, Native!Fault, Native!Disk, Native!Files
  <2> QED BY <2>1
<1>2. call[c].pc \in Native!Steps
  BY DEF Native!StreamFails, Native!BreaksOff, Native!Fault, Native!Steps, Native!FormSteps
<1>3. CASE Native!Ends(c, "error")
  BY <1>1, <1>2, <1>3, LoneFails
<1>4. CASE UNCHANGED <<call, alone, began>>
  BY <1>1, <1>4, AloneRests
<1>5. CASE Native!BreaksOff(c) /\ Native!Goes(c, [call[c] EXCEPT !.answer = "error"])
  <2>1. PICK x \in NativeCalls : x = call[c] /\ Asking(x)
    BY DEF NativeInv, NativeTyped
  <2>2. PICK new : new = [x EXCEPT !.answer = "error"]
    OBVIOUS
  <2>3. new \in NativeCalls /\ new.pc = x.pc /\ new.op = x.op
    BY <2>1, <2>2 DEF NativeCalls
  <2>4. x.op.api = "POSTFORM"
    BY <1>5, <2>1 DEF Native!BreaksOff, Asking
  <2> QED BY <1>2, <1>5, <2>1, <2>2, <2>3, <2>4, LoneOthers DEF Movers, Makers
<1> QED BY <1>3, <1>4, <1>5 DEF Native!StreamFails, Native!BreaksOff, Native!Fault

LEMMA LoneRest ==
  ASSUME Native!Inputs, NativeInv, AloneInv, NEW c \in Calls,
         \/ Native!Delete(c) \/ Native!GetTarget(c) \/ Native!ReadDir(c) \/ (\E n \in Names : Native!Lstats(c, n))
         \/ Native!FormTarget(c) \/ Native!Write(c) \/ Native!Prelude(c) \/ Native!FileLstat(c) \/ Native!FileOpen(c)
         \/ Native!FileData(c) \/ Native!DirLstat(c) \/ Native!Mkdirp(c) \/ Native!Rimraf(c) \/ Native!Stops(c)
  PROVE  AloneInv' /\ Native!AsTold
<1>p. PICK x \in NativeCalls : x = call[c] /\ Asking(x) /\ Parting(x)
  BY DEF NativeInv, NativeTyped
<1>0. x.pc \in {"remove", "target", "readdir", "lstats"} \cup Native!FormSteps
  BY <1>p DEF Native!Delete, Native!GetTarget, Native!ReadDir, Native!Lstats, Native!FormTarget, Native!Write, Native!Prelude,
              Native!FileLstat, Native!FileOpen, Native!FileData, Native!DirLstat, Native!Mkdirp, Native!Rimraf, Native!Stops,
              Native!FormSteps
<1>s. x.pc \in Native!Steps /\ x.op.api \notin Movers \cup Makers
  BY <1>0, <1>p DEF Asking, Movers, Makers, Native!Steps
<1>t. ASSUME NEW s \in Native!Steps, Native!Goes(c, Native!To(c, s)) PROVE AloneInv' /\ Native!AsTold
  BY <1>p, <1>s, <1>t, LoneTo
<1>e. ASSUME NEW a \in {"placed", "error"}, Native!Ends(c, a) PROVE AloneInv' /\ Native!AsTold
  BY <1>e, <1>p, <1>s, LoneEnds
<1>o. ASSUME NEW new \in NativeCalls, Native!Goes(c, new), new.op = x.op, new.pc \in Native!Steps \cup {"done"}
      PROVE AloneInv' /\ Native!AsTold
  BY <1>o, <1>p, <1>s, LoneOthers
<1>a. {"readdir", "part", "target", "fopen", "fdata", "mkdirp"} \subseteq Native!Steps
  BY DEF Native!Steps, Native!FormSteps
<1>1. CASE Native!Delete(c) \/ Native!Stops(c)
  BY <1>1, <1>e DEF Native!Delete, Native!Stops
<1>2. CASE Native!GetTarget(c) \/ Native!FormTarget(c)
  BY <1>2, <1>a, <1>e, <1>t DEF Native!GetTarget, Native!FormTarget
<1>3. CASE Native!Prelude(c) \/ Native!FileLstat(c) \/ Native!FileOpen(c) \/ Native!Rimraf(c)
  BY <1>3, <1>a, <1>e, <1>t DEF Native!Prelude, Native!FileLstat, Native!FileOpen, Native!Rimraf, Native!FormError
<1>4. CASE Native!FileData(c)
  <2>1. CASE Native!Goes(c, Native!To(c, "part"))
    BY <1>a, <1>t, <2>1
  <2>2. CASE Native!Goes(c, x)
    BY <1>o, <1>s, <2>2
  <2> QED BY <1>4, <1>p, <2>1, <2>2 DEF Native!FileData
<1>5. CASE Native!DirLstat(c) \/ Native!Mkdirp(c)
  <2>1. Tidy(at) /\ x.name \in Native!Paths
    BY <1>p, NativeSizes DEF NativeInv, NativeTyped, Tidy, NativeCalls
  <2>2. PICK e : e = at[x.name] /\ (e = Native!Free \/ e.kind \in {"file", "dir"})
    BY <2>1 DEF Tidy
  <2>3. e.kind \in {"none", "file", "dir"} /\ (e = Native!Free <=> e.kind = "none")
    BY <2>2 DEF Native!Free
  <2>4. CASE Native!DirLstat(c)
    <3>1. \/ Native!Goes(c, Native!To(c, "mkdirp")) \/ Native!Goes(c, Native!To(c, "part")) \/ Native!FormError(c)
      <4>1. CASE e.kind = "none"
        BY <1>p, <2>2, <2>3, <2>4, <4>1 DEF Native!DirLstat
      <4>2. CASE e.kind = "dir"
        BY <1>p, <2>2, <2>3, <2>4, <4>2 DEF Native!DirLstat
      <4>3. CASE e.kind = "file"
        BY <1>p, <2>2, <2>3, <2>4, <4>3 DEF Native!DirLstat
      <4> QED BY <2>3, <4>1, <4>2, <4>3
    <3> QED BY <1>a, <1>e, <1>t, <3>1 DEF Native!FormError
  <2>5. CASE Native!Mkdirp(c)
    <3>1. \/ Native!Goes(c, Native!To(c, "part")) \/ Native!FormError(c)
      <4>1. CASE e.kind = "none"
        BY <1>p, <2>2, <2>3, <2>5, <4>1 DEF Native!Mkdirp
      <4>2. CASE e.kind = "dir"
        BY <1>p, <2>2, <2>3, <2>5, <4>2 DEF Native!Mkdirp
      <4>3. CASE e.kind = "file"
        BY <1>p, <2>2, <2>3, <2>5, <4>3 DEF Native!Mkdirp
      <4> QED BY <2>3, <4>1, <4>2, <4>3
    <3> QED BY <1>a, <1>e, <1>t, <3>1 DEF Native!FormError
  <2> QED BY <1>5, <2>4, <2>5
<1>6. CASE Native!ReadDir(c)
  <2>1. CASE Native!Goes(c, [Native!To(c, "lstats") EXCEPT !.left = Native!Listing])
    <3>1. PICK new : new = [x EXCEPT !.pc = "lstats", !.left = Native!Listing]
      OBVIOUS
    <3>2. new \in NativeCalls /\ new.pc = "lstats" /\ new.op = x.op
      BY <1>p, <3>1 DEF NativeCalls, Native!Steps, Native!Listing
    <3>3. Native!Goes(c, new)
      BY <1>p, <2>1, <3>1 DEF Native!To, NativeCalls
    <3> QED BY <1>o, <3>2, <3>3 DEF Native!Steps
  <2> QED BY <1>6, <1>e, <2>1 DEF Native!ReadDir
<1>7. CASE \E n \in Names : Native!Lstats(c, n)
  <2>0. PICK n \in Names : Native!Lstats(c, n)
    BY <1>7
  <2>2. PICK found \in SUBSET Names : found = IF at[n] = Native!Free THEN x.found ELSE x.found \cup {n}
    BY <1>p DEF NativeCalls
  <2>3. CASE Native!Goes(c, [Native!Done(c, "placed") EXCEPT !.found = found])
    <3>1. PICK y \in NativeCalls : y = Native!Done(c, "placed") /\ y.pc = "done" /\ y.op = x.op
      BY <1>p, NativeRecs DEF NativeInv, NativeTyped
    <3>2. PICK new : new = [y EXCEPT !.found = found]
      OBVIOUS
    <3>3. new \in NativeCalls /\ new.pc = "done" /\ new.op = x.op
      BY <3>1, <3>2 DEF NativeCalls
    <3> QED BY <1>o, <2>3, <3>1, <3>2, <3>3
  <2>4. CASE Native!Goes(c, [x EXCEPT !.left = @ \ {n}, !.found = found])
    <3>1. PICK new : new = [x EXCEPT !.left = @ \ {n}, !.found = found]
      OBVIOUS
    <3>2. new \in NativeCalls /\ new.pc = x.pc /\ new.op = x.op
      BY <1>p, <3>1 DEF NativeCalls
    <3> QED BY <1>o, <1>s, <2>4, <3>1, <3>2
  <2> QED BY <1>p, <2>0, <2>2, <2>3, <2>4 DEF Native!Lstats
<1>8. CASE Native!Write(c)
  <2>0. Native!Goes(c, Native!Next1(c)) /\ x.pc = "part" /\ x.op.api = "POSTFORM" /\ x.op \in Ops
    BY <1>8, <1>p DEF Native!Write, Asking, Native!FormSteps
  <2>1. CASE Native!Next1(c) = Native!Done(c, "placed") \/ Native!Next1(c) = Native!Done(c, "error")
    BY <1>e, <2>0, <2>1 DEF Native!Ends
  <2>2. CASE x.part # Len(x.op.parts) /\ Native!Expected(c, x.part + 1)
    <3>0. PICK i \in 1 .. Len(x.op.parts) : i = x.part + 1
      <4>1. x.part \in Nat /\ x.part <= Len(x.op.parts) /\ Len(x.op.parts) \in Nat
        BY <1>p, <2>0, FormParts DEF Parting, NativeCalls, Native!Parts
      <4> QED BY <2>2, <4>1
    <3>a. PICK e : e = x.op.parts[i] /\ e.do \in {"prelude", "file", "directory", "remove"} /\ e.name \in Names /\ i \in Native!Parts
      BY <2>0, FormParts
    <3>1. PICK s \in {"prelude", "flstat", "dlstat", "rimraf"} : s = Native!PartStep(e.do)
      BY <3>a DEF Native!PartStep
    <3>2. PICK new : new = [x EXCEPT !.part = i, !.name = e.name, !.pc = s]
      OBVIOUS
    <3>3. new \in NativeCalls /\ new.pc \in Native!Steps /\ new.op = x.op
      <4>1. s \in Native!Steps
        BY DEF Native!Steps, Native!FormSteps
      <4> QED BY <1>p, <3>a, <3>2, <4>1 DEF NativeCalls
    <3>4. Native!Goes(c, new)
      BY <1>p, <2>0, <2>2, <3>0, <3>a, <3>1, <3>2 DEF Native!Next1, Native!Part
    <3> QED BY <1>o, <3>3, <3>4
  <2> QED BY <1>p, <2>1, <2>2 DEF Native!Next1
<1> QED BY <1>1, <1>2, <1>3, <1>4, <1>5, <1>6, <1>7, <1>8

\* A call begins: alone if no other is active.
LEMMA LoneStarts ==
  ASSUME Native!Inputs, NativeInv, AloneInv, NEW c \in Calls, NEW o \in Ops, NEW pc \in Native!Steps \ {"made", "look", "clear", "list", "mv", "stream"},
         NEW kind \in {"none", "file", "dir"}, Native!Starts(c, o, pc, kind),
         pc = "make" => o.api \in Makers
  PROVE  AloneInv' /\ Native!AsTold
<1>0. PICK n \in NativeCalls : n = Native!NoCall /\ n.name = 1
  BY NoCallRec
<1>1. at' = at /\ call[c].pc = "idle" /\ Tidy(at) /\ \A d \in Calls \ {c} : call'[d] = call[d]
  BY DEF Native!Starts, Native!Disk, Native!Files, NativeInv, NativeTyped, Tidy
<1>i. "idle" \notin Native!Steps /\ "done" \notin Native!Steps
  BY DEF Native!Steps, Native!FormSteps
<1>2. Native!AsTold
  <2> SUFFICES ASSUME NEW d \in alone, call'[d].pc = "done" PROVE FALSE
    BY DEF Native!AsTold
  <2>1. d # c /\ d \in Calls /\ call[d].pc \in Native!Steps
    BY <1>1, <1>i DEF AloneInv
  <2> QED BY <1>1, <1>i, <2>1
<1>3. began' = [d \in Calls |-> began'[d]]
  BY DEF AloneInv, Native!Starts
<1>4. ASSUME NEW d \in alone' PROVE d = c /\ Native!Active = {} /\ drives
  BY <1>4 DEF Native!Starts
<1>5. ASSUME Native!Active = {}, drives
      PROVE  /\ call'[c].pc \in Native!Steps /\ (\A e \in Calls : call'[e].pc \in Native!Steps => e = c)
             /\ Lone(c, call'[c], began'[c], at')
  <2>1. PICK new : new = [n EXCEPT !.pc = pc, !.op = o, !.kind = kind]
    OBVIOUS
  <2>2. new.pc = pc /\ new.op = o /\ new.name = 1
    BY <1>0, <2>1 DEF NativeCalls
  <2>3. call'[c] = new /\ began'[c] = at
    <3>1. call' = [call EXCEPT ![c] = new] /\ began' = [began EXCEPT ![c] = at]
      BY <1>0, <1>5, <2>1 DEF Native!Starts
    <3> QED BY <3>1 DEF NativeInv, NativeTyped, AloneInv
  <2>4. \A e \in Calls : call'[e].pc \in Native!Steps => e = c
    BY <1>1, <1>5 DEF Native!Active
  <2>5. Lone(c, new, at, at')
    <3>1. pc = "make" => ~Moving(new)
      BY <2>2 DEF Moving, Makers, Movers
    <3>2. pc \in {"make", "mv"} => Ready(new, at, at')
      BY <1>1, <2>2, <3>1 DEF Ready
    <3> QED BY <1>1, <2>2, <3>2 DEF Lone
  <2> QED BY <2>2, <2>3, <2>4, <2>5
<1> QED BY <1>2, <1>3, <1>4, <1>5 DEF AloneInv

LEMMA LoneAsks ==
  ASSUME Native!Inputs, NativeInv, AloneInv, NEW c \in Calls, NEW o \in Ops, Native!Ask(c, o)
  PROVE  AloneInv' /\ Native!AsTold
<1>0. {"make", "peek", "remove", "target", "part", "stat"} \subseteq Native!Steps
  BY DEF Native!Steps, Native!FormSteps
<1>1. ASSUME NEW pc \in {"make", "peek", "remove", "target", "part", "stat"}, NEW kind \in {"none", "file", "dir"},
             Native!Starts(c, o, pc, kind), pc = "make" => o.api \in Makers
      PROVE  AloneInv' /\ Native!AsTold
  BY <1>0, <1>1, LoneStarts
<1>2. CASE Native!PATCH(c, o) /\ UNCHANGED <<at, alone, began>>
           /\ call[c].pc = "idle" /\ call' = [call EXCEPT ![c] = [Native!NoCall EXCEPT !.pc = "done", !.op = o, !.answer = "error"]]
  <2>1. \A d \in alone : d \in Calls /\ d # c /\ call'[d] = call[d]
    BY <1>2 DEF AloneInv, Native!Steps, Native!FormSteps, NativeInv, NativeTyped
  <2>2. PICK n : n = [Native!NoCall EXCEPT !.pc = "done", !.op = o, !.answer = "error"]
    OBVIOUS
  <2>3. n.pc = "done"
    BY <2>2 DEF Native!NoCall
  <2>4. call'[c].pc = "done" /\ \A d \in Calls \ {c} : call'[d] = call[d]
    BY <1>2, <2>2, <2>3 DEF NativeInv, NativeTyped
  <2>5. AloneInv'
    BY <1>2, <2>1, <2>4 DEF AloneInv, Native!Steps, Native!FormSteps
  <2>6. Native!AsTold
    BY <2>1 DEF AloneInv, Native!AsTold, Native!Steps, Native!FormSteps
  <2> QED BY <2>5, <2>6
<1>3. CASE Native!PATCH(c, o)
  <2>1. CASE {o.same, o.diff} \subseteq {"none", "skip", "replace", "rename"}
    BY <1>1, <1>3, <2>1 DEF Native!PATCH
  <2>2. CASE ~({o.same, o.diff} \subseteq {"none", "skip", "replace", "rename"})
    BY <1>2, <1>3, <2>2 DEF Native!PATCH, Native!Disk, Native!Files
  <2> QED BY <2>1, <2>2
<1>4. CASE Native!POSTFORM(c, o)
  <2>1. PICK pc \in {"target", "part"} : Native!Starts(c, o, pc, "none")
    BY <1>4 DEF Native!POSTFORM
  <2> QED BY <1>1, <2>1
<1> QED BY <1>1, <1>3, <1>4 DEF Native!Ask, Native!MKDIRS, Native!MVDIRS, Native!NEWFILE, Native!CPFILE, Native!MVFILE, Native!DELETE, Native!GET, Makers

LEMMA LoneKept ==
  ASSUME Native!Inputs, NativeInv, AloneInv, [Native!Next]_(Native!vars)
  PROVE  AloneInv' /\ Native!AsTold
<1>1. CASE UNCHANGED Native!vars \/ Native!Update
  BY <1>1, AloneRests DEF Native!vars, Native!Update, Native!Disk, Native!Files
<1>2. ASSUME NEW c \in Calls, NEW o \in Ops, Native!Ask(c, o) PROVE AloneInv' /\ Native!AsTold
  BY <1>2, LoneAsks
<1>3. ASSUME NEW c \in Calls, Native!Proceed(c) PROVE AloneInv' /\ Native!AsTold
  BY <1>3, LoneNames, LoneMade, LoneMoves, LoneStreams, LoneRest DEF Native!Proceed
<1>4. ASSUME NEW c \in Calls, Native!StreamFails(c) \/ Native!BreaksOff(c) \/ Native!Fault(c) \/ Native!MvFault(c)
      PROVE  AloneInv' /\ Native!AsTold
  BY <1>4, LoneFaults, LoneMoves
<1> QED BY <1>1, <1>2, <1>3, <1>4 DEF Native!Next

\* A call on a name of a USB volume that no other call disturbs and no fault meets leaves the
\* directory, and answers, as its policy promises of one step (NFS.js).
THEOREM NativeAsTold == Native!Inputs => (Native!Spec => [][Native!AsTold]_(Native!vars))
<1> SUFFICES ASSUME Native!Inputs PROVE Native!Spec => [][Native!AsTold]_(Native!vars)
  OBVIOUS
<1>1. Native!Init => NativeInv
  BY NativeBegins
<1>2. NativeInv /\ [Native!Next]_(Native!vars) => NativeInv'
  BY NativeKept
<1>3. Native!Init => AloneInv
  BY DEF Native!Init, AloneInv
<1>4. NativeInv /\ AloneInv /\ [Native!Next]_(Native!vars) => AloneInv'
  BY LoneKept
<1>5. NativeInv /\ AloneInv /\ [Native!Next]_(Native!vars) => [Native!AsTold]_(Native!vars)
  BY LoneKept
<1> QED BY <1>1, <1>2, <1>3, <1>4, <1>5, PTL DEF Native!Spec

-----------------------------------------------------------------------------
(* Backup.                                                                 *)

Archive == INSTANCE Backup

Vers == {<<>>} \cup UNION {[D -> Calls] : D \in SUBSET Calls}
Attrs == [there : BOOLEAN, vers : Vers, meta : BOOLEAN]
Dirs == [there : BOOLEAN, attr : BOOLEAN, uuid : Calls \cup {0, 9}, deleted : BOOLEAN, full : BOOLEAN]
BackupOps == {"none", "newfile", "delete", "rmdir", "rmtop", "mkdir", "update", "chdir", "read"}
BackupPcs == {"idle", "link", "attr", "new", "drop", "rmattr", "rmdata", "edit", "meta", "write", "wread", "wwrite",
              "mkdir", "getdir", "rimraf", "mkdirp", "setdir", "stat", "peek", "done"}
Tasks == [op : BackupOps, id : Calls \cup {0}, pc : BackupPcs, snap : Attrs, wsnap : SUBSET Calls, dsnap : Dirs,
          answer : {"none", "ok", "error", "lost"}]
ArchiveTyped ==
  /\ data \in BOOLEAN /\ attrs \in Attrs /\ white \in SUBSET Calls /\ dir \in Dirs /\ stale \in SUBSET Calls
  /\ queue \in [Archive!Keys -> Seq(Calls)] /\ task \in [Calls -> Tasks]

\* Which steps a call of each kind takes.
OpFits(e) ==
  /\ e.op = "none" <=> e.pc = "idle"
  /\ e.pc \in {"link", "attr", "new"} => e.op = "newfile"
  /\ e.pc \in {"drop", "rmattr", "rmdata", "wread", "wwrite"} => e.op = "delete"
  /\ e.pc = "edit" => e.op = "update"
  /\ e.pc \in {"peek", "meta"} => e.op = "read"
  /\ e.pc = "stat" => e.op \in {"delete", "read"}
  /\ e.pc = "write" => e.op \in {"newfile", "delete", "update", "read"}
  /\ e.pc \in {"mkdir", "getdir", "rimraf", "mkdirp", "setdir"} => e.op \in {"mkdir", "rmdir", "rmtop", "chdir"}
  /\ e.pc = "mkdir" => e.op = "mkdir"
  /\ e.pc \in {"rimraf", "mkdirp"} => e.op \in {"rmdir", "rmtop"}
  /\ e.pc \in {"mkdirp", "setdir"} => e.op # "rmtop"
  /\ e.pc = "done" <=> e.answer # "none"
\* Between two of its steps a call holds the lock of what it changes.
HoldsLock(e, c) ==
  /\ e.pc \in {"attr", "new", "write", "rmattr", "rmdata"} => Archive!Runs(c, "file")
  /\ e.pc = "wwrite" => Archive!Runs(c, "white")
  /\ e.pc = "setdir" => Archive!Runs(c, "dir")
MadeBefore(id) == id \in Calls /\ task[id].op = "newfile" /\ task[id].pc = "done"
\* What a call read before is still so.
ReadTrue(e, c) ==
  /\ e.op \in {"delete", "update"} => MadeBefore(e.id)
  /\ e.pc \in {"attr", "new", "write"} => data
  /\ e.pc = "write" =>
       /\ e.snap.there
       /\ e.op = "newfile" => e.snap.vers = Archive!Set(attrs.vers, c, c)
       /\ e.op = "update" => e.id \in DOMAIN attrs.vers /\ e.snap.vers = Archive!Set(attrs.vers, e.id, c)
       /\ e.op = "delete" => e.snap.vers = [x \in DOMAIN attrs.vers \ {e.id} |-> attrs.vers[x]]
  /\ e.op = "read" /\ e.pc \in {"meta", "write"} => \A id \in DOMAIN e.snap.vers : MadeBefore(id)
  /\ e.pc = "rmattr" => DOMAIN attrs.vers \subseteq {e.id}
  /\ e.pc = "rmdata" => attrs = Archive!NoAttrs
  /\ e.pc = "wwrite" => e.wsnap = white \cup {e.id}
  /\ e.pc = "setdir" /\ e.op \in {"mkdir", "chdir"} => dir.attr /\ e.dsnap.uuid = dir.uuid
\* What a call did stays so.
DidTrue(e, c) ==
  /\ e.op = "delete" /\ (e.pc \in {"wread", "wwrite"} \/ e.answer = "ok") => e.id \in stale \/ e.id \notin DOMAIN attrs.vers
  /\ e.op = "delete" /\ e.answer = "ok" => e.id \in white
  /\ e.op = "newfile" /\ e.answer = "ok" /\ Archive!Kept(c) /\ c \notin stale => c \in DOMAIN attrs.vers
TaskTrue(e, c) == OpFits(e) /\ HoldsLock(e, c) /\ ReadTrue(e, c) /\ DidTrue(e, c)
AttrsTrue == /\ attrs.there \/ attrs = Archive!NoAttrs
             /\ attrs.there => data
             /\ \A id \in DOMAIN attrs.vers : MadeBefore(id)
ArchiveInv == ArchiveTyped /\ AttrsTrue /\ \A c \in Calls : TaskTrue(task[c], c)

\* Locks.
LocksStay(c) == queue' \in [Archive!Keys -> Seq(Calls)]
                /\ \A d \in Calls \ {c}, k \in Archive!Keys : Archive!Runs(d, k) => Archive!Runs(d, k)'
LEMMA Unlocking ==
  ASSUME ArchiveTyped, NEW c \in Calls, NEW k \in Archive!Keys, Archive!Runs(c, k), queue' = Archive!Shifted(k)
  PROVE  LocksStay(c)
<1>1. PICK q \in Seq(Calls) : q = queue[k] /\ q # <<>> /\ Head(q) = c
  BY DEF ArchiveTyped, Archive!Runs
<1>2. Tail(q) \in Seq(Calls)
  BY <1>1
<1>3. queue' = [queue EXCEPT ![k] = Tail(q)]
  BY <1>1 DEF Archive!Shifted
<1>4. queue' \in [Archive!Keys -> Seq(Calls)]
  BY <1>2, <1>3 DEF ArchiveTyped
<1>5. ASSUME NEW d \in Calls \ {c}, NEW j \in Archive!Keys, Archive!Runs(d, j) PROVE Archive!Runs(d, j)'
  <2>1. j # k
    BY <1>1, <1>5 DEF Archive!Runs
  <2>2. queue'[j] = queue[j]
    BY <1>3, <2>1 DEF ArchiveTyped
  <2> QED BY <1>5, <2>2 DEF Archive!Runs
<1> QED BY <1>4, <1>5 DEF LocksStay

LEMMA Waiting ==
  ASSUME ArchiveTyped, NEW c \in Calls, NEW k \in Archive!Keys, queue' = [queue EXCEPT ![k] = Append(@, c)]
  PROVE  LocksStay(c) /\ \A j \in Archive!Keys : Archive!Runs(c, j) => Archive!Runs(c, j)'
<1>1. PICK q \in Seq(Calls) : q = queue[k]
  BY DEF ArchiveTyped
<1>2. Append(q, c) \in Seq(Calls) /\ (q # <<>> => Append(q, c) # <<>> /\ Head(Append(q, c)) = Head(q))
  <2>1. Append(q, c) \in Seq(Calls)
    BY <1>1
  <2>2. ASSUME q # <<>> PROVE Append(q, c) # <<>> /\ Head(Append(q, c)) = Head(q)
    BY <1>1, <2>2
  <2> QED BY <2>1, <2>2
<1>3. queue' = [queue EXCEPT ![k] = Append(q, c)]
  BY <1>1
<1>4. queue' \in [Archive!Keys -> Seq(Calls)]
  BY <1>2, <1>3 DEF ArchiveTyped
<1>5. ASSUME NEW d \in Calls, NEW j \in Archive!Keys, Archive!Runs(d, j) PROVE Archive!Runs(d, j)'
  <2>1. CASE j = k
    BY <1>1, <1>2, <1>3, <1>5, <2>1 DEF Archive!Runs, ArchiveTyped
  <2>2. CASE j # k
    BY <1>3, <1>5, <2>2 DEF Archive!Runs, ArchiveTyped
  <2> QED BY <2>1, <2>2
<1> QED BY <1>4, <1>5 DEF LocksStay

\* What becomes of the call of a step.
Follows(e, o) == e.op = o.op /\ e.id = o.id
LEMMA CallGoes ==
  ASSUME ArchiveTyped, NEW c \in Calls, NEW pc \in BackupPcs, task' = [task EXCEPT ![c].pc = pc]
  PROVE  \E e \in Tasks : /\ task' = [task EXCEPT ![c] = e] /\ Follows(e, task[c]) /\ e.pc = pc
                          /\ e.snap = task[c].snap /\ e.wsnap = task[c].wsnap /\ e.dsnap = task[c].dsnap /\ e.answer = task[c].answer
<1>1. PICK o \in Tasks : o = task[c]
  BY DEF ArchiveTyped
<1>2. PICK e : e = [o EXCEPT !.pc = pc]
  OBVIOUS
<1>3. task' = [task EXCEPT ![c] = e]
  BY <1>1, <1>2
<1>4. e \in Tasks /\ Follows(e, o) /\ e.pc = pc /\ e.snap = o.snap /\ e.wsnap = o.wsnap /\ e.dsnap = o.dsnap /\ e.answer = o.answer
  BY <1>2 DEF Tasks, Follows
<1> QED BY <1>1, <1>3, <1>4

LEMMA CallEnds ==
  ASSUME ArchiveTyped, NEW c \in Calls, NEW what \in {"ok", "error"}, Archive!Ends(c, what),
         Archive!KeyOf(task[c].pc) # "none" => Archive!Runs(c, Archive!KeyOf(task[c].pc))
  PROVE  /\ LocksStay(c)
         /\ \E e \in Tasks : task' = [task EXCEPT ![c] = e] /\ Follows(e, task[c]) /\ e.pc = "done" /\ e.answer = what
<1>1. PICK o \in Tasks : o = task[c]
  BY DEF ArchiveTyped
<1>2. PICK e : e = [o EXCEPT !.pc = "done", !.answer = what]
  OBVIOUS
<1>3. task' = [task EXCEPT ![c] = e]
  BY <1>1, <1>2 DEF Archive!Ends, ArchiveTyped
<1>4. e \in Tasks /\ Follows(e, o) /\ e.pc = "done" /\ e.answer = what
  BY <1>2 DEF Tasks, Follows, BackupPcs
<1>5. LocksStay(c)
  <2>1. CASE Archive!KeyOf(task[c].pc) = "none"
    BY <2>1 DEF Archive!Ends, LocksStay, ArchiveTyped, Archive!Runs
  <2>2. CASE Archive!KeyOf(task[c].pc) # "none"
    <3>1. Archive!KeyOf(task[c].pc) \in Archive!Keys
      BY <2>2 DEF Archive!KeyOf, Archive!Keys
    <3> QED BY <2>2, <3>1, Unlocking DEF Archive!Ends
  <2> QED BY <2>1, <2>2
<1> QED BY <1>1, <1>3, <1>4, <1>5

LEMMA CallWrites ==
  ASSUME ArchiveTyped, NEW c \in Calls, NEW v \in Vers, NEW meta \in BOOLEAN, Archive!Writes(c, v, meta)
  PROVE  \E e \in Tasks : /\ task' = [task EXCEPT ![c] = e] /\ Follows(e, task[c]) /\ e.pc = "write"
                          /\ e.snap.there /\ e.snap.vers = v /\ e.answer = task[c].answer
<1>1. PICK o \in Tasks : o = task[c]
  BY DEF ArchiveTyped
<1>0. PICK a \in Attrs : a = [there |-> TRUE, vers |-> v, meta |-> meta]
  BY DEF Attrs
<1>2. PICK e : e = [o EXCEPT !.pc = "write", !.snap = a]
  OBVIOUS
<1>3. task' = [task EXCEPT ![c] = e]
  BY <1>0, <1>1, <1>2 DEF Archive!Writes, ArchiveTyped
<1>4. e \in Tasks /\ Follows(e, o) /\ e.pc = "write" /\ e.snap = a /\ e.answer = o.answer
  BY <1>2 DEF Tasks, Follows, BackupPcs
<1>5. e.snap.there /\ e.snap.vers = v
  BY <1>0, <1>4
<1> QED BY <1>1, <1>3, <1>4, <1>5

LEMMA CallWhite ==
  ASSUME ArchiveTyped, NEW c \in Calls, Archive!Runs(c, "file"), Archive!ThenWhite(c)
  PROVE  /\ LocksStay(c)
         /\ \E e \in Tasks : task' = [task EXCEPT ![c] = e] /\ Follows(e, task[c]) /\ e.pc = "wread" /\ e.answer = task[c].answer
<1>1. \E e \in Tasks : task' = [task EXCEPT ![c] = e] /\ Follows(e, task[c]) /\ e.pc = "wread" /\ e.answer = task[c].answer
  <2>1. task' = [task EXCEPT ![c].pc = "wread"] /\ "wread" \in BackupPcs
    BY DEF Archive!ThenWhite, BackupPcs
  <2>2. \E e \in Tasks : /\ task' = [task EXCEPT ![c] = e] /\ Follows(e, task[c]) /\ e.pc = "wread"
                         /\ e.snap = task[c].snap /\ e.wsnap = task[c].wsnap /\ e.dsnap = task[c].dsnap /\ e.answer = task[c].answer
    BY <2>1, CallGoes
  <2> QED BY <2>2
<1>2. PICK f \in Seq(Calls), w \in Seq(Calls) : f = queue["file"] /\ w = queue["white"] /\ f # <<>> /\ Head(f) = c
  BY DEF ArchiveTyped, Archive!Runs, Archive!Keys
<1>3. Tail(f) \in Seq(Calls) /\ Append(w, c) \in Seq(Calls)
  BY <1>2
<1>4. queue' = [[queue EXCEPT !["file"] = Tail(f)] EXCEPT !["white"] = Append(w, c)]
  BY <1>2 DEF Archive!ThenWhite, Archive!Shifted, ArchiveTyped
<1>5. queue' \in [Archive!Keys -> Seq(Calls)] /\ queue'["white"] = Append(w, c) /\ queue'["dir"] = queue["dir"]
  BY <1>3, <1>4 DEF ArchiveTyped, Archive!Keys
<1>6. ASSUME NEW d \in Calls \ {c}, NEW j \in Archive!Keys, Archive!Runs(d, j) PROVE Archive!Runs(d, j)'
  <2>1. CASE j = "file"
    BY <1>2, <1>6, <2>1 DEF Archive!Runs
  <2>2. CASE j = "white"
    <3>1. w # <<>> /\ Head(w) = d
      BY <1>2, <1>6, <2>2 DEF Archive!Runs
    <3>2. Append(w, c) # <<>> /\ Head(Append(w, c)) = d
      BY <1>2, <3>1
    <3> QED BY <1>5, <2>2, <3>2 DEF Archive!Runs
  <2>3. CASE j = "dir"
    BY <1>5, <1>6, <2>3 DEF Archive!Runs
  <2> QED BY <2>1, <2>2, <2>3 DEF Archive!Keys
<1> QED BY <1>1, <1>5, <1>6 DEF LocksStay

\* A step of one call leaves the others right: what it changes it has locked.
AttrsBy(c, e) ==
  \/ UNCHANGED <<data, attrs, stale>>
  \/ /\ Archive!Runs(c, "file") /\ stale \subseteq stale'
     /\ \A id \in DOMAIN attrs'.vers : id \in DOMAIN attrs.vers \/ id = c \/ id \in stale'
     /\ \A id \in DOMAIN attrs.vers : id \in DOMAIN attrs'.vers \/ (e.op = "delete" /\ e.id = id) \/ id \in stale'
WhiteBy(c) == UNCHANGED white \/ (Archive!Runs(c, "white") /\ white \subseteq white')
DirBy(c) == UNCHANGED dir \/ Archive!Runs(c, "dir")
LEMMA OneCall ==
  ASSUME ArchiveInv, NEW c \in Calls, NEW e \in Tasks, task' = [task EXCEPT ![c] = e], task[c].pc # "done",
         task[c].op = "none" \/ Follows(e, task[c]),
         data' \in BOOLEAN, attrs' \in Attrs, white' \in SUBSET Calls, dir' \in Dirs, stale' \in SUBSET Calls, LocksStay(c),
         AttrsBy(c, e), WhiteBy(c), DirBy(c),
         attrs'.there \/ attrs' = Archive!NoAttrs, attrs'.there => data',
         \A id \in DOMAIN attrs'.vers : id \in DOMAIN attrs.vers \/ MadeBefore(id)',
         TaskTrue(e, c)'
  PROVE  ArchiveInv'
<1>0. ArchiveTyped' /\ task'[c] = e /\ (\A d \in Calls \ {c} : task'[d] = task[d])
  BY DEF ArchiveInv, ArchiveTyped, LocksStay
<1>1. \A id : MadeBefore(id) => MadeBefore(id)'
  BY <1>0 DEF MadeBefore
<1>2. AttrsTrue'
  BY <1>1 DEF ArchiveInv, AttrsTrue
<1>3. ASSUME NEW d \in Calls \ {c} PROVE TaskTrue(task[d], d)'
  <2>1. PICK f \in Tasks : f = task[d] /\ f = task'[d] /\ TaskTrue(f, d)
    BY <1>0 DEF ArchiveInv, ArchiveTyped
  <2>2. HoldsLock(f, d)'
    BY <2>1 DEF TaskTrue, HoldsLock, LocksStay, Archive!Keys
  <2>3. f.pc \in {"attr", "new", "write", "rmattr", "rmdata"} => UNCHANGED <<data, attrs>>
    BY <2>1 DEF TaskTrue, HoldsLock, AttrsBy, Archive!Runs
  <2>4. f.pc = "wwrite" => UNCHANGED white
    BY <2>1 DEF TaskTrue, HoldsLock, WhiteBy, Archive!Runs
  <2>5. f.pc = "setdir" => UNCHANGED dir
    BY <2>1 DEF TaskTrue, HoldsLock, DirBy, Archive!Runs
  <2>6. ReadTrue(f, d)'
    BY <1>1, <2>1, <2>3, <2>4, <2>5 DEF TaskTrue, ReadTrue, OpFits
  <2>7. Archive!Kept(d)' => Archive!Kept(d)
    BY <1>0 DEF Archive!Kept, Follows
  <2>8. f.op = "delete" => f.id # c
    BY <2>1 DEF TaskTrue, ReadTrue, MadeBefore
  <2>9. stale \subseteq stale'
    BY DEF AttrsBy
  <2>10. DidTrue(f, d)'
    <3>1. f.op = "delete" /\ (f.pc \in {"wread", "wwrite"} \/ f.answer = "ok") => f.id \in stale' \/ f.id \notin DOMAIN attrs'.vers
      BY <2>1, <2>8, <2>9 DEF TaskTrue, DidTrue, AttrsBy
    <3>2. f.op = "delete" /\ f.answer = "ok" => f.id \in white'
      BY <2>1 DEF TaskTrue, DidTrue, WhiteBy
    <3>3. f.op = "newfile" /\ f.answer = "ok" /\ Archive!Kept(d)' /\ d \notin stale' => d \in DOMAIN attrs'.vers
      <4>1. Archive!Kept(d)' => ~(e.op = "delete" /\ e.id = d)
        BY <1>0 DEF Archive!Kept
      <4> QED BY <2>1, <2>7, <2>9, <4>1 DEF TaskTrue, DidTrue, AttrsBy
    <3> QED BY <3>1, <3>2, <3>3 DEF DidTrue
  <2>11. TaskTrue(f, d)'
    BY <2>1, <2>2, <2>6, <2>10 DEF TaskTrue, OpFits
  <2> QED BY <2>1, <2>11
<1>4. TaskTrue(task[c], c)'
  BY <1>0
<1> QED BY <1>0, <1>2, <1>3, <1>4 DEF ArchiveInv

\* A step that ends a call with an error leaves all else alone.
LEMMA Erring ==
  ASSUME ArchiveInv, NEW c \in Calls, task[c].pc \notin {"idle", "done"}, Archive!Ends(c, "error"),
         Archive!KeyOf(task[c].pc) # "none" => Archive!Runs(c, Archive!KeyOf(task[c].pc)),
         UNCHANGED <<data, attrs, white, dir, stale>>
  PROVE  ArchiveInv'
<1>0. ArchiveTyped /\ TaskTrue(task[c], c)
  BY DEF ArchiveInv
<1>1. PICK e \in Tasks : task' = [task EXCEPT ![c] = e] /\ Follows(e, task[c]) /\ e.pc = "done" /\ e.answer = "error"
  BY <1>0, CallEnds
<1>2. LocksStay(c)
  BY <1>0, CallEnds
<1>3. TaskTrue(e, c)'
  <2>1. OpFits(e) /\ HoldsLock(e, c)' /\ DidTrue(e, c)'
    BY <1>0, <1>1 DEF TaskTrue, OpFits, HoldsLock, DidTrue, Follows
  <2>2. ReadTrue(e, c)'
    <3>1. e.op \in {"delete", "update"} => MadeBefore(e.id) /\ e.id # c
      BY <1>0, <1>1 DEF TaskTrue, ReadTrue, Follows, MadeBefore
    <3>2. MadeBefore(e.id) /\ e.id # c => MadeBefore(e.id)'
      BY <1>0, <1>1 DEF MadeBefore, ArchiveTyped
    <3> QED BY <1>1, <3>1, <3>2 DEF ReadTrue
  <2> QED BY <2>1, <2>2 DEF TaskTrue
<1>4. data \in BOOLEAN /\ attrs \in Attrs /\ white \in SUBSET Calls /\ dir \in Dirs /\ stale \in SUBSET Calls /\ AttrsTrue
  BY DEF ArchiveInv, ArchiveTyped
<1> QED BY <1>1, <1>2, <1>3, <1>4, OneCall DEF AttrsBy, WhiteBy, DirBy, AttrsTrue

\* The same of a step whose call goes on.
LEMMA CallGoesOn ==
  ASSUME ArchiveInv, NEW c \in Calls, NEW e \in Tasks, task' = [task EXCEPT ![c] = e], task[c].pc # "done",
         Follows(e, task[c]), UNCHANGED <<attrs, white, dir, stale>>, data' \in BOOLEAN, data => data',
         UNCHANGED data \/ Archive!Runs(c, "file"), LocksStay(c),
         OpFits(e), HoldsLock(e, c)', e.pc \notin {"wread", "wwrite", "done"},
         e.pc \in {"attr", "new", "write"} => data',
         e.pc = "write" =>
            /\ e.snap.there
            /\ e.op = "newfile" => e.snap.vers = Archive!Set(attrs.vers, c, c)
            /\ e.op = "update" => e.id \in DOMAIN attrs.vers /\ e.snap.vers = Archive!Set(attrs.vers, e.id, c)
            /\ e.op = "delete" => e.snap.vers = [x \in DOMAIN attrs.vers \ {e.id} |-> attrs.vers[x]],
         e.op = "read" /\ e.pc \in {"meta", "write"} => \A id \in DOMAIN e.snap.vers : MadeBefore(id),
         e.pc = "rmattr" => DOMAIN attrs.vers \subseteq {e.id},
         e.pc = "rmdata" => attrs = Archive!NoAttrs,
         e.pc = "setdir" /\ e.op \in {"mkdir", "chdir"} => dir.attr /\ e.dsnap.uuid = dir.uuid
  PROVE  ArchiveInv'
<1>0. ArchiveTyped /\ TaskTrue(task[c], c) /\ AttrsTrue
  BY DEF ArchiveInv
<1>1. \A id : MadeBefore(id) => MadeBefore(id)'
  BY <1>0 DEF MadeBefore, ArchiveTyped
<1>2. e.op \in {"delete", "update"} => MadeBefore(e.id)
  BY <1>0 DEF TaskTrue, ReadTrue, Follows
<1>3. ReadTrue(e, c)'
  BY <1>1, <1>2 DEF ReadTrue
<1>4. DidTrue(e, c)'
  BY DEF DidTrue, OpFits
<1>5. TaskTrue(e, c)'
  BY <1>3, <1>4 DEF TaskTrue, OpFits
<1>6. AttrsBy(c, e) /\ WhiteBy(c) /\ DirBy(c)
  BY DEF AttrsBy, WhiteBy, DirBy
<1>7. attrs' \in Attrs /\ white' \in SUBSET Calls /\ dir' \in Dirs /\ stale' \in SUBSET Calls
      /\ (attrs'.there \/ attrs' = Archive!NoAttrs) /\ (attrs'.there => data')
  BY <1>0 DEF ArchiveTyped, AttrsTrue
<1> QED BY <1>5, <1>6, <1>7, OneCall

LEMMA VersionsAre ==
  ASSUME NEW v \in Vers
  PROVE  /\ DOMAIN v \subseteq Calls /\ (\A x \in DOMAIN v : v[x] \in Calls)
         /\ \A S \in SUBSET DOMAIN v : [x \in S |-> v[x]] \in Vers
         /\ \A id \in Calls, by \in Calls : Archive!Set(v, id, by) \in Vers /\ DOMAIN Archive!Set(v, id, by) = DOMAIN v \cup {id}
<1>1. DOMAIN v \subseteq Calls /\ (\A x \in DOMAIN v : v[x] \in Calls)
  <2>1. DOMAIN <<>> = {}
    OBVIOUS
  <2>2. CASE v = <<>>
    BY <2>1, <2>2
  <2>3. CASE \E D \in SUBSET Calls : v \in [D -> Calls]
    BY <2>3
  <2> QED BY <2>2, <2>3 DEF Vers
<1>2. ASSUME NEW S \in SUBSET DOMAIN v PROVE [x \in S |-> v[x]] \in Vers
  <2>1. [x \in S |-> v[x]] \in [S -> Calls] /\ S \in SUBSET Calls
    BY <1>1
  <2> QED BY <2>1 DEF Vers
<1>3. ASSUME NEW id \in Calls, NEW by \in Calls PROVE Archive!Set(v, id, by) \in Vers /\ DOMAIN Archive!Set(v, id, by) = DOMAIN v \cup {id}
  <2>1. Archive!Set(v, id, by) \in [DOMAIN v \cup {id} -> Calls] /\ DOMAIN v \cup {id} \in SUBSET Calls
    BY <1>1 DEF Archive!Set
  <2> QED BY <2>1 DEF Vers
<1> QED BY <1>1, <1>2, <1>3

LEMMA VersionSet ==
  ASSUME NEW v \in Vers, NEW id \in Calls, NEW by \in Calls
  PROVE  Archive!Set(v, id, by) \in Vers /\ DOMAIN Archive!Set(v, id, by) = DOMAIN v \cup {id}
BY VersionsAre

\* A call begins.
LEMMA BackupBegins ==
  ASSUME ArchiveInv, NEW c \in Calls, Archive!Asks(c)
  PROVE  ArchiveInv'
<1>0. ArchiveTyped /\ TaskTrue(task[c], c) /\ AttrsTrue
  BY DEF ArchiveInv
<1>1. ASSUME NEW op \in BackupOps, NEW id \in Calls \cup {0}, NEW pc \in {"link", "stat", "getdir", "mkdir", "edit"},
             Archive!Ask(c, op, id, pc), op # "none",
             pc = "link" => op = "newfile", pc = "edit" => op = "update", pc = "stat" => op \in {"delete", "read"},
             pc = "mkdir" => op = "mkdir", pc \in {"mkdir", "getdir"} => op \in {"mkdir", "rmdir", "rmtop", "chdir"},
             op \in {"delete", "update"} => id \in DOMAIN attrs.vers
      PROVE  ArchiveInv'
  <2>1. PICK e : e = [Archive!NoTask EXCEPT !.op = op, !.id = id, !.pc = pc]
    OBVIOUS
  <2>2. e = [op |-> op, id |-> id, pc |-> pc, snap |-> Archive!NoAttrs, wsnap |-> {}, dsnap |-> Archive!Gone, answer |-> "none"]
    BY <2>1 DEF Archive!NoTask
  <2>3. Archive!NoAttrs \in Attrs /\ Archive!Gone \in Dirs /\ pc \in BackupPcs
    BY DEF Archive!NoAttrs, Archive!Gone, Attrs, Vers, Dirs, BackupPcs
  <2>4. e \in Tasks /\ e.op = op /\ e.id = id /\ e.pc = pc /\ e.answer = "none"
    BY <2>2, <2>3 DEF Tasks
  <2>5. task' = [task EXCEPT ![c] = e] /\ task[c].pc = "idle" /\ UNCHANGED <<data, attrs, white, dir, stale>>
    BY <1>1, <2>1 DEF Archive!Ask, Archive!Disk, Archive!Others
  <2>6. LocksStay(c)
    <3>1. CASE pc = "stat"
      BY <1>0, <1>1, <3>1 DEF Archive!Ask, LocksStay, ArchiveTyped, Archive!Runs
    <3>2. CASE pc # "stat"
      <4>1. Archive!KeyOf(pc) \in Archive!Keys
        BY <3>2 DEF Archive!KeyOf, Archive!Keys
      <4> QED BY <1>0, <1>1, <3>2, <4>1, Waiting DEF Archive!Ask
    <3> QED BY <3>1, <3>2
  <2>7. task[c].op = "none"
    BY <1>0, <2>5 DEF TaskTrue, OpFits
  <2>8. op \in {"delete", "update"} => MadeBefore(id)'
    <3>1. op \in {"delete", "update"} => MadeBefore(id) /\ id # c
      BY <1>0, <1>1, <2>5 DEF AttrsTrue, MadeBefore
    <3> QED BY <1>0, <2>5, <3>1 DEF MadeBefore, ArchiveTyped
  <2>9. TaskTrue(e, c)'
    <3>1. OpFits(e)
      BY <1>1, <2>4 DEF OpFits
    <3>2. HoldsLock(e, c)' /\ DidTrue(e, c)'
      BY <2>4 DEF HoldsLock, DidTrue
    <3>3. ReadTrue(e, c)'
      BY <2>4, <2>8 DEF ReadTrue
    <3> QED BY <3>1, <3>2, <3>3 DEF TaskTrue, OpFits
  <2>10. data \in BOOLEAN /\ attrs \in Attrs /\ white \in SUBSET Calls /\ dir \in Dirs /\ stale \in SUBSET Calls
    BY <1>0 DEF ArchiveTyped
  <2> QED BY <1>0, <2>4, <2>5, <2>6, <2>7, <2>9, <2>10, OneCall DEF AttrsBy, WhiteBy, DirBy, AttrsTrue
<1>2. DOMAIN attrs.vers \subseteq Calls
  BY <1>0 DEF AttrsTrue, MadeBefore
<1>3. CASE Archive!newfile(c)
  BY <1>1, <1>3 DEF Archive!newfile, BackupOps
<1>4. CASE \E id \in DOMAIN attrs.vers : Archive!Ask(c, "delete", id, "stat")
  BY <1>1, <1>2, <1>4 DEF BackupOps
<1>5. CASE \E op \in {"rmdir", "rmtop"} : Archive!Ask(c, op, 0, "getdir")
  BY <1>1, <1>5 DEF BackupOps
<1>6. CASE Archive!mkdir(c)
  BY <1>1, <1>6 DEF Archive!mkdir, BackupOps
<1>7. CASE Archive!updateFile(c)
  BY <1>1, <1>2, <1>7 DEF Archive!updateFile, BackupOps
<1>8. CASE Archive!updateDir(c)
  BY <1>1, <1>8 DEF Archive!updateDir, BackupOps
<1>9. CASE Archive!readdir(c)
  BY <1>1, <1>9 DEF Archive!readdir, BackupOps
<1> QED BY <1>3, <1>4, <1>5, <1>6, <1>7, <1>8, <1>9 DEF Archive!Asks, Archive!delete

\* A step to another pc under the lock it has, or without one.
LEMMA GoesOn ==
  ASSUME ArchiveInv, NEW c \in Calls, NEW pc \in BackupPcs, Archive!Goes(c, pc), task[c].pc # "done",
         UNCHANGED <<attrs, white, dir, stale>>, data' \in BOOLEAN, data => data', UNCHANGED data \/ Archive!Runs(c, "file"),
         pc \in {"attr", "new", "rmattr", "peek", "getdir"},
         pc \in {"attr", "new"} => task[c].op = "newfile" /\ Archive!Runs(c, "file") /\ data',
         pc = "rmattr" => task[c].op = "delete" /\ Archive!Runs(c, "file") /\ DOMAIN attrs.vers \subseteq {task[c].id},
         pc = "peek" => task[c].op = "read",
         pc = "getdir" => task[c].op = "mkdir"
  PROVE  ArchiveInv'
<1>0. ArchiveTyped /\ TaskTrue(task[c], c)
  BY DEF ArchiveInv
<1>1. task' = [task EXCEPT ![c].pc = pc] /\ UNCHANGED queue
  BY DEF Archive!Goes
<1>2. PICK e \in Tasks : /\ task' = [task EXCEPT ![c] = e] /\ Follows(e, task[c]) /\ e.pc = pc
                         /\ e.snap = task[c].snap /\ e.wsnap = task[c].wsnap /\ e.dsnap = task[c].dsnap /\ e.answer = task[c].answer
  BY <1>0, <1>1, CallGoes
<1>3. LocksStay(c)
  BY <1>0, <1>1 DEF ArchiveTyped, LocksStay, Archive!Runs
<1>4. OpFits(e)
  BY <1>0, <1>2 DEF TaskTrue, OpFits, Follows
<1>5. HoldsLock(e, c)'
  BY <1>0, <1>1, <1>2 DEF TaskTrue, HoldsLock, Archive!Runs
<1>6. (e.pc \in {"attr", "new", "write"} => data') /\ (e.pc = "rmattr" => DOMAIN attrs.vers \subseteq {e.id})
  BY <1>2 DEF Follows
<1> QED BY <1>2, <1>3, <1>4, <1>5, <1>6, CallGoesOn

\* A step that reads the attributes, of which the next one writes what it makes.
LEMMA WritesNext ==
  ASSUME ArchiveInv, NEW c \in Calls, NEW v \in Vers, NEW meta \in BOOLEAN, Archive!Writes(c, v, meta), task[c].pc # "done",
         Archive!Runs(c, "file"), data, UNCHANGED <<data, attrs, white, dir, stale>>,
         LET o == task[c] IN
         /\ o.op \in {"newfile", "update", "delete", "read"}
         /\ o.op = "newfile" => v = Archive!Set(attrs.vers, c, c)
         /\ o.op = "update" => o.id \in DOMAIN attrs.vers /\ v = Archive!Set(attrs.vers, o.id, c)
         /\ o.op = "delete" => v = [x \in DOMAIN attrs.vers \ {o.id} |-> attrs.vers[x]]
         /\ o.op = "read" => \A id \in DOMAIN v : MadeBefore(id)
  PROVE  ArchiveInv'
<1>0. ArchiveTyped /\ TaskTrue(task[c], c)
  BY DEF ArchiveInv
<1>1. PICK e \in Tasks : /\ task' = [task EXCEPT ![c] = e] /\ Follows(e, task[c]) /\ e.pc = "write"
                         /\ e.snap.there /\ e.snap.vers = v /\ e.answer = task[c].answer
  BY <1>0, CallWrites
<1>2. UNCHANGED queue /\ data \in BOOLEAN
  BY <1>0 DEF Archive!Writes, ArchiveTyped
<1>3. LocksStay(c)
  BY <1>0, <1>2 DEF ArchiveTyped, LocksStay, Archive!Runs
<1>4. OpFits(e)
  BY <1>0, <1>1 DEF TaskTrue, OpFits, Follows
<1>5. HoldsLock(e, c)'
  BY <1>0, <1>1, <1>2 DEF HoldsLock, Archive!Runs
<1> QED BY <1>1, <1>2, <1>3, <1>4, <1>5, CallGoesOn DEF Follows

\* A call ends well that changes no versions.
LEMMA EndsWell ==
  ASSUME ArchiveInv, NEW c \in Calls, task[c].pc \notin {"idle", "done"}, task[c].op \notin {"newfile", "delete"}, Archive!Ends(c, "ok"),
         Archive!KeyOf(task[c].pc) # "none" => Archive!Runs(c, Archive!KeyOf(task[c].pc)),
         UNCHANGED <<data, attrs, white, stale>>, dir' \in Dirs, DirBy(c)
  PROVE  ArchiveInv'
<1>0. ArchiveTyped /\ TaskTrue(task[c], c)
  BY DEF ArchiveInv
<1>1. PICK e \in Tasks : task' = [task EXCEPT ![c] = e] /\ Follows(e, task[c]) /\ e.pc = "done" /\ e.answer = "ok"
  BY <1>0, CallEnds
<1>2. LocksStay(c)
  BY <1>0, CallEnds
<1>3. TaskTrue(e, c)'
  <2>1. OpFits(e) /\ HoldsLock(e, c)' /\ DidTrue(e, c)'
    BY <1>0, <1>1 DEF TaskTrue, OpFits, HoldsLock, DidTrue, Follows
  <2>2. ReadTrue(e, c)'
    <3>1. e.op \in {"delete", "update"} => MadeBefore(e.id) /\ e.id # c
      BY <1>0, <1>1 DEF TaskTrue, ReadTrue, Follows, MadeBefore
    <3>2. MadeBefore(e.id) /\ e.id # c => MadeBefore(e.id)'
      BY <1>0, <1>1 DEF MadeBefore, ArchiveTyped
    <3> QED BY <1>1, <3>1, <3>2 DEF ReadTrue
  <2> QED BY <2>1, <2>2 DEF TaskTrue
<1>4. data \in BOOLEAN /\ attrs \in Attrs /\ white \in SUBSET Calls /\ stale \in SUBSET Calls /\ AttrsTrue
  BY DEF ArchiveInv, ArchiveTyped
<1> QED BY <1>1, <1>2, <1>3, <1>4, OneCall DEF AttrsBy, WhiteBy, AttrsTrue

LEMMA FileReads ==
  ASSUME ArchiveInv, NEW c \in Calls,
         \/ Archive!Link(c) \/ Archive!Attr(c) \/ Archive!Edit(c) \/ Archive!Stat(c)
         \/ Archive!Drop(c) \/ Archive!Peek(c) \/ Archive!Meta(c)
  PROVE  ArchiveInv'
<1>0. ArchiveTyped /\ TaskTrue(task[c], c) /\ AttrsTrue /\ data \in BOOLEAN
  BY DEF ArchiveInv, ArchiveTyped
<1>v. PICK v \in Vers : v = attrs.vers
  BY <1>0 DEF ArchiveTyped, Attrs
<1>t. DOMAIN v # {} => attrs.there /\ data
  <2>1. DOMAIN Archive!NoAttrs.vers = {}
    BY DEF Archive!NoAttrs
  <2> QED BY <1>0, <1>v, <2>1 DEF AttrsTrue
<1>e. ASSUME Archive!Ends(c, "error"), UNCHANGED <<data, attrs, white, dir, stale>>, task[c].pc \notin {"idle", "done"},
             Archive!Runs(c, "file"), Archive!KeyOf(task[c].pc) \in {"none", "file"} PROVE ArchiveInv'
  BY <1>e, Erring
<1>m. attrs.meta \in BOOLEAN
  BY <1>0 DEF ArchiveTyped, Attrs
<1>p. task[c].pc \in {"link", "attr", "edit", "drop", "meta"} => Archive!KeyOf(task[c].pc) = "file"
  BY DEF Archive!KeyOf
<1>1. CASE Archive!Link(c)
  <2>1. task[c].op = "newfile"
    BY <1>0, <1>1 DEF Archive!Link, TaskTrue, OpFits
  <2> QED BY <1>1, <2>1, GoesOn DEF Archive!Link, Archive!LinkFirst, Archive!Others, BackupPcs
<1>2. CASE Archive!Attr(c)
  <2>1. task[c].op = "newfile" /\ data /\ UNCHANGED <<data, attrs, white, dir, stale>> /\ Archive!Runs(c, "file") /\ task[c].pc = "attr"
    BY <1>0, <1>2 DEF Archive!Attr, TaskTrue, OpFits, ReadTrue, Archive!Disk, Archive!Others
  <2>2. CASE attrs.there
    <3>1. Archive!Set(v, c, c) \in Vers
      BY VersionsAre
    <3> QED BY <1>2, <1>v, <1>m, <2>1, <2>2, <3>1, WritesNext DEF Archive!Attr
  <2>3. CASE ~attrs.there
    BY <1>0, <1>2, <2>1, <2>3, GoesOn DEF Archive!Attr, BackupPcs
  <2> QED BY <2>2, <2>3
<1>3. CASE Archive!Edit(c)
  <2>1. task[c].op = "update" /\ UNCHANGED <<data, attrs, white, dir, stale>> /\ Archive!Runs(c, "file") /\ task[c].pc = "edit"
    BY <1>0, <1>3 DEF Archive!Edit, TaskTrue, OpFits, ReadTrue, Archive!Disk, Archive!Others
  <2>2. CASE task[c].id \in DOMAIN attrs.vers /\ (attrs.meta \/ data)
    <3>1. task[c].id \in Calls
      BY <1>v, <2>2, VersionsAre
    <3>2. Archive!Set(v, task[c].id, c) \in Vers
      BY <3>1, VersionsAre
    <3> QED BY <1>3, <1>v, <1>t, <2>1, <2>2, <3>2, WritesNext DEF Archive!Edit
  <2>3. CASE ~(task[c].id \in DOMAIN attrs.vers /\ (attrs.meta \/ data))
    BY <1>3, <1>e, <1>p, <2>1, <2>3 DEF Archive!Edit
  <2> QED BY <2>2, <2>3
<1>4. CASE Archive!Stat(c)
  <2>1. task[c].op \in {"delete", "read"} /\ UNCHANGED <<data, attrs, white, dir, stale>> /\ task[c].pc = "stat"
    BY <1>0, <1>4 DEF Archive!Stat, TaskTrue, OpFits, Archive!Disk, Archive!Others
  <2>2. CASE ~data
    <3>1. Archive!KeyOf("stat") = "none"
      BY DEF Archive!KeyOf
    <3> QED BY <1>4, <2>1, <2>2, <3>1, Erring DEF Archive!Stat
  <2>3. CASE data /\ task[c].op = "delete"
    <3>1. Archive!Calls1(c, "drop")
      BY <1>4, <2>3 DEF Archive!Stat
    <3>2. "file" \in Archive!Keys /\ Archive!KeyOf("drop") = "file" /\ "drop" \in BackupPcs
      BY DEF Archive!Keys, Archive!KeyOf, BackupPcs
    <3>3. queue' = [queue EXCEPT !["file"] = Append(@, c)] /\ task' = [task EXCEPT ![c].pc = "drop"]
      BY <3>1, <3>2 DEF Archive!Calls1
    <3>4. LocksStay(c)
      BY <1>0, <3>2, <3>3, Waiting
    <3>5. PICK e \in Tasks : /\ task' = [task EXCEPT ![c] = e] /\ Follows(e, task[c]) /\ e.pc = "drop"
                             /\ e.snap = task[c].snap /\ e.wsnap = task[c].wsnap /\ e.dsnap = task[c].dsnap /\ e.answer = task[c].answer
      BY <1>0, <3>2, <3>3, CallGoes
    <3>6. OpFits(e) /\ HoldsLock(e, c)'
      BY <1>0, <2>1, <2>3, <3>5 DEF TaskTrue, OpFits, HoldsLock, Follows
    <3> QED BY <1>0, <2>1, <2>3, <3>4, <3>5, <3>6, CallGoesOn
  <2>4. CASE data /\ task[c].op = "read"
    <3>1. Archive!Goes(c, "peek") /\ "peek" \in BackupPcs
      BY <1>4, <2>4 DEF Archive!Stat, BackupPcs
    <3> QED BY <1>0, <2>1, <2>4, <3>1, GoesOn
  <2> QED BY <1>0, <2>1, <2>2, <2>3, <2>4
<1>5. CASE Archive!Drop(c)
  <2>1. task[c].op = "delete" /\ UNCHANGED <<data, attrs, white, dir, stale>> /\ Archive!Runs(c, "file") /\ task[c].pc = "drop"
    BY <1>0, <1>5 DEF Archive!Drop, TaskTrue, OpFits, Archive!Disk, Archive!Others
  <2>2. CASE task[c].id \notin DOMAIN attrs.vers
    <3>1. Archive!Ends(c, "error")
      BY <1>5, <2>2 DEF Archive!Drop
    <3> QED BY <1>e, <1>p, <2>1, <3>1
  <2>3. CASE task[c].id \in DOMAIN attrs.vers /\ DOMAIN attrs.vers \ {task[c].id} = {}
    <3>1. Archive!Goes(c, "rmattr") /\ "rmattr" \in BackupPcs
      BY <1>5, <2>3 DEF Archive!Drop, BackupPcs
    <3>2. DOMAIN attrs.vers \subseteq {task[c].id}
      BY <2>3
    <3> QED BY <1>0, <2>1, <3>1, <3>2, GoesOn
  <2>4. CASE task[c].id \in DOMAIN attrs.vers /\ DOMAIN attrs.vers \ {task[c].id} # {}
    <3>1. PICK w : w = [x \in DOMAIN attrs.vers \ {task[c].id} |-> attrs.vers[x]]
      OBVIOUS
    <3>2. Archive!Writes(c, w, attrs.meta)
      BY <1>5, <2>4, <3>1 DEF Archive!Drop
    <3>3. w \in Vers
      BY <1>v, <3>1, VersionsAre
    <3> QED BY <1>t, <1>v, <1>m, <2>1, <2>4, <3>1, <3>2, <3>3, WritesNext
  <2> QED BY <2>2, <2>3, <2>4
<1>6. CASE Archive!Peek(c)
  <2>1. task[c].op = "read" /\ UNCHANGED <<data, attrs, white, dir, stale>> /\ task[c].pc = "peek"
    BY <1>0, <1>6 DEF Archive!Peek, TaskTrue, OpFits, Archive!Disk, Archive!Others
  <2>2. CASE ~attrs.there
    <3>1. Archive!KeyOf("peek") = "none"
      BY DEF Archive!KeyOf
    <3> QED BY <1>6, <2>1, <2>2, <3>1, Erring DEF Archive!Peek
  <2>3. CASE attrs.there /\ attrs.meta
    <3>1. Archive!Ends(c, "ok") /\ Archive!KeyOf("peek") = "none"
      BY <1>6, <2>3 DEF Archive!Peek, Archive!KeyOf
    <3>2. dir' \in Dirs /\ DirBy(c)
      BY <1>0, <2>1 DEF ArchiveTyped, DirBy
    <3> QED BY <2>1, <3>1, <3>2, EndsWell
  <2>4. CASE attrs.there /\ ~attrs.meta
    <3>1. task' = [task EXCEPT ![c].pc = "meta", ![c].snap = attrs] /\ queue' = [queue EXCEPT !["file"] = Append(@, c)]
      BY <1>6, <2>4 DEF Archive!Peek
    <3>2. LocksStay(c)
      BY <1>0, <3>1, Waiting DEF Archive!Keys
    <3>3. PICK o \in Tasks : o = task[c]
      BY <1>0 DEF ArchiveTyped
    <3>4. PICK e : e = [o EXCEPT !.pc = "meta", !.snap = attrs]
      OBVIOUS
    <3>5. task' = [task EXCEPT ![c] = e]
      BY <1>0, <3>1, <3>3, <3>4 DEF ArchiveTyped
    <3>6. e \in Tasks /\ Follows(e, o) /\ e.pc = "meta" /\ e.snap = attrs /\ e.answer = o.answer
      BY <1>0, <3>4 DEF Tasks, Follows, BackupPcs, ArchiveTyped
    <3>7. OpFits(e) /\ HoldsLock(e, c)'
      BY <1>0, <2>1, <3>3, <3>6 DEF TaskTrue, OpFits, HoldsLock, Follows
    <3>8. \A id \in DOMAIN e.snap.vers : MadeBefore(id)
      BY <1>0, <3>6 DEF AttrsTrue
    <3> QED BY <1>0, <2>1, <3>2, <3>3, <3>5, <3>6, <3>7, <3>8, CallGoesOn
  <2> QED BY <1>m, <1>0, <2>2, <2>3, <2>4
<1>7. CASE Archive!Meta(c)
  <2>1. task[c].op = "read" /\ UNCHANGED <<data, attrs, white, dir, stale>> /\ Archive!Runs(c, "file") /\ task[c].pc = "meta"
        /\ \A id \in DOMAIN task[c].snap.vers : MadeBefore(id)
    BY <1>0, <1>7 DEF Archive!Meta, TaskTrue, OpFits, ReadTrue, Archive!Disk, Archive!Others
  <2>2. CASE ~data
    BY <1>7, <1>e, <1>p, <2>1, <2>2 DEF Archive!Meta
  <2>3. CASE data
    <3>1. PICK w \in Vers : w = task[c].snap.vers
      BY <1>0 DEF ArchiveTyped, Tasks, Attrs
    <3>2. Archive!Writes(c, w, TRUE)
      BY <1>7, <2>3, <3>1 DEF Archive!Meta
    <3> QED BY <2>1, <2>3, <3>1, <3>2, WritesNext
  <2> QED BY <1>0, <2>2, <2>3
<1> QED BY <1>1, <1>2, <1>3, <1>4, <1>5, <1>6, <1>7

\* What is written, and removed.
LEMMA FileWrites ==
  ASSUME ArchiveInv, NEW c \in Calls, Archive!New(c) \/ Archive!Rm(c) \/ Archive!Write(c)
  PROVE  ArchiveInv'
<1>0. ArchiveTyped /\ TaskTrue(task[c], c) /\ AttrsTrue /\ data \in BOOLEAN
  BY DEF ArchiveInv, ArchiveTyped
<1>v. PICK v \in Vers : v = attrs.vers
  BY <1>0 DEF ArchiveTyped, Attrs
<1>n. Archive!NoAttrs \in Attrs /\ ~Archive!NoAttrs.there /\ DOMAIN Archive!NoAttrs.vers = {}
  BY DEF Archive!NoAttrs, Attrs, Vers
<1>m. \A id : MadeBefore(id) /\ (\A d \in Calls \ {c} : task'[d] = task[d]) /\ task[c].pc # "done" => id # c /\ MadeBefore(id)'
  BY DEF MadeBefore
<1>1. CASE Archive!New(c)
  <2>1. task[c].op = "newfile" /\ data /\ UNCHANGED <<data, white, dir, stale>> /\ Archive!Runs(c, "file") /\ task[c].pc = "new"
    BY <1>0, <1>1 DEF Archive!New, TaskTrue, OpFits, ReadTrue, Archive!Others
  <2>2. CASE attrs.there
    <3>1. Archive!Goes(c, "attr") /\ UNCHANGED attrs /\ "attr" \in BackupPcs
      BY <1>1, <2>2 DEF Archive!New, BackupPcs
    <3> QED BY <1>0, <2>1, <3>1, GoesOn
  <2>3. CASE ~attrs.there
    <3>1. attrs' = [there |-> TRUE, vers |-> Archive!Set(<<>>, c, c), meta |-> FALSE] /\ Archive!Ends(c, "ok")
      BY <1>1, <2>3 DEF Archive!New
    <3>2. <<>> \in Vers /\ DOMAIN <<>> = {}
      BY DEF Vers
    <3>3. PICK w \in Vers : w = Archive!Set(<<>>, c, c) /\ DOMAIN w = {c}
      <4>1. <<>> \in Vers
        BY <3>2
      <4>2. Archive!Set(<<>>, c, c) \in Vers /\ DOMAIN Archive!Set(<<>>, c, c) = DOMAIN <<>> \cup {c}
        BY <4>1, VersionSet
      <4> QED BY <3>2, <4>2
    <3>4. attrs' \in Attrs /\ attrs'.there /\ attrs'.vers = w
      BY <3>1, <3>3 DEF Attrs
    <3>5. Archive!KeyOf(task[c].pc) = "file"
      BY <2>1 DEF Archive!KeyOf
    <3>6. LocksStay(c)
      BY <1>0, <2>1, <3>1, <3>5, CallEnds
    <3>7. PICK e \in Tasks : task' = [task EXCEPT ![c] = e] /\ Follows(e, task[c]) /\ e.pc = "done" /\ e.answer = "ok"
      BY <1>0, <2>1, <3>1, <3>5, CallEnds
    <3>8. DOMAIN attrs.vers = {}
      BY <1>0, <1>n, <2>3 DEF AttrsTrue
    <3>9. MadeBefore(c)'
      BY <1>0, <2>1, <3>7 DEF MadeBefore, ArchiveTyped, Follows
    <3>10. TaskTrue(e, c)'
      <4>1. OpFits(e) /\ HoldsLock(e, c)' /\ ReadTrue(e, c)' /\ DidTrue(e, c)'
        BY <2>1, <3>3, <3>4, <3>7 DEF OpFits, HoldsLock, ReadTrue, DidTrue, Follows
      <4> QED BY <4>1 DEF TaskTrue, OpFits
    <3>11. AttrsBy(c, e) /\ WhiteBy(c) /\ DirBy(c)
      BY <2>1, <3>3, <3>4, <3>8 DEF AttrsBy, WhiteBy, DirBy
    <3>12. data' \in BOOLEAN /\ white' \in SUBSET Calls /\ dir' \in Dirs /\ stale' \in SUBSET Calls
      BY <1>0, <2>1 DEF ArchiveTyped
    <3>13. \A id \in DOMAIN attrs'.vers : MadeBefore(id)'
      BY <3>3, <3>4, <3>9
    <3> QED BY <2>1, <3>4, <3>6, <3>7, <3>10, <3>11, <3>12, <3>13, OneCall DEF Follows
  <2> QED BY <1>0, <2>2, <2>3 DEF ArchiveTyped, Attrs
<1>2. CASE Archive!Rm(c)
  <2>1. /\ task[c].op = "delete" /\ UNCHANGED <<white, dir, stale>> /\ Archive!Runs(c, "file") /\ Archive!Remove1(c)
        /\ white' \in SUBSET Calls /\ dir' \in Dirs /\ stale' \in SUBSET Calls /\ task[c].pc \in {"rmattr", "rmdata"}
    BY <1>0, <1>2 DEF Archive!Rm, Archive!Remove1, TaskTrue, OpFits, Archive!Others, ArchiveTyped
  <2>2. CASE task[c].pc = "rmattr"
    <3>1. attrs' = Archive!NoAttrs /\ UNCHANGED data /\ task' = [task EXCEPT ![c].pc = "rmdata"] /\ UNCHANGED queue /\ "rmdata" \in BackupPcs
      BY <2>1, <2>2 DEF Archive!Remove1, Archive!Goes, BackupPcs
    <3>2. LocksStay(c)
      BY <1>0, <3>1 DEF ArchiveTyped, LocksStay, Archive!Runs
    <3>3. PICK e \in Tasks : /\ task' = [task EXCEPT ![c] = e] /\ Follows(e, task[c]) /\ e.pc = "rmdata"
                             /\ e.snap = task[c].snap /\ e.wsnap = task[c].wsnap /\ e.dsnap = task[c].dsnap /\ e.answer = task[c].answer
      BY <1>0, <3>1, CallGoes
    <3>4. MadeBefore(e.id)' /\ DOMAIN attrs.vers \subseteq {e.id} /\ e.op = "delete"
      BY <1>0, <1>m, <2>1, <2>2, <3>3 DEF TaskTrue, ReadTrue, Follows, ArchiveTyped
    <3>5. TaskTrue(e, c)'
      <4>1. OpFits(e) /\ HoldsLock(e, c)' /\ ReadTrue(e, c)' /\ DidTrue(e, c)'
        BY <1>0, <2>1, <2>2, <3>1, <3>3, <3>4 DEF TaskTrue, OpFits, HoldsLock, ReadTrue, DidTrue, Follows, Archive!Runs
      <4> QED BY <4>1 DEF TaskTrue, OpFits
    <3>6. AttrsBy(c, e) /\ WhiteBy(c) /\ DirBy(c)
      BY <1>n, <2>1, <3>1, <3>4 DEF AttrsBy, WhiteBy, DirBy
    <3> QED BY <1>0, <1>n, <2>1, <2>2, <3>1, <3>2, <3>3, <3>5, <3>6, OneCall
  <2>3. CASE task[c].pc = "rmdata"
    <3>1. data' = FALSE /\ UNCHANGED attrs /\ Archive!ThenWhite(c) /\ attrs = Archive!NoAttrs
      BY <1>0, <2>1, <2>3 DEF Archive!Remove1, TaskTrue, ReadTrue
    <3>2. LocksStay(c)
      BY <1>0, <2>1, <3>1, CallWhite
    <3>3. PICK e \in Tasks : task' = [task EXCEPT ![c] = e] /\ Follows(e, task[c]) /\ e.pc = "wread" /\ e.answer = task[c].answer
      BY <1>0, <2>1, <3>1, CallWhite
    <3>4. MadeBefore(e.id)' /\ e.op = "delete"
      BY <1>0, <1>m, <2>1, <2>3, <3>3 DEF TaskTrue, ReadTrue, Follows, ArchiveTyped
    <3>5. TaskTrue(e, c)'
      <4>1. OpFits(e) /\ HoldsLock(e, c)' /\ ReadTrue(e, c)' /\ DidTrue(e, c)'
        BY <1>0, <1>n, <2>1, <2>3, <3>1, <3>3, <3>4 DEF TaskTrue, OpFits, HoldsLock, ReadTrue, DidTrue, Follows
      <4> QED BY <4>1 DEF TaskTrue, OpFits
    <3>6. AttrsBy(c, e) /\ WhiteBy(c) /\ DirBy(c)
      BY <1>n, <2>1, <3>1 DEF AttrsBy, WhiteBy, DirBy
    <3> QED BY <1>0, <1>n, <2>1, <2>3, <3>1, <3>2, <3>3, <3>5, <3>6, OneCall
  <2> QED BY <2>1, <2>2, <2>3
<1>3. CASE Archive!Write(c)
  <2>1. /\ UNCHANGED <<data, white, dir>> /\ Archive!Runs(c, "file") /\ task[c].pc = "write" /\ data
        /\ white' \in SUBSET Calls /\ dir' \in Dirs /\ task[c].op \in {"newfile", "delete", "update", "read"}
    BY <1>0, <1>3 DEF Archive!Write, TaskTrue, OpFits, ReadTrue, ArchiveTyped
  <2>2. PICK o \in Tasks : o = task[c] /\ o.snap.there /\ o.snap \in Attrs /\ o.snap.vers \in Vers /\ TaskTrue(o, c)
    BY <1>0, <2>1 DEF TaskTrue, ReadTrue, ArchiveTyped, Tasks, Attrs
  <2>3. attrs' = o.snap /\ stale' = stale \cup Archive!Older(c) /\ stale' \in SUBSET Calls
    BY <1>0, <1>3, <2>2 DEF Archive!Write, Archive!Older, Archive!Differ, ArchiveTyped
  <2>4. /\ \A id \in DOMAIN attrs'.vers : id \in DOMAIN attrs.vers \/ (id = c /\ o.op = "newfile") \/ (id \in stale' /\ MadeBefore(id))
        /\ \A id \in DOMAIN attrs.vers : id \in DOMAIN attrs'.vers \/ (o.op = "delete" /\ o.id = id) \/ id \in stale'
        /\ o.op = "delete" => o.id \notin DOMAIN attrs'.vers
        /\ o.op = "newfile" => c \in DOMAIN attrs'.vers
    <3>1. CASE o.op = "newfile"
      <4>1. DOMAIN attrs'.vers = DOMAIN v \cup {c}
        <5>1. attrs'.vers = Archive!Set(v, c, c)
          BY <1>v, <2>1, <2>2, <2>3, <3>1 DEF TaskTrue, ReadTrue
        <5> QED BY <5>1, VersionSet
      <4> QED BY <1>v, <3>1, <4>1
    <3>2. CASE o.op = "update"
      <4>1. o.id \in DOMAIN v /\ attrs'.vers = Archive!Set(v, o.id, c)
        BY <1>v, <2>1, <2>2, <2>3, <3>2 DEF TaskTrue, ReadTrue
      <4>2. DOMAIN attrs'.vers = DOMAIN v
        <5>1. o.id \in Calls /\ DOMAIN v \cup {o.id} = DOMAIN v
          BY <4>1, VersionsAre
        <5> QED BY <4>1, <5>1, VersionSet
      <4> QED BY <1>v, <3>2, <4>2
    <3>3. CASE o.op = "delete"
      <4>1. DOMAIN attrs'.vers = DOMAIN v \ {o.id}
        BY <1>v, <2>1, <2>2, <2>3, <3>3 DEF TaskTrue, ReadTrue
      <4> QED BY <1>v, <3>3, <4>1
    <3>4. CASE o.op = "read"
      <4>1. \A id \in Calls : id \in DOMAIN attrs'.vers /\ id \notin DOMAIN attrs.vers => id \in stale'
        BY <2>2, <2>3, <3>4 DEF Archive!Older, Archive!Differ
      <4>3. \A id \in Calls : id \in DOMAIN attrs.vers /\ id \notin DOMAIN attrs'.vers => id \in stale'
        BY <2>2, <2>3, <3>4 DEF Archive!Older, Archive!Differ
      <4>4. DOMAIN attrs.vers \subseteq Calls /\ DOMAIN attrs'.vers \subseteq Calls
        BY <1>v, <2>2, <2>3, VersionsAre
      <4>2. \A id \in DOMAIN attrs'.vers : MadeBefore(id)
        BY <2>1, <2>2, <2>3, <3>4 DEF TaskTrue, ReadTrue
      <4> QED BY <3>4, <4>1, <4>2, <4>3, <4>4
    <3> QED BY <2>1, <2>2, <3>1, <3>2, <3>3, <3>4
  <2>5. ASSUME NEW e \in Tasks, task' = [task EXCEPT ![c] = e], Follows(e, task[c]), LocksStay(c),
               \/ o.op = "delete" /\ e.pc = "wread" /\ e.answer = o.answer
               \/ o.op # "delete" /\ e.pc = "done" /\ e.answer = "ok"
        PROVE  ArchiveInv'
    <3>1. \A id : MadeBefore(id) => MadeBefore(id)'
      BY <1>0, <1>m, <2>1, <2>5 DEF ArchiveTyped
    <3>2. o.op = "newfile" => MadeBefore(c)'
      BY <1>0, <2>2, <2>5 DEF MadeBefore, ArchiveTyped, Follows
    <3>3. \A id \in DOMAIN attrs'.vers : id \in DOMAIN attrs.vers \/ MadeBefore(id)'
      BY <2>4, <3>1, <3>2
    <3>4. AttrsBy(c, e) /\ WhiteBy(c) /\ DirBy(c)
      BY <2>1, <2>2, <2>3, <2>4, <2>5 DEF AttrsBy, WhiteBy, DirBy, Follows
    <3>5. TaskTrue(e, c)'
      <4>1. OpFits(e) /\ HoldsLock(e, c)'
        BY <2>1, <2>2, <2>5 DEF TaskTrue, OpFits, HoldsLock, Follows
      <4>2. ReadTrue(e, c)'
        BY <2>2, <2>5, <3>1 DEF TaskTrue, ReadTrue, Follows
      <4>3. DidTrue(e, c)'
        BY <2>1, <2>2, <2>4, <2>5 DEF TaskTrue, OpFits, DidTrue, Follows
      <4> QED BY <4>1, <4>2, <4>3 DEF TaskTrue, OpFits
    <3> QED BY <1>0, <2>1, <2>2, <2>3, <2>5, <3>3, <3>4, <3>5, OneCall
  <2>6. CASE o.op = "delete"
    <3>1. Archive!ThenWhite(c)
      BY <1>3, <2>2, <2>6 DEF Archive!Write
    <3>2. LocksStay(c)
      BY <1>0, <2>1, <3>1, CallWhite
    <3>3. PICK e \in Tasks : task' = [task EXCEPT ![c] = e] /\ Follows(e, task[c]) /\ e.pc = "wread" /\ e.answer = task[c].answer
      BY <1>0, <2>1, <3>1, CallWhite
    <3> QED BY <2>2, <2>5, <2>6, <3>2, <3>3
  <2>7. CASE o.op # "delete"
    <3>1. Archive!Ends(c, "ok") /\ Archive!KeyOf(task[c].pc) = "file"
      BY <1>3, <2>1, <2>2, <2>7 DEF Archive!Write, Archive!KeyOf
    <3>2. LocksStay(c)
      BY <1>0, <2>1, <3>1, CallEnds
    <3>3. PICK e \in Tasks : task' = [task EXCEPT ![c] = e] /\ Follows(e, task[c]) /\ e.pc = "done" /\ e.answer = "ok"
      BY <1>0, <2>1, <3>1, CallEnds
    <3> QED BY <2>2, <2>5, <2>7, <3>2, <3>3
  <2> QED BY <2>6, <2>7
<1> QED BY <1>1, <1>2, <1>3

LEMMA Whiting ==
  ASSUME ArchiveInv, NEW c \in Calls, Archive!White(c)
  PROVE  ArchiveInv'
<1>0. ArchiveTyped /\ TaskTrue(task[c], c) /\ AttrsTrue /\ Archive!Runs(c, "white") /\ UNCHANGED <<data, attrs, dir, stale>>
  BY DEF ArchiveInv, Archive!White, Archive!Others
<1>1. data' \in BOOLEAN /\ attrs' \in Attrs /\ dir' \in Dirs /\ stale' \in SUBSET Calls
  BY <1>0 DEF ArchiveTyped
<1>2. PICK o \in Tasks : o = task[c] /\ TaskTrue(o, c)
  BY <1>0 DEF ArchiveTyped
<1>m. o.op = "delete" => o.id \in Calls /\ (task[c].pc # "done" /\ (\A d \in Calls \ {c} : task'[d] = task[d]) => MadeBefore(o.id)')
  BY <1>2 DEF TaskTrue, ReadTrue, MadeBefore
<1>3. CASE o.pc = "wread"
  <2>1. task' = [task EXCEPT ![c].pc = "wwrite", ![c].wsnap = white \cup {o.id}] /\ UNCHANGED <<white, queue>> /\ o.op = "delete"
    BY <1>2, <1>3 DEF Archive!White, TaskTrue, OpFits
  <2>2. PICK e : e = [o EXCEPT !.pc = "wwrite", !.wsnap = white \cup {o.id}]
    OBVIOUS
  <2>3. task' = [task EXCEPT ![c] = e]
    BY <1>0, <1>2, <2>1, <2>2 DEF ArchiveTyped
  <2>4. e \in Tasks /\ Follows(e, o) /\ e.pc = "wwrite" /\ e.wsnap = white \cup {o.id} /\ e.answer = o.answer
    BY <1>0, <1>m, <2>1, <2>2 DEF Tasks, Follows, BackupPcs, ArchiveTyped
  <2>5. LocksStay(c) /\ white' \in SUBSET Calls
    BY <1>0, <2>1 DEF ArchiveTyped, LocksStay, Archive!Runs
  <2>6. MadeBefore(e.id)' /\ e.op = "delete"
    BY <1>0, <1>2, <1>3, <1>m, <2>1, <2>3, <2>4 DEF ArchiveTyped, Follows
  <2>7. TaskTrue(e, c)'
    <3>1. OpFits(e) /\ HoldsLock(e, c)' /\ ReadTrue(e, c)' /\ DidTrue(e, c)'
      BY <1>0, <1>2, <1>3, <2>1, <2>4, <2>6 DEF TaskTrue, OpFits, HoldsLock, ReadTrue, DidTrue, Follows, Archive!Runs
    <3> QED BY <3>1 DEF TaskTrue, OpFits
  <2> QED BY <1>0, <1>1, <1>2, <1>3, <2>1, <2>3, <2>4, <2>5, <2>7, OneCall DEF AttrsBy, WhiteBy, DirBy, AttrsTrue
<1>4. CASE o.pc = "wwrite"
  <2>1. white' = o.wsnap /\ Archive!Ends(c, "ok") /\ o.op = "delete" /\ o.wsnap = white \cup {o.id} /\ Archive!KeyOf(task[c].pc) = "white"
    BY <1>2, <1>4 DEF Archive!White, TaskTrue, OpFits, ReadTrue, Archive!KeyOf
  <2>2. LocksStay(c) /\ white' \in SUBSET Calls
    BY <1>0, <1>2, <2>1, CallEnds DEF Tasks
  <2>3. PICK e \in Tasks : task' = [task EXCEPT ![c] = e] /\ Follows(e, task[c]) /\ e.pc = "done" /\ e.answer = "ok"
    BY <1>0, <2>1, CallEnds
  <2>4. MadeBefore(e.id)' /\ e.op = "delete"
    BY <1>0, <1>2, <1>4, <1>m, <2>1, <2>3 DEF ArchiveTyped, Follows
  <2>5. TaskTrue(e, c)'
    <3>1. OpFits(e) /\ HoldsLock(e, c)' /\ ReadTrue(e, c)' /\ DidTrue(e, c)'
      BY <1>0, <1>2, <1>4, <2>1, <2>3, <2>4 DEF TaskTrue, OpFits, HoldsLock, ReadTrue, DidTrue, Follows
    <3> QED BY <3>1 DEF TaskTrue, OpFits
  <2>6. WhiteBy(c)
    BY <1>0, <2>1 DEF WhiteBy
  <2> QED BY <1>0, <1>1, <1>2, <1>4, <2>2, <2>3, <2>5, <2>6, OneCall DEF AttrsBy, DirBy, AttrsTrue
<1> QED BY <1>2, <1>3, <1>4 DEF Archive!White

\* The subdirectory is removed to be made again.
LEMMA DirGoesOn ==
  ASSUME ArchiveInv, NEW c \in Calls, NEW pc \in {"mkdirp", "setdir"}, Archive!Goes(c, pc), task[c].pc # "done",
         task[c].op = "rmdir", Archive!Runs(c, "dir"), UNCHANGED <<data, attrs, white, stale>>, dir' \in Dirs
  PROVE  ArchiveInv'
<1>0. ArchiveTyped /\ TaskTrue(task[c], c) /\ AttrsTrue
  BY DEF ArchiveInv
<1>1. task' = [task EXCEPT ![c].pc = pc] /\ UNCHANGED queue /\ pc \in BackupPcs
  BY DEF Archive!Goes, BackupPcs
<1>2. PICK e \in Tasks : /\ task' = [task EXCEPT ![c] = e] /\ Follows(e, task[c]) /\ e.pc = pc
                         /\ e.snap = task[c].snap /\ e.wsnap = task[c].wsnap /\ e.dsnap = task[c].dsnap /\ e.answer = task[c].answer
  BY <1>0, <1>1, CallGoes
<1>3. LocksStay(c)
  BY <1>0, <1>1 DEF ArchiveTyped, LocksStay, Archive!Runs
<1>4. TaskTrue(e, c)'
  <2>1. OpFits(e) /\ HoldsLock(e, c)' /\ ReadTrue(e, c)' /\ DidTrue(e, c)'
    BY <1>0, <1>1, <1>2 DEF TaskTrue, OpFits, HoldsLock, ReadTrue, DidTrue, Follows, Archive!Runs
  <2> QED BY <2>1 DEF TaskTrue, OpFits
<1>5. data' \in BOOLEAN /\ attrs' \in Attrs /\ white' \in SUBSET Calls /\ stale' \in SUBSET Calls
  BY <1>0 DEF ArchiveTyped
<1> QED BY <1>0, <1>2, <1>3, <1>4, <1>5, OneCall DEF AttrsBy, WhiteBy, DirBy, AttrsTrue

LEMMA DirSteps ==
  ASSUME ArchiveInv, NEW c \in Calls,
         Archive!Mkdir(c) \/ Archive!GetDir(c) \/ Archive!RimrafDir(c) \/ Archive!MkdirP(c) \/ Archive!SetDir(c)
  PROVE  ArchiveInv'
<1>0. ArchiveTyped /\ TaskTrue(task[c], c) /\ UNCHANGED <<data, attrs, white, stale>> /\ Archive!Runs(c, "dir")
  BY DEF ArchiveInv, Archive!Mkdir, Archive!GetDir, Archive!RimrafDir, Archive!MkdirP, Archive!SetDir, Archive!Disk, Archive!Others
<1>1. PICK o \in Tasks : o = task[c] /\ TaskTrue(o, c) /\ o.pc \in {"mkdir", "getdir", "rimraf", "mkdirp", "setdir"}
                         /\ o.op \in {"mkdir", "rmdir", "rmtop", "chdir"}
  BY <1>0 DEF ArchiveTyped, TaskTrue, OpFits, Archive!Mkdir, Archive!GetDir, Archive!RimrafDir, Archive!MkdirP, Archive!SetDir
<1>2. Archive!KeyOf(task[c].pc) = "dir" /\ DirBy(c) /\ data' \in BOOLEAN
  BY <1>0, <1>1 DEF Archive!KeyOf, DirBy, ArchiveTyped
<1>3. ASSUME Archive!Ends(c, "ok"), dir' \in Dirs PROVE ArchiveInv'
  BY <1>0, <1>1, <1>2, <1>3, EndsWell
<1>d. PICK g \in Dirs : g = dir
  BY <1>0 DEF ArchiveTyped
<1>4. CASE Archive!Mkdir(c)
  <2>0. o.pc = "mkdir" /\ o.op = "mkdir"
    BY <1>1, <1>4 DEF Archive!Mkdir, TaskTrue, OpFits
  <2>1. CASE dir.full
    <3>1. Archive!Goes(c, "getdir") /\ UNCHANGED dir /\ "getdir" \in BackupPcs
      BY <1>4, <2>1 DEF Archive!Mkdir, Archive!MkdirFull, BackupPcs
    <3> QED BY <1>0, <1>1, <1>2, <2>0, <3>1, GoesOn
  <2>2. CASE ~dir.full
    <3>1. dir' = [there |-> TRUE, attr |-> TRUE, uuid |-> c, deleted |-> FALSE, full |-> FALSE] /\ Archive!Ends(c, "ok")
      BY <1>4, <2>2 DEF Archive!Mkdir, Archive!Gone
    <3> QED BY <1>3, <3>1 DEF Dirs
  <2> QED BY <2>1, <2>2
<1>5. CASE Archive!GetDir(c)
  <2>1. CASE ~dir.attr
    <3>1. Archive!Ends(c, "error") /\ UNCHANGED dir
      BY <1>5, <2>1 DEF Archive!GetDir, Archive!Disk
    <3> QED BY <1>0, <1>1, <1>2, <3>1, Erring
  <2>2. CASE dir.attr
    <3>1. PICK pc, d : /\ pc = (IF o.op \in {"rmdir", "rmtop"} THEN "rimraf" ELSE "setdir")
                       /\ d = [dir EXCEPT !.deleted = CASE o.op = "mkdir" -> FALSE [] o.op = "chdir" -> @ [] OTHER -> TRUE]
      OBVIOUS
    <3>2. task' = [task EXCEPT ![c].pc = pc, ![c].dsnap = d] /\ UNCHANGED <<queue, dir>>
      BY <1>1, <1>5, <2>2, <3>1 DEF Archive!GetDir, Archive!Disk
    <3>3. d \in Dirs /\ d.uuid = dir.uuid
      <4>1. PICK b \in BOOLEAN : b = (CASE o.op = "mkdir" -> FALSE [] o.op = "chdir" -> dir.deleted [] OTHER -> TRUE)
        BY <1>d DEF Dirs
      <4>2. d = [g EXCEPT !.deleted = b]
        BY <1>d, <3>1, <4>1
      <4> QED BY <1>d, <4>2 DEF Dirs
    <3>4. PICK e : e = [o EXCEPT !.pc = pc, !.dsnap = d]
      OBVIOUS
    <3>5. task' = [task EXCEPT ![c] = e]
      BY <1>0, <1>1, <3>2, <3>4 DEF ArchiveTyped
    <3>6. e \in Tasks /\ Follows(e, o) /\ e.pc = pc /\ e.dsnap = d /\ e.answer = o.answer /\ pc \in {"rimraf", "setdir"}
      BY <3>1, <3>3, <3>4 DEF Tasks, Follows, BackupPcs
    <3>7. OpFits(e) /\ HoldsLock(e, c)' /\ LocksStay(c)
      BY <1>0, <1>1, <3>1, <3>2, <3>6 DEF TaskTrue, OpFits, HoldsLock, Follows, LocksStay, Archive!Runs, ArchiveTyped
    <3> QED BY <1>0, <1>1, <1>2, <2>2, <3>2, <3>3, <3>5, <3>6, <3>7, CallGoesOn
  <2> QED BY <1>d, <2>1, <2>2 DEF Dirs
<1>6. CASE Archive!RimrafDir(c)
  <2>1. dir' \in Dirs /\ o.op \in {"rmdir", "rmtop"}
    BY <1>1, <1>6 DEF Archive!RimrafDir, Archive!Gone, Dirs, TaskTrue, OpFits
  <2>2. Archive!Ends(c, "ok") \/ (o.op = "rmdir" /\ Archive!Goes(c, "mkdirp"))
    BY <1>1, <1>6, <2>1 DEF Archive!RimrafDir
  <2> QED BY <1>0, <1>1, <1>3, <2>1, <2>2, DirGoesOn
<1>7. CASE Archive!MkdirP(c)
  <2>1. dir' = [there |-> TRUE, attr |-> FALSE, uuid |-> 0, deleted |-> FALSE, full |-> FALSE] /\ o.op = "rmdir"
    BY <1>1, <1>7 DEF Archive!MkdirP, Archive!Gone, TaskTrue, OpFits
  <2>2. dir' \in Dirs
    BY <2>1 DEF Dirs
  <2>3. Archive!Goes(c, "setdir")
    BY <1>7 DEF Archive!MkdirP
  <2> QED BY <1>0, <1>1, <2>1, <2>2, <2>3, DirGoesOn
<1>8. CASE Archive!SetDir(c)
  <2>1. dir' = [g EXCEPT !.attr = TRUE, !.uuid = o.dsnap.uuid, !.deleted = o.dsnap.deleted] /\ Archive!Ends(c, "ok")
    BY <1>1, <1>8, <1>d DEF Archive!SetDir
  <2>2. dir' \in Dirs
    BY <1>1, <1>d, <2>1 DEF Dirs, Tasks
  <2> QED BY <1>3, <2>1, <2>2
<1> QED BY <1>4, <1>5, <1>6, <1>7, <1>8

\* What others do to the subdirectory.
LEMMA DirOfOthers ==
  ASSUME ArchiveInv, Archive!Fill \/ Archive!Repair
  PROVE  ArchiveInv'
<1>0. ArchiveTyped /\ UNCHANGED <<data, attrs, white, queue, task, stale>>
  BY DEF ArchiveInv, Archive!Fill, Archive!Repair, Archive!Others
<1>d. PICK g \in Dirs : g = dir
  BY <1>0 DEF ArchiveTyped
<1>1. dir' \in Dirs /\ (dir.attr => dir'.attr /\ dir'.uuid = dir.uuid)
  <2>1. CASE Archive!Fill
    <3>1. dir' = [g EXCEPT !.full = TRUE]
      BY <1>d, <2>1 DEF Archive!Fill
    <3> QED BY <1>d, <3>1 DEF Dirs
  <2>2. CASE Archive!Repair
    <3>1. dir' = [g EXCEPT !.attr = TRUE, !.uuid = 9] /\ ~dir.attr
      BY <1>d, <2>2 DEF Archive!Repair
    <3> QED BY <1>d, <3>1 DEF Dirs
  <2> QED BY <2>1, <2>2
<1>2. ArchiveTyped' /\ AttrsTrue'
  BY <1>0, <1>1 DEF ArchiveInv, ArchiveTyped, AttrsTrue, MadeBefore
<1>3. ASSUME NEW c \in Calls PROVE TaskTrue(task[c], c)'
  <2>1. PICK e \in Tasks : e = task[c] /\ TaskTrue(e, c)
    BY <1>0 DEF ArchiveInv, ArchiveTyped
  <2>2. HoldsLock(e, c)' /\ DidTrue(e, c)'
    BY <1>0, <2>1 DEF TaskTrue, HoldsLock, DidTrue, Archive!Runs, Archive!Kept
  <2>3. ReadTrue(e, c)'
    BY <1>0, <1>1, <2>1 DEF TaskTrue, ReadTrue, MadeBefore
  <2>4. TaskTrue(e, c)'
    BY <2>1, <2>2, <2>3 DEF TaskTrue, OpFits
  <2> QED BY <1>0, <2>1, <2>4
<1> QED BY <1>2, <1>3 DEF ArchiveInv

\* The process dies: no call goes on, and what was answered stays.
LEMMA Dying ==
  ASSUME ArchiveInv, Archive!Crash
  PROVE  ArchiveInv'
<1>0. ArchiveTyped /\ UNCHANGED <<data, attrs, white, dir, stale>> /\ queue' = [k \in Archive!Keys |-> <<>>]
      /\ task' = [c \in Calls |-> IF task[c].pc \in {"idle", "done"} THEN task[c]
                                  ELSE [task[c] EXCEPT !.pc = "done", !.answer = "lost"]]
  BY DEF ArchiveInv, Archive!Crash, Archive!Disk
<1>1. ASSUME NEW c \in Calls
      PROVE  \E o, e \in Tasks : /\ o = task[c] /\ e = task'[c] /\ Follows(e, o) /\ (o.pc \in {"idle", "done"} => e = o)
                                 /\ (o.pc \notin {"idle", "done"} => e.pc = "done" /\ e.answer = "lost")
  <2>1. PICK o \in Tasks : o = task[c]
    BY <1>0 DEF ArchiveTyped
  <2>2. PICK e : e = [o EXCEPT !.pc = "done", !.answer = "lost"]
    OBVIOUS
  <2>3. e \in Tasks /\ Follows(e, o) /\ e.pc = "done" /\ e.answer = "lost" /\ Follows(o, o)
    BY <2>2 DEF Tasks, Follows, BackupPcs
  <2> QED BY <1>0, <2>1, <2>2, <2>3
<1>2. \A id : MadeBefore(id) => MadeBefore(id)'
  BY <1>1 DEF MadeBefore
<1>3. ArchiveTyped' /\ AttrsTrue'
  <2>1. <<>> \in Seq(Calls)
    OBVIOUS
  <2>2. task' \in [Calls -> Tasks]
    BY <1>0, <1>1
  <2>3. queue' \in [Archive!Keys -> Seq(Calls)]
    BY <1>0, <2>1
  <2> QED BY <1>0, <1>2, <2>2, <2>3 DEF ArchiveInv, ArchiveTyped, AttrsTrue
<1>4. ASSUME NEW c \in Calls PROVE TaskTrue(task[c], c)'
  <2>1. PICK o \in Tasks, e \in Tasks : /\ o = task[c] /\ e = task'[c] /\ Follows(e, o) /\ (o.pc \in {"idle", "done"} => e = o)
                                 /\ (o.pc \notin {"idle", "done"} => e.pc = "done" /\ e.answer = "lost")
    BY <1>1
  <2>2. TaskTrue(o, c)
    BY <2>1 DEF ArchiveInv
  <2>3. Archive!Kept(c)' => Archive!Kept(c)
    BY <1>1 DEF Archive!Kept, Follows
  <2>4. OpFits(e) /\ HoldsLock(e, c)'
    BY <2>1, <2>2 DEF TaskTrue, OpFits, HoldsLock, Follows
  <2>5. ReadTrue(e, c)'
    BY <1>2, <2>1, <2>2 DEF TaskTrue, ReadTrue, Follows
  <2>6. DidTrue(e, c)'
    BY <1>0, <2>1, <2>2, <2>3 DEF TaskTrue, DidTrue, Follows
  <2>7. TaskTrue(e, c)'
    BY <2>4, <2>5, <2>6 DEF TaskTrue, OpFits
  <2> QED BY <2>1, <2>7
<1> QED BY <1>3, <1>4 DEF ArchiveInv

LEMMA ArchiveInit == Archive!Init => ArchiveInv
<1> SUFFICES ASSUME Archive!Init PROVE ArchiveInv
  OBVIOUS
<1>1. Archive!NoAttrs \in Attrs /\ Archive!Gone \in Dirs /\ ~Archive!NoAttrs.there /\ DOMAIN Archive!NoAttrs.vers = {}
  BY DEF Archive!NoAttrs, Archive!Gone, Attrs, Vers, Dirs
<1>2. Archive!NoTask \in Tasks /\ Archive!NoTask.op = "none" /\ Archive!NoTask.pc = "idle" /\ Archive!NoTask.answer = "none"
  BY <1>1 DEF Archive!NoTask, Tasks, BackupOps, BackupPcs
<1>3. <<>> \in Seq(Calls)
  OBVIOUS
<1>4. ArchiveTyped /\ AttrsTrue
  BY <1>1, <1>2, <1>3 DEF Archive!Init, ArchiveTyped, AttrsTrue
<1>5. ASSUME NEW c \in Calls PROVE TaskTrue(Archive!NoTask, c)
  BY <1>2 DEF TaskTrue, OpFits, HoldsLock, ReadTrue, DidTrue
<1> QED BY <1>4, <1>5 DEF Archive!Init, ArchiveInv

LEMMA ArchiveNext == ArchiveInv /\ [Archive!Next]_(Archive!vars) => ArchiveInv'
<1> SUFFICES ASSUME ArchiveInv, [Archive!Next]_(Archive!vars) PROVE ArchiveInv'
  OBVIOUS
<1>1. CASE UNCHANGED Archive!vars
  <2>1. UNCHANGED <<data, attrs, white, dir, queue, task, stale>>
    BY <1>1 DEF Archive!vars
  <2>2. ArchiveTyped' /\ AttrsTrue'
    BY <2>1 DEF ArchiveInv, ArchiveTyped, AttrsTrue, MadeBefore
  <2>3. ASSUME NEW c \in Calls PROVE TaskTrue(task[c], c)'
    <3>1. PICK e : e = task[c] /\ TaskTrue(e, c)
      BY DEF ArchiveInv
    <3>2. HoldsLock(e, c)' /\ DidTrue(e, c)'
      BY <2>1, <3>1 DEF TaskTrue, HoldsLock, DidTrue, Archive!Runs, Archive!Kept
    <3>3. ReadTrue(e, c)'
      BY <2>1, <3>1 DEF TaskTrue, ReadTrue, MadeBefore
    <3>4. TaskTrue(e, c)'
      BY <3>1, <3>2, <3>3 DEF TaskTrue, OpFits
    <3> QED BY <2>1, <3>1, <3>4
  <2> QED BY <2>2, <2>3 DEF ArchiveInv
<1>2. ASSUME NEW c \in Calls, Archive!Proceed(c) PROVE ArchiveInv'
  BY <1>2, FileReads, FileWrites, Whiting, DirSteps DEF Archive!Proceed
<1>3. ASSUME NEW c \in Calls, Archive!Fault(c) PROVE ArchiveInv'
  BY <1>3, Erring DEF Archive!Fault, Archive!Disk
<1> QED BY <1>1, <1>2, <1>3, BackupBegins, DirOfOthers, Dying DEF Archive!Next

\* Wherever the process stops, attributes have the file they are of (file-attr.js), for any
\* calls, failures and crashes.
THEOREM AttributesHaveData == Archive!Spec => []Archive!AttrsHaveData
<1>1. ArchiveInv => Archive!AttrsHaveData
  BY DEF ArchiveInv, AttrsTrue, Archive!AttrsHaveData
<1> QED BY <1>1, ArchiveInit, ArchiveNext, PTL DEF Archive!Spec

\* Who was told that his version is stored finds it, and that one is deleted, finds it so and
\* in the whiteout (file-attr.js, backup.js).
THEOREM BackupToldIsTrue == Archive!Spec => []Archive!ToldIsTrue
<1>1. ArchiveInv => Archive!ToldIsTrue
  BY DEF ArchiveInv, TaskTrue, DidTrue, Archive!ToldIsTrue
<1> QED BY <1>1, ArchiveInit, ArchiveNext, PTL DEF Archive!Spec

\* Versions are lost and changed by who names them: the attributes change only under the
\* lock, to what was made of them under it.
LEMMA VersionsKept ==
  ASSUME ArchiveInv, [Archive!Next]_(Archive!vars)
  PROVE  Archive!VersionsStay
<1>0. ArchiveTyped /\ AttrsTrue
  BY DEF ArchiveInv
<1>v. PICK v \in Vers : v = attrs.vers
  BY <1>0 DEF ArchiveTyped, Attrs
<1>1. CASE UNCHANGED attrs
  BY <1>1 DEF Archive!VersionsStay
<1>2. ASSUME NEW c \in Calls, Archive!New(c), ~UNCHANGED attrs PROVE Archive!VersionsStay
  <2>1. ~attrs.there /\ DOMAIN Archive!NoAttrs.vers = {}
    BY <1>2 DEF Archive!New, Archive!NoAttrs
  <2> QED BY <1>0, <2>1 DEF Archive!VersionsStay, AttrsTrue
<1>3. ASSUME NEW c \in Calls, Archive!Rm(c), ~UNCHANGED attrs PROVE Archive!VersionsStay
  <2>1. task[c].pc = "rmattr" /\ DOMAIN attrs.vers \subseteq {task[c].id} /\ task' = [task EXCEPT ![c].pc = "rmdata"]
    BY <1>3 DEF Archive!Rm, Archive!Remove1, Archive!Goes, ArchiveInv, TaskTrue, ReadTrue
  <2>2. task'[c] # task[c]
    BY <1>0, <2>1 DEF ArchiveTyped, Tasks
  <2> QED BY <2>1, <2>2 DEF Archive!VersionsStay, Archive!Named
<1>4. ASSUME NEW c \in Calls, Archive!Write(c) PROVE Archive!VersionsStay
  <2>1. PICK o \in Tasks : o = task[c] /\ o.pc = "write" /\ TaskTrue(o, c) /\ attrs' = o.snap
    BY <1>0, <1>4 DEF Archive!Write, ArchiveInv, ArchiveTyped
  <2>2. task'[c] # task[c]
    <3>1. task'[c].pc \in {"wread", "done"}
      BY <1>0, <1>4 DEF Archive!Write, Archive!ThenWhite, Archive!Ends, ArchiveTyped, Tasks
    <3> QED BY <2>1, <3>1
  <2>3. CASE o.op = "newfile"
    <3>1. attrs'.vers = Archive!Set(v, c, c) /\ c \notin DOMAIN v
      BY <1>0, <1>v, <2>1, <2>3 DEF TaskTrue, ReadTrue, AttrsTrue, MadeBefore
    <3> QED BY <1>v, <3>1 DEF Archive!VersionsStay, Archive!Set
  <2>4. CASE o.op = "update"
    <3>1. attrs'.vers = Archive!Set(v, o.id, c)
      BY <1>v, <2>1, <2>4 DEF TaskTrue, ReadTrue
    <3> QED BY <1>v, <2>1, <2>2, <3>1 DEF Archive!VersionsStay, Archive!Set, Archive!Named
  <2>5. CASE o.op = "delete"
    <3>1. attrs'.vers = [x \in DOMAIN v \ {o.id} |-> v[x]]
      BY <1>v, <2>1, <2>5 DEF TaskTrue, ReadTrue
    <3> QED BY <1>v, <2>1, <2>2, <3>1 DEF Archive!VersionsStay, Archive!Named
  <2>6. CASE o.op = "read"
    <3>1. \A id \in Calls : id \in DOMAIN v => id \in Archive!Older(c) \/ (id \in DOMAIN attrs'.vers /\ attrs'.vers[id] = v[id])
      BY <1>v, <2>1, <2>6 DEF Archive!Older, Archive!Differ
    <3>2. \A id \in DOMAIN v : id \in Calls
      BY <1>v, VersionsAre
    <3> QED BY <1>v, <2>1, <2>2, <3>1, <3>2 DEF Archive!VersionsStay, Archive!Overwrites
  <2> QED BY <2>1, <2>3, <2>4, <2>5, <2>6 DEF TaskTrue, OpFits
<1>5. ASSUME NEW c \in Calls, Archive!Asks(c) \/ Archive!Fault(c) PROVE UNCHANGED attrs
  BY <1>5 DEF Archive!Asks, Archive!newfile, Archive!delete, Archive!mkdir, Archive!updateFile, Archive!updateDir, Archive!readdir,
              Archive!Ask, Archive!Disk, Archive!Fault
<1>6. ASSUME NEW c \in Calls, Archive!Proceed(c) PROVE UNCHANGED attrs \/ Archive!New(c) \/ Archive!Rm(c) \/ Archive!Write(c)
  BY <1>6 DEF Archive!Proceed, Archive!Link, Archive!Attr, Archive!Edit, Archive!Stat, Archive!Drop, Archive!Peek, Archive!Meta,
              Archive!White, Archive!Mkdir, Archive!GetDir, Archive!RimrafDir, Archive!MkdirP, Archive!SetDir, Archive!Disk
<1> QED BY <1>1, <1>2, <1>3, <1>4, <1>5, <1>6 DEF Archive!Next, Archive!vars, Archive!Crash, Archive!Fill, Archive!Repair, Archive!Disk

THEOREM BackupVersionsStay == Archive!Spec => [][Archive!VersionsStay]_(Archive!vars)
<1> QED BY ArchiveInit, ArchiveNext, VersionsKept, PTL DEF Archive!Spec

\* A directory with entries keeps its uuid, but where its deletion gives it back the one it
\* had (directory.js, file-attr.js).
LEMMA UuidKept ==
  ASSUME ArchiveInv, [Archive!Next]_(Archive!vars)
  PROVE  Archive!FullKeepsUuid
<1> SUFFICES ASSUME dir.full, dir.attr, dir'.full, dir'.uuid # dir.uuid
             PROVE  \E c \in Calls : Archive!Restores(c) /\ dir'.uuid = task[c].dsnap.uuid
  BY DEF Archive!FullKeepsUuid
<1>0. PICK g \in Dirs : g = dir
  BY DEF ArchiveInv, ArchiveTyped
<1>1. ASSUME NEW c \in Calls, Archive!Mkdir(c) PROVE UNCHANGED dir
  BY <1>1 DEF Archive!Mkdir, Archive!MkdirFull
<1>2. ASSUME NEW c \in Calls, Archive!RimrafDir(c) \/ Archive!MkdirP(c) PROVE FALSE
  <2>1. dir'.full = FALSE
    BY <1>2 DEF Archive!RimrafDir, Archive!MkdirP, Archive!Gone
  <2> QED BY <2>1
<1>3. ASSUME NEW c \in Calls, Archive!SetDir(c) PROVE Archive!Restores(c) /\ dir'.uuid = task[c].dsnap.uuid
  <2>1. PICK o \in Tasks : o = task[c] /\ o.pc = "setdir" /\ TaskTrue(o, c)
    BY <1>3 DEF Archive!SetDir, ArchiveInv, ArchiveTyped
  <2>2. dir' = [g EXCEPT !.attr = TRUE, !.uuid = o.dsnap.uuid, !.deleted = o.dsnap.deleted]
    BY <1>0, <1>3, <2>1 DEF Archive!SetDir
  <2>3. dir'.uuid = o.dsnap.uuid
    BY <1>0, <2>2 DEF Dirs
  <2>4. o.op = "rmdir"
    BY <2>1, <2>3 DEF TaskTrue, OpFits, ReadTrue
  <2>5. task'[c].pc = "done"
    BY <1>3, <2>1 DEF Archive!SetDir, Archive!Ends, ArchiveInv, ArchiveTyped
  <2> QED BY <2>1, <2>3, <2>4, <2>5 DEF Archive!Restores
<1>4. CASE Archive!Fill
  BY <1>0, <1>4 DEF Archive!Fill, Dirs
<1>5. ASSUME NEW c \in Calls, Archive!Asks(c) \/ Archive!Fault(c) PROVE UNCHANGED dir
  BY <1>5 DEF Archive!Asks, Archive!newfile, Archive!delete, Archive!mkdir, Archive!updateFile, Archive!updateDir, Archive!readdir,
              Archive!Ask, Archive!Disk, Archive!Fault
<1>6. ASSUME NEW c \in Calls, Archive!Proceed(c) PROVE UNCHANGED dir \/ Archive!Mkdir(c) \/ Archive!RimrafDir(c) \/ Archive!MkdirP(c) \/ Archive!SetDir(c)
  BY <1>6 DEF Archive!Proceed, Archive!Link, Archive!Attr, Archive!New, Archive!Edit, Archive!Stat, Archive!Drop, Archive!Rm, Archive!Peek,
              Archive!Meta, Archive!Write, Archive!White, Archive!GetDir, Archive!Disk
<1>7. CASE UNCHANGED dir
  BY <1>7
<1> QED BY <1>1, <1>2, <1>3, <1>4, <1>5, <1>6, <1>7 DEF Archive!Next, Archive!vars, Archive!Crash, Archive!Repair, Archive!Disk

THEOREM BackupKeepsUuid == Archive!Spec => [][Archive!FullKeepsUuid]_(Archive!vars)
<1> QED BY ArchiveInit, ArchiveNext, UuidKept, PTL DEF Archive!Spec

-----------------------------------------------------------------------------
(* Disks, what mounts them and what mkfs spares.                           *)

Disks == INSTANCE Storage

Unmounts == [kind : 1 .. 3, of : Nat, at : Disks!Spots]
Formats == [pc : {"idle", "probe", "mount", "again", "umount", "done"}, target : Targets \cup {{}},
            mounts : Seq([dev : Nat, at : Disks!Spots]), swaps : SUBSET Nat, todo : SUBSET Unmounts,
            result : {"none", "ok", "refused", "error"}]
Uses == {"fs", "btrfs", "swap", "table", "none"}

\* A place is neither nowhere nor, but for the first mount, the root.
LEMMA PlacesDiffer ==
  ASSUME NEW B, NEW b
  PROVE  /\ Disks!Root # Disks!Nowhere
         /\ \A p \in Disks!Places(B, b) : p # Disks!Root /\ p # Disks!Nowhere
<1>1. Disks!Root # Disks!Nowhere
  <2>1. Disks!Root[1] = "/" /\ Disks!Nowhere[1] = "nowhere"
    BY DEF Disks!Root, Disks!Nowhere
  <2> QED BY <2>1
<1>2. ASSUME NEW p \in Disks!Places(B, b) PROVE p # Disks!Root /\ p # Disks!Nowhere
  <2>1. p[1] \in {"other", "block", "volume"}
    BY DEF Disks!Places
  <2>2. Disks!Root[1] = "/" /\ Disks!Nowhere[1] = "nowhere"
    BY DEF Disks!Root, Disks!Nowhere
  <2> QED BY <2>1, <2>2
<1> QED BY <1>1, <1>2
LEMMA MountsTyped ==
  ASSUME Disks!WellFormed(blocks, mounts, swaps)
  PROVE  /\ mounts \in Seq([dev : DOMAIN blocks, at : Disks!Spots]) /\ Len(mounts) \in Nat /\ DOMAIN mounts = 1 .. Len(mounts)
         /\ \A i \in DOMAIN mounts :
              /\ mounts[i].dev \in DOMAIN blocks /\ mounts[i].at # Disks!Nowhere
              /\ mounts[i].at = Disks!Root => i = 1
              /\ mounts[i].at # Disks!Root => mounts[i].at \in Disks!Places(blocks, mounts[i].dev)
<1>1. mounts \in Seq([dev : DOMAIN blocks, at : Disks!Spots])
  BY DEF Disks!WellFormed
<1>2. Len(mounts) \in Nat /\ DOMAIN mounts = 1 .. Len(mounts)
  BY <1>1
<1>3. ASSUME NEW i \in DOMAIN mounts
      PROVE  /\ mounts[i].dev \in DOMAIN blocks /\ mounts[i].at # Disks!Nowhere
             /\ mounts[i].at = Disks!Root => i = 1
             /\ mounts[i].at # Disks!Root => mounts[i].at \in Disks!Places(blocks, mounts[i].dev)
  <2> DEFINE E == [dev : DOMAIN blocks, at : Disks!Spots]
  <2>0. mounts \in Seq(E)
    BY <1>1
  <2>1. mounts[i] \in E
    <3> HIDE DEF E
    <3> QED BY <2>0, <1>2
  <2>2. mounts[i].at \in Disks!Places(blocks, mounts[i].dev) \/ (mounts[i].at = Disks!Root /\ i = 1)
    BY DEF Disks!WellFormed
  <2> QED BY <2>1, <2>2, PlacesDiffer
<1> QED BY <1>1, <1>2, <1>3

\* The first mount of a device of D, if there is one.
LEMMA FirstOf ==
  ASSUME Disks!WellFormed(blocks, mounts, swaps), NEW D
  PROVE  \/ /\ \A i \in DOMAIN mounts : mounts[i].dev \notin D
            /\ Disks!First(D, mounts) = Disks!Nowhere
         \/ \E i \in DOMAIN mounts :
              /\ mounts[i].dev \in D /\ Disks!First(D, mounts) = mounts[i].at /\ mounts[i].at # Disks!Nowhere
              /\ \A j \in DOMAIN mounts : mounts[j].dev \in D => i <= j
<1> DEFINE of == {i \in DOMAIN mounts : mounts[i].dev \in D}
<1>1. CASE of = {}
  BY <1>1 DEF Disks!First
<1>2. CASE of # {}
  <2>1. of \in SUBSET Nat
    BY MountsTyped
  <2>2. PICK k \in of : \A j \in of : k <= j
    BY <1>2, <2>1, Lowest
  <2> DEFINE i == CHOOSE i \in of : \A j \in of : i <= j
  <2>3. i \in of /\ \A j \in of : i <= j
    BY <2>2
  <2>4. Disks!First(D, mounts) = mounts[i].at
    BY <1>2 DEF Disks!First
  <2>5. i \in DOMAIN mounts /\ mounts[i].dev \in D /\ \A j \in DOMAIN mounts : mounts[j].dev \in D => i <= j
    BY <2>3
  <2>6. mounts[i].at # Disks!Nowhere
    BY <2>5, MountsTyped
  <2> HIDE DEF i
  <2> QED BY <2>4, <2>5, <2>6
<1> QED BY <1>1, <1>2

\* What is mounted of a block is what holds it.
Holding(b, i) == b \in Disks!Holds(mounts[i])
LEMMA HoldsOf ==
  ASSUME Disks!WellFormed(blocks, mounts, swaps), NEW b \in DOMAIN blocks, NEW i \in DOMAIN mounts
  PROVE  /\ Holding(b, i) => blocks[b].use \in {"fs", "btrfs"}
         /\ blocks[b].use = "fs" => (Holding(b, i) <=> mounts[i].dev \in {b})
         /\ blocks[b].use = "btrfs" => (Holding(b, i) <=> mounts[i].dev \in Disks!Devices(blocks[b].vol))
<1> DEFINE e == mounts[i].dev
<1>1. /\ e \in DOMAIN blocks /\ blocks[e].use \in {"fs", "btrfs"}
      /\ blocks[e].vol # 0 <=> blocks[e].use = "btrfs"
      /\ blocks[b].vol # 0 <=> blocks[b].use = "btrfs"
  BY MountsTyped DEF Disks!WellFormed
<1>2. CASE blocks[e].vol = 0
  <2>1. Holding(b, i) <=> b = e
    BY <1>2 DEF Holding, Disks!Holds
  <2> QED BY <1>1, <1>2, <2>1 DEF Disks!Devices
<1>3. CASE blocks[e].vol # 0
  <2>1. Holding(b, i) <=> blocks[b].vol = blocks[e].vol
    BY <1>1, <1>3 DEF Holding, Disks!Holds, Disks!Devices
  <2> QED BY <1>1, <1>3, <2>1 DEF Disks!Devices
<1> QED BY <1>2, <1>3

\* Where a block is said to be mounted: where the first mount is that holds it.
LEMMA MountpointOf ==
  ASSUME Disks!WellFormed(blocks, mounts, swaps), NEW b \in DOMAIN blocks
  PROVE  \/ /\ \A i \in DOMAIN mounts : ~Holding(b, i)
            /\ Disks!Mountpoint(b, mounts) = Disks!Nowhere
         \/ /\ blocks[b].use \in {"fs", "btrfs"}
            /\ \E i \in DOMAIN mounts :
                 /\ Holding(b, i) /\ Disks!Mountpoint(b, mounts) = mounts[i].at /\ mounts[i].at # Disks!Nowhere
                 /\ \A j \in DOMAIN mounts : Holding(b, j) => i <= j
<1>1. CASE blocks[b].use = "btrfs"
  <2>1. Disks!Mountpoint(b, mounts) = Disks!First(Disks!Devices(blocks[b].vol), mounts)
    BY <1>1 DEF Disks!Mountpoint
  <2>2. \A i \in DOMAIN mounts : Holding(b, i) <=> mounts[i].dev \in Disks!Devices(blocks[b].vol)
    BY <1>1, HoldsOf
  <2> DEFINE D == Disks!Devices(blocks[b].vol)
  <2>3. \/ /\ \A i \in DOMAIN mounts : mounts[i].dev \notin D
           /\ Disks!First(D, mounts) = Disks!Nowhere
        \/ \E i \in DOMAIN mounts :
             /\ mounts[i].dev \in D /\ Disks!First(D, mounts) = mounts[i].at /\ mounts[i].at # Disks!Nowhere
             /\ \A j \in DOMAIN mounts : mounts[j].dev \in D => i <= j
    BY FirstOf
  <2> HIDE DEF D
  <2> QED BY <1>1, <2>1, <2>2, <2>3 DEF D
<1>2. CASE blocks[b].use = "fs"
  <2>1. Disks!Mountpoint(b, mounts) = Disks!First({b}, mounts)
    BY <1>2 DEF Disks!Mountpoint
  <2>2. \A i \in DOMAIN mounts : Holding(b, i) <=> mounts[i].dev \in {b}
    BY <1>2, HoldsOf
  <2> DEFINE D == {b}
  <2>3. \/ /\ \A i \in DOMAIN mounts : mounts[i].dev \notin D
           /\ Disks!First(D, mounts) = Disks!Nowhere
        \/ \E i \in DOMAIN mounts :
             /\ mounts[i].dev \in D /\ Disks!First(D, mounts) = mounts[i].at /\ mounts[i].at # Disks!Nowhere
             /\ \A j \in DOMAIN mounts : mounts[j].dev \in D => i <= j
    BY FirstOf
  <2> HIDE DEF D
  <2> QED BY <1>2, <2>1, <2>2, <2>3 DEF D
<1>3. CASE blocks[b].use \notin {"btrfs", "fs"}
  <2>1. Disks!Mountpoint(b, mounts) = Disks!Nowhere
    BY <1>3 DEF Disks!Mountpoint
  <2>2. \A i \in DOMAIN mounts : ~Holding(b, i)
    BY <1>3, HoldsOf
  <2> QED BY <2>1, <2>2
<1> QED BY <1>1, <1>2, <1>3

\* A disk is refused if, and only if, something needed lies on it, the swaps being S.
NeededBy(d, S) ==
  \E b \in {d} \cup Disks!Parts(d) :
    b \in S \/ \E i \in DOMAIN mounts : mounts[i].at = Disks!Root /\ Holding(b, i)
LEMMA RefusesBy ==
  ASSUME Disks!WellFormed(blocks, mounts, swaps), NEW S, \A b \in S : b \in DOMAIN blocks /\ blocks[b].use = "swap",
         NEW d \in DOMAIN blocks, blocks[d].disk = d
  PROVE  Disks!Unformattable(d, mounts, S) <=> NeededBy(d, S)
<1>1. ASSUME NEW b \in DOMAIN blocks
      PROVE  Disks!InUse(b, mounts, S) <=> b \in S \/ \E i \in DOMAIN mounts : mounts[i].at = Disks!Root /\ Holding(b, i)
  <2>1. Disks!Mountpoint(b, mounts) = Disks!Root <=> \E i \in DOMAIN mounts : mounts[i].at = Disks!Root /\ Holding(b, i)
    <3>1. \A i \in DOMAIN mounts : mounts[i].at = Disks!Root => i = 1
      BY MountsTyped
    <3>2. Disks!Nowhere # Disks!Root /\ \A i \in DOMAIN mounts : i \in Nat /\ i >= 1
      BY MountsTyped, PlacesDiffer
    <3>3. CASE \A i \in DOMAIN mounts : ~Holding(b, i)
      BY <3>2, <3>3, MountpointOf
    <3>4. CASE \E i \in DOMAIN mounts : Holding(b, i)
      <4>1. PICK i \in DOMAIN mounts : /\ Holding(b, i) /\ Disks!Mountpoint(b, mounts) = mounts[i].at
                                       /\ \A j \in DOMAIN mounts : Holding(b, j) => i <= j
        BY <3>4, MountpointOf
      <4>2. ASSUME NEW j \in DOMAIN mounts, mounts[j].at = Disks!Root, Holding(b, j) PROVE i = j
        BY <3>1, <3>2, <4>1, <4>2
      <4> QED BY <4>1, <4>2
    <3> QED BY <3>3, <3>4
  <2> QED BY <2>1 DEF Disks!InUse
<1>2. \A b \in DOMAIN blocks : blocks[b].use \in Uses
  BY DEF Disks!WellFormed, Uses
<1>3. Disks!Parts(d) \subseteq DOMAIN blocks
  BY DEF Disks!Parts
<1>4. CASE blocks[d].use = "table"
  <2>1. ~Disks!InUse(d, mounts, S)
    BY <1>4 DEF Disks!InUse, Disks!Mountpoint, Disks!Nowhere, Disks!Root
  <2> QED BY <1>1, <1>3, <1>4, <2>1 DEF Disks!Unformattable, NeededBy
<1>5. CASE blocks[d].use # "table"
  <2>1. Disks!Parts(d) = {}
    BY <1>5 DEF Disks!Parts, Disks!WellFormed
  <2> QED BY <1>1, <1>5, <2>1 DEF Disks!Unformattable, NeededBy
<1> QED BY <1>4, <1>5

-----------------------------------------------------------------------------
(* The invariant.                                                          *)

OnDisks == \A t \in Targets : \A d \in t : d \in DOMAIN blocks /\ blocks[d].disk = d
Formatting ==
  /\ fmt \in Formats /\ faults \in Nat
  /\ fmt.pc # "done" => OnDisks
  /\ fmt.todo # {} => fmt.pc = "umount"
\* The swaps of the probe are swaps, and those of now if nobody interfered.
Probed ==
  fmt.pc \in {"mount", "again", "umount"} =>
    /\ \A b \in fmt.swaps : b \in DOMAIN blocks /\ blocks[b].use = "swap"
    /\ faults = 0 => swaps = fmt.swaps
\* Nothing needed is on the target since it was probed, and the root is not unmounted.
Spared ==
  fmt.pc = "umount" =>
    /\ \A x \in fmt.todo : x.at # Disks!Root
    /\ \A d \in fmt.target : ~NeededBy(d, fmt.swaps)
\* Each place that is left holds one mount, and what is mounted of the target is at one of these.
Held ==
  /\ \A x \in fmt.todo : \E i \in DOMAIN mounts : mounts[i].at = x.at
  /\ \A x, y \in fmt.todo : x.at = y.at => x = y
  /\ \A i, j \in DOMAIN mounts : mounts[i].at = mounts[j].at => i = j
  /\ \A d \in fmt.target : \A b \in {d} \cup Disks!Parts(d) : \A i \in DOMAIN mounts :
       Holding(b, i) => \E x \in fmt.todo : x.at = mounts[i].at
Covered ==
  /\ fmt.pc = "umount" /\ faults = 0 => Disks!Twice \/ Disks!Shared \/ Held
  /\ fmt.result = "error" /\ faults = 0 => Disks!Twice \/ Disks!Shared
DisksInv == Disks!TypeOK /\ Formatting /\ Probed /\ Spared /\ Covered

LEMMA DisksBegin == ASSUME Disks!Inputs, Disks!Init PROVE DisksInv
<1>1. PICK m \in Machines : blocks = m.blocks /\ mounts = m.mounts /\ swaps = m.swaps
  BY DEF Disks!Init
<1>2. /\ fmt = [pc |-> "idle", target |-> {}, mounts |-> <<>>, swaps |-> {}, todo |-> {}, result |-> "none"]
      /\ faults = 0
  BY DEF Disks!Init
<1>3. Disks!WellFormed(blocks, mounts, swaps) /\ OnDisks
  BY <1>1 DEF Disks!Inputs, OnDisks
<1>4. Disks!TypeOK
  BY <1>2, <1>3 DEF Disks!TypeOK
<1>5. Formatting
  BY <1>2, <1>3 DEF Formatting, Formats
<1> QED BY <1>2, <1>4, <1>5 DEF DisksInv, Probed, Spared, Covered

\* A call begins, and probes.
LEMMA ProbeStep ==
  ASSUME DisksInv, Disks!Probe \/ \E t \in Targets : Disks!Ask(t)
  PROVE  DisksInv'
<1>0. /\ fmt \in Formats /\ Disks!WellFormed(blocks, mounts, swaps) /\ fmt.todo = {} /\ fmt.result # "error"
      /\ UNCHANGED <<blocks, mounts, swaps, faults>>
  BY DEF DisksInv, Formatting, Disks!TypeOK, Disks!Probe, Disks!Ask
<1>1. CASE \E t \in Targets : Disks!Ask(t)
  <2>1. PICK t \in Targets : fmt.pc = "idle" /\ fmt' = [fmt EXCEPT !.pc = "probe", !.target = t]
    BY <1>1 DEF Disks!Ask
  <2>2. fmt' \in Formats /\ fmt'.pc = "probe" /\ fmt'.todo = {} /\ fmt'.result = fmt.result
    BY <1>0, <2>1 DEF Formats
  <2> QED BY <1>0, <2>1, <2>2 DEF DisksInv, Disks!TypeOK, Formatting, OnDisks, Probed, Spared, Covered
<1>2. CASE Disks!Probe
  <2>1. fmt.pc = "probe" /\ fmt' = [fmt EXCEPT !.pc = "mount", !.mounts = mounts, !.swaps = swaps]
    BY <1>2 DEF Disks!Probe
  <2>2. mounts \in Seq([dev : Nat, at : Disks!Spots]) /\ swaps \in SUBSET Nat
    <3> DEFINE E == [dev : DOMAIN blocks, at : Disks!Spots]
               F == [dev : Nat, at : Disks!Spots]
    <3>1. mounts \in Seq(E)
      BY <1>0, MountsTyped
    <3>2. E \subseteq F /\ swaps \in SUBSET Nat
      BY <1>0 DEF Disks!WellFormed
    <3> HIDE DEF E, F
    <3>3. mounts \in Seq(F)
      BY <3>1, <3>2
    <3> QED BY <3>2, <3>3 DEF F
  <2>3. /\ fmt' \in Formats /\ fmt'.pc = "mount" /\ fmt'.todo = {} /\ fmt'.result = fmt.result
        /\ fmt'.swaps = swaps
    BY <1>0, <2>1, <2>2 DEF Formats
  <2>4. \A b \in swaps : b \in DOMAIN blocks /\ blocks[b].use = "swap"
    BY <1>0 DEF Disks!WellFormed
  <2> QED BY <1>0, <2>1, <2>3, <2>4 DEF DisksInv, Disks!TypeOK, Formatting, OnDisks, Probed, Spared, Covered
<1> QED BY <1>1, <1>2

\* What is mounted is well formed again.
LEMMA Remounted ==
  ASSUME Disks!WellFormed(blocks, mounts, swaps), NEW M \in Seq([dev : DOMAIN blocks, at : Disks!Spots]),
         \A i \in DOMAIN M : /\ blocks[M[i].dev].use \in {"fs", "btrfs"}
                             /\ M[i].at \in Disks!Places(blocks, M[i].dev) \/ (M[i].at = Disks!Root /\ i = 1)
  PROVE  Disks!WellFormed(blocks, M, swaps)
BY DEF Disks!WellFormed

\* The probe mounts volumes and blocks, in some order.
LEMMA MountStep ==
  ASSUME Disks!WellFormed(blocks, mounts, swaps),
         NEW V \in SUBSET Disks!Volumes, NEW B \in SUBSET {b \in DOMAIN blocks : blocks[b].use = "fs"},
         Disks!MountIn(V, B)
  PROVE  Disks!WellFormed(blocks, mounts', swaps)
<1>1. PICK s \in Disks!Orders(V), t \in Disks!Orders(B) : mounts' = mounts \o Disks!MountsOf(s, t)
  BY DEF Disks!MountIn
<1>2. IsFiniteSet(V) /\ IsFiniteSet(B)
  <2>0. \A K : Disks!IsFiniteSet(K) = IsFiniteSet(K)
    BY DEF Disks!IsFiniteSet, IsFiniteSet
  <2>1. IsFiniteSet(DOMAIN blocks)
    BY <2>0 DEF Disks!WellFormed
  <2>2. IsFiniteSet({blocks[b].vol : b \in DOMAIN blocks})
    <3> DEFINE f == [b \in DOMAIN blocks |-> blocks[b].vol]
               R == {blocks[b].vol : b \in DOMAIN blocks}
    <3>1. f \in Surjection(DOMAIN blocks, R)
      BY DEF Surjection
    <3> HIDE DEF f, R
    <3>2. IsFiniteSet(R)
      BY <2>1, <3>1, FS_Surjection
    <3> QED BY <3>2 DEF R
  <2> QED BY <2>1, <2>2, FS_Subset DEF Disks!Volumes
<1>3. \A K : Disks!Cardinality(K) = Cardinality(K)
  BY DEF Disks!Cardinality, Cardinality
<1>4. PICK n \in Nat : n = Cardinality(V)
  BY <1>2, FS_CardinalityType
<1>5. PICK m \in Nat : m = Cardinality(B)
  BY <1>2, FS_CardinalityType
<1>6. s \in [1 .. n -> V] /\ t \in [1 .. m -> B]
  BY <1>1, <1>3, <1>4, <1>5 DEF Disks!Orders, Disks!Bijection, Disks!Injection
<1> DEFINE E == [dev : DOMAIN blocks, at : Disks!Spots]
           Fits(e) == e \in E /\ blocks[e.dev].use \in {"fs", "btrfs"} /\ e.at \in Disks!Places(blocks, e.dev)
           P == [i \in DOMAIN s |-> [dev |-> Disks!Min1(Disks!Devices(s[i])), at |-> <<"volume", s[i]>>]]
           Q == [i \in DOMAIN t |-> [dev |-> t[i], at |-> <<"block", t[i]>>]]
<1>7. ASSUME NEW i \in 1 .. n PROVE Fits(P[i])
  <2> DEFINE v == s[i]
             D == Disks!Devices(v)
  <2>1. v \in Nat \ {0} /\ D # {} /\ D \subseteq DOMAIN blocks /\ D \in SUBSET Nat
    BY <1>6 DEF Disks!Volumes, Disks!WellFormed, Disks!Devices
  <2>2. \E k \in D : \A l \in D : k <= l
    <3> HIDE DEF D
    <3> QED BY <2>1, Lowest
  <2>3. Disks!Min1(D) \in D
    BY <2>2 DEF Disks!Min1
  <2> DEFINE b == Disks!Min1(D)
  <2>4. b \in DOMAIN blocks /\ blocks[b].vol = v /\ blocks[b].use = "btrfs"
    BY <2>1, <2>3 DEF Disks!Devices, Disks!WellFormed
  <2>5. P[i] = [dev |-> b, at |-> <<"volume", v>>]
    BY <1>6
  <2> HIDE DEF b, v, P
  <2>6. <<"volume", v>> \in Disks!Spots
    BY <2>1 DEF Disks!Spots
  <2>7. <<"volume", v>> \in Disks!Places(blocks, b)
    BY <2>4 DEF Disks!Places
  <2> QED BY <2>4, <2>5, <2>6, <2>7
<1>8. ASSUME NEW i \in 1 .. m PROVE Fits(Q[i])
  <2> DEFINE b == t[i]
  <2>1. b \in DOMAIN blocks /\ b \in Nat /\ blocks[b].use = "fs"
    BY <1>6 DEF Disks!WellFormed
  <2>2. Q[i] = [dev |-> b, at |-> <<"block", b>>]
    BY <1>6
  <2> HIDE DEF b, Q
  <2>3. <<"block", b>> \in Disks!Spots
    BY <2>1 DEF Disks!Spots
  <2>4. <<"block", b>> \in Disks!Places(blocks, b)
    BY <2>1 DEF Disks!Places
  <2> QED BY <2>1, <2>2, <2>3, <2>4
<1>9. /\ DOMAIN P = 1 .. n /\ DOMAIN Q = 1 .. m /\ mounts' = mounts \o (P \o Q)
  BY <1>1, <1>6 DEF Disks!MountsOf
<1>10. /\ mounts \in Seq(E) /\ DOMAIN mounts = 1 .. Len(mounts) /\ Len(mounts) \in Nat
       /\ \A i \in DOMAIN mounts :
            /\ blocks[mounts[i].dev].use \in {"fs", "btrfs"}
            /\ mounts[i].at \in Disks!Places(blocks, mounts[i].dev) \/ (mounts[i].at = Disks!Root /\ i = 1)
  BY MountsTyped DEF Disks!WellFormed
<1>11. P \in Seq(E) /\ Q \in Seq(E) /\ Len(P) = n /\ Len(Q) = m
  <2>1. \A i \in 1 .. n : P[i] \in E
    BY <1>7
  <2>2. \A i \in 1 .. m : Q[i] \in E
    BY <1>8
  <2>3. P = [i \in 1 .. n |-> P[i]] /\ Q = [i \in 1 .. m |-> Q[i]]
    BY <1>6
  <2> HIDE DEF P, Q, E
  <2> QED BY <2>1, <2>2, <2>3
<1>12. mounts' \in Seq(E)
  <2> HIDE DEF P, Q, E
  <2> QED BY <1>9, <1>10, <1>11
<1>13. ASSUME NEW i \in DOMAIN mounts'
       PROVE  /\ blocks[mounts'[i].dev].use \in {"fs", "btrfs"}
              /\ mounts'[i].at \in Disks!Places(blocks, mounts'[i].dev) \/ (mounts'[i].at = Disks!Root /\ i = 1)
  <2>1. \/ i \in DOMAIN mounts /\ mounts'[i] = mounts[i]
        \/ \E k \in 1 .. n : mounts'[i] = P[k]
        \/ \E k \in 1 .. m : mounts'[i] = Q[k]
    <3> HIDE DEF P, Q, E
    <3>1. Len(P \o Q) = n + m /\ \A k \in 1 .. n + m : (P \o Q)[k] = IF k <= n THEN P[k] ELSE Q[k - n]
      BY <1>11
    <3>2. /\ i \in 1 .. Len(mounts) + (n + m)
          /\ mounts'[i] = IF i <= Len(mounts) THEN mounts[i] ELSE (P \o Q)[i - Len(mounts)]
      BY <1>9, <1>10, <1>11, <1>12, <3>1
    <3>3. CASE i <= Len(mounts)
      BY <1>10, <3>2, <3>3
    <3>4. CASE i > Len(mounts) /\ i - Len(mounts) <= n
      <4>1. i - Len(mounts) \in 1 .. n
        BY <1>10, <3>2, <3>4
      <4> QED BY <1>10, <3>1, <3>2, <3>4, <4>1
    <3>5. CASE i > Len(mounts) /\ i - Len(mounts) > n
      <4>1. i - Len(mounts) - n \in 1 .. m /\ i - Len(mounts) \in 1 .. n + m
        BY <1>10, <3>2, <3>5
      <4> QED BY <1>10, <3>1, <3>2, <3>5, <4>1
    <3>6. i \in Nat /\ Len(mounts) \in Nat /\ i - Len(mounts) \in Int
      BY <1>10, <3>2
    <3> QED BY <3>3, <3>4, <3>5, <3>6
  <2>2. ASSUME Fits(mounts'[i])
        PROVE  /\ blocks[mounts'[i].dev].use \in {"fs", "btrfs"}
               /\ mounts'[i].at \in Disks!Places(blocks, mounts'[i].dev)
    BY <2>2
  <2>3. CASE i \in DOMAIN mounts /\ mounts'[i] = mounts[i]
    <3>1. /\ blocks[mounts[i].dev].use \in {"fs", "btrfs"}
          /\ mounts[i].at \in Disks!Places(blocks, mounts[i].dev) \/ (mounts[i].at = Disks!Root /\ i = 1)
      BY <1>10, <2>3
    <3> QED BY <2>3, <3>1
  <2>4. CASE \E k \in 1 .. n : mounts'[i] = P[k]
    <3> HIDE DEF P, Q
    <3> QED BY <1>7, <2>4
  <2>5. CASE \E k \in 1 .. m : mounts'[i] = Q[k]
    <3> HIDE DEF P, Q
    <3> QED BY <1>8, <2>5
  <2> HIDE DEF P, Q
  <2> QED BY <2>1, <2>3, <2>4, <2>5
<1> QED BY <1>12, <1>13, Remounted

LEMMA MountAllStep ==
  ASSUME DisksInv, Disks!MountAll \/ Disks!MountFails
  PROVE  DisksInv'
<1>0. /\ fmt \in Formats /\ Disks!WellFormed(blocks, mounts, swaps) /\ fmt.todo = {} /\ fmt.result = "none"
      /\ fmt.pc = "mount" /\ fmt' = [fmt EXCEPT !.pc = "again"] /\ UNCHANGED <<blocks, swaps>>
      /\ faults \in Nat /\ faults' \in {faults, faults + 1}
  BY DEF DisksInv, Formatting, Disks!TypeOK, Disks!MountAll, Disks!MountFails
<1>1. Disks!WellFormed(blocks, mounts', swaps)
  <2>1. \E V \in SUBSET Disks!Volumes, B \in SUBSET {b \in DOMAIN blocks : blocks[b].use = "fs"} : Disks!MountIn(V, B)
    BY DEF Disks!MountAll, Disks!MountFails, Disks!UnmountedVolumes, Disks!UnmountedBlocks
  <2> QED BY <1>0, <2>1, MountStep
<1>2. /\ fmt' \in Formats /\ fmt'.pc = "again" /\ fmt'.todo = {} /\ fmt'.result = "none" /\ fmt'.swaps = fmt.swaps
  BY <1>0 DEF Formats
<1>3. faults' \in Nat /\ (faults' = 0 => faults = 0)
  BY <1>0 DEF DisksInv, Formatting
<1> QED BY <1>0, <1>1, <1>2, <1>3 DEF DisksInv, Disks!TypeOK, Formatting, OnDisks, Probed, Spared, Covered

\* If no mount lies on what another holds, each place has one and a block is mounted at the
\* one place of what holds it.
Once == \A i, j \in DOMAIN mounts : i # j => mounts[j].dev \notin Disks!Holds(mounts[i])
LEMMA PlacesOnce ==
  ASSUME Disks!WellFormed(blocks, mounts, swaps), Once, NEW i \in DOMAIN mounts, NEW j \in DOMAIN mounts,
         mounts[i].at = mounts[j].at
  PROVE  i = j
<1> SUFFICES ASSUME i # j PROVE FALSE
  OBVIOUS
<1> DEFINE a == mounts[i].dev
           b == mounts[j].dev
           p == mounts[i].at
<1>1. ~Holding(b, i)
  BY DEF Once, Holding
<1>2. /\ a \in DOMAIN blocks /\ b \in DOMAIN blocks /\ p \in Disks!Places(blocks, a) /\ p \in Disks!Places(blocks, b)
  BY MountsTyped
<1>3. /\ blocks[a].use \in {"fs", "btrfs"} /\ blocks[b].use \in {"fs", "btrfs"}
  BY DEF Disks!WellFormed
<1>4. a # b /\ (blocks[b].use = "btrfs" => blocks[a].vol # blocks[b].vol)
  BY <1>1, <1>2, <1>3, HoldsOf DEF Disks!Devices
<1> HIDE DEF a, b, p
<1>5. p[1] = "other" => p[2] = a /\ p[2] = b
  BY <1>2 DEF Disks!Places
<1>6. p[1] = "block" => p[2] = a /\ p[2] = b
  BY <1>2 DEF Disks!Places
<1>7. p[1] = "volume" => p[2] = blocks[a].vol /\ p[2] = blocks[b].vol /\ blocks[b].use # "fs"
  BY <1>2 DEF Disks!Places
<1>8. p[1] \in {"other", "block", "volume"}
  BY <1>2 DEF Disks!Places
<1> QED BY <1>3, <1>4, <1>5, <1>6, <1>7, <1>8
LEMMA MountpointOnce ==
  ASSUME Disks!WellFormed(blocks, mounts, swaps), Once, NEW b \in DOMAIN blocks, NEW i \in DOMAIN mounts, Holding(b, i)
  PROVE  Disks!Mountpoint(b, mounts) = mounts[i].at
<1>1. PICK k \in DOMAIN mounts : Holding(b, k) /\ Disks!Mountpoint(b, mounts) = mounts[k].at
  BY MountpointOf
<1>2. i = k
  <2>1. blocks[b].use \in {"fs", "btrfs"}
    BY HoldsOf
  <2>2. mounts[i].dev \in DOMAIN blocks
    BY MountsTyped
  <2>3. Holding(mounts[i].dev, k)
    <3>1. CASE blocks[b].use = "fs"
      BY <1>1, <3>1, HoldsOf
    <3>2. CASE blocks[b].use = "btrfs"
      <4>1. mounts[i].dev \in Disks!Devices(blocks[b].vol) /\ mounts[k].dev \in Disks!Devices(blocks[b].vol)
        BY <1>1, <3>2, HoldsOf
      <4>2. blocks[b].vol # 0
        BY <3>2 DEF Disks!WellFormed
      <4> QED BY <4>1, <4>2 DEF Holding, Disks!Holds, Disks!Devices
    <3> QED BY <2>1, <3>1, <3>2
  <2> QED BY <2>3 DEF Once, Holding
<1> QED BY <1>1, <1>2

\* What is to be unmounted is where a block of the target is, or a partition of one.
Source(x, b, T) ==
  /\ b \in DOMAIN blocks /\ x \in Unmounts /\ x.at = Disks!Mountpoint(b, mounts) /\ x.at # Disks!Nowhere
  /\ \/ x.kind = 1 /\ b \in T /\ blocks[b].use = "btrfs" /\ x.of = blocks[b].vol
     \/ x.kind = 2 /\ x.of = b /\ \E d \in T : b \in Disks!Parts(d) /\ blocks[d].use = "table"
     \/ x.kind = 3 /\ x.of = b /\ b \in T /\ blocks[b].use = "fs"
LEMMA SourceOf ==
  ASSUME Disks!WellFormed(blocks, mounts, swaps), NEW T \in SUBSET DOMAIN blocks, NEW x
  PROVE  x \in Disks!Umounts(T, mounts) <=> \E b : Source(x, b, T)
<1>1. \A b \in DOMAIN blocks : b \in Nat /\ blocks[b].vol \in Nat
  BY DEF Disks!WellFormed
<1>2. ASSUME NEW b \in DOMAIN blocks, Disks!Mountpoint(b, mounts) # Disks!Nowhere
      PROVE  Disks!Mountpoint(b, mounts) \in Disks!Spots
  <2>1. PICK i \in DOMAIN mounts : Disks!Mountpoint(b, mounts) = mounts[i].at
    BY <1>2, MountpointOf
  <2> DEFINE E == [dev : DOMAIN blocks, at : Disks!Spots]
  <2>2. mounts \in Seq(E) /\ DOMAIN mounts = 1 .. Len(mounts)
    BY MountsTyped
  <2>3. mounts[i] \in E
    <3> HIDE DEF E
    <3> QED BY <2>2
  <2> QED BY <2>1, <2>3
<1>3. ASSUME x \in Disks!Umounts(T, mounts) PROVE \E b : Source(x, b, T)
  <2> DEFINE place(b) == Disks!Mountpoint(b, mounts)
  <2>1. \/ \E b \in T : /\ blocks[b].use = "btrfs" /\ place(b) # Disks!Nowhere
                        /\ x = [kind |-> 1, of |-> blocks[b].vol, at |-> place(b)]
        \/ \E b, d : /\ d \in T /\ b \in Disks!Parts(d) /\ blocks[d].use = "table" /\ place(b) # Disks!Nowhere
                     /\ x = [kind |-> 2, of |-> b, at |-> place(b)]
        \/ \E b \in T : /\ blocks[b].use = "fs" /\ place(b) # Disks!Nowhere
                        /\ x = [kind |-> 3, of |-> b, at |-> place(b)]
    BY <1>3 DEF Disks!Umounts
  <2>2. CASE \E b \in T : /\ blocks[b].use = "btrfs" /\ place(b) # Disks!Nowhere
                          /\ x = [kind |-> 1, of |-> blocks[b].vol, at |-> place(b)]
    BY <1>1, <1>2, <2>2 DEF Source, Unmounts
  <2>3. CASE \E b, d : /\ d \in T /\ b \in Disks!Parts(d) /\ blocks[d].use = "table" /\ place(b) # Disks!Nowhere
                       /\ x = [kind |-> 2, of |-> b, at |-> place(b)]
    <3>1. PICK b, d : /\ d \in T /\ b \in Disks!Parts(d) /\ blocks[d].use = "table" /\ place(b) # Disks!Nowhere
                      /\ x = [kind |-> 2, of |-> b, at |-> place(b)]
      BY <2>3
    <3>2. b \in DOMAIN blocks
      BY <3>1 DEF Disks!Parts
    <3> QED BY <1>1, <1>2, <3>1, <3>2 DEF Source, Unmounts
  <2>4. CASE \E b \in T : /\ blocks[b].use = "fs" /\ place(b) # Disks!Nowhere
                          /\ x = [kind |-> 3, of |-> b, at |-> place(b)]
    BY <1>1, <1>2, <2>4 DEF Source, Unmounts
  <2> QED BY <2>1, <2>2, <2>3, <2>4
<1>4. ASSUME NEW b, Source(x, b, T) PROVE x \in Disks!Umounts(T, mounts)
  <2>1. x = [kind |-> x.kind, of |-> x.of, at |-> x.at]
    BY <1>4 DEF Source, Unmounts
  <2> QED BY <1>4, <2>1 DEF Source, Disks!Umounts
<1> QED BY <1>3, <1>4

\* Two of them are at two places, unless a volume lies on two.
LEMMA SourcesDiffer ==
  ASSUME Disks!WellFormed(blocks, mounts, swaps), Once, ~Disks!Shared, NEW T, \A d \in T : d \in DOMAIN blocks /\ blocks[d].disk = d,
         NEW x, NEW y, NEW b, NEW c, Source(x, b, T), Source(y, c, T), x.at = y.at
  PROVE  x = y
<1>1. PICK i \in DOMAIN mounts : Holding(b, i) /\ x.at = mounts[i].at
  BY MountpointOf DEF Source
<1>2. PICK j \in DOMAIN mounts : Holding(c, j) /\ y.at = mounts[j].at
  BY MountpointOf DEF Source
<1>3. i = j
  BY <1>1, <1>2, PlacesOnce
<1>4. b \in DOMAIN blocks /\ c \in DOMAIN blocks
  BY DEF Source
<1>5. blocks[b].use \in {"fs", "btrfs"} /\ blocks[c].use \in {"fs", "btrfs"}
  BY <1>1, <1>2, <1>4, HoldsOf
<1>6. \/ b = c
      \/ blocks[b].use = "btrfs" /\ blocks[c].use = "btrfs" /\ blocks[b].vol = blocks[c].vol
  <2>1. /\ blocks[b].use = "fs" => mounts[i].dev = b
        /\ blocks[b].use = "btrfs" => mounts[i].dev \in Disks!Devices(blocks[b].vol)
    BY <1>1, <1>4, HoldsOf
  <2>2. /\ blocks[c].use = "fs" => mounts[i].dev = c
        /\ blocks[c].use = "btrfs" => mounts[i].dev \in Disks!Devices(blocks[c].vol)
    BY <1>2, <1>3, <1>4, HoldsOf
  <2>3. /\ blocks[b].vol # 0 <=> blocks[b].use = "btrfs"
        /\ blocks[c].vol # 0 <=> blocks[c].use = "btrfs"
    BY <1>4 DEF Disks!WellFormed
  <2> QED BY <1>5, <2>1, <2>2, <2>3 DEF Disks!Devices
<1>7. \A e \in DOMAIN blocks : blocks[e].vol # 0 <=> blocks[e].use = "btrfs"
  BY DEF Disks!WellFormed
<1>8. \A d, e : e \in Disks!Parts(d) => blocks[e].disk # e
  BY DEF Disks!Parts
<1>9. b # c => blocks[b].disk = b /\ blocks[c].disk = c
  BY <1>4, <1>6, <1>7 DEF Disks!Shared, Disks!IsDisk
<1>10. x.kind = y.kind /\ x.of = y.of
  <2>1. CASE b = c
    BY <1>8, <2>1 DEF Source
  <2>2. CASE b # c
    BY <1>6, <1>8, <1>9, <2>2 DEF Source
  <2> QED BY <2>1, <2>2
<1> QED BY <1>10 DEF Source, Unmounts

LEMMA AgainStep ==
  ASSUME DisksInv, Disks!Again
  PROVE  DisksInv'
<1> DEFINE refused == \E d \in fmt.target : Disks!Unformattable(d, mounts, fmt.swaps)
           todo == Disks!Umounts(fmt.target, mounts)
<1>0. /\ fmt \in Formats /\ Disks!WellFormed(blocks, mounts, swaps) /\ fmt.todo = {} /\ fmt.result = "none"
      /\ fmt.pc = "again" /\ UNCHANGED <<blocks, mounts, swaps, faults>> /\ faults \in Nat
      /\ \A d \in fmt.target : d \in DOMAIN blocks /\ blocks[d].disk = d
      /\ \A b \in fmt.swaps : b \in DOMAIN blocks /\ blocks[b].use = "swap"
  BY DEF DisksInv, Formatting, OnDisks, Formats, Probed, Disks!TypeOK, Disks!Again
<1>1. CASE refused
  <2>1. fmt' = [fmt EXCEPT !.pc = "done", !.result = "refused", !.todo = {}]
    BY <1>1 DEF Disks!Again, Disks!Ends
  <2>2. fmt' \in Formats /\ fmt'.pc = "done" /\ fmt'.todo = {} /\ fmt'.result = "refused"
    BY <1>0, <2>1 DEF Formats
  <2> QED BY <1>0, <2>2 DEF DisksInv, Disks!TypeOK, Formatting, Probed, Spared, Covered
<1>2. CASE ~refused
  <2>1. fmt' = [fmt EXCEPT !.pc = "umount", !.todo = todo, !.mounts = mounts]
    BY <1>2 DEF Disks!Again
  <2>2. \A x \in todo : \E b : Source(x, b, fmt.target)
    BY <1>0, SourceOf
  <2>3. mounts \in Seq([dev : Nat, at : Disks!Spots])
    <3> DEFINE E == [dev : DOMAIN blocks, at : Disks!Spots]
               F == [dev : Nat, at : Disks!Spots]
    <3>1. mounts \in Seq(E)
      BY <1>0, MountsTyped
    <3>2. E \subseteq F
      BY <1>0 DEF Disks!WellFormed
    <3> HIDE DEF E, F
    <3>3. mounts \in Seq(F)
      BY <3>1, <3>2
    <3> QED BY <3>3 DEF F
  <2>4. todo \in SUBSET Unmounts
    BY <2>2 DEF Source
  <2> HIDE DEF todo
  <2>5. /\ fmt' \in Formats /\ fmt'.pc = "umount" /\ fmt'.todo = todo /\ fmt'.result = "none"
        /\ fmt'.mounts = mounts /\ fmt'.swaps = fmt.swaps /\ fmt'.target = fmt.target
    BY <1>0, <2>1, <2>3, <2>4 DEF Formats
  <2>6. Spared'
    <3>1. ASSUME NEW d \in fmt.target PROVE ~NeededBy(d, fmt.swaps)
      BY <1>0, <1>2, RefusesBy
    <3>2. ASSUME NEW x \in todo PROVE x.at # Disks!Root
      <4>1. PICK b : Source(x, b, fmt.target)
        BY <2>2 DEF todo
      <4>2. PICK i \in DOMAIN mounts : Holding(b, i) /\ x.at = mounts[i].at
        BY <1>0, <4>1, MountpointOf DEF Source
      <4>3. \E d \in fmt.target : b \in {d} \cup Disks!Parts(d)
        BY <4>1 DEF Source
      <4> QED BY <3>1, <4>2, <4>3 DEF NeededBy
    <3>3. \A d : NeededBy(d, fmt.swaps)' <=> NeededBy(d, fmt.swaps)
      BY <1>0, <2>5 DEF NeededBy, Holding, Disks!Holds, Disks!Parts, Disks!Devices
    <3> QED BY <2>5, <3>1, <3>2, <3>3 DEF Spared
  <2>7. (Disks!Twice \/ Disks!Shared \/ Held)'
    <3> SUFFICES ASSUME ~Disks!Twice', ~Disks!Shared' PROVE Held'
      OBVIOUS
    <3>1. Once /\ ~Disks!Shared
      BY <1>0, <2>5 DEF Once, Disks!Twice, Disks!Shared, Disks!Holds, Disks!Devices, Disks!IsDisk
    <3>2. ASSUME NEW x \in todo PROVE \E i \in DOMAIN mounts : mounts[i].at = x.at
      <4>1. PICK b : Source(x, b, fmt.target)
        BY <2>2 DEF todo
      <4> QED BY <1>0, <4>1, MountpointOf DEF Source
    <3>3. ASSUME NEW x \in todo, NEW y \in todo, x.at = y.at PROVE x = y
      <4>1. PICK b, c : Source(x, b, fmt.target) /\ Source(y, c, fmt.target)
        BY <2>2 DEF todo
      <4> QED BY <1>0, <3>1, <3>3, <4>1, SourcesDiffer
    <3>4. ASSUME NEW d \in fmt.target, NEW b \in {d} \cup Disks!Parts(d), NEW i \in DOMAIN mounts, Holding(b, i)
          PROVE  \E x \in todo : x.at = mounts[i].at
      <4>1. b \in DOMAIN blocks /\ d \in DOMAIN blocks
        BY <1>0 DEF Disks!Parts
      <4>2. blocks[b].use \in {"fs", "btrfs"} /\ Disks!Mountpoint(b, mounts) = mounts[i].at
        BY <1>0, <3>1, <3>4, <4>1, HoldsOf, MountpointOnce
      <4>3. mounts[i].at # Disks!Nowhere
        BY <1>0, MountsTyped
      <4>4. b # d => b \in Disks!Parts(d) /\ blocks[d].use = "table"
        <5>1. b # d => b \in Disks!Parts(d) /\ blocks[b].disk = d
          BY DEF Disks!Parts
        <5> QED BY <1>0, <4>1, <5>1 DEF Disks!WellFormed
      <4> DEFINE p == Disks!Mountpoint(b, mounts)
                 x == IF b # d THEN [kind |-> 2, of |-> b, at |-> p]
                      ELSE IF blocks[b].use = "fs" THEN [kind |-> 3, of |-> b, at |-> p]
                      ELSE [kind |-> 1, of |-> blocks[b].vol, at |-> p]
      <4>5. x \in todo
        <5>1. CASE b # d
          BY <4>2, <4>3, <4>4, <5>1 DEF todo, Disks!Umounts
        <5>2. CASE b = d /\ blocks[b].use = "fs"
          BY <4>2, <4>3, <5>2 DEF todo, Disks!Umounts
        <5>3. CASE b = d /\ blocks[b].use = "btrfs"
          BY <4>2, <4>3, <5>3 DEF todo, Disks!Umounts
        <5> QED BY <4>2, <5>1, <5>2, <5>3
      <4>6. x.at = mounts[i].at
        BY <4>2
      <4> QED BY <4>5, <4>6
    <3>5. \A i, j \in DOMAIN mounts : mounts[i].at = mounts[j].at => i = j
      BY <1>0, <3>1, PlacesOnce
    <3>6. \A d : Disks!Parts(d)' = Disks!Parts(d)
      BY <1>0 DEF Disks!Parts
    <3>7. \A b, i : Holding(b, i)' <=> Holding(b, i)
      BY <1>0 DEF Holding, Disks!Holds, Disks!Devices
    <3> QED BY <1>0, <2>5, <3>2, <3>3, <3>4, <3>5, <3>6, <3>7 DEF Held
  <2>8. Covered'
    BY <2>5, <2>7 DEF Covered
  <2>9. Probed' /\ Formatting' /\ Disks!TypeOK'
    BY <1>0, <2>5 DEF DisksInv, Probed, Formatting, OnDisks, Disks!TypeOK
  <2> QED BY <2>6, <2>8, <2>9 DEF DisksInv
<1> QED BY <1>1, <1>2

\* One mount less.
LEMMA RemovedOf ==
  ASSUME Disks!WellFormed(blocks, mounts, swaps), NEW i \in DOMAIN mounts, NEW M, M = Disks!Removed(mounts, i)
  PROVE  /\ M \in Seq([dev : DOMAIN blocks, at : Disks!Spots]) /\ DOMAIN M = 1 .. Len(mounts) - 1
         /\ \A k \in DOMAIN M : \E l \in DOMAIN mounts : l # i /\ M[k] = mounts[l] /\ l \in {k, k + 1}
         /\ \A k, l \in DOMAIN M : k # l => \E m, n \in DOMAIN mounts : m # n /\ M[k] = mounts[m] /\ M[l] = mounts[n]
         /\ \A l \in DOMAIN mounts : l # i => \E k \in DOMAIN M : M[k] = mounts[l]
         /\ Disks!WellFormed(blocks, M, swaps)
<1> DEFINE E == [dev : DOMAIN blocks, at : Disks!Spots]
           n == Len(mounts)
<1>1. mounts \in Seq(E) /\ n \in Nat /\ DOMAIN mounts = 1 .. n /\ i \in 1 .. n
  BY MountsTyped
<1>2. M = [k \in 1 .. n - 1 |-> IF k < i THEN mounts[k] ELSE mounts[k + 1]]
  BY DEF Disks!Removed
<1> HIDE DEF E, n
<1>3. \A k \in 1 .. n - 1 : M[k] = mounts[IF k < i THEN k ELSE k + 1] /\ (IF k < i THEN k ELSE k + 1) \in 1 .. n
  BY <1>1, <1>2
<1>4. M \in Seq(E) /\ DOMAIN M = 1 .. n - 1
  <2>1. \A k \in 1 .. n - 1 : M[k] \in E
    BY <1>1, <1>3
  <2>2. M = [k \in 1 .. n - 1 |-> M[k]] /\ DOMAIN M = 1 .. n - 1
    BY <1>2
  <2>3. n - 1 \in Nat
    BY <1>1
  <2> QED BY <2>1, <2>2, <2>3
<1>5. \A k \in DOMAIN M : \E l \in DOMAIN mounts : l # i /\ M[k] = mounts[l] /\ l \in {k, k + 1}
  BY <1>1, <1>3, <1>4
<1>6. ASSUME NEW k \in DOMAIN M, NEW l \in DOMAIN M, k # l
      PROVE  \E p, q \in DOMAIN mounts : p # q /\ M[k] = mounts[p] /\ M[l] = mounts[q]
  <2> DEFINE p == IF k < i THEN k ELSE k + 1
             q == IF l < i THEN l ELSE l + 1
  <2>1. p \in DOMAIN mounts /\ q \in DOMAIN mounts /\ M[k] = mounts[p] /\ M[l] = mounts[q]
    BY <1>1, <1>3, <1>4
  <2>2. p # q
    BY <1>1, <1>4, <1>6
  <2> HIDE DEF p, q
  <2> QED BY <2>1, <2>2
<1>7. ASSUME NEW l \in DOMAIN mounts, l # i PROVE \E k \in DOMAIN M : M[k] = mounts[l]
  <2>1. CASE l < i
    <3>1. l \in DOMAIN M
      BY <1>1, <1>4, <2>1
    <3> QED BY <1>2, <1>4, <2>1, <3>1
  <2>2. CASE ~(l < i)
    <3>1. l - 1 \in DOMAIN M /\ ~(l - 1 < i) /\ l - 1 + 1 = l
      BY <1>1, <1>4, <1>7, <2>2
    <3> QED BY <1>2, <1>4, <3>1
  <2> QED BY <2>1, <2>2
<1>8. Disks!WellFormed(blocks, M, swaps)
  <2>1. ASSUME NEW k \in DOMAIN M
        PROVE  /\ blocks[M[k].dev].use \in {"fs", "btrfs"}
               /\ M[k].at \in Disks!Places(blocks, M[k].dev) \/ (M[k].at = Disks!Root /\ k = 1)
    <3>1. PICK l \in DOMAIN mounts : M[k] = mounts[l] /\ l \in {k, k + 1}
      BY <1>5
    <3>2. /\ blocks[mounts[l].dev].use \in {"fs", "btrfs"}
          /\ mounts[l].at \in Disks!Places(blocks, mounts[l].dev) \/ (mounts[l].at = Disks!Root /\ l = 1)
      BY DEF Disks!WellFormed
    <3>3. l = 1 => k = 1
      BY <1>4, <3>1
    <3> QED BY <3>1, <3>2, <3>3
  <2> QED BY <1>4, <2>1, Remounted DEF E
<1> QED BY <1>4, <1>5, <1>6, <1>7, <1>8 DEF E, n

LEMMA EndStep ==
  ASSUME DisksInv, Disks!Ends("error"), fmt.pc = "umount", UNCHANGED <<blocks, mounts, swaps>>,
         faults' \in Nat, faults' = 0 => faults = 0 /\ (Disks!Twice \/ Disks!Shared)
  PROVE  DisksInv'
<1>1. /\ fmt \in Formats /\ Disks!WellFormed(blocks, mounts, swaps)
      /\ fmt' = [fmt EXCEPT !.pc = "done", !.result = "error", !.todo = {}]
  BY DEF DisksInv, Formatting, Disks!TypeOK, Disks!Ends
<1>2. fmt' \in Formats /\ fmt'.pc = "done" /\ fmt'.todo = {} /\ fmt'.result = "error" /\ fmt'.mounts = fmt.mounts
  BY <1>1 DEF Formats
<1>3. (Disks!Twice \/ Disks!Shared)' <=> Disks!Twice \/ Disks!Shared
  BY <1>2 DEF Disks!Twice, Disks!Shared, Disks!Holds, Disks!Devices, Disks!IsDisk
<1> QED BY <1>1, <1>2, <1>3 DEF DisksInv, Disks!TypeOK, Formatting, Probed, Spared, Covered

\* umount: one place less, with the one mount there.
LEMMA UmountStep ==
  ASSUME DisksInv, Disks!Umount
  PROVE  DisksInv'
<1>0. /\ fmt \in Formats /\ Disks!WellFormed(blocks, mounts, swaps) /\ fmt.result = "none"
      /\ fmt.pc = "umount" /\ UNCHANGED <<blocks, swaps, faults>> /\ faults \in Nat
  BY DEF DisksInv, Formatting, Disks!TypeOK, Disks!Umount
<1>1. PICK x \in fmt.todo :
        LET there == {i \in DOMAIN mounts : mounts[i].at = x.at}
        IN  IF there = {} THEN Disks!Ends("error") /\ UNCHANGED mounts
            ELSE /\ \E i \in there : (\A j \in there : j <= i) /\ mounts' = Disks!Removed(mounts, i)
                 /\ fmt' = [fmt EXCEPT !.todo = @ \ {x}]
  BY DEF Disks!Umount
<1>2. CASE \A i \in DOMAIN mounts : mounts[i].at # x.at
  <2>1. Disks!Ends("error") /\ UNCHANGED mounts
    BY <1>1, <1>2
  <2>2. faults = 0 => Disks!Twice \/ Disks!Shared
    BY <1>0, <1>2 DEF DisksInv, Covered, Held
  <2> QED BY <1>0, <2>1, <2>2, EndStep
<1>3. CASE \E i \in DOMAIN mounts : mounts[i].at = x.at
  <2>1. PICK i \in DOMAIN mounts : mounts[i].at = x.at /\ mounts' = Disks!Removed(mounts, i)
    BY <1>1, <1>3
  <2>2. fmt' = [fmt EXCEPT !.todo = @ \ {x}]
    BY <1>1, <1>3
  <2>3. /\ fmt' \in Formats /\ fmt'.pc = "umount" /\ fmt'.todo = fmt.todo \ {x} /\ fmt'.result = "none"
        /\ fmt'.mounts = fmt.mounts /\ fmt'.swaps = fmt.swaps /\ fmt'.target = fmt.target
    BY <1>0, <2>2 DEF Formats
  <2>4. /\ \A k \in DOMAIN mounts' : \E l \in DOMAIN mounts : l # i /\ mounts'[k] = mounts[l]
        /\ \A k, l \in DOMAIN mounts' :
             k # l => \E m, n \in DOMAIN mounts : m # n /\ mounts'[k] = mounts[m] /\ mounts'[l] = mounts[n]
        /\ \A l \in DOMAIN mounts : l # i => \E k \in DOMAIN mounts' : mounts'[k] = mounts[l]
        /\ Disks!WellFormed(blocks, mounts', swaps)
    BY <1>0, <2>1, RemovedOf
  <2>5. \A d : Disks!Parts(d)' = Disks!Parts(d)
    BY <1>0 DEF Disks!Parts
  <2>6. \A b : \A k \in DOMAIN mounts' : \A l \in DOMAIN mounts :
          mounts'[k] = mounts[l] => (Holding(b, k)' <=> Holding(b, l))
    BY <1>0 DEF Holding, Disks!Holds, Disks!Devices
  <2>7. Spared'
    <3>1. ASSUME NEW d \in fmt.target, NeededBy(d, fmt.swaps)' PROVE NeededBy(d, fmt.swaps)
      <4>1. PICK b \in {d} \cup Disks!Parts(d) :
              b \in fmt.swaps \/ \E k \in DOMAIN mounts' : mounts'[k].at = Disks!Root /\ Holding(b, k)'
        BY <2>3, <2>5, <3>1 DEF NeededBy
      <4>2. CASE b \in fmt.swaps
        BY <4>2 DEF NeededBy
      <4>3. CASE \E k \in DOMAIN mounts' : mounts'[k].at = Disks!Root /\ Holding(b, k)'
        BY <2>4, <2>6, <4>3 DEF NeededBy
      <4> QED BY <4>1, <4>2, <4>3
    <3>2. \A d \in fmt.target : ~NeededBy(d, fmt.swaps)
      BY <1>0 DEF DisksInv, Spared
    <3>3. \A d \in fmt.target : ~NeededBy(d, fmt.swaps)'
      BY <3>1, <3>2
    <3>4. \A y \in fmt.todo : y.at # Disks!Root
      BY <1>0 DEF DisksInv, Spared
    <3> QED BY <2>3, <3>3, <3>4 DEF Spared
  <2>8. Held => Held'
    <3> SUFFICES ASSUME Held PROVE Held'
      OBVIOUS
    <3>0. \A j \in DOMAIN mounts : mounts[j].at = x.at => j = i
      BY <2>1 DEF Held
    <3>1. ASSUME NEW y \in fmt.todo, y # x PROVE \E k \in DOMAIN mounts' : mounts'[k].at = y.at
      <4>1. PICK l \in DOMAIN mounts : mounts[l].at = y.at
        BY DEF Held
      <4>2. y.at # x.at
        BY <3>1 DEF Held
      <4>3. l # i
        BY <2>1, <4>1, <4>2
      <4> QED BY <2>4, <4>1, <4>3
    <3>2. ASSUME NEW k \in DOMAIN mounts', NEW l \in DOMAIN mounts', mounts'[k].at = mounts'[l].at PROVE k = l
      <4> SUFFICES ASSUME k # l PROVE FALSE
        OBVIOUS
      <4>1. PICK m, n \in DOMAIN mounts : m # n /\ mounts'[k] = mounts[m] /\ mounts'[l] = mounts[n]
        BY <2>4
      <4>2. mounts[m].at = mounts[n].at
        BY <3>2, <4>1
      <4> QED BY <4>1, <4>2 DEF Held
    <3>3. ASSUME NEW d \in fmt.target, NEW b \in {d} \cup Disks!Parts(d), NEW k \in DOMAIN mounts', Holding(b, k)'
          PROVE  \E y \in fmt.todo \ {x} : y.at = mounts'[k].at
      <4>1. PICK l \in DOMAIN mounts : l # i /\ mounts'[k] = mounts[l]
        BY <2>4
      <4>2. Holding(b, l)
        BY <2>6, <3>3, <4>1
      <4>3. PICK y \in fmt.todo : y.at = mounts[l].at
        BY <4>2 DEF Held
      <4>4. y # x
        BY <3>0, <4>1, <4>3
      <4> QED BY <4>1, <4>3, <4>4
    <3>4. \A y, z \in fmt.todo : y.at = z.at => y = z
      BY DEF Held
    <3> QED BY <2>3, <2>5, <3>1, <3>2, <3>3, <3>4 DEF Held
  <2>9. (Disks!Twice \/ Disks!Shared)' <=> Disks!Twice \/ Disks!Shared
    BY <1>0, <2>3 DEF Disks!Twice, Disks!Shared, Disks!Holds, Disks!Devices, Disks!IsDisk
  <2>10. Covered'
    BY <1>0, <2>3, <2>8, <2>9 DEF DisksInv, Covered
  <2>11. Probed' /\ Formatting' /\ Disks!TypeOK'
    BY <1>0, <2>3, <2>4 DEF DisksInv, Probed, Formatting, OnDisks, Disks!TypeOK
  <2> QED BY <2>7, <2>10, <2>11 DEF DisksInv
<1> QED BY <1>2, <1>3

LEMMA UmountFailsStep ==
  ASSUME DisksInv, Disks!UmountFails
  PROVE  DisksInv'
<1>1. /\ fmt.pc = "umount" /\ Disks!Ends("error") /\ UNCHANGED <<blocks, mounts, swaps>>
      /\ faults \in Nat /\ faults' = faults + 1
  BY DEF Disks!UmountFails, DisksInv, Formatting
<1>2. faults' \in Nat /\ faults' # 0
  BY <1>1
<1> QED BY <1>1, <1>2, EndStep

\* mkfs.btrfs: nothing that is mounted or swapped to goes.
LEMMA MkfsStep ==
  ASSUME DisksInv, Disks!Mkfs
  PROVE  DisksInv'
<1>0. /\ fmt \in Formats /\ Disks!WellFormed(blocks, mounts, swaps) /\ fmt.result = "none" /\ fmt.todo = {}
      /\ fmt.pc = "umount" /\ UNCHANGED <<mounts, swaps, faults>> /\ faults \in Nat
      /\ \A d \in fmt.target : d \in DOMAIN blocks /\ blocks[d].disk = d
  BY DEF DisksInv, Formatting, OnDisks, Formats, Disks!TypeOK, Disks!Mkfs
<1>1. CASE \E d \in fmt.target : Disks!Busy(d)
  <2>1. Disks!Ends("error") /\ UNCHANGED blocks
    BY <1>1 DEF Disks!Mkfs
  <2>2. ASSUME faults = 0, Held PROVE FALSE
    <3>1. PICK d \in fmt.target : Disks!Busy(d)
      BY <1>1
    <3>2. PICK b \in {d} \cup Disks!Parts(d) :
            \/ b \in swaps
            \/ \E i \in DOMAIN mounts : \/ mounts[i].dev = b
                                        \/ blocks[b].vol # 0 /\ mounts[i].dev \in Disks!Devices(blocks[b].vol)
      BY <3>1 DEF Disks!Busy
    <3>3. b \in DOMAIN blocks
      BY <1>0 DEF Disks!Parts
    <3>4. CASE b \in swaps
      <4>1. swaps = fmt.swaps /\ ~NeededBy(d, fmt.swaps)
        BY <1>0, <2>2 DEF DisksInv, Probed, Spared
      <4> QED BY <3>4, <4>1 DEF NeededBy
    <3>5. ASSUME NEW i \in DOMAIN mounts, mounts[i].dev = b \/ (blocks[b].vol # 0 /\ mounts[i].dev \in Disks!Devices(blocks[b].vol))
          PROVE  FALSE
      <4>1. /\ blocks[b].vol # 0 <=> blocks[b].use = "btrfs"
            /\ mounts[i].dev = b => blocks[b].use \in {"fs", "btrfs"} /\ (b \in Disks!Devices(blocks[b].vol))
        BY <1>0, <3>3 DEF Disks!WellFormed, Disks!Devices
      <4>2. Holding(b, i)
        BY <1>0, <3>3, <3>5, <4>1, HoldsOf
      <4> QED BY <1>0, <2>2, <4>2 DEF Held
    <3> QED BY <3>2, <3>4, <3>5
  <2>3. faults = 0 => Disks!Twice \/ Disks!Shared
    BY <1>0, <2>2 DEF DisksInv, Covered
  <2> QED BY <1>0, <2>1, <2>3, EndStep
<1>2. CASE \A d \in fmt.target : ~Disks!Busy(d)
  <2> DEFINE T == fmt.target
             K == DOMAIN blocks \ UNION {Disks!Parts(d) : d \in T}
             New == [b \in K |-> IF b \in T THEN [disk |-> b, use |-> "btrfs", vol |-> Disks!NewVolume] ELSE blocks[b]]
  <2>1. Disks!Ends("ok") /\ blocks' = New
    BY <1>2 DEF Disks!Mkfs
  <2>2. fmt' = [fmt EXCEPT !.pc = "done", !.result = "ok", !.todo = {}]
    BY <2>1 DEF Disks!Ends
  <2>3. fmt' \in Formats /\ fmt'.pc = "done" /\ fmt'.todo = {} /\ fmt'.result = "ok"
    BY <1>0, <2>2 DEF Formats
  <2>4. \A b : b \in K <=> b \in DOMAIN blocks /\ (blocks[b].disk = b \/ blocks[b].disk \notin T)
    BY DEF Disks!Parts
  <2>5. \A b \in K : New[b] = IF b \in T THEN [disk |-> b, use |-> "btrfs", vol |-> Disks!NewVolume] ELSE blocks[b]
    OBVIOUS
  <2>6. DOMAIN New = K /\ T \subseteq K /\ K \subseteq DOMAIN blocks
    BY <1>0, <2>4
  <2> HIDE DEF T, K, New
  <2>7. \A b \in DOMAIN blocks :
          /\ blocks[b] \in [disk : DOMAIN blocks, use : Uses, vol : Nat]
          /\ blocks[b].vol # 0 <=> blocks[b].use = "btrfs"
          /\ blocks[b].disk # b => blocks[blocks[b].disk].use = "table" /\ blocks[blocks[b].disk].disk = blocks[b].disk
    BY <1>0 DEF Disks!WellFormed, Uses
  <2>8. New \in [K -> [disk : K, use : Uses, vol : Nat]]
    <3>1. ASSUME NEW b \in K PROVE New[b] \in [disk : K, use : Uses, vol : Nat]
      <4>1. CASE b \in T
        <5>1. New[b] = [disk |-> b, use |-> "btrfs", vol |-> Disks!NewVolume]
          BY <2>5, <4>1
        <5>2. Disks!NewVolume \in Nat
          BY DEF Disks!NewVolume
        <5> QED BY <5>1, <5>2 DEF Uses
      <4>2. CASE b \notin T
        <5>1. New[b] = blocks[b] /\ b \in DOMAIN blocks
          BY <2>5, <2>6, <4>2
        <5>2. blocks[b].disk \in K
          BY <2>4, <2>7, <5>1
        <5> QED BY <2>7, <5>1, <5>2
      <4> QED BY <4>1, <4>2
    <3>2. New = [b \in K |-> New[b]]
      BY DEF New
    <3> QED BY <3>1, <3>2
  <2>9. IsFiniteSet(K)
    <3>0. \A S : Disks!IsFiniteSet(S) = IsFiniteSet(S)
      BY DEF Disks!IsFiniteSet, IsFiniteSet
    <3>1. IsFiniteSet(DOMAIN blocks)
      BY <1>0, <3>0 DEF Disks!WellFormed
    <3> QED BY <2>6, <3>1, FS_Subset
  <2>10. ASSUME NEW b \in K
         PROVE  /\ New[b].vol # 0 <=> New[b].use = "btrfs"
                /\ New[b].disk # b => New[New[b].disk].use = "table" /\ New[New[b].disk].disk = New[b].disk
    <3>1. CASE b \in T
      <4>1. New[b] = [disk |-> b, use |-> "btrfs", vol |-> Disks!NewVolume]
        BY <2>5, <3>1
      <4>2. Disks!NewVolume # 0
        BY DEF Disks!NewVolume
      <4> QED BY <4>1, <4>2
    <3>2. CASE b \notin T
      <4>1. New[b] = blocks[b] /\ b \in DOMAIN blocks
        BY <2>5, <2>6, <3>2
      <4>2. ASSUME blocks[b].disk # b PROVE New[blocks[b].disk] = blocks[blocks[b].disk]
        <5>1. blocks[b].disk \notin T /\ blocks[b].disk \in K
          BY <2>4, <2>7, <4>1, <4>2
        <5> QED BY <2>5, <5>1
      <4> QED BY <2>7, <4>1, <4>2
    <3> QED BY <3>1, <3>2
  <2>11. \A b \in DOMAIN blocks :
           (\A d \in T : b \notin {d} \cup Disks!Parts(d)) => b \in K /\ New[b] = blocks[b]
    BY <2>4, <2>5 DEF Disks!Parts
  <2>12. ASSUME NEW i \in DOMAIN mounts PROVE mounts[i].dev \in K /\ New[mounts[i].dev] = blocks[mounts[i].dev]
    <3>1. mounts[i].dev \in DOMAIN blocks
      BY <1>0, MountsTyped
    <3> QED BY <1>2, <2>11, <3>1 DEF Disks!Busy, T
  <2>13. \A b \in swaps : b \in K /\ New[b].use = "swap"
    <3>1. \A b \in swaps : b \in DOMAIN blocks /\ blocks[b].use = "swap"
      BY <1>0 DEF Disks!WellFormed
    <3> QED BY <1>2, <2>11, <3>1 DEF Disks!Busy, T
  <2>14. mounts \in Seq([dev : K, at : Disks!Spots])
    <3> DEFINE E == [dev : DOMAIN blocks, at : Disks!Spots]
               F == [dev : K, at : Disks!Spots]
    <3>1. mounts \in Seq(E) /\ Len(mounts) \in Nat /\ DOMAIN mounts = 1 .. Len(mounts)
      BY <1>0, MountsTyped
    <3>2. ASSUME NEW i \in DOMAIN mounts PROVE mounts[i] \in F
      <4>1. mounts[i] \in E
        <5> HIDE DEF E
        <5> QED BY <3>1
      <4> QED BY <2>12, <4>1
    <3> HIDE DEF E, F
    <3>3. mounts = [i \in 1 .. Len(mounts) |-> mounts[i]]
      BY <3>1
    <3>4. mounts \in Seq(F)
      BY <3>1, <3>2, <3>3
    <3> QED BY <3>4 DEF F
  <2>15. ASSUME NEW i \in DOMAIN mounts
         PROVE  /\ New[mounts[i].dev].use \in {"fs", "btrfs"}
                /\ mounts[i].at \in Disks!Places(New, mounts[i].dev) \/ (mounts[i].at = Disks!Root /\ i = 1)
    <3>1. Disks!Places(New, mounts[i].dev) = Disks!Places(blocks, mounts[i].dev)
      BY <2>12 DEF Disks!Places
    <3>2. /\ blocks[mounts[i].dev].use \in {"fs", "btrfs"}
          /\ mounts[i].at \in Disks!Places(blocks, mounts[i].dev) \/ (mounts[i].at = Disks!Root /\ i = 1)
      BY <1>0 DEF Disks!WellFormed
    <3> QED BY <2>12, <3>1, <3>2
  <2>16. Disks!WellFormed(New, mounts, swaps)
    <3>1. DOMAIN blocks \subseteq Nat /\ \A S : Disks!IsFiniteSet(S) = IsFiniteSet(S)
      BY <1>0 DEF Disks!WellFormed, Disks!IsFiniteSet, IsFiniteSet
    <3> QED BY <2>6, <2>8, <2>9, <2>10, <2>13, <2>14, <2>15, <3>1 DEF Disks!WellFormed, Uses
  <2> QED BY <1>0, <2>1, <2>3, <2>16 DEF DisksInv, Disks!TypeOK, Formatting, Probed, Spared, Covered
<1> QED BY <1>1, <1>2

\* Others mount and swap on.
LEMMA OthersStep ==
  ASSUME DisksInv, NEW b \in DOMAIN blocks, Disks!OtherMounts(b) \/ Disks!SwapOn(b)
  PROVE  DisksInv'
<1>0. /\ Disks!WellFormed(blocks, mounts, swaps) /\ fmt \in Formats
      /\ fmt.pc \in {"mount", "again", "umount"} /\ UNCHANGED <<blocks, fmt>> /\ faults \in Nat /\ faults' = faults + 1
  BY DEF DisksInv, Formatting, Disks!TypeOK, Disks!OtherMounts, Disks!SwapOn
<1>1. faults' \in Nat /\ faults' # 0 /\ fmt.result # "error"
  BY <1>0 DEF DisksInv, Disks!TypeOK
<1>2. CASE Disks!OtherMounts(b)
  <2> DEFINE new == [dev |-> b, at |-> <<"other", b>>]
             E == [dev : DOMAIN blocks, at : Disks!Spots]
  <2>1. mounts' = Append(mounts, new) /\ UNCHANGED swaps /\ blocks[b].use \in {"fs", "btrfs"}
    BY <1>2 DEF Disks!OtherMounts
  <2>2. mounts \in Seq(E) /\ Len(mounts) \in Nat /\ DOMAIN mounts = 1 .. Len(mounts)
    BY <1>0, MountsTyped
  <2>3. new.dev = b /\ new.at = <<"other", b>> /\ new.at \in Disks!Places(blocks, b) /\ new \in E
    <3>1. b \in Nat
      BY <1>0 DEF Disks!WellFormed
    <3>2. <<"other", b>> \in Disks!Spots
      BY <3>1 DEF Disks!Spots
    <3> QED BY <3>2 DEF Disks!Places
  <2> HIDE DEF new, E
  <2>4. /\ mounts' \in Seq(E) /\ DOMAIN mounts' = 1 .. Len(mounts) + 1
        /\ \A i \in DOMAIN mounts : mounts'[i] = mounts[i]
        /\ mounts'[Len(mounts) + 1] = new
    BY <2>1, <2>2, <2>3
  <2>5. \A i \in DOMAIN mounts' : (i \in DOMAIN mounts /\ mounts'[i] = mounts[i]) \/ mounts'[i] = new
    BY <2>2, <2>4
  <2>6. Disks!WellFormed(blocks, mounts', swaps)
    <3>1. ASSUME NEW i \in DOMAIN mounts'
          PROVE  /\ blocks[mounts'[i].dev].use \in {"fs", "btrfs"}
                 /\ mounts'[i].at \in Disks!Places(blocks, mounts'[i].dev) \/ (mounts'[i].at = Disks!Root /\ i = 1)
      <4>1. CASE mounts'[i] = new
        BY <2>1, <2>3, <4>1
      <4>2. CASE i \in DOMAIN mounts /\ mounts'[i] = mounts[i]
        <5>1. /\ blocks[mounts[i].dev].use \in {"fs", "btrfs"}
              /\ mounts[i].at \in Disks!Places(blocks, mounts[i].dev) \/ (mounts[i].at = Disks!Root /\ i = 1)
          BY <1>0, <4>2 DEF Disks!WellFormed
        <5> QED BY <4>2, <5>1
      <4> QED BY <2>5, <4>1, <4>2
    <3> QED BY <1>0, <2>4, <3>1, Remounted DEF E
  <2>7. \A d : NeededBy(d, fmt.swaps)' => NeededBy(d, fmt.swaps)
    <3>1. new.at # Disks!Root
      BY <2>3, PlacesDiffer
    <3>2. \A c : \A i \in DOMAIN mounts : mounts'[i] = mounts[i] => (Holding(c, i)' <=> Holding(c, i))
      BY <1>0 DEF Holding, Disks!Holds, Disks!Devices
    <3>3. \A c : (\E i \in DOMAIN mounts' : mounts'[i].at = Disks!Root /\ Holding(c, i)')
            => \E i \in DOMAIN mounts : mounts[i].at = Disks!Root /\ Holding(c, i)
      BY <2>5, <3>1, <3>2
    <3>4. \A d : Disks!Parts(d)' = Disks!Parts(d)
      BY <1>0 DEF Disks!Parts
    <3> QED BY <1>0, <3>3, <3>4 DEF NeededBy
  <2>8. Spared'
    BY <1>0, <2>7 DEF DisksInv, Spared
  <2> QED BY <1>0, <1>1, <2>1, <2>6, <2>8 DEF DisksInv, Disks!TypeOK, Formatting, OnDisks, Probed, Covered
<1>3. CASE Disks!SwapOn(b)
  <2>1. swaps' = swaps \cup {b} /\ UNCHANGED mounts /\ blocks[b].use = "swap"
    BY <1>3 DEF Disks!SwapOn
  <2>2. Disks!WellFormed(blocks, mounts, swaps')
    BY <1>0, <2>1 DEF Disks!WellFormed
  <2>3. \A d : NeededBy(d, fmt.swaps)' <=> NeededBy(d, fmt.swaps)
    BY <1>0, <2>1 DEF NeededBy, Holding, Disks!Holds, Disks!Parts, Disks!Devices
  <2>4. Spared'
    BY <1>0, <2>3 DEF DisksInv, Spared
  <2> QED BY <1>0, <1>1, <2>1, <2>2, <2>4 DEF DisksInv, Disks!TypeOK, Formatting, OnDisks, Probed, Covered
<1> QED BY <1>2, <1>3

LEMMA DisksStep ==
  ASSUME DisksInv, [Disks!Next]_(Disks!vars)
  PROVE  DisksInv'
<1>1. CASE UNCHANGED Disks!vars
  <2>1. UNCHANGED <<blocks, mounts, swaps, fmt, faults>>
    BY <1>1 DEF Disks!vars
  <2>2. \A d, S : NeededBy(d, S)' <=> NeededBy(d, S)
    BY <2>1 DEF NeededBy, Holding, Disks!Holds, Disks!Parts, Disks!Devices
  <2>3. Spared'
    BY <2>1, <2>2 DEF DisksInv, Spared
  <2>4. (Disks!Twice' <=> Disks!Twice) /\ (Disks!Shared' <=> Disks!Shared) /\ (Held' <=> Held)
    BY <2>1 DEF Disks!Twice, Disks!Shared, Held, Holding, Disks!Holds, Disks!Devices, Disks!Parts, Disks!IsDisk
  <2>5. Covered'
    BY <2>1, <2>4 DEF DisksInv, Covered
  <2> QED BY <2>1, <2>3, <2>5 DEF DisksInv, Disks!TypeOK, Formatting, OnDisks, Probed
<1>2. CASE Disks!Next
  BY <1>2, ProbeStep, MountAllStep, AgainStep, UmountStep, MkfsStep, UmountFailsStep, OthersStep DEF Disks!Next, Disks!Proceed
<1> QED BY <1>1, <1>2

LEMMA DisksAlways == Disks!Inputs => (Disks!Spec => []DisksInv)
<1> SUFFICES ASSUME Disks!Inputs PROVE Disks!Spec => []DisksInv
  OBVIOUS
<1>1. Disks!Init => DisksInv
  BY DisksBegin
<1>2. DisksInv /\ [Disks!Next]_(Disks!vars) => DisksInv'
  BY DisksStep
<1> QED BY <1>1, <1>2, PTL DEF Disks!Spec

\* statBlocks() says of a disk that it must not be formatted if, and only if, the root file
\* system or an active swap lies on it, whatever is mounted where and when (storage.js 393).
THEOREM NeededIsRefused == Disks!Inputs => (Disks!Spec => []Disks!RefusesRightly)
<1>1. DisksInv => Disks!RefusesRightly
  <2> SUFFICES ASSUME DisksInv, NEW d \in DOMAIN blocks, blocks[d].disk = d
               PROVE  Disks!Unformattable(d, mounts, swaps) <=> Disks!Needed(d)
    BY DEF Disks!RefusesRightly, Disks!IsDisk
  <2>1. Disks!WellFormed(blocks, mounts, swaps) /\ \A b \in swaps : b \in DOMAIN blocks /\ blocks[b].use = "swap"
    BY DEF DisksInv, Disks!TypeOK, Disks!WellFormed
  <2> QED BY <2>1, RefusesBy DEF NeededBy, Disks!Needed, Holding
<1> QED BY <1>1, DisksAlways, PTL

\* mkfsBtrfsAsync() unmounts neither the root nor anything of a disk that is needed, and it
\* succeeds if no command fails and nothing is mounted twice (storage.js 862).
THEOREM NeededIsSpared == Disks!Inputs => (Disks!Spec => []Disks!SparesTheNeeded)
<1>1. DisksInv => Disks!SparesTheNeeded
  BY DEF DisksInv, Spared, Covered, Disks!SparesTheNeeded, NeededBy, Disks!Needed, Holding
<1> QED BY <1>1, DisksAlways, PTL

-----------------------------------------------------------------------------
(* Thumbnails: the queue of conversions.                                   *)

Thumbs == INSTANCE Thumbnail

Jobs == [key : Keys, cbs : SUBSET Clients, step : Thumbs!Steps \cup {"none"}]
JobsOf(p, R) == {p[i] : i \in DOMAIN p} \cup R
\* Jobs that wait in p and run in R: within the limit, and one on a key.
Queue(p, R) ==
  /\ p \in Seq(Jobs) /\ R \in SUBSET Jobs /\ IsFiniteSet(R) /\ Cardinality(R) <= Limit
  /\ \A i \in DOMAIN p : p[i].step = "none"
  /\ \A j \in R : j.step \in Thumbs!Steps
  /\ \A i, k \in DOMAIN p : p[i].key = p[k].key => i = k
  /\ \A j, k \in R : j.key = k.key => j = k
  /\ \A i \in DOMAIN p : \A j \in R : p[i].key # j.key
Full(p, R) == p # <<>> => Cardinality(R) = Limit
\* Two queues of the same jobs, which differ in their places and steps.
SameJob(x, y) == x.key = y.key /\ x.cbs = y.cbs
Same(p, R, q, S) ==
  /\ \A x \in JobsOf(q, S) : \E y \in JobsOf(p, R) : SameJob(x, y)
  /\ \A y \in JobsOf(p, R) : \E x \in JobsOf(q, S) : SameJob(x, y)

LEMMA QueueTyped ==
  ASSUME NEW p, NEW R, Queue(p, R)
  PROVE  /\ Len(p) \in Nat /\ DOMAIN p = 1 .. Len(p) /\ \A i \in DOMAIN p : p[i] \in Jobs
         /\ JobsOf(p, R) \subseteq Jobs
         /\ \A x, y \in JobsOf(p, R) : x.key = y.key => x = y
<1>1. p \in Seq(Jobs)
  BY DEF Queue
<1>2. Len(p) \in Nat /\ DOMAIN p = 1 .. Len(p) /\ \A i \in DOMAIN p : p[i] \in Jobs
  BY <1>1
<1>3. \A x, y \in JobsOf(p, R) : x.key = y.key => x = y
  BY DEF JobsOf, Queue
<1>4. JobsOf(p, R) \subseteq Jobs
  BY <1>2 DEF JobsOf, Queue
<1> QED BY <1>2, <1>3, <1>4

LEMMA CardinalityOf == \A K : Thumbs!Cardinality(K) = Cardinality(K)
BY DEF Thumbs!Cardinality, Cardinality

LEMMA FirstStepIs ==
  ASSUME Thumbs!Inputs, NEW k \in Keys
  PROVE  /\ Thumbs!FirstStep(k) \in Thumbs!Steps /\ Thumbs!FirstStep(k) # "rename"
         /\ Kinds[k] = "video" => Thumbs!FirstStep(k) = "ffmpeg"
<1>1. Kinds[k] \in {"video", "heic", "image"}
  BY DEF Thumbs!Inputs
<1> QED BY <1>1 DEF Thumbs!FirstStep, Thumbs!Steps

\* schedule(): the first of the sorted jobs start, as many as there are places.
LEMMA ScheduleOf ==
  ASSUME Thumbs!Inputs, NEW p, NEW R, Queue(p, R), Thumbs!Schedule(p, R)
  PROVE  /\ Queue(pending', converting') /\ Full(pending', converting')
         /\ Same(p, R, pending', converting')
         /\ \A x \in converting' : x \in R \/ x.step = Thumbs!FirstStep(x.key)
<1> DEFINE n == Len(p)
           m == Cardinality(R)
           room == Thumbs!Lower(Limit - m, n)
<1>1. n \in Nat /\ DOMAIN p = 1 .. n /\ \A i \in 1 .. n : p[i] \in Jobs
  BY QueueTyped
<1>2. m \in Nat /\ m <= Limit /\ Limit \in Nat
  BY FS_CardinalityType DEF Queue, Thumbs!Inputs
<1>3. room \in 0 .. n /\ m + room <= Limit /\ (room < n => m + room = Limit)
  BY <1>1, <1>2 DEF Thumbs!Lower
<1> DEFINE new(f) == [i \in 1 .. room |-> [p[f[i]] EXCEPT !.step = Thumbs!FirstStep(p[f[i]].key)]]
           N(f) == {[p[f[i]] EXCEPT !.step = Thumbs!FirstStep(p[f[i]].key)] : i \in 1 .. room}
           rest(f) == [i \in 1 .. n - room |-> p[f[room + i]]]
<1>4. PICK f \in Thumbs!Sortings(p) : pending' = rest(f) /\ converting' = R \cup N(f)
  BY CardinalityOf DEF Thumbs!Schedule
<1>5. /\ f \in [1 .. n -> 1 .. n] /\ \A i, k \in 1 .. n : f[i] = f[k] => i = k
      /\ \A k \in 1 .. n : \E i \in 1 .. n : f[i] = k
  BY <1>1 DEF Thumbs!Sortings, Thumbs!Bijection, Thumbs!Injection, Thumbs!Surjection, Thumbs!IsInjective
<1> HIDE DEF n, m, room
<1>0. \A i \in 1 .. room : i \in 1 .. n /\ f[i] \in 1 .. n
  <2>1. \A i \in 1 .. room : i \in 1 .. n
    BY <1>1, <1>3
  <2> QED BY <1>5, <2>1
<1>6. ASSUME NEW i \in 1 .. room
      PROVE  LET x == [p[f[i]] EXCEPT !.step = Thumbs!FirstStep(p[f[i]].key)]
             IN  /\ x \in Jobs /\ x.key = p[f[i]].key /\ x.cbs = p[f[i]].cbs
                 /\ x.step = Thumbs!FirstStep(x.key) /\ x.step \in Thumbs!Steps
  <2>1. i \in 1 .. n /\ f[i] \in 1 .. n
    BY <1>0
  <2>2. p[f[i]] \in Jobs
    BY <1>1, <2>1
  <2>3. Thumbs!FirstStep(p[f[i]].key) \in Thumbs!Steps
    BY <2>2, FirstStepIs DEF Jobs
  <2> QED BY <2>2, <2>3 DEF Jobs
<1>7. ASSUME NEW i \in 1 .. n - room PROVE room + i \in 1 .. n /\ f[room + i] \in 1 .. n
  <2>1. room + i \in 1 .. n
    BY <1>1, <1>3
  <2> QED BY <1>5, <2>1
<1>8. pending' \in Seq(Jobs) /\ DOMAIN pending' = 1 .. n - room /\ \A i \in 1 .. n - room : pending'[i] = p[f[room + i]]
  <2>1. \A i \in 1 .. n - room : p[f[room + i]] \in Jobs
    BY <1>1, <1>7
  <2>2. n - room \in Nat
    BY <1>1, <1>3
  <2> QED BY <1>4, <2>1, <2>2
<1>9. IsFiniteSet(N(f)) /\ Cardinality(N(f)) = room
  <2>1. new(f) \in Surjection(1 .. room, N(f))
    BY DEF Surjection
  <2>2. \A i, k \in 1 .. room : new(f)[i] = new(f)[k] => i = k
    <3>1. ASSUME NEW i \in 1 .. room, NEW k \in 1 .. room, new(f)[i] = new(f)[k] PROVE i = k
      <4>1. p[f[i]].key = p[f[k]].key
        BY <1>6, <3>1
      <4>2. i \in 1 .. n /\ k \in 1 .. n /\ f[i] \in 1 .. n /\ f[k] \in 1 .. n
        BY <1>0
      <4>3. f[i] = f[k]
        BY <1>1, <4>1, <4>2 DEF Queue
      <4> QED BY <1>5, <4>2, <4>3
    <3> QED BY <3>1
  <2>3. new(f) \in Injection(1 .. room, N(f))
    BY <2>1, <2>2 DEF Surjection, Injection, IsInjective
  <2>4. IsFiniteSet(1 .. room) /\ Cardinality(1 .. room) = room
    BY <1>1, <1>3, FS_Interval
  <2> HIDE DEF new, N
  <2> QED BY <2>1, <2>3, <2>4, FS_Surjection
<1>10. ASSUME NEW x \in N(f)
       PROVE  /\ x \in Jobs /\ x.step = Thumbs!FirstStep(x.key) /\ x.step \in Thumbs!Steps
              /\ \E i \in 1 .. room : i \in 1 .. n /\ f[i] \in 1 .. n /\ x.key = p[f[i]].key /\ x.cbs = p[f[i]].cbs
  <2>1. PICK i \in 1 .. room : x = [p[f[i]] EXCEPT !.step = Thumbs!FirstStep(p[f[i]].key)]
    BY <1>10
  <2>2. i \in 1 .. n /\ f[i] \in 1 .. n
    BY <1>0
  <2> QED BY <1>6, <2>1, <2>2
<1>11. \A x, y \in N(f) : x.key = y.key => x = y
  <2>1. ASSUME NEW x \in N(f), NEW y \in N(f), x.key = y.key PROVE x = y
    <3>1. PICK i \in 1 .. room : x = [p[f[i]] EXCEPT !.step = Thumbs!FirstStep(p[f[i]].key)]
      BY <2>1
    <3>2. PICK k \in 1 .. room : y = [p[f[k]] EXCEPT !.step = Thumbs!FirstStep(p[f[k]].key)]
      BY <2>1
    <3>3. f[i] \in 1 .. n /\ f[k] \in 1 .. n
      BY <1>0
    <3>4. p[f[i]].key = p[f[k]].key
      BY <1>6, <2>1, <3>1, <3>2
    <3>5. f[i] = f[k]
      BY <1>1, <3>3, <3>4 DEF Queue
    <3> QED BY <3>1, <3>2, <3>5
  <2> QED BY <2>1
<1> HIDE DEF N, new, rest
<1>12. N(f) \cap R = {}
  BY <1>1, <1>10 DEF Queue
<1>13. /\ IsFiniteSet(converting') /\ Cardinality(converting') = m + room
  <2>1. IsFiniteSet(R) /\ Cardinality(R) = m /\ IsFiniteSet(R \cap N(f)) /\ R \cap N(f) = {}
    BY <1>12, FS_EmptySet DEF Queue, m
  <2>2. Cardinality(R \cap N(f)) = 0
    BY <2>1, FS_EmptySet
  <2>3. IsFiniteSet(R \cup N(f)) /\ Cardinality(R \cup N(f)) = m + room - 0
    BY <1>9, <2>1, <2>2, FS_Union
  <2> QED BY <1>2, <1>3, <1>4, <2>3
<1>14. Queue(pending', converting')
  <2>1. \A i \in DOMAIN pending' : pending'[i].step = "none"
    BY <1>1, <1>7, <1>8 DEF Queue
  <2>2. \A i, k \in DOMAIN pending' : pending'[i].key = pending'[k].key => i = k
    <3>1. ASSUME NEW i \in 1 .. n - room, NEW k \in 1 .. n - room, pending'[i].key = pending'[k].key PROVE i = k
      <4>1. f[room + i] = f[room + k]
        BY <1>1, <1>7, <1>8, <3>1 DEF Queue
      <4>2. room + i = room + k
        BY <1>5, <1>7, <4>1
      <4> QED BY <1>3, <4>2
    <3> QED BY <1>8, <3>1
  <2>3. \A j \in converting' : j \in Jobs /\ j.step \in Thumbs!Steps
    BY <1>4, <1>10 DEF Queue
  <2>4. \A j, k \in converting' : j.key = k.key => j = k
    BY <1>1, <1>4, <1>10, <1>11 DEF Queue
  <2>5. ASSUME NEW i \in 1 .. n - room, NEW j \in converting' PROVE pending'[i].key # j.key
    <3>1. CASE j \in R
      BY <1>1, <1>7, <1>8, <3>1 DEF Queue
    <3>2. CASE j \in N(f)
      <4>1. PICK k \in 1 .. room : k \in 1 .. n /\ f[k] \in 1 .. n /\ j.key = p[f[k]].key
        BY <1>10, <3>2
      <4>2. room + i # k
        BY <1>1, <1>3, <4>1
      <4>3. f[room + i] # f[k]
        BY <1>5, <1>7, <4>1, <4>2
      <4> QED BY <1>1, <1>7, <1>8, <4>1, <4>3 DEF Queue
    <3> QED BY <1>4, <3>1, <3>2
  <2> QED BY <1>2, <1>3, <1>8, <1>13, <2>1, <2>2, <2>3, <2>4, <2>5 DEF Queue
<1>15. Full(pending', converting')
  <2>1. ASSUME room = n PROVE pending' = <<>>
    BY <1>1, <1>8, <2>1
  <2> QED BY <1>1, <1>3, <1>13, <2>1 DEF Full
<1>16. Same(p, R, pending', converting')
  <2>1. ASSUME NEW x \in JobsOf(pending', converting') PROVE \E y \in JobsOf(p, R) : SameJob(x, y)
    <3>1. CASE \E i \in 1 .. n - room : x = pending'[i]
      BY <1>1, <1>7, <1>8, <3>1 DEF JobsOf, SameJob
    <3>2. CASE x \in R
      BY <3>2 DEF JobsOf, SameJob
    <3>3. CASE x \in N(f)
      BY <1>1, <1>10, <3>3 DEF JobsOf, SameJob
    <3> QED BY <1>4, <1>8, <3>1, <3>2, <3>3 DEF JobsOf
  <2>2. ASSUME NEW y \in JobsOf(p, R) PROVE \E x \in JobsOf(pending', converting') : SameJob(x, y)
    <3>1. CASE y \in R
      BY <1>4, <3>1 DEF JobsOf, SameJob
    <3>2. ASSUME NEW l \in 1 .. n, y = p[l] PROVE \E x \in JobsOf(pending', converting') : SameJob(x, y)
      <4>1. PICK i \in 1 .. n : f[i] = l
        BY <1>5
      <4>2. CASE i <= room
        <5> DEFINE x == [p[f[i]] EXCEPT !.step = Thumbs!FirstStep(p[f[i]].key)]
        <5>1. i \in 1 .. room
          BY <1>3, <4>2
        <5>2. x \in N(f)
          BY <5>1 DEF N
        <5>3. SameJob(x, y)
          BY <1>6, <3>2, <4>1, <5>1 DEF SameJob
        <5> HIDE DEF x
        <5> QED BY <1>4, <5>2, <5>3 DEF JobsOf
      <4>3. CASE i > room
        <5>1. i - room \in 1 .. n - room /\ room + (i - room) = i
          BY <1>1, <1>3, <4>3
        <5>2. pending'[i - room] = y
          BY <1>8, <3>2, <4>1, <5>1
        <5> QED BY <1>8, <5>1, <5>2 DEF JobsOf, SameJob
      <4> QED BY <1>3, <4>2, <4>3
    <3> QED BY <1>1, <3>1, <3>2 DEF JobsOf
  <2> QED BY <2>1, <2>2 DEF Same
<1>17. \A x \in converting' : x \in R \/ x.step = Thumbs!FirstStep(x.key)
  BY <1>4, <1>10
<1> QED BY <1>14, <1>15, <1>16, <1>17

\* The jobs change, each for itself, keeping its key and whether it runs.
LEMMA MappedOf ==
  ASSUME NEW p, NEW R, Queue(p, R), Full(p, R), NEW F \in [Jobs -> Jobs],
         \A x \in Jobs : F[x].key = x.key /\ (F[x].step = "none" <=> x.step = "none"),
         NEW q \in Seq(Jobs), DOMAIN q = DOMAIN p, \A i \in DOMAIN p : q[i] = F[p[i]],
         NEW S, S = {F[x] : x \in R}
  PROVE  Queue(q, S) /\ Full(q, S) /\ JobsOf(q, S) = {F[x] : x \in JobsOf(p, R)}
<1> DEFINE n == Len(p)
           G == [x \in R |-> F[x]]
<1>1. n \in Nat /\ DOMAIN p = 1 .. n /\ \A i \in 1 .. n : p[i] \in Jobs
  BY QueueTyped
<1>2. DOMAIN q = 1 .. n /\ \A i \in 1 .. n : q[i] = F[p[i]]
  BY <1>1
<1>3. R \subseteq Jobs /\ IsFiniteSet(R)
  BY DEF Queue
<1>4. IsFiniteSet(S) /\ Cardinality(S) = Cardinality(R)
  <2>1. G \in Surjection(R, S)
    BY DEF Surjection
  <2>2. \A x, y \in R : G[x] = G[y] => x = y
    BY <1>3 DEF Queue
  <2>3. G \in Injection(R, S)
    BY <2>1, <2>2 DEF Surjection, Injection, IsInjective
  <2> HIDE DEF G
  <2> QED BY <1>3, <2>1, <2>3, FS_Surjection
<1>5. \A x \in S : x \in Jobs /\ \E y \in R : y \in Jobs /\ x = F[y]
  BY <1>3
<1>6. \A x \in Jobs : x.step \in Thumbs!Steps \cup {"none"} /\ F[x] \in Jobs
  BY DEF Jobs
<1>7. \A x \in S : x.step \in Thumbs!Steps
  <2>1. \A y \in R : y.step # "none"
    BY DEF Queue, Thumbs!Steps
  <2>2. \A y \in R : F[y].step # "none" /\ F[y] \in Jobs
    BY <1>3, <2>1
  <2> QED BY <1>5, <1>6, <2>2
<1>8. JobsOf(q, S) = {F[x] : x \in JobsOf(p, R)}
  BY <1>1, <1>2 DEF JobsOf
<1> HIDE DEF n, G
<1>9. \A i \in DOMAIN q : q[i].step = "none" /\ q[i].key = p[i].key /\ i \in DOMAIN p
  BY <1>1, <1>2 DEF Queue
<1>10. \A x, y \in S : x.key = y.key => x = y
  BY <1>3, <1>5 DEF Queue
<1>11. \A i \in DOMAIN q : \A x \in S : q[i].key # x.key
  BY <1>5, <1>9 DEF Queue
<1>12. Queue(q, S)
  BY <1>2, <1>4, <1>5, <1>7, <1>9, <1>10, <1>11 DEF Queue
<1>13. Full(q, S)
  <2>1. q # <<>> => p # <<>>
    BY <1>1, <1>2
  <2> QED BY <1>4, <2>1 DEF Full
<1> QED BY <1>8, <1>12, <1>13

LEMMA AddedOf ==
  ASSUME NEW p, NEW R, Queue(p, R), NEW x \in Jobs, x.step = "none", \A y \in JobsOf(p, R) : y.key # x.key
  PROVE  Queue(Append(p, x), R) /\ JobsOf(Append(p, x), R) = JobsOf(p, R) \cup {x}
<1> DEFINE n == Len(p)
           q == Append(p, x)
<1>1. n \in Nat /\ DOMAIN p = 1 .. n /\ p \in Seq(Jobs) /\ \A i \in 1 .. n : p[i] \in Jobs
  BY QueueTyped DEF Queue
<1>2. q \in Seq(Jobs) /\ DOMAIN q = 1 .. n + 1 /\ q[n + 1] = x /\ \A i \in 1 .. n : q[i] = p[i]
  BY <1>1
<1> HIDE DEF n, q
<1>3. \A i \in DOMAIN q : i \in 1 .. n \/ i = n + 1
  BY <1>1, <1>2
<1>4. \A i \in 1 .. n : p[i] \in JobsOf(p, R)
  BY <1>1 DEF JobsOf
<1>5. R \subseteq JobsOf(p, R)
  BY DEF JobsOf
<1>6. \A i, k \in DOMAIN q : q[i].key = q[k].key => i = k
  BY <1>1, <1>2, <1>3, <1>4 DEF Queue
<1>7. \A i \in DOMAIN q : q[i].step = "none" /\ \A y \in R : q[i].key # y.key
  BY <1>1, <1>2, <1>3, <1>5 DEF Queue
<1>8. JobsOf(q, R) = JobsOf(p, R) \cup {x}
  <2>1. DOMAIN q = DOMAIN p \cup {n + 1}
    BY <1>1, <1>2
  <2> QED BY <1>1, <1>2, <2>1 DEF JobsOf
<1> QED BY <1>2, <1>6, <1>7, <1>8 DEF Queue, q

LEMMA TakenOf ==
  ASSUME Thumbs!Inputs, NEW p, NEW R, Queue(p, R), NEW j \in R
  PROVE  /\ Queue(p, R \ {j}) /\ JobsOf(p, R) = JobsOf(p, R \ {j}) \cup {j}
         /\ \A y \in JobsOf(p, R \ {j}) : y.key # j.key
<1>1. IsFiniteSet(R) /\ Cardinality(R \ {j}) = Cardinality(R) - 1 /\ IsFiniteSet(R \ {j})
  BY FS_RemoveElement DEF Queue
<1>2. Cardinality(R) \in Nat /\ Limit \in Nat
  BY <1>1, FS_CardinalityType DEF Thumbs!Inputs
<1>3. Cardinality(R \ {j}) <= Limit
  BY <1>1, <1>2 DEF Queue
<1>4. \A y \in JobsOf(p, R \ {j}) : y.key # j.key
  BY DEF JobsOf, Queue
<1> QED BY <1>1, <1>3, <1>4 DEF Queue, JobsOf

-----------------------------------------------------------------------------
\* Who waits is in a job on the key asked for, and only who waits.
ClientsWait(J, C) ==
  /\ \A x \in J : \A c \in x.cbs : C[c].pc = "wait" /\ C[c].key = x.key
  /\ \A c \in Clients : C[c].pc = "wait" => \E x \in J : c \in x.cbs
\* A video is converted after it was put in its place.
Running(R, F) ==
  \A x \in R : Kinds[x.key] = "video" =>
    x.step # "tifig" /\ (x.step \in {"convert", "rename"} => <<x.key, "-v">> \in F)
ClientOK(r) ==
  /\ r \in [pc : {"idle", "media", "lstat", "wait", "done"}, key : Keys \cup {0},
            answer : {"none", "path", "error", "canceled"}, answers : Nat, closed : BOOLEAN]
  /\ r.pc = "done" <=> r.answer # "none"
  /\ r.answers = (IF r.pc = "done" THEN 1 ELSE 0)
  /\ r.pc # "idle" => r.key \in Keys
  /\ r.pc = "wait" => ~r.closed
Served(C, F) ==
  /\ \A c \in Clients : C[c].answer = "path" => <<C[c].key, "">> \in F
  /\ \A k \in Keys : <<k, "">> \in F /\ Kinds[k] = "video" => <<k, "-v">> \in F
ThumbsInv ==
  /\ client = [c \in Clients |-> client[c]] /\ \A c \in Clients : ClientOK(client[c])
  /\ Queue(pending, converting) /\ Full(pending, converting)
  /\ ClientsWait(JobsOf(pending, converting), client)
  /\ Running(converting, cache)
  /\ cache \subseteq Keys \X {"", "-v"} /\ Served(client, cache)

LEMMA SameWaits ==
  ASSUME NEW p, NEW R, NEW q, NEW S, NEW C, Same(p, R, q, S), ClientsWait(JobsOf(p, R), C)
  PROVE  ClientsWait(JobsOf(q, S), C)
BY DEF Same, SameJob, ClientsWait

\* Those of cl are answered, and no one else is touched.
LEMMA AnswerOf ==
  ASSUME NEW cl \in SUBSET Clients, NEW what \in {"path", "error", "canceled"},
         \A c \in Clients : ClientOK(client[c]), \A c \in cl : client[c].pc \in {"media", "lstat", "wait"}
  PROVE  LET N == Thumbs!Answer(cl, what)
         IN  /\ DOMAIN N = Clients /\ \A c \in Clients : ClientOK(N[c])
             /\ \A c \in Clients \ cl : N[c] = client[c]
             /\ \A c \in cl : N[c].pc = "done" /\ N[c].answer = what /\ N[c].key = client[c].key /\ N[c].closed = client[c].closed
<1> DEFINE N == Thumbs!Answer(cl, what)
<1>1. ASSUME NEW c \in cl
      PROVE  ClientOK(N[c]) /\ N[c].pc = "done" /\ N[c].answer = what /\ N[c].key = client[c].key /\ N[c].closed = client[c].closed
  <2>1. N[c] = [client[c] EXCEPT !.pc = "done", !.answer = what, !.answers = @ + 1]
    BY DEF Thumbs!Answer
  <2>2. c \in Clients /\ ClientOK(client[c]) /\ client[c].pc \in {"media", "lstat", "wait"}
    OBVIOUS
  <2>3. client[c].answers = 0 /\ client[c].key \in Keys
    BY <2>2 DEF ClientOK
  <2> DEFINE r == client[c]
             s == [pc |-> "done", key |-> r.key, answer |-> what, answers |-> r.answers + 1, closed |-> r.closed]
  <2>4. /\ r \in [pc : {"idle", "media", "lstat", "wait", "done"}, key : Keys \cup {0},
                 answer : {"none", "path", "error", "canceled"}, answers : Nat, closed : BOOLEAN]
    BY <2>2 DEF ClientOK
  <2> HIDE DEF r
  <2>5. /\ s.pc = "done" /\ s.answer = what /\ s.answers = r.answers + 1 /\ s.key = r.key /\ s.closed = r.closed
        /\ s \in [pc : {"idle", "media", "lstat", "wait", "done"}, key : Keys \cup {0},
                 answer : {"none", "path", "error", "canceled"}, answers : Nat, closed : BOOLEAN]
    BY <2>4
  <2>6. r.answers = 0 /\ r.key \in Keys
    BY <2>3 DEF r
  <2> HIDE DEF s
  <2>7. ClientOK(s)
    BY <2>5, <2>6 DEF ClientOK
  <2>8. N[c] = s
    BY <2>1, <2>4 DEF r, s
  <2> QED BY <2>5, <2>7, <2>8 DEF r
<1>2. \A c \in Clients \ cl : N[c] = client[c]
  BY DEF Thumbs!Answer
<1>3. DOMAIN N = Clients
  BY DEF Thumbs!Answer
<1> QED BY <1>1, <1>2, <1>3

LEMMA QuietWaits ==
  ASSUME NEW J \in SUBSET Jobs, NEW C, NEW D, ClientsWait(J, C),
         \A c \in Clients : D[c] = C[c] \/ (C[c].pc # "wait" /\ D[c].pc # "wait")
  PROVE  ClientsWait(J, D)
<1>1. \A x \in J : x.cbs \subseteq Clients
  BY DEF Jobs
<1>2. ASSUME NEW x \in J, NEW c \in x.cbs PROVE D[c].pc = "wait" /\ D[c].key = x.key
  <2>1. c \in Clients /\ C[c].pc = "wait" /\ C[c].key = x.key
    BY <1>1, <1>2 DEF ClientsWait
  <2> QED BY <2>1
<1>3. ASSUME NEW c \in Clients, D[c].pc = "wait" PROVE \E x \in J : c \in x.cbs
  <2>1. C[c].pc = "wait"
    BY <1>3
  <2> QED BY <2>1 DEF ClientsWait
<1> QED BY <1>2, <1>3 DEF ClientsWait

LEMMA TypedOf ==
  ASSUME ThumbsInv
  PROVE  /\ client = [c \in Clients |-> client[c]]
         /\ \A c \in Clients : ClientOK(client[c]) /\ client[c].pc \in {"idle", "media", "lstat", "wait", "done"}
         /\ JobsOf(pending, converting) \subseteq Jobs /\ converting \subseteq Jobs
<1>1. \A c \in Clients : ClientOK(client[c])
  BY DEF ThumbsInv
<1>2. \A c \in Clients : client[c].pc \in {"idle", "media", "lstat", "wait", "done"}
  BY <1>1 DEF ClientOK
<1>3. JobsOf(pending, converting) \subseteq Jobs
  BY QueueTyped DEF ThumbsInv
<1> QED BY <1>1, <1>2, <1>3 DEF ThumbsInv, JobsOf

LEMMA ThumbsInitial == ASSUME Thumbs!Inputs, Thumbs!Init PROVE ThumbsInv
<1>1. ClientOK(Thumbs!NoClient)
  BY DEF ClientOK, Thumbs!NoClient
<1>2. client = [c \in Clients |-> client[c]] /\ \A c \in Clients : client[c] = Thumbs!NoClient
  BY DEF Thumbs!Init
<1>3. IsFiniteSet({}) /\ Cardinality({}) = 0 /\ Limit \in Nat \ {0}
  BY FS_EmptySet DEF Thumbs!Inputs
<1>4. Queue(<<>>, {}) /\ Full(<<>>, {})
  <2>1. 0 <= Limit
    BY <1>3
  <2>2. <<>> \in Seq(Jobs) /\ DOMAIN <<>> = {}
    OBVIOUS
  <2> QED BY <1>3, <2>1, <2>2 DEF Queue, Full
<1>5. JobsOf(<<>>, {}) = {}
  BY DEF JobsOf
<1>6. ClientsWait({}, client) /\ Running({}, {}) /\ Served(client, {})
  BY <1>2 DEF ClientsWait, Running, Served, Thumbs!NoClient
<1> QED BY <1>1, <1>2, <1>4, <1>5, <1>6 DEF ThumbsInv, Thumbs!Init

\* A step of one request, or of none that waits, with the jobs left as they are.
LEMMA AloneKeeps ==
  ASSUME ThumbsInv, UNCHANGED <<pending, converting, cache>>, client' = [c \in Clients |-> client'[c]],
         \A c \in Clients : \/ client'[c] = client[c]
                            \/ /\ client[c].pc # "wait" /\ client'[c].pc # "wait" /\ ClientOK(client'[c])
                               /\ client'[c].answer = "path" => <<client'[c].key, "">> \in cache
  PROVE  ThumbsInv'
<1>1. \A c \in Clients : ClientOK(client'[c])
  BY DEF ThumbsInv
<1>2. JobsOf(pending, converting) \in SUBSET Jobs
  BY TypedOf
<1>3. ClientsWait(JobsOf(pending, converting), client')
  BY <1>2, QuietWaits DEF ThumbsInv
<1>4. Served(client', cache)
  BY DEF ThumbsInv, Served
<1> QED BY <1>1, <1>3, <1>4 DEF ThumbsInv

LEMMA GetKeeps == ASSUME ThumbsInv, NEW c \in Clients, NEW k \in Keys, Thumbs!Get(c, k) PROVE ThumbsInv'
<1> DEFINE r == [Thumbs!NoClient EXCEPT !.pc = "media", !.key = k]
<1>1. client = [x \in Clients |-> client[x]]
  BY DEF ThumbsInv
<1>2. client' = [client EXCEPT ![c] = r] /\ client[c].pc = "idle"
  BY DEF Thumbs!Get
<1>3. /\ r.pc = "media" /\ r.key = k /\ r.answer = "none" /\ r.answers = 0 /\ r.closed = FALSE
      /\ r \in [pc : {"idle", "media", "lstat", "wait", "done"}, key : Keys \cup {0},
               answer : {"none", "path", "error", "canceled"}, answers : Nat, closed : BOOLEAN]
  <2> DEFINE n == Thumbs!NoClient
  <2>1. /\ n.pc = "idle" /\ n.answer = "none" /\ n.answers = 0 /\ n.closed = FALSE
        /\ n \in [pc : {"idle", "media", "lstat", "wait", "done"}, key : Keys \cup {0},
                 answer : {"none", "path", "error", "canceled"}, answers : Nat, closed : BOOLEAN]
    BY DEF Thumbs!NoClient
  <2> HIDE DEF n
  <2>2. r = [n EXCEPT !.pc = "media", !.key = k]
    BY DEF n
  <2> HIDE DEF r
  <2> QED BY <2>1, <2>2
<1> HIDE DEF r
<1>4. ClientOK(r) /\ r.pc = "media" /\ r.answer = "none"
  BY <1>3 DEF ClientOK
<1>5. \A x \in Clients : client'[x] = IF x = c THEN r ELSE client[x]
  BY <1>1, <1>2
<1>6. client' = [x \in Clients |-> client'[x]]
  BY <1>1, <1>2
<1> QED BY <1>2, <1>4, <1>5, <1>6, AloneKeeps DEF Thumbs!Get

\* A request of which the place or whether it is closed changes, before it waits.
LEMMA MoveOK ==
  ASSUME NEW r, ClientOK(r), r.pc \in {"media", "lstat"}, NEW s,
         s = [r EXCEPT !.pc = "lstat"] \/ s = [r EXCEPT !.closed = TRUE] \/ (s = [r EXCEPT !.pc = "wait"] /\ ~r.closed)
  PROVE  /\ ClientOK(s) /\ s.answer = "none" /\ s.key = r.key /\ s.key \in Keys
         /\ s.pc = (IF s = [r EXCEPT !.pc = "lstat"] THEN "lstat" ELSE IF s = [r EXCEPT !.closed = TRUE] THEN r.pc ELSE "wait")
<1>1. r \in [pc : {"idle", "media", "lstat", "wait", "done"}, key : Keys \cup {0},
            answer : {"none", "path", "error", "canceled"}, answers : Nat, closed : BOOLEAN]
  BY DEF ClientOK
<1>2. r.answer = "none" /\ r.answers = 0 /\ r.key \in Keys
  BY DEF ClientOK
<1> QED BY <1>1, <1>2 DEF ClientOK

\* One request is answered that does not wait.
LEMMA OneAnswered ==
  ASSUME ThumbsInv, NEW c \in Clients, client[c].pc \in {"media", "lstat"}, NEW what \in {"path", "error", "canceled"},
         what = "path" => <<client[c].key, "">> \in cache,
         client' = Thumbs!Answer({c}, what), UNCHANGED <<pending, converting, cache>>
  PROVE  ThumbsInv'
<1>1. /\ DOMAIN client' = Clients /\ \A x \in Clients : ClientOK(client'[x])
      /\ \A x \in Clients \ {c} : client'[x] = client[x]
      /\ client'[c].pc = "done" /\ client'[c].answer = what /\ client'[c].key = client[c].key
  <2>1. {c} \in SUBSET Clients /\ (\A x \in {c} : client[x].pc \in {"media", "lstat", "wait"}) /\ c \in {c}
    OBVIOUS
  <2>2. \A x \in Clients : ClientOK(client[x])
    BY TypedOf
  <2> QED BY <2>1, <2>2, AnswerOf
<1>2. client' = [x \in Clients |-> client'[x]]
  BY DEF Thumbs!Answer
<1> QED BY <1>1, <1>2, AloneKeeps

LEMMA MediaKeeps == ASSUME ThumbsInv, NEW c \in Clients, Thumbs!Media(c) PROVE ThumbsInv'
<1>0. client[c].pc = "media" /\ UNCHANGED <<pending, converting, cache>>
  BY DEF Thumbs!Media
<1>1. CASE client[c].closed
  BY <1>0, <1>1, OneAnswered DEF Thumbs!Media
<1>2. CASE ~client[c].closed
  <2>1. client = [x \in Clients |-> client[x]] /\ ClientOK(client[c])
    BY DEF ThumbsInv
  <2>2. client' = [client EXCEPT ![c].pc = "lstat"]
    BY <1>2 DEF Thumbs!Media
  <2> DEFINE s == [client[c] EXCEPT !.pc = "lstat"]
  <2>3. ClientOK(s) /\ s.answer = "none"
    BY <1>0, <2>1, MoveOK
  <2>4. s.pc = "lstat"
    BY <2>1 DEF ClientOK
  <2>5. client'[c] = s /\ (\A x \in Clients \ {c} : client'[x] = client[x]) /\ client' = [x \in Clients |-> client'[x]]
    BY <2>1, <2>2
  <2> HIDE DEF s
  <2>6. \A x \in Clients : client'[x] = client[x] \/ x = c
    BY <2>5
  <2> QED BY <1>0, <2>3, <2>4, <2>5, <2>6, AloneKeeps
<1> QED BY <1>1, <1>2

LEMMA MediaFailsKeeps == ASSUME ThumbsInv, NEW c \in Clients, Thumbs!MediaFails(c) PROVE ThumbsInv'
<1>1. client[c].pc \in {"media", "lstat"} /\ UNCHANGED <<pending, converting, cache>>
  BY DEF Thumbs!MediaFails
<1>2. client' = Thumbs!Answer({c}, "error") \/ client' = Thumbs!Answer({c}, "canceled")
  BY DEF Thumbs!MediaFails
<1> QED BY <1>1, <1>2, OneAnswered

\* What starts of a video starts with ffmpeg.
LEMMA RunningOn ==
  ASSUME Thumbs!Inputs, NEW R, NEW F, NEW S \in SUBSET Jobs, Running(R, F),
         \A x \in S : x \in R \/ x.step = Thumbs!FirstStep(x.key)
  PROVE  Running(S, F)
<1>1. ASSUME NEW x \in S, Kinds[x.key] = "video", x \notin R PROVE x.step = "ffmpeg"
  <2>1. x.key \in Keys
    BY DEF Jobs
  <2> QED BY <1>1, <2>1, FirstStepIs
<1> QED BY <1>1 DEF Running

LEMMA LstatKeeps == ASSUME Thumbs!Inputs, ThumbsInv, NEW c \in Clients, Thumbs!Lstat(c) PROVE ThumbsInv'
<1> DEFINE k == client[c].key
           new == [key |-> k, cbs |-> {c}, step |-> "none"]
<1>1. client[c].pc = "lstat" /\ cache' = cache /\ ClientOK(client[c]) /\ client = [x \in Clients |-> client[x]]
  BY DEF Thumbs!Lstat, ThumbsInv
<1>5. PICK J : J = JobsOf(pending, converting)
  OBVIOUS
<1>0. /\ Queue(pending, converting) /\ Full(pending, converting) /\ J = JobsOf(pending, converting)
      /\ ClientsWait(J, client) /\ Running(converting, cache) /\ cache \subseteq Keys \X {"", "-v"}
  BY <1>5 DEF ThumbsInv
<1>2. CASE client[c].closed
  BY <1>1, <1>2, OneAnswered DEF Thumbs!Lstat
<1>3. CASE ~client[c].closed /\ <<k, "">> \in cache
  BY <1>1, <1>3, OneAnswered DEF Thumbs!Lstat
<1>4. CASE ~client[c].closed /\ <<k, "">> \notin cache
  <2>1. /\ client' = [client EXCEPT ![c].pc = "wait"]
        /\ IF Thumbs!Find(k) THEN Thumbs!Join(k, c) ELSE Thumbs!Schedule(Append(pending, new), converting)
    BY <1>1, <1>4 DEF Thumbs!Lstat
  <2> DEFINE s == [client[c] EXCEPT !.pc = "wait"]
  <2>2. ClientOK(s) /\ s.answer = "none" /\ s.key = k /\ k \in Keys
    BY <1>1, <1>4, MoveOK
  <2>3. s.pc = "wait"
    BY <1>1 DEF ClientOK
  <2>4. client'[c] = s /\ (\A x \in Clients \ {c} : client'[x] = client[x]) /\ client' = [x \in Clients |-> client'[x]]
    BY <1>1, <2>1
  <2>12. \A x \in Clients : x # c => client'[x] = client[x]
    BY <2>4
  <2>5. J \subseteq Jobs /\ (\A x \in Clients : ClientOK(client[x])) /\ \A x \in J : x.cbs \subseteq Clients
    BY <1>5, TypedOf DEF Jobs
  <2> HIDE DEF s
  <2>6. \A x \in Clients : ClientOK(client'[x])
    BY <2>2, <2>4, <2>5
  <2>7. Served(client', cache)
    BY <2>2, <2>4 DEF ThumbsInv, Served
  <2>8. \A x \in J : c \notin x.cbs
    BY <1>1, <1>0 DEF ClientsWait
  \* Who waited is as before, and c waits with a job on its key.
  <2>9. ASSUME NEW K \in SUBSET Jobs, \A x \in K : \E y \in J : x.key = y.key /\ (x.cbs = y.cbs \/ (x.key = k /\ x.cbs = y.cbs \cup {c})),
               \A y \in J : \E x \in K : y.cbs \subseteq x.cbs, \E x \in K : x.key = k /\ c \in x.cbs
        PROVE  ClientsWait(K, client')
    <3>1. ASSUME NEW x \in K, NEW d \in x.cbs PROVE client'[d].pc = "wait" /\ client'[d].key = x.key
      <4>1. PICK y \in J : x.key = y.key /\ (x.cbs = y.cbs \/ (x.key = k /\ x.cbs = y.cbs \cup {c}))
        BY <2>9
      <4>2. CASE d \in y.cbs
        <5>1. d # c /\ d \in Clients
          BY <2>5, <2>8, <4>2
        <5>2. client[d].pc = "wait" /\ client[d].key = y.key
          BY <1>0, <4>2 DEF ClientsWait
        <5>3. client'[d] = client[d]
          BY <2>12, <5>1
        <5> QED BY <4>1, <5>2, <5>3
      <4>3. CASE d \notin y.cbs
        BY <2>2, <2>3, <2>4, <3>1, <4>1, <4>3
      <4> QED BY <4>2, <4>3
    <3>2. ASSUME NEW d \in Clients, client'[d].pc = "wait" PROVE \E x \in K : d \in x.cbs
      <4>1. CASE d = c
        BY <2>9, <4>1
      <4>2. CASE d # c
        <5>1. PICK y \in J : d \in y.cbs
          BY <2>4, <3>2, <4>2, <1>0 DEF ClientsWait
        <5> QED BY <2>9, <5>1
      <4> QED BY <4>1, <4>2
    <3> QED BY <3>1, <3>2 DEF ClientsWait
  <2>10. CASE Thumbs!Find(k)
    <3>1. PICK F \in [Jobs -> Jobs] :
            \A x \in Jobs : /\ F[x] = IF x.key = k THEN [x EXCEPT !.cbs = @ \cup {c}] ELSE x
                            /\ F[x].key = x.key /\ F[x].step = x.step
                            /\ F[x].cbs = IF x.key = k THEN x.cbs \cup {c} ELSE x.cbs
      <4> DEFINE f == [x \in Jobs |-> IF x.key = k THEN [x EXCEPT !.cbs = @ \cup {c}] ELSE x]
      <4>1. ASSUME NEW x \in Jobs
            PROVE  /\ f[x] \in Jobs /\ f[x].key = x.key /\ f[x].step = x.step
                   /\ f[x].cbs = IF x.key = k THEN x.cbs \cup {c} ELSE x.cbs
        <5>1. CASE x.key = k
          <6>1. f[x] = [x EXCEPT !.cbs = @ \cup {c}]
            BY <5>1
          <6> QED BY <5>1, <6>1 DEF Jobs
        <5>2. CASE x.key # k
          BY <5>2
        <5> QED BY <5>1, <5>2
      <4>2. f = [x \in Jobs |-> f[x]] /\ \A x \in Jobs : f[x] = IF x.key = k THEN [x EXCEPT !.cbs = @ \cup {c}] ELSE x
        OBVIOUS
      <4> HIDE DEF f
      <4>3. f \in [Jobs -> Jobs]
        BY <4>1, <4>2
      <4> QED BY <4>1, <4>2, <4>3
    <3>3. /\ \A i \in DOMAIN pending : pending[i] \in Jobs
          /\ \A x \in converting : x \in Jobs
      BY QueueTyped DEF ThumbsInv, Queue
    <3>4. /\ DOMAIN pending' = DOMAIN pending /\ \A i \in DOMAIN pending : pending'[i] = F[pending[i]]
          /\ pending' = [i \in DOMAIN pending |-> pending'[i]]
          /\ converting' = {F[x] : x \in converting}
      <4>1. /\ pending' = [i \in DOMAIN pending |-> IF pending[i].key = k THEN [pending[i] EXCEPT !.cbs = @ \cup {c}] ELSE pending[i]]
            /\ converting' = {IF x.key = k THEN [x EXCEPT !.cbs = @ \cup {c}] ELSE x : x \in converting}
        BY <2>1, <2>10 DEF Thumbs!Join
      <4>2. \A i \in DOMAIN pending :
              F[pending[i]] = IF pending[i].key = k THEN [pending[i] EXCEPT !.cbs = @ \cup {c}] ELSE pending[i]
        BY <3>1, <3>3
      <4>3. \A x \in converting : F[x] = IF x.key = k THEN [x EXCEPT !.cbs = @ \cup {c}] ELSE x
        BY <3>1, <3>3
      <4>4. DOMAIN pending' = DOMAIN pending /\ \A i \in DOMAIN pending : pending'[i] = F[pending[i]]
        BY <4>1, <4>2
      <4>5. pending' = [i \in DOMAIN pending |-> pending'[i]]
        BY <4>1
      <4>6. converting' = {F[x] : x \in converting}
        <5>1. \A y : y \in converting' <=> \E x \in converting : y = IF x.key = k THEN [x EXCEPT !.cbs = @ \cup {c}] ELSE x
          BY <4>1
        <5>2. \A y : y \in converting' <=> \E x \in converting : y = F[x]
          BY <4>3, <5>1
        <5> HIDE DEF k, new
        <5> QED BY <5>2
      <4> QED BY <4>4, <4>5, <4>6
    <3>5. \E y \in J : y.key = k
      BY <1>0, <2>10 DEF Thumbs!Find, Thumbs!Range, JobsOf
    <3>6. /\ Queue(pending', converting') /\ Full(pending', converting')
          /\ JobsOf(pending', converting') = {F[x] : x \in J}
      <4>1. \A x \in Jobs : F[x].key = x.key /\ (F[x].step = "none" <=> x.step = "none")
        BY <3>1
      <4>2. pending' \in Seq(Jobs) /\ DOMAIN pending' = DOMAIN pending /\ \A i \in DOMAIN pending : pending'[i] = F[pending[i]]
        <5>1. Len(pending) \in Nat /\ DOMAIN pending = 1 .. Len(pending)
          BY <1>0, QueueTyped
        <5>2. \A i \in DOMAIN pending : F[pending[i]] \in Jobs
          BY <3>1, <3>3
        <5> QED BY <3>4, <5>1, <5>2
      <4>3. Queue(pending, converting) /\ Full(pending, converting)
        BY <1>0
      <4>4. /\ Queue(pending', converting') /\ Full(pending', converting')
            /\ JobsOf(pending', converting') = {F[x] : x \in JobsOf(pending, converting)}
        <5>1. F \in [Jobs -> Jobs]
          BY <3>1
        <5>2. converting' = {F[x] : x \in converting}
          BY <3>4
        <5> HIDE DEF new, k
        <5> QED BY <4>1, <4>2, <4>3, <5>1, <5>2, MappedOf
      <4> QED BY <1>5, <4>4
    <3> DEFINE K == {F[x] : x \in J}
    <3>7. K \in SUBSET Jobs
      BY <2>5, <3>1
    <3> HIDE DEF new
    <3>8. \A x \in K : \E y \in J : x.key = y.key /\ (x.cbs = y.cbs \/ (x.key = k /\ x.cbs = y.cbs \cup {c}))
      <4>1. ASSUME NEW x \in K PROVE \E y \in J : x.key = y.key /\ (x.cbs = y.cbs \/ (x.key = k /\ x.cbs = y.cbs \cup {c}))
        <5>1. PICK y \in J : x = F[y]
          BY <4>1
        <5>2. y \in Jobs
          BY <2>5
        <5>3. x.key = y.key /\ x.cbs = IF y.key = k THEN y.cbs \cup {c} ELSE y.cbs
          BY <3>1, <5>1, <5>2
        <5> QED BY <5>3
      <4> QED BY <4>1
    <3>9. \A y \in J : \E x \in K : y.cbs \subseteq x.cbs
      <4>1. \A y \in J : F[y] \in K /\ y.cbs \subseteq F[y].cbs
        BY <2>5, <3>1
      <4> QED BY <4>1
    <3>10. \E x \in K : x.key = k /\ c \in x.cbs
      <4>1. PICK y \in J : y.key = k
        BY <3>5
      <4>2. F[y] \in K /\ F[y].key = k /\ c \in F[y].cbs
        BY <2>5, <3>1, <4>1
      <4> QED BY <4>2
    <3>11. ClientsWait(K, client')
      BY <2>9, <3>7, <3>8, <3>9, <3>10
    <3>12. Running(converting', cache)
      <4>1. ASSUME NEW x \in converting' PROVE \E y \in converting : x.key = y.key /\ x.step = y.step
        <5>1. PICK y \in converting : x = F[y]
          BY <3>4
        <5>2. y \in Jobs
          BY <3>3
        <5> QED BY <3>1, <5>1, <5>2
      <4> QED BY <1>0, <4>1 DEF Running
    <3> QED BY <1>0, <1>1, <2>4, <2>6, <2>7, <3>6, <3>11, <3>12 DEF ThumbsInv
  <2>11. CASE ~Thumbs!Find(k)
    <3> DEFINE p == Append(pending, new)
               K == JobsOf(pending', converting')
    <3>1. new \in Jobs /\ new.key = k /\ new.cbs = {c} /\ new.step = "none"
      BY <2>2 DEF Jobs
    <3>2. \A y \in J : y.key # k
      BY <1>0, <2>11 DEF Thumbs!Find, Thumbs!Range, JobsOf
    <3> HIDE DEF new
    <3>3. Queue(p, converting) /\ JobsOf(p, converting) = J \cup {new}
      <4>1. \A y \in JobsOf(pending, converting) : y.key # new.key
        BY <1>5, <3>1, <3>2
      <4>2. Queue(Append(pending, new), converting)
            /\ JobsOf(Append(pending, new), converting) = JobsOf(pending, converting) \cup {new}
        <5>1. PICK x : x = new
          OBVIOUS
        <5>2. x \in Jobs /\ x.step = "none" /\ \A y \in JobsOf(pending, converting) : y.key # x.key
          BY <3>1, <4>1, <5>1
        <5>3. Queue(Append(pending, x), converting)
              /\ JobsOf(Append(pending, x), converting) = JobsOf(pending, converting) \cup {x}
          <6>1. Queue(pending, converting)
            BY <1>0
          <6> HIDE DEF p, K, new
          <6> QED BY <5>2, <6>1, AddedOf
        <5> QED BY <5>1, <5>3
      <4> QED BY <1>5, <4>2
    <3> HIDE DEF p
    <3>4. /\ Queue(pending', converting') /\ Full(pending', converting') /\ Same(p, converting, pending', converting')
          /\ \A x \in converting' : x \in converting \/ x.step = Thumbs!FirstStep(x.key)
      BY <2>1, <2>11, <3>3, ScheduleOf DEF p
    <3>5. K \in SUBSET Jobs /\ converting' \in SUBSET Jobs
      BY <3>4, QueueTyped DEF Queue
    <3>6. ClientsWait(J \cup {new}, client')
      <4>1. \A x \in J : \A d \in x.cbs : client'[d] = client[d]
        BY <2>4, <2>5, <2>8
      <4>2. \A x \in J : \A d \in x.cbs : client'[d].pc = "wait" /\ client'[d].key = x.key
        BY <4>1, <1>0 DEF ClientsWait
      <4>3. \A d \in new.cbs : client'[d].pc = "wait" /\ client'[d].key = new.key
        BY <2>2, <2>3, <2>4, <3>1
      <4>4. \A d \in Clients : client'[d].pc = "wait" => \E x \in J \cup {new} : d \in x.cbs
        BY <2>4, <3>1, <1>0 DEF ClientsWait
      <4> QED BY <4>2, <4>3, <4>4 DEF ClientsWait
    <3>7. ClientsWait(K, client')
      BY <3>3, <3>4, <3>6, SameWaits
    <3>8. Running(converting', cache)
      BY <1>0, <3>4, <3>5, RunningOn
    <3> QED BY <1>0, <1>1, <2>4, <2>6, <2>7, <3>4, <3>7, <3>8 DEF ThumbsInv
  <2> QED BY <2>10, <2>11
<1> QED BY <1>2, <1>3, <1>4

LEMMA CloseKeeps == ASSUME Thumbs!Inputs, ThumbsInv, NEW c \in Clients, Thumbs!Close(c) PROVE ThumbsInv'
<1>1. /\ client[c].pc \in {"media", "lstat", "wait"} /\ ~client[c].closed /\ cache' = cache
      /\ ClientOK(client[c]) /\ client = [x \in Clients |-> client[x]]
  BY DEF Thumbs!Close, ThumbsInv
<1>2. CASE client[c].pc # "wait"
  <2>1. client' = [client EXCEPT ![c].closed = TRUE] /\ UNCHANGED <<pending, converting, cache>>
    BY <1>1, <1>2 DEF Thumbs!Close
  <2> DEFINE s == [client[c] EXCEPT !.closed = TRUE]
  <2>2. ClientOK(s) /\ s.answer = "none"
    BY <1>1, <1>2, MoveOK
  <2>3. s.pc # "wait"
    BY <1>1, <1>2 DEF ClientOK
  <2>4. client'[c] = s /\ (\A x \in Clients : x # c => client'[x] = client[x]) /\ client' = [x \in Clients |-> client'[x]]
    BY <1>1, <2>1
  <2> HIDE DEF s
  <2>5. \A x \in Clients : client'[x] = client[x] \/ x = c
    BY <2>4
  <2> QED BY <1>2, <2>1, <2>2, <2>3, <2>4, <2>5, AloneKeeps
<1>3. CASE client[c].pc = "wait"
  <2> DEFINE N == Thumbs!Answer({c}, "canceled")
  <2>1. client' = [N EXCEPT ![c].closed = TRUE] /\ Thumbs!CloseLeaves(c)
    BY <1>3 DEF Thumbs!Close
  <2>2. /\ DOMAIN N = Clients /\ (\A x \in Clients : ClientOK(N[x])) /\ (\A x \in Clients : x # c => N[x] = client[x])
        /\ N[c].pc = "done" /\ N[c].answer = "canceled" /\ N = [x \in Clients |-> N[x]]
    <3>1. {c} \in SUBSET Clients /\ (\A x \in {c} : client[x].pc \in {"media", "lstat", "wait"}) /\ c \in {c}
      BY <1>3
    <3>2. \A x \in Clients : ClientOK(client[x])
      BY TypedOf
    <3>3. N = [x \in Clients |-> N[x]]
      BY DEF Thumbs!Answer
    <3> HIDE DEF N
    <3> QED BY <3>1, <3>2, <3>3, AnswerOf DEF N
  <2> HIDE DEF N
  <2> DEFINE s == [N[c] EXCEPT !.closed = TRUE]
  <2>3. ClientOK(s) /\ s.answer = "canceled" /\ s.pc = "done"
    BY <2>2 DEF ClientOK
  <2>4. client'[c] = s /\ (\A x \in Clients : x # c => client'[x] = N[x]) /\ client' = [x \in Clients |-> client'[x]]
    BY <2>1, <2>2
  <2> HIDE DEF s
  <2>5. (\A x \in Clients : x # c => client'[x] = client[x]) /\ \A x \in Clients : ClientOK(client'[x])
    BY <2>2, <2>3, <2>4
  <2>6. client'[c].pc = "done" /\ client'[c].answer = "canceled"
    BY <2>3, <2>4
  <2>7. Served(client', cache)
    BY <2>5, <2>6 DEF ThumbsInv, Served
  <2>8. PICK F \in [Jobs -> Jobs] :
          \A x \in Jobs : /\ F[x] = [x EXCEPT !.cbs = @ \ {c}]
                          /\ F[x].key = x.key /\ F[x].step = x.step /\ F[x].cbs = x.cbs \ {c}
    <3> DEFINE f == [x \in Jobs |-> [x EXCEPT !.cbs = @ \ {c}]]
    <3>1. ASSUME NEW x \in Jobs
          PROVE  f[x] \in Jobs /\ f[x].key = x.key /\ f[x].step = x.step /\ f[x].cbs = x.cbs \ {c}
      BY DEF Jobs
    <3>2. f = [x \in Jobs |-> f[x]] /\ \A x \in Jobs : f[x] = [x EXCEPT !.cbs = @ \ {c}]
      OBVIOUS
    <3> HIDE DEF f
    <3>3. f \in [Jobs -> Jobs]
      BY <3>1, <3>2
    <3> QED BY <3>1, <3>2, <3>3
  <2>9. PICK J : J = JobsOf(pending, converting)
    OBVIOUS
  <2>10. /\ Queue(pending, converting) /\ Full(pending, converting) /\ ClientsWait(J, client)
         /\ Running(converting, cache) /\ cache \subseteq Keys \X {"", "-v"}
    BY <2>9 DEF ThumbsInv
  <2>11. /\ \A i \in DOMAIN pending : pending[i] \in Jobs
         /\ \A x \in converting : x \in Jobs
         /\ \A x \in J : x \in Jobs /\ x.cbs \subseteq Clients
         /\ Len(pending) \in Nat /\ DOMAIN pending = 1 .. Len(pending)
    BY <2>9, QueueTyped DEF ThumbsInv, Queue, Jobs
  <2>12. /\ pending' = [i \in DOMAIN pending |-> [pending[i] EXCEPT !.cbs = @ \ {c}]]
         /\ converting' = {[x EXCEPT !.cbs = @ \ {c}] : x \in converting}
    BY <2>1 DEF Thumbs!CloseLeaves
  <2>13. DOMAIN pending' = DOMAIN pending /\ \A i \in DOMAIN pending : pending'[i] = F[pending[i]]
    BY <2>8, <2>11, <2>12
  <2>14. pending' \in Seq(Jobs)
    <3>1. pending' = [i \in DOMAIN pending |-> pending'[i]]
      BY <2>12
    <3>2. \A i \in DOMAIN pending : F[pending[i]] \in Jobs
      BY <2>8, <2>11
    <3> QED BY <2>11, <2>13, <3>1, <3>2
  <2>15. converting' = {F[x] : x \in converting}
    <3>1. \A y : y \in converting' <=> \E x \in converting : y = [x EXCEPT !.cbs = @ \ {c}]
      BY <2>12
    <3>2. \A x \in converting : F[x] = [x EXCEPT !.cbs = @ \ {c}]
      BY <2>8, <2>11
    <3>3. \A y : (\E x \in converting : y = [x EXCEPT !.cbs = @ \ {c}]) <=> \E x \in converting : y = F[x]
      BY <3>2
    <3> QED BY <3>1, <3>3
  <2>16. /\ Queue(pending', converting') /\ Full(pending', converting')
         /\ JobsOf(pending', converting') = {F[x] : x \in JobsOf(pending, converting)}
    <3>1. Queue(pending, converting) /\ Full(pending, converting)
      BY <2>10
    <3>2. F \in [Jobs -> Jobs] /\ \A x \in Jobs : F[x].key = x.key /\ (F[x].step = "none" <=> x.step = "none")
      BY <2>8
    <3> QED BY <2>13, <2>14, <2>15, <3>1, <3>2, MappedOf
  <2> DEFINE K == {F[x] : x \in J}
  <2>17. ClientsWait(K, client')
    <3>1. ASSUME NEW x \in K, NEW d \in x.cbs PROVE client'[d].pc = "wait" /\ client'[d].key = x.key
      <4>1. PICK y \in J : x = F[y]
        BY <3>1
      <4>2. y \in Jobs /\ x.key = y.key /\ x.cbs = y.cbs \ {c} /\ y.cbs \subseteq Clients
        BY <2>8, <2>11, <4>1
      <4>3. d \in y.cbs /\ d # c /\ d \in Clients
        BY <3>1, <4>2
      <4>4. client[d].pc = "wait" /\ client[d].key = y.key
        BY <2>10, <4>3 DEF ClientsWait
      <4> QED BY <2>5, <4>2, <4>3, <4>4
    <3>2. ASSUME NEW d \in Clients, client'[d].pc = "wait" PROVE \E x \in K : d \in x.cbs
      <4>1. d # c
        BY <2>6, <3>2
      <4>2. PICK y \in J : d \in y.cbs
        BY <2>5, <2>10, <3>2, <4>1 DEF ClientsWait
      <4>3. F[y] \in K /\ d \in F[y].cbs
        BY <2>8, <2>11, <4>1, <4>2
      <4> QED BY <4>3
    <3> QED BY <3>1, <3>2 DEF ClientsWait
  <2>18. Running(converting', cache)
    <3>1. ASSUME NEW x \in converting' PROVE \E y \in converting : x.key = y.key /\ x.step = y.step
      <4>1. PICK y \in converting : x = F[y]
        BY <2>15
      <4> QED BY <2>8, <2>11, <4>1
    <3> QED BY <2>10, <3>1 DEF Running
  <2> QED BY <1>1, <2>4, <2>5, <2>7, <2>9, <2>10, <2>16, <2>17, <2>18 DEF ThumbsInv
<1> QED BY <1>2, <1>3

LEMMA EndAnswers ==
  ASSUME ThumbsInv, NEW j \in converting, NEW what, what \in {"path", "error"}, Thumbs!End(j, what)
  PROVE  /\ DOMAIN client' = Clients /\ (\A x \in Clients : ClientOK(client'[x]))
         /\ (\A x \in Clients \ j.cbs : client'[x] = client[x]) /\ client' = [x \in Clients |-> client'[x]]
         /\ \A x \in j.cbs : client'[x].pc = "done" /\ client'[x].answer = what /\ client'[x].key = client[x].key
<1> DEFINE N == Thumbs!Answer(j.cbs, what)
<1>1. j.cbs \in SUBSET Clients
  BY TypedOf DEF Jobs
<1>2. \A x \in j.cbs : client[x].pc \in {"media", "lstat", "wait"}
  BY DEF ThumbsInv, JobsOf, ClientsWait
<1>3. \A x \in Clients : ClientOK(client[x])
  BY TypedOf
<1>4. client' = N /\ N = [x \in Clients |-> N[x]]
  BY DEF Thumbs!Answer, Thumbs!End
<1>5. what \in {"path", "error", "canceled"}
  OBVIOUS
<1>6. /\ DOMAIN N = Clients /\ (\A x \in Clients : ClientOK(N[x])) /\ (\A x \in Clients \ j.cbs : N[x] = client[x])
      /\ \A x \in j.cbs : N[x].pc = "done" /\ N[x].answer = what /\ N[x].key = client[x].key
  BY <1>1, <1>2, <1>3, <1>5, AnswerOf
<1> HIDE DEF N
<1> QED BY <1>4, <1>6

\* A job ends, others start: its clients are answered with what is in the cache by then.
LEMMA EndKeeps ==
  ASSUME Thumbs!Inputs, ThumbsInv, NEW j \in converting, NEW what \in {"path", "error"}, Thumbs!End(j, what),
         cache \subseteq cache', cache' \subseteq Keys \X {"", "-v"},
         what = "path" => <<j.key, "">> \in cache',
         \A k \in Keys : <<k, "">> \in cache' /\ Kinds[k] = "video" => <<k, "-v">> \in cache'
  PROVE  ThumbsInv'
<1> DEFINE R == converting \ {j}
<1>1. PICK J : J = JobsOf(pending, converting)
  OBVIOUS
<1>2. /\ Queue(pending, converting) /\ Full(pending, converting) /\ ClientsWait(J, client)
      /\ Running(converting, cache) /\ Served(client, cache)
  BY <1>1 DEF ThumbsInv
<1>3. /\ J \subseteq Jobs /\ j \in J /\ converting \subseteq Jobs /\ (\A x \in J : x.cbs \subseteq Clients)
      /\ \A x, y \in J : x.key = y.key => x = y
  <2>1. J \subseteq Jobs /\ \A x, y \in J : x.key = y.key => x = y
    BY <1>1, <1>2, QueueTyped
  <2>2. j \in J /\ converting \subseteq J
    BY <1>1 DEF JobsOf
  <2> QED BY <2>1, <2>2 DEF Jobs
<1>4. Thumbs!Schedule(pending, R)
  BY DEF Thumbs!End
<1>5. /\ DOMAIN client' = Clients /\ (\A x \in Clients : ClientOK(client'[x]))
      /\ (\A x \in Clients \ j.cbs : client'[x] = client[x]) /\ client' = [x \in Clients |-> client'[x]]
      /\ \A x \in j.cbs : client'[x].pc = "done" /\ client'[x].answer = what /\ client'[x].key = client[x].key
  BY EndAnswers
<1>6. /\ Queue(pending, R) /\ J = JobsOf(pending, R) \cup {j}
      /\ \A y \in JobsOf(pending, R) : y.key # j.key
  <2>1. Queue(pending, converting)
    BY <1>2
  <2>2. /\ Queue(pending, converting \ {j}) /\ JobsOf(pending, converting) = JobsOf(pending, converting \ {j}) \cup {j}
        /\ \A y \in JobsOf(pending, converting \ {j}) : y.key # j.key
    BY <2>1, TakenOf
  <2> QED BY <1>1, <2>2
<1> HIDE DEF R
<1>7. /\ Queue(pending', converting') /\ Full(pending', converting') /\ Same(pending, R, pending', converting')
      /\ \A x \in converting' : x \in R \/ x.step = Thumbs!FirstStep(x.key)
  BY <1>4, <1>6, ScheduleOf
<1>8. ClientsWait(JobsOf(pending, R), client')
  <2>1. ASSUME NEW x \in JobsOf(pending, R), NEW d \in x.cbs PROVE client'[d].pc = "wait" /\ client'[d].key = x.key
    <3>1. x \in J /\ d \in Clients /\ x.key # j.key
      BY <1>3, <1>6
    <3>2. client[d].pc = "wait" /\ client[d].key = x.key
      BY <1>2, <3>1 DEF ClientsWait
    <3>3. d \notin j.cbs
      BY <1>2, <1>3, <3>1, <3>2 DEF ClientsWait
    <3> QED BY <1>5, <3>1, <3>2, <3>3
  <2>2. ASSUME NEW d \in Clients, client'[d].pc = "wait" PROVE \E x \in JobsOf(pending, R) : d \in x.cbs
    <3>1. d \notin j.cbs
      BY <1>5, <2>2
    <3>2. PICK x \in J : d \in x.cbs
      BY <1>2, <1>5, <2>2, <3>1 DEF ClientsWait
    <3> QED BY <1>6, <3>1, <3>2
  <2> QED BY <2>1, <2>2 DEF ClientsWait
<1>9. ClientsWait(JobsOf(pending', converting'), client')
  BY <1>7, <1>8, SameWaits
<1>10. Running(converting', cache')
  <2>1. Running(R, cache')
    BY <1>2 DEF Running, R
  <2>2. converting' \in SUBSET Jobs
    BY <1>7 DEF Queue
  <2> QED BY <1>7, <2>1, <2>2, RunningOn
<1>11. Served(client', cache')
  <2>1. ASSUME NEW d \in Clients, client'[d].answer = "path" PROVE <<client'[d].key, "">> \in cache'
    <3>1. CASE d \in j.cbs
      <4>1. client[d].key = j.key
        BY <1>2, <1>3, <3>1 DEF ClientsWait
      <4>2. what = "path" /\ client'[d].key = j.key
        BY <1>5, <2>1, <3>1, <4>1
      <4> QED BY <4>2
    <3>2. CASE d \notin j.cbs
      BY <1>2, <1>5, <2>1, <3>2 DEF Served
    <3> QED BY <3>1, <3>2
  <2> QED BY <2>1 DEF Served
<1> QED BY <1>5, <1>7, <1>9, <1>10, <1>11 DEF ThumbsInv

LEMMA StepFailsKeeps == ASSUME Thumbs!Inputs, ThumbsInv, NEW j \in converting, Thumbs!StepFails(j) PROVE ThumbsInv'
<1>1. Thumbs!End(j, "error") /\ cache' = cache
  BY DEF Thumbs!StepFails
<1>2. cache' \subseteq Keys \X {"", "-v"} /\ \A k \in Keys : <<k, "">> \in cache' /\ Kinds[k] = "video" => <<k, "-v">> \in cache'
  BY <1>1 DEF ThumbsInv, Served
<1> QED BY <1>1, <1>2, EndKeeps

LEMMA StepKeeps == ASSUME Thumbs!Inputs, ThumbsInv, NEW j \in converting, Thumbs!Step(j) PROVE ThumbsInv'
<1>1. PICK J : J = JobsOf(pending, converting)
  OBVIOUS
<1>2. /\ Queue(pending, converting) /\ Full(pending, converting) /\ ClientsWait(J, client)
      /\ Running(converting, cache) /\ Served(client, cache) /\ cache \subseteq Keys \X {"", "-v"}
      /\ client = [x \in Clients |-> client[x]] /\ \A x \in Clients : ClientOK(client[x])
  BY <1>1 DEF ThumbsInv
<1>3. /\ \A i \in DOMAIN pending : pending[i] \in Jobs /\ pending[i].step = "none"
      /\ converting \subseteq Jobs /\ j.step \in Thumbs!Steps /\ j.key \in Keys /\ \A x \in J : x \in Jobs
  BY <1>1, <1>2, QueueTyped DEF Queue, Jobs
<1>4. CASE j.step = "rename"
  <2>1. Thumbs!End(j, "path") /\ cache' = cache \cup {<<j.key, "">>}
    BY <1>4 DEF Thumbs!Step
  <2>2. Kinds[j.key] = "video" => <<j.key, "-v">> \in cache
    BY <1>2, <1>4 DEF Running
  <2>3. cache \subseteq cache' /\ cache' \subseteq Keys \X {"", "-v"} /\ <<j.key, "">> \in cache'
    <3>1. <<j.key, "">> \in Keys \X {"", "-v"}
      BY <1>3
    <3> QED BY <1>2, <2>1, <3>1
  <2>4. \A k \in Keys : <<k, "">> \in cache' /\ Kinds[k] = "video" => <<k, "-v">> \in cache'
    BY <1>2, <2>1, <2>2 DEF Served
  <2> QED BY <2>1, <2>3, <2>4, EndKeeps
<1>5. CASE j.step # "rename"
  <2>1. PICK st \in Thumbs!Steps :
          /\ Thumbs!Goes(j, st) /\ st # "tifig"
          /\ st \in {"convert", "rename"} => j.step \in {"renamev", "tifig", "convert"}
    BY <1>3, <1>5 DEF Thumbs!Step, Thumbs!Next1, Thumbs!Steps
  <2>2. cache' = IF j.step = "renamev" THEN cache \cup {<<j.key, "-v">>} ELSE cache
    BY <1>5 DEF Thumbs!Step
  <2>3. /\ converting' = (converting \ {j}) \cup {[j EXCEPT !.step = st]} /\ UNCHANGED <<client, pending>>
    BY <2>1 DEF Thumbs!Goes
  <2>4. st # "none" /\ j.step # "none"
    BY <1>3, <2>1 DEF Thumbs!Steps
  <2>5. PICK n \in Jobs : n = [j EXCEPT !.step = st] /\ n.key = j.key /\ n.cbs = j.cbs /\ n.step = st
    <3>1. j \in Jobs /\ st \in Thumbs!Steps \cup {"none"}
      BY <1>3, <2>1
    <3> DEFINE m == [j EXCEPT !.step = st]
    <3>2. m \in Jobs /\ m.key = j.key /\ m.cbs = j.cbs /\ m.step = st
      BY <3>1 DEF Jobs
    <3> QED BY <3>2
  <2>6. PICK F \in [Jobs -> Jobs] : \A x \in Jobs : F[x] = IF x = j THEN n ELSE x
    <3> DEFINE f == [x \in Jobs |-> IF x = j THEN n ELSE x]
    <3>1. f \in [Jobs -> Jobs] /\ \A x \in Jobs : f[x] = IF x = j THEN n ELSE x
      BY <2>5
    <3> QED BY <3>1
  <2>7. \A x \in Jobs : F[x].key = x.key /\ F[x].cbs = x.cbs /\ (F[x].step = "none" <=> x.step = "none")
    BY <2>4, <2>5, <2>6
  <2>8. converting' = {F[x] : x \in converting}
    <3>1. \A x \in converting : F[x] = IF x = j THEN n ELSE x
      BY <1>3, <2>6
    <3>2. converting' = (converting \ {j}) \cup {n}
      BY <2>3, <2>5
    <3> QED BY <3>1, <3>2
  <2>9. \A i \in DOMAIN pending : pending[i] = F[pending[i]]
    BY <1>3, <2>4, <2>6
  <2>10. /\ Queue(pending, converting') /\ Full(pending, converting')
         /\ JobsOf(pending, converting') = {F[x] : x \in JobsOf(pending, converting)}
    <3>1. Queue(pending, converting) /\ Full(pending, converting)
      BY <1>2
    <3>2. pending \in Seq(Jobs)
      BY <1>2 DEF Queue
    <3>3. \A x \in Jobs : F[x].key = x.key /\ (F[x].step = "none" <=> x.step = "none")
      BY <2>7
    <3> QED BY <2>6, <2>8, <2>9, <3>1, <3>2, <3>3, MappedOf
  <2>11. Same(pending, converting, pending, converting')
    <3>1. \A x \in J : SameJob(F[x], x) /\ SameJob(x, F[x])
      BY <1>3, <2>7 DEF SameJob
    <3> QED BY <1>1, <2>10, <3>1 DEF Same, SameJob
  <2>12. ClientsWait(JobsOf(pending, converting'), client)
    BY <1>1, <1>2, <2>11, SameWaits
  <2>13. Running(converting', cache')
    <3>1. Running(converting \ {j}, cache')
      BY <1>2, <2>2 DEF Running
    <3>2. Running({n}, cache')
      <4>1. ASSUME Kinds[n.key] = "video", n.step \in {"convert", "rename"} PROVE <<n.key, "-v">> \in cache'
        <5>1. j.step # "tifig" /\ (j.step = "convert" => <<j.key, "-v">> \in cache)
          BY <1>2, <2>5, <4>1 DEF Running
        <5> QED BY <2>1, <2>2, <2>5, <4>1, <5>1
      <4> QED BY <2>1, <2>5, <4>1 DEF Running
    <3>3. converting' = (converting \ {j}) \cup {n}
      BY <2>3, <2>5
    <3> QED BY <3>1, <3>2, <3>3 DEF Running
  <2>14. Served(client, cache') /\ cache' \subseteq Keys \X {"", "-v"}
    <3>1. \A k \in Keys : <<k, "">> # <<j.key, "-v">>
      OBVIOUS
    <3>2. <<j.key, "-v">> \in Keys \X {"", "-v"}
      BY <1>3
    <3>3. cache \subseteq cache' /\ (\A k \in Keys : <<k, "">> \in cache' => <<k, "">> \in cache)
      BY <2>2, <3>1
    <3>4. cache' \subseteq Keys \X {"", "-v"}
      BY <1>2, <2>2, <3>2
    <3> QED BY <1>2, <3>3, <3>4 DEF Served
  <2> QED BY <1>2, <2>3, <2>10, <2>12, <2>13, <2>14 DEF ThumbsInv
<1> QED BY <1>4, <1>5

LEMMA ThumbsStep == ASSUME Thumbs!Inputs PROVE ThumbsInv /\ [Thumbs!Next]_(Thumbs!vars) => ThumbsInv'
<1> SUFFICES ASSUME ThumbsInv, [Thumbs!Next]_(Thumbs!vars) PROVE ThumbsInv'
  OBVIOUS
<1>1. ASSUME UNCHANGED Thumbs!vars PROVE ThumbsInv'
  BY <1>1 DEF Thumbs!vars, ThumbsInv
<1>2. ASSUME NEW c \in Clients, Thumbs!Media(c) \/ Thumbs!Lstat(c) \/ Thumbs!Close(c) \/ Thumbs!MediaFails(c) PROVE ThumbsInv'
  BY <1>2, MediaKeeps, LstatKeeps, CloseKeeps, MediaFailsKeeps
<1>3. ASSUME NEW c \in Clients, NEW k \in Keys, Thumbs!Get(c, k) PROVE ThumbsInv'
  BY <1>3, GetKeeps
<1>4. ASSUME NEW j \in converting, Thumbs!Step(j) \/ Thumbs!StepFails(j) PROVE ThumbsInv'
  BY <1>4, StepKeeps, StepFailsKeeps
<1> QED BY <1>1, <1>2, <1>3, <1>4 DEF Thumbs!Next, Thumbs!Proceed

LEMMA ThumbsImplies == ASSUME Thumbs!Inputs, ThumbsInv PROVE Thumbs!WaitsOnce /\ Thumbs!PathIsThere
<1>1. PICK J : J = JobsOf(pending, converting)
  OBVIOUS
<1>2. /\ Queue(pending, converting) /\ Full(pending, converting) /\ ClientsWait(J, client) /\ Served(client, cache)
      /\ \A c \in Clients : ClientOK(client[c])
  BY <1>1 DEF ThumbsInv
<1>3. Thumbs!AllJobs = J /\ (\A x, y \in J : x.key = y.key => x = y)
  BY <1>1, <1>2, QueueTyped DEF Thumbs!AllJobs, Thumbs!Range, JobsOf
<1>4. ASSUME NEW c \in Clients PROVE Cardinality({x \in J : c \in x.cbs}) = IF client[c].pc = "wait" THEN 1 ELSE 0
  <2>1. CASE client[c].pc = "wait"
    <3>1. PICK x \in J : c \in x.cbs
      BY <1>2, <2>1 DEF ClientsWait
    <3>2. \A y \in J : c \in y.cbs => y = x
      BY <1>2, <1>3, <3>1 DEF ClientsWait
    <3>3. {y \in J : c \in y.cbs} = {x}
      BY <3>1, <3>2
    <3> QED BY <2>1, <3>3, FS_Singleton
  <2>2. CASE client[c].pc # "wait"
    <3>1. {x \in J : c \in x.cbs} = {}
      BY <1>2, <2>2 DEF ClientsWait
    <3> QED BY <2>2, <3>1, FS_EmptySet
  <2> QED BY <2>1, <2>2
<1>5. \A c \in Clients : client[c].answers <= 1
  BY <1>2 DEF ClientOK
<1>6. pending # <<>> => Cardinality(converting) = Limit
  BY <1>2 DEF Full
<1> QED BY <1>2, <1>3, <1>4, <1>5, <1>6, CardinalityOf DEF Thumbs!WaitsOnce, Thumbs!PathIsThere, Served

\* Thumbnail!WaitsOnce and PathIsThere: a client that waits is in one job, a job waits only for a
\* place, and who was told of a picture finds it, with its video.
THEOREM ThumbsAreThere == Thumbs!Inputs => (Thumbs!Spec => [](Thumbs!WaitsOnce /\ Thumbs!PathIsThere))
<1> SUFFICES ASSUME Thumbs!Inputs PROVE Thumbs!Spec => [](Thumbs!WaitsOnce /\ Thumbs!PathIsThere)
  OBVIOUS
<1>1. Thumbs!Init => ThumbsInv
  BY ThumbsInitial
<1>2. ThumbsInv /\ [Thumbs!Next]_(Thumbs!vars) => ThumbsInv'
  BY ThumbsStep
<1>3. ThumbsInv => Thumbs!WaitsOnce /\ Thumbs!PathIsThere
  BY ThumbsImplies
<1> QED BY <1>1, <1>2, <1>3, PTL DEF Thumbs!Spec

=============================================================================
