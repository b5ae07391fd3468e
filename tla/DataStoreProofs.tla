-------------------------- MODULE DataStoreProofs --------------------------
(* Safety of DataStore, for any requests, kinds, files and bound.          *)
EXTENDS DataStore, SequenceTheorems, TLAPS

USE KindAssumption, DestroyersAssumption, InitialFilesAssumption, MaxCrashesAssumption

\* The records the code hands to process.nextTick are ticks.
LEMMA TickTypes ==
  /\ \A v \in Values : [kind |-> "update", value |-> v] \in Ticks
  /\ \A r \in Requests : [kind |-> "refuse", request |-> r] \in Ticks
  /\ \A D \in SUBSET Destroyers : /\ [kind |-> "destroyed", callers |-> D] \in Ticks
                                  /\ [kind |-> "throw", callers |-> D] \in Ticks
                                  /\ [kind |-> "nocallback", callers |-> D] \in Ticks
  /\ \A t \in Ticks : t.kind = "refuse" => t.request \in Requests
  BY DEF Ticks

\* What any file parses to is a value.
LEMMA FileTypes == \A f \in Files : f.value \in Values
  BY DEF Files, Values, NoFile, Corrupt

\* The initial state of the store satisfies the invariant.
LEMMA InitInv == Init => Inv
  BY DEF Init, Inv, TypeOK, Phases, OneAtATime, UnderWay, OnePlace, Drained,
         Coherent, States, Files, Values, Ticks, Writing, destroying, NoFile, Corrupt

\* save() keeps the invariant, whichever state it is called in.
LEMMA SaveInv == ASSUME NEW r \in Requests, Inv, Save(r) PROVE Inv'
<1> USE DEF Inv, Phases, Save, Push
<1>1. TypeOK'
  BY DEF TypeOK, ToNext, States, Ticks
<1>2. OneAtATime'
  BY DEF TypeOK, OneAtATime, ToNext, States, Writing, destroying
<1>3. UnderWay'
  BY DEF TypeOK, UnderWay, ToNext, Writing, destroying, Effect
<1>4. OnePlace'
  <2>1. CASE UNCHANGED queue
    <3>1. \A q \in Requests : q # r => answer'[q] = answer[q]
      BY DEF TypeOK
    <3>2. /\ \A i \in 1 .. Len(queue) : queue[i] \in Requests /\ queue[i] # r
          /\ \A q \in job : q \in Requests /\ q # r
      BY DEF TypeOK, OnePlace
    <3>3. \A t \in ticks' : t.kind = "refuse" => answer'[t.request] = "refused"
      <4>1. \A t \in ticks : t.kind = "refuse" => t.request \in Requests /\ t.request # r
        BY TickTypes DEF TypeOK, OnePlace
      <4>2. \A t \in ticks : t.kind = "refuse" => answer'[t.request] = "refused"
        BY <3>1, <4>1 DEF OnePlace
      <4>3. \A t \in ticks' \ ticks : t.request = r /\ answer'[r] = "refused"
        BY DEF TypeOK
      <4> QED BY <4>2, <4>3
    <3> QED BY <2>1, <3>1, <3>2, <3>3 DEF OnePlace
  <2>2. CASE queue' = Append(queue, r) /\ UNCHANGED ticks /\ answer' = [answer EXCEPT ![r] = "open"]
    <3>1. /\ queue \in Seq(Requests) /\ Len(queue') = Len(queue) + 1
          /\ \A i \in 1 .. Len(queue') : queue'[i] = IF i <= Len(queue) THEN queue[i] ELSE r
          /\ \A i \in 1 .. Len(queue') : i <= Len(queue) => i \in 1 .. Len(queue)
      BY <2>2 DEF TypeOK
    <3>2. \A i \in 1 .. Len(queue) : queue[i] # r
      BY DEF OnePlace
    <3>3. \A i, j \in 1 .. Len(queue') : queue'[i] = queue'[j] => i = j
      BY <3>1, <3>2 DEF OnePlace
    <3>4. \A i \in 1 .. Len(queue') : answer'[queue'[i]] = "open" /\ queue'[i] \notin job
      BY <2>2, <3>1, <3>2 DEF OnePlace, TypeOK
    <3>5. \A q \in job : answer'[q] \in {"open", "ok", "err"}
      BY <2>2 DEF OnePlace, TypeOK
    <3>6. \A t \in ticks : t.kind = "refuse" => answer'[t.request] = "refused"
      BY <2>2 DEF OnePlace, TypeOK
    <3> QED BY <2>2, <3>3, <3>4, <3>5, <3>6 DEF OnePlace
  <2> QED BY <2>1, <2>2
<1>5. Drained'
  BY DEF Drained
<1>6. Coherent'
  BY DEF Coherent, ToNext, OneAtATime, Writing
<1> QED BY <1>1, <1>2, <1>3, <1>4, <1>5, <1>6

\* destroy() keeps the invariant.
LEMMA DestroyInv == ASSUME NEW d \in Destroyers, Inv, Destroy(d) PROVE Inv'
<1> USE DEF Inv, Phases, Destroy, DestroyLater, DestroyNow, DestroyAgain
<1>1. TypeOK'
  <2>1. ticks \subseteq Ticks /\ {d} \in SUBSET Destroyers
    BY DEF TypeOK
  <2>2. ticks' \subseteq Ticks
    <3>1. CASE UNCHANGED ticks
      BY <2>1, <3>1
    <3>2. CASE ticks' = ticks \cup {[kind |-> "destroyed", callers |-> {d}]}
      BY <2>1, <3>2, TickTypes
    <3>3. CASE ticks' = ticks \cup {[kind |-> "nocallback", callers |-> {d}]}
      BY <2>1, <3>3, TickTypes
    <3> QED BY <3>1, <3>2, <3>3
  <2>3. /\ answer' \in [Requests -> {"none", "open", "ok", "refused", "err", "gone"}]
        /\ queue' \in Seq(Requests)
    <3>1. CASE UNCHANGED <<answer, queue>>
      BY <3>1 DEF TypeOK
    <3>2. CASE state = "Saving" /\ ~destroying
      BY <3>2 DEF TypeOK
    <3> QED BY <3>1, <3>2
  <2> QED BY <2>1, <2>2, <2>3 DEF TypeOK, States
<1>2. OneAtATime'
  BY DEF TypeOK, OneAtATime, States, Writing, destroying
<1>3. UnderWay'
  <2> SUFFICES ASSUME Writing'
               PROVE  \E r \in Requests :
                        /\ job' = {r}
                        /\ Kind[r] \in {"put", "add"}
                        /\ staged' = Effect(r, data')
                        /\ answer'[r] = IF destroying' THEN "err" ELSE "open"
    BY DEF UnderWay, Effect, Writing, destroying
  <2>1. Writing /\ state = "Saving"
    BY DEF Writing, OneAtATime
  <2>2. DestroyLater(d) /\ waiters' = waiters \cup {d}
    BY <2>1
  <2>3. destroying'
    BY <2>2 DEF destroying
  <2>4. PICK r \in Requests : /\ job = {r}
                              /\ Kind[r] \in {"put", "add"}
                              /\ staged = Effect(r, data)
                              /\ answer[r] = IF destroying THEN "err" ELSE "open"
    BY <2>1 DEF UnderWay
  <2>5. answer'[r] = "err"
    BY <2>1, <2>2, <2>4 DEF TypeOK, destroying
  <2> QED BY <2>3, <2>4, <2>5 DEF Effect
<1>4. OnePlace'
  <2>1. CASE UNCHANGED <<queue, answer>>
    BY <2>1 DEF OnePlace, OneAtATime
  <2>2. CASE state = "Saving" /\ ~destroying
    <3>1. queue' = <<>> /\ UNCHANGED <<job, ticks>>
      BY <2>2
    <3>2. \A q \in job : answer'[q] \in {"open", "ok", "err"}
      BY <2>2 DEF TypeOK, OnePlace
    <3>3. \A t \in ticks : t.kind = "refuse" => answer'[t.request] = "refused"
      BY <2>2, TickTypes DEF TypeOK, OnePlace
    <3> QED BY <3>1, <3>2, <3>3 DEF OnePlace
  <2> QED BY <2>1, <2>2
<1>5. Drained'
  BY DEF Drained, OneAtATime, Writing
<1>6. Coherent'
  BY DEF Coherent, OneAtATime, Writing
<1> QED BY <1>1, <1>2, <1>3, <1>4, <1>5, <1>6

\* What Lost leaves behind is a fresh, empty process.
LEMMA LostInv ==
  ASSUME Inv, Lost, crashes' \in 0 .. MaxCrashes,
         destroyed' \in [Destroyers -> {"none", "open", "done", "threw", "gone"}]
  PROVE  Inv'
<1>1. TypeOK'
  BY DEF Inv, Lost, Open, TypeOK, States, Values, Ticks
<1>2. Phases' /\ Coherent'
  BY DEF Inv, Lost, Phases, OneAtATime, UnderWay, OnePlace, Drained, Coherent,
         Writing, destroying
<1> QED BY <1>1, <1>2 DEF Inv

\* Loading's callbacks keep the invariant.
LEMMA LoadInv == ASSUME Inv, Prepared \/ ReadDone PROVE Inv'
<1> USE DEF Inv, Phases, Prepared, ReadDone, LoadingDestroyed, LoadFails, ToNext, callers,
            Quiet, destroying
<1>1. TypeOK'
  <2>1. data' \in Values
    BY FileTypes DEF TypeOK
  <2>2. ticks' \subseteq Ticks
    BY <2>1, TickTypes DEF TypeOK
  <2> QED BY <2>1, <2>2 DEF TypeOK, States
<1>2. OneAtATime'
  <2>1. CASE Prepared
    BY <2>1 DEF OneAtATime, Writing
  <2>2. CASE ReadDone
    BY <2>2 DEF OneAtATime, Writing
  <2> QED BY <2>1, <2>2
<1>3. UnderWay' /\ OnePlace' /\ Drained'
  BY DEF UnderWay, OnePlace, Drained, Writing
<1>4. Coherent'
  BY DEF Coherent, OneAtATime, Writing
<1> QED BY <1>1, <1>2, <1>3, <1>4

\* Taking a job from the queue keeps the invariant.
LEMMA StartInv == ASSUME Inv, StartJob PROVE Inv'
<1> DEFINE r == Head(queue)
<1>0. /\ queue # <<>> /\ queue \in Seq(Requests) /\ r \in Requests
      /\ answer[r] = "open" /\ r = queue[1]
      /\ state = "Saving" /\ ~destroying /\ job = {} /\ io \in {"none"}
  BY DEF Inv, Phases, StartJob, OneAtATime, OnePlace, TypeOK, destroying, Writing
<1>1. TypeOK'
  BY <1>0 DEF Inv, StartJob, TypeOK, Values, Effect
<1>2. OneAtATime'
  BY <1>0 DEF Inv, Phases, StartJob, OneAtATime, Writing, destroying, TypeOK
<1>3. UnderWay'
  BY <1>0 DEF StartJob, UnderWay, Writing, destroying, Effect, Inv, Phases, OneAtATime
<1>4. OnePlace'
  <2>1. /\ queue' \in Seq(Requests) /\ Len(queue') = Len(queue) - 1
        /\ \A i \in 1 .. Len(queue') : queue'[i] = queue[i + 1]
    BY <1>0 DEF StartJob
  <2>2. \A i \in 1 .. Len(queue') : i + 1 \in 1 .. Len(queue) /\ 1 \in 1 .. Len(queue)
    BY <1>0, <2>1
  <2>3. \A i \in 1 .. Len(queue') : queue'[i] # r
    BY <1>0, <2>1, <2>2 DEF Inv, Phases, OnePlace
  <2>4. \A i \in 1 .. Len(queue') : answer'[queue'[i]] = "open"
    BY <1>0, <2>1, <2>2, <2>3 DEF Inv, Phases, OnePlace, StartJob, TypeOK
  <2>5. \A i, j \in 1 .. Len(queue') : queue'[i] = queue'[j] => i = j
    <3> SUFFICES ASSUME NEW i \in 1 .. Len(queue'), NEW j \in 1 .. Len(queue'),
                        queue'[i] = queue'[j]
                 PROVE  i = j
      OBVIOUS
    <3>1. queue[i + 1] = queue[j + 1] /\ i + 1 \in 1 .. Len(queue) /\ j + 1 \in 1 .. Len(queue)
      BY <2>1, <2>2
    <3>2. i + 1 = j + 1
      BY <3>1 DEF Inv, Phases, OnePlace
    <3> QED BY <3>2
  <2>6. \A q \in job' : answer'[q] \in {"open", "ok", "err"}
    BY <1>0 DEF StartJob, Inv, TypeOK
  <2>7. \A t \in ticks' : t.kind = "refuse" => answer'[t.request] = "refused"
    BY <1>0, TickTypes DEF StartJob, Inv, TypeOK, Phases, OnePlace
  <2> QED BY <2>3, <2>4, <2>5, <2>6, <2>7 DEF StartJob, OnePlace
<1>5. Drained' /\ Coherent'
  BY <1>0 DEF StartJob, Drained, Coherent, Inv
<1> QED BY <1>1, <1>2, <1>3, <1>4, <1>5 DEF Inv, Phases

\* The write's and the rename's completions keep the invariant.
LEMMA WriteInv ==
  ASSUME Inv, Written \/ Renamed \/ SaveFailed \/ SaveDone
  PROVE  Inv'
<1> USE DEF Inv, Phases, Written, Renamed, SaveFailed, SaveDone, SavingDestroyed, Serve,
            callers, memory, Quiet, destroying
<1>0. PICK r \in Requests : /\ job = {r}
                            /\ Kind[r] \in {"put", "add"}
                            /\ staged = Effect(r, data)
                            /\ answer[r] = IF destroying THEN "err" ELSE "open"
  BY DEF UnderWay, Writing
<1>1. TypeOK'
  BY DEF TypeOK, States, Ticks, Files
<1>2. OneAtATime'
  BY DEF TypeOK, OneAtATime, Writing
<1>3. UnderWay'
  BY <1>0 DEF UnderWay, Writing, Effect
<1>7. Drained'
  BY DEF Drained
<1>4. OnePlace'
  BY DEF OnePlace, TypeOK
<1>5. Coherent'
  BY DEF Coherent, OneAtATime, Writing
<1> QED BY <1>1, <1>2, <1>3, <1>4, <1>5, <1>7

\* Going on to the next request keeps the invariant.
LEMMA ReturnInv == ASSUME Inv, Return PROVE Inv'
  BY DEF Inv, Return, TypeOK, Phases, OneAtATime, UnderWay, OnePlace, Drained,
         Coherent, Writing, ToNext, callers, States, destroying

\* Every step of the store keeps the invariant.
LEMMA NextInv == Inv /\ [Next]_vars => Inv'
<1> SUFFICES ASSUME Inv, [Next]_vars PROVE Inv'
  OBVIOUS
<1>1. ASSUME NEW t \in ticks, Tick(t) PROVE Inv'
  <2>1. CASE t.kind \in {"throw", "nocallback"}
    BY <1>1, <2>1, LostInv DEF Tick, Inv, TypeOK
  <2>2. CASE t.kind \notin {"throw", "nocallback"}
    <3>1. TypeOK'
      BY <1>1, <2>2 DEF Inv, Tick, TypeOK, memory, Ticks, Values
    <3>2. OneAtATime' /\ Drained' /\ Coherent'
      BY <1>1, <2>2 DEF Inv, Tick, memory, Phases, OneAtATime, Drained, Coherent, Writing
    <3>3. \A q \in Requests : answer[q] # "refused" => answer'[q] = answer[q]
      BY <1>1, <2>2, TickTypes DEF Tick, Inv, TypeOK, Phases, OnePlace
    <3>4. UnderWay'
      BY <1>1, <2>2, <3>3 DEF Tick, memory, Inv, Phases, UnderWay, Writing, destroying, Effect
    <3>5. \A u \in ticks' : u.kind = "refuse" => answer'[u.request] = "refused"
      <4> SUFFICES ASSUME NEW u \in ticks', u.kind = "refuse"
                   PROVE  answer'[u.request] = "refused"
        OBVIOUS
      <4>1. u \in ticks /\ u # t
        BY <1>1, <2>2 DEF Tick
      <4>2. CASE t.kind # "refuse"
        BY <1>1, <2>2, <4>1, <4>2 DEF Tick, Inv, Phases, OnePlace
      <4>3. CASE t.kind = "refuse"
        <5>1. u.request # t.request
          BY <1>1, <4>1, <4>3 DEF Inv, TypeOK, Ticks
        <5> QED BY <1>1, <2>2, <4>1, <4>3, <5>1, TickTypes DEF Tick, Inv, TypeOK, Phases, OnePlace
      <4> QED BY <4>2, <4>3
    <3>6. OnePlace'
      BY <1>1, <2>2, <3>3, <3>5 DEF Tick, memory, Inv, TypeOK, Phases, OnePlace
    <3> QED BY <3>1, <3>2, <3>4, <3>6 DEF Inv, Phases
  <2> QED BY <2>1, <2>2
<1>2. CASE Crash
  BY <1>2, LostInv DEF Crash, Inv, TypeOK, Open
<1>3. CASE Restart
  BY <1>3 DEF Restart, Inv, TypeOK, Phases, OneAtATime, UnderWay, OnePlace, Drained,
              Coherent, Writing, memory, callers, States, destroying
<1>4. CASE UNCHANGED vars
  BY <1>4 DEF vars, Inv, TypeOK, Phases, OneAtATime, UnderWay, OnePlace, Drained,
              Coherent, Writing, States, destroying
<1> QED
  BY <1>1, <1>2, <1>3, <1>4, SaveInv, DestroyInv, LoadInv, StartInv, WriteInv, ReturnInv
  DEF Next

\* DataStore.js keeps its types, phases and coherence whatever its callers do.
THEOREM Safety == Spec => []Inv
  BY InitInv, NextInv, PTL DEF Spec

\* AddsSurvive is inductive beside Inv once it speaks of the value in the file.
LEMMA AddsStep == Inv /\ AddsSurvive /\ [Next]_vars => AddsSurvive'
<1> SUFFICES ASSUME Inv, AddsSurvive, [Next]_vars,
                    \A p \in Requests : Kind[p] = "put" => answer'[p] = "none",
                    NEW r \in Requests, Kind[r] = "add", answer'[r] = "ok"
             PROVE  r \in file'.value
  BY DEF AddsSurvive
<1>1. \A p \in Requests : Kind[p] = "put" => answer[p] = "none"
  BY DEF Next, vars, Save, Destroy, DestroyLater, DestroyNow, DestroyAgain, Prepared,
         ReadDone, StartJob, Written, Renamed, SaveFailed, SaveDone, SavingDestroyed, Serve,
         Return, Tick, Crash, Lost, Open, Restart, callers, Inv, TypeOK
<1>2. answer[r] = "ok" => r \in file.value
  BY <1>1 DEF AddsSurvive
<1>3. CASE Renamed
  <2>1. PICK q \in Requests : /\ job = {q}
                              /\ Kind[q] \in {"put", "add"}
                              /\ staged = Effect(q, data)
                              /\ answer[q] = IF destroying THEN "err" ELSE "open"
    BY <1>3 DEF Renamed, Inv, Phases, UnderWay, Writing
  <2>2. Kind[q] = "add" /\ staged = data \cup {q}
    BY <1>1, <2>1 DEF Effect
  <2>3. file.value = data
    BY <1>3 DEF Renamed, Inv, Phases, OneAtATime, Coherent, Writing
  <2> QED BY <1>2, <1>3, <2>2, <2>3 DEF Renamed, callers
<1>4. CASE SaveDone
  <2>1. PICK q \in Requests : /\ job = {q}
                              /\ Kind[q] \in {"put", "add"}
                              /\ staged = Effect(q, data)
    BY <1>4 DEF SaveDone, Inv, Phases, UnderWay, Writing
  <2>2. q \in staged /\ file.value = staged /\ file' = file
    BY <1>4, <2>1 DEF SaveDone, Inv, Phases, OneAtATime, Coherent, Writing, Effect
  <2>3. r = q \/ answer[r] = "ok"
    BY <1>4, <2>1 DEF SaveDone, SavingDestroyed, Serve
  <2> QED BY <1>2, <2>2, <2>3
<1>5. CASE ~Renamed /\ ~SaveDone
  <2>1. file' = file
    BY <1>5 DEF Next, vars, Save, Destroy, Prepared, ReadDone, StartJob, Written,
                SaveFailed, Return, Tick, Crash, Lost, Restart
  <2>2. answer[r] = "ok"
    BY <1>5 DEF Next, vars, Save, Destroy, DestroyLater, DestroyNow, DestroyAgain, Prepared,
                ReadDone, StartJob, Written, SaveFailed, SavingDestroyed, Serve,
                Return, Tick, Crash, Lost, Open, Restart, callers, Inv, TypeOK
  <2> QED BY <1>2, <2>1, <2>2
<1> QED BY <1>3, <1>4, <1>5

\* An acknowledged "add" stays in the file.
THEOREM AddsSurviveAlways == Spec => []AddsSurvive
<1>1. Init => AddsSurvive
  BY DEF Init, AddsSurvive
<1> QED BY <1>1, AddsStep, Safety, PTL DEF Spec

\* A caller is told ok only of what is on disk.
THEOREM Acknowledgement == Spec => AckedOnDisk
<1> DEFINE A == \A r \in Requests : answer[r] # "ok" /\ answer'[r] = "ok" =>
                  /\ file'.value = data'
                  /\ Kind[r] \in {"put", "add"} => r \in file'.value
<1>1. Inv /\ [Next]_vars => [A]_vars
  <2> SUFFICES ASSUME Inv, [Next]_vars, NEW r \in Requests,
                      answer[r] # "ok", answer'[r] = "ok"
               PROVE  /\ file'.value = data'
                      /\ Kind[r] \in {"put", "add"} => r \in file'.value
    BY DEF vars
  <2>1. StartJob \/ SaveDone
    BY DEF Next, vars, Save, Destroy, DestroyLater, DestroyNow, DestroyAgain, Prepared,
           ReadDone, Written, Renamed, SaveFailed, SavingDestroyed, Serve,
           Return, Tick, Crash, Lost, Open, Restart, callers, Inv, TypeOK
  <2>2. CASE StartJob
    <3>1. Kind[r] = "same" /\ UNCHANGED <<file, data>>
      BY <2>2 DEF StartJob, Inv, TypeOK
    <3>2. file.value = data
      BY <2>2 DEF StartJob, Inv, Phases, OneAtATime, Coherent, Writing
    <3> QED BY <3>1, <3>2
  <2>3. CASE SaveDone
    <3>1. PICK q \in Requests : job = {q} /\ staged = Effect(q, data)
      BY <2>3 DEF SaveDone, Inv, Phases, UnderWay, Writing
    <3>2. r = q /\ data' = staged /\ file' = file
      BY <2>3, <3>1 DEF SaveDone, SavingDestroyed, Serve
    <3>3. file.value = staged
      BY <2>3 DEF SaveDone, Inv, Phases, OneAtATime, Coherent, Writing
    <3> QED BY <3>1, <3>2, <3>3 DEF Effect
  <2> QED BY <2>1, <2>2, <2>3
<1> QED BY <1>1, Safety, PTL DEF Spec, AckedOnDisk

\* An update event is delivered with the value of that moment, in memory and on disk.
LEMMA ObserverStep == Inv /\ ObserverSeesCurrent /\ [Next]_vars => ObserverSeesCurrent'
<1> SUFFICES ASSUME Inv, ObserverSeesCurrent, [Next]_vars,
                    NEW t \in ticks', t.kind = "update", state' \in {"Idle", "Saving"}
             PROVE  t.value = data' /\ file'.value = data'
  BY DEF ObserverSeesCurrent
<1>1. CASE ReadDone
  BY <1>1 DEF ReadDone, LoadingDestroyed, LoadFails, Quiet, callers
<1>2. CASE SaveDone
  BY <1>2 DEF SaveDone, SavingDestroyed, Serve, Quiet, Inv, Coherent, Phases, OneAtATime, Writing
<1>3. CASE SaveFailed
  BY <1>3 DEF SaveFailed, SavingDestroyed, Serve, Quiet, Inv, Coherent, Phases, OneAtATime, Writing
<1>4. CASE Renamed
  BY <1>4 DEF Renamed, memory, callers, Inv, Phases, Drained
<1>5. CASE Crash \/ Restart \/ \E u \in ticks : Tick(u) /\ u.kind \in {"throw", "nocallback"}
  BY <1>5 DEF Crash, Restart, Tick, Lost, memory
<1>6. CASE /\ UNCHANGED <<data, file>> /\ t \in ticks /\ state \in {"Idle", "Saving"}
  BY <1>6 DEF ObserverSeesCurrent
<1>7. CASE \E r \in Requests : Save(r)
  BY <1>6, <1>7 DEF Save, Push, ToNext, Inv, Phases, OneAtATime
<1>8. CASE \E d \in Destroyers : Destroy(d)
  BY <1>6, <1>8 DEF Destroy, DestroyLater, DestroyNow, DestroyAgain
<1>9. CASE StartJob \/ Written \/ Return
  BY <1>6, <1>9 DEF StartJob, Written, Return, memory, ToNext, callers, Inv, Phases, OneAtATime, Writing
<1>10. CASE Prepared
  BY <1>6, <1>10 DEF Prepared, LoadingDestroyed, LoadFails, Quiet, Inv, Phases, OneAtATime, callers
<1>11. CASE \E u \in ticks : Tick(u) /\ u.kind \notin {"throw", "nocallback"}
  BY <1>6, <1>11 DEF Tick, memory
<1>12. CASE UNCHANGED vars
  BY <1>6, <1>12 DEF vars
<1> QED BY <1>1, <1>2, <1>3, <1>4, <1>5, <1>7, <1>8, <1>9, <1>10, <1>11, <1>12 DEF Next

THEOREM ObserverAlways == Spec => []ObserverSeesCurrent
<1>1. Init => ObserverSeesCurrent
  BY DEF Init, ObserverSeesCurrent
<1> QED BY <1>1, ObserverStep, Safety, PTL DEF Spec

-----------------------------------------------------------------------------
(* The store implements the atomic store.                                  *)

\* A request whose callback runs was answered.
Told == control = "callback" => \A r \in job : answer[r] # "open"

LEMMA ToldStep == Inv /\ Told /\ [Next]_vars => Told'
<1> SUFFICES ASSUME Inv, Told, [Next]_vars, control' = "callback", NEW r \in job'
             PROVE  answer'[r] # "open"
  BY DEF Told
<1>1. r \in Requests
  BY NextInv DEF Inv, TypeOK
<1>2. CASE StartJob
  BY <1>1, <1>2 DEF StartJob, Inv, TypeOK
<1>3. CASE SaveFailed \/ SaveDone
  BY <1>1, <1>3 DEF SaveFailed, SaveDone, SavingDestroyed, Serve, Quiet
<1>4. CASE control = "callback" /\ job' = job
  <2>1. answer[r] \in {"ok", "err"}
    BY <1>4 DEF Told, Inv, TypeOK, Phases, OnePlace
  <2>2. answer'[r] # "open"
    BY <1>1, <1>4, <2>1 DEF Next, vars, Save, Push, ToNext, Destroy, DestroyLater, DestroyNow, DestroyAgain, Prepared,
         ReadDone, StartJob, Written, Renamed, SaveFailed, SaveDone, SavingDestroyed, Serve,
         Return, Tick, Crash, Lost, Open, Restart, callers, memory, Quiet, Inv, TypeOK
  <2> QED BY <2>2
<1>5. CASE ~(StartJob \/ SaveFailed \/ SaveDone)
  <2>1. control = "callback" /\ job' = job
    BY <1>5 DEF Next, vars, Save, Push, ToNext, Destroy, DestroyLater, DestroyNow, DestroyAgain, Prepared,
         ReadDone, LoadingDestroyed, LoadFails, Written, Renamed, 
         Return, Tick, Crash, Lost, Restart, callers, memory, Quiet, Inv, TypeOK
  <2> QED BY <1>4, <2>1
<1> QED BY <1>2, <1>3, <1>5

\* The mapped state: the line, whether its head landed, the job a destroy interrupts, and
\* what callers heard.
Line == (IF Busy THEN <<CHOOSE r \in job : TRUE>> ELSE <<>>) \o queue
Landed == Busy /\ io = "renamed"
Late == IF destroying /\ state = "Saving" /\ io \in {"write", "rename"} THEN job ELSE {}
Heard == [r \in Requests |-> IF answer[r] = "refused" THEN "err" ELSE answer[r]]

AbstractStep == Abstract!AbsNext \/ UNCHANGED Abstract!aVars

\* A step that leaves what is mapped is a stutter.
LEMMA Stutters ==
  ASSUME UNCHANGED <<file, Line, Landed, Late, Heard>>
  PROVE  AbstractStep
  BY DEF AbstractStep, Abstract!aVars, Line, Landed, Late, Heard

\* The head of the line takes effect, is answered, or is refused without an effect.
LEMMA Commits ==
  ASSUME Line # <<>>, ~Landed, file'.value = Effect(Head(Line), file.value), Landed' = TRUE,
         UNCHANGED <<Line, Late, Heard>>
  PROVE  AbstractStep
<1>1. Abstract!Commit
  BY DEF Abstract!Commit, Line, Landed, Late, Heard
<1> QED BY <1>1 DEF AbstractStep, Abstract!AbsNext

LEMMA Acks ==
  ASSUME Line # <<>>, Landed \/ Kind[Head(Line)] = "same", Landed' = FALSE,
         Heard' = [Heard EXCEPT ![Head(Line)] = "ok"],
         Line' = Tail(Line), UNCHANGED <<file, Late>>
  PROVE  AbstractStep
<1>1. Abstract!Ack
  BY DEF Abstract!Ack, Line, Landed, Late, Heard
<1> QED BY <1>1 DEF AbstractStep, Abstract!AbsNext

LEMMA Fails ==
  ASSUME Line # <<>>, ~Landed, Landed' = Landed,
         Heard' = [Heard EXCEPT ![Head(Line)] = "err"],
         Line' = Tail(Line), UNCHANGED <<file, Late>>
  PROVE  AbstractStep
<1>1. Abstract!Fail
  BY DEF Abstract!Fail, Line, Landed, Late, Heard
<1> QED BY <1>1 DEF AbstractStep, Abstract!AbsNext

LEMMA SeqFacts ==
  ASSUME NEW q \in Seq(Requests), NEW r \in Requests
  PROVE  /\ <<>> \o q = q
         /\ <<r>> \o q # <<>> /\ Head(<<r>> \o q) = r /\ Tail(<<r>> \o q) = q
         /\ \A x \in Requests : Append(<<r>> \o q, x) = <<r>> \o Append(q, x)
         /\ q # <<>> => <<Head(q)>> \o Tail(q) = q
<1>1. <<>> \o q = q
  OBVIOUS
<1>2. <<r>> \o q # <<>>
  OBVIOUS
<1>3. Head(<<r>> \o q) = r /\ Tail(<<r>> \o q) = q
  OBVIOUS
<1>4. \A x \in Requests : Append(<<r>> \o q, x) = <<r>> \o Append(q, x)
  OBVIOUS
<1>5. q # <<>> => <<Head(q)>> \o Tail(q) = q
  OBVIOUS
<1> QED BY <1>1, <1>2, <1>3, <1>4, <1>5

\* What is mapped while a save is under way, and otherwise.
Mapped ==
  /\ Busy \in BOOLEAN /\ Landed \in BOOLEAN
  /\ Busy <=> Writing /\ ~destroying
  /\ ~Busy => Line = queue /\ ~Landed
  /\ Writing => \E r \in Requests :
       /\ job = {r} /\ Kind[r] \in {"put", "add"} /\ staged = Effect(r, data)
       /\ Busy => /\ answer[r] = "open" /\ Line = <<r>> \o queue
                  /\ Line # <<>> /\ Head(Line) = r /\ Tail(Line) = queue

LEMMA MappedNow == Inv /\ Told => Mapped
<1> SUFFICES ASSUME Inv, Told PROVE Mapped
  OBVIOUS
<1>0. queue \in Seq(Requests) /\ <<>> \o queue = queue
  BY SeqFacts DEF Inv, TypeOK
<1>5. Busy \in BOOLEAN /\ Landed \in BOOLEAN
  BY DEF Busy, Landed
<1>1. \A r : (CHOOSE x \in {r} : TRUE) = r
  OBVIOUS
<1>2. ~Busy => Line = queue /\ ~Landed
  BY <1>0 DEF Line, Landed
<1>3. CASE Writing
  <2>1. PICK r \in Requests : /\ job = {r} /\ Kind[r] \in {"put", "add"} /\ staged = Effect(r, data)
                              /\ answer[r] = IF destroying THEN "err" ELSE "open"
    BY <1>3 DEF Inv, Phases, UnderWay
  <2>2. Busy <=> ~destroying
    BY <1>1, <2>1 DEF Busy
  <2>3. Busy => Line = <<r>> \o queue
    BY <1>1, <2>1 DEF Line
  <2>4. <<r>> \o queue # <<>> /\ Head(<<r>> \o queue) = r /\ Tail(<<r>> \o queue) = queue
    BY <1>0, SeqFacts
  <2>5. /\ job = {r} /\ Kind[r] \in {"put", "add"} /\ staged = Effect(r, data)
        /\ Busy => /\ answer[r] = "open" /\ Line = <<r>> \o queue
                   /\ Line # <<>> /\ Head(Line) = r /\ Tail(Line) = queue
    BY <2>1, <2>2, <2>3, <2>4
  <2> QED BY <1>2, <1>3, <1>5, <2>2, <2>5 DEF Mapped
<1>4. CASE ~Writing
  <2>1. ASSUME job # {} PROVE answer[CHOOSE r \in job : TRUE] # "open"
    <3>1. control = "callback"
      BY <1>4, <2>1 DEF Inv, TypeOK, Phases, OneAtATime
    <3> QED BY <2>1, <3>1 DEF Told
  <2> QED BY <1>2, <1>4, <1>5, <2>1 DEF Mapped, Busy
<1> QED BY <1>3, <1>4

LEMMA MappedNext == Inv' /\ Told' => Mapped'
  BY MappedNow, PTL

\* A caller hears what the store answered, and of a refusal before the news comes.
LEMMA HeardIs ==
  ASSUME Inv
  PROVE  /\ \A r \in Requests : Heard[r] = IF answer[r] = "refused" THEN "err" ELSE answer[r]
         /\ \A r \in Requests : Heard[r] = "open" <=> answer[r] = "open"
         /\ \A r \in Requests : Heard[r] = "none" <=> answer[r] = "none"
         /\ DOMAIN Heard = Requests
  BY DEF Heard, Inv, TypeOK

\* save() accepts a request at the end of the line, or refuses it.
LEMMA SaveImplements ==
  ASSUME Inv, Mapped, Mapped', NEW r \in Requests, Save(r)
  PROVE  AbstractStep
<1>0. /\ answer[r] = "none" /\ answer \in [Requests -> {"none", "open", "ok", "refused", "err", "gone"}]
      /\ UNCHANGED <<job, io, waiters, file>> /\ queue \in Seq(Requests)
  BY DEF Save, Inv, TypeOK
<1>1. Busy' = Busy /\ Landed' = Landed
  BY <1>0 DEF Mapped, Writing, destroying, Landed
<1>2. CASE UNCHANGED <<queue, state>> /\ \E a \in {"err", "refused"} : answer' = [answer EXCEPT ![r] = a]
  <2>1. Line' = Line
    BY <1>0, <1>1, <1>2 DEF Line
  <2>2. Late' = Late
    BY <1>0, <1>2 DEF Late, destroying
  <2>3. Heard' = [Heard EXCEPT ![r] = "err"] /\ Heard[r] = "none"
    BY <1>0, <1>2 DEF Heard
  <2>4. Abstract!Refuse(r)
    BY <1>0, <1>1, <2>1, <2>2, <2>3 DEF Abstract!Refuse, Line, Landed, Late, Heard
  <2> QED BY <2>4 DEF AbstractStep, Abstract!AbsNext
<1>3. CASE queue' = Append(queue, r) /\ ~destroying /\ answer' = [answer EXCEPT ![r] = "open"]
  <2>1. Line' = Append(Line, r)
    <3>1. CASE Busy
      <4>1. PICK q \in Requests : job = {q} /\ Line = <<q>> \o queue
        BY <3>1 DEF Mapped
      <4>2. Line' = <<q>> \o queue'
        BY <1>0, <1>1, <3>1, <4>1 DEF Line
      <4> QED BY <1>0, <1>3, <4>1, <4>2, SeqFacts
    <3>2. CASE ~Busy
      BY <1>1, <1>3, <3>2 DEF Mapped
    <3> QED BY <3>1, <3>2
  <2>2. Late' = Late
    BY <1>0, <1>3 DEF Late, destroying
  <2>3. Heard' = [Heard EXCEPT ![r] = "open"] /\ Heard[r] = "none"
    BY <1>0, <1>3 DEF Heard
  <2>4. Abstract!Accept(r)
    BY <1>0, <1>1, <2>1, <2>2, <2>3 DEF Abstract!Accept, Line, Landed, Late, Heard
  <2> QED BY <2>4 DEF AbstractStep, Abstract!AbsNext
<1> QED BY <1>2, <1>3 DEF Save, Push

\* destroy() of a store that saves closes it; otherwise there is nobody to refuse.
LEMMA DestroyImplements ==
  ASSUME Inv, Mapped, Mapped', NEW d \in Destroyers, Destroy(d)
  PROVE  AbstractStep
<1>0. UNCHANGED <<job, io, file>> /\ control = "idle" /\ UNCHANGED control
  BY DEF Destroy
<1>1. CASE state = "Saving" /\ ~destroying
  <2>1. /\ Writing /\ Writing' /\ destroying' /\ queue' = <<>>
        /\ answer' = [q \in Requests |-> IF answer[q] = "open" THEN "err" ELSE answer[q]]
        /\ state' = "Saving"
    BY <1>0, <1>1 DEF Destroy, DestroyLater, DestroyNow, DestroyAgain, Inv, Phases, OneAtATime, Writing, destroying
  <2>2. PICK r \in Requests : job = {r} /\ Busy /\ Line # <<>> /\ Head(Line) = r
    BY <1>1, <2>1 DEF Mapped
  <2>3. Line' = <<>> /\ Landed' = FALSE /\ Landed = (io = "renamed")
    BY <2>1, <2>2 DEF Mapped, Landed
  <2>4. Late' = IF Landed THEN {} ELSE {Head(Line)}
    BY <1>0, <2>1, <2>2, <2>3 DEF Late, Writing
  <2>5. Heard' = [q \in Requests |-> IF Heard[q] = "open" THEN "err" ELSE Heard[q]]
    BY <2>1, HeardIs DEF Heard
  <2>6. Abstract!Close
    BY <1>0, <2>2, <2>3, <2>4, <2>5 DEF Abstract!Close, Line, Landed, Late, Heard
  <2> QED BY <2>6 DEF AbstractStep, Abstract!AbsNext
<1>2. CASE state = "Saving" /\ destroying
  <2>1. UNCHANGED <<state, answer, queue>> /\ destroying'
    BY <1>2 DEF Destroy, DestroyLater, DestroyNow, DestroyAgain, destroying
  <2> QED BY <1>0, <1>2, <2>1, Stutters DEF Mapped, Late, Heard
<1>3. CASE state # "Saving"
  <2>1. UNCHANGED <<answer, queue>> /\ state' # "Saving" /\ ~Writing /\ ~Writing'
    BY <1>0, <1>3 DEF Destroy, DestroyLater, DestroyNow, DestroyAgain, Inv, Phases, OneAtATime, Writing
  <2> QED BY <1>0, <1>3, <2>1, Stutters DEF Mapped, Late, Heard
<1> QED BY <1>1, <1>2, <1>3

\* Loading is not seen from outside.
LEMMA LoadImplements ==
  ASSUME Inv, Mapped, Mapped', Prepared \/ ReadDone
  PROVE  AbstractStep
<1>1. UNCHANGED <<queue, answer, file>> /\ ~Writing /\ ~Writing'
  BY DEF Prepared, ReadDone, LoadingDestroyed, LoadFails, callers, Writing
<1> QED BY <1>1, Stutters DEF Mapped, Late, Heard, Writing

\* A request that is taken up stays at the head of the line; a read is answered at once,
\* and a function that throws is refused.
LEMMA StartImplements ==
  ASSUME Inv, Mapped, Mapped', StartJob
  PROVE  AbstractStep
<1> DEFINE r == Head(queue)
<1>0. /\ queue # <<>> /\ queue \in Seq(Requests) /\ r \in Requests
      /\ ~Writing /\ waiters = {} /\ ~destroying /\ ~destroying' /\ UNCHANGED file
      /\ queue' = Tail(queue) /\ job' = {r} /\ Line = queue /\ ~Landed
      /\ Late = {} /\ Late' = {}
  BY DEF StartJob, Inv, TypeOK, Phases, OneAtATime, Writing, destroying, Mapped, Late
<1>1. CASE Kind[r] \in {"put", "add"}
  <2>1. io' = "write" /\ Writing' /\ UNCHANGED answer
    BY <1>1 DEF StartJob, Writing
  <2>2. Line' = <<r>> \o Tail(queue) /\ ~Landed'
    BY <1>0, <2>1 DEF Mapped, Landed
  <2>3. Line' = Line /\ Landed' = Landed
    BY <1>0, <2>2, SeqFacts DEF Landed
  <2> QED BY <1>0, <2>1, <2>3, Stutters DEF Heard
<1>2. CASE Kind[r] \notin {"put", "add"}
  <2>1. /\ ~Writing' /\ Line' = Tail(Line) /\ Landed' = FALSE
        /\ answer' = [answer EXCEPT ![r] = IF Kind[r] = "same" THEN "ok" ELSE "err"]
    BY <1>0, <1>2 DEF StartJob, Writing, Mapped, Landed
  <2>2. Heard' = [Heard EXCEPT ![r] = IF Kind[r] = "same" THEN "ok" ELSE "err"]
    BY <1>0, <2>1 DEF Heard, Inv, TypeOK
  <2>3. CASE Kind[r] = "same"
    <3>1. Head(Line) = r /\ Line # <<>> /\ Late' = Late
      BY <1>0
    <3> QED BY <1>0, <2>1, <2>2, <2>3, <3>1, Acks
  <2>4. CASE Kind[r] # "same"
    <3>1. Head(Line) = r /\ Line # <<>> /\ Late' = Late /\ Landed' = Landed
      BY <1>0, <2>1 DEF Mapped
    <3> QED BY <1>0, <2>1, <2>2, <2>4, <3>1, Fails
  <2> QED BY <2>3, <2>4
<1> QED BY <1>1, <1>2

\* The rename is the moment a request takes effect: in its turn, or, of a request that a
\* destroy refused, late.
LEMMA RenameImplements ==
  ASSUME Inv, Mapped, Mapped', Renamed
  PROVE  AbstractStep
<1>0. /\ io = "rename" /\ io' = "renamed" /\ Writing /\ Writing' /\ state = "Saving"
      /\ UNCHANGED <<queue, job, answer, waiters, state>>
      /\ file.value = data /\ file'.value = staged
  BY DEF Renamed, memory, callers, Writing, Inv, Phases, OneAtATime, Coherent
<1>1. PICK r \in Requests : /\ job = {r} /\ staged = Effect(r, data)
                            /\ Busy => Line # <<>> /\ Head(Line) = r
  BY <1>0 DEF Mapped
<1>2. Heard' = Heard /\ Late' = {}
  BY <1>0 DEF Heard, Late
<1>3. CASE ~destroying
  <2>1. Busy /\ Busy' /\ Line' = Line /\ Landed' = TRUE /\ ~Landed /\ Late = {}
    BY <1>0, <1>3 DEF Mapped, Landed, Line, Late, destroying
  <2>2. file'.value = Effect(Head(Line), file.value)
    BY <1>0, <1>1, <2>1
  <2> QED BY <1>1, <1>2, <2>1, <2>2, Commits
<1>4. CASE destroying
  <2>1. ~Busy /\ ~Busy' /\ Line' = Line /\ Landed' = Landed /\ Late = {r}
    <3>1. ~Busy /\ ~Busy'
      BY <1>0, <1>4 DEF Mapped, destroying
    <3>2. Late = {r}
      BY <1>0, <1>1, <1>4 DEF Late
    <3> QED BY <1>0, <3>1, <3>2 DEF Mapped
  <2>2. file'.value = Effect(r, file.value)
    BY <1>0, <1>1
  <2>3. Abstract!LateCommit
    BY <1>2, <2>1, <2>2 DEF Abstract!LateCommit, Line, Landed, Late, Heard
  <2> QED BY <2>3 DEF AbstractStep, Abstract!AbsNext
<1> QED BY <1>3, <1>4

\* The end of a save answers the head of the line, unless a destroy did so before.
LEMMA SaveEndImplements ==
  ASSUME Inv, Mapped, Mapped', SaveFailed \/ SaveDone
  PROVE  AbstractStep
<1>0. /\ Writing /\ ~Writing' /\ UNCHANGED <<queue, file>> /\ Late' = {} /\ state = "Saving"
      /\ Line' = queue /\ Landed' = FALSE
      /\ answer \in [Requests -> {"none", "open", "ok", "refused", "err", "gone"}]
  BY DEF SaveFailed, SaveDone, Writing, Late, Mapped, Landed, Inv, TypeOK, Phases, OneAtATime
<1>1. PICK r \in Requests : /\ job = {r}
                            /\ Busy => Line # <<>> /\ Head(Line) = r /\ Tail(Line) = queue
  BY <1>0 DEF Mapped
<1>2. CASE destroying
  <2>1. UNCHANGED answer /\ Line = queue /\ ~Landed
    BY <1>2, <1>0 DEF SaveFailed, SaveDone, SavingDestroyed, Serve, Mapped
  <2>2. Abstract!LateAbort
    BY <1>0, <2>1 DEF Abstract!LateAbort, Line, Landed, Late, Heard
  <2> QED BY <2>2 DEF AbstractStep, Abstract!AbsNext
<1>3. ASSUME ~destroying, NEW a \in {"ok", "err"}, Serve(a, data'), io = "renamed" <=> a = "ok"
      PROVE  AbstractStep
  <2>1. Busy /\ Late = {} /\ Landed = (io = "renamed")
    BY <1>0, <1>3 DEF Mapped, Late, Landed
  <2>2. Heard' = [Heard EXCEPT ![r] = a]
    <3>1. answer' = [q \in Requests |-> IF q = r THEN a ELSE answer[q]]
      BY <1>1, <1>3 DEF Serve
    <3> QED BY <1>0, <1>1, <1>3, <3>1 DEF Heard
  <2>3. CASE a = "ok"
    BY <1>0, <1>1, <1>3, <2>1, <2>2, <2>3, Acks
  <2>4. CASE a = "err"
    BY <1>0, <1>1, <1>3, <2>1, <2>2, <2>4, Fails
  <2> QED BY <2>3, <2>4
<1> QED BY <1>2, <1>3 DEF SaveFailed, SaveDone, SavingDestroyed, Serve

\* A lost process loses its line; what it told its callers, and the file, stay.
LEMMA LostImplements ==
  ASSUME Inv, Mapped, Mapped', Lost
  PROVE  AbstractStep
<1>1. ~Writing' /\ Line' = <<>> /\ Landed' = FALSE /\ Late' = {} /\ UNCHANGED file
  BY DEF Lost, Writing, Mapped, Landed, Late
<1>2. Heard' = [q \in Requests |-> IF Heard[q] = "open" THEN "gone" ELSE Heard[q]]
  BY HeardIs DEF Lost, Open, Heard, Inv, TypeOK
<1>3. Abstract!Lose
  BY <1>1, <1>2 DEF Abstract!Lose, Line, Landed, Late, Heard
<1> QED BY <1>3 DEF AbstractStep, Abstract!AbsNext

\* The other steps are not seen from outside.
LEMMA QuietImplements ==
  ASSUME Inv, Mapped, Mapped',
         \/ Written \/ Return \/ Restart \/ UNCHANGED vars
         \/ \E t \in ticks : Tick(t) /\ t.kind \notin {"throw", "nocallback"}
  PROVE  AbstractStep
<1>1. CASE Written
  <2>1. UNCHANGED <<queue, job, answer, waiters, state, file>> /\ io = "write" /\ io' = "rename"
    BY <1>1 DEF Written, memory, callers
  <2> QED BY <2>1, Stutters DEF Busy, Line, Landed, Late, Heard, destroying
<1>2. CASE Return \/ Restart
  <2>1. UNCHANGED <<queue, answer, file>> /\ ~Writing /\ ~Writing'
    BY <1>2 DEF Return, Restart, memory, callers, Inv, Phases, OneAtATime, Writing
  <2> QED BY <2>1, Stutters DEF Mapped, Late, Heard, Writing
<1>3. CASE UNCHANGED vars
  BY <1>3, Stutters DEF vars, Busy, Line, Landed, Late, Heard, destroying
<1>4. ASSUME NEW t \in ticks, Tick(t), t.kind \notin {"throw", "nocallback"}
      PROVE  AbstractStep
  <2>1. /\ UNCHANGED <<state, io, queue, job, waiters, file>>
        /\ answer' = IF t.kind = "refuse" THEN [answer EXCEPT ![t.request] = "err"] ELSE answer
    BY <1>4 DEF Tick, memory
  <2>2. t.kind = "refuse" => t.request \in Requests /\ answer[t.request] = "refused"
    BY TickTypes DEF Inv, TypeOK, Phases, OnePlace
  <2>3. Heard' = Heard
    BY <2>1, <2>2 DEF Heard, Inv, TypeOK
  <2>4. Busy' = Busy
    BY <2>1 DEF Mapped, Writing, destroying
  <2> QED BY <2>1, <2>3, <2>4, Stutters DEF Line, Landed, Late, destroying
<1> QED BY <1>1, <1>2, <1>3, <1>4

\* DataStore.js is an atomic store to its callers: requests take effect one at a time, in
\* order, at most once and before they are answered ok, across destroys and crashes.
THEOREM Refinement == Spec => Implements
<1>1. Init => Abstract!AbsInit
  BY DEF Init, Abstract!AbsInit, Busy, destroying
<1>2. Init => Told
  BY DEF Init, Told
<1>3. Inv /\ Told /\ [Next]_vars => [Abstract!AbsNext]_(Abstract!aVars)
  <2> SUFFICES ASSUME Inv, Told, [Next]_vars PROVE AbstractStep
    BY DEF AbstractStep
  <2>1. Mapped /\ Mapped'
    BY NextInv, ToldStep, MappedNow, MappedNext
  <2>2. CASE Crash \/ \E t \in ticks : Tick(t) /\ t.kind \in {"throw", "nocallback"}
    BY <2>1, <2>2, LostImplements DEF Crash, Tick
  <2> QED BY <2>1, <2>2, SaveImplements, DestroyImplements, LoadImplements, StartImplements,
             RenameImplements, SaveEndImplements, QuietImplements DEF Next
<1> QED BY <1>1, <1>2, <1>3, ToldStep, Safety, PTL DEF Spec, Implements, Abstract!AbsSpec
=============================================================================
