------------------------------ MODULE DataStore ------------------------------
(***************************************************************************)
(* src/src/lib/DataStore.js: a JavaScript value kept in a file.  User,     *)
(* Drive, Device, Tag and Boot hold one each.  A state machine (Loading,   *)
(* Idle, Saving, Failed, Destroyed) serves a queue of save requests one at *)
(* a time; a save writes a temporary file and renames it over the old one. *)
(*                                                                         *)
(* The stored value is abstracted to the set of the requests whose effect  *)
(* it contains: an "add" request is a function of the current value, a     *)
(* "put" replaces the value, a "same" function returns the value it was    *)
(* given (a retrieve) and a "throw" function throws.                       *)
(***************************************************************************)
EXTENDS Sequences, FiniteSets, Naturals

CONSTANTS Requests,      \* the calls of save
          Kind,          \* what each of them asks for
          Destroyers,    \* the calls of destroy
          Silent,        \* those that give no callback
          InitialFiles,  \* what may be on disk at the first start
          MaxCrashes     \* bound on crashes

Values == SUBSET Requests
NoFile == "nofile"
Corrupt == "corrupt"
Files == {[kind |-> NoFile, value |-> {}], [kind |-> Corrupt, value |-> {}]}
           \cup [kind : {"json"}, value : Values]

ASSUME KindAssumption == Kind \in [Requests -> {"put", "add", "same", "throw"}]
ASSUME DestroyersAssumption == Silent \subseteq Destroyers
ASSUME InitialFilesAssumption == InitialFiles \subseteq Files
ASSUME MaxCrashesAssumption == MaxCrashes \in Nat

VARIABLES state,      \* the State object's class, or "Down": no process
          io,         \* the system call under way and, for rename, its effect
          queue,      \* ctx.queue
          job,        \* the request being saved, in a set (empty: none)
          staged,     \* job.data: what the temporary file gets
          waiters,    \* destroyCallbacks of the present state; destroying
          data,       \* ctx.data
          ticks,      \* what process.nextTick holds
          control,    \* where a synchronous stretch of code stands
          file,       \* the file on disk
          answer,     \* what each caller of save was told
          destroyed,  \* what each caller of destroy was told
          crashes

vars == <<state, io, queue, job, staged, waiters, data, ticks, control,
          file, answer, destroyed, crashes>>

memory == <<queue, job, staged, waiters, data>>
callers == <<answer, destroyed>>

States == {"Loading", "Idle", "Saving", "Failed", "Destroyed", "Down"}
Ticks == [kind : {"update"}, value : Values]
           \cup [kind : {"refuse"}, request : Requests]
           \cup [kind : {"destroyed"}, callers : SUBSET Destroyers]
           \cup [kind : {"throw", "nocallback"}, callers : SUBSET Destroyers]

TypeOK ==
  /\ state \in States
  /\ io \in {"none", "prepare", "read", "write", "rename", "renamed"}
  /\ queue \in Seq(Requests)
  /\ job \in SUBSET Requests
  /\ staged \in Values
  /\ waiters \in SUBSET Destroyers
  /\ data \in Values
  /\ ticks \subseteq Ticks
  /\ control \in {"idle", "enter", "callback"}
  /\ file \in Files
  /\ answer \in [Requests -> {"none", "open", "ok", "refused", "err", "gone"}]
  /\ destroyed \in [Destroyers -> {"none", "open", "done", "threw", "gone"}]
  /\ crashes \in 0 .. MaxCrashes

-----------------------------------------------------------------------------
\* Mutant: a function's result replaces the value it was computed from.
EffectLosesOld(r, v) == IF Kind[r] \in {"put", "add"} THEN {r} ELSE v

\* What the function or object of request r makes of value v.
Effect(r, v) == IF Kind[r] = "put" THEN {r}
                ELSE IF Kind[r] = "add" THEN v \cup {r} ELSE v

\* Mutant: the flag is never set, as the misspelt field is not.
neverDestroying == waiters # waiters

destroying == waiters # {}
Running == state \notin {"Down"}

\* Mutant: Update is emitted with setImmediate, behind other completions.
QuietSoon == control = "idle"

\* No JavaScript is on the stack and the nextTick queue is drained: only then
\* does the event loop deliver the completion of a system call.
Quiet == control = "idle" /\ ticks = {}

Open(who, calls) == [c \in DOMAIN calls |->
                       IF c \in who /\ calls[c] = "open" THEN "gone" ELSE calls[c]]

Init == /\ state = "Loading" /\ io = "prepare"
        /\ queue = <<>> /\ job = {} /\ staged = {} /\ waiters = {}
        /\ data = {} /\ ticks = {} /\ control = "idle"
        /\ file \in InitialFiles
        /\ answer = [r \in Requests |-> "none"]
        /\ destroyed = [d \in Destroyers |-> "none"]
        /\ crashes = 0

\* Mutants: the store rests with requests waiting; it starts before it may.
ToNextRests(q) == state' = "Idle" /\ control' = "idle"
ToNextStarts(q) == state' = "Saving" /\ control' = "enter"

\* A request joins the queue; mutant: at its head.
Jump(r) == <<r>> \o queue
Push(r) == Append(queue, r)

\* State.next(): on to the next request in the queue, or Idle.
ToNext(q) == IF q = <<>> THEN state' = "Idle" /\ control' = "idle"
                         ELSE state' = "Saving" /\ control' = "enter"

-----------------------------------------------------------------------------
\* save().  Refused while destroying (at once) and when Failed or Destroyed (in
\* nextTick); otherwise queued, and Idle goes to Saving.  The caller may be a
\* save callback (control = "callback").
Save(r) ==
  /\ Running /\ control \in {"idle", "callback"} /\ answer[r] = "none"
  /\ \/ /\ destroying
        /\ answer' = [answer EXCEPT ![r] = "err"]
        /\ UNCHANGED <<state, control, queue, ticks>>
     \/ /\ ~destroying /\ state \in {"Failed", "Destroyed"}
        /\ answer' = [answer EXCEPT ![r] = "refused"]
        /\ ticks' = ticks \cup {[kind |-> "refuse", request |-> r]}
        /\ UNCHANGED <<state, control, queue>>
     \/ /\ ~destroying /\ state \in {"Loading", "Idle", "Saving"}
        /\ answer' = [answer EXCEPT ![r] = "open"]
        /\ queue' = Push(r)
        /\ IF state = "Idle" THEN ToNext(queue') ELSE UNCHANGED <<state, control>>
        /\ UNCHANGED ticks
  /\ UNCHANGED <<io, job, staged, waiters, data, file, destroyed, crashes>>

\* destroy() while Loading or Saving: remembered until the system call returns;
\* Saving also refuses its job and everyone in the queue.
DestroyLater(d) ==
  /\ state \in {"Loading", "Saving"}
  /\ waiters' = waiters \cup {d}
  /\ destroyed' = [destroyed EXCEPT ![d] = "open"]
  /\ IF state = "Saving" /\ ~destroying
     THEN /\ answer' = [r \in Requests |->
                          IF answer[r] = "open" THEN "err" ELSE answer[r]]
          /\ queue' = <<>>
     ELSE UNCHANGED <<answer, queue>>
  /\ UNCHANGED <<state, ticks>>

\* Mutant: the callback is handed over alone, not in an array.
DestroyNowBare(d) == /\ state \in {"Idle", "Failed"}
                     /\ state' = "Destroyed"
                     /\ destroyed' = [destroyed EXCEPT ![d] = "open"]
                     /\ ticks' = ticks \cup {[kind |-> "destroyed", callback |-> d]}
                     /\ UNCHANGED <<waiters, queue, answer>>

\* destroy() when Idle or Failed.
DestroyNow(d) ==
  /\ state \in {"Idle", "Failed"}
  /\ state' = "Destroyed"
  /\ destroyed' = [destroyed EXCEPT ![d] = "open"]
  /\ ticks' = ticks \cup {[kind |-> "destroyed", callers |-> {d}]}
  /\ UNCHANGED <<waiters, queue, answer>>

\* destroy() of a destroyed store calls its callback whether there is one or not.
DestroyAgain(d) ==
  /\ state = "Destroyed"
  /\ destroyed' = [destroyed EXCEPT ![d] = "open"]
  /\ ticks' = ticks \cup {[kind |-> IF d \in Silent THEN "nocallback" ELSE "destroyed",
                           callers |-> {d}]}
  /\ UNCHANGED <<state, waiters, queue, answer>>

Destroy(d) == /\ Running /\ control = "idle" /\ destroyed[d] = "none"
              /\ DestroyLater(d) \/ DestroyNow(d) \/ DestroyAgain(d)
              /\ UNCHANGED <<io, job, staged, data, control, file, crashes>>

-----------------------------------------------------------------------------
\* Loading's callbacks when a destroy came in: setState(Destroyed, ...) with a
\* field that does not exist, so that Destroyed.enter throws in nextTick.
LoadingDestroyed ==
  /\ state' = "Destroyed" /\ io' = "none"
  /\ waiters' = {}
  /\ ticks' = ticks \cup {[kind |-> "throw", callers |-> waiters]}
  /\ UNCHANGED <<data, control>>

LoadFails == /\ state' = "Failed" /\ io' = "none"
             /\ UNCHANGED <<data, control, waiters, ticks>>

\* The directories are there: read the file.
Prepared ==
  /\ io = "prepare" /\ Quiet
  /\ \/ destroying /\ LoadingDestroyed
     \/ ~destroying /\ LoadFails
     \/ /\ ~destroying /\ io' = "read"
        /\ UNCHANGED <<state, data, control, waiters, ticks>>
  /\ UNCHANGED <<queue, job, staged, file, callers, crashes>>

\* The file was read; no file, or one that does not parse, is an empty value.
ReadDone ==
  /\ io = "read" /\ Quiet
  /\ \/ destroying /\ LoadingDestroyed
     \/ ~destroying /\ LoadFails
     \/ /\ ~destroying /\ io' = "none"
        /\ data' = file.value
        /\ ticks' = ticks \cup {[kind |-> "update", value |-> data']}
        /\ ToNext(queue)
        /\ UNCHANGED waiters
  /\ UNCHANGED <<queue, job, staged, file, callers, crashes>>

-----------------------------------------------------------------------------
\* Saving.enter: take the next request, run its function, start the write.
\* "same" and "throw" are answered here, without a system call.
StartJob ==
  /\ control = "enter"
  /\ LET r == Head(queue)
     IN  /\ queue' = Tail(queue)
         /\ job' = {r}
         /\ staged' = Effect(r, data)
         /\ IF Kind[r] \in {"put", "add"}
            THEN /\ io' = "write" /\ control' = "idle"
                 /\ UNCHANGED answer
            ELSE /\ answer' = [answer EXCEPT ![r] = IF Kind[r] = "same" THEN "ok" ELSE "err"]
                 /\ control' = "callback"
                 /\ UNCHANGED io
  /\ UNCHANGED <<state, waiters, data, ticks, file, destroyed, crashes>>

\* Mutant: the caller is told before the rename.
WrittenAcks == /\ io = "write" /\ Quiet
               /\ io' = "rename"
               /\ answer' = [r \in Requests |-> IF r \in job THEN "ok" ELSE answer[r]]
               /\ UNCHANGED <<state, memory, ticks, control, file, destroyed, crashes>>

\* The temporary file is complete.
Written == /\ io = "write" /\ Quiet
           /\ io' = "rename"
           /\ UNCHANGED <<state, memory, ticks, control, file, callers, crashes>>

\* The rename takes effect in the file system, some time before its callback.
Renamed == /\ io = "rename"
           /\ io' = "renamed"
           /\ file' = [kind |-> "json", value |-> staged]
           /\ UNCHANGED <<state, memory, ticks, control, callers, crashes>>

SavingDestroyed ==
  /\ destroying
  /\ state' = "Destroyed" /\ waiters' = {} /\ job' = {}
  /\ ticks' = ticks \cup {[kind |-> "destroyed", callers |-> waiters]}
  /\ UNCHANGED <<data, answer, control>>

\* Mutant: ctx.data keeps the old value.
ServeStale(outcome, value) ==
  /\ ~destroying /\ control' = "callback"
  /\ answer' = [r \in Requests |-> IF r \in job THEN outcome ELSE answer[r]]
  /\ UNCHANGED <<state, waiters, job, ticks, data>>

\* The completion of a save tells the caller, with ctx.data as it is from now on.
Serve(outcome, value) ==
  /\ ~destroying
  /\ data' = value
  /\ ticks' = IF outcome = "ok" THEN ticks \cup {[kind |-> "update", value |-> value]}
              ELSE ticks
  /\ answer' = [r \in Requests |-> IF r \in job THEN outcome ELSE answer[r]]
  /\ control' = "callback"
  /\ UNCHANGED <<state, waiters, job>>

\* The write or the rename failed, or the rename's callback came.
SaveFailed == /\ io \in {"write", "rename"} /\ Quiet /\ io' = "none"
              /\ SavingDestroyed \/ Serve("err", data)
              /\ UNCHANGED <<queue, staged, file, destroyed, crashes>>

SaveDone == /\ io = "renamed" /\ Quiet /\ io' = "none"
            /\ SavingDestroyed \/ Serve("ok", staged)
            /\ UNCHANGED <<queue, staged, file, destroyed, crashes>>

\* The caller's callback returned: this.next().
Return == /\ control = "callback"
          /\ job' = {}
          /\ ToNext(queue)
          /\ UNCHANGED <<io, queue, staged, waiters, data, ticks, file,
                         callers, crashes>>

-----------------------------------------------------------------------------
\* Everything volatile is lost with the process.
Lost == /\ state' = "Down" /\ io' = "none"
        /\ queue' = <<>> /\ job' = {} /\ staged' = {} /\ waiters' = {}
        /\ data' = {} /\ ticks' = {} /\ control' = "idle"
        /\ answer' = Open(Requests, answer)
        /\ UNCHANGED file

\* One nextTick callback runs.  A throw ends the process: nothing catches it.
Tick(t) ==
  /\ t \in ticks /\ control = "idle"
  /\ \/ /\ t.kind \in {"throw", "nocallback"}
        /\ Lost
        /\ destroyed' = [d \in Destroyers |->
                           IF t.kind = "nocallback" /\ d \in t.callers THEN "threw"
                           ELSE IF destroyed[d] = "open" THEN "gone" ELSE destroyed[d]]
     \/ /\ t.kind \notin {"throw", "nocallback"}
        /\ ticks' = ticks \ {t}
        /\ answer' = IF t.kind = "refuse" THEN [answer EXCEPT ![t.request] = "err"]
                     ELSE answer
        /\ destroyed' = IF t.kind = "destroyed"
                        THEN [d \in Destroyers |->
                                IF d \in t.callers THEN "done" ELSE destroyed[d]]
                        ELSE destroyed
        /\ UNCHANGED <<state, io, memory, control, file>>
  /\ UNCHANGED crashes

Crash == /\ Running /\ crashes < MaxCrashes
         /\ crashes' = crashes + 1
         /\ Lost
         /\ destroyed' = Open(Destroyers, destroyed)

\* new DataStore(opts) on the file the last process left.
Restart == /\ state = "Down"
           /\ state' = "Loading" /\ io' = "prepare"
           /\ UNCHANGED <<memory, ticks, control, file, callers, crashes>>

Next == \/ \E r \in Requests : Save(r)
        \/ \E d \in Destroyers : Destroy(d)
        \/ Prepared \/ ReadDone
        \/ StartJob \/ Written \/ Renamed \/ SaveFailed \/ SaveDone \/ Return
        \/ \E t \in ticks : Tick(t)
        \/ Crash \/ Restart

Spec == Init /\ [][Next]_vars

\* System calls return and the event loop runs what is due.  Nothing is assumed
\* of the callers, nor that anyone restarts the process.
Fairness == /\ WF_vars(Prepared) /\ WF_vars(ReadDone)
            /\ WF_vars(StartJob) /\ WF_vars(Return)
            /\ WF_vars(Written \/ SaveFailed)
            /\ WF_vars(Renamed \/ SaveFailed)
            /\ WF_vars(SaveDone)
            /\ WF_vars(\E t \in ticks : Tick(t))

FairSpec == Spec /\ Fairness

-----------------------------------------------------------------------------
Writing == io \in {"write", "rename", "renamed"}

\* Which calls, stretches of code and fields go with which state.
OneAtATime ==
  /\ state = "Loading" <=> io \in {"prepare", "read"}
  /\ state = "Saving" <=> Writing \/ control # "idle"
  /\ Writing => control = "idle"
  /\ control = "enter" => queue # <<>> /\ job = {}
  /\ state \notin {"Loading", "Saving"} => waiters = {}
  /\ state # "Saving" => job = {}
  /\ control # "idle" => waiters = {}
  /\ state = "Idle" => queue = <<>>

\* The save under way is of a request nobody was told of, unless a destroy
\* refused it, and what it writes is that request's effect on the value.
UnderWay ==
  Writing => \E r \in Requests : /\ job = {r}
                                 /\ Kind[r] \in {"put", "add"}
                                 /\ staged = Effect(r, data)
                                 /\ answer[r] = IF destroying THEN "err" ELSE "open"

\* A request is in one place at a time: waiting and unanswered, being saved, or
\* refused with the news still to come.
OnePlace ==
  /\ \A i \in 1 .. Len(queue) :
       /\ answer[queue[i]] = "open"
       /\ queue[i] \notin job
       /\ \A j \in 1 .. Len(queue) : queue[i] = queue[j] => i = j
  /\ \A r \in job : answer[r] \in {"open", "ok", "err"}
  /\ \A t \in ticks : t.kind = "refuse" => answer[t.request] = "refused"

\* No Update event is due while a rename is under way.
Drained == io \in {"rename", "renamed"} => \A t \in ticks : t.kind # "update"

\* One system call and one save at a time.
Phases == OneAtATime /\ UnderWay /\ OnePlace /\ Drained

\* Whenever the store serves requests, memory and file agree but for the moment
\* between the rename and its callback, where the file is one save ahead
\* (the setter after fs.rename, DataStore.js 206).
Coherent ==
  /\ state = "Idle" => file.value = data
  /\ state = "Saving" => file.value = IF io = "renamed" THEN staged ELSE data

\* The types, the phases, and memory against file: what a store at work may rely on.
Inv == TypeOK /\ Phases /\ Coherent

\* An "add" that was acknowledged is in the file from then on - after later
\* saves, failed writes, a destroy that overtakes a save, crashes and restarts
\* - unless a "put" replaced the value (promise 1 of the comment at 156).
AddsSurvive ==
  (\A p \in Requests : Kind[p] = "put" => answer[p] = "none")
    => \A r \in Requests : Kind[r] = "add" /\ answer[r] = "ok" => r \in file.value

\* When an Update event is delivered, its value is both what ds.data returns and
\* what the file holds, or is about to (promise 2 of the comment at 156).
ObserverSeesCurrent ==
  \A t \in ticks : t.kind = "update" /\ state \in {"Idle", "Saving"} =>
                     /\ t.value = data
                     /\ file.value = data

\* A caller is told ok only when the value it asked for is the one on disk and
\* the one ds.data returns at that moment.
AckedOnDisk ==
  [][\A r \in Requests : answer[r] # "ok" /\ answer'[r] = "ok" =>
       /\ file'.value = data'
       /\ Kind[r] \in {"put", "add"} => r \in file'.value]_vars

\* A save that a loaded store accepted is answered, and so is a destroy, or the process
\* is lost - as it always is by a destroy when the store was still loading.
Answered ==
  /\ \A r \in Requests :
       (answer[r] = "open" /\ state \in {"Idle", "Saving"}) ~> answer[r] # "open"
  /\ \A d \in Destroyers : destroyed[d] = "open" ~> destroyed[d] # "open"

-----------------------------------------------------------------------------
Busy == job # {} /\ answer[CHOOSE r \in job : TRUE] = "open"

Abstract == INSTANCE AtomicStore WITH
  IsRead <- LAMBDA r : Kind[r] = "same",
  InitialValues <- {f.value : f \in InitialFiles},
  value <- file.value,
  line <- (IF Busy THEN <<CHOOSE r \in job : TRUE>> ELSE <<>>) \o queue,
  landed <- Busy /\ io = "renamed",
  late <- IF destroying /\ state = "Saving" /\ io \in {"write", "rename"} THEN job ELSE {},
  answer <- [r \in Requests |-> IF answer[r] = "refused" THEN "err" ELSE answer[r]]

\* The store is an atomic store.
Implements == Abstract!AbsSpec
==============================================================================
