---------------------------------- MODULE Dlna ----------------------------------
(***************************************************************************)
(* src/src/samba/dlna.js: the state machine that starts and stops minidlna *)
(* for the client and starts it again when the drives change.              *)
(*                                                                         *)
(* Initialize writes the configuration and goes on when that is done, even *)
(* if another state has come meanwhile.  minidlna is started by the system *)
(* as well: it may be up before.  systemctl is external.                   *)
(***************************************************************************)
EXTENDS Integers, Sequences, SequencesExt

CONSTANTS Calls, Runs,    \* 1 .. n each
          MaxChanges, MaxFaults

VARIABLES state,          \* the state, and of Initialize the run
          runs,           \* what became of each Initialize, and its callbacks
          unit,           \* minidlna is active
          call,
          astray,         \* history: the last close found minidlna not its own or failed to stop it,
                          \* or a run that another state had replaced has started it since
          changes, faults

vars == <<state, runs, unit, call, astray, changes, faults>>

Nobody == 0               \* the callback of update()
S(name, run) == [name |-> name, run |-> run]
TypeOK ==
  /\ state.name \in {"Pending", "Initialize", "Working", "Failed"}
  /\ state.run \in Runs \cup {0} /\ (state.name = "Initialize" <=> state.run # 0)
  /\ \A r \in Runs : runs[r].pc \in {"none", "writing", "over"} /\ ToSet(runs[r].callbacks) \subseteq Calls \cup {Nobody}
  /\ \A c \in Calls : call[c] \in {"idle", "start", "close", "started", "closed", "lost"}
  /\ state.run # 0 => runs[state.run].pc = "writing"

-----------------------------------------------------------------------------
\* Leaving Working stops minidlna, or fails to, which nobody hears.
\* Mutant: only a close does.
ExitNot == UNCHANGED <<unit, faults>>
Exit ==
  IF state.name # "Working" THEN UNCHANGED <<unit, faults>>
  ELSE \/ unit' = FALSE /\ UNCHANGED faults
       \/ faults < MaxFaults /\ faults' = faults + 1 /\ UNCHANGED unit
New(r) == runs[r].pc = "none" /\ (r > 1 => runs[r - 1].pc # "none")
\* The beginning of Initialize, up to the write.
Initialize(callbacks) ==
  \E r \in Runs :
    /\ New(r) /\ Exit
    /\ \/ runs' = [runs EXCEPT ![r] = [pc |-> "writing", callbacks |-> callbacks]] /\ state' = S("Initialize", r)
       \/ \* no public drive, or chown fails
          /\ runs' = [runs EXCEPT ![r] = [pc |-> "over", callbacks |-> callbacks]] /\ state' = S("Failed", 0)
Lose(callbacks, told) == [c \in Calls |-> IF c \in ToSet(callbacks) /\ call[c] = "start" THEN told ELSE call[c]]

PatchStart(c) ==
  /\ call[c] = "idle" /\ (c > 1 => call[c - 1] # "idle")
  /\ CASE state.name = "Working" -> call' = [call EXCEPT ![c] = "started"] /\ UNCHANGED <<state, runs, unit, faults>>
       [] state.name = "Initialize" ->
            /\ runs' = [runs EXCEPT ![state.run].callbacks = Append(@, c)]
            /\ call' = [call EXCEPT ![c] = "start"] /\ UNCHANGED <<state, unit, faults>>
       [] state.name \in {"Pending", "Failed"} ->
            /\ Initialize(<<c>>)
            /\ call' = [call EXCEPT ![c] = IF state'.name = "Failed" THEN "lost" ELSE "start"]
  /\ UNCHANGED <<astray, changes>>
PatchClose(c) ==
  /\ call[c] = "idle" /\ (c > 1 => call[c - 1] # "idle")
  /\ Exit /\ state' = S("Pending", 0) /\ call' = [call EXCEPT ![c] = "close"]
  /\ astray' = (state.name # "Working" \/ faults' # faults)
  /\ UNCHANGED <<runs, changes>>
Closed(c) == /\ call[c] = "close" /\ call' = [call EXCEPT ![c] = "closed"]
             /\ UNCHANGED <<state, runs, unit, astray, changes, faults>>

\* The drives change: a start without a callback, if minidlna is active.
Update ==
  /\ unit /\ changes < MaxChanges /\ changes' = changes + 1
  /\ IF state.name = "Initialize"
     THEN runs' = [runs EXCEPT ![state.run].callbacks = Append(@, Nobody)] /\ UNCHANGED <<state, unit, faults>>
     ELSE Initialize(<<>>)
  /\ UNCHANGED <<call, astray>>

\* The configuration is written, minidlna restarted, and the callbacks are called, up to
\* one that is none: an exception, although minidlna is up.
Before(s) == SubSeq(s, 1, IF Contains(s, Nobody) THEN SelectInSeq(s, LAMBDA x : x = Nobody) - 1 ELSE Len(s))
Goes(callbacks) == IF Contains(callbacks, Nobody) THEN "Failed" ELSE "Working"
Written(r) ==
  /\ runs[r].pc = "writing"
  /\ runs' = [runs EXCEPT ![r].pc = "over"] /\ unit' = TRUE
  /\ state' = S(Goes(runs[r].callbacks), 0)
  /\ call' = [c \in Calls |-> CASE c \in ToSet(Before(runs[r].callbacks)) -> "started"
                                [] c \in ToSet(runs[r].callbacks) \ ToSet(Before(runs[r].callbacks)) -> "lost"
                                [] OTHER -> call[c]]
  /\ astray' = (state.run # r)
  /\ UNCHANGED <<changes, faults>>
\* The file cannot be written, or a command fails: nobody is told.
Fails(r) ==
  /\ runs[r].pc = "writing" /\ faults < MaxFaults /\ faults' = faults + 1
  /\ runs' = [runs EXCEPT ![r].pc = "over"] /\ state' = S("Failed", 0)
  /\ call' = Lose(runs[r].callbacks, "lost") /\ unit' \in {unit, FALSE}
  /\ UNCHANGED <<astray, changes>>

Init ==
  /\ state = S("Pending", 0) /\ unit \in BOOLEAN
  /\ runs = [r \in Runs |-> [pc |-> "none", callbacks |-> <<>>]]
  /\ call = [c \in Calls |-> "idle"] /\ astray = FALSE /\ changes = 0 /\ faults = 0
Proceed == (\E r \in Runs : Written(r)) \/ (\E c \in Calls : Closed(c))
Next == Proceed \/ Update \/ (\E r \in Runs : Fails(r)) \/ (\E c \in Calls : PatchStart(c) \/ PatchClose(c))
Spec == Init /\ [][Next]_vars

-----------------------------------------------------------------------------
\* Working means that minidlna is up, also where a run set it that another state had replaced; and
\* Pending after a close that it is not, unless the last close came when it was not Working or could
\* not stop it, or a run that had been replaced has started it since.
UpWhenWorking ==
  /\ state.name = "Working" => unit
  /\ state.name = "Pending" /\ (\E c \in Calls : call[c] = "closed") /\ ~astray => ~unit
\* A start is told when minidlna was started, or never, if what it began failed.
Told(c) == call[c] \in {"started", "closed", "lost"}
==============================================================================
