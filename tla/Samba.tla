-------------------------------- MODULE Samba --------------------------------
(***************************************************************************)
(* src/src/samba/samba.js: the service that shares the drives by smbd.     *)
(* It follows the users, drives and USB volumes by writing the password    *)
(* database and smb.conf anew and restarting smbd, with half a second of   *)
(* quiet before, and clients start and stop it.                            *)
(*                                                                         *)
(* What users and drives say is the number of their changes; of USB        *)
(* volumes likewise.  Of a user it matters when it has a samba password.   *)
(* smbd, systemctl, adduser, deluser and pdbedit are external.             *)
(***************************************************************************)
EXTENDS Integers, FiniteSets

CONSTANTS Calls,       \* PATCH start or stop
          Holders,     \* users
          Having,      \* for each the numbers of changes after which it has a password
          MaxChanges, MaxFaults

VARIABLES now,       \* the users and drives, and the USB volumes
          svc,       \* the state object, and the callbacks it keeps; history: "failed" and
                     \* "dropped", how the last refresh ended, and the users it went on without
          refresh,   \* the refreshes under way, by number
          box,       \* the machine: system users, passwords (of which change, or None), smb.conf,
                     \* smbd and what it has read
          call,      \* the calls and their answers
          faults,
          overlapped \* history: a refresh went on when Started was left

vars == <<now, svc, refresh, box, call, faults, overlapped>>

NoChange == [shares |-> 0, usbs |-> 0]
None == -1
Off == [pc |-> "none", snap |-> 0, mine |-> FALSE, dropped |-> {}]
Runs == {1, 2}
Subs == {"none", "idle", "pending", "refreshing"}
TypeOK ==
  /\ svc.state \in {"Detecting", "Starting", "Started", "Stopping", "Stopped", "Failed"}
  /\ svc.sub \in Subs /\ (svc.sub # "none" <=> svc.state = "Started")
  /\ svc.cbs \subseteq {c \in Calls : call[c].answer = "waiting"}
  /\ svc.cbs # {} => svc.state \in {"Starting", "Stopping"}
  /\ \A r \in Runs : refresh[r].pc \in {"none", "users", "import", "conf", "restart", "again"}
                     /\ refresh[r].snap \in 0 .. now.shares
  /\ Cardinality({r \in Runs : refresh[r].mine}) = IF svc.sub = "refreshing" THEN 1 ELSE 0

-----------------------------------------------------------------------------
Answer(C, what) == [c \in Calls |-> IF c \in C THEN [call[c] EXCEPT !.answer = what] ELSE call[c]]
Enter(state) == [state |-> state, sub |-> "none", again |-> FALSE, failed |-> FALSE,
                 dropped |-> {}, cbs |-> {}]

\* refresh(): the users, and the shares of their drives, as they are now.  The numbers that
\* are free are enough: a second refresh takes a Started left and entered meanwhile.
Free == {r \in Runs : refresh[r].pc = "none"}
Number == CHOOSE r \in Free : \A q \in Free : r <= q
Begin(s) ==
  /\ Free # {}
  /\ svc' = [s EXCEPT !.sub = "refreshing"]
  /\ refresh' = [refresh EXCEPT ![Number] = [Off EXCEPT !.pc = "users", !.snap = now.shares, !.mine = TRUE]]

\* Detecting.
Detected(on) ==
  /\ svc.state = "Detecting"
  /\ IF on THEN Begin(Enter("Started")) ELSE svc' = Enter("Stopped") /\ UNCHANGED refresh
  /\ box' = [box EXCEPT !.active = @ \/ on]
  /\ UNCHANGED <<now, call, faults, overlapped>>
DetectFails ==
  /\ svc.state = "Detecting" /\ faults < MaxFaults /\ faults' = faults + 1
  /\ svc' = Enter("Failed") /\ UNCHANGED <<now, refresh, box, call, overlapped>>

\* PATCH: what each state does of start and stop; the others refuse.
Start(c) ==
  /\ call[c].op = "none"
  /\ LET asked == [op |-> "start", answer |-> "waiting"]
     IN  CASE svc.state = "Stopped" ->
                svc' = [Enter("Starting") EXCEPT !.cbs = {c}] /\ call' = [call EXCEPT ![c] = asked]
           [] svc.state = "Starting" ->
                svc' = [svc EXCEPT !.cbs = @ \cup {c}] /\ call' = [call EXCEPT ![c] = asked]
           [] svc.state \notin {"Stopped", "Starting"} ->
                UNCHANGED svc /\ call' = [call EXCEPT ![c] = [asked EXCEPT !.answer = "error"]]
  /\ UNCHANGED <<now, refresh, box, faults, overlapped>>
\* exit() of Started: what is refreshing goes on.
Leave == [r \in Runs |-> [refresh[r] EXCEPT !.mine = FALSE]]
Stop(c) ==
  /\ call[c].op = "none"
  /\ LET asked == [op |-> "stop", answer |-> "waiting"]
     IN  CASE svc.state = "Started" ->
                /\ svc' = [Enter("Stopping") EXCEPT !.cbs = {c}]
                /\ refresh' = Leave /\ overlapped' = (overlapped \/ svc.sub = "refreshing")
                /\ call' = [call EXCEPT ![c] = asked]
           [] svc.state = "Stopping" ->
                /\ svc' = [svc EXCEPT !.cbs = @ \cup {c}]
                /\ call' = [call EXCEPT ![c] = asked] /\ UNCHANGED <<refresh, overlapped>>
           [] svc.state \notin {"Started", "Stopping"} ->
                /\ call' = [call EXCEPT ![c] = [asked EXCEPT !.answer = IF svc.state = "Stopped" THEN "ok" ELSE "error"]]
                /\ UNCHANGED <<svc, refresh, overlapped>>
  /\ UNCHANGED <<now, box, faults>>

\* systemctl enable and start.  Mutant: Started is entered without a refresh.
StartedIdle == svc' = [Enter("Started") EXCEPT !.sub = "idle"] /\ UNCHANGED refresh
StartedRefreshes == Begin(Enter("Started"))
StartDone(ok) ==
  /\ svc.state = "Starting" /\ (ok \/ faults < MaxFaults)
  /\ faults' = IF ok THEN faults ELSE faults + 1
  /\ call' = Answer(svc.cbs, IF ok THEN "ok" ELSE "error")
  /\ box' = [box EXCEPT !.active = @ \/ ok, !.read = IF ok /\ ~box.active THEN box.conf ELSE @]
  /\ IF ok THEN StartedRefreshes ELSE svc' = Enter("Failed") /\ UNCHANGED refresh
  /\ UNCHANGED <<now, overlapped>>
\* systemctl stop, then disable.
StopDone(ok) ==
  /\ svc.state = "Stopping" /\ (ok \/ faults < MaxFaults)
  /\ faults' = IF ok THEN faults ELSE faults + 1
  /\ call' = Answer(svc.cbs, IF ok THEN "ok" ELSE "error")
  /\ \/ box' = [box EXCEPT !.active = FALSE]
     \/ ~ok /\ UNCHANGED box
  /\ svc' = Enter(IF ok THEN "Stopped" ELSE "Failed")
  /\ UNCHANGED <<now, refresh, overlapped>>

-----------------------------------------------------------------------------
\* update(): in Started only; one that comes while it refreshes leads to another one.
\* Mutant: it is taken for part of the refresh under way.
UpdateJoins(s) == IF s.sub = "idle" THEN [s EXCEPT !.sub = "pending"] ELSE s
Update(s) ==
  CASE s.sub = "refreshing" -> [s EXCEPT !.again = TRUE]
    [] s.sub \in {"idle", "pending"} -> [s EXCEPT !.sub = "pending"]
    [] s.sub = "none" -> s
Changed(what) ==
  /\ now.shares + now.usbs < MaxChanges
  /\ now' = [now EXCEPT ![what] = @ + 1]
  /\ svc' = Update(svc)
  /\ UNCHANGED <<refresh, box, call, faults, overlapped>>
\* The timer.
Timer ==
  /\ svc.sub = "pending" /\ Begin(svc)
  /\ UNCHANGED <<now, box, call, faults, overlapped>>

\* The end of a refresh, well or not.
Over(r, failed) ==
  /\ refresh' = [refresh EXCEPT ![r] = Off]
  /\ svc' = IF ~refresh[r].mine THEN svc
            ELSE [svc EXCEPT !.sub = IF svc.again THEN "pending" ELSE "idle", !.again = FALSE,
                             !.failed = failed, !.dropped = refresh[r].dropped]
To(r, pc) == refresh' = [refresh EXCEPT ![r].pc = pc] /\ UNCHANGED svc
\* processUsersAsync() keeps the users in a variable of the module, which a later call
\* overwrites: what is imported are the users of the refresh that began last.
Listed(r) == LET Q == {q \in Runs : refresh[q].pc # "none"}
             IN  CHOOSE v \in {refresh[q].snap : q \in Q} : \A q \in Q : refresh[q].snap <= v
\* processUsersAsync(): deluser and adduser bring the system users in line with the users, those
\* in the database are taken out, and the file for pdbedit is written, which each refresh removes
\* when it is done.  A user one of these commands fails on is logged, and the refresh goes on:
\* "deleted", "added" and "taken" are those.  Whom adduser failed on is left out from there.
With(n) == {u \in Holders : n \in Having[u]}
Known == {u \in Holders : box.passwords[u] # None}
\* Mutant: whom pdbedit knows is left there.
KnownStay(but) == box.passwords
Emptied(but) == [u \in Holders |-> IF u \in but THEN box.passwords[u] ELSE None]
Users(r) ==
  /\ refresh[r].pc = "users"
  /\ LET at == Listed(r)
         wanted == With(at)
     IN  \E deleted \in SUBSET (box.sys \ wanted), added \in SUBSET (wanted \ box.sys), taken \in SUBSET Known :
           /\ faults' = faults + Cardinality(deleted) + Cardinality(added) + Cardinality(taken)
           /\ faults' <= MaxFaults
           /\ box' = [box EXCEPT !.sys = (wanted \ added) \cup deleted, !.passwords = Emptied(taken),
                                 !.tmp = [at |-> at, who |-> wanted \ added], !.hasTmp = TRUE]
           /\ refresh' = [refresh EXCEPT ![r].pc = "import", ![r].dropped = added \cup (taken \ wanted)]
  /\ UNCHANGED <<now, svc, call, overlapped>>
Imported == [u \in Holders |-> IF u \in box.tmp.who THEN box.tmp.at ELSE box.passwords[u]]
Import(r) ==
  /\ refresh[r].pc = "import"
  /\ IF box.hasTmp
     THEN box' = [box EXCEPT !.passwords = Imported, !.hasTmp = FALSE] /\ To(r, "conf")
     ELSE Over(r, TRUE) /\ UNCHANGED box
  /\ UNCHANGED <<now, call, faults, overlapped>>
\* genSmbConfAsync(): the shares as they were, the USB volumes as they are.
Conf(r) ==
  /\ refresh[r].pc = "conf"
  /\ box' = [box EXCEPT !.conf = [shares |-> refresh[r].snap, usbs |-> now.usbs]] /\ To(r, "restart")
  /\ UNCHANGED <<now, call, faults, overlapped>>
\* systemctl restart smbd, and once more if it fails.
Restart(r) ==
  /\ refresh[r].pc \in {"restart", "again"}
  /\ box' = [box EXCEPT !.active = TRUE, !.read = box.conf]
  /\ Over(r, FALSE)
  /\ UNCHANGED <<now, call, faults, overlapped>>
RestartFails(r) ==
  /\ refresh[r].pc \in {"restart", "again"} /\ faults < MaxFaults /\ faults' = faults + 1
  /\ box' = [box EXCEPT !.active = FALSE]
  /\ IF refresh[r].pc = "restart" THEN To(r, "again") ELSE Over(r, TRUE)
  /\ UNCHANGED <<now, call, overlapped>>
\* A file cannot be read or written, or pdbedit neither list nor import: before the passwords are
\* gone or behind, or before they are there or behind.
RefreshFails(r) ==
  /\ refresh[r].pc \in {"users", "import", "conf"} /\ faults < MaxFaults /\ faults' = faults + 1
  /\ \/ UNCHANGED box
     \/ refresh[r].pc = "users" /\ box' = [box EXCEPT !.passwords = Emptied({})]
     \/ refresh[r].pc = "import" /\ box.hasTmp /\ box' = [box EXCEPT !.passwords = Imported]
  /\ Over(r, TRUE)
  /\ UNCHANGED <<now, call, overlapped>>

Init ==
  /\ now = NoChange /\ svc = Enter("Detecting") /\ refresh = [r \in Runs |-> Off]
  /\ box = [sys |-> {}, passwords |-> [u \in Holders |-> None], conf |-> NoChange, read |-> NoChange,
            active |-> FALSE, tmp |-> [at |-> 0, who |-> {}], hasTmp |-> FALSE]
  /\ call = [c \in Calls |-> [op |-> "none", answer |-> "none"]]
  /\ faults = 0 /\ overlapped = FALSE

Proceed ==
  \/ (\E on \in BOOLEAN : Detected(on)) \/ StartDone(TRUE) \/ StopDone(TRUE) \/ Timer
  \/ \E r \in Runs : Users(r) \/ Import(r) \/ Conf(r) \/ Restart(r)
Next ==
  \/ Proceed
  \/ DetectFails \/ StartDone(FALSE) \/ StopDone(FALSE)
  \/ \E c \in Calls : Start(c) \/ Stop(c)
  \/ \E what \in {"shares", "usbs"} : Changed(what)
  \/ \E r \in Runs : RestartFails(r) \/ RefreshFails(r)
Spec == Init /\ [][Next]_vars

-----------------------------------------------------------------------------
\* A service at rest serves what users, drives and volumes say by then: no change was lost
\* to a refresh under way, to a start or to the detection; unless the refresh failed, which
\* is not tried again, or an old one went on behind a stop and a start.  The passwords it knows
\* are the last ones of those who have one, and of nobody else, but for the users on whom a
\* command of the last refresh failed: these are dropped, or kept, without a word.
Password(n, u) == IF u \in With(n) THEN n ELSE None
IdleIsServed ==
  svc.sub = "idle" /\ ~svc.failed /\ ~overlapped =>
    /\ box.active /\ box.read = now
    /\ \A u \in Holders \ svc.dropped : box.passwords[u] = Password(now.shares, u)

\* A service that was stopped is down, but for a refresh that was under way, which starts
\* smbd again (exit() of Started only keeps its result from being used).
StoppedIsDown == svc.state = "Stopped" /\ ~overlapped => ~box.active
==============================================================================
