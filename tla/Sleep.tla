--------------------------------- MODULE Sleep ---------------------------------
(***************************************************************************)
(* The sleep mode of src/src/fruitmix/Device.js: between two times of the  *)
(* day fanlogic and ledlogic are told to sleep, by signals, each minute    *)
(* and when what is stored changes.  The two programs are external; the    *)
(* store is DataStore, of which a save is one step here.                   *)
(***************************************************************************)
EXTENDS Integers

CONSTANTS Day,       \* minutes
          Props,     \* what may be asked: [first, status, start, end], a time [at, text]
          MaxFaults, MaxCrashes

VARIABLES stored,    \* sleep.json
          conf,      \* sleepConf, in memory
          clock,     \* the minute, and whether the timer has yet to come in it
          sleeps,    \* what fanlogic and ledlogic were told last
          missed,    \* the last time they could not be told
          faults, crashes

vars == <<stored, conf, clock, sleeps, missed, faults, crashes>>

Inputs == Day \in Nat /\ Day > 0

Off == [at |-> "off"]
Loading == [at |-> "loading"]
On(c) == c \notin {Off, Loading}
Confs == {[at |-> "on", start |-> p.start, end |-> p.end] : p \in Props} \cup {Off}
TypeOK ==
  /\ stored \in Confs /\ conf \in {stored, Loading} /\ clock.now \in 0 .. Day - 1
  /\ {clock.due, sleeps.fan, sleeps.led, missed} \subseteq BOOLEAN

-----------------------------------------------------------------------------
\* time_range(): the seconds of both times are those of now, so that in the minute of the
\* start the clock must have gone on between two calls of Date, and the end is over.
\* Mutant: a range over midnight is not told from the others.
StartNeverLarge(c) == FALSE
IsStartLarge(c) == c.start.at > c.end.at
TimeRange(c, now, later) ==
  LET begun == now > c.start.at \/ (now = c.start.at /\ later)
      over == now >= c.end.at
  IN  IF IsStartLarge(c) THEN begun \/ ~over ELSE begun /\ ~over

\* sleepConfUpdate(): a program that does not run makes pidof fail, and nobody is told.  The
\* signal that is to wake the fans has a character too many (Device.js 237): kill fails.
SleepConfUpdate(c) ==
  /\ clock' = [clock EXCEPT !.due = FALSE]
  /\ \/ /\ missed' = FALSE /\ UNCHANGED faults
        /\ IF On(c) THEN \E later \in BOOLEAN :
                           LET asleep == TimeRange(c, clock.now, later)
                           IN  sleeps' = [fan |-> asleep, led |-> asleep]
           ELSE sleeps' = [sleeps EXCEPT !.led = FALSE]
     \/ /\ missed' = TRUE /\ faults < MaxFaults /\ faults' = faults + 1 /\ UNCHANGED sleeps

Load ==
  /\ conf = Loading /\ conf' = stored /\ SleepConfUpdate(stored)
  /\ UNCHANGED <<stored, crashes>>
SleepModeTimer ==
  /\ conf # Loading /\ clock.due /\ SleepConfUpdate(conf) /\ UNCHANGED <<stored, conf, crashes>>

\* updateSleepMode(): of the first user; that start and end differ is asked of their text.
Accepted(p) ==
  p.first /\ (p.status => /\ p.start # p.end
                          /\ {p.start.at, p.end.at} \subseteq 0 .. Day - 1)
UpdateSleepMode(p) ==
  /\ conf # Loading /\ Accepted(p)
  /\ stored' = IF p.status THEN [at |-> "on", start |-> p.start, end |-> p.end] ELSE Off
  /\ conf' = stored' /\ SleepConfUpdate(stored')
  /\ UNCHANGED crashes

\* The clock, of which the timer sees each minute; the process ends, and starts.
Minute ==
  /\ ~clock.due \/ conf = Loading
  /\ clock' = [now |-> (clock.now + 1) % Day, due |-> TRUE]
  /\ UNCHANGED <<stored, conf, sleeps, missed, faults, crashes>>
Crash ==
  /\ conf # Loading /\ crashes < MaxCrashes /\ crashes' = crashes + 1
  /\ conf' = Loading /\ UNCHANGED <<stored, clock, sleeps, missed, faults>>

Init ==
  /\ stored = Off /\ conf = Loading /\ clock = [now |-> 0, due |-> TRUE]
  /\ sleeps = [fan |-> FALSE, led |-> FALSE] /\ missed = FALSE /\ faults = 0 /\ crashes = 0
Next == Load \/ SleepModeTimer \/ Minute \/ Crash \/ \E p \in Props : UpdateSleepMode(p)
Spec == Init /\ [][Next]_vars

-----------------------------------------------------------------------------
\* Who was told in this minute sleeps if it lies between start and end, over midnight, too;
\* but for the minute of the start, and for the fans when the mode is switched off.
Between(c) == (clock.now - c.start.at) % Day < (c.end.at - c.start.at) % Day
AsleepBetween ==
  conf # Loading /\ ~clock.due /\ ~missed =>
    /\ ~On(conf) => ~sleeps.led
    /\ On(conf) /\ clock.now # conf.start.at => {sleeps.fan, sleeps.led} = {Between(conf)}
================================================================================
