----------------------------- MODULE HashStream -----------------------------
(***************************************************************************)
(* src/src/lib/hash-stream.js: a stream is written to a file and hashed on *)
(* the way; its owner is told when the file is whole and has the size and  *)
(* the hash that were announced (pre), or that follow the data (post).     *)
(*                                                                         *)
(* A file has Size units and a hash one.  What makes it hard is that the   *)
(* source, the write stream and the hashing child process (rs, ws, hash)   *)
(* end and fail in any order, and that the owner may destroy the stream at *)
(* any time.  The states S1 .. S5 are those of the comments of the source. *)
(***************************************************************************)
EXTENDS Integers, Sequences

CONSTANTS Size,
          Sources,    \* what the source sends: [units, good]
          MaxFaults

VARIABLES mode,      \* which class
          source,    \* what is sent, how much was, how it ended
          refs,      \* this.rs, this.ws, this.hash are not null
          opened,    \* fs.open(): asked, and what came of it
          written,   \* handed to the write stream, and on the disk
          disk,      \* the file at the path
          told,      \* the finish events
          owner,     \* the owner destroyed the stream
          late,      \* history: an error came of what was no longer held
          faults

vars == <<mode, source, refs, opened, written, disk, told, owner, late, faults>>

Inputs == Size \in Nat /\ \A s \in Sources : s.units \in Nat /\ s.good \in BOOLEAN

\* The classes: what they read, what they hold while they do, where the hash is computed.
Class(read, held, byChild) == [due |-> read, s2 |-> held, byChild |-> byChild]
IPre == Class(Size, {"rs", "ws"}, FALSE)
IPost == Class(Size + 1, {"rs", "ws"}, FALSE)
CPre == Class(Size, {"rs", "ws", "hash"}, TRUE)
CPost == Class(Size + 1, {"rs", "ws", "hash"}, TRUE)
CPre2 == Class(Size, {"rs", "hash"}, TRUE)
Classes == [IPre |-> IPre, IPost |-> IPost, CPre |-> CPre, CPost |-> CPost, CPre2 |-> CPre2]

Modes == DOMAIN Classes
Child == Classes[mode].byChild
S1 == {"rs"}
S2 == Classes[mode].s2
S3 == S2 \ {"rs"}
S4 == S3 \ {"ws"}
Due == Classes[mode].due

\* The tables of the comments: destroy() knows these states, and throws in others.
TypeOK ==
  /\ mode \in Modes /\ source.sent \in 0 .. source.units /\ source.end \in {"no", "end", "error"}
  /\ IF mode = "CPre2" THEN refs \subseteq {"rs", "hash"} ELSE refs \in {S1, S2, S3, S4, {}}
  /\ opened \in {"asked", "fd", "closed"}
  /\ written.handed \in 0 .. Size /\ written.out \in 0 .. written.handed
  /\ disk \in {"none", "part", "whole"}
  /\ mode # "CPre2" /\ refs # {} => told = <<>>

-----------------------------------------------------------------------------
\* destroy(): nothing is listened to any more; CPre2 goes on hearing errors of its source.
\* Mutant: an error leaves the write stream.
DropRead == refs' = refs \ {"rs", "hash"}
Drop == refs' = {}
\* error(): the owner is told, and the file removed some time later.
Error == Drop /\ told' = Append(told, "error")
Rest == <<mode, opened, owner, late, faults>>

\* fs.open() in the constructor; a stream that was destroyed closes the file.  An empty file
\* is whole at once.
Matches == source.good
Made == IF Size = 0 /\ Matches THEN "whole" ELSE "part"
Open(ok) ==
  /\ opened = "asked" /\ mode # "CPre2" /\ (ok \/ faults < MaxFaults)
  /\ opened' = IF ok /\ refs # {} THEN "fd" ELSE "closed"
  /\ disk' = IF ok THEN Made ELSE disk
  /\ faults' = IF ok THEN faults ELSE faults + 1
  /\ IF refs = {} THEN UNCHANGED <<refs, told>>
     ELSE IF ok THEN refs' = S2 /\ UNCHANGED told ELSE Error
  /\ UNCHANGED <<mode, source, written, owner, late>>

\* A chunk.  In the post modes what exceeds the file is the hash.
Lower(a, b) == IF a < b THEN a ELSE b
\* Mutant: the limit is that of the other modes.
TooMuchByOne(n) == n > Size + 1
TooMuch(n) == n > Due
Data(n) ==
  /\ mode # "CPre2" /\ refs = S2 /\ source.end = "no" /\ source.sent + n <= source.units
  /\ source' = [source EXCEPT !.sent = @ + n]
  /\ IF TooMuch(source.sent + n) THEN Error /\ UNCHANGED written
     ELSE /\ written' = [written EXCEPT !.handed = Lower(source.sent + n, Size)]
          /\ UNCHANGED <<refs, told>>
  /\ UNCHANGED <<Rest, disk>>

\* The end of the source: too little, or the hash of in-process modes is compared;
\* otherwise the write stream is ended.
\* Mutant: the hash is left to the child, and there is none.
CheckedLater == TRUE
Checked == Child \/ Matches
SourceEnd ==
  /\ mode # "CPre2" /\ refs = S2 /\ source.end = "no" /\ source.sent = source.units
  /\ source' = [source EXCEPT !.end = "end"]
  /\ IF source.sent >= Due /\ Checked THEN refs' = S3 /\ UNCHANGED told ELSE Error
  /\ UNCHANGED <<Rest, written, disk>>
SourceError ==
  /\ source.end = "no" /\ faults < MaxFaults /\ faults' = faults + 1
  /\ source' = [source EXCEPT !.end = "error"]
  /\ IF mode = "CPre2" \/ refs = S2 THEN Error ELSE UNCHANGED <<refs, told>>
  /\ late' = (late \/ (mode = "CPre2" /\ refs # S2))
  /\ UNCHANGED <<mode, opened, owner, written, disk>>

\* The write stream: a unit reaches the file, an error, its finish.
Flush ==
  /\ opened = "fd" /\ ("ws" \in refs \/ mode = "IPost") /\ written.out < written.handed
  /\ written' = [written EXCEPT !.out = @ + 1]
  /\ disk' = IF disk # "none" /\ written.out + 1 = Size /\ Matches THEN "whole" ELSE disk
  /\ UNCHANGED <<Rest, source, refs, told>>
WsError ==
  /\ "ws" \in refs /\ faults < MaxFaults /\ faults' = faults + 1
  /\ Error /\ UNCHANGED <<mode, opened, owner, late, source, written, disk>>
WsFinish ==
  /\ mode # "CPre2" /\ refs = S3 /\ written.out = written.handed
  /\ IF Child THEN refs' = S4 /\ UNCHANGED told
     ELSE refs' = {} /\ told' = Append(told, "ok")
  /\ UNCHANGED <<Rest, source, written, disk>>
\* The file does not close: an error after the finish of the write stream.
CloseFails ==
  /\ mode # "CPre2" /\ source.end = "end" /\ refs \subseteq S4 /\ written.out = Size
  /\ opened = "fd" /\ ~late /\ told \in {<<>>, <<"ok">>} /\ (told = <<>> => mode \in {"CPre", "CPost"})
  /\ faults < MaxFaults /\ faults' = faults + 1
  /\ Error /\ late' = TRUE /\ UNCHANGED <<mode, opened, owner, source, written, disk>>

\* The child tells the hash of what it read, after "end"; or exits, or cannot be run.
Message ==
  /\ mode # "CPre2" /\ Child /\ refs = S4
  /\ IF Matches THEN Drop /\ told' = Append(told, "ok") ELSE Error
  /\ UNCHANGED <<Rest, source, written, disk>>
ChildFails ==
  /\ "hash" \in refs /\ faults < MaxFaults /\ faults' = faults + 1
  /\ Error /\ UNCHANGED <<mode, opened, owner, late, source, written, disk>>

\* CPre2: the child does it all, and tells by its exit.
Feed ==
  /\ mode = "CPre2" /\ refs = {"rs", "hash"} /\ source.end = "no"
  /\ IF source.sent < source.units
     THEN /\ source' = [source EXCEPT !.sent = @ + 1]
          /\ written' = [handed |-> Lower(source.sent + 1, Size), out |-> Lower(source.sent + 1, Size)]
     ELSE source' = [source EXCEPT !.end = "end"] /\ UNCHANGED written
  /\ disk' = IF disk = "none" THEN "part" ELSE disk
  /\ UNCHANGED <<Rest, refs, told>>
Exit ==
  /\ mode = "CPre2" /\ refs = {"rs", "hash"} /\ source.end = "end"
  /\ IF source.units = Size /\ Matches
     THEN refs' = {"rs"} /\ told' = Append(told, "ok") /\ disk' = "whole"
     ELSE Error /\ UNCHANGED disk
  /\ UNCHANGED <<Rest, source, written>>

\* The owner: Piping.destroy() of IncomingForm.
Destroy ==
  /\ ~owner /\ told = <<>>
  /\ owner' = TRUE /\ Drop
  /\ UNCHANGED <<mode, opened, late, faults, source, written, disk, told>>
\* rimraf() of error().
Rimraf ==
  /\ disk # "none" /\ \E k \in DOMAIN told : told[k] = "error"
  /\ disk' = "none"
  /\ UNCHANGED <<Rest, source, refs, written, told>>

Init ==
  /\ mode \in Modes
  /\ \E s \in Sources : source = [units |-> s.units, good |-> s.good, sent |-> 0, end |-> "no"]
  /\ refs = IF mode = "CPre2" THEN S2 ELSE S1
  /\ opened = "asked" /\ written = [handed |-> 0, out |-> 0] /\ disk = "none"
  /\ told = <<>> /\ owner = FALSE /\ late = FALSE /\ faults = 0

Proceed ==
  \/ Open(TRUE) \/ (\E n \in 1 .. 2 : Data(n)) \/ SourceEnd \/ Flush \/ WsFinish \/ Message
  \/ Feed \/ Exit \/ Rimraf
Next == Proceed \/ Open(FALSE) \/ SourceError \/ WsError \/ CloseFails \/ ChildFails \/ Destroy
Spec == Init /\ [][Next]_vars

-----------------------------------------------------------------------------
\* The owner is told once, and nothing after it destroyed the stream: IncomingForm counts
\* its jobs by that.  Excepted are a file that does not close after its finish, and a
\* source of CPre2, which is still heard when its child is gone.
ToldOnce == ~late => (owner => told = <<>>) /\ Len(told) <= 1

\* Success means that the file is there, and is the one announced, whatever fails
\* afterwards.
OkIsWhole ==
  told # <<>> /\ told[Len(told)] = "ok" =>
    disk = "whole" /\ source.units = Due /\ source.good

\* A source that ends is answered, unless the stream was destroyed, or the source failed
\* before the file was open, when nobody listens to it yet.
Answered == told # <<>> \/ owner \/ (source.end = "error" /\ refs # {})
==============================================================================
