----------------------------- MODULE UploadForm -----------------------------
(***************************************************************************)
(* src/src/fruitmix/apis/IncomingForm.js and POSTFORM of dir-entry.js: the *)
(* parts of one multipart form become jobs, which run side by side, except *)
(* that a job on a name waits for the one before it on that name.          *)
(*                                                                         *)
(* A job tells the party of its states by an event that is emitted in      *)
(* nextTick and looks at the state the job has by then.  What a job does   *)
(* to the directory is in NameOps and Xstat, the stream of a file in       *)
(* HashStream; here either answers or fails.                               *)
(***************************************************************************)
EXTENDS Integers, Sequences, FiniteSets

CONSTANT Forms    \* forms: sequences of parts [type, op, from, to]

VARIABLES form,    \* the parts that come
          dicer,   \* the parser: which part it is in, and how it ended
          party,   \* the jobs, their events, the count of Party
          reply,   \* of POSTFORM
          twice    \* history: the end of a job was counted twice

vars == <<form, dicer, party, reply, twice>>

Jobs == 1 .. Len(party.job)
State(i) == party.job[i].state
Finished(P, i) == P.job[i].state \in {"Failed", "Succeeded"}

TypeOK ==
  /\ form \in Forms
  /\ dicer.at \in {"gap", "header", "body"} /\ dicer.end \in {"none", "finish", "stopped", "lost"}
  /\ Len(party.job) \in 0 .. Len(form)
  /\ \A i \in Jobs :
       /\ State(i) \in {"Heading", "Parsing", "Piping", "Pending", "Executing", "Failed", "Succeeded"}
       /\ party.job[i].pred \in 0 .. i - 1
       /\ State(i) \in {"Heading", "Parsing"} /\ dicer.end \in {"none", "finish"} => i = Len(party.job)
  /\ \A k \in DOMAIN party.ticks : party.ticks[k] \in Jobs
  /\ party.count <= Len(party.job)
  /\ reply \in {"none", "dir", "form", "read", "ok", "error"}

-----------------------------------------------------------------------------
\* A new State: its event comes in nextTick.
SetState(P, i, s) == [P EXCEPT !.job[i].state = s, !.ticks = Append(@, i)]

\* Executing calls the API.  It has none for dup: Failed is entered within Executing, and
\* either tells of itself, Failed first.
Execute(P, i) ==
  IF form[i].op = "dup" THEN SetState(SetState(P, i, "Failed"), i, "Failed")
  ELSE SetState(P, i, "Executing")
\* Mutant: without regard to the job before it.
FollowNow(P, i) == Execute(P, i)
Follow(P, i) ==
  LET p == P.job[i].pred
  IN  CASE p = 0 -> Execute(P, i)
        [] p # 0 /\ P.job[p].state = "Succeeded" -> Execute(P, i)
        [] p # 0 /\ P.job[p].state = "Failed" -> SetState(P, i, "Failed")
        [] p # 0 /\ ~Finished(P, p) -> SetState(P, i, "Pending")

\* this.jobs.forEach(), job by job: those Pending on i hear how it ended, those that still
\* read are destroyed.
Waits(P, j, i) == P.job[j].state = "Pending" /\ P.job[j].pred = i
Reacts(P, j, to, i) ==
  CASE to = "failed" /\ Waits(P, j, i) -> SetState(P, j, "Failed")
    [] to = "succeeded" /\ Waits(P, j, i) -> Execute(P, j)
    [] to = "destroy" /\ P.job[j].state \in {"Heading", "Parsing", "Piping"} -> SetState(P, j, "Failed")
    [] OTHER -> P
ForEach(P, to, i) ==
  LET after[j \in 0 .. Len(P.job)] == IF j = 0 THEN P ELSE Reacts(after[j - 1], j, to, i)
  IN  after[Len(P.job)]
OnJobFailed(P, i) == ForEach(P, "failed", i)
OnJobSucceeded(P, i) == ForEach(P, "succeeded", i)
DestroyJobs(P) == ForEach(P, "destroy", 0)

\* Party.end().  Mutant: it does not ask what is under way.
EndAtOnce(P) == [P EXCEPT !.ended = TRUE, !.finished = TRUE]
End(P) ==
  IF P.finished \/ P.ended THEN P
  ELSE [P EXCEPT !.ended = TRUE, !.finished = (P.count = 0)]
\* errorHandler(): nothing more is read.
Stop(how) == dicer' = [dicer EXCEPT !.end = IF @ = "none" THEN how ELSE @]

\* The listener of Party.write().  At the first failure the jobs are told of it without
\* saying whose it is, so that nobody waits for that one, and those that still read end.
\* Mutant: end() is left to the parser, which was stopped.
FirstFailureOpen(P) == [DestroyJobs(OnJobFailed(P, 0)) EXCEPT !.error = TRUE]
FirstFailure(P) == End([DestroyJobs(OnJobFailed(P, 0)) EXCEPT !.error = TRUE])
Heard(P, i) ==
  LET Q == [P EXCEPT !.count = @ - 1]
      failed == P.job[i].state = "Failed"
  IN  CASE Q.count = 0 /\ P.ended -> [Q EXCEPT !.finished = TRUE, !.error = @ \/ failed]
        [] ~(Q.count = 0 /\ P.ended) /\ failed /\ ~P.error -> FirstFailure(Q)
        [] ~(Q.count = 0 /\ P.ended) /\ failed /\ P.error -> OnJobFailed(Q, i)
        [] ~(Q.count = 0 /\ P.ended) /\ ~failed -> OnJobSucceeded(Q, i)
Tick ==
  /\ party.ticks # <<>>
  /\ LET i == Head(party.ticks)
         P == [party EXCEPT !.ticks = Tail(@)]
     IN  IF P.finished \/ ~Finished(P, i)
         THEN party' = P /\ UNCHANGED <<dicer, twice>>
         ELSE /\ party' = [Heard(P, i) EXCEPT !.job[i].heard = TRUE]
              /\ twice' = (twice \/ P.job[i].heard)
              /\ IF party'.error /\ ~P.error THEN Stop("stopped") ELSE UNCHANGED dicer
  /\ reply' = IF party'.finished /\ reply = "form" THEN "read" ELSE reply
  /\ UNCHANGED form

-----------------------------------------------------------------------------
\* The parser: a part, its header, the end of its body; parts of one chunk come without
\* events in between.
Reading == dicer.end = "none" /\ reply = "form"
Part ==
  /\ Reading /\ dicer.at = "gap" /\ Len(party.job) < Len(form)
  /\ dicer' = [dicer EXCEPT !.at = "header"]
  /\ party' = IF party.finished \/ party.error THEN party
              ELSE [party EXCEPT !.job = Append(@, [state |-> "Heading", pred |-> 0, heard |-> FALSE]),
                                 !.ticks = Append(@, Len(party.job) + 1), !.count = @ + 1]
  /\ UNCHANGED <<form, reply, twice>>

\* The job before it is the last one whose name this one begins with.
Predecessor(i) ==
  LET before == {j \in 1 .. i - 1 : form[j].op # "bad" /\ form[j].to = form[i].from}
  IN  IF before = {} THEN 0 ELSE CHOOSE j \in before : \A k \in before : k <= j
Invalid(p) == p.op = "bad" \/ (p.type = "file" /\ p.from # p.to)
Header ==
  /\ Reading /\ dicer.at = "header"
  /\ dicer' = [dicer EXCEPT !.at = "body"]
  /\ LET i == Len(party.job)
         P == [party EXCEPT !.job[i].pred = Predecessor(i)]
     IN  party' = CASE State(i) # "Heading" -> party
                    [] State(i) = "Heading" /\ Invalid(form[i]) -> SetState(party, i, "Failed")
                    [] State(i) = "Heading" /\ ~Invalid(form[i]) ->
                         SetState(P, i, IF form[i].type = "file" THEN "Piping" ELSE "Parsing")
  /\ UNCHANGED <<form, reply, twice>>

\* The body of a field is parsed when its end comes; a body cut short is none.
BadBody(p) == p.op = "badbody" \/ (p.op \in {"rename", "dup"} /\ p.from = p.to)
Parsed(P, i, cut) ==
  IF P.job[i].state # "Parsing" THEN P
  ELSE IF cut \/ BadBody(form[i]) THEN SetState(P, i, "Failed") ELSE Follow(P, i)
PartEnd ==
  /\ Reading /\ dicer.at = "body"
  /\ dicer' = [dicer EXCEPT !.at = "gap"]
  /\ party' = Parsed(party, Len(party.job), FALSE)
  /\ UNCHANGED <<form, reply, twice>>
\* The last boundary.
DicerFinish ==
  /\ Reading /\ dicer.at = "gap" /\ Len(party.job) = Len(form)
  /\ dicer' = [dicer EXCEPT !.end = "finish"]
  /\ party' = End(party)
  /\ reply' = IF party'.finished THEN "read" ELSE reply
  /\ UNCHANGED <<form, twice>>

\* The form ends early: the error of the parser, then of the part, and the part's end.
Truncated ==
  /\ Reading
  /\ dicer' = [dicer EXCEPT !.end = "stopped", !.at = "gap"]
  /\ LET i == Len(party.job)
         P == End(party)
     IN  party' = CASE dicer.at = "header" /\ State(i) = "Heading" -> SetState(P, i, "Failed")
                    [] dicer.at = "body" -> Parsed(P, i, TRUE)
                    [] OTHER -> P
  /\ reply' = IF party'.finished THEN "read" ELSE reply
  /\ UNCHANGED <<form, twice>>
\* The connection is lost: nothing more comes, not even the end of the part.
FormError ==
  /\ Reading
  /\ Stop("lost") /\ party' = End(party)
  /\ reply' = IF party'.finished THEN "read" ELSE reply
  /\ UNCHANGED <<form, twice>>

\* The hash stream of a file: whole and as told, which takes its end, or not.
Ended(i) == i < Len(party.job) \/ dicer.at = "gap"
Piped(i, ok) ==
  /\ party.ticks = <<>> /\ State(i) = "Piping" /\ (ok => Ended(i)) /\ (~ok => dicer.end # "lost" \/ Ended(i))
  /\ party' = IF ok THEN Follow(party, i) ELSE SetState(party, i, "Failed")
  /\ UNCHANGED <<form, dicer, reply, twice>>
\* The API answers.
Answered(i, ok) ==
  /\ party.ticks = <<>> /\ State(i) = "Executing"
  /\ party' = SetState(party, i, IF ok THEN "Succeeded" ELSE "Failed")
  /\ UNCHANGED <<form, dicer, reply, twice>>

-----------------------------------------------------------------------------
\* POSTFORM: DIR, the form, and the directory is read before the answer.
POSTFORM ==
  /\ reply = "none" /\ reply' = "dir" /\ UNCHANGED <<form, dicer, party, twice>>
DirDone ==
  /\ reply = "dir" /\ reply' \in {"form", "error"} /\ UNCHANGED <<form, dicer, party, twice>>
Failed == party.error \/ dicer.end \in {"stopped", "lost"}
ReadDone ==
  /\ reply = "read"
  /\ reply' = IF Failed THEN "error" ELSE "ok"
  /\ UNCHANGED <<form, dicer, party, twice>>

Init ==
  /\ form \in Forms /\ dicer = [at |-> "gap", end |-> "none"] /\ reply = "none" /\ twice = FALSE
  /\ party = [job |-> <<>>, ticks |-> <<>>, count |-> 0, ended |-> FALSE, finished |-> FALSE, error |-> FALSE]

Proceed ==
  \/ Tick \/ Header \/ PartEnd \/ Part \/ DicerFinish \/ DirDone \/ ReadDone
  \/ \E i \in Jobs, ok \in BOOLEAN : Piped(i, ok) \/ Answered(i, ok)
Next == POSTFORM \/ Proceed \/ Truncated \/ FormError
Spec == Init /\ [][Next]_vars

-----------------------------------------------------------------------------
\* Jobs on one name are done in the order of the form: a job executes only after the one
\* before it succeeded, and never after one that failed.
InOrder ==
  \A i \in Jobs : State(i) \in {"Executing", "Succeeded"} /\ party.job[i].pred # 0 =>
                    State(party.job[i].pred) = "Succeeded"

\* The client is answered when every job has ended, and told of an error if one failed;
\* unless the end of a job was counted twice, as that of dup is, or of a job that was
\* destroyed with an event under way: then it may be answered while a job executes.
AnswerIsLast ==
  reply \in {"read", "ok", "error"} /\ party.finished /\ ~twice =>
    /\ \A i \in Jobs : State(i) \in {"Failed", "Succeeded"}
    /\ reply = "ok" => \A i \in Jobs : State(i) = "Succeeded"

\* A job that waits for the one that failed first, for which the client waits for ever.
Stuck == \E i \in Jobs : State(i) = "Pending" /\ LET p == party.job[party.job[i].pred]
                                                 IN  p.state = "Failed" /\ p.heard
Over == reply \in {"ok", "error"}
==============================================================================
