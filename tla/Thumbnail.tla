------------------------------ MODULE Thumbnail ------------------------------
(***************************************************************************)
(* src/src/fruitmix/Thumbnail.js and the thumbnails of apis/media.js: a    *)
(* request for a thumbnail that is not in the cache becomes a job, or      *)
(* joins the one on its key; jobs run convert, ffmpeg and tifig, so many   *)
(* at a time.                                                              *)
(*                                                                         *)
(* A key stands for a fingerprint with its options.  The programs and the  *)
(* index of media (getMedia) are external: they answer or fail.            *)
(***************************************************************************)
EXTENDS Integers, Sequences, FiniteSets, Functions

CONSTANTS Clients, Keys,
          Kinds,        \* of a key: "video", "heic" or "image"
          Limit,        \* concurrency
          MaxFaults

VARIABLES client,       \* requests: where they are and their answer
          pending,      \* jobs: the key and the callbacks
          converting,
          cache,        \* the files under thumbDir: <<key, suffix>>
          faults

vars == <<client, pending, converting, cache, faults>>

NoClient == [pc |-> "idle", key |-> 0, answer |-> "none", answers |-> 0, closed |-> FALSE]
Steps == {"convert", "rename", "ffmpeg", "renamev", "tifig"}
Asks(c) == client[c].pc = "wait" /\ ~client[c].closed

Inputs == Limit \in Nat \ {0} /\ Kinds \in [Keys -> {"video", "heic", "image"}]

TypeOK ==
  /\ \A c \in Clients :
       /\ client[c].pc \in {"idle", "media", "lstat", "wait", "done"}
       /\ client[c].answer \in {"none", "path", "error", "canceled"}
       /\ client[c].pc = "done" <=> client[c].answer # "none"
  /\ \A j \in Range(pending) : j.step = "none" /\ j.key \in Keys
  /\ \A j \in converting : j.step \in Steps /\ j.key \in Keys
  /\ Cardinality(converting) <= Limit
  /\ cache \subseteq Keys \X {"", "-v"}

-----------------------------------------------------------------------------
\* What is first done of a job.
FirstStep(k) == CASE Kinds[k] = "video" -> "ffmpeg" [] Kinds[k] = "heic" -> "tifig" [] Kinds[k] = "image" -> "convert"
\* sort(): the more callbacks, the earlier; it need not keep those with as many as they came.
Sortings(p) ==
  {f \in Bijection(DOMAIN p, DOMAIN p) :
     \A i, j \in DOMAIN p : i < j => Cardinality(p[f[i]].cbs) >= Cardinality(p[f[j]].cbs)}
Lower(a, b) == IF a < b THEN a ELSE b
\* schedule(), with the jobs that are pending and converting by then.
Schedule(p, running) ==
  \E f \in Sortings(p) :
    LET room == Lower(Limit - Cardinality(running), Len(p))
    IN  /\ pending' = [i \in 1 .. Len(p) - room |-> p[f[room + i]]]
        /\ converting' = running \cup {[p[f[i]] EXCEPT !.step = FirstStep(p[f[i]].key)] : i \in 1 .. room}

Answer(C, what) == [c \in Clients |-> IF c \notin C THEN client[c]
                      ELSE [client[c] EXCEPT !.pc = "done", !.answer = what, !.answers = @ + 1]]

\* GET of a thumbnail: the media, the cache, the job.  A client that has left meanwhile is
\* told so.
Get(c, k) ==
  /\ client[c].pc = "idle" /\ (\A d \in Clients : d < c => client[d].pc # "idle")
  /\ client' = [client EXCEPT ![c] = [NoClient EXCEPT !.pc = "media", !.key = k]]
  /\ UNCHANGED <<pending, converting, cache, faults>>
Media(c) ==
  /\ client[c].pc = "media"
  /\ client' = IF client[c].closed THEN Answer({c}, "canceled") ELSE [client EXCEPT ![c].pc = "lstat"]
  /\ UNCHANGED <<pending, converting, cache, faults>>
\* convert() looks for a job on the key among all.  Mutant: only among those pending.
FindPending(k) == \E j \in Range(pending) : j.key = k
Find(k) == (\E j \in Range(pending) : j.key = k) \/ (\E j \in converting : j.key = k)
Join(k, c) ==
  /\ pending' = [i \in DOMAIN pending |-> IF pending[i].key = k THEN [pending[i] EXCEPT !.cbs = @ \cup {c}] ELSE pending[i]]
  /\ converting' = {IF j.key = k THEN [j EXCEPT !.cbs = @ \cup {c}] ELSE j : j \in converting}
Lstat(c) ==
  /\ client[c].pc = "lstat"
  /\ LET k == client[c].key
     IN  CASE client[c].closed -> client' = Answer({c}, "canceled") /\ UNCHANGED <<pending, converting>>
           [] ~client[c].closed /\ <<k, "">> \in cache ->
                client' = Answer({c}, "path") /\ UNCHANGED <<pending, converting>>
           [] ~client[c].closed /\ <<k, "">> \notin cache ->
                /\ client' = [client EXCEPT ![c].pc = "wait"]
                /\ IF Find(k) THEN Join(k, c)
                   ELSE Schedule(Append(pending, [key |-> k, cbs |-> {c}, step |-> "none"]), converting)
  /\ UNCHANGED <<cache, faults>>
\* The request is closed: the callback is taken out, and the job goes on without it.
\* Mutant: it is told, and stays.
CloseStays(c) == UNCHANGED <<pending, converting>>
CloseLeaves(c) ==
  /\ pending' = [i \in DOMAIN pending |-> [pending[i] EXCEPT !.cbs = @ \ {c}]]
  /\ converting' = {[j EXCEPT !.cbs = @ \ {c}] : j \in converting}
Close(c) ==
  /\ client[c].pc \in {"media", "lstat", "wait"} /\ ~client[c].closed
  /\ IF client[c].pc = "wait"
     THEN client' = [Answer({c}, "canceled") EXCEPT ![c].closed = TRUE] /\ CloseLeaves(c)
     ELSE client' = [client EXCEPT ![c].closed = TRUE] /\ UNCHANGED <<pending, converting>>
  /\ UNCHANGED <<cache, faults>>
MediaFails(c) ==
  /\ client[c].pc \in {"media", "lstat"} /\ faults < MaxFaults /\ faults' = faults + 1
  /\ client' = Answer({c}, IF client[c].pc = "lstat" /\ client[c].closed THEN "canceled" ELSE "error")
  /\ UNCHANGED <<pending, converting, cache>>

-----------------------------------------------------------------------------
\* A job ends: its callbacks are called, and others scheduled.  Mutant: not after a failure.
EndQuietly(j, what) ==
  /\ client' = Answer(j.cbs, what)
  /\ IF what = "path" THEN Schedule(pending, converting \ {j})
     ELSE converting' = converting \ {j} /\ UNCHANGED pending
End(j, what) == client' = Answer(j.cbs, what) /\ Schedule(pending, converting \ {j})
Goes(j, step) ==
  converting' = (converting \ {j}) \cup {[j EXCEPT !.step = step]} /\ UNCHANGED <<client, pending>>
\* A video: ffmpeg, its file put under the name with -v, convert, and the picture after it.
\* Mutant: the video stays where ffmpeg put it.
VideoNext(j) == Goes(j, IF j.step = "convert" THEN "rename" ELSE "convert")
Next1(j) == Goes(j, CASE j.step = "ffmpeg" -> "renamev" [] j.step \in {"renamev", "tifig"} -> "convert"
                      [] j.step = "convert" -> "rename")
Step(j) ==
  /\ j \in converting
  /\ IF j.step = "rename" THEN End(j, "path") /\ cache' = cache \cup {<<j.key, "">>}
     ELSE Next1(j) /\ cache' = IF j.step = "renamev" THEN cache \cup {<<j.key, "-v">>} ELSE cache
  /\ UNCHANGED faults
StepFails(j) ==
  /\ j \in converting /\ faults < MaxFaults /\ faults' = faults + 1
  /\ End(j, "error") /\ UNCHANGED cache

Init ==
  /\ client = [c \in Clients |-> NoClient] /\ pending = <<>> /\ converting = {} /\ cache = {} /\ faults = 0

Proceed == (\E c \in Clients : Media(c) \/ Lstat(c)) \/ (\E j \in converting : Step(j))
Next ==
  \/ Proceed
  \/ \E c \in Clients : (\E k \in Keys : Get(c, k)) \/ Close(c) \/ MediaFails(c)
  \/ \E j \in converting : StepFails(j)
Spec == Init /\ [][Next]_vars

-----------------------------------------------------------------------------
\* A client that waits is in exactly one job, the only one on its key, and a job waits only
\* while all the places are taken: after whatever end of one, or a request that leaves.
AllJobs == Range(pending) \cup converting
WaitsOnce ==
  /\ \A c \in Clients : Cardinality({j \in AllJobs : c \in j.cbs}) = IF client[c].pc = "wait" THEN 1 ELSE 0
  /\ \A j, i \in AllJobs : j.key = i.key => j = i
  /\ pending # <<>> => Cardinality(converting) = Limit
  /\ \A c \in Clients : client[c].answers <= 1

\* Who was given a path finds the picture, and with that of a video the video: the second
\* one is served without a look (media.js 91).
PathIsThere ==
  /\ \A c \in Clients : client[c].answer = "path" => <<client[c].key, "">> \in cache
  /\ \A k \in Keys : <<k, "">> \in cache /\ Kinds[k] = "video" => <<k, "-v">> \in cache
==============================================================================
