------------------------------- MODULE Requests -------------------------------
(***************************************************************************)
(* How a request reaches an API object and how its answer leaves:          *)
(* src/src/app/App.js (messages of the parent process, the routers), its   *)
(* Pipe.js (the type "n2") and Transform.js (the others), which take       *)
(* messages of the cloud, and src/src/middleware/Auth.js.                  *)
(*                                                                         *)
(* An API object is asked and calls back once, later; Tag.POST without a   *)
(* name calls back and throws.  An exception nobody catches ends the       *)
(* process.                                                                *)
(***************************************************************************)
EXTENDS Integers, Sequences

CONSTANTS Ids, Asked,    \* requests, and what they may be
          MaxFaults

VARIABLES station,       \* [type, fruitmix, device, samba, unbound, down]
          user,          \* "ACTIVE", "INACTIVE"
          file,          \* what GET answers with the path of: there or not
          req,           \* id -> [m, pc, who, did, answers]
          faults

vars == <<station, user, file, req, faults>>

\* 206 is a file.
Answers == {200, 206, 400, 401, 403, 404, 405, 415, 500, 503}
TypeOK ==
  /\ station.down \in {"no", "address", "device", "resource", "fruitmix", "file", "string", "unbound"}
  /\ \A r \in Ids : /\ req[r].pc \in {"idle", "auth", "resource", "api", "file", "done"}
                    /\ \A i \in DOMAIN req[r].answers : req[r].answers[i] \in Answers
                    /\ req[r].did \in {"nothing", "ok", "path", "error", "string"}
Up == station.down = "no"

-----------------------------------------------------------------------------
\* reqCommand(): where to answer comes with the message, and it is not looked at again; of
\* an "n2" the serial number must be known.
\* Mutant: of every type.
CanAnswerKnown(m) == m.addr # "none" /\ station.device
CanAnswer(m) == m.addr # "none" /\ (station.type # "n2" \/ station.device)
Unanswerable(m) == IF m.addr = "none" THEN "address" ELSE "device"
Answer(r, m, answers, did) ==
  IF CanAnswer(m)
  THEN /\ req' = [req EXCEPT ![r] = [req[r] EXCEPT !.m = m, !.pc = "done", !.answers = @ \o answers, !.did = did]]
       /\ UNCHANGED station
  ELSE /\ req' = [req EXCEPT ![r] = [req[r] EXCEPT !.m = m, !.pc = "done", !.did = did]]
       /\ station' = [station EXCEPT !.down = Unanswerable(m)]
Goes(r, m, pc, who) ==
  req' = [req EXCEPT ![r] = [req[r] EXCEPT !.m = m, !.pc = pc, !.who = who]] /\ UNCHANGED station

\* Of fruitmix: the active user of that number, or of that name, in the cloud.
GetUser == user = "ACTIVE"
\* checkUser(): before fruitmix is there, an "n2" knows its bound user.
CheckUser == IF station.fruitmix THEN GetUser ELSE station.type = "n2" /\ user = "ACTIVE"
\* checkMessage(): a part is missing; for an "n2" where to answer is a part, for the others
\* it is used much later.
Malformed(m) == m.lacks # "nothing" \/ (station.type = "n2" /\ m.addr # "full")

\* The routes of a path; a GET is a LIST and a POST a POSTFORM if they are not routes.
Verbs(path) ==
  CASE path \in {"tags", "tags noname"} -> {"LIST", "POST"}
    [] path \in {"entry", "dir"} -> {"GET"}
    [] path = "entries" -> {"POSTFORM"}
    [] path = "samba" -> {"GET", "PATCH"}
    [] OTHER -> {}
Method(m) ==
  IF m.verb = "GET" THEN IF "GET" \in Verbs(m.path) THEN "GET" ELSE "LIST"
  ELSE IF m.verb = "POST" THEN IF "POST" \in Verbs(m.path) THEN "POST" ELSE "POSTFORM"
  ELSE m.verb
HasApi(m) == station.fruitmix /\ (m.path = "samba" => station.samba)

\* handleMessage(): token, boot and device need no route.  A message with neither route nor
\* API is answered as the TypeError it leads to, 403.
Refused(m) ==
  CASE Malformed(m) -> 400
    [] ~Malformed(m) /\ ~CheckUser -> 401
    [] ~Malformed(m) /\ CheckUser /\ (m.path = "other" \/ (station.type # "n2" /\ m.addr # "full")) -> 400
    [] OTHER -> 200
Token(r, m) == m.path = "token" /\ Answer(r, m, <<200>>, "ok")
Boot(r, m) ==
  \/ m.path = "boot" /\ m.verb = "GET" /\ Answer(r, m, <<200>>, "ok")
  \/ m.path = "boot" /\ m.verb = "PATCH" /\ \E ok \in BOOLEAN : Answer(r, m, <<IF ok THEN 200 ELSE 400>>, IF ok THEN "ok" ELSE "error")
  \/ m.path = "boot" /\ m.verb = "POST" /\ Answer(r, m, <<404>>, "nothing")
  \/ m.path = "boot/space" /\ (IF m.verb = "GET" /\ station.type # "n2" THEN Goes(r, m, "api", "station")
                               ELSE Answer(r, m, <<IF station.type = "n2" THEN 403 ELSE 404>>, "nothing"))
Device(r, m) ==
  \/ m.path = "device" /\ Answer(r, m, IF m.verb = "GET" THEN <<200>> ELSE <<403>>, IF m.verb = "GET" THEN "ok" ELSE "nothing")
  \/ m.path = "device/net" /\ (IF m.verb = "GET" THEN Goes(r, m, "api", "station") ELSE Answer(r, m, <<404>>, "nothing"))
  \/ m.path = "device/sleep" /\ (IF m.verb = "PATCH" THEN Goes(r, m, "api", "station")
                                 ELSE Answer(r, m, <<IF m.verb = "GET" THEN 200 ELSE 404>>, IF m.verb = "GET" THEN "ok" ELSE "nothing"))
Apis(r, m) ==
  /\ m.path \notin {"token", "boot", "boot/space", "device", "device/net", "device/sleep"}
  /\ CASE Method(m) \notin Verbs(m.path) -> Answer(r, m, <<403>>, "nothing")
       [] Method(m) \in Verbs(m.path) /\ Method(m) = "POSTFORM" -> Goes(r, m, "resource", "user")
       [] Method(m) \in Verbs(m.path) /\ Method(m) # "POSTFORM" /\ ~HasApi(m) -> Answer(r, m, <<403>>, "nothing")
       [] m.path = "tags noname" /\ Method(m) = "POST" /\ HasApi(m) -> Answer(r, m, <<403, 403>>, "error")
       [] OTHER -> Goes(r, m, "api", "user")
HandleMessage(r, m) ==
  /\ req[r].pc = "idle" /\ m.via = "cloud"
  /\ IF Refused(m) # 200 THEN Answer(r, m, <<Refused(m)>>, "nothing")
     ELSE Token(r, m) \/ Boot(r, m) \/ Device(r, m) \/ Apis(r, m)
  /\ UNCHANGED <<user, file, faults>>

\* getResource(): the form is fetched from the cloud; nobody listens for an error, and
\* neither the user nor fruitmix is looked at again.
Response(r) ==
  /\ req[r].pc = "resource"
  /\ \/ Answer(r, req[r].m, <<403>>, "nothing")      \* no form
     \/ IF station.fruitmix THEN Goes(r, req[r].m, "api", "user")
        ELSE station' = [station EXCEPT !.down = "fruitmix"] /\ UNCHANGED req
  /\ UNCHANGED <<user, file, faults>>
ResourceFails(r) ==
  /\ req[r].pc = "resource" /\ faults < MaxFaults /\ faults' = faults + 1
  /\ station' = [station EXCEPT !.down = "resource"] /\ UNCHANGED <<user, file, req>>

\* The API calls back; GET of a directory with the drive of a backup it is not in errs with a
\* string, of which formatError() makes nothing: told as a success, but of an "n2" an exception.
Outcomes(m) ==
  CASE m.path = "entry" -> {"path", "error"}
    [] m.path = "dir" -> {"ok", "error", "string"}
    [] OTHER -> {"ok", "error"}
\* Mutant: the error is not looked at.
ToldAlways(did) == 200
Told(did) == IF did = "error" THEN 403 ELSE 200
CallsBack(r) ==
  /\ req[r].pc = "api" /\ req[r].m.via = "cloud"
  /\ \E did \in Outcomes(req[r].m) :
       CASE did = "path" -> req' = [req EXCEPT ![r] = [req[r] EXCEPT !.pc = "file", !.did = did]] /\ UNCHANGED station
         [] did = "string" /\ station.type = "n2" ->
              station' = [station EXCEPT !.down = "string"] /\ req' = [req EXCEPT ![r].did = did]
         [] OTHER -> Answer(r, req[r].m, <<Told(did)>>, did)
  /\ UNCHANGED <<user, file, faults>>
\* postResource(): the file is opened, and nobody listens if it cannot be.
PostResource(r) ==
  /\ req[r].pc = "file" /\ req[r].m.via = "cloud"
  /\ IF file /\ CanAnswer(req[r].m) THEN Answer(r, req[r].m, <<206>>, "path")
     ELSE /\ station' = [station EXCEPT !.down = IF file THEN Unanswerable(req[r].m) ELSE "file"]
          /\ UNCHANGED req
  /\ UNCHANGED <<user, file, faults>>

-----------------------------------------------------------------------------
\* createRouter(): stub, authentication, API.
Reply(r, m, answer, did) ==
  /\ req' = [req EXCEPT ![r] = [req[r] EXCEPT !.m = m, !.pc = "done", !.answers = Append(@, answer), !.did = did]]
  /\ UNCHANGED station
Stub(m) ==
  CASE ~station.fruitmix -> 503
    [] station.fruitmix /\ ~HasApi(m) -> 404
    [] OTHER -> 200
\* Mutant: the user's status is not looked at.
AuthenticatedAny(m) == m.auth \in {"jwt", "basic"}
Authenticated(m) == m.auth \in {"jwt", "basic"} /\ user = "ACTIVE"
Api(r, m, who) ==
  IF m.path = "entries" /\ m.addr = "none" THEN Reply(r, m, 415, "nothing") ELSE Goes(r, m, "api", who)
Http(r, m) ==
  /\ req[r].pc = "idle" /\ m.via = "http"
  /\ IF Stub(m) # 200 THEN Reply(r, m, Stub(m), "nothing")
     ELSE CASE m.auth = "anonymous" -> Goes(r, m, "api", "nobody")
            [] m.auth = "basic" /\ Authenticated(m) -> Goes(r, m, "auth", "user")
            [] m.auth = "jwt" /\ Authenticated(m) -> Api(r, m, "user")
            [] OTHER -> Reply(r, m, 401, "nothing")
  /\ UNCHANGED <<user, file, faults>>
\* bcrypt compares while others go on; nothing is looked at again.
Compared(r) ==
  /\ req[r].pc = "auth"
  /\ \/ Reply(r, req[r].m, 401, "nothing")
     \/ IF HasApi(req[r].m) THEN Api(r, req[r].m, "user") ELSE Reply(r, req[r].m, 500, "nothing")
  /\ UNCHANGED <<user, file, faults>>
HttpCallsBack(r) ==
  /\ req[r].pc = "api" /\ req[r].m.via = "http"
  /\ \E did \in Outcomes(req[r].m) :
       IF did = "path" THEN req' = [req EXCEPT ![r] = [req[r] EXCEPT !.pc = "file", !.did = did]] /\ UNCHANGED station
       ELSE Reply(r, req[r].m, IF did = "ok" THEN 200 ELSE 500, did)
  /\ UNCHANGED <<user, file, faults>>
SendFile(r) ==
  /\ req[r].pc = "file" /\ req[r].m.via = "http"
  /\ Reply(r, req[r].m, IF file THEN 206 ELSE 404, "path")
  /\ UNCHANGED <<user, file, faults>>

-----------------------------------------------------------------------------
\* What else the parent process says: the device; a user gone; unbind.  Fruitmix comes with
\* the boot; a file may be removed by others.
Device1 == /\ ~station.device /\ station' = [station EXCEPT !.device = TRUE] /\ UNCHANGED <<user, file, req, faults>>
FruitmixUp == /\ ~station.fruitmix /\ ~station.unbound /\ station' = [station EXCEPT !.fruitmix = TRUE] /\ UNCHANGED <<user, file, req, faults>>
UserUpdate == /\ user = "ACTIVE" /\ station.fruitmix /\ user' = "INACTIVE" /\ UNCHANGED <<station, file, req, faults>>
Unbind ==
  /\ station.type = "n2" /\ ~station.unbound /\ faults < MaxFaults /\ faults' = faults + 1
  /\ station' = [station EXCEPT !.fruitmix = FALSE, !.unbound = TRUE] /\ UNCHANGED <<user, file, req>>
UnbindExits ==
  /\ station.unbound
  /\ station' = [station EXCEPT !.down = "unbound"] /\ UNCHANGED <<user, file, req, faults>>
FileGone == /\ file /\ file' = FALSE /\ UNCHANGED <<station, user, req, faults>>

Idle == [m |-> [via |-> "none"], pc |-> "idle", who |-> "nobody", did |-> "nothing", answers |-> <<>>]
Init ==
  /\ \E type \in {"winas", "n2"}, fruitmix, samba \in BOOLEAN :
       station = [type |-> type, fruitmix |-> fruitmix, device |-> FALSE, samba |-> samba, unbound |-> FALSE, down |-> "no"]
  /\ user = "ACTIVE" /\ file = TRUE /\ req = [r \in Ids |-> Idle] /\ faults = 0
Proceed(r) ==
  Up /\ (Response(r) \/ CallsBack(r) \/ PostResource(r) \/ Compared(r) \/ HttpCallsBack(r) \/ SendFile(r))
Next ==
  \/ Up /\ \E r \in Ids, m \in Asked : HandleMessage(r, m) \/ Http(r, m)
  \/ \E r \in Ids : Proceed(r) \/ (Up /\ ResourceFails(r))
  \/ Up /\ (Device1 \/ FruitmixUp \/ UserUpdate \/ Unbind \/ UnbindExits \/ FileGone)
Spec == Init /\ [][Next]_vars

-----------------------------------------------------------------------------
\* A request is answered at most once, unless the API answers twice, and what it is told
\* is what the API did, unless that is a string.
TrueAnswers ==
  \A r \in Ids :
    /\ Len(req[r].answers) <= IF req[r].m.via = "cloud" /\ req[r].m.path = "tags noname" THEN 2 ELSE 1
    /\ \A i \in DOMAIN req[r].answers :
         /\ req[r].answers[i] = 200 => req[r].did \in {"ok", "string"}
         /\ req[r].answers[i] = 206 => req[r].did = "path"

\* The process ends only by a message that does not say where to answer, when what is fetched
\* or sent is gone, or when it is unbound; an "n2", too, before it knows the device, when a
\* form comes before fruitmix is there, and by an error that is a string.
Survives ==
  /\ station.down = "address" => \E r \in Ids : req[r].m.via = "cloud" /\ req[r].m.addr = "none"
  /\ station.down = "file" => ~file
  /\ station.down = "resource" => faults > 0
  /\ station.down \in {"device", "fruitmix", "string", "unbound"} => station.type = "n2"

\* An API acts for a user who is active, except where the answer of the cloud or of bcrypt
\* is waited for after he was looked at.
ForActive ==
  \A r \in Ids : (req'[r].pc = "api" /\ req[r].pc = "idle" /\ req'[r].who = "user") => user = "ACTIVE"
Answered(r) == req[r].answers # <<>> \/ ~Up
==============================================================================
