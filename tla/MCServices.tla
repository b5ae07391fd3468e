------------------------------ MODULE MCServices ------------------------------
(* The file API beside the drives and the services around it, for TLC: each  *)
(* behaviour is one of the parts below, chosen at the start.  A part's       *)
(* variables are those of its module, or of those that several parts share,  *)
(* v1 .. v6; a variable that is not the part's holds 0.                      *)
EXTENDS Integers, Sequences, FiniteSets

CONSTANTS s, t, none   \* two paths elsewhere

VARIABLES part,
  form, dicer, party, reply, twice,
  mode, source, refs, opened, written, disk, told, owner, late,
  now, svc, refresh, box, overlapped,
  drives, at, size, down, alone, began,
  torrents, state, lists, moving, file, lock, seen,
  client, pending, converting, cache,
  data, attrs, white, dir, queue, stale,
  order, fileOnly, tree, lost, files, req, got, over, deep, kept, changes,
  v1, v2, v3, v4, v5, v6, call, task, faults, crashes      \* of several parts

\* Forms of up to three parts: a name is made, then used by two others.
P(type, op, from, to) == [type |-> type, op |-> op, from |-> from, to |-> to]
First == {P("file", "newfile", "a", "a"), P("field", "mkdir", "b", "b")}
Second == {P("file", "newfile", "a", "a"), P("field", "rename", "a", "c"), P("field", "remove", "b", "b"),
           P("field", "badbody", "a", "a"), P("field", "dup", "a", "c"), P("file", "bad", "b", "b")}
Third == {P("file", "newfile", "c", "c"), P("field", "remove", "a", "a"), P("field", "rename", "c", "d")}
mcForms == {<<p, q>> : p \in First, q \in Second} \cup {<<p, q, r>> : p \in First, q \in Second, r \in Third}
Uploads == INSTANCE UploadForm WITH Forms <- mcForms

Streams == INSTANCE HashStream WITH
  Size <- 2, Sources <- [units : 0 .. 4, good : BOOLEAN], MaxFaults <- 2
ASSUME StreamsAssumption == Streams!Inputs

\* The second user gets its password by the first change; the second change takes the first one's.
Shares == INSTANCE Samba WITH
  Calls <- {1, 2}, Holders <- {1, 2}, Having <- <<{0, 1}, {1, 2}>>, MaxChanges <- 2, MaxFaults <- 1

O(api, from, same, diff) == [api |-> api, from |-> from, same |-> same, diff |-> diff, path |-> TRUE, parts |-> <<>>]
F(path, parts) == [O("POSTFORM", none, "none", "none") EXCEPT !.path = path, !.parts = parts]
Sub(do, n) == [do |-> do, name |-> n]
mcOps == {O("NEWFILE", none, "replace", "skip"), O("CPFILE", none, "rename", "replace"),
          O("MKDIR", none, "skip", "none"), O("MVFILE", s, "replace", "rename"),
          O("MVFILE", s, "rename", "none"), O("MVDIR", t, "skip", "replace"),
          O("DELETE", 1, "none", "none"), O("GET", none, "none", "none"), O("GET", s, "none", "none"),
          O("PATCH", s, "replace", "skip"), O("PATCH", t, "rename", "replace"), O("PATCH", s, "other", "none"),
          F(TRUE, <<Sub("file", 1), Sub("directory", 2)>>), F(TRUE, <<Sub("remove", 1), Sub("file", 1)>>),
          F(FALSE, <<Sub("prelude", 1), Sub("directory", 2), Sub("file", 1)>>), F(FALSE, <<Sub("file", 1)>>)}
NoFile == [kind |-> "none", obj |-> <<0, 0>>]
mcBegins == {[p \in {1, 2, 3, 4, s, t} |->
                CASE p = s -> [kind |-> "file", obj |-> <<0, 1>>]
                  [] p = t -> [kind |-> "dir", obj |-> <<0, 2>>]
                  [] p = 1 /\ k # "none" -> [kind |-> k, obj |-> <<0, 3>>]
                  [] p \in {2, 3, 4} \/ (p = 1 /\ k = "none") -> NoFile] :
              k \in {"none", "file", "dir"}}
Native == INSTANCE NativeFs WITH
  Calls <- {1, 2}, Ops <- mcOps, Names <- 1 .. 4, Sources <- {s, t}, Begins <- mcBegins,
  Units <- 1, MaxFaults <- 1, wrote <- v1, lost <- v2, raced <- v3
ASSUME NativeAssumption == Native!Inputs

Torrents == INSTANCE Transmission WITH
  Calls <- {1, 2}, Ids <- {1, 2}, Users <- {"u"}, MaxFaults <- 1, MaxCrashes <- 1

Thumbs == INSTANCE Thumbnail WITH
  Clients <- {1, 2, 3}, Keys <- {1, 2, 3}, Kinds <- <<"video", "heic", "image">>, Limit <- 2, MaxFaults <- 1
ASSUME ThumbsAssumption == Thumbs!Inputs

Archive == INSTANCE Backup WITH Calls <- {1, 2, 3}, MaxFaults <- 1, MaxCrashes <- 1

D(p) == [path |-> p, type |-> "directory"]
E(p) == [path |-> p, type |-> "file"]
mcSub(n) == {{}, {E(<<1, n>>)}} \cup
            {{D(<<1, n>>)} \cup S : S \in SUBSET {D(<<1, n, 1>>), E(<<1, n, 2>>), E(<<1, n, 3>>)}}
mcTrees == {A \cup B \cup C : A \in mcSub(1), B \in mcSub(2), C \in {{}, {E(<<1, 3>>), E(<<2, 1>>)}}}
Pages == INSTANCE Query WITH
  Keys <- 1 .. 4, Counts <- {1, 2}, MaxChanges <- 1, Trees <- mcTrees, Arrays <- SUBSET (1 .. 4)

\* A disk that is a file system, part of a volume, swap or has two partitions; a second that
\* is a volume of its own, of the first, or a file system; a third for the root.
B(d, use, vol) == [disk |-> d, use |-> use, vol |-> vol]
Uses == {"fs", "btrfs", "swap"}
OneDisk ==
  {[b \in {1} |-> B(1, u, IF u = "btrfs" THEN 1 ELSE 0)] : u \in Uses \cup {"none"}} \cup
  {[b \in {1, 11, 12} |->
      CASE b = 1 -> B(1, "table", 0)
        [] b = 11 -> B(1, u, IF u = "btrfs" THEN 1 ELSE 0)
        [] b = 12 -> B(1, v, IF v = "btrfs" THEN (IF u = v THEN 1 ELSE 2) ELSE 0)] : u, v \in Uses}
mcBlocks ==
  {[b \in DOMAIN o \cup {2, 3} |->
      CASE b = 2 -> B(2, IF v = 0 THEN "fs" ELSE "btrfs", v)
        [] b = 3 -> B(3, "fs", 0)
        [] b \in DOMAIN o -> o[b]] : o \in OneDisk, v \in {0, 1, 2}}
mcMachines ==
  UNION {{[blocks |-> bl, mounts |-> <<[dev |-> r, at |-> <<"/", 0>>]>> \o o, swaps |-> w] :
            r \in {2, 3}, o \in {<<>>, <<[dev |-> 2, at |-> <<"other", 2>>]>>},
            w \in {{}, {b \in DOMAIN bl : bl[b].use = "swap"}}} : bl \in mcBlocks}
Disks == INSTANCE Storage WITH
  Machines <- mcMachines, Targets <- {{1}, {2}, {1, 2}}, MaxFaults <- 1,
  blocks <- v1, mounts <- v2, swaps <- v3, fmt <- v4
ASSUME DisksAssumption == Disks!Inputs

C(lacks, addr, path, verb) ==
  [via |-> "cloud", lacks |-> lacks, addr |-> addr, path |-> path, verb |-> verb, auth |-> "cloud"]
H(path, verb, auth, addr) ==
  [via |-> "http", lacks |-> "nothing", addr |-> addr, path |-> path, verb |-> verb, auth |-> auth]
Paths == {"boot", "boot/space", "device", "device/net", "device/sleep", "tags", "tags noname",
          "entry", "dir", "entries", "samba", "other"}
mcAsked == {C(l, a, "token", "GET") : l \in {"nothing", "field"}, a \in {"none", "bare", "full"}} \cup
           {C("nothing", "full", p, v) : p \in Paths, v \in {"GET", "POST", "PATCH"}} \cup
           {H(p, "GET", a, "full") : p \in {"dir", "entry", "samba"}, a \in {"anonymous", "jwt", "basic", "wrong"}} \cup
           {H("entries", "POST", "jwt", a) : a \in {"full", "none"}}
Asks == INSTANCE Requests WITH Ids <- {1}, Asked <- mcAsked, MaxFaults <- 1,
  station <- v1, user <- v2, file <- v3, req <- v4

Sinks == INSTANCE Batch WITH
  Ids <- {1, 2}, Batches <- {<<FALSE>>, <<TRUE, FALSE, TRUE>>}, MaxFaults <- 1, tasks <- v1, answer <- v2

T(id, name, who) == [id |-> id, name |-> name, creator |-> who, deleted |-> FALSE]
TOp(do, id, name) == [do |-> do, user |-> "u", id |-> id, name |-> name]
Tagging == INSTANCE Tags WITH
  Calls <- {1, 2, 3},
  Ops <- {TOp("POST", 0, "x"), TOp("POST", 0, ""), TOp("PATCH", 0, "y"), TOp("DELETE", 0, "")},
  Files <- {<<>>, <<T(0, "x", "u"), T(1, "x", "v")>>}, MaxFaults <- 1, MaxCrashes <- 1,
  tags <- v1, loaded <- v2, disk <- v3, queue <- v4, staged <- v5, overlapped <- v6
ASSUME TagsAssumption == Tagging!Inputs

UOp(do, by, on, name, st) == [do |-> do, by |-> by, on |-> on, name |-> name, status |-> st, list |-> {}]
DOp(do, by, on, label, list) == [do |-> do, by |-> by, on |-> on, name |-> label, status |-> "", list |-> list]
mcCalls == {UOp("user POST", 1, 0, "b", ""), UOp("user PATCH", 1, 2, "", "INACTIVE"),
            UOp("user PATCH", 2, 2, "b", ""), UOp("password", 1, 1, "", ""),
            UOp("user DELETE", 1, 2, "", "DELETED"), UOp("user DELETE", 1, 1, "", "DELETED"),
            DOp("drive POST", 1, 0, "x", {2}), DOp("drive POST", 1, 0, "y", {0}), DOp("drive PATCH", 1, 2, "", {2}),
            DOp("drive PATCH", 2, 3, "x", {}), DOp("drive DELETE", 1, 2, "", {}), DOp("drive DELETE", 2, 3, "", {}),
            DOp("drive LIST", 1, 0, "", {}), DOp("drive LIST", 2, 0, "", {})}
Usr(name, st) == [name |-> name, status |-> st]
Drv(kind, o, label, list) == [kind |-> kind, owner |-> o, label |-> label, list |-> list, deleted |-> FALSE]
mcFiles ==
  [users : {<<Usr("a", "ACTIVE"), Usr("b", "ACTIVE")>>,
            <<Usr("a", "ACTIVE"), Usr("c", "ACTIVE"), Usr("b", "DELETED")>>},
   drives : {<<Drv("built-in", 0, "", {0}), Drv("public", 0, "x", {1, 2}), Drv("backup", 2, "", {})>>,
             <<Drv("built-in", 0, "", {0}), Drv("home", 1, "", {}), Drv("backup", 2, "x", {})>>,
             <<Drv("public", 0, "x", {1, 2})>>}]
People == INSTANCE Members WITH
  Calls <- {1, 2, 3}, Ops <- mcCalls, Files <- mcFiles, MaxPublic <- 2, MaxActive <- 3, MaxFaults <- 1,
  users <- v1, drives <- v2
ASSUME PeopleAssumption == People!Inputs

Media == INSTANCE Dlna WITH
  Calls <- 1 .. 3, Runs <- 1 .. 4, MaxChanges <- 2, MaxFaults <- 1,
  state <- v1, runs <- v2, unit <- v3, astray <- v4, changes <- v5

Time(m, text) == [at |-> m, text |-> text]
Mode(first, status, start, end) == [first |-> first, status |-> status, start |-> start, end |-> end]
Nights == INSTANCE Sleep WITH
  Day <- 4, MaxFaults <- 1, MaxCrashes <- 1,
  Props <- {Mode(TRUE, TRUE, Time(a, "1:05"), Time(b, x)) : a, b \in 0 .. 4, x \in {"1:05", "01:05"}} \cup
           {Mode(f, FALSE, Time(0, "1:05"), Time(1, "1:05")) : f \in BOOLEAN},
  stored <- v1, conf <- v2, clock <- v3, sleeps <- v4, missed <- v5
ASSUME NightsAssumption == Nights!Inputs

uploadVars == <<form, dicer, party, reply, twice>>
streamVars == <<mode, source, refs, opened, written, disk, told, owner, late>>
shareVars == <<now, svc, refresh, box, overlapped>>
nativeVars == <<drives, at, size, down, alone, began>>
torrentVars == <<torrents, state, lists, moving, file, lock, seen>>
thumbVars == <<client, pending, converting, cache>>
archiveVars == <<data, attrs, white, dir, queue, stale>>
pageVars == <<order, fileOnly, tree, lost, files, req, got, over, deep, kept, changes>>
poolVars == <<v1, v2, v3, v4, v5, v6>>
ownVars == <<uploadVars, streamVars, shareVars, nativeVars, torrentVars, thumbVars, archiveVars, pageVars>>
vars == <<part, ownVars, poolVars, call, task, faults, crashes>>

NoUploads == form = 0 /\ dicer = 0 /\ party = 0 /\ reply = 0 /\ twice = 0
NoStreams == /\ mode = 0 /\ source = 0 /\ refs = 0 /\ opened = 0 /\ written = 0 /\ disk = 0
             /\ told = 0 /\ owner = 0 /\ late = 0
NoShares == now = 0 /\ svc = 0 /\ refresh = 0 /\ box = 0 /\ overlapped = 0
NoNative == drives = 0 /\ at = 0 /\ size = 0 /\ down = 0 /\ alone = 0 /\ began = 0
NoTorrents == /\ torrents = 0 /\ state = 0 /\ lists = 0 /\ moving = 0 /\ file = 0 /\ lock = 0 /\ seen = 0
NoThumbs == client = 0 /\ pending = 0 /\ converting = 0 /\ cache = 0
NoArchive == data = 0 /\ attrs = 0 /\ white = 0 /\ dir = 0 /\ queue = 0 /\ stale = 0
NoPages == /\ order = 0 /\ fileOnly = 0 /\ tree = 0 /\ lost = 0 /\ files = 0 /\ req = 0 /\ got = 0
           /\ over = 0 /\ deep = 0 /\ kept = 0 /\ changes = 0
NoPool == v1 = 0 /\ v2 = 0 /\ v3 = 0 /\ v4 = 0 /\ v5 = 0 /\ v6 = 0
NoOwn == /\ NoUploads /\ NoStreams /\ NoShares /\ NoNative /\ NoTorrents /\ NoThumbs /\ NoArchive /\ NoPages
Init ==
  \/ /\ part = "uploads" /\ Uploads!Init /\ call = 0 /\ task = 0 /\ faults = 0 /\ crashes = 0
     /\ NoStreams /\ NoShares /\ NoNative /\ NoTorrents /\ NoThumbs /\ NoArchive /\ NoPages /\ NoPool
  \/ /\ part = "streams" /\ Streams!Init /\ call = 0 /\ task = 0 /\ crashes = 0
     /\ NoUploads /\ NoShares /\ NoNative /\ NoTorrents /\ NoThumbs /\ NoArchive /\ NoPages /\ NoPool
  \/ /\ part = "shares" /\ Shares!Init /\ task = 0 /\ crashes = 0
     /\ NoUploads /\ NoStreams /\ NoNative /\ NoTorrents /\ NoThumbs /\ NoArchive /\ NoPages /\ NoPool
  \/ /\ part = "native" /\ Native!Init /\ task = 0 /\ crashes = 0 /\ v4 = 0 /\ v5 = 0 /\ v6 = 0
     /\ NoUploads /\ NoStreams /\ NoShares /\ NoTorrents /\ NoThumbs /\ NoArchive /\ NoPages
  \/ /\ part = "torrents" /\ Torrents!Init
     /\ NoUploads /\ NoStreams /\ NoShares /\ NoNative /\ NoThumbs /\ NoArchive /\ NoPages /\ NoPool
  \/ /\ part = "thumbs" /\ Thumbs!Init /\ call = 0 /\ task = 0 /\ crashes = 0
     /\ NoUploads /\ NoStreams /\ NoShares /\ NoNative /\ NoTorrents /\ NoArchive /\ NoPages /\ NoPool
  \/ /\ part = "archive" /\ Archive!Init /\ call = 0
     /\ NoUploads /\ NoStreams /\ NoShares /\ NoNative /\ NoTorrents /\ NoThumbs /\ NoPages /\ NoPool
  \/ /\ part = "pages" /\ Pages!Init /\ call = 0 /\ task = 0 /\ faults = 0 /\ crashes = 0
     /\ NoUploads /\ NoStreams /\ NoShares /\ NoNative /\ NoTorrents /\ NoThumbs /\ NoArchive /\ NoPool
  \/ part = "disks" /\ Disks!Init /\ NoOwn /\ v5 = 0 /\ v6 = 0 /\ call = 0 /\ task = 0 /\ crashes = 0
  \/ part = "requests" /\ Asks!Init /\ NoOwn /\ v5 = 0 /\ v6 = 0 /\ call = 0 /\ task = 0 /\ crashes = 0
  \/ /\ part = "batches" /\ Sinks!Init /\ NoOwn
     /\ v3 = 0 /\ v4 = 0 /\ v5 = 0 /\ v6 = 0 /\ call = 0 /\ crashes = 0
  \/ part = "tags" /\ Tagging!Init /\ NoOwn /\ task = 0
  \/ /\ part = "people" /\ People!Init /\ NoOwn
     /\ v3 = 0 /\ v4 = 0 /\ v5 = 0 /\ v6 = 0 /\ task = 0 /\ crashes = 0
  \/ part = "media" /\ Media!Init /\ NoOwn /\ v6 = 0 /\ task = 0 /\ crashes = 0
  \/ part = "nights" /\ Nights!Init /\ NoOwn /\ v6 = 0 /\ call = 0 /\ task = 0

IsUploads == /\ part = "uploads"
             /\ UNCHANGED <<part, poolVars, streamVars, shareVars, nativeVars, torrentVars, thumbVars, archiveVars, pageVars,
                            call, task, faults, crashes>>
IsStreams == /\ part = "streams"
             /\ UNCHANGED <<part, poolVars, uploadVars, shareVars, nativeVars, torrentVars, thumbVars, archiveVars, pageVars,
                            call, task, crashes>>
IsShares == /\ part = "shares"
            /\ UNCHANGED <<part, poolVars, uploadVars, streamVars, nativeVars, torrentVars, thumbVars, archiveVars, pageVars,
                           task, crashes>>
IsNative == /\ part = "native"
            /\ UNCHANGED <<part, uploadVars, streamVars, shareVars, torrentVars, thumbVars, archiveVars, pageVars,
                           v4, v5, v6, task, crashes>>
IsTorrents == /\ part = "torrents"
              /\ UNCHANGED <<part, poolVars, uploadVars, streamVars, shareVars, nativeVars, thumbVars, archiveVars, pageVars>>
IsThumbs == /\ part = "thumbs"
            /\ UNCHANGED <<part, poolVars, uploadVars, streamVars, shareVars, nativeVars, torrentVars, archiveVars, pageVars,
                           call, task, crashes>>
IsArchive == /\ part = "archive"
             /\ UNCHANGED <<part, poolVars, uploadVars, streamVars, shareVars, nativeVars, torrentVars, thumbVars, pageVars,
                            call>>
IsPages == /\ part = "pages"
           /\ UNCHANGED <<part, poolVars, uploadVars, streamVars, shareVars, nativeVars, torrentVars, thumbVars, archiveVars,
                          call, task, faults, crashes>>
IsDisks == part = "disks" /\ UNCHANGED <<part, ownVars, v5, v6, call, task, crashes>>
IsRequests == part = "requests" /\ UNCHANGED <<part, ownVars, v5, v6, call, task, crashes>>
IsBatches == part = "batches" /\ UNCHANGED <<part, ownVars, v3, v4, v5, v6, call, crashes>>
IsTags == part = "tags" /\ UNCHANGED <<part, ownVars, task>>
IsPeople == part = "people" /\ UNCHANGED <<part, ownVars, v3, v4, v5, v6, task, crashes>>
IsMedia == part = "media" /\ UNCHANGED <<part, ownVars, v6, task, crashes>>
IsNights == part = "nights" /\ UNCHANGED <<part, ownVars, v6, call, task>>

Next ==
  \/ IsUploads /\ Uploads!Next
  \/ IsStreams /\ Streams!Next
  \/ IsShares /\ Shares!Next
  \/ IsNative /\ Native!Next
  \/ IsTorrents /\ Torrents!Next
  \/ IsThumbs /\ Thumbs!Next
  \/ IsArchive /\ Archive!Next
  \/ IsPages /\ Pages!Next
  \/ IsDisks /\ Disks!Next
  \/ IsRequests /\ Asks!Next
  \/ IsBatches /\ Sinks!Next
  \/ IsTags /\ Tagging!Next
  \/ IsPeople /\ People!Next
  \/ IsMedia /\ Media!Next
  \/ IsNights /\ Nights!Next

\* A form is sent or ended by its client; sources end; system calls, commands and child
\* processes return; timers and callbacks fire.  The observer of transmission goes on by
\* a timer of its own, beside the requests.
Proceed ==
  \/ IsUploads /\ Uploads!Proceed
  \/ IsStreams /\ Streams!Proceed
  \/ IsShares /\ Shares!Proceed
  \/ IsNative /\ \E c \in {1, 2} : Native!Proceed(c)
  \/ IsTorrents /\ (Torrents!New(TRUE) \/ Torrents!Start(TRUE))
  \/ IsTorrents /\ \E c \in {1, 2} : Torrents!Added(c) \/ Torrents!Got(c) \/ Torrents!Observe(c)
  \/ IsThumbs /\ Thumbs!Proceed
  \/ IsArchive /\ \E c \in {1, 2, 3} : Archive!Proceed(c)
  \/ IsDisks /\ Disks!Proceed
  \/ IsRequests /\ Asks!Proceed(1)
  \/ IsBatches /\ \E k \in {1, 2} : Sinks!Over(k)
  \/ IsTags /\ Tagging!Proceed
  \/ IsPeople /\ People!Proceed
  \/ IsMedia /\ Media!Proceed
Observer == IsTorrents /\ (Torrents!Query \/ Torrents!Timer)
Spec == Init /\ [][Next]_vars /\ WF_vars(Proceed) /\ WF_vars(Observer)

-----------------------------------------------------------------------------
\* The types of all parts, and what their bookkeeping relies on: a client that waits for a
\* thumbnail is in exactly one job and no place is empty meanwhile (Thumbnail.js); the
\* array of files is sorted and its search right (sorted-array.js); the file of tasks
\* follows the lists (manager.js); a disk is refused if something needed lies on it
\* (storage.js); the process ends by what is known to end it only (App.js, Pipe.js,
\* Transform.js); tags, users and drives are told apart, and who is listed a drive may use
\* it (Tag.js, User.js, Drive.js).
ServicesInv ==
  /\ part = "uploads" => Uploads!TypeOK
  /\ part = "streams" => Streams!TypeOK
  /\ part = "shares" => Shares!TypeOK
  /\ part = "native" => Native!TypeOK
  /\ part = "torrents" => Torrents!TypeOK /\ Torrents!CacheFollows
  /\ part = "thumbs" => Thumbs!TypeOK /\ Thumbs!WaitsOnce
  /\ part = "archive" => Archive!TypeOK
  /\ part = "pages" => Pages!SearchFinds
  /\ part = "disks" => Disks!TypeOK /\ Disks!RefusesRightly
  /\ part = "requests" => Asks!TypeOK /\ Asks!Survives
  /\ part = "batches" => Sinks!TypeOK
  /\ part = "tags" => Tagging!TypeOK /\ Tagging!Tidy
  /\ part = "people" => People!TypeOK /\ People!ListsAgree /\ People!Distinct
  /\ part = "media" => Media!TypeOK
  /\ part = "nights" => Nights!TypeOK

\* Who is told that it is done is told once, when it is, and finds it done: an upload form
\* (IncomingForm.js), the stream of a file (hash-stream.js), a call on a USB volume
\* (NFS.js), but for a file that a form opens which had found none, a thumbnail
\* (Thumbnail.js), a version in a backup, but for one that a listing wrote as it had
\* been (file-attr.js), a query page by page (VFS.js), a request from the cloud or by
\* HTTP (App.js), a batch entry by entry (xsink.js, xremove.js), a tag (Tag.js).
DoneIsDone ==
  /\ part = "uploads" => Uploads!AnswerIsLast
  /\ part = "streams" => Streams!ToldOnce /\ Streams!OkIsWhole
  /\ part = "native" => Native!DoneIsWhole
  /\ part = "thumbs" => Thumbs!PathIsThere
  /\ part = "archive" => Archive!ToldIsTrue
  /\ part = "pages" => Pages!PagesPartition
  /\ part = "requests" => Asks!TrueAnswers
  /\ part = "batches" => Sinks!OneByOne
  /\ part = "tags" => Tagging!ToldTags

\* What follows another follows it: jobs on one name of a form the one before it
\* (IncomingForm.js), smbd the users, drives and volumes,
\* but for users whom a command failed on (samba.js), the attributes of a
\* backup's file its data (file-attr.js), mkfs the probe of what is needed (storage.js), the
\* writelists the first user (Drive.js), minidlna its state machine (dlna.js), fans and
\* light the hours of sleep (Device.js).
InStep ==
  /\ part = "uploads" => Uploads!InOrder
  /\ part = "shares" => Shares!IdleIsServed /\ Shares!StoppedIsDown
  /\ part = "archive" => Archive!AttrsHaveData
  /\ part = "disks" => Disks!SparesTheNeeded
  /\ part = "people" => People!FirstIsIn
  /\ part = "media" => Media!UpWhenWorking
  /\ part = "nights" => Nights!AsleepBetween

\* A call on a name of a USB volume that nothing disturbs does what its policy says (NFS.js);
\* an API acts for a user who is active (App.js); a batch that was deleted begins nothing
\* more (Task.js).
AsTold == [][/\ part = "native" => Native!AsTold
             /\ part = "requests" => Asks!ForActive
             /\ part = "batches" => Sinks!DeletedIsOver]_vars

\* A version of a file in a backup changes and goes by calls that name it alone, or as one
\* that changed since a listing read it, in the step in which that writes; and a directory
\* that has entries keeps its uuid but where its deletion gives back the one it had
\* (file-attr.js); tags stay in their file, and
\* what is deleted, a tag, a user or a drive, does not come back (Tag.js, User.js, Drive.js).
VersionsStay == [][/\ part = "archive" => Archive!VersionsStay /\ Archive!FullKeepsUuid
                   /\ part = "tags" => Tagging!Kept
                   /\ part = "people" => People!DeletedStays]_vars

\* Who asks is answered, samba comes to rest, mkfs and batches end; unless the process ends,
\* a connection is lost, a job waits for the one that failed first, a copy stays.
ServicesAnswer ==
  \/ part = "uploads" /\ reply = "dir"
  \/ part = "streams" /\ source.end # "no"
  \/ part = "shares" /\ (svc.sub \notin {"none", "idle"} \/ \E c \in {1, 2} : call[c].answer = "waiting")
  \/ part = "native" /\ 1 \in Native!Active
  \/ part = "torrents" /\ call[1].pc # "idle"
  \/ part = "thumbs" /\ client[1].pc # "idle"
  \/ part = "archive" /\ task[1].pc # "idle"
  \/ part = "disks" /\ v4.pc # "idle"
  \/ part = "requests" /\ v4[1].pc # "idle"
  \/ part = "batches" /\ task[1].type # "none"
  \/ part \in {"tags", "people"} /\ call[1].pc = "waiting"
  \/ part = "media" /\ call[1] # "idle"
  ~>
  \/ part = "uploads" /\ (Uploads!Over \/ dicer.end = "lost" \/ Uploads!Stuck)
  \/ part = "streams" /\ Streams!Answered
  \/ part = "shares" /\ svc.sub \in {"none", "idle"} /\ \A c \in {1, 2} : call[c].answer # "waiting"
  \/ part = "native" /\ (1 \notin Native!Active \/ down)
  \/ part = "torrents" /\ call[1].pc = "done"
  \/ part = "thumbs" /\ client[1].pc = "done"
  \/ part = "archive" /\ task[1].pc = "done"
  \/ part = "disks" /\ v4.pc = "done"
  \/ part = "requests" /\ Asks!Answered(1)
  \/ part = "batches" /\ Sinks!Ended(1)
  \/ part \in {"tags", "people"} /\ call[1].pc = "done"
  \/ part = "media" /\ Media!Told(1)

\* "Go to failed or executing when job finished" (IncomingForm.js 369): a form whose
\* connection is not lost is answered, although a job waits for the one that failed first.
PendingFollows == (part = "uploads" /\ reply = "dir") ~> (part = "uploads" /\ (Uploads!Over \/ dicer.end = "lost"))

\* "When fewer results are returned than the client asked for, the query is complete"
\* (docs/station.apib 2065): nothing that was there all the time is missing then.
ShortIsComplete == part = "pages" => Pages!ShortIsComplete
===============================================================================
