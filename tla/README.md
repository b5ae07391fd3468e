# winas: TLA+ models, checks and proofs

winas is the software of a home storage box: a Node.js service that keeps the
users' files on a btrfs volume, with an index of them in memory, and that is
driven by HTTP calls of clients on the local network and by messages from a
daemon that talks to the cloud.  Paths below are relative to `src/src/` unless
they begin with `docs/`.

## 1. Inventory

| Component | State | Operations | Talks to | Hard |
|---|---|---|---|---|
| **Boot** `system/Boot.js`, `diskmon.js`, `storage.js` | the state object (Probing .. Adding), `volumeStore`, `preset`, `boundUser`, the last probe, `jobs` and `workingJobs`; on disk the btrfs volumes and `users.json` | probe, bind a user, init, import, repair, add, remove; a job at every entry of Started; mkfs of disks | daemon (messages), DataStore (chassis files), Fruitmix (start), btrfs commands, udev | chains of awaited commands overlap each other, disks go, the process dies between two commands |
| **DataStore** `lib/DataStore.js` | state, queue of requests, the value, the file | save (object or function), destroy, load | User, Drive, Device, Tag, Boot | rename before its callback, destroy during a save, crash, events one tick late |
| **User** `fruitmix/User.js` | users, cloud poll state | create, patch, delete, bind the first user, users from the cloud | DataStore, Drive, Boot | rules over all users checked inside save, in-place changes |
| **Drive** `fruitmix/Drive.js` | private, public and built-in drives | create, patch, delete, homes of new users, who may use one | DataStore, User, VFS | follows User by events |
| **VFS** `fruitmix/VFS.js`, `vfs/underlying.js`, `lib/xstat.js` | roots by drive; a file's attribute | directory and file operations, tags, queries | Forest, file system, Drive | check then act on a shared file system |
| **Forest** `vfs/forest.js`, `directory.js`, `readdir.js`, `node.js` | the tree of Directory objects, each with a state and callbacks | read, update from a listing, destroy, limits on first reads | VFS, file system, Thumbnail, media | listings race changes, moves are seen in either order |
| **File index** `vfs/file.js`, `lib/xfingerprint.js` | Hashless, Hashing, Hashed, HashFailed; files by uuid and hash | fingerprint, rename, destroy | Forest, worker processes | late results of a changed file |
| **Copy and move** `xcopy/*`, `Task.js` | the tree of a task: node states, policies, step, watch | create, update a policy, step, watch, delete; batches that sink or remove | VFS, NFS | many calls under way, conflicts settled by a client meanwhile |
| **NFS** `fruitmix/NFS.js`, `nfs/PartStream.js` | mounted volumes | file operations by path, forms part by part | file system | disks go, a form breaks off |
| **Uploads** `apis/IncomingForm.js`, `lib/hash-stream.js` | the jobs of a form; a stream with its file and its hash | parse, pipe, execute | VFS | jobs on one name wait for each other; ends in any order |
| **Backup** `fruitmix/backup/*` | versions in attribute files, a whiteout | append, update, delete, archive, list | file system | read before the lock, write under it |
| **Thumbnail** | queue of conversions | request, schedule, cancel | media, ImageMagick, ffmpeg | merged requests, limits |
| **Samba, DLNA** `samba/*` | refresh state, timer | refresh, start, stop | User, Drive, external servers | refresh while refreshing |
| **Transmission** `transmission/*` | tasks, move queue, cache file | add, query, move, finish | external daemon, VFS | crash between move and record |
| **Tag** `tags/Tag.js` | one store | create, patch, delete | DataStore | a mark in memory before its write |
| **Device** `fruitmix/Device.js` | the hours of sleep, a timer | patch, each minute a look at the clock | DataStore, fan and light programs | hours over midnight |
| **App, Pipe, Transform, Auth** `app/*`, `middleware/*` | open responses | map HTTP calls and messages of the cloud to API objects and back | all of the above | what was checked is stale when the call is made; exceptions |
| Box, webtorrent, system services, media libraries | see PROJECT.json | | | not reached, external or pure conversion |

Everything runs in one Node.js process: code between two awaits is atomic, and
what makes the system hard is the order in which callbacks, timers, events and
clients' calls come between the awaits, and what the disk holds when the process
dies.  The models take one action per such stretch of code.

What makes each component correct:

- DataStore: an acknowledged change is on disk and stays there; memory is never
  ahead of the file; a refused change leaves no trace; everybody is answered.
- Boot: data is served to its owner only; a volume is bound only when it has an
  admin; the record of the volume's devices is right when the machine rests;
  calls are answered; a machine that can start does; mkfs spares what the system needs.
- Forest and file index: what the index holds is on disk unless a read is due; it
  becomes equal to the disk when the calls stop; answers are not older than the
  question; a hash is that of the content it is recorded for.
- Copy and move: no file is lost; a finished task has treated every entry; a
  conflict is shown only while it is open; tasks end and limits are kept.
- User, Drive, Tag: one admin, at most ten active users; each active user has one
  home; a deleted user is in no write list; refused changes have no effect, and
  what was deleted stays so.
- Names, on the volume and on USB: one name is given to one file; nobody's file is
  replaced without a policy that says so.
- Whatever is asked for from outside: who is told it is done finds it done, is told
  once, and everybody is told.

The hazards (PROJECT.json, `hazards`) are these concerns at the lines where they
bite, with the properties that cover them; section 4 has those that no property covers.

## 2. Modules

| Module | Stands for | State | Actions |
|---|---|---|---|
| `AtomicStore` | what DataStore promises: a durable value, a line of requests | value, line, answers | Accept, Commit, Ack, Fail, Close, Lose |
| `DataStore` | `lib/DataStore.js` | the State class and its system call, queue, job, staged and current value, nextTick queue, file, what callers were told | Save, Destroy, the completions of mkdir/rimraf, read, write, rename, the nextTick callbacks, Crash, Restart |
| `DataStoreProofs` | theorems about DataStore | | |
| `XCopyProofs`, `BootProofs`, `UserDriveProofs`, `ForestProofs` | theorems about these modules | | |
| `FilesProofs` | theorems about FileParts: NameOps (extended), FileIndex and Xstat (instantiated), and the three together | | |
| `DriveProofs` | theorems about NativeFs, Backup, Storage and Thumbnail, each instantiated | | |
| `ServicesProofs` | theorems about Tags, Samba, Members, Sleep, Dlna, HashStream, Requests, UploadForm and Transmission, each instantiated | | |
| `XCopy` | `xcopy/xcopy.js, xdir.js, xfile.js, xnode.js`, the call sites in VFS | node states, the call each node waits for and the policy in its closure, policies, source and target | the completions of each call, Sched, Step, Watch, Update, Destroy |
| `Batch` | `Task.js`, `xcopy/xsink.js, xremove.js` | the tasks, the entry each is at, the copy under way | Post, Patch, Delete; a copy that is Over or Stays |
| `Forest` | `vfs/*` directories and the VFS calls that read | the directories on disk, the Directory objects, the callers | the three system calls of a read, of a read or of an entry, timers, the scheduler, List, MakeDir, RemoveDir, RemoveTree, Rename, Move, DeleteRoot |
| `FileIndex` | `vfs/file.js`, files of `forest.js` and `directory.js`, `lib/xfingerprint.js` | files on disk, File objects and their states, listings under way | the listing and its use, results of workers, retries; Write, Move, Unlink on disk |
| `NameOps` | `vfs/underlying.js`, the calls of VFS that put a name | names of a directory, the calls, the flag of rename() | Ask, each system call of each policy's loop, Fault |
| `Xstat` | `lib/xstat.js` and who writes attributes | one path's file, its attribute, each process's place | Begin, each await of read, hash, tag and append; Write, Replace by others |
| `Query` | QUERY of VFS, `iterate()`, `sorted-array.js` | the tree or the sorted files, pages so far | Ask, Walk, Resolve; Lose, Unindex, InsertFile, RemoveFile between |
| `UploadForm` | `apis/IncomingForm.js`, `dir-entry.js` | the parser, the party of jobs, its events | POSTFORM, parts, job states, Truncated, FormError |
| `HashStream` | `lib/hash-stream.js` | source, writer, hasher, file, owner | Open, ends and errors of each, Destroy |
| `NativeFs` | `NFS.js`, `nfs/PartStream.js` | mounts, names, each call's place | Ask, each system call, parts of a form, BreaksOff, Update of the mounts |
| `Backup` | `fruitmix/backup/file-attr.js` and callers | data, attribute file, whiteout, directory, lock queue | Asks, each stretch under the lock, Fill and Repair of a listing, Crash |
| `Transmission` | `transmission/*` | the daemon's torrents, lists, file, lock, observer | New, Start, Post, Get, Query, Timer, moves, writes, Crash, Throws |
| `Thumbnail` | `Thumbnail.js`, `apis/media.js` | clients, queue, conversions, cache | Get, Media, starts and ends of conversions, Close |
| `Samba`, `Dlna` | `samba/samba.js`, `samba/dlna.js` | the state machine, what it has written, the servers | Changed or Update, timers, commands, Start and Stop |
| `Storage` | probe and mkfs of `system/storage.js` | blocks, mounts, swaps, one format | Ask, one per command, OtherMounts, SwapOn |
| `Requests` | `app/App.js, Pipe.js, Transform.js`, `middleware/Auth.js` | a request on its way, the fetch of its body, the user | HandleMessage, Http, checks, fetch, call, answer; UserUpdate, Unbind |
| `Tags` | `tags/Tag.js` | the array in memory and on disk, the queue of saves | Ask (POST, PATCH, DELETE), load, save, WriteFails, Crash |
| `Members` | `User.js`, `Drive.js` where the API changes users | users, drives, calls waiting for their save | Ask, the saves, WriteFails |
| `UserDrive` | `fruitmix/User.js, Drive.js`, `VFS.handleUserDriveUpdate` | the two stores and their queues, the files, roots, directories, the poll, what the cloud knows | load, save and failure of each store; bind, delete, list, create and delete a backup drive; cloud changes, messages, timers, answers; crash |
| `Boot` | `system/Boot.js` and its helpers | disks, chassis files, stores, state, jobs and chains of commands, the calls | one per command or awaited step of each chain, messages, crash, disks |
| `Sleep` | sleep mode of `Device.js` | what is stored, what runs, the clock | UpdateSleepMode, SleepModeTimer, Minute, Load, Crash |
| `MCDataStore`, `MCXCopy`, `MCForest`, `MCBoot`, `MCUserDrive` | instances of one module each for TLC | | |
| `MCLive` | XCopy and Forest (as `Drive`) under fairness | | |
| `FileParts` | NameOps (extended), Xstat, FileIndex, side by side for any constants; their joint properties | that of the three, `part` | theirs |
| `MCFiles` | FileParts for TLC | | |
| `MCServices` | the fifteen modules about the services; the assumptions on the inputs of Tags, Members, Sleep, HashStream, NativeFs, Storage and Thumbnail | | |

`MCLive`, `FileParts` and `MCServices` join several components in one run: `part`, chosen
in Init, says which of them a behaviour is about, and the variables of the others
stay as they are.  They are not compositions: the parts touch different state of the
process.  What one component takes of another is named in the header of its module:
that DataStore is atomic (`Implements`) by UserDrive, Members, Tags, Boot and Sleep; that a
directory is read as Forest says by FileIndex; that a copy ends or stays by Batch.

`PROJECT.json` maps every definition to the lines it stands for.

**DataStore.** A value is the set of requests whose effect it contains, so that
losing one shows.  `control` is the point inside a synchronous stretch where user
code may run (a callback during a save) and `ticks` the nextTick queue, which
drains before any completion.  A rename takes effect in `Renamed` and is reported
later, in `SaveDone`: a destroy or a crash may come between.  Two facts of the code are
kept as they are: a destroy while loading throws (line 89 names a field that does
not exist), and a second destroy without a callback throws.  `Abstract`
instantiates AtomicStore with a refinement mapping: the line of the atomic store is
the job under way followed by the queue, and `late` is the request that a destroy
interrupted, whose rename may still land.

**XCopy.** One task over a tree of nodes, of which all that is assumed is that each is
below the root (`TreeAssumption`; `Ancestors` are what every set closed upwards has).  The
policy used by a call is kept
in `used`, so that an answer given under an old policy meets the newer one the
client set.  The cascade by which the last child's end finishes its ancestors is
one action (`End` with `Closing`), as in the code, where it is a chain of synchronous
listeners.  The file operations under the task are one step each (`Resolve`).

**Forest.** A directory is its uuid.  The index (`node`) and the disk are separate
trees; a read is three system calls (`stat`, `list`, `again`) by the path the index
held when it began.  An API call changes the disk, then asks to read up to
two directories, waiting for each; REMOVE reads nothing.  `faults` counts what may still go wrong: a
read that fails, entries that cannot be read and are left out of a listing that is recorded all the
same (readdir.js 43), a change within the millisecond of the one before, which leaves the mtime as it was
(directory.js 158).  For the last two the code has no remedy until the directory changes again.
`missed` holds for each directory the children that its index may be wrong about for such a reason, and
only these are excepted from what is said of it; `skipped` the same of the listing under way.

**FileIndex, Xstat.** A hash is kept as the content it is the hash of (in FileIndex as file
and version), so that a wrong one shows.  In Xstat a content is the sequence of writes
that made it.  A version is a time, so that what was written later has a greater one.  `stale`
says of a process in Xstat that the attribute has changed since it read it, `past` that the file itself
is another one: what it then writes is the lost update the code allows, and only such a step is excepted.

**NameOps, NativeFs.** The same calls on two kinds of drives.  NameOps puts a whole
temporary file by link or rename; NativeFs opens the name and writes there, so that
half a file shows, and a form that opens what came meanwhile empties it: `wrote` says which file a
stream writes, `lost` whose file is no longer whole, `raced` to whom that happened in this way.  `alone` says whether a call was undisturbed, `began` what it found.

**UploadForm, HashStream.** Two levels of one upload: the form sees of a job its states
and the event that is one tick late; the stream sees its three ends (source, writer,
forked hasher) in any order.

**Boot.** Each operation is a chain in `work`, at a `step`; several chains may be
under way, because the code does not stop the jobs of Started when it leaves that
state.  Volume identities are not reused.  A btrfs command and its balances are one
step, which allows more orders than btrfs does.  `saves` is the queue of
volumeStore.  Storage is the level below: the commands of one probe and one mkfs.

**UserDrive, Members.** The two worlds of User.js: for the products winas and ws215i
(IS_WISNUC) users come from the cloud; elsewhere they are made by the API.  In UserDrive a
user is its `winasUserId`, a drive a number; what is kept of a user is
its status, of a drive its kind, its owner and whether it is deleted.  The functions
a store was given run when their turn comes, against the value of that moment (`Serve`),
and the function of a cloud update changes the user objects in place, so that memory is
ahead of the file when the result is refused (`stained`).  A directory that cannot be made or removed when
VFS follows is logged and left (VFS.js 194, 216) until the next Update: `stuck` has these drives, and
only they are excepted.  An Update event reaches Drive
and VFS in one step with the save, as DataStore's `ObserverSeesCurrent` allows.  Members
has the names, labels and writelists, and calls that are checked at one time and saved at
another; LIST saves, too, a home and the built-in drive where they are missing, and where they are not it is
answered without a write (`Unchanged`).

**Samba.** The changes of users and drives are numbered, and a user's password in the database is the number of
the change it was imported at.  A user whom deluser, adduser or pdbedit fails on is logged only
(samba.js 97-101, 112-118, 142-146): the refresh goes on without, or with, him and counts as done.  `dropped`
has these users, and only they are excepted of a service at rest; the rest of a refresh that fails, fails.

**Requests.** One request, by HTTP or as a message of the cloud, to a table of API
objects reduced to how they call back: later, with an error, with a string, twice, not at
all, or by throwing.  What it passes on the way (the token, the user, the form that is
fetched) is one step each, and the user may be deleted in between.

## 3. Runs

| Run | Checks | Bounds |
|---|---|---|
| store | `Inv` (types; `Phases`: one place per request, one system call; `Coherent`), `ObserverSeesCurrent`, `AddsSurvive`, `AckedOnDisk`, `Implements`; `Answered` | two adds, a put and a retrieve, a destroy with and one without callback, one crash, no file or a damaged one |
| xcopy_safe | `TreeInv` (types, `TreeShape`, `NoTickWhenStopped`), `FinishedIsComplete`, `FileConflictIsOpen`, `NothingLost`, `LimitsKept` | root with a file and a directory that holds a file and a directory; copy, move, copy-and-remove, stepped copy; nine patterns of clashes; limits of 1; every update at any time |
| live | `Settles`, `WatchAnswered` of one copy; `CallsAnswered`, `ComesToRest` of one drive | one mode, two conflicts; two nested directories, one name, two calls, one read error |
| forest_safe | `IndexInv` (`CallsInv`: types, the tree, who waits where and since when; `Seen`, `CacheIsSound`, `CacheIsComplete`), `AgreesAtRest`, `AnswerIsFresh` | three directories, two names, two calls of any kind, the drive removed; where both directories are there at the start one failing read, failing entry or change that keeps its mtime |
| forest_raced | **violated**: `ReadIsEnough` | the same, no error |
| boot | `BootInv` (types, `BoundHasAdmin`), `ServesOwner`, `RecordIsActual`, `RequestsAnswered`, `InitBoots` | eight machines (blank, one or two disks, a replaced disk, an old volume, a waiting preset, both products), two disk slots, two users, two calls, two messages, one crash, failure or change of a disk |
| boot_pending | **violated**: `PendingLeaves` | one machine without trouble |
| users | `UserDriveInv` (types, `OneHome`, and what holds at rest), `ActiveLimit`, `DeletedIsCleaned`, `RootsServeLive`; `CloudStored` | the owner, an active and a disabled user, at most two active, four drives, three events from outside in all: of two changes at the cloud, two calls on drives, a deletion, a second bind, a crash, a failing save, a failing directory, a failing request, the timer of Idle |
| files | `FilesInv`, `HashTrue`, `AsOneStep`, `ReplacesAsTold`, `MarksStay`, `FilesSettle` | two calls of any of thirteen kinds on a name that is free, a file, a directory or a socket, a failure; two processes on one attribute, two writes; two files in two directories, two changes, one worker |
| services | `ServicesInv`, `DoneIsDone`, `InStep`, `AsTold`, `VersionsStay`, `ServicesAnswer` | see below |
| form_pending | **violated**: `PendingFollows` | the same instances |
| query_pages | **violated**: `ShortIsComplete` | the same instances |

The parts of `services`: a form of two or three parts of which the later use the name of the
first; a stream of up to four units for a file of two, with two failures; samba with two
users, two calls, two changes and a failure; two calls of any kind on a USB volume with one failure;
two torrents, two calls, a failure and a crash; three requests for thumbnails of a video, a
heic and an image with two places; three calls of a backup, a failure and a crash; trees of
two levels and four files by time, by pages of one or two, with one change between pages;
disks that are a file system, a volume, swap or partitions of these, with one failure or
another's mount; one request of each kind; two batches; three calls on two users' tags, with
a failure and a crash; three calls on two or three users and one to three drives, with or without a built-in one (two
that were POSTed and three users who are active are the limits); minidlna with three calls; a day of
four minutes.  The properties of these parts are conjunctions by part: each is defined
in its component's module, and what `MCServices` joins is one question (who is told that it is
done finds it done; what follows another follows it; who asks is answered) asked of all.

Why the bounds are enough.  DataStore serves one request at a time, so that two requests
in the queue behind one under way show every order; a second crash starts from a file
that some other run starts from.  In XCopy the shapes that matter are a directory with
children of both kinds, a nested directory and an empty one, and a limit that is
reached: the tree and limits of 1 have them.  In Forest a race takes two directories and
a third that moves between them.  In Boot the interesting pairs are two chains at once,
a chain and a message, a chain and a crash; a second trouble (`MaxTroubles = 2`, 1.8
million states, safety only) was checked and adds nothing, which is why the run keeps
one and has room for liveness.  In UserDrive three events are enough because the cloud
begins with an active and a disabled user: one change exceeds the limit, a call and a
change make and delete a user with a home, and one event is left to disturb that; four
events (1.4 million states, safety only) were checked.  The kind "throw" of DataStore is
answered where "same" is; the proofs cover it, the run has room for one of the two.
In NameOps and NativeFs a race is between two calls on one name, and four names are
enough for two calls that both rename.  A job of a form waits for one that waits for
another: three parts.  A backup needs three calls for a version, what changes it and a
third that finds it changed; tags, users and drives need three for a save under way, one
in the queue and one checked meanwhile.  A third thumbnail waits where two convert.

Deadlock is not checked: each of these processes may come to rest, and that it
does so only where it should is what the liveness properties say.

**Fairness.** Weak fairness of completions of system calls and commands, of timers and
nextTick callbacks, and of the schedulers they trigger: Node.js delivers all of them.
In FileParts and MCServices one condition, `Proceed`, says so of all completions at once: each
of the parts does finitely much by itself, so that it is enough that something goes
on.  The observer of transmission is the exception, which asks the daemon again and again,
and has a condition of its own.  A source of a stream ends, a form is sent or broken
off.  Fruitmix is assumed to start only when its volume is whole.  In UserDrive the timer of
Pending, 200 ms to a minute, is counted on, the three hours of Idle are not.  Nothing is
assumed of clients (who need not set a policy, step or ask), of the daemon, of crashes,
or of disks.  Symmetry, of the two calls, is used in the two runs of Forest alone, which check no
liveness.

Every property of a passing run has a mutant, a definition changed as a plausible
bug would change it (in the modules these stand before the definition they change,
marked `Mutant`), under which TLC finds the property violated; a property that
joins parts has one for several of its parts.

## 4. Where the code and its documents disagree

Shown by runs:

- **boot_pending**: `Pending` defines `volumeUpdated` and `presetUpdated`, the
  stores call `boundVolumeUpdated` and `presetLoaded` (Boot.js 205, 979, 990).  A
  machine told its user before its stores have loaded stays in Pending;
  docs/station.apib:476 says it goes on.
- **forest_raced**: a directory moved between two indexed directories and seen at its
  target first is left out, and the read meant to fetch it is skipped since the mtime was
  recorded (directory.js 163, readdir.js 16).
- **form_pending**: at the first failure of a form the jobs are told without saying whose it
  is, and a job that waits for it waits for ever, with the client (IncomingForm.js 640).
- **query_pages**: a page that ended below the first level is followed by one that goes on with
  the files there and leaves out the directories behind (directory.js 541); a short page is
  then not the last, as docs/station.apib:2065 says it is.

Seen while modelling and kept in the models as the code has them, without a run:

- *Copies.* VFS.DIR may answer synchronously (VFS.js 391), contrary to its comment; XFile
  then overwrites Failed with Working and keeps its slot for ever.  The callback of a
  source removal acts on a destroyed node (xfile.js 110).  A retried call that fails
  synchronously destroys the node inside updatePolicy (xcopy.js 352).  A batch leaves
  directories in conflict under the policy it was called with (xdir.js 359).
- *Batches.* XSink never emits 'finish', so that autoClean has no effect; an XRemove that is
  over within its constructor is never cleaned; PATCH step or watch of a missing task, or of a
  batch, throws; XSink.updateNode throws `new ('…')`.
- *Index.* An entry that readXstat fails on is taken to be gone, and as the mtime is recorded no later read
  brings it back (readdir.js 43); REMOVE leaves the index as it was (VFS.js 513), and so does a change within a
  millisecond of the last (directory.js 158): these three are what `missed` of Forest excepts.  A rename gives the descendants the name `undefined` (directory.js 396), and the
  next read of one throws.  Four renames within a read bring the same directory back
  unnoticed (readdir.js 47).  destroy() of a fingerprint never sets `destroyed`.  A fingerprint looks at the time
  before and at the uuid behind the digest (xfingerprint.js 83-95): a file that was away
  while another stood at its path and was digested, and is back in time, gets the hash of
  the other, by four moves (`NoReturn` of FileIndex excepts it).  The task
  queue of a directory (directory.js 561-908) is never used.
- *Attributes.* updateFileTags() and updateFileHash() read and write with several awaits between and
  without the lock: of two that overlap, the first one's tags are lost; APPEND gives the file a new
  attribute without its tags (VFS.js 612).  MarksStay excepts the steps that do so and no others.
- *Queries.* 'newest' gives a file again when the last of the page before is gone; `starte`
  without a uuid means the greatest where the document says the least; `tags.include` is
  misspelt; SETTAGS refuses the empty array its comment accepts (VFS.js 726).  media.js
  passes `modifiers`, parseQuery reads `modifier`.
- *Boot.* An `add` accepted while the update job of Started works can leave a stale record of
  devices (hence the exception in `RecordIsActual`; Boot.js 328), and that job can go on under
  Initializing, which a comment calls exclusive (Boot.js 605); import compares with a field
  nothing sets (Boot.js 741) and so accepts only volumes that are then refused; a bound user
  told during Starting is not handed on (Boot.js 1059).
- *Storage.* A volume with two devices of which one is a partition is unmounted twice, which
  fails; swaps are probed before mounts; a file system mounted twice stays mounted.
- *Users and drives.* LIST adds the built-in drive without looking at the limit of public drives (Drive.js
  99-139): where three were POSTed before anybody listed there are four.  `Few` of Members says what is left of the
  limit: a drive that was POSTed is among the first three.  In winas the owner can delete any user, itself too (a blank in the name
  of the product, User.js 576; docs/station.apib:1240 says that nobody changes its status); a
  user deleted here comes back with the next answer of the cloud (which `CloudStored`
  excepts); one that comes back finds its deleted home (Drive.js 101) and never gets another;
  a cloud answer before the owner is in the store throws in a callback (User.js 125), which
  ends the process.  Elsewhere a POST looks at the first user of a name only: after its
  holder was deleted two live users can share it (docs/station.apib:1241); a password change
  by a message is not answered; a drive's own label is refused to itself; writelists may name
  deleted users.
- *Tags.* Two concurrent POSTs of a name both pass; DELETE marks in memory before a write that
  may fail; PATCH refuses a tag its own name, and may change a deleted one; a POST without a
  name is answered twice.
- *Backup.* The listing writes attributes it read before the lock, and with them whatever changed since as it
  was; `VersionsStay` and `ToldIsTrue` except these versions, in that step, and no others.  mkdir of a directory with a
  boolean `archived` throws under the lock, which ends the process; mkdir over an empty
  directory gives it a new uuid; renaming a version has no effect; a crash between emptying a
  directory and marking it deleted brings it back unmarked.
- *USB volumes.* A part of a form that finds nothing at its name opens it later for writing
  (PartStream.js 223): a file that came in between, done or not, is emptied, and two streams write one file.
  `DoneIsWhole` excepts the callers to whom that happens.  A misspelt callback ends the process; errors of the stream of a NEWFILE are
  not heard; a form that broke off goes on with the part under way and the next that had
  come; a listing with usage before the volume is known throws.
- *Transmission.* PATCH is empty, so that pause, resume and destroy cannot be reached; a second
  user's POST of the same torrent fails; no copy succeeds (task.js 5), so that the first task
  to be downloaded blocks the queue; removal from the list takes the rest of it along;
  storage.json is written in place.  A failure at the start leaves every POST an error, and as Init
  tells of Working also when it fails (transStateMachine.js 81), the observer's first query throws without a
  client: with a file torn by a crash the process ends at every start.  POST does not look at the state
  (manager.js 63); the model takes the daemon to answer Init, which asked first, before a POST of that time,
  whose task would else be lost when the lists are replaced.
- *Thumbnails.* A video that is not larger than asked has no scale, and ffmpeg fails.
- *Messages and HTTP.* Before fruitmix is up a call is answered 401 or 403 where a comment
  says 503 (Transform.js 100, Pipe.js 103); on an n2 a form before it is up ends the
  process, and so does a failed fetch; a GET of a directory of another backup calls
  back with a string, told as a success by Transform, and ending the process by Pipe; Pipe's
  retry count has no effect; GET_BoundVolume never calls back if df prints other than two lines.
- *Samba, DLNA, Device.* A user on whom deluser, adduser or pdbedit fails is left out, or left in, and the
  refresh is taken for done (samba.js 112): nothing tries again until the next change.  A close while minidlna was started by the system, or during
  Initialize, is told done though minidlna is or gets up; a change during Initialize
  calls an undefined callback; a failed start is not answered.  A zero-width character in the
  name of a signal (Device.js 237) keeps the fans asleep when sleep is switched off; "1:05"
  and "01:05" count as different times.

Hazards that no property covers, because the behaviour is one of these facts or
lies below the models: DataStore.js 219 (no fsync before the rename), DataStore.js 207 (callback
before next()), xdir.js 359, VFS.js 391, xfile.js 110, xcopy.js 352, directory.js 396,
readdir.js 47, Boot.js 328, 741 and 1059.

## 5. What is proved

Each theorem holds for every value of the constants that its assumptions allow: any number
of requests, nodes, directories, users, disks, calls and failures.  The assumptions are the
named ones of the modules (`KindAssumption` ... `MaxCrashesAssumption` of DataStore,
`TreeAssumption` ... `PolicyAssumption` of XCopy, `RootAssumption`, `LimitAssumption` and
`TreesAssumption` of Forest, `NumbersAssumption`, `BoundsAssumption`, `UsersAssumption` and
`MachinesAssumption` of Boot, those of UserDrive, `InputsAssumption` of NameOps, `AttrsAssumption` and `IndexAssumption`
of FileParts), which TLC evaluates on every run of the
module; for Tags, Members, Sleep, HashStream, NativeFs, Storage, Thumbnail and FileIndex the hypothesis `Inputs`, which says what
calls and initial states are well formed and which MCServices and FileParts evaluate of the instances they
run.  Xstat by itself, Samba, Dlna, Requests, UploadForm, Transmission and Backup assume nothing.  No theorem limits how often anything fails or happens.

**DataStore** (`DataStoreProofs`): `Safety`, `AddsSurviveAlways`, `Acknowledgement`,
`ObserverAlways`, `Refinement`.  `Coherent` is what a reader cares for and is not inductive:
that the file equals `data` after a save needs to know that what is in the temporary file is
the effect of the request under way on the present value (`UnderWay`), that no second system
call or job is about (`OneAtATime`), that a request waits in one place only (`OnePlace`), and
that no Update event of an older value is pending when a rename lands (`Drained`).  These four
are `Phases`; with the types they make the invariant inductive, by one lemma for each group of
actions.  `AddsSurviveAlways` follows from one step lemma: a value that contains an
acknowledged addition is only replaced by an effect on itself.  `Refinement` states
`Spec => Implements`: every step of the store is a step of `AtomicStore` under the refinement
mapping, or a stutter.  The lemmas are one for each group of actions, about what becomes of
the line (the job under way and the queue) and of `late`.

**XCopy** (`XCopyProofs`): `Invariant`, and from it `TreeAlways`, `NothingLostEver`,
`FinishedHasAll`, `ConflictsAreOpen`; `LimitsEver`.  The inductive invariant `IInv` says of
every node which states its parent and children allow (`Shape`), and of source and target what each state has
made certain (`Placed`): nothing below a directory that was not read is seen, what left the
source is in the target, what came to the target unseen came with all that is below it.
The cascade `Closing` is handled by lemmas about which ancestors end with a node.

**Boot** (`BootProofs`): `Invariant` is `BootInv`, inductive as it stands (it was
strengthened until it was: `SavesWaitedFor`, `Aimed`, `Known` are parts of it for that reason).
`OwnerServed` is a step lemma on top.  `DevicesRecorded` needs `CalmInv`: without an
add the jobs and their chains are Started's, one at a time (`Confined`), a remove job
takes one device (`Removals`), and a calm machine's last probe is right, its chain works on the bound
volume, and what is recorded is what is there or a job or chain will record it (`Tracked`).

**UserDrive** (`UserDriveProofs`): `Invariant` is `UserDriveInv`, and `Limited`, `Removes`,
`Serves` are read off it.  The invariant says that serving the whole queue would make memory,
file, drives, roots and directories agree; to reason about a queue of any length, the proofs take the
least place at which a value got by serving it could go wrong, instead of induction over the queue.

**Forest** (`ForestProofs`): `CallsInOrder`: the directory objects form a tree (`Below` is
a recursive function over them), a caller waits at one directory, its time is not after what it
waits for.  `Fresh`: an answer was read after the question.  Both hold for any calls.
`CacheIsRight` is `Spec /\ Steady => []IndexInv`: what the index takes to be read is what is on
disk, child by child, but for the children in `missed`; with the assumption `Steady` on the
behaviour: while a read lists a path, no other directory takes that path and gives it back
before the last system call.  Four renames within one read do that, readdir.js 47 does not see it,
and the index then takes another directory's children for its own; two calls cannot do it
and the run does not need the assumption.  The heart of the proof is what a
listing read at some time says of the disk now (`Seen`), and that updateChildren() keeps that of all
directories at once while it moves and destroys subtrees.

**Xstat** (`FilesProofs`): `HashIsSound`, `OneUuid`, `TagsStay`.  The hash of an attribute is
right because what was written at each time can be remembered: `Remembered` says that there
is a function from the times to the contents with which every file, every attribute, and every
process agrees, also about times that will not come again (`Past`).  The uuid follows from the
lock (`Locked`) and from `OfFile`: whoever will write, and has not read the attribute of a file that was there
before, has the uuid of the file or finds it without; the tags from what each process has read since the last change
(`KeepsTags`).

**NameOps** (`FilesProofs`): `Types` includes that autoname() finds a free name whatever the
directory holds, by counting (`Numbered`); `Replaces` is an action property; `OneStep` says
that a call that nobody disturbed has done as a whole what its policy promises.  The directory at
the call's beginning is kept in `began`; `Undisturbed` says, for each place in the loops of link() and rename(), how
the directory of now comes from it, and what the call has seen of it.

**FileIndex** (`FilesProofs`): `IndexAgrees`, under the hypothesis `Inputs`, which FileParts
assumes and MCFiles evaluates.  What the indices have in common with the objects (`Ruled`) is kept by
destroy() and new File() one at a time, and so by updateChildren(), a recursive function over the
objects and then over what is new: instead of an induction, `UpdatedInduction` and `AddedInduction` take
the least place where a step would have left it.  Both lemmas are about objects whose records are in any
set that destroying does not leave, so that they are used twice, the second time for the records whose
hashes are true of the disk (`Sound`).  With it `HashesAreOwn` is
`Spec /\ NoReturn => []HashIsOwn`: a worker that is to record a hash has digested the file that stands
at the path, in the version it had or one that its time refuses (`SeenOf`).  `NoReturn` is an
assumption on the behaviour as `Steady` is in Forest: without it four moves make the property
false.  The run needs it only in larger instances than its own, where two names leave room to
move (checked once, safety only: two directories and two names with 2 changes, one directory and three names with 3).

**Tags, Samba, Members** (`ServicesProofs`): of Tags, `TagsAreTidy`, `TagsAreAsTold`,
`TagsAreKept`: memory is ahead of the file by deletions only (`Marked`), what is staged holds all that the
file holds and what its caller will be told.  Of Samba, `SharesAreServed` and `SharesAreDown`:
a refresh that no change has met has carried the last change as far as its place says (`Carried`), for all
users but those a command failed on.
Of Members, `MembersAreDistinct` (`Few`, at most one home of a user and one built-in drive, labels and names),
`FirstUserIsIn` and `DeletedMembersStay`: what is staged was made of
what is in memory, where only writelists may change meanwhile (`Listing`), and no queued cleaning
names a first user who is alive, since users that are deleted do not come back.

**Sleep, Dlna** (`ServicesProofs`): `SleepsInTime`: what is loaded is what is stored, and the
formula holds at every minute that was looked at; the rest is arithmetic modulo the length of a day, by cases over
midnight (`TimeSince`).  `MediaServes`: its formula is inductive once closing is counted from the
call on, not from its answer, and each close decides anew whether minidlna was its own; the steps that may leave Working are treated together (`Exits`).

**HashStream** (`ServicesProofs`): `StreamTellsOnce`, `StreamOkIsWhole`.  The invariant says of the three
classes together which of source, writer and hasher still have listeners, and that what the file holds is how far the
writer came (an empty file is whole at once, which is why a length of zero needs no write); who was told ok
had all three ends.

**Requests** (`ServicesProofs`): `RequestsTold`, `RequestsSurvive`, `RequestsForActive`.  Each request has told
what fits what was done (`TellsTrue`), and which places it may be at depends on the kind of station
and on what was checked on the way; a request that waits for a form has passed the check
of its user, so that a "winas" has fruitmix by then.

**UploadForm** (`ServicesProofs`): `JobsInOrder`, `FormAnswerIsLast`.  The count of Party is that of the jobs that
were not heard of (`CountsJobs`), and a job that was heard of has ended, one that failed with the error of
the party (`HeardOf`).  forEach() changes the jobs one by one, and a change may start a job but not undo an end: what
the whole loop does to a job is shown by looking at the least one for which it would not hold (`ForEachOf`).
Once `twice` is set nothing is said of the count.

**Transmission** (`ServicesProofs`): `TasksAreTyped`, `FileFollowsTasks`.  The file is that of the lists, or a write
is under way: the last one holds the lists as they are unless another is wanted already (`TasksWritten`), and
every change of lists and tasks is followed by a call of the lock.  Before Working there are at most calls that wait for the daemon.  What a call has read of it is
one of two generations, and its observer forgets neither (`TasksSeen`); syncList() adds the torrents one at a time, and each
of these is a change of its own.

**NativeFs** (`DriveProofs`): `NativeDoneIsWhole`: a call is told so when its stream has
written all (`Wrote`), of a form part by part (`Parting`); a file is that of the stream that made it, and who
shares it with a stream that writes was noted when the second opened it (`ApartInv`).  `NativeAsTold`: `AloneInv` says for each place of a call's loop how the directory
of now comes from the one an undisturbed call began with.  That a free name is always found is by
counting (`Counting`): each call puts at most one thing under the name behind the last.

**Backup** (`DriveProofs`): `AttributesHaveData`, `BackupToldIsTrue`, `BackupVersionsStay`,
`BackupKeepsUuid`.  Between two of its steps a call holds the lock of what it changes (`HoldsLock`), so that
what it read is still so (`ReadTrue`), and what it did stays (`DidTrue`); every version is that of a call that
ended.  A listing reads before it has the lock: `stale` records the versions that it wrote as they had been.

**Storage** (`DriveProofs`): `NeededIsRefused`, `NeededIsSpared`.  A disk is refused by what the first mount of its
volume is, the root by where it is mounted: they agree because blocks and mounts are well formed
(`WellFormed`), the root first, a file system at its own place, a volume at one for all its devices.  In between,
`DisksInv` says that the target was not needed at the second probe (`Probed`), that what is still to be unmounted is
not the root (`Spared`), and that each of its places holds one mount and what is mounted of the target lies at one of
these (`Covered`), but for what is mounted twice and volumes that are shared; others may mount and swap on meanwhile.

**Thumbnail** (`DriveProofs`): `ThumbsAreThere`.  The queue holds one job on a key, the running ones as many as there
are places if any waits (`Queue`, `Full`), whatever order sort() leaves; a job's callbacks are those of requests that
wait for its key, and all of these (`ClientsWait`), so that each is answered once.  A video is at its name from the
rename on (`Running`), and nothing leaves the cache (`Served`).

**FileParts** (`FilesProofs`): `FilesAreIndexed`, `HashesAreTrue` and `MarksAreKept` are the properties of the
run `files` for any constants: the invariants of the three parts hold side by side (`PartsInv`), with
the bound of the files of Xstat, for which `AttrsAssumption` leaves room for one.

Every other theorem is about one module.  The run `services` checks the formulas about
the modules of `ServicesProofs` and `DriveProofs` as conjuncts `part = "..." => ...` of its own properties.

**Only model-checked**, and why:

- *Liveness* (`Answered`, `Settles`, `WatchAnswered`, `CallsAnswered`, `ComesToRest`,
  `RequestsAnswered`, `InitBoots`, `CloudStored`, `FilesSettle`, `ServicesAnswer`): fairness and
  ENABLED are out of the prover's reach.
- `AgreesAtRest`, that the index is the disk at rest, is true of two calls only: a third can
  make a directory in b while b's grandparent is renamed away and back; b's read fails by its path,
  the caller is told so, the grandparent's read finds nothing changed, and b stays stale though no
  move was seen at its target first.  It stays a property of the instance.
- Batch and Query use recursive operators, out of the prover's reach.
- The composed properties of MCServices: their parts are proved one by one.


## 6. Not modelled

PROJECT.json lists every component with its reason.  Code that nothing requires is left
alone: the box, webtorrent, `lib/thumbnail.js`, `lib/thumbnail2.js`, `lib/upload.js`,
`xcopy/xtree.js`.  Within the modelled components: power failures (the code never calls fsync:
what survives them is the file system's business), media maps and the audit of samba in
Forest, byte streams in XCopy, modes and RAID levels, uninstall, eject and the product n2 in
Boot, and unbinding a bound machine; in UserDrive phone numbers (a clash refuses the whole answer
of the cloud, User.js 152), PATCH of a drive, and a cloud that changes or disables the owner;
in Xstat the older formats of the attribute and metadata; in NativeFs the recursive search
(`nfs/find.js`, with misspelt names of its own), listings with usage and ejection; in Backup
append to a directory's index and the index itself, a variant of Forest; of Device, what it
reads of /proc and the network; in Requests the contents of tokens.

## 7. Plan

The modules of the plan are written, and every module but Batch and Query is proved about.  What is
left would be to write these two with recursive functions, and to extend the models to
what section 6 leaves out.
