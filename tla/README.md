# A formal model of Vesperwind

Vesperwind is a desktop file manager: a Vue frontend (`src/src`), a Tauri
backend in Rust (`src/src-tauri/src`), a Node backend with the same API for
development and the browser (`src/server`), and two native helpers
(`src/native`).  This directory holds TLA+ specifications of the parts of it
whose correctness depends on the order in which threads, processes, callbacks
and messages act, the TLC configurations that check them on small instances,
and proofs of the most important results for every instance.

Everything is read from the source.  A comment or a document is used only as
the statement of a property.  Line numbers are those of the files under
`src/`.

## 1. The system

| Component | State | Operations | What is hard | What makes it correct |
|---|---|---|---|---|
| FTP session pool (`ftp/pool.rs`) | `connected` flag, idle sessions, slot counter, condition variable | lease, release, discard, keepalive, close, repeatable, once, download, upload, reader and writer | two mutexes and an atomic that are never held together; retries; transfers that end on several paths | at most MAX_SESSIONS; no lost slot; no doubtful session reused; changes sent once; every lease returns |
| FTP manager (`ftp/mod.rs`) | map profile -> connection, `profile_updates` lock | connect, disconnect, get, shutdown, keepalive thread | replacement of a connection in use; disconnect during connect | the newest connection is registered; replaced ones end |
| SSH manager (`ssh.rs`) | map profile -> connection, stale flags, keepalive threads | connect, reconnect, disconnect, get, keepalive | reconnect reads the stale connection, disconnect does not take the lock | a disconnected profile stays disconnected; one live connection per profile |
| Remote file operations (`filesystem/remote_ops.rs`) | source and destination of a copy, move or delete | copy_stream, copy_entry, operate | stop byte or deadline between any two steps; clean-up of a partial destination | no partial destination left; a source is removed only after a complete copy |
| Operation helper (`filesystem/jobs.rs`) | registry of active operations, early cancellations, helper process, stop byte | register, cancel, finish, shutdown, execute_with_progress | cancellation before, during and after the operation; a helper that hangs or dies | every operation ends; a cancelled one is stopped or finished, never both |
| Local file operations (`filesystem/operations.rs`) | source and destination tree on disk, traversal stack of a delete | create, rename, copy, link, move within and between devices, delete | any call fails or the helper is killed half-way; other programs act at both ends; the clean-up after an error | each entry of a move is whole at one end; what existed before is kept; a failure leaves nothing behind |
| Remote authentication (`ssh_auth.rs`) and host trust (`remote.rs`) | prompts, known hosts, pins | probe, trust, authenticate | a profile that changes during a prompt | a secret is offered to its own host only |
| Credentials and settings (`credential_store.rs`, `settings/mod.rs`, `commands/settings.rs`) | settings file, keyring | load, save, set, delete with rollback | two stores without a common transaction | a failed save leaves both as they were or says so |
| Directory watches (`filesystem/watch.rs`, `src/api/directoryWatch.js`) | the window's consumers and queue per path; one watcher per physical folder with its consumers | watch, unwatch, emit, failure | a failing watcher is removed by path, not by identity; requests of one path queue and may be refused; every event starts the timer again | a folder is watched while it is shown, but for a refusal or a failure; a change reaches every panel once changes pause |
| Media history (`media/history.rs`) | last checkpoint in RAM, worker queue, database | capture, lookup, save, flush, shutdown | lookup races with save; a write fails after it was noted | the last captured position is the one restored |
| Thumbnails (`media/thumbnail.rs`) | one worker, active owner, ring of cancelled ids, cache of sources | generate, cancel, end of the owner | cancel before the request arrives; two locks | a cancelled request yields nothing; no decoder outlives its session |
| Player sessions and control (`mpv/player.rs`) | maps `running` and `opening`, lock `audibility`, a control thread with a queue per session | open, play, pause, seek, tracks, close | opens and closes of several panels overlap; a seek fades and waits while requests come | one player is heard; a pause holds; the volume comes back; a closed session stays closed |
| Player presentation (`mpv/render.rs`, `mpv/presentation.rs`, `mpv/surface_*.rs`, `mpv/transition_cover.rs`) | native views, render context, tasks of the main thread, cover | create, show, draw, tear down, cover | threads wait five seconds for the main thread, whose tasks run all the same | teardown in the order of dependence; a retired view is not shown |
| Media streaming (`media/http.rs`, `media/mod.rs`, `mpv/stream.rs`, `media/source.rs`) | loopback server, registered sources, open streams | serve a range, open, read, seek, cancel | the file changes between the headers and the bytes | the bytes are those of the range; none after a cancel |
| Git monitoring (`git.rs`, `src/api/gitWatch.js`) | watch threads with a set of directories and a channel of one | watch, unwatch, recover | lost events; requests that overlap or are refused | one monitor while somebody shows the repository, or the viewers are told; a lost watch comes back |
| SQLite editor (`sqlite.rs`) | sessions with a connection each | open, run, interrupt, close | Stop and the deadline at any statement | the answer tells the transaction; a stopped script is rolled back |
| Terminal (`terminal/mod.rs`, `composables/useTerminal.js`) | table of shells, reader and waiter threads, the tab | create, write, close, shutdown | exit against close; text cut within a character; output and exit before the tab knows its session | text emitted whole; an orderly end tells every shell to go |
| Clipboard and staging (`shell_integration/mod.rs`, `clipboard.rs`, `staging.rs`) | remembered selection, token on the system's board, staging folder | copy, read, paste, stage, clean up | other programs copy in between; a download ends late | nothing is replaced or cleared without a look that found our own; a cut dies with its paste |
| Drags, drops and virtual files (`macos.rs`, `windows.rs`, `transfer.rs`) | drag session, delegates, queue of the shell thread, streams | drag, promise, drop, read, seek | a message races a command; one message for several jobs | a drop once on the page; a promised file whole or absent; a read returns the bytes of its place |
| Disk images (`disk_image/*`) | attached images and their devices | status, mount, eject | devices are given to other images | an eject takes its own image |
| Cloud content (`content.rs`, `filesystem/availability*`) | operations, coordinated reads, hydrations | prepare, poll, cancel | several pollers of one download; stalls | started once; ends with its owner; stalled only when quiet |
| Searches, sizes, cloud status (`search.rs`, `size.rs`, `cloud_status.rs`) | flag per walk, two slots | start, cancel | a cancel at the last entry; rows replaced meanwhile | complete or said not to be; slots returned |
| Archives (`filesystem/archives.rs`, external worker) | staging folder, running worker | create, extract, cancel | a kill at the commit point | the answer agrees with what is at the target |
| Node FTP and SSH (`server/ftp.js`, `server/ssh.js`) | connection attempts | connect, disconnect, lease | the newest attempt wins | only the newest attempt registers |
| Frontend (`src/src`) | view state, operation queue, request generations | - | late answers | a late answer does not replace a newer one |
| Document conversion (`office.rs`, `office/origin.rs`) | gate, engine, jobs of the private origin | convert, cancel, idle end | destruction not confirmed; late results | one engine; a result goes to its request |
| Settings file (`settings/mod.rs`) | `settings.json` and the cached settings | load, migrate, normalise, save, reset | other builds and hands write it | usable profiles are kept; trust stays with its endpoint; a newer file that was looked at is not replaced |
| FTP connects and listings (`ftp/mod.rs`, `connection.rs`, `tls.rs`, `listing.rs`) | saved profile, store, registered connection, capabilities of the server | connect, further session, update, list, look up, read | the profile or the certificate changes in between; servers that lack commands | a password reaches only its endpoint, but for a further session of a profile that moved; a listing is whole or an error, but for lines no parser reads |
| Properties, permissions, portable launcher | - | - | - | - |

How they interact: a command of the frontend reaches `commands/*.rs`, which
takes a connection from a manager (`FtpManager::get`, `SshManager::get`) or
starts the operation helper.  The helper is the same program in another
process: it gets one frame with the request and a snapshot of the connections
on stdin, opens its own sessions and reports progress on stdout; one byte on
stdin, or end of file, stops it.  The managers' keepalive threads and the
operations share the sessions of a connection.  The settings file decides what
a connect uses, under one lock (`profile_updates`) shared by settings, SSH and
FTP.

## 2. Plan

Done, in the order of importance:

1. `FtpPool` with the abstract `SessionPool`.
2. `RemoteCopy`: a streamed copy or move with its clean-up and checkpoints.
3. `OperationHelper`: the registry, the helper process and its supervision.
4. `SshManager`: connections, settings and the saved password of one profile.
5. `SettingsUpdate` with the abstract `SettingsPromise`.
6. `LocalOperations`: local copy, move, link, rename, create and delete.
7. `FtpConnect` and `FtpListing`: connects, updates and certificates of a
   profile; listings, lookups and reads of a session.
8. The media player: `PlayerSessions`, `PlayerControl` with the history,
   `Presentation`, `Thumbnails`, `MediaServer`.
9. What the panels exchange with the desktop: `Clipboard`, `Dragging`,
   `ShellObjects`, `DiskImage`, `Scans`, `Archives`, `CloudContent`.
10. The services: `Watches`, `GitWatch`, `SettingsFile`, `Office`, `Sqlite`,
    `Terminal`.

Next:

11. `SafeMove`: the abstract move (an entry is never nowhere), implemented by
    `RemoteCopy` and by `LocalOperations` with a clean-up that keeps a complete
    copy.
12. `NodeAttempts`: the connection attempts of `server/ssh.js` and
    `server/ftp.js`, which overlap at every await.
13. Composition of `OperationHelper` with `RemoteCopy` for stop and kill.
14. The generations by which the frontend drops late answers.

The set of runs is kept small enough to be repeated on every change: one run
answers one question of one of the six central modules, and three runs answer
for the twenty others.

## 3. The modules

A `.cfg` and, where it needs definitions, an `MC` module give the constants of
an instance.  Operators that carry the comment "mutant" are wrong variants of
the definition after them, as a plausible bug would have it: with the variant
in place of the definition the run fails, which shows that its property depends
on the code.  `PROJECT.json` names one for each property of a run; where a
property is a conjunction over several components, each has variants of its own
beside its definitions, and every one of them makes the run fail.

### FtpPool and SessionPool

`ftp/pool.rs`: the sessions of one connected profile, shared by operations,
the keepalive thread and the one close.  `connected`, `idle`, `open` and
`waiting` are the atomic, the two mutexes and the condition variable.  Each
access to one of them is an action, because the code never holds two together:
`LeaseStep` is the loop of `lease` (look at the flag, pop an idle session,
reserve a slot or wait), `ConnectStep` the connect that fills a slot,
`CommandStep` the command of `repeatable` and `once` with its reply,
`TransferStep` the life of an `FtpReader` or `FtpWriter` (read, finish, abort
or drop), `GiveUpStep` `return_session` and `forget_session`, `DiscardStep` and
`KeeperStep` `discard_idle` and `keepalive`, `CloserMarks`, `CloserStep` and
`Dropped` the removal from the map, `close` and the drop of the last `Arc`.
`SessionPool` knows only who holds a session, which ones are free and which are
doubtful; `PoolPromise` says that the detailed pool implements it.

### RemoteCopy

`filesystem/remote_ops.rs` with the endpoints of `ftp/mod.rs` and `ssh.rs`: one
request between local, SFTP and FTP places.  The source is a set of entries of
a tree numbered in visiting order, the destination says for each entry whether
it is absent, partial, complete or somebody else's.  `CopyStep` has an action
per call of `copy_entry` and `copy_stream`, with a checkpoint before each read
and write; `RemoveStep` the removal of the source and the recursive delete of
both endpoints, with the stack of open folders; `RenameStep` the rename.  A
command may be refused, its reply may be lost after the server applied it, a
stop or the deadline may come between any two steps, the helper may be killed,
and other clients create items at both ends.

### OperationHelper

`filesystem/jobs.rs`, the command `filesystem_operate` (`commands/filesystem.rs`)
and the promise in `api/transports/tauri.js`, for one operation id: the window
asks, cancels on timeout or abort; the registry joins request and cancellation
in either order; the executing thread starts the helper, a writer thread sends
the frame, the supervisor watches flag, deadline and idle time, sends the stop
byte, waits for the grace period and kills; the helper reads the frame, works,
hangs, dies, or is ended by its listener thread at the end of the pipe.  The
operation itself is only begun and completed here.

### SshManager

`ssh.rs`, `commands/settings.rs` and `credential_store.rs` for one saved
profile: connect, the reconnect that a read or write causes, terminals, the
snapshot for the helper, Forget, a settings update, disconnect, and the loss of
a connection.  The lock `profile_updates` is explicit, since `disconnect` and
the first part of `reconnect` run without it.  A secret is named by its host;
`astray` is a history variable that remembers whether one was offered to
another host, `forgotten` one that remembers a Forget.

### SettingsUpdate and SettingsPromise

`reconcile_with_commit` around `SettingsStore::save`: backups of the affected
secrets, their deletion, the write and rename of `settings.json`, and the
restores after an error, with a death of the application between any two.  A
call that reports an error may have had its effect.  `SettingsPromise` is the
update as the documentation promises it: file and secrets change in one step,
or not at all, or the answer says that secrets are lost.

### LocalOperations

`filesystem/operations.rs` as the helper runs it.  The tree is as in
`RemoteCopy`.  `Begin`, `Check` and `Create` are the requests up to their first
change; `Rename`, `CrossesDevices` and `RenameFails` the outcomes of
`fs::rename`; `CopyStep` the recursive copy, with a file that is created before
it is complete; `RemoveStep` `remove_entry` of a moved source and
`remove_partial` of a destination after any error; `DeleteStep` the traversal
of `remove_bounded`, where alone there are checkpoints.

### FtpConnect and FtpListing

`FtpConnect` follows one profile id: connects, further sessions of the pool and
connects of the helper (`Attempts`) go through lock, password source, control
connection, AUTH TLS, certificate policy, login and data connection, while the
settings window rewrites the profile in two halves and the server rotates its
certificate.  A password is the endpoint it was typed for.  `FtpListing` is one
session and one folder: FEAT, MLSD or LIST, MLST or a search in the listing,
RETR with its limit, each with the passive fallback, against a server that
announces one set of commands and has another.

### The media player

`PlayerSessions` has the maps `running` and `opening`, the lock `audibility`
and the queues; `PlayerControl` the loop of one control thread, action by
action, with the history it resumes from and the history's worker;
`Presentation` the views, the render thread and the tasks that the main thread
runs late; `Thumbnails` the two locks of the frame extractor; `MediaServer` the
custom protocol, the loopback server and the stream callbacks.

### Exchange with the desktop and content

`Clipboard` has the remembered selection, the system's board, which any program
may take, and the staging of remote items; `Dragging` a drag's three ends and a
drop's race with its message; `ShellObjects` the queue of the shell thread and
the position of a virtual file's stream; `DiskImage` images that change their
devices between two calls; `Scans` the walks with their flag, batches and
slots; `Archives` the two workers and the commit point; `CloudContent` the
operations that poll a download.

### The services

`Watches` and `GitWatch` join the window's registries with the native ones;
`SettingsFile` has the rules of normalisation as operators and the file between
several writers; `Office` the gate, the engine and its origin; `Sqlite` the
statements of a script with its guards; `Terminal` the shell, its threads, the
tab and the decoder of its text.

### The themes: Media, Desktop and Services

The twenty modules above are checked in three runs.  `Media`, `Desktop` and
`Services` have one instance of each of their modules, with the constants and
variables of all of them as their own (a prefix tells whose they are);
`MCMedia`, `MCDesktop` and `MCServices` give the values.  A behaviour picks one
part in its initial state, and only that part moves.  The parts share nothing
in the program that any of them models, so no behaviour is lost: the states of
a run are the disjoint union of those of its instances.  Where a part would be
checked with several bounds, its bounds are a set (`psBounds`, `pcBounds`,
`vwBounds`, `rgMixes`, `fmMixes`, `cbMixes`, `seMixes`, `ccMixes`) from which a
behaviour picks one, so that the run covers the interesting combinations and
not the product of the largest; the paths of disk images (`diPaths`) and the
ejections by others (`diMaxOutside`) depend on the system.

| Theme | Instance | Module |
|---|---|---|
| `Media` | `Players`, `Control`, `Views`, `Thumbs`, `Server` | `PlayerSessions`, `PlayerControl`, `Presentation`, `Thumbnails`, `MediaServer` |
| `Desktop` | `Board`, `DragDrop`, `ShellThread`, `Disks` | `Clipboard`, `Dragging`, `ShellObjects`, `DiskImage` |
| `Desktop` | `Scan`, `Archive`, `Content` | `Scans`, `Archives`, `CloudContent` |
| `Services` | `Folders`, `Repository`, `Settings`, `Documents` | `Watches`, `GitWatch`, `SettingsFile`, `Office` |
| `Services` | `Database`, `Shells`, `Connects`, `Listings` | `Sqlite`, `Terminal`, `FtpConnect`, `FtpListing` |

The properties of a theme are the conjunctions of those that its modules state,
so that each keeps its own sentence where its definitions are.

## 4. What the runs check

| Run | Instance | Distinct states (about) | Shows |
|---|---|---|---|
| `ftp_pool` | two workers that download and change, the keepalive, one close, three sessions, `MaxSessions` 2 | 678 000 | the pool keeps its slot count, sends a change once, reports only confirmed transfers, and implements `SessionPool`, in which a session has one holder, a doubtful one is not reused, and there are at most `MaxSessions` |
| `ftp_pool_live` | two workers that upload, two sessions | 93 000 | every lease returns although wakeups are lost, and a closed pool ends all its sessions once the callers end their transfers |
| `remote_copy` | a tree of five entries, two of them unlisted by some listings, one that a foreign client adds later, files of two blocks; all six routes between local, SFTP and FTP, and the in-place operations of SFTP and FTP | 43 000 | a move loses nothing, a report is true, foreign items are not touched, a failed copy that was neither stopped nor killed leaves no partial file |
| `remote_copy_listing` | the same | finding | a move removes an entry that its listing left out |
| `operation_helper` | one operation that transfers data | 6 300 | no cancellation is lost, a success is true, nothing happens after the answer; cancel, shutdown and the death of the application end the operation; the deadline brings an answer |
| `ssh_manager` | two threads, two hosts, two connection attempts | 628 000 | store, settings and registered connection agree; a secret is used for its own host; the newest connection is the registered one |
| `settings_update` | two profiles, two hosts, save flag on or off | 42 000 | a secret belongs to the profile in the file after any failure or death; an update is one step or none, as its answer says |
| `local_operations` | a tree of six entries with a folder, a link and an entry that another program adds; all six actions | 49 000 | a move keeps every entry unless the removal of its source fails, a report is true, what existed is kept, a failure leaves nothing |
| `local_move` | the same, moves | finding | the clean-up after a failed removal deletes a complete copy |
| `media` | two panels and two videos with up to three commands, or two of which one waits in vain; a control thread with three requests of every kind, or two and a write or a lookup that fails or comes late; the views of each platform with two commands, or a command and one to the cover, or three to the cover; two thumbnails; a range of a file that changes; two streams | 318 252 | one player is heard and a closed one stays closed; pause and volume are kept, and the position but for the exemptions of `HistoryKept`; views are torn down in order, unless a frame failed; bytes and thumbnails are what was asked for; commands are answered |
| `desktop` | two copies and a paste, or a copy, a paste, another program and a staging that fails; two drags and two drops; two shell jobs and a stream; two disk images on Windows, one on macOS that others eject or that two calls look for; a search and a size scan, or two status batches for one slot while files change; two archive jobs on one target; two preparations of a cloud file, or one of a file that arrives in steps | 148 000 | a failed staging leaves nothing unless its publication was rejected; a drag is dropped once on the page, and on Windows not elsewhere too; a stream returns the bytes of its place until a read or skip fails; answers about content are true; the clipboard is written and cleared only behind a look that found our own, an archive replaces nothing, and an eject takes its own image unless on macOS that was ejected meanwhile; what was begun ends |
| `services` | two panels on two paths of a folder, whose requests may be refused and whose changes never have to stop; a repository with a new directory, a watcher that fails or a request that is refused; settings files of three versions, with lists that are too long, doubled or of other builds, which may write at any moment; two documents for two engines; two requests of a database session; a tab and its shell, whose reply may be late and whose startup files may fail; a connect with every mode of protection and a certificate that changes, and two connects with an update; every FTP server, folder of two names and call, one of them on a LIST line no parser reads | 132 500 | subscriptions follow the panels, but for a refused request or a removed watcher; profiles survive, and a newer file that was looked at; the text of a shell is emitted whole; answers are true; a secret reaches only its endpoint, but for a further session that reads it after its profile has moved; what was begun ends |

Each property stands, with the sentence that says what it is about, in the
module named by the run (those of a pair such as `PoolPromise` in the detailed
module).  For every property of a passing run `PROJECT.json` names a wrong
variant of one definition with which that run finds the property violated.

### The bounds

- *Sessions and workers.*  `MAX_SESSIONS` is 4 in the code; with 2, two workers
  and the keepalive compete for fewer slots than there are users, so the wait,
  the time-out and the hand-over by the condition variable all occur.  A third
  session name lets a new session start before an old one has ended.  The
  number of operations of a worker is not bounded.
- *Kinds.*  A run names the kinds of operation (`Kinds`) it lets the workers
  begin.  The runs use three of the four: downloads and changes, and uploads.
  A "read" is in no run, since the run of three kinds takes too long beside the
  others: it is asked again as the request of a download is, and otherwise goes
  the way of a change.  The theorems about the pool hold for any subset of the
  four.
- *Trees.*  Five or six entries give a nested folder, a file before and after
  it and an entry that appears while the tree is being removed, which is what
  the order of copy, removal and clean-up can tell apart.  Two blocks are
  enough for an interruption before, between and after writes.
- *Attempts.*  `MaxConns` bounds the connections that are ever made: with two,
  one replaces another, which is the only relation between them.  At the bound
  a connect may still fail.
- *Hosts and profiles.*  Two of each: a secret that belongs elsewhere, and an
  update that changes one profile and not the other.
- *Parts of the sum runs.*  Two actors of each kind, since their relations are
  between pairs (an old and a new session, a cancel and its request, two
  engines); one fault, since a component that recovers is in a state it could
  have reached without one; a third command where two are needed to build up
  the state that the third meets (`sessions`, `cover`).  The bounds on changes,
  faults, writes and attempts are constants named `Max...` and appear only in
  guards.  What upsets a watch of a repository is counted together: an error of
  its watcher or of its creation, a refused request, a new directory.  So are
  the upsets of a connect, a changed certificate and a password that cannot be
  saved; its mixes also say which certificates occur.  The changes of a folder
  are not counted, since a stream of them without end is the case that matters.
  An item with an unsafe name is no folder.  `thMemory` is the number of cancellations that are remembered before
  a request comes (32 in the code): with 1 the second is already one too many.

The theorems of section 5 hold for every value of these constants, so the
bounds matter only for what section 5 lists as model-checked.  `Symmetry`
is used in runs that check safety only; each symmetric set has no distinguished
member.

### Deadlock

`media`, `desktop` and `services` do not look for deadlocks: their commands,
faults and changes are bounded, and a behaviour whose commands have returned
stops.  That nobody waits for ever is there the liveness property.  All other
runs look for deadlocks.  A model whose system may finish has an explicit
step for it (`Finished`, `Ended`, `Done`) that is enabled only in its final
states, so a state in which everyone waits on everyone is reported.

### Fairness

- `FtpPool`: a thread that is inside `pool.rs` goes on (weak fairness of its
  steps).  A connect or a command ends because sockets have a time-out; a wait
  lasts at most 250 ms (`WaitTimeout`) and a lease at most 120 s
  (`DeadlinePasses`).  Nothing is assumed of how long a caller keeps a transfer
  open: `ClosedEnds` has `CallersFinish` as an antecedent, `LeaseReturns` does
  not.
- `OperationHelper`: registration, cancel command, supervisor, writer thread
  and the helper's own threads are scheduled; the supervisor polls, so a stop
  flag or a late deadline leads to the stop byte; the grace period ends and a
  kill works.  Nothing is assumed of the operation, which may hang for ever, of
  the window, or of the idle time.  `AlwaysAnswers` has the coming of the
  deadline (`DeadlineComes`) as an antecedent.
- `PlayerSessions`, `PlayerControl`: command and control threads run, mpv ends
  a load, and the times pass after which the control loop gives up a seek, a
  track or a resume, and a command its request (30 s).
- `Presentation`, `Office`: the main thread takes its next task.  In
  `Presentation` this is strong fairness, as a task for an OpenGL surface waits
  for the lock that the render thread holds while it draws each frame.
- `Watches`, `GitWatch`: the timers of the window, the requests and the threads
  run.  The timer of a folder runs out if no event comes for 100 ms; as each
  event starts it again, `ChangeSeen` has an end of the changes as its
  alternative.  That a monitor recovers is strong fairness: it sets its watches up
  every 30 seconds, but not while it is busy with an event.
- `CloudContent`, `Scans`, `Archives`, `Clipboard`, `Dragging`, `ShellObjects`,
  `DiskImage`: the threads of the application run, tools that hang are killed
  at their time-out, the window goes on polling and time goes on meanwhile
  (`Tick`, strong, since it is counted between polls only).  Nothing is assumed of other
  programs, nor of the user.
- `Sqlite`, `Terminal`, `FtpConnect`, `FtpListing`: the threads run, a
  statement that never ends meets its deadline, sockets have a time-out, and a
  shell that was killed dies.  `Waits` of `Terminal` is strong: the thread
  that waits for the shell's end needs the lock of the table, which writes and
  commands take again and again.
- The other modules check safety only and have no fairness.

Liveness is stated as "again and again", `[]<>(idle or answered)`: under these
bounds this says that no request stays unanswered.

## 5. What is proved

The `*_proofs` modules hold the theorems; `PROJECT.json` lists those of
interest to a reader.  All use an invariant that is preserved by every step,
with one lemma or one step per action, and the named assumptions on the
constants and nothing else.

- **FtpPool.**  `TypeOK /\ Control /\ Exclusive /\ BusyOK /\ CountOK /\
  SuccessConfirmed`.  `Control` says, per program counter, whether a thread
  holds a session (`HoldsOK`), where drained sessions may be left (`BatchOK`),
  and that a second attempt is the last and a change that was sent has none
  (`RetryOK`, `SentOK`).  It is needed because the counter is corrected some
  steps after the session it counts is gone: `SlotsAccounted` is not inductive
  without knowing who owes a decrement.  Counting uses the library's facts on cardinality.  Eight
  theorems: types, limit, slots, exclusivity, no doubtful session pooled, a
  change sent once, success confirmed, and the implementation of `SessionPool`.
- **RemoteCopy.**  `TypeOK /\ ControlOK /\ ListingOK /\ CopiedOK /\ DoneOK /\
  SourceOK /\ RemovalOK /\ MoveKeepsData`: what is visited is whole at the
  destination, and the removal starts only when everything listed is visited.
  That every entry is reached through its parents is an argument by the least
  missing entry.  For the destination a second invariant, `DestOK`, says that
  what is partial is being written, that what is written is the operation's
  own, and that before a rename the target has at most the one foreign item
  that another client put there.  Types and all four properties.
- **OperationHelper.**  `TypeOK /\ EarlyOK /\ CancelKept /\ ExitOK /\ AnswerOK`,
  where `EarlyOK` ties the list of early cancellations to the registration,
  and `ExitOK` the end of the process to what can still happen.  Types,
  `CancelKept`, `TrueSuccess`, `NoLateWork`.
- **SshManager.**  `TypeOK /\ RequestsOK /\ ConnsOK /\ MatchOK /\
  StoreMatchesSettings /\ SecretsMatchHost /\ NewestRegistered`, where
  `RequestsOK` and `ConnsOK` say that the secret in a call or a connection fits
  its profile, and `MatchOK` that the registered connection is that of the
  settings while no update is between its two halves.  Types and the four invariants of the run.
- **SettingsUpdate.**  `TypeOK /\ SecretsMatchFile /\ CacheMatchesFile /\
  StartOK /\ EarlyOK /\ BackupsOK /\ DeletedOK`: at each step the backups and
  the secrets together are those at the start.  Types, both invariants, and
  the implementation of `SettingsPromise`.
- **LocalOperations.**  `IInv` is `TypeOK /\ ControlOK /\ TakenOK /\ ListingOK
  /\ CopiedOK /\ DoneOK /\ SourceOK /\ SourceTree /\ MoveKeepsData /\
  ReportIsTrue`; `FullInv` adds `FreshOK /\ ListedOK /\ DestTree /\ UndoneOK`,
  which say that what lies at the destination is a tree of the operation's own
  entries, so that a clean-up that empties it bottom-up leaves nothing.  Types
  and all four properties.
- **Media.**  `Media_proofs` proves all four safety properties of the run
  `media` as theorems of `Spec` (`PlayersDoBehave`, `PlaybackIsKept`,
  `ViewsAreInOrder`, `MediaIsTrue`): every behaviour of the theme is one of
  each instance, because a step of another part leaves its variables alone, and
  each instance has an invariant of its own.
  - *Players.*  Which command may be where, that an open keeps the lock until
    it has cleaned up (`LockOK`), that the maps name the attempt of a running
    open under its own session (`MineOK`), that a close is on its way to every
    cancelled player that is registered (`ReachedOK`) and that no control
    thread is forgotten (`KnownOK`).  `SoundOK` is inductive relative to it: a
    player is quiet if it will not play without a new request, the holder of
    the lock has a list of those it has yet to silence, and players nobody can
    reach are quiet.
  - *Control.*  A load is first in the queue and the only one (`LoadFirst`,
    `Loading`), a pause is in the player, in the intent or in the queue until a
    play comes (`PauseHolds`), the volume before a seek is the user's
    (`VolumeKnown`), a lookup is the last job of its session (`LookupLast`), and
    the record that the history will have when its worker has done the jobs
    in its queue is what the session leaves (`Recorded`, with the function
    `WillBe` that folds the queue from its last job).
  - *Views.*  The tasks of the main thread that touch the views stand before
    the one that lets them go (`TasksInOrder`, `ViewsHeld`), the renderer ends
    before mpv and has freed its context, unless its frame failed (`RenderOrder`), each task belongs to a command that waits or
    has given up (`TasksOwned`), and the last task or animation of the cover is
    that of the last command (`Commanded`, `CoverSettled`).
  - *Thumbs, Server.*  One invariant per request (`RequestOK`), per range and
    per stream (`FetchOK`, `StreamOK`), which tie its stage to the lock, the
    flags and the file.
- **Desktop.**  `Desktop_proofs` proves `ExchangeIsHonest`, `ContentIsTrue` and
  `OthersAreUntouched` (an action property) as theorems of `DesktopSpec`, from
  an invariant of each instance; its last section holds the proofs about
  `OperationHelper`.
  - *Board.*  The step of a copy's thread says what is in its folder
    (`FolderOK`), so that a copy that failed leaves nothing, and what a call
    returned it saw on the clipboard (`CallOK`).
  - *DragDrop.*  How often a drag was reported, and that only macOS reports one
    before its end (`Reported`); what a promise has made of its file
    (`Promised`), and that nobody writes for a drag that was not released
    (`Unasked`).
  - *ShellThread.*  A job is in the queue, running or neither, and never twice
    (`ThreadOK`); the messages that are left are at most those of the calls
    that sent one, a cardinality; the reader stands where the position of the
    stream is, unless it is broken (`StreamOK`).
  - *Disks.*  No two images share a device, and a call that holds a device has
    that of its image, unless the image was lost meanwhile (`CallOK`).
  - *Scan.*  What a search counted was handed over or waits in its batch, until
    its flag is set (`Honest`), and the slots in use are as many as the batches
    that run (`SlotsOK`).
  - *Archive.*  Whether the rename took place follows from the worker, the
    target and what is known of it at each stage (`Stands`).
  - *Content.*  What an operation has read and seen of a file is not more than
    is here, and where nothing was added since, it was quiet for as long as the
    watchdog counted (`OpOK`); a coordinated read is one thread
    (`CoordinatorInv`), and a pending hydration has an owner (`HydrationInv`).
- **Services.**  `Services_proofs` proves `WatchesAreTrue`, `SettingsAreKept`,
  `ServicesAreTrue` and `ConnectionsAreSafe` as theorems of `Spec`, from an
  invariant of each instance.
  - *Settings.*  The heart are lemmas about normalisation.  `Kept` selects the
    entries of a list at a set of places; that the result has each of them once
    and in order follows from the number of places up to each one, a rank which
    is a cardinality.  From this come what normalised profiles, lists and files
    are (`Settled`, `ListOK`, `FilesOK`) and that such files do not change any
    more, nor such lists but for a cut name, which makes a restart load what was
    in memory.  The invariant says that what is in memory and what is about to
    be written is normal (`Normal`).  A trust stands beside its endpoint because
    a reset compares the new list with the old one by id, and ids are distinct.
    What a load or a save keeps of a list is the images of the first usable
    place of each id (`ProfilesKept`).  `SettingsKept` is a temporal property,
    as two of its parts are about steps: `ProfilesKept`, and `NewerKept`, which
    has an invariant of its own (`OwnIInv`): until others write again, a newer
    file that was looked at meets no save.
  - *Folders, Repository.*  What the last request in the window's queue asks
    for is what the panels show (`WantedOK`, `Wanted`): this is what makes the
    registry right when the queue is empty, in whatever order the requests were
    made.  Where a request was refused or a record removed behind a failure,
    the path is marked as lost until the next request (`lost`, `refused`).  Every live monitor thread is known to the record or was told to stop
    (`LiveKnown`, `OneGoes`).
  - *Documents.*  A request that works has the gate, and the idle thread has it
    while it retires an engine (`Turns`).  An engine that shows, or that may
    still be built, is the session's, the idle thread's, or that of the request
    which creates or destroys it, unless a destruction was not confirmed, after
    which none is made (`Accounted`); so there is one (`OneAlive`).  A job has
    the request that watches it (`Converting`), and until something fails every
    closed engine has its task of destruction before it in the queue of the
    main thread (`Faultless`).
  - *Database.*  A session is used by one request (`Owned`), its transaction is
    what the statements so far leave (`Kept`, `Cursor`, `InTransaction`), a
    script that was stopped holds nothing (`Rolled`, `NoneAfter`) and each
    write is of the file that is open (`Traced`).
  - *Shells.*  A shell that lives is in the table or was killed (`ShellOK`), and
    after an orderly end of the application there is no table.  For the text, the
    decoder is a recursive function over the bytes; it exists because a least
    place at which it does not would have one before it.  What it has at a place
    depends on the bytes before only (`UpToPrefix`), and to decode a prefix and
    then the rest, with the incomplete character carried over, is to decode the
    whole (`UpToJoined`).  With this the text that was emitted is at each moment
    the decoding of what was read (`ShellText`), and what a tab shows is the
    part of it from when it knows its session to when that ends (`TabText`).
  - *Connects.*  A connect holds the lock and has the profile that is saved
    (`HoldsLock`), its password fits its profile unless it is a further session's that has moved
    (`SecretFits`) and its channel
    is one the profile allows as soon as the password goes out (`Protected`),
    and what the registered connection hands to leases and to the helper fits
    as well.
  - *Listings.*  Each stage of a call has only the commands that lead to it and
    what the server has answered so far (`StageFits`).

The assumptions are `PoolAssumption`, `TreeAssumption`, `TransferAssumption`,
`SshAssumption`, `SettingsAssumption`, `LocalAssumption`, and those of the
instances, which `Media`, `Desktop` and `Services` state together as `Instances`: numbers
are naturals, kinds are among those that exist, model values do not collide (no
request is named like the idle thread, no terminal like a state), a script has
a statement, a tree is numbered so that parents precede children, the profiles
are closed under the changes that an update makes, and whoever writes a trust
into a settings file means the endpoint beside it.  TLC evaluates them
in the runs.

Only model-checked are the liveness properties (`LeaseReturns`, `ClosedEnds`,
`WorkEnds`, `AlwaysAnswers`, `MediaAnswers`, `DesktopEnds`,
`ServicesAnswer`), whose fairness conditions the provers do not handle.  Every
other property of a passing run is a theorem; the action properties that stand
inside `MediaAnswers` are theorems of their own (`ThumbsEndIsReaped`,
`ViewsRetiredHolds`).

## 6. Where the code and its words differ

Two runs end in a violation; both lose data.

1. `remote_copy_listing` (`remote_ops.rs:436`): an entry that the listing drops
   is not copied, but a move removes it with its folder.  "The source is
   removed only after the whole copy succeeded" (`remote_ops.rs:378`).
2. `local_move` (`operations.rs:190`): the clean-up of "a partial destination"
   (`jobs.rs:32`) is run on a complete one.

The following sentences do not hold either.  Each is a definition of its module
that no run checks; TLC finds a counterexample when it is given as an invariant
or, for `ChangeSeenSoon`, `NewerAlwaysKept`, `ReadyIsLive`, `GoneEndsEvenLate`,
`StagedOverNobody` and `PasteClearsItsOwn`, as a property.  Where the last
column has no quotation marks it is what the code around that place intends.

| Definition | Place | What happens | What is said |
|---|---|---|---|
| `FtpPool!ClosedPoolStaysEmpty` | `ftp/pool.rs:172` | `return_session` looks at `connected`, then pushes into `idle`; a close between the two leaves the session open in the closed pool until the last reference goes | "Ends every idle session; leased ones are closed when they come back" (`ftp/pool.rs:184`) |
| `RemoteCopy!StoppedCleansUp` | `remote_ops.rs:500` | the clean-up of a stopped copy begins with a checkpoint, which fails again | "helper stops at its next checkpoint, removes the partial destination and exits" (`docs/ftp-ftps.md:411`) |
| `SshManager!ForgetLasts` | `ssh.rs:337` | a reconnect that has read the password waits for the lock while Forget holds it, and saves the password again | "stale session secret cannot silently restore it" (`docs/remote-authentication.md:44`) |
| `Watches!KeptWhileShown` | `filesystem/watch.rs:45`, `:73`, `:75` | a request that is refused is logged and not repeated; the thread that removes a failed watcher may remove its successor | "Shared directory watching keeps one native subscription while either panel consumes it" (`docs/media-content.md`) |
| `Watches!ChangeSeenSoon` | `api/directoryWatch.js:17` | an event starts the timer of 100 ms again, so that changes which never pause put the refresh off for ever | a change reaches the panels (no sentence gives a limit) |
| `Presentation!ContextFreedFirst` | `mpv/render.rs:282` | a thread whose frame failed returns at once and leaves its context behind, beside which mpv is destroyed | "tears down the renderer and embedded VO in the required order" (`mpv/player.rs:402`) |
| `PlayerControl!RecordKept` | `mpv/player.rs:1281` | a pause while a resume is on its way saves position 0 | "a failed/opening load must not overwrite a saved record with zero" (`player.rs:1792`) |
| `Scans!StatusFitsRow` | `cloud_status.rs:33` | Windows reports no modification time, so a status may meet a replaced row | "a status is never applied to an entry that has since been replaced" |
| `Clipboard!StagedOverNobody`, `Clipboard!PasteClearsItsOwn` | `shell_integration/macos.rs:140`, `:213` | the look at the board and the write or the clear are calls of their own, and another program may take it in between | see `CopyKept` |
| `Clipboard!RejectedLeavesNothing` | `shell_integration/mod.rs:283` | a publication that the system rejects leaves its staging folder until the next cleanup | the folder of a failed staging is removed (`mod.rs`, the other ways out) |
| `ShellObjects!InStepAfterErrors` | `shell_integration/windows.rs:321` | a read or a skip that fails has consumed bytes without moving the position, so the next read returns bytes of another place, until a seek opens the download anew | the position of a stream is the place of its next byte |
| `Clipboard!CopyKept` | `clipboard.rs:258` | a read between the two halves of a copy gives the new selection up | "another application (or another copy action) replaced the system clipboard" |
| `Clipboard!ReferencedKept` | `shell_integration/mod.rs:302` | a cleanup removes files that are published while it looks | cleanups keep "data the pasteboard still references" (`mod.rs:119`) |
| `Dragging!OneTarget` | `macos.rs:400` | what another program took above our window is dropped a second time | "WebKit refused the drop on our own window" |
| `DiskImage!BufferIsOwn` | `disk_image/macos.rs:168` | two status calls share the buffer of `getmntinfo` | "it is read before any further call" |
| `SettingsFile!FixedPoint` | `settings/mod.rs:575`, `:417` | a name is trimmed before it is cut to 120 characters, so a cut at a blank is trimmed by the next load; the entries that version 6 added may make the list of files longer than its limit, and the next load cuts it | "normalized output is a fixed point" (`docs/ftp-ftps.md:51`) |
| `SettingsFile!NewerAlwaysKept` | `settings/mod.rs:155`, `:182` | another build writes between this one's load and its save, which does not read again | "Settings from a newer Vesperwind are neither normalized nor rewritten" |
| `Terminal!TabShowsAll`, `Terminal!ReadyIsLive` | `useTerminal.js:141`, `:147` | output that comes before the reply is dropped, and an exit that does is ignored, so that the tab stays ready with a dead shell | the tab shows its shell |
| `Terminal!GoneEndsEvenLate` | `api/transports/tauri.js` | a reply that comes after the window gave up (15 s) is dropped, so that a tab that is gone cannot close the shell it names | a tab that goes closes its shell (`useTerminal.js:115`) |
| `Terminal!NothingLeft` | `terminal/mod.rs:256` | a startup directory whose files cannot be written is not recorded, so that the shutdown does not remove it | the shutdown removes the startup directory (`mod.rs:223`) |
| `FtpConnect!LeaseKeepsEndpoint` | `ftp/pool.rs:113` | a further session of an old connection reads the store without `profile_updates` and may send the password of the endpoint the profile has by now to the old one | a password goes to the endpoint it was typed for |
| `FtpListing!NothingLeftOut` | `ftp/listing.rs:57` | a line of LIST that no parser reads is left out without an error | a complete listing has every item |

Seen while modelling, without a sentence that denies it: the events of `ftp_disconnect` carry no `providerId`, so
`src/api/connections.js:74` drops them; on macOS an image is ejected by a device
name that was read earlier; a write to a shell that does not read holds the
table of terminals (`terminal/mod.rs:179`); the failure of a shared coordinated
read is seen by one of its operations only (`availability.rs:495`); an early
cancellation of a conversion is remembered for 120 s; a file that is opened in
the database editor after the window gave up (35 s) stays open.

`SshManager` also records in `astray` that the operation helper, which reads
the keyring when it connects, may find a password that was saved for a newer
profile than the one in its snapshot.  `SecretsMatchHost` is therefore a claim
about the application only.

## 7. What is not modelled

`PROJECT.json` lists every part with its status and the reason.  In short:

- The Node backend (`src/server`) has the same API on one event loop; its
  connection attempts are in the plan.  The frontend is modelled only where it
  shares state with the backend: the promise of an operation, the registries of
  watches, the tab of a terminal, the rows that a status meets.
- Wire formats, path handling and parsers have no interleaving to check;
  listings, properties and permissions are single reads.
- The portable launcher is sequential; vendored code is third party.
- libmpv, AppKit, COM, the cloud providers, notify, SQLite, the office engine,
  FFmpeg and the archive worker are external: they are modelled by what the
  code does with their answers, each of which may come at any time, late, or as
  an error.

Of the modelled parts the following is abstracted: the contents of files and
their metadata, the text of errors, progress reports, host keys (a connect
succeeds or fails), geometry and HDR output of the player, and time, of which
only the order of deadlines is kept.
