# Parallax-init in TLA+

A specification of the service manager of Parallax-init, of the programs around
it, and of the libraries they share; model-checked with TLC and, in part, proved
with TLAPS. Paths are relative to the repository.

    tlc -workers 2 -config MCPxDaemon.cfg MCPxDaemon.tla      # any run of PROJECT.json
    tlapm PxDaemonProofs.tla                                  # any module of proofs

## 1. Inventory

| part | source | state | operations | what is hard |
|---|---|---|---|---|
| **Service** | `include/PxService.hpp` | `status` (8 values), `userOverride`, `failLocked`, `deps`, `dependedBy`, `subscribed_handles`, `wk_pid` | `start`, `raw_start`, `finishStart`, `stop`, `cascadeStop`, `raw_stop`, `finishStop`, `update`, `dispatchState` | each calls `update` of other services, which calls the others, while lists are being walked; failures half-way; changes of mind while a service is between two states |
| **ServiceManager** | `include/PxServiceManager.hpp` | the map of services, the collective target, `reachedTarget`, exports | `StartService`, `StopService`, `CascadeStopService`, `FailService`, `FinishStart/StopService`, `setTarget`, `ReachedTarget` | shutdown against everything else |
| **Targets** | `include/PxTarget.hpp` | the sequence of targets set, their `reachedTarget`; files that enable and disable | `AddTarget`, `Enabled`, `Disabled`, `List`, `hasReached`, `onReach` | a target command run too early makes PxInit kill what is left |
| **PxLaunch** | `src/PxLaunch` | stage, interrupt flag | one process for each running service: StartCommand, Command, StopCommand, FailCommand; reports to the daemon | SIGINT at any moment |
| **PxDaemon** | `src/PxDaemon` | one manager; session references | main loop, `PxDOnCommand`, signal handlers, spawn | commands, reports and signals in any order |
| **IPC server** | `src/PxIPCServ` | connections, a command buffer, one reply slot for each, marks to purge | accept, recv, send, disconnect, callback | a byte stream cut anywhere, clients that leave, errors |
| **IPC client** | `src/PxLib/PxIPC.cpp` | a socket | `Connect`, `Write`, `Read` | what is dropped with a read |
| **JobServer** | `include/PxJob.hpp` | a list of jobs; a clock for each | `tick`, `onerror`, Interval, Timer | a list that changes while it is walked; the int of the clock |
| **pxctl** | `src/PxControl` | none; the files of targets | start, stop, restart; enable, disable | waits for a reply that may not come; several places for one file |
| **PxInit** | `src/PxInit` | PIDs to ignore, `cadPress`; the walk of a shutdown | collecting zombies, ctrl-alt-delete, shutdown | a handler on top of the loop; processes that fork while they are killed; disks that do not let go |
| **PxPam** | `src/PxPam` | none; files under `/run` | opens and closes sessions | two at once, and a daemon that counts them |
| **PxLogger** | `src/PxLogger` | one fifo, buffer and file for each log | `mklog`, the splitter of lines | pieces of lines, an open that blocks everybody |
| **PxReader** | `src/PxReader`, `PxLogging.*` | none | parses and selects entries | what the logger wrote must come back |
| **PxFilesystem** | `src/PxFilesystem`, `PxMount.*` | the devices checked, the passes | two passes of fsck, mounts | devices that appear meanwhile, several names of one |
| **Console log** | `include/PxLog.hpp` | tasks, what is on the screen, a count of suppressions | `newTask`, `completeTask`, `println`, `suppress`, `unsuppress` | pairs of calls that are far apart |
| **Configuration, arguments** | `PxConfig`, `PxWritableConfig`, `PxArg`, `PxFunction` | a document, options | read, look up, replace, add; parse | escapes, blocks, positions in nested groups |
| PxProcess, PxLocale, PxLoader, sendmsg, tests | | | | wrappers, a stub, programs for the developer |

How they interact. `pxctl` writes `start X` to the daemon's socket; the IPC
server hands it to `PxDOnCommand`; the manager updates the service; the service
records an edge with each dependency, updates these, and when all have started
asks PxLogger for a log and forks a launcher. The launcher writes `finstart`,
later `servfin` or `servfail`, and at the end `finstop` or `finfail`, to the same
socket. Each of these is again a command. `setTarget` updates every service in
memory; when all of them have come to rest the target's command is run, and for a
shutdown target that command asks PxInit to kill, unmount and power off.
Ctrl-alt-delete reaches PxInit as a signal and goes on to the daemon as one, whose
handler calls `setTarget` on top of whatever the daemon is doing. A login
connects to the daemon of the user or, if there is none, asks the one of the
system to fork it. All of the daemon's command handlers run to their end on one
thread; launchers, clients and signals do not wait for them.

What makes each part correct, in the order of its weight:

1. a service has at most one launcher, is told the truth by it, and never waits
   for one that is gone; dependents and dependencies have the same idea of each
   other; dependencies run before, and stop after, those that need them; a
   shutdown ends, and only when everything is down;
2. at the end nothing runs any more when the disks are made ready, and what could
   not be saved is known; at the beginning no mounted device is checked and none
   is mounted unchecked;
3. a launcher keeps to one of a few conversations and honours an interrupt; a
   shutdown that ctrl-alt-delete begins runs to its end;
4. commands are executed once, whole, in order; replies reach who asked; what is
   said on the terminal and the console is true;
5. lines reach the log whole, sessions share one daemon as long as any is open,
   and values come out of files as they were written.

## 2. Modules

    PxServiceHelpers -- PxTarget --+
            +---------- PxLaunch --+- PxService - PxServiceManager - PxDaemon - MCPxDaemon
                                                                       |- (INSTANCE) PxSupervision
                                                                       |- PxControl --+- MCPxAround
                                                                       |- PxConsole --+
                                                                       +- PxSignals - (INSTANCE) MCPxAround
    PxSocket - PxIPC - PxIPCServ - MCPxIPC
    PxKernel - PxShutdown - PxInit - MCPxBoot
    PxJob - PxLogger - (INSTANCE) ------+
    PxFilesystem - MCPxFilesystem - MCPxUse
    PxJob - PxTimers -----------------+
    PxSession, PxEnable --------------+
    PxFunction - PxConfig, PxArg, PxReader, PxWritableConfig - (INSTANCE) MCPxUse
                                                   +- (INSTANCE) PxConfigTable

Proofs, each module with the ones it extends:

    PxDaemon - PxDaemonProofs - PxDaemonEdges - PxDaemonSupervised
                     |              +---------- PxSignalsProofs (and PxSignals)
                     +- PxAroundProofs (and PxControl, PxConsole)
    PxIPCServ - PxIPCProofs        PxInit - PxInitProofs
    PxFilesystem, PxTimers, PxSession, PxEnable - PxUseProofs

| module | models | how |
|---|---|---|
| `PxServiceHelpers` | the enumerations | `Status`, `Override` |
| `PxTarget` | `PxTarget.hpp` | operators on the sequence of targets set; what a target contains is a constant |
| `PxLaunch` | `PxLaunch.cpp` | one launcher for each service: `stage`, `intr` (IntrFlag), `outbox` (written, not yet read by the daemon); one action for each way a stage ends |
| `PxService` | `PxService.hpp`, class Service | the calls in progress are frames of `stack`; an action is the code between two nested calls. `ret` is the value the last call returned |
| `PxServiceManager` | `PxServiceManager.hpp` | each request as the first frame it pushes; `setTarget` as a frame of its own |
| `PxDaemon` | `PxDaemon.cpp` | `Boot`, `Request` of a client, `Deliver` of a launcher's report (all only when `stack` is empty), `Run` for a step of the call in progress, `Launch` for a launcher. The properties of the daemon are here |
| `PxSupervision` | (abstract) | what a service manager promises: three sets and five actions; `PxDaemon` implements it |
| `PxSignals` | `onint` and the end of `main` of `PxDaemon.cpp`, `setTarget` | a pending signal whose handler pushes a `setTarget` frame on any stack; `saved` is what the interrupted call had been returned. A `setTarget` of `main` or of a client is one step for each of its statements (`entering`), and the handler is there before "boot" is set |
| `PxControl` | `startstop.cpp` | clients with a command line, over `PxDaemon`: the next command is sent when the answer to the last is what it should be |
| `PxConsole` | `PxLog.hpp`, and where `PxService.hpp` calls it | the daemon with its tasks, the lines on the screen and the count of suppressions carried along each step |
| `PxSocket` | AF_UNIX sockets (external) | bytes on their way in both directions, the backlog, closed ends |
| `PxIPC` | `PxIPC.cpp` | clients with a script of commands |
| `PxIPCServ` | `PxIPCServ.cpp`, ServerJob, the reply side of `dispatchState` | `pc` is where the tick is; one action for each system call and each byte looked at; clients run between any two |
| `PxJob` | `JobServer::tick` | the list and the place in it; `RunJob`, `Erase`, the end of the walk |
| `PxTimers` | Interval, Timer, RsInterval, RsTimer, OscJob | the jobs of `PxJob` with a clock of `LongBits` bits and an int of `IntBits` |
| `PxKernel` | processes, fork, exit, kill, wait (external) | `proc`, `parent`, the pending SIGCHLD |
| `PxShutdown` | `PxShutdown.cpp` | the walk over `/proc` and the signals in rounds, swap, remounts with their tries, unmounts in reverse order, the power |
| `PxInit` | `PxInit.cpp` | the loop of process 1, and its handler of SIGCHLD between any two steps of the loop |
| `PxFilesystem` | `PxFilesystem.cpp`, `PxMount.cpp` | `pc`, `pass` and `at` are the place in the two walks over fstab; devices appear meanwhile; an action for each way an entry is dealt with |
| `PxLogger` | `PxLogger.cpp`, `raw_start`, `waitExist`, `InitLog` | the logger's job in hand, the fifos and their buffers, and each writer's place in asking for, waiting for and opening its log |
| `PxSession` | `pxpam.cpp`, `spawn`, `reference` and `exit` of the daemon, `Raw_ServerInit`, `Raw_ServerUpdate`, `Raw_ServerDelete` | a place for each session (`spc`) and each user daemon (`dpc`), the path of the socket; of each daemon the connections in the order in which they were made (`handle`), how many it has accepted, what is written and not yet received (`sent`) and where its walk is. `misled` and `robbed` are history variables, which no step reads |
| `PxEnable` | `CmdEnable`, `CmdDisable` | `line` and `loc` are the target and the place in the two loops; `files`, `dirs`, what can be written |
| `PxConfig` | `ReadConfig` and the getters | the file, line by line |
| `PxWritableConfig` | `PxWritableConfig.hpp` | the tree of tokens as nested sequences; find, replace and add |
| `PxConfigTable` | (abstract) | a table of keys; `PxWritableConfig` implements it |
| `PxArg`, `PxFunction` | `PxArg.cpp`, `PxFunction.cpp` | the parser as a step on a state; the string functions |
| `PxReader` | `PxLogging.*`, `PxReader.cpp` | what is said, what is in the file, what is shown |

`MCPxAround`, `MCPxBoot` and `MCPxUse` are sums: a variable that never changes says
whose behaviour this is (`setting`, `program`), a step is a step of that one, and
the variables of the others stay as they begin. Nothing is composed there that
the code does not compose; it is several instances in one file. In a sum each
property is that of its module, for the behaviours of its own program.

The operators marked "Fault:" are deliberately wrong variants of the definition
that follows them. Nothing uses them; substituting one for its definition makes
the property that PROJECT.json names fail, which shows that the property can.

### What the abstractions leave out

* The files of services and targets do not change while the daemon runs:
  `Depend`, `After`, `IgnoreShutdown`, `Enable`, `Disable` are constants.
  `reload()` therefore changes nothing, and loading fails exactly for names
  outside `Known`. Such a name still enters the manager's map, as in the code.
* In `PxDaemon` a client sends one command and stays for one answer (in
  `PxControl`, one after the other), and reports of a launcher are delivered whole
  and in order. What happens between a command written and a command executed is
  the subject of `PxIPCServ`. A busy subscriber, for which `dispatchState` returns
  early, is modelled there too.
* `setTarget` walks a `std::set` of names. The model leaves the order open, which
  contains the code's.
* `ran` stands for the collective commands run. Per-target `command` files and
  exports are left out; the literal command `exit` is in `PxSession`.
* `MaxFaults` counts failing system calls: the logger's socket or `fork` in
  `raw_start`, `chvt` in `setTarget`; in the other modules, those their constants
  name.
* A launcher that dies without a word (killed, no memory to fork, no socket to
  connect to) is left out: nothing in the daemon handles it, as the repository's
  `todos` says. Neither is a launcher sent signals by anyone but the daemon.
  The daemon interrupts a launcher once it has read its "finstart", never in its
  StartCommand, so that `BeginInterrupted`, which PxLaunch.cpp provides for, does not
  happen in the runs.
* A signal handler runs between two steps of the model. What it does in the middle
  of an insertion into a vector, or of an allocation, is undefined.
* In `PxIPCServ` a command is a few equal letters and the end; a write of a
  client is whole (a short one makes `Raw_ClientWrite` send too much); the callback
  answers at once, subscribes, or tells the subscribers, which are the three things
  `PxDOnCommand` does with a connection.
* `PxConsole` keeps tasks and lines, not their wording, colours and the blinking
  star. `PxReader` keeps the selection, not following, colours and columns.
* `PxSession` leaves out the environments: the file that a session dumps for its
  daemon, and the one of the daemon for which it waits at most two seconds and does
  without. A command is executed when it is received: `Client::Write` ends each with a
  zero byte (`PxIPC.hpp:46`), so none is left for `Raw_HandleDisconnects`. `/run` is
  sticky (`PxInit.cpp:125`), so that a daemon of the user removes at its exit only a
  socket that belongs to the user, except before `PxDaemon.cpp:347`, when it is root. In `PxConfig` the arguments of template services are
  read and joined, but the loading of the template is not followed.

## 3. Runs

| run | instance | shows |
|---|---|---|
| `daemon_safety` | `MCPxDaemon.cfg`: `app` needs `db` and would like `log` and `ghost`, which does not exist; `db` is to start after `log`; `log` ignores shutdown. Two clients, seven commands, targets `boot` and `halt`, one failing call | `TypeOK`, `NoStrayLauncher`, `NoLostLauncher`, `EdgesMatch`, `NoEdgeOfTheDead`, `ShutdownIsQuiet`, `WellFormedConversation`, `WalkedListsStay`, `Supervised` |
| `daemon_live` | `MCPxDaemonLive.cfg`: `app` needs `db`; `ring` and `ring2` need each other; `db` may end or fail by itself. Two clients, four commands, no failing call | `HandlerReturns`, `NobodyStaysHalfWay`, `OrderlyShutdown` |
| `ipc_safety` | `MCPxIPC.cfg`: three clients; one may leave at any time with something unread, one is cut off in its last command, one subscribes twice without reading and then overflows the buffer. Buffer of 4 bytes, 2 bytes of room in a socket | `TypeOK`, `Framing` |
| `ipc_live` | `MCPxIPCLive.cfg`: clients that wait for their replies, one cut-off command, sockets that hold one byte, so that each reply takes two sends | `RepliesMatch`, `CommandsAreServed`, `AnswersArrive`, `TheLeftAreForgotten` |
| `around` | `MCPxAround.cfg`, four settings (below) | `ListsAgree`, `SaidIsTrue`, `ConsoleIsRight`, `SignalShutsDown`, `UsefulIsAnswered` |
| `boot` | `MCPxBoot.cfg`, two programs | `QuietDisks`, `DisksAreSafe`, `ZombiesAreCollected`; `WholeLines`, `EverythingIsLogged` |
| `use` | `MCPxUse.cfg`, nine programs | `NeverWhileMounted`, `CheckedFirst`, `PassesInOrder`; `RefsAgree`, `LastOneOut`, `OpenReturns`; `SuccessMeansDone`; `TurnsMissed`; `ConfigValues`, `TableSpec`, `ClusterIsShorthand`, `ReadsBack` |
| `shutdown_precedence`, `waiting_forever`, `missing_dependency` | the smallest instances of `MCPxDaemon` that show them | findings 1, 2, 3 |
| `ipc_errors` | `MCPxIPCErrors.cfg` | finding 4 |
| `filesystem_fails` | `MCPxFilesystemFails.cfg` | finding 5 |

The settings of `around`, in which one call may fail:

* "ctrl-alt-delete": `app` needs `db`, and "boot" enables `app`. The key is pressed at any
  step, also before "boot" is set and between the statements of that `setTarget` or of
  one for a client, whose target shuts down ("halt", the handler's own) or takes the
  place of those before ("rescue"). The lists mirror each other when the handler and the
  interrupted call are over, the shutdown brings nothing back, and it runs to its end
  (`SignalShutsDown`) unless it meets a service that is being started (finding 1) or a
  base target that was checked before the press and added after it, which drops the
  handler's: that press is lost (section 4).
* "pxctl": two pxctl with start, stop, restart or stop of two services, over the
  same dependent services: each "Started" and "Stopped" has been true since its
  command was given. "pxctl alone": the same where no service needs another, for
  liveness: a start of a service that is down, and a stop of one that is up, is
  answered.
* "console": a shell on the console, which exists in this setting only, and an
  ordinary service; nothing depends on the shell.

The programs of `boot`:

* `PxInit`: the daemon, which may fork once, and a process that may ask to be left
  alone, which has no children; two rounds of signals, two tries of a remount, one
  failing call; `home` on the root, `data` on a directory of `home`.
* `PxLogger`: a service, its second incarnation and a daemon, whose texts hold short
  entries, one that is badly formed, and ends with and without a newline.

The programs of `use`:

* "filesystems": root by its UUID and mounted already, a disk with two names, one
  with `noauto`, swap and tmpfs; devices appear in any order; fsck may succeed, repair,
  fail or be killed.
* "sessions": two sessions of one user, opened and closed at any time, also together.
  "sessions together": the same, which stay. "sessions with a fault": a fork, a log or
  a connection that fails, or a daemon that is killed or sent SIGTERM; there neither
  opens while the other does, which keeps the run small. `RefsAgree` and `LastOneOut`
  are checked in all three.
* "enable": three commands over a service of one target and one of two; two places,
  each writable or not, with directories or without; a package may have disabled.
* "jobs": a job of each kind, a ServerJob and one that it adds.
* "config": every file of up to four lines out of nine, with and without arguments.
  "writable": every document of up to five letters with a line in it, with two
  edits. "arg": every command line of up to three words. "reader": two entries with the
  separators of the log in every field that may hold them.

### Why the bounds are enough to be of interest

Two clients are needed for a change of mind (start and stop, start and shutdown)
and more only repeat it; requests between two boot targets give restarts, so that
old reports meet new launchers. Three services give a chain in which one is both
dependency and dependent, a service reached by two ways (`log`, from `app` and from
`db`), and walks of a list during which another call edits a list. In `PxIPCServ` a
buffer of 4 is filled by a command of 4 letters, exceeded by its zero byte, and
smaller than two commands together, so that a recv ends within a command. The logger's
read of two letters ends within a line and holds two line ends at once. In `PxInit`
one fork during the walk gives a process that is not in the list of the round.
Two sessions are one that opens before the daemon of the other has gone or as it
begins, and one that finds it gone; with them TLC reaches every misfortune of sessions
in section 4. One press of ctrl-alt-delete is enough, since a second finds its target set.
Clients are interchangeable and are a symmetry set in the
safety run only.

`CHECK_DEADLOCK FALSE` where there is a finite number of commands, sessions or
edits, or a program that ends: when all has been done and everything is at rest the
system waits for ever, as the daemon does in `usleep`.

### Fairness

* `WF(Boot \/ Run)`, `WF(Deliver(s))`: the loop of `main()` is never left, and each
  of its rounds reads every connection. Clients owe nothing.
* `LaunchFairness`: a launcher polls its flag, and every command but the Command
  itself ends. It is an assumption about the service's own StartCommand,
  StopCommand and FailCommand; nothing in the code limits their time. A Command
  may run for ever until it is killed.
* In `PxIPCServ`: the tick goes on, and a client that waits for a reply reads it
  (`Raw_ClientRead` polls). Clients may stay connected for ever.
* In `MCPxAround`: the daemon and the launchers as above, also in the statements of
  `setTarget` (`GoesOn`) and when it reads a report (`Delivers`); a pending signal is
  delivered (`Onint`), and pxctl reads what it waits for.
* In `MCPxBoot`: the logger's loop goes on, and so does each writer.
* In `MCPxUse`: a process that has begun to open or close a session goes on, and the
  loop of each daemon does; a session need not be closed.

Strong fairness is not used.

### Assumptions of the instances

* `Wraps = FALSE` (`PxKernel`): a new process has a larger number than all others.
* `Spaced = {}`, `Lookalikes = {}` (`PxShutdown`): no space in the name of a process,
  and no mount whose directory only begins like `/sys`, `/dev` or `/proc`.
* In `PxTimers` the int holds the clock (`Epoch = 0`).
* A package disables services but does not enable any ("enable").

Each is a case in which the code does something else; section 4 says what.

## 4. What the model disagrees with

Shown by a run:

1. *`ShutdownTakesPrecedence`.* `PxService.hpp:84`: "System shutdown takes
   precedence over all other things." A service that is Starting when the target is
   set finishes and stays Running: `finishStart` updates the dependents, never the
   service itself. The same holds of any stop that arrives during a start.
2. *`WaitingForAStart`.* `PxServiceHelpers.hpp:23`: "The service is waiting for a
   dependency to finish starting". When the dependency ends before it was Running,
   nobody tells the dependent, and Waiting has no way back.
3. *`StartsAfterDependencies`.* `PxService.hpp:427`: "Check if dependencies have
   started." `start()` gives up at a dependency that does not exist and leaves the
   service Waiting for the ones before it; when they run, so does the service.
4. *`ErrorsAreIgnored`.* `PxJob.hpp:40`: "Ignoring error in job ". The job is marked
   finished and erased; for the server's job, one connection's error ends the
   service of all.
5. *`FailedIsNotMounted`.* `PxFilesystem.cpp:82`: "fsck failed". `system()` returns a
   wait status, with the exit code in the second byte, and the tests are on the
   first: an fsck that exits with 4 counts as passed.

Met while modelling; the models can show them with other constants, no run does:

* A service with `IgnoreShutdown` that depends on an ordinary one keeps it up
  (`PxService.hpp:87`), and the shutdown target is never reached.
* `pxctl start` of a service that runs already waits until the service next changes
  state (`PxServiceManager.hpp:66`). When the fork of a dependent fails inside
  `finishStart`, who asked for the dependency is not answered either, and a console
  that is suppressed after the same failure is unsuppressed once too often.
* `pxctl disable` removes one file for each target (`PxControl.cpp:70`): a service
  that is enabled by its package as well stays enabled. When no place can have its
  directory, `err` is read without having been set; the model takes either outcome.
* A service that ends before it was Running is announced as "Started", because
  `finishStop` completes whatever task it has in success (`PxService.hpp:385`).
* When process numbers have wrapped round, a process that forks behind the walk in
  each round survives all of them (`PxShutdown.cpp:98`). A file system on `/sysroot`
  is left alone like `/sys` (`:54`, `:82`).
* A process collected by its parent between the opening and the reading of its
  `stat` ends the walk of the collector (`PxInit.cpp:54`), with zombies ahead of it; and
  a zombie whose name has a space is not recognised (`:55`).
* `PxDaemon` says "Starting anyway..." when its log does not appear in time
  (`PxDaemon.cpp:230`), and exits in the open that follows.
* Sessions of one user: a session that logs out before the daemon has received the "inc" of
  another takes the count to 0, and the daemon leaves under the other
  (`PxDaemon.cpp:147`). Of two sessions that open at the same time each may ask for a
  daemon (`pxpam.cpp:43`); the second daemon removes the path of the first and binds its
  own; nobody finds the first any more, and it may never leave. The session that
  closes looks for a daemon anew, and logs out with one that has not counted it: that
  one leaves under its own session.
* A session that has asked for a daemon waits without asking again (`pxpam.cpp:65`). It waits
  for ever when the fork fails; when another session has used the daemon and closed
  meanwhile; and when the socket of its daemon is removed. The last needs no failing
  call: of two daemons that begin together the second removes the socket of the first
  just before the `chown` of the first, which therefore leaves `main` and, as it is still
  root, removes what is at the path in `~Server` (`PxIPCServ.cpp:283`), by then the socket of the
  second.
* A press of ctrl-alt-delete between the check of a `setTarget` of a base target and its
  `AddTarget` (`PxServiceManager.hpp:136`, `:140`) is lost: `AddTarget` drops what the
  handler has added. Pressed before "boot" is set, when nothing is loaded, it runs
  the command of "reboot" at once, and "boot" is set all the same.
* `dispatchState` returns at the first subscriber that is busy (`PxService.hpp:139`): with a client
  that subscribes twice without reading, others are told twice or not at all.
* The last time of a timer is an int of a 64-bit clock in milliseconds
  (`PxJob.hpp:93`): a clock that does not fit makes every timer due at each tick.
* `ReadConfig` drops what `ConfSetValue` returns (`PxConfig.cpp:105`), so that a refused
  value goes unreported; an empty block takes its last character from an empty
  string (`:116`).

What the properties leave room for because of these: `OrderlyShutdown` is stated
for a shutdown that begins while nothing is being started. `NoLostLauncher` is
stated for runs without failing calls: after a failed `raw_start` a service is
Starting with no launcher. `RepliesMatch` is checked where every client reads: one
that subscribes twice without reading is busy, `dispatchState` returns at it without
unsubscribing anybody, and the others are told the same news twice. `RefsAgree` asks
only of daemons that have received all that was sent to them, and were told of
the end of each of their sessions and of no other's (`misled` keeps the others); so
does `LastOneOut`. `OpenReturns` is checked for sessions that stay, without failing calls,
and up to the first removal of one daemon's socket by another that exits (`robbed`).
`SignalShutsDown` gives up when a target that does not shut down takes the place of
the handler's. `UsefulIsAnswered` asks of services that do not depend on each other, and of
requests that change something. `ZombiesAreCollected` is checked where the process that
vanishes is the last of the walk. What lies outside of the last two, a busy subscriber,
and a service with `IgnoreShutdown` that depends on another are hazards of PROJECT.json that no
property covers.
`ConsoleIsRight` is checked where nothing depends on a service that uses the console.
`DisksAreSafe` asks that what was not saved is noted, not that all is.

### The abstract specifications

`PxSupervision` keeps, for each service, whether it has a process (`up`), whether it
has finished starting and is to stay (`running`) and whether it was told to stop
(`told`). It lets a service be brought up only when all it requires is running, and
told to stop only when nothing that requires it is up. `PxDaemon` implements it
under the mapping in `PxDaemon` (`Supervision`, `Supervised`): through nested
updates, missing services, failures and shutdown the order of starts and stops
holds, in the safety run's instance by TLC and in general by proof. No mandatory
dependency may be missing; finding 3 is what happens then.

`PxConfigTable` is a table: for each key a sequence of values, in which one is
replaced or a new one put in at any place. `PxWritableConfig` implements it (`TableSpec`) with a
tree of tokens that keeps blanks, comments and separators: whatever the document
looks like, the edits of a key do what they say and leave the other keys alone.

## 5. Proofs

Every theorem is for all values of the constants that satisfy the named assumptions of
the module it is about (constants are of the right kind; TLC evaluates these in every
run), and the hypotheses in the third column.

| theorem | `Spec =>` | also assumes |
|---|---|---|
| `PxDaemonProofs!LauncherInvariant` | `[]LauncherInv` | |
| `PxDaemonProofs!OneLauncher` | `[]NoStrayLauncher` | |
| `PxDaemonProofs!LauncherReports` | `[]NoLostLauncher` | |
| `PxDaemonProofs!Conversations` | `[]WellFormedConversation` | |
| `PxDaemonProofs!TypeCorrect` | `[]TypeOK` | |
| `PxDaemonProofs!QuietShutdown` | `[]ShutdownIsQuiet` | |
| `PxDaemonEdges!EdgesMirror` | `[]EdgesMatch` | `Acyclic`, `IgnoreClosed` |
| `PxDaemonEdges!TheDeadHoldNothing` | `[]NoEdgeOfTheDead` | the same |
| `PxDaemonEdges!NoListChangesUnderAWalk` | `WalkedListsStay` | the same |
| `PxDaemonSupervised!DaemonSupervises` | `Supervised`: `PxDaemon` implements `PxSupervision` | the same, `AllInstalled` |
| `PxSignalsProofs!CtrlAltDelete` | `[]ListsAgree` (of `SignalSpec`) | `Acyclic`, `IgnoreShutdown = {}`, `SignalTarget` is a shutdown target |
| `PxAroundProofs!PxctlSpeaksTrue` | `[]SaidIsTrue` (of `ControlSpec`) | |
| `PxAroundProofs!ConsoleShowsTasks` | `[]ConsoleIsRight` (of `ConsoleSpec`) | `UseConsole` is finite, `NobodyNeedsThem` |
| `PxInitProofs!OnlyLateOnesRun` | `[]LateOnes` | `ProcAssumption` |
| `PxInitProofs!DisksAreQuiet` | `[]QuietDisks` | and `FewForks` |
| `PxInitProofs!DisksAreLeftSafe` | `[]DisksAreSafe` | and `MountsAssumption` |
| `PxInitProofs!NoZombieStays` | `[]ZombiesAreCollected` | no spaces; for behaviours with `[]NoneVanishes` |
| `PxIPCProofs!Types` | `[]TypeOK` | |
| `PxIPCProofs!CommandsAreFramed` | `[]Framing` | |
| `PxIPCProofs!OneReplyAtATime` | `RepliesMatch` | `WhoAwaitsReads` |
| `PxUseProofs!Invariant` | `[]IInv` (of `PxFilesystem`) | |
| `PxUseProofs!NothingMountedIsChecked`, `AllCheckedFirst`, `FirstPassFirst` | `[]NeverWhileMounted`, `[]CheckedFirst`, `PassesInOrder` | |
| `PxUseProofs!TurnsAreFew` | `[]TurnsMissed` (of `TimersSpec`) | a job is added once |
| `PxUseProofs!SessionsAreCounted` | `[]RefsAgree` (of `SessionSpec`) | |
| `PxUseProofs!PxctlMarks` | `[]SuccessMeansDone` (of `EnableSpec`) | `WritesWhereItSearches`, `PackagesDisable` |

The inductive invariants were checked with TLC on instances of the size of the runs
before they were proved.

### The daemon

*Launchers.* `NoStrayLauncher` and `NoLostLauncher` are not inductive. That reading `finstop` leaves the outbox empty needs
that a farewell is the last thing in it and that its launcher is gone
(`FarewellIsLast`); that a launcher is forked only where none is left needs
`NoStrayLauncher` of the Waiting service; and the statuses that count as up must
change only with the launcher. The invariant is the conjunction of these with the
types they need (`LauncherTypes`, of the four variables involved). The steps are
split by what they do to those variables: a fork, a failed fork, an interrupt, a
silent step, an announcement and a farewell of a launcher, the reading of each
report, a change of status that takes nothing up or down, and everything else,
which leaves the four alone. Requests of clients (`RequestLauncher`), walks of
lists and `setTarget` (`CallLauncher`) fall into the last two classes.

*Conversations.* What is unread is a piece of one of the conversations, and the stage
of the launcher says how far in that conversation it is (`InConversation`): the same
unread messages may belong to several, until the launcher decides.

*Types.* `TypeOK` is not inductive either. When a nested call returns, `start()` goes on at
the index and label its frame has kept, looks up the Depend or After line there and
adds an edge: that the line exists is not a matter of that frame's type. `TypeInv`
therefore asks of every frame, wherever it is in the stack, that its label agrees
with its index (`GoodFrame`). The proof has a lemma for what each way of going on
does to the stack (`ContinueTypes`, `InvokeTypes`, `ReturnTypes`, `ServeTypes`), one
for each helper that edits a list (that `RemoveFirst` and `RemoveFirstMatch` of the
community modules return sequences rests on the well-foundedness of `<` on the
naturals, for the first index), and one for each group of actions.

*Shutdown.* A shutdown target is reached when the services in the manager's map are
down, so nothing outside the map may ever be up. `update()` is called through Depend
lines, After lines, edges recorded long before, and frames that have been waiting;
`MapInv` says that all of these name services in the map, and that what is outside it
is as it was at the beginning.

*Edges.* `EdgesMatch` speaks of the daemon between commands; the invariant
(`Upright`, which is `TypeInv`, `LauncherInv` and `EdgesInv`) must speak of it in the middle of nested
calls. It has three parts. `LockInv`: a service that is being started is not locked by a
failure, and one that is up and locked is about to be stopped by the only call there
is. `FrameInv`: what holds of each call (`Alone`), and of each two of which one is above the
other (`Nested`): above a `finishStop` of a service there are only calls on the
services below it, each of which stops only what nobody needs (`Climbs`), and nothing
above a call that walks `dependedBy` starts anything (`Calm`). `EdgeInv`: there are
as many edges to `b` in `deps[a]` as edges to `a` in `dependedBy[b]` (`Mirror`); while
`a` is in `finishStop`, those it has not come to yet (`Half`). The multiplicities
matter, as a service may name another on several lines, so the lemmas about
lists count: what an append and a removal do to `Count` and `Rest`.
`WalkedListsStay` follows from the same invariant.

Both hypotheses are needed. `Acyclic`: no service is below itself through Depend and After lines. A service that names
itself in an After line is started again in the middle of its own `finishStop`. For
rings of two or three services TLC has found nothing, but the proof is by level.
`IgnoreClosed`: what a service with `IgnoreShutdown` needs ignores the shutdown
too. Let `x` with `IgnoreShutdown` need `d1` and `d2`, and `d2` need `d1`. When `x`
is restarted and a shutdown target is entered but fails to switch the console,
`finishStop(x)` stops `d1`, which stops `d2`, which updates `x`; `x` is started
and clears the list that `finishStop(x)` is walking. TLC finds both. `daemon_safety` is an
instance that satisfies all the hypotheses.

*Supervision.* For each change of a status the step must be one of the five of
`PxSupervision`. Two are hard. A service is brought up by `update` when what is in
`deps` runs, but what is required is a matter of the Depend lines; so a service that
waits must have recorded all mandatory lines (`Complete`). That fails when `start()`
gives up at a line because the service there could not be started; then that service will
never run, and so the one that waits never will (`Doomed`). A set of services is
hopeless when each is Starting without a launcher (`Stillborn`: its fork failed) or
waits for one in the set: the first of them to run would need another to run before. A service joins
such a set by an error that a nested call has returned (`ErrorInv`). `WaitInv`
says that who waits is complete or doomed, `UpInv` that who is up is complete, `NewsInv`
that who announces that it runs was Starting, and `CallInv` what is true of each
`start()` in the stack (`Fine`: lines before its index are recorded), of
what is above it (`Over`) and directly above it (`Linked`). That
nothing which requires a service is up when it is told to stop is `EdgesMatch` again,
with `UpInv`. `AllInstalled`, that every mandatory line names a service that is
installed, is needed because of finding 3.

### Ctrl-alt-delete

The handler may lie on any call, so what `FrameInv` says of two calls, one of which is in
the other, is no longer true of all that are in progress. `SignalInv` says two things
instead. Without a handler, it is what the daemon's proof has. With one (`HandlerInv`),
the calls below it, counted from the first, are as `FrameInv` says (`Orderly`), so that
they are found as they were left; and what lies above it is little. Its target is a
shutdown target and every service must stop, so it calls `setTarget`, `update` and `stop`
and nothing else: no edge changes, no start or `finishStop` begins, nobody is locked.
`IgnoreShutdown = {}` is needed: with a service that ignores the shutdown TLC finds a
handler that starts a service in the middle of its own stop. The statements of a
`setTarget` of the main line run when no call is in progress and only bring a frame of their own
(`MainChanges`), and there is a target when they come to the updates (`EnteringInv`), even
if the handler has run between them.

### The console

`ScreenIsTasks` is about each operation of the log: whatever the screen shows stays what
the tasks are (`Neat`), if nothing unsuppresses the log before it was suppressed. That this
does not happen is a matter of the services: the log is suppressed as often as there
are services that use the console and are Running or StopWaiting, without the one that is
still in `finishStart` (`Using`, `LogInv`). `UserInv` says how far such a service has come:
that it runs is unread only while it is Starting; its `finishStart` is one step; it is
StopWaiting only with its stop about to go on; and once it is read that its Command is over,
its update is the next call. All of this is so because nobody depends on it
(`NobodyNeedsThem`). Where somebody does, TLC finds a `finishStart` that returns with
the error of that dependent's fork before it has suppressed the log; the later
`raw_stop` unsuppresses it all the same.

### pxctl start, stop and restart

`SaidIsTrue` compares what is printed at the end with what the services have been since
the first command. The daemon gives news to whoever is subscribed to a service when its
status changes, without saying which command they answer. `ControlInv` extends `TypeInv`
by three parts. `TalkInv`: the commands a client has dealt with are a beginning of its
line, and each has been honoured (`DealtWith`). `AskInv`: a client is subscribed to the
service of its current command only, and never once it has news to read, so that what
it reads is not about an earlier command. `AnnounceInv`: whoever is subscribed while a
`finishStart` of the service is anywhere in the stack has seen it Running; a nested
call may have stopped the service again by the time `dispatchState` says "started". It
holds because no step of a call pushes another `finishStart` (`RunAnnounces`) and
commands are read only between calls. The proof says what each step of the daemon
tells clients (`Tells`) once, and uses that for each part.

### Process 1

`LateOnes` says that what still runs when the shutdown turns to the disks has slipped
through all the rounds: at least `Rounds` numbers were given out after any process of
the beginning. `KillInv` has, for a round that is going on, what the walk over `/proc` has not
seen: it is ahead of the walk or has a number above those of the round before. With
fewer numbers than rounds (`FewForks`) nothing is left but what may be ignored
(`QuietDisks`). `ProcAssumption` (numbers have not wrapped, what is left alone does not
fork) is what section 4 is about. `DisksAreSafe` is about the rest of the walk: what has
been dealt with so far of the list of mounts, in its order (`DiskInv`);
`MountsAssumption` is that nothing is mounted over the file systems of the kernel, and a
mount on a directory comes after the one the directory is on. `ZombieInv`: a zombie is ahead
of the walk of the collector, or a SIGCHLD is pending; it holds as long as no process
vanishes while its `stat` is being read, which ends the walk early.

### The other ones

*The server.* `TypeOK` of `PxIPCServ` is about indices: connections that are to be closed are
in the list though it shrinks while it is walked, and the place in it is there as long as a
command is being read or an answer sent (`Places`). `Framing` keeps account of each
byte a client has written: it is in the socket, in what recv has returned, in the command that
is being put together or in one that was executed, and these one after the other are what was
written. `FInv` adds how far each client is in its script (`Reached`), that a connection which
is marked to be closed is of a client that has left with nothing unread (`Silent`), and
that no connection is listed twice (`Distinct`). What is written grows by one packet at a time;
that flattening one sequence more appends it is shown for the library's recursive function by the first
place at which two such functions could differ (`JoinsAgree`, `FlattenLonger`).

`RepliesMatch` follows in two steps. From the bytes: what is kept of a command when its end
is found is the next command of the script (`NextCommand`), since what is not executed begins
with the packet of that command (`NextPacket`) and the first zero byte in it ends its text
(`FirstWord`). From the commands (`RInv`): until the command a client is at is executed nobody
has anything to tell the client (`PendingAt`), and from then on, while it waits, it is either
subscribed or one reply is on its way, in three pieces at most: sent and read, sent, not sent
(`ReplyAt`). So the slot for replies is free whenever something is to be put in it, no
subscriber is busy, and the news reach all of them. This needs that who subscribes reads
(`WhoAwaitsReads`); without it TLC finds a client that subscribes twice and blocks the news of
the others (section 4).

*Jobs.* In a tick that is going on, a job that has been passed over is owed a turn, and has
missed fewer than have been erased (`PassedOver`).

*Sessions.* The references of a daemon are the sessions whose "inc" it has received and
whose "logout" it has not (`Counted`); when nothing is left to receive these are the sessions
that are in. To know that a logout is never received before the inc of its own session
one must look at the walk: of the two connections the one of "inc" has the smaller number,
so it is accepted first, and as long as its command is unread the walk has not passed
it with the other one accepted (`InOrder`). A session that has something to write has a connection that was
not purged (`TalksTo`), and what is marked closed has nothing unread (`ConnsOf`). All this is of
daemons that are not `misled`; of any daemon it is so that it has no connections when it does
not listen (`Hushed`), and no sessions before it does (`Homes`). Nothing is assumed about
how many sessions open at once or what fails.

*pxctl enable and disable.* A service is disabled for a target at the last place only and
enabled only at the first that can be written (`OnePlace`); the lines and places behind the two
loops are as the command wants them (`LinesDone`, `PlacesDone`), and what was said of other services
stays so (`SaidSo`). The hypotheses are those under which the code is right: it removes
one file for each target, and takes the `errno` of the last place for that of all.

*File systems.* That nothing is mounted before it was checked is a matter of
`checked_set`, which is not what the property speaks of. `IInv` adds to `TypeOK` and
`NeverWhileMounted`: the devices mounted at the start stay in the set (`SkipDevices`);
a name in it denotes a device that fsck has seen or that was mounted (`Marked`); the
entries behind the loop are in it unless the flag for another round is up (`Behind`);
and what the first pass has left stays done when the set is made anew (`Passed`).
Each step of the loop is an instance of one lemma (`LoopStep`); the end of a pass is
where `Behind` becomes `Passed` (`PassIsComplete`).

### Only model-checked

* All liveness: fairness and ENABLED are beyond the prover.
* `ReadsBack`, `ConfigValues`, `TableSpec`, `ClusterIsShorthand`: the parsers and string
  functions are recursive. TLC compares them with what they should give over all
  small inputs.
* `WholeLines` of the logger: a text is cut into lines by a fold, and that the cuts of two
  reads are the cut of both together is an induction over data as well.

## 6. Not modelled, and the plan

Not modelled: `export`, `query` and `list` of the daemon, per-target commands, the
userdata of connections, an error of accept (parts of components that are listed as
partly modelled); PxProcess (wrappers without a state), PxLocale and PxState (each
reads or writes one file), PxLoader (a stub), sendmsg and the test programs. OscJob
repaints a line; its timing is in `PxTimers`, what it draws is not modelled.

What would come next:

1. Proofs: `Acyclic` weakened to services that do not name themselves; `CtrlAltDelete`
   with services that ignore the shutdown, except those that are being stopped.
2. A composition of `PxSession` with `PxSignals`: the SIGTERM of a user's daemon while
   its services stop.
3. The crash of a launcher, when the code has come to handle it (`todos`).
