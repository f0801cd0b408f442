# Verification of the BSSP programs

TLA+ models of the programs of this repository, TLC runs that check them on
small instances, and TLAPS proofs that hold for every instance. The repository
is the exercise collection of an operating-systems course: a dozen small C
programs, each with its own main or module init, most of them in two or more
processes that share a device, a memory, a queue or a table. What is hard in
them is never the length of the code but the order in which several processes
get to run it.

Contents: [inventory](#inventory), [modules](#modules), [runs](#runs),
[findings](#findings), [proofs](#proofs), [what is not covered](#not-covered),
[plan](#plan), [how to run](#how-to-run).

## Inventory

| Part | State | Operations | Interaction | Module |
|---|---|---|---|---|
| `7_cdrv/cdrv.c` device | per minor: `buffer`, `buffer_size`, `current_length`, `writing`, `reading`, `sum_*`; semaphore `sync`; queues `wq_read`, `wq_write`; per file `f_pos` | open, release, read, write, five ioctls | any number of processes; semaphore, sleeps, signals | `CharDevice` |
| `6_cdrv/cdrv.c` device | as above without queues, fixed size | open, release, read, write, clear, counts | processes, semaphore | `FirstDevice` |
| load and unload of both, `/proc` | region, class, proc entries, cdevs, nodes | init with goto unwinding, exit, seq_file | the kernel, programs that use what is made so far | `DriverLoad` |
| `5a_*` | POSIX message queue of 10 lines | send; receive, unlink | menu to display | `Pipeline` |
| `5b_*` | shared memory of one line, semaphores `semwrite`, `semread`, three names | create, write, read | menu and displays take turns | `ShmChannel` |
| `5d_*` | queue, FIFO | send; receive, `toupper`, write; read | menu to compute to display | `Pipeline` |
| `5e_*` | queue, two FIFOs | as 5d, lower and upper case | menu to compute to two displays | `Pipeline` |
| `ChatServer/server.c` | table `clientfds`, `aktclients`, `clientfd_mutex`, descriptors | accept, insert, tell all, remove | a thread per connection | `ClientTable` |
| `ShellServerThreaded/shell.c` | the same table, per-thread `client`, process-wide directory, environment and log | builtins, fork and exec, log | a thread per connection; four mutexes | `ThreadedShell` |
| `Backup`, `Recover` | archive file | write and read an archive | through the file | `Archive` |
| `ChatClient` | terminal | two copying threads | socket | none |
| `ShellServer/shell.c` | log, semaphore | the same engine | a process per connection | none |
| `Shell/shell.c` | environment, directory | the same engine | one user | none |
| `passwd/passwd.c` | as the threaded shell | one connection | socket | none |

What makes the parts correct, and what is hard about it:

* **Device (7).** The semaphore excludes and comes back, unless a size is refused or a
  process dies with it; allocation, size and length agree; readers get written bytes
    only; at most one file is open for writing; a sleeper whose condition holds is woken.
  Hard: reads and writes give
  the semaphore up in the middle, decide before the sleep and act after it; the
  wait conditions are tested without it; five ioctls change length and size in
  between; `IOC_NR_SETBUFFERSIZE` falls through into `IOC_NR_TRUNCATE`; one error
  path forgets the `up`.
* **Device (6).** Memory nobody has written is never read, and what a clear removed
  stays removed. Hard: every file has an offset of its own, and a clear resets one;
  `pwrite` names any; a write that copies nothing raises the length all the same.
* **Load and unload.** Everything taken is given back, nothing is used before it is
  set up or after it is freed. Hard: every step may fail, a chain of labels undoes
  what was done, one failure is reported as a success, and programs already use the
  first devices meanwhile.
* **Shared memory.** Nobody copies while another one does; every line reaches a
  display once; nobody waits for a turn that is lost. Hard: named objects outlive
  the programs, and who opens what depends on when it is started.
* **Queue and pipes.** Every line is shown, in order, and the word quit ends all
  programs. Hard: a pipe is a stream, its open waits for the other side, names
  are unlinked while others start.
* **Client table.** Entries point to stacks of live threads; nobody is missing;
  broadcasts do not mix. Hard: the table has a limit whose failure is ignored,
  descriptors are closed twice and reused, the mutex is held while writing to
  sockets, and a write to a client that has left may end the server.
* **Shell servers.** A command runs in its client's directory, with its path and
  mask. Hard: these belong to the process, not to the thread.
* **Archive.** Recovery restores what was backed up. Hard: the archive has no
  redundancy; one wrong length shifts everything after it; files change between the
  look at their length and the copy of their content; disks are full, and the result of
  a write is not looked at.

## Modules

| Module | Models | Role |
|---|---|---|
| `CharDevice` | `7_cdrv/cdrv.c` 61-68, 78-82, 152-173, 227-595 | one minor device and its open files |
| `ByteStore` | | abstract: what the device promises about its contents |
| `FirstDevice` | `6_cdrv/cdrv.c` 36, 54-61, 108-117, 158-329 | the device of fixed size |
| `DriverLoad` | `6_cdrv/cdrv.c` 72-162, 202-210; `7_cdrv/cdrv.c` 34-35, 108-225, 598-647; `7_cdrv/Makefile` 28-30 | init, exit and `/proc` of both drivers |
| `ShmChannel` | `5b_Menu/menu.c`, `5b_Display/display.c` | menu, displays, names, semaphores, memory |
| `Pipeline` | `5a_*`, `5d_*`, `5e_*`: `menu.c`, `compute.c`, `display.c` | menu, queue, compute, pipes, displays |
| `ClientTable` | `ChatServer/server.c` 26-117, 152-169 | threads, table, mutex, descriptors; `ShellServerThreaded/shell.c` 120-157 is the same code |
| `ThreadedShell` | `ShellServerThreaded/shell.c` 54-60, 113-118, 159-182, 228-243, 304-342, 414-433, 469-481, 502-555 | commands, directory, environment, log, children |
| `Archive` | `Backup/backup.c` 28-153, `Recover/recover.c` 34-203 | an archive, how it is made and read |
| `CharDeviceProofs`, `FirstDeviceProofs`, `DriverLoadProofs`, `ShmChannelProofs`, `PipelineProofs`, `ClientTableProofs`, `ThreadedShellProofs`, `ArchiveProofs` | | theorems |
| `MCCharDevice`, `MCFirstDevice`, `MCDriverLoad`, `MCShmChannel`, `MCPipeline`, `MCClientTable`, `MCThreadedShell`, `MCArchive` | | model values for TLC |

In all modules an operator whose name ends in `Mut` (or `Never`) is the operator
after it with a plausible bug. No specification uses it: it is there to show that
a property would notice the bug.

### CharDevice

`dev` is `struct my_cdev` without the counters, which are `sum`; `pc`, `call`,
`pos` and `ret` are the processes: where each one is in its call, the arguments
and locals that live on, `f_pos`, and what the last call returned. A byte is the
file that wrote it, `Zero` (what truncate fills with) or `Junk` (what `kmalloc`
left): the properties ask no more of a byte. The five minor devices share no
state, so one is modelled.

| Action | Code |
|---|---|
| `Call` | the system call up to `down_interruptible` |
| `Down` | `down_interruptible`, the first and the one after a wait |
| `OpenBody`, `ReleaseBody` | the rest of `mydev_open`, `mydev_release` |
| `ReadBody`, `WriteBody` | `mydev_read`, `mydev_write` up to the wait, or to the end |
| `WaitTest` | one test of the condition of `wait_event_interruptible`, without the semaphore |
| `ReadRest`, `WriteRest` | after the second `down_interruptible` |
| `IoctlCount`, `IoctlClear`, `IoctlResize`, `IoctlTruncate` | the cases of `mydev_ioctl`; `IoctlResize` leaves the process at `"tail"`, from where `IoctlTruncate` goes on, as the missing `break` does |
| `Signal` | the `-ERESTARTSYS` returns |

What the code does between two such points happens under the semaphore and is one
action. The exceptions are real and kept: a refused size returns with the
semaphore down (`n <= 0` in `IoctlResize`), a failed reallocation leaves `buffer`
NULL, and a copy to NULL ends the process at `"oops"`, with the semaphore.
`NULL` is the empty sequence, an allocated buffer has at least one byte. The
comparison of `int allowed_count` with `size_t count` is unsigned (`Limit`). A copy
from or to a NULL buffer of more than 0 bytes faults; faults of the *user's* buffer
are left out. The offset of a read or write is `f_pos`. `pread` and `pwrite` would
only name another one: a write offset behind the contents is reset (`WriteOffset`), a
read there finds the end, and the proofs use no more of an offset than that it is a
natural number.

### ByteStore

A sequence never longer than `size`, with write at or inside the end, restart (a
write that waited), clear, truncate with zero fill, and resize. `CharDevice`
implements it with `data` the bytes below `current_length` and `size` =
`buffer_size`. It says that no stale offset of any open file ever makes a gap or
brings back a byte that was cleared. The device of `6_cdrv` does not implement it:
its writes may begin behind the end, and `NothingUnset` and `ClearedStaysCleared` say
when, and what the contents are then.

### FirstDevice

Every handler of `6_cdrv/cdrv.c` takes the semaphore at its start, gives it back at
its end and waits for nothing in between, so a handler is one action: `MydevOpen`,
`MydevRelease`, `MydevRead`, `MydevWrite`, `MydevPwrite`, `MydevClear`. Calls that change
nothing (`EBUSY`, end of file, `pread`, an interrupted wait, the counting ioctls) are
left to stuttering. A close that is interrupted still closes the file, but does not
count down: the second disjunct of `MydevRelease`. A byte is the number of clears
before it was written, or `NULL`, which is what `kmalloc` left.

A write starts at `*offset`, which is `f_pos`, or what the caller of `pwrite` names (the
driver does not call `nonseekable_open`), and both come to `Copy`: some number of bytes,
perhaps none, and then `current_length` is raised to the offset behind them, *also when
none was copied* (`cdrv.c:280-282`). So a file that kept its offset over a clear brings all
bytes below it back when it writes at a full buffer and is told that there is no space.
`jumped` is what writes jumped over behind the end since the last clear, `skipped` what
had never been written when a `pwrite` jumped over it: the two exceptions of
the properties. A `pwrite` behind the buffer makes `allowed_count` negative, which as a
`size_t` limits nothing, and copies beyond the allocation: the model stops there
(`WriteOutside`, `wild`); when it copies nothing it only raises the length, after which
reads go outside too, which in the model moves the offset and nothing else.

### DriverLoad

`plan` is what `cdrv_init`, its labels or `cdrv_exit` have still to do, as a sequence
of things; `held` is what the driver has. `Load` takes one step of the init,
`LoadFails` goes to the label of the step that failed (`Unwind`), `GiveBack` takes one
step of the labels or of the exit. `device` stands for the fields of `my_devs[i]`,
which must be set before `cdev_add`; `memory` for the array itself. Between any two
steps programs open and close the devices that are there (`OpenDevice`, `Release`)
and read the file in `/proc` (`ShowProc`); `bad` collects what they, or the exit, touch
that was freed or never set. `Outcome` says where the last step leaves the driver. When
`class_create` fails, `result` is still the 0 of `alloc_chrdev_region`: the init goes to
`err2`, frees `my_devs` and returns success (`pc` is `"zero"`, then `"on"`). The driver
is loaded with the region and nothing else, and the next `rmmod`, forced or not, runs
`cdrv_exit` on the freed array and deletes devices that were never added. The index `i` has
no value before the loop: when `/proc` refuses,
`err3` starts from any index, and `cdev_del` of memory that was never a device ends
the run at `astray`.

### ShmChannel

`name` says which object each of the three names stands for, `obj` holds all
objects ever made, `open` which of them each process has. An action is one call
on a shared object: the setup of the menu is six (unlink and open for each name),
the loop of a display four, the last of which looks at the memory once more after
`sem_post`: `ExclusiveAccess` says in its second part how long that still is the
display's own line. `Orderly` says whether the menu is started only while no display
runs and a display only when the menu has finished its setup (or was never started,
in which case it finds no name and ends).

### Pipeline

The three exercises are variations of one program, chosen by `kind` in the initial
state. In 5a the consumer is the display, which reads the queue; in 5d and 5e it is
`compute`, which writes to one or two pipes. `queues` and `fifos` hold every object
ever made, `qname` and `fname` what each name stands for now. `MenuStart`, `MenuSend`
are the menu; `ConsStart`, `MakePipe` (unlink and mkfifo), `OpenPipe`, `Receive`,
`Write`, `UnlinkQueue`, `ConsExit` the consumer; `DispOpen`, `Read`, `ReadEnd`,
`DispEnd` the display at a pipe, and `Kill` its user. `open` of a pipe waits for the
other side, so the later of the two lets both go on. A `read` returns any number of
the lines that are there, and shows the first: `read` takes as many bytes as it finds
up to its buffer, and `compute` writes a line in one piece, so that lines merge when
the display is slower, and the last one may be cut. A write to a pipe whose display
is gone ends compute by SIGPIPE. A line is its number and one of three words: the
comparison with "quit" comes after the change of case in compute and its displays,
and before it in the menu. `mishaps` names what the programs do not allow for (two
lines merged, a display that came late or was killed, a name of another run
unlinked, SIGPIPE), so that the properties can say what holds without them and what
holds all the same.

### ClientTable

Connections are numbered as they come; `pc[c]` is the thread of connection c.
`files` is the kernel's descriptor table, `sock[c]` the number in the thread's
`client_t`: they part company when a number is closed a second time after it has
been given to somebody else. `src[c]` is the connection a thread is blocked on. A
broadcast has one step per recipient, and holds `mutex` meanwhile. `heard[c]` is
the number of the last line written to c. The server ignores no signal: a write to a
client that has left is lost as long as the client's reset has not come, and ends the
whole server by SIGPIPE from then on (`SigPipe`, for the prompt and for a line of a
broadcast: `WritesTo`). `clientfds[-1]` is memory that belongs to something else. In
both cases the model stops, and `fate` says in which (`killed`, `wild`).

### ThreadedShell

`proc` is what the process has one of: its working directory, the mutexes, the lock
inside `setenv`, the log file and what stdio holds of it (`buf`). `dir[t]` is the
thread's `client.cwd`. A child is a record in `kids` with what `fork` copied: the
process's directory, the client's own (`home`), unflushed output, and whether another
thread was in `setenv` (`blocked`: the child's own `setenv` then never returns). Waited-for
children leave `kids`; a background child leaves when it ends. Directories are a chain
given by `Enter`; `MayRemove` says which of them somebody may remove. A log entry is
the thread and the number of its command. `wild`: a `FILE` that `stop-server` closed is
used by another thread; the model stops there.

Some of the code's behaviour is an exception named in a property: a child that finds no
program calls `exit`, which writes its copy of `buf` (`LoggedOnce`); a client whose own
directory is gone starts from wherever the process is (`OwnDirectory`,
`CdFromOwnDirectory`); a `getlog` whose child does not end keeps the log (`LogIsGot`).

### Archive

Both programs and what happens between and beside them. `BackupSkip`, `BackupFile`
(`lstat` and header), `WriteContent` (open and copy), `BackupDir` are `backup`: header
and content are two steps, between which `Change` may make the file longer, shorter or
remove it. `todo` is the recursion of `BackupDirContent`, as what is left to visit;
the entries of a directory come in any order. `fds` are the descriptors left:
`BackupDirContent` never closes a directory, and below the limit goes on without its
contents. `Truncate` ends the archive anywhere (a full disk, which goes unnoticed, or
a stop). `recover` is `Start`, `Entry` (one header, with `RecoverDir` or `RecoverFile`),
`Content` (one buffer), `CloseFile` and `Crash`. A byte of the archive is the file it
comes from, or a header; a length is in units of the buffer, and `FileEnd` is the int
that recover counts down. Where recover takes one for the other it would make
anything of it, and the model stops (`lost`). `Mkdir` makes one level and fails
silently; `Creat` truncates a file that is there and keeps its mode; `fchmod` comes
behind the content.

The disk that recover writes to may be full at any moment, and have room again at the
next. `mkdir` is refused, which goes unnoticed; `creat` of a file that is not there is
refused, which ends the run; and `write` takes less than it was given, or nothing,
whose result is not looked at (`recover.c:157`): `Content` then adds no byte, counts down
all the same, and `CloseFile` protects what is short. A byte of the model is a buffer
of `BUFSIZE` bytes, and one that is written in part counts as not written, as the
properties ask only whether a file has all its bytes. `starved` has the files that lost
content when they were last made, and the directories that were refused in this run.

## Runs

| Run | Configuration | Checks |
|---|---|---|
| `cdrv_shared` | `MCCharDeviceShared` | exclusion, readers passed over, contents refine `ByteStore`, with two writers and a reader |
| `cdrv_sizes` | `MCCharDeviceSizes` | types, memory bounds, no junk, `ByteStore`, with resizes and failing allocation |
| `cdrv_wakeup` | `MCCharDeviceWakeup` | the two ways to lose the semaphore and no third, writers are woken, liveness |
| `cdrv_second_writer` | `MCCharDeviceSecondWriter` | violation of `SingleWriter` |
| `cdrv_read_after_wait` | `MCCharDeviceReadAfterWait` | violation of `ReadStaysInside` |
| `first_device` | `MCFirstDevice` | nothing unset is read, what is cleared stays cleared, but for what writes jump over |
| `driver_load` | `MCDriverLoad` | what failed loads keep, use of freed or unset memory, stray deletes, also after a class that failed |
| `shm_channel` | `MCShmChannel` | turns, exclusion, order of lines, liveness |
| `pipeline` | `MCPipeline` | lines shown, waiting opens, quit, in 5a, 5d and 5e |
| `client_table` | `MCClientTable` | table, order of broadcasts, everybody leaves or the server dies |
| `threaded_shell` | `MCThreadedShell` | own directory, log whole and in order, log is got |
| `archive` | `MCArchive` | recovery in full, damage goes forward only, stopped recoveries, full disks |

### Bounds

* **Files (2 or 3).** The hazards of the device need at most a writer, the process
  that changes the device under it, and a third that does the same to the second.
* **Sizes.** A device of one or two bytes has an empty, a partly filled and a full
  state; `Counts` hold a count that fits and one that does not; `Sizes` hold a
  refused one (0), a smaller and a larger one, or the same. With two bytes a write at an
  offset that a clear made stale would leave a gap, or bring a byte back
  (`cdrv_shared`). In `cdrv_shared` the second writer is opened with `O_NDELAY` and
  `O_APPEND`, so that both kinds of write are there. Of the two counting ioctls
  `cdrv_sizes` has `writecnt`: the other differs in the field it returns, which is
  never incremented.
* **CounterMod** is where the unsigned totals wrap. It is 1 (they are always 0), to
  keep them out of the state: no property of a run reads them.
* **FirstDevice: two files, three bytes, `pwrite` at 2 and 4, two clears.** One file
  that clears and one that keeps its offset, each of which may read; with three bytes
  that offset may lie behind, at and inside what was written since, and at the end of the
  buffer, where a write copies nothing. 2 is a jump inside the buffer, 4 one behind it.
  Files are symmetric: nothing tells one from another.
* **DriverLoad: three devices, two files each.** A first, a middle and a last device
  to fail at; one file that closes while another is open.
* **ShmChannel: MaxRuns = 2, MaxSent = 3, two displays.** A second run is what meets
  the objects of a first; three lines fill the one-line memory, overwrite it and quit.
* **Pipeline: MAX_MSG_COUNT = 2, MaxLines = 3, MaxRuns = 2.** Three lines for a queue of
  two: the menu waits, lines merge, one is cut, and something follows the quit. The
  second run is the one whose names a late display of the first unlinks.
* **ClientTable: Connections = 3, MAXCLIENTS = 2, MaxLines = 2.** One connection more
  than there is room, so refusals and their consequences happen, and a third to reuse a
  descriptor that is closed twice. Two lines besides the join messages interleave.
* **ThreadedShell: two threads, two commands each, three directories.** A command that
  changes something and one that suffers from it; the third directory tells a relative
  `cd` from the wrong place from one from the right place. The commands leave out the
  foreground program: a background one runs beside its own client too, and `getlog` and
  a program that is not found are foreground.
* **Archive.** `d/e/f`, an empty `d/e/x` and `g` beside the archive: a file two directories
  down, so that one level of `mkdir` is not enough, one at the top, and directories
  below one whose parent was not asked for. Sizes 0 to 2 with `Half` = 2: a
  file of 2 is longer than recover's int. One to four descriptors, where the tree needs
  four at a time. One change, at any point; three runs of recover, two of which are
    stopped; a full disk at any `mkdir`, `creat` or `write` of each. Six ways to call
  backup, in both orders and with a directory whose parent
  is not in the archive; `.` backs up nothing.

Two views leave out of the state what no later step reads: what a call of the device
returned (`WithoutResults`, in `cdrv_shared`, `cdrv_sizes` and `cdrv_wakeup`), and the
command of a thread that is done with it (`WithoutPastCommands`, in `threaded_shell`).
States that differ only there have the same steps, and the properties of these runs
cannot tell them apart (but `TypeOK`, which says what values those are). No step changes
nothing but what is left out, so fairness is the same.

Deadlock is not checked: in every program processes may all have ended, and on the
device all may wait, with nobody left to act (see below).

### What the passing runs assume

In `shm_channel` menu and displays are started one after the other (`Orderly`). In
`driver_load` `class_create` fails with NULL, which is what the code tests for; a kernel
that returns an error pointer would have the code go on with it. `cdrv_wakeup` has one
writer and no failing `kmalloc`, and `cdrv_shared` no truncate and no signals for
writers: the conditions of `WriterWoken` and `ReaderWoken` below, without which
sleepers are not woken.

### Fairness

* `CharDevice!Fairness`: a process in kernel code goes on (weak), and gets the
  semaphore if it is free again and again (strong): the kernel's semaphore hands
  itself to its waiters in order. No process has to make a call, and no signal has
  to come.
* `ShmChannel!FairSpec`: a program that can go on does. Nobody has to type a line
  or start a program.
* `Pipeline!FairSpec`: the same for the consumer and each display (weak: a queue that
  has a line, a pipe that has one, or an open whose other side is there stays so until
  the one who waits goes on). Nobody has to type, to start a program or to kill one.
* `ClientTable!FairSpec`: a thread that can run does, and sockets take what is
  written. Connections, data and departures are not fair. Broadcasts are finite in
  number under the bounds, so weak fairness is enough for the mutex. `SigPipe` is strongly
  fair: TCP answers what is written to a client that has closed with a reset, after
  which the next write raises SIGPIPE, whose default action ends the server, so that a
  thread does not write to a client that has left again and again.
* `ThreadedShell!FairSpec`: a thread that can run does (weak; commands are finite in
  number under the bound). No client has to type and no child has to end.

`Archive`, `DriverLoad` and `FirstDevice` have safety properties only: nothing waits in
them.

### What the properties say

The comment before each property states it. The ones a reader should know:

* `MutualExclusion`, `SemaphoreReturned`, `CallsGetSemaphore`: nobody else between a
  `down` and its `up`; of all paths through the handlers exactly two end without the
  `up`, a refused size (`cdrv.c:528-530`) and a copy to a NULL buffer, and then it is lost
  for ever (`Stuck`); until then everybody gets it. `cdrv_wakeup` reaches the refused
  size; the other takes a `kmalloc` that fails, which only `cdrv_sizes` has, and the
  theorem covers both.
* `LengthWithinBuffer`, `OnlyWrittenBytes`, `ImplementsStore`: every copy bounded by
  `current_length` or `buffer_size` stays in the allocation; contents are exactly
  what was written.
* `SleepingWriterHasNoRoom`, `RoomWakesWriter`: no lost wake-up for writers.
  `ReaderWaitsForWriteInProgress` is what is left of the same for readers: one that
  sleeps on data was passed over by a write that is itself still waiting.
* `NothingUnset`, `ClearedStaysCleared`: a file that keeps its offset over a clear
  writes behind the end, and then bytes from before the clear are in the contents
  again, but never one that nobody wrote: for that it takes a `pwrite`, and a `pwrite`
  behind the buffer for a byte outside it.
* `NothingLeftBehind`, `NoUseAfterFree`, `OnlyAddedDeleted`: the exact list of what a
  failed load keeps, and of who can use what it freed; a driver that is on has all its
  devices set up, or is one that went on without its class, and that is the only one
  that `rmmod` takes down over freed memory.
* `OneTurn`, `NothingLostOrDoubled`, `Handover`: the two semaphores and the
  processes together hold exactly one turn, so all lines arrive.
* `NothingMissed`, `Rendezvous`: what a display has shown, and that who waits in
  `open` waits for somebody who can still come, each with the mishaps it depends on.
* `NoDanglingClient`, `OneOrder`: hold in spite of refusals and reused descriptors.
* `EverybodyLeaves`: when all clients have left, their threads end, those that still ask
  for a name included, or a write to one of them ends the server.
* `TableComplete`: the table is exact until a refused client leaves, and then short
  by exactly one entry for each that did; memory outside is touched only after a
  refusal.
* `DamageGoesForward`: a length that does not fit its content does no harm to what was
  recovered before; `RestoredInFull` and `ProtectedIsWhole`: recover may be stopped
  and run again over what it left. A file is short exactly if the disk was full when it
  was last made (`Whole`), and a directory is missing only if the disk refused it or one
  above it (`Refused`): a full disk does no other damage, but recover says nothing of
  this one.

## Findings

1. `7_cdrv/cdrv.c:286`: `mydev_release` takes every file off `writing`. A reader that
   closes makes room for a second writer, which the test at `7_cdrv/test.c:76-80`
   expects to be refused. (`cdrv_second_writer`)
2. `7_cdrv/cdrv.c:366`: the part of a read after the wait counts the bytes of the part
   before it again, and copies beyond `current_length`. (`cdrv_read_after_wait`)

Seen in the models, but contradicting no statement of the repository, and therefore
without a run:

* `7_cdrv`: a write that fills the device sleeps before it wakes the readers
  (`cdrv.c:443`), so that it and a reader that waits for the full device both sleep on;
  an interrupted release and a refused size (above); `reading` is never incremented,
  so `IOC_NR_READCNT` is always 0; a resize continues as a truncate to the new size and
  returns the old length; the last writer's release wakes no reader.
* `6_cdrv`: a write behind the end after another file's clear brings old bytes back, and
  so does one that copies nothing, which raises the length (`cdrv.c:280-282`); a `pwrite`
  leaves bytes that nobody wrote below the length, and behind the buffer it writes
  to memory that belongs to something else.
* Loading: a failing class is reported as a success (`7_cdrv/cdrv.c:126, 133-136,
  199-200`): the driver stays loaded without memory or devices, and `rmmod` runs
  `cdrv_exit` over the freed array; a failing device leaves the class, the nodes
  and the buffers; the memory is freed under files that are open already; the index of
  the unwinding has no value when `/proc` refuses; the Makefiles force `rmmod`.
* 5b: the display gives the turn back and then decides from the shared memory whether
  to print (`display.c:64`), by when the next line may be there; a display started
  during the menu's setup holds objects of two runs.
* 5a, 5d, 5e: a menu that runs on after the consumer has unlinked the queue types into
  a queue nobody reads; two lines in one read, of which the second is never shown, and
  if it is the quit, the display shows its old buffer for ever; a display that ends
  late unlinks the pipe of the next run; SIGPIPE ends compute when a display is gone.
* Chat server: a refused client evicts another one when it leaves, and the last to
  leave writes `clientfds[-1]`; the second `close` of a thread may hit another client's
  connection; a client that leaves before it gave its name has its thread repeat the
  prompt; a line or a prompt written to a client that has left ends the server by
  SIGPIPE; a client that does not read blocks the thread that holds the mutex.
* Shell server: a client that leaves without `exit` keeps its thread in the prompt;
  `stop-server` closes the log under other threads.
* Backup and recover: called with `.`, which is also what no argument means, backup
  writes an archive of nothing; directories are never closed; a long file overflows the
  int that recover counts down; the comparison of the magic bytes reads a byte that
  was never set; `mkdir` makes one level; the result of `write` is not looked at
  (`recover.c:157`), so that on a full disk recover ends without an error and leaves
  short files, which it then protects.

## Proofs

### CharDeviceProofs

For every set of files and modes, every size and count, with signals and failing
allocations:

| Theorem | Statement |
|---|---|
| `InductiveInvariant` | `Spec => []IInv` |
| `TypeCorrect` | `Spec => []TypeOK` |
| `Exclusive` | `Spec => []MutualExclusion` |
| `MemorySafe` | `Spec => []LengthWithinBuffer` |
| `NoStaleBytes` | `Spec => []OnlyWrittenBytes` |
| `SemaphoreGivenBack` | `Spec => SemaphoreReturned` |

Assumptions: the named ones of `CharDevice` (every file reads or writes; counts are
natural, the initial size positive; `Junk` is neither `Zero` nor a writer). Sizes
are any integers, refused ones included.

The argument. `IInv` is `TypeOK /\ MutualExclusion /\ LengthWithinBuffer /\
OnlyWrittenBytes`. The memory parts need each other: a copy of `Limit(buffer_size -
off, n)` bytes stays inside the allocation only because `off <= current_length <=
buffer_size = Len(buffer)`, and new bytes below the new `current_length` are never
junk only because the write starts at or below the old one. They need `TypeOK`,
whose `CallOK` says what a process after a wait remembers: it is in a read or write
and has copied no more than it asked for, without which the rest of a write could
have a negative length. Exclusion needs that only a process past `down` gives the
semaphore back. Each part has a lemma per action (`...Type`, `...Memory`) or per kind
of action (`BodyExclusion`, `DownExclusion`, `QuietExclusion`); `NextInv` puts them
together, and each theorem is a corollary. The helpers' lemmas come first: `PutType`
and `GrowType` say which bytes a copy changes. `SemaphoreGivenBack`
follows from `IInv`: `BodyHolds` says of each body how it ends, with the semaphore
given back or kept by one that goes on, by a refused size (`Refuses`) or by a process that
dies; `BodySemaphore` and `QuietSemaphore` make of it that every step changes `Stuck` as
the property says.

The refinement of the byte store, from the same named assumptions:

| Theorem | Statement |
|---|---|
| `DeviceIsStore` | `Spec => ImplementsStore` |

The device refines `ByteStore` for every value of the constants. The store sees of the
device the bytes below `current_length` (`Contents`)
and `buffer_size`; the buffer behind the length, the semaphore, the queues and the
processes are hidden. `Fits`, which `IInv` gives, says that these bytes exist. The
lemmas `StoreWrite`, `StoreRestart`, `StoreClear`, `StoreTruncate` and `StoreResize`
say which change of the device is which operation of the store, and one lemma per
handler that it makes such a change: a write or the rest of one that waited is `Write`
or `Restart`, `IOC_CLEAR` is `Clear`, a resize is `Resize`
and, when it has no memory, leaves the store as it is or clears it. All else stutters.
The refinement needs one fact that the invariant lacks: a resize under way asks for
one of the sizes callers use (`ResizesAsked`).

No lost wake-up, for every set of files, size and count:

| Theorem | Statement |
|---|---|
| `WriterWoken` | if `BufferKept` and there is one file for writing, `Spec => []SleepingWriterHasNoRoom` |
| `ReaderWoken` | if no file makes a resize or truncate and no writer takes signals, `Spec => []ReaderWaitsForWriteInProgress` |

`BufferKept`: nobody resizes, or `kmalloc` does not fail. The conditions say what in
`cdrv.c` changes what a sleeper waits for and does not wake him: the rest of a write
moves the length below another writer's offset and wakes readers only, a shrink that
finds no memory empties the contents and wakes nobody, a truncate that adds bytes wakes
writers only, and a write that is interrupted while it waits never reaches its `wake_up`.
Without them the properties are false; the runs `cdrv_wakeup` and `cdrv_shared` choose
their constants accordingly.

The argument. A property about sleepers is not inductive by itself, for two reasons. A
resize lets the semaphore go only in its tail, which wakes writers unless it returns
early: `TailSize` (the tail still has the size it set) and `OpenHasBuffer` (who has the
file open has a buffer) exclude both early returns. And a write could die at a missing
buffer before it wakes the readers it has served: `OpenHasBuffer` again. `OthersMove`
says what a step can do to the other processes, `FallsAsleep` that who falls asleep has
just found that he must, `LengthFalls` who takes the length away, and `WriteStays` that
a write under way ends with the `wake_up`.

### FirstDeviceProofs

For every set of files, every size and any number of clears:

| Theorem | Statement |
|---|---|
| `TypeCorrect` | `Spec => []TypeOK` |
| `UnsetNeverRead` | `Spec => []NothingUnset` |
| `ClearHolds` | `Spec => []ClearedStaysCleared` |

The only assumption is the module's: the size is positive, `pwrite` names natural numbers
and `NULL` is none. `RoomType`, `WriteCopies` and `PwriteCopies` reduce a write to `Copy`
from a natural number, so that no theorem depends on where a write starts. `NothingUnset`
is inductive together with `TypeOK`, because it says of *every offset* what it says of the
length: a write behind the end starts at an offset below which everything was written
once, or skipped (`CopyFits`), and so does one that copies nothing; what a `pwrite` jumps over
is in `skipped` by then. `ClearedStaysCleared` is not inductive: it needs that no file has
seen a clear that has not happened yet (`SeenPast`), or a clear might make a file's
count of clears current that is not.

### DriverLoadProofs

For any number of devices and of files open on them, for either driver:

| Theorem | Statement |
|---|---|
| `Invariant` | `Spec => []Inv` |
| `GivenBack` | `Spec => []NothingLeftBehind` |
| `MemoryOutlivesUse` | `Spec => []NoUseAfterFree` |
| `DeletedWasAdded` | `Spec => []OnlyAddedDeleted` |

The only assumption is the module's: the drivers are 6 and 7, and the number of devices and
the bound on open files are positive.

The argument. The properties speak of what is held at the end of a load or an unload;
what is held on the way depends on how much of the plan is done. `MadeBy` and `ReturnedBy`
give each thing its place in `Setup` and `Teardown`, and `Phases` says for each phase that
`plan` is the rest of that list behind some place `n` and that `held` has what was made up
to `n`, or what is returned behind it (`LoadedTo`, `UnloadedTo`). The unwinding is the
hard phase, since it starts anywhere: `EarlyBack` when only the memory or the region was
there, `ProcBackFrom(i)` when `/proc` refused, where the index `i` is anything,
`DeviceBackFrom(i)` when device `i + 1` refused, where the devices up to `i`
and no others are held, and `LateBack` when the devices and the region are gone.
`ClassBack` is the undoing that ends in a driver that is on, and `HollowTo` its unload,
which gets as far as its first device with nothing held but the region. Only under
`ProcBackFrom` and `HollowTo` can a device be deleted that is not held. `InUse` ties the open files
to it: a file that is open means that the device is set up, or that its memory is
gone because a load failed behind it or `rmmod` was forced. The lemmas about the lists come
first: `DevicesAre`,
`SetupIs`, `TeardownIs` and `Err3Is` say which thing stands at which place, from division
with remainder by three. Then there is one lemma per action.

The proof corrected the model: `Touch` used to be a `CASE` whose guards overlap, when the
memory is gone and the device was never set up. TLC takes the first guard that holds,
TLA+ leaves open which, and the prover rightly found nothing to build on. It is now
an `IF`, and a device whose memory is gone counts as freed.

### ShmChannelProofs

For every number of displays, of lines and of runs:

| Theorem | Statement |
|---|---|
| `ChannelInvariant` | `Orderly /\ Spec => []IInv` |
| `ChannelTypes` | `Orderly /\ Spec => []TypeOK` |
| `TurnGoesRound` | `Orderly /\ Spec => []OneTurn` |
| `NobodyInterferes` | `Orderly /\ Spec => []ExclusiveAccess` |
| `LinesArriveOnce` | `Orderly /\ Spec => []NothingLostOrDoubled` |

Assumptions: that of the module (the menu is no display, quit is a line and not the
empty one) and `Orderly`, without which the theorems are false: a display that starts
during the menu's setup holds objects of two runs.

The argument. None of the properties is inductive, because objects and processes of an
earlier run, and names in the middle of the setup, are in the state as well. `IInv`
has four parts:

* `Shape`: the functions and sequences the variables are. It is weaker than `TypeOK` on
  the side of the values and stronger on that of the domains.
* `Stages`: from when on the menu has an object, its name stands for that object, and
  while the menu is between an unlink and the open behind it the name stands for
  nothing; a display that runs has opened, as far as it has come, the menu's objects.
  This is where `Orderly` comes in, and why a run never has a turn of the run before.
* `TurnHeld`: before the service begins, the semaphores have their first values; then
  either one of them is 1 and nobody has the turn, or both are 0 and exactly one
  process has it. `OneTurn` follows, with a cardinality of 0 or 1.
* `Contents`: the memory holds the latest line, the received lines are the sent ones
  shifted by the empty line of new memory, and there is one more of them exactly when
  the latest has been copied (`Copied`). It needs `TurnHeld`: a copy in while a display
  has not taken the last line would lose it.

Each action has a lemma (`StartInv` to `DisplayCopyInv`; the calls of the setups share
`UnlinkInv`, `OpenInv` and `OpenSemInv`), on top of lemmas about what one call does to
the objects (`SemaphoreSet`, `MemorySet`, `ObjectMade`, `TakesTurn`, `GivesTurn`), and
`NextInv` puts them together.

### PipelineProofs

For any length of the queue, any number of lines and of runs, for 5a, 5d and 5e, with
displays that come early, late, twice or are killed at any moment:

| Theorem | Statement |
|---|---|
| `Invariant` | `Spec => []Inv` |
| `TypeCorrect` | `Spec => []TypeOK` |
| `SomebodyComes` | `Spec => []Rendezvous` |
| `ShownAsReceived` | `Spec => []NothingMissed` |

The only assumption is the module's: the exercises are these three and the bounds are
positive.

The argument. `NothingMissed` compares what a display has shown with what its compute has
received. Between the two are the pipe, which others may have had open, and a name that is
unlinked and made anew. `Inv` follows a line along this way:

* `ConsumerInv`, `OwnInv` and `Separate` say who has which pipe open. The consumer has
  exactly the pipes open that it has got past in its order (`HasOpened`), these are of the
  run that is on, and a display at the same number that is of this run is at the same pipe.
  The two numbers never share a pipe: a write to one cannot show on the other's screen.
* `ReaderInv`: a display that reads a pipe of the current run is connected to the consumer,
  one that waits has shown nothing, one that has ended has shown a quit line last
  and no other has shown one.
* `OrderInv`: numbers increase in each queue, each run's `received`, each pipe and each screen;
  what was received is older than the queue, what was shown older than the pipe, and pipe
  and screen hold nothing but lines that were written (`Written(p)`: all that was
  received, but for the line under way if pipe `p` has not had it yet). The last is what
  makes the next write increasing, even when reads have merged lines and left gaps.
* `ContentInv`, as long as no mishap has come about: what a display has shown and what its pipe
  holds, one after the other, is what its compute has written, line for line.
* `QuitInv`: only the last line a run has received quits, and, without a mishap, the
  last line of every run that is over does. So a display that has shown a quit line has
  shown all (`ShownAsReceived`), and a display never meets the end of its file: its
  pipe has no writer only when compute is done, and then the quit line is still
  in the pipe or was shown (`ReadEndStep`).
* `NameInv`: unless a name was crossed or SIGPIPE has left names behind, no pipe has a name
  while no consumer runs or before it has made it, and the one it is about to open has.
  `SomebodyComes` needs it: when the consumer ends, nobody may still be waiting at a
  name it unlinks (`ConsExitStep`).

For each action an effect lemma (`...Is`) says pointwise what it changes, and a step lemma
(`...Step`) takes it through the parts of the invariant; three ends of the consumer share one
(`GoneStep`). `NothingMissed` alone is far from inductive: it does not know which pipe a write
goes to, that the lines in it are those that come next, or that a quit line is the last.
TLC has checked `Inv` on the bounds of the run `pipeline` too (360,096 states).

### ClientTableProofs

For every number of connections, of lines and of places in the table:

| Theorem | Statement |
|---|---|
| `TypeCorrect` | `Spec => []TypeOK` |
| `NoDangling` | `Spec => []NoDanglingClient` |
| `TableExact` | `Spec => []TableComplete` |
| `InOrder` | `Spec => OneOrder` |

The only assumption is the module's: the table has a place, `NULL` and `Nobody` are no
numbers.

The argument. `IInv` is `TypeOK` and the following, in terms of how far a thread is:
before its `insert_client`, between that and its `remove_client` (`InTable`), or behind it.

* `EntriesThere`, `EntriesDiffer`: an entry in use is a thread in between, and no two
  are the same. `TypeOK` needs the first one: `tell_all_clients` follows an entry to a
  descriptor.
* `Counted`: `TableComplete` with sets by name. That entries and joined clients
  are the same as long as no refused client has left is what makes the removal of a
  client that was not refused find its entry; the equation of the cardinalities goes on
  when they are not, and says that an empty table has a client to remove only if
  somebody was refused.
* `Blocked`, `RefusedAsked`: which threads wait in a read, and that who was refused had
  asked. Without them a read that ends could bring a thread back into the table.

`QuietStep` and `QuietMove` treat the steps that do not touch the table, SIGPIPE among
them; `InsertStep`, `RemoveStep` and `OutsideStep` are the others. `InOrder` adds
`TellerLocks`: the thread in
the loop holds the mutex and tells the last line there is.

### ThreadedShellProofs

For every number of clients and commands and every tree of directories:

| Theorem | Statement |
|---|---|
| `TypeCorrect` | `Spec => []TypeOK` |
| `OwnPlace` | `Spec => []OwnDirectory` |
| `LogWhole` | `Spec => []LogReadWhole` |
| `LoggedInOrder` | `Spec => []LoggedOnce` |
| `CdOwn` | `Spec => CdFromOwnDirectory` |

The only assumption is the module's: the server's directory is one and is not removed,
`NoDir` is none, `Nobody` is no thread.

The argument. `IInv` is the types (`Shape`, with what a busy thread's command is) and one
part for each thing the threads share:

* `Directories`: a thread between the two `chdir` of `cd` holds `cwd_mutex`, and the
  process is in its client's directory or that one is gone. So the relative `chdir` starts
  in the right place (`CdOwn`), although `proc.cwd` is anybody's at all other times.
* `KidsAtHome`: a child that has called `cwd_fake` is where its client was, wherever
  the process was when it forked.
* `LogHeld`: as long as the log is open, whoever is in `logcommand` or runs a `getlog`
  holds `log_mutex`, and something unflushed means that a thread is in `logcommand`.
* `KidsWaitedFor`: except for background commands a child's parent waits for it and for no
  other, and still has the command it was made for. That ties the program of a `getlog` to
  the mutex its parent holds (`LogWhole`): the child itself knows nothing of the mutex.
* `InOrder`: log and buffer together are ordered for each client and older than a command
  that is under way, until a child has written its copy (`echoed`). A flush moves lines
  between the two and changes nothing.

Each part has a lemma for a step that leaves it alone (`BusyShape`, `KidShape`,
`SameDirectories`, `SameLog`, `SameChildren`, `SameOrder`) and one over all actions
(`NextShape` to `NextInOrder`).

### ArchiveProofs

For every tree of files and directories, any arguments, sizes, length of an int,
descriptors and protected files, and any number of changes and of runs of recover:

| Theorem | Statement |
|---|---|
| `Invariant` | `Spec => []Inv` |
| `MadeAgain` | `Spec => []RestoredInFull` |
| `ForwardOnly` | `Spec => []DamageGoesForward` |
| `WholeBeforeProtected` | `Spec => []ProtectedIsWhole` |

The only assumption is the module's: there are finitely many files and directories, each
is in one of the directories or in `.`, and arguments are names of these. Finite, because
the contents of a directory are visited one after the other: that a sequence
without repetitions of as many entries as there are has them all is the pigeonhole principle
(`AllInside`).

The argument. While backup runs nothing is recovered (`BackupFirst`), and while recover runs
the archive stays the same, so the invariant has two halves.

* `InArchive` is about the archive. `BytesBehindHeader` holds of every archive, whatever
  changed or was cut off. As long as nothing changed and nothing was missed (`Quiet`),
  `HeadersTrue` says that each content is as long as its header says, up to the one that
  is being written, and `NothingForgotten` that each argument, and each entry of a directory
  in the archive, still waits or has a header, behind that of its directory.
* `InTree` is about the run of recover. `InContent` ties position, buffers read and the
  int that is counted down to one header, and the bytes written to the buffers read
  (`Whole`); `AtEntry` says that recover is behind a
  directory, or behind a file whose content, if it is as long as it should be, ends
  there: so a byte where a header should be (`NextIsHead`), or the reverse, proves
  a wrong length before it (`Lost`). `Kept` is `DamageGoesForward` for all headers met so
  far. `ProtectedWhole` is `ProtectedIsWhole`, with the fact in `InContent` that the file under
  way is not protected, unless the superuser recovers. `DirsMade` says of directories that
  they are there, or in `Refused`, which only grows during a run (`RefusedGrows`).

For `MadeAgain` files and directories take different ways. Files: what was asked for is
the least set that has the arguments and is closed under "below"; what is in the archive
is such a set (`AskedIsThere`), and the last header of a file (`LastHeader`) gives its length.
Directories: `mkdir` fails without a parent and recover goes on, so that a
directory is in the archive says little. `Reached` is the least set of entries that has the
directories of `.` and with an entry each directory of it that comes behind. By
`ReachedIs` and `ReachedGrows` an entry that is reached has a parent that was made
before, and each directory of `Rooted` has such an entry (`RootedIsReached`). What is missing
below a directory that the disk refused is in `Refused` too (`RefusedIs`).

The attempt showed that an earlier form of `RestoredInFull` was false: it promised each directory
whose parent was asked for, but when the parent's own parent was not, the parent cannot
be made. The tree of the run was too small to show it; `d/e/x` is there for that.
TLC has checked `Inv` too, on the bounds of the run `archive` with two runs of recover
(3,176,725 states).

### Only model-checked

Every invariant and action property of a passing run is proved. Liveness is not, because
fairness is out of the prover's reach: `RoomWakesWriter`, `CallsGetSemaphore`,
`Handover`, `QuitEnds` (of `ShmChannel` and of `Pipeline`), `EverybodyLeaves` and
`LogIsGot` are checked by TLC alone.
`SingleWriter` and `ReadStaysInside` do not hold.

## Not covered

See the notes of the components in `PROJECT.json`. In short:

* `ShellServer/shell.c` has the engine of the threaded server with a process in the place
  of each thread: directory and environment are no longer shared, and what is left is
  the log, which a semaphore in memory that `fork` copies is meant to protect
  (`shell.c:152`) and does not. No statement of the repository says what the log
  must look like.
* `Shell/shell.c` is that engine for one user, `passwd/passwd.c` a copy of it under
  another name for one connection.
* `ChatClient` is two threads that copy between a socket and the screen, and cursor
  movement.
* The tools and tests of the driver make fixed sequences of calls: they are the
  environment of `CharDevice`.
* `ThreadedShell` leaves out what touches only the client's own fields (path, mask,
  prompt), and signals. So a client that has left does not end the server by SIGPIPE there,
  as it does in `ClientTable`: what is proved holds up to that moment, and `LogIsGot`
  is about a server that is not ended so.

Inside the modelled parts the following is abstracted: faults of user buffers, logging,
names and text of lines, error returns of calls that then end the program, integer
overflow of lengths near 2^31 (sizes and counts are far below it; in `Archive` it is
modelled), owners, link counts and special files of the archive, the pause at the line
`sleep` in 5a, 5d and 5e.

## Plan

1. The process-per-client server (`ShellServer/shell.c`) with its log, as processes that
   inherit a semaphore each, and the composition of `ThreadedShell` with `ClientTable` (a
   shell thread ends by `remove_client`, `stop-server` tells all clients).

## How to run

    tlc -config MCCharDeviceShared.cfg MCCharDevice
    tlc -config MCFirstDevice.cfg MCFirstDevice
    tlc -config MCDriverLoad.cfg MCDriverLoad
    tlc -config MCShmChannel.cfg MCShmChannel
    tlc -config MCPipeline.cfg MCPipeline
    tlc -config MCClientTable.cfg MCClientTable
    tlc -config MCThreadedShell.cfg MCThreadedShell
    tlc -config MCArchive.cfg MCArchive
    tlapm ArchiveProofs.tla
    tlapm CharDeviceProofs.tla
    tlapm ClientTableProofs.tla
    tlapm DriverLoadProofs.tla
    tlapm FirstDeviceProofs.tla
    tlapm PipelineProofs.tla
    tlapm ShmChannelProofs.tla
    tlapm ThreadedShellProofs.tla
