# SQLite 3.7.14 in TLA+

A verification development for the SQLite 3.7.14 sources of this repository.
It models the parts whose correctness depends on the order in which several
connections, processes and disks do things, checks them with TLC on small
instances, and proves with TLAPS what can be proved for all of them.

Source paths below are relative to the repository (`src/wal.c` is the file
`src/src/wal.c`, *amalgamation* is `Sqlite3.07.14-run/sqlite3.c`). The
repository is an annotated copy: comments were added to the code, `src/pager.c`
starts in the middle of the original file and `src/vdbe.c` lost parts of
itself. Where a file is damaged the amalgamation, which is the same release, is
the reference. The test scripts of SQLite are not part of the repository.

## 1. Inventory

| component | state it keeps | operations | what is hard |
|---|---|---|---|
| **Write-ahead log** `src/wal.c` | log file, wal-index in shared memory (two headers, backfill count, read marks, page index), private header and locks of each connection | open/close a snapshot, read a page, begin/commit/undo, spill, restart, recover, checkpoint in three modes | no mutex: everything is done by reads and writes of shared memory in a careful order, under shared and exclusive locks that never block; processes die anywhere; power fails |
| **Shared-memory locks** `src/os_unix.c` (`unixShmLock`) | a shared and an exclusive mask per connection | lock, unlock, close | ranges, both modes in one process |
| **File locks** `src/os_unix.c` (`unixLock` ...) | five-state lock per handle, inode record per process, POSIX locks per process in the kernel | lock, unlock, check reserved, close | POSIX locks belong to the process and vanish when any descriptor is closed; the record must stand for all threads |
| **Pager, rollback journal** `src/pager.c`, amalgamation | page cache, journal, savepoints, state of the transaction | read, write, spill, sync, commit in two phases, rollback, hot-journal recovery | order of writes and syncs, interrupted rollback, stale caches |
| **Shared cache** `src/btree.c`, `src/notify.c`, `src/btmutex.c` | table locks, pending writer, list of blocked connections | lock tables, begin/end transactions, register for notification | deadlock detection, lost wake-ups, starvation |
| **Multi-file commit** `src/vdbeaux.c` | master journal | two-phase commit over databases | death between two files |
| **Backup** `src/backup.c` | position, list of backups on a source | step, update, restart, finish | source written during the backup |
| **Page cache** `src/pcache.c`, `src/pcache1.c` | dirty list, LRU list shared by a group | fetch, unpin, recycle, truncate | limits shared between caches |
| **Async I/O** `ext/async/sqlite3async.c` | queue of writes, lock table | all VFS calls, writer thread | locks and files seen before the queue is written |
| B-tree structure, allocators, containers, SQL compiler, virtual machine, virtual tables, extensions, Windows VFS, shell and test fixtures | | | sequential code; see `PROJECT.json` for why each is left out |

How they interact: the virtual machine calls the b-tree, the b-tree the pager,
the pager either the rollback journal or the log (`pagerUseWal`). The pager
hands the log its page reads and dirty pages, keeps a page cache between
transactions and drops it when the log says that the header changed
(`pChanged`). The log asks the VFS for locks on shared memory and for reads,
writes and syncs of two files. Connections in one process or many meet only in
shared memory, in the locks and in the files.

What makes each correct: snapshots that do not move and commits that are not
lost (log, pager); mutual exclusion that survives threads and closes (locks);
no deadlock unnoticed and no wake-up lost (shared cache); a copy equal to one
state of the source (backup); limits kept and no dirty page dropped (cache).

## 2. Plan

Done:

1. **ShmLock, Wal**: the log with its locks. Proved: type correctness, the lock
   discipline and what follows from it for read marks and page caches
   (**WalLockProofs**), the backfill and what checkpoints, restarts and readers
   rely on about it (**WalBackfillProofs**), and, while the power stays on, the
   contents: snapshot isolation, recovery from the files and the promise of a
   FULL checkpoint (**WalSnapshotProofs**).
2. **FileLock, UnixLock**: threads and processes over POSIX locks, shown to
   implement an abstract five-level lock; the refinement and all state
   properties are proved (**UnixLockProofs**).
3. **Journal**: the rollback journal over FileLock: hot journals, sync order,
   loss of power, stale caches. Its lock discipline is proved
   (**JournalProofs**).
4. **SharedCache, BlockedList, Notify**: table locks of a shared cache and the
   list of blocked connections. All state properties are proved
   (**NotifyProofs**).
5. **Backup**: copying a database that is being written. All properties are
   proved (**BackupProofs**).
6. **AtomicCommit, MasterJournal**: a commit over several files, which
   implements an abstract commit; proved for executions without a loss of
   power (**MasterProofs**).

Left, in this order: the contents of the log under losses of power, which needs
an invariant over what the disk may hold in place of each unsynced frame and
page; the commit over several files under losses of power; **WalHash** and
**WalHdr** (the hash tables and the seqlock that Wal takes as one step);
**PCache**; **AsyncIo**.

## 3. The modules

### ShmLock

`unixShmLock()` with its four wrappers in wal.c. A connection owns
`sharedMask[c]` and `exclMask[c]`, sets of lock numbers. A shared request is
refused when anybody holds the lock exclusively, an exclusive request for a
range when anybody holds any part of it in any mode; *anybody* includes the
caller, as in the code, which walks the whole list. An unlock clears both
masks.

### Wal

One action is one access to shared memory, a lock or a file, together with what
the connection computes on private data next to it. `pc[c]` is the place in the
code.

| part of wal.c | actions |
|---|---|
| `walIndexReadHdr`, `walTryBeginRead` | `BeginRead ReadHdr LockHdr RereadHdr HdrBusyLock HdrBusyRetry ReadBackfill LockRead0 CheckRead0 ScanMark GrabMark SetMark LockMark CheckMark`, `EndRead` |
| `walIndexRecover` | `RecoverLock RecoverScan RecoverHdr1 RecoverHdr0 RecoverInfo RecoverDone RecoverError` |
| `walRestartLog` | `RestartLock RestartHdr1 RestartHdr0 RestartBackfill RestartMarks LeaveRead0` and the scan above |
| `sqlite3WalBeginWriteTransaction`, `sqlite3WalFrames`, `sqlite3WalUndo`, `sqlite3WalEndWriteTransaction` | `BeginWrite BeginFrames LogHdr SyncHdr WriteFrame SyncFrames IndexFrame FramesDone Publish1 Publish0 EndWrite FramesError Rollback` |
| `sqlite3WalCheckpoint`, `walCheckpoint` | `CkptBegin CkptWrite CkptStart CkptMark CkptMarkLock CkptMarkSet CkptLock0 CkptSync CkptCopy CkptTruncate CkptBackfill CkptTail CkptRestart CkptError CkptEnd` |
| outside the code | `Crash` (a process dies, its locks go, shared memory stays), `PowerFail` |

State: `hdr0 hdr1` are the two copies of the header in shared memory,
`nBackfill aReadMark aPgno` the rest of the wal-index; `walHdr wal db` the files
as `read()` returns them and `walHdrOld walOld dbOld` what the disk may hold
instead until the next sync; `hdr readLock` the fields of `Wal` that survive a
call; the other private variables are the locals of the functions above.

Abstractions:

* A page's content is the number of the transaction that wrote it; `image[t]`
  remembers the database after transaction `t`, and the ghost field `ver` of a
  header says which one it stands for. A read is right when it gives
  `image[hdr.ver][p]`.
* A cumulative checksum is the transaction of the last frame it covers.
  Together with salt and position that identifies a prefix of the log; a real
  checksum can collide, this one cannot.
* `walIndexTryHdr()` is one step: a torn read counts as *the copies differ*.
  The two copies are written in two steps.
* The hash tables are the function `aPgno` from frames to page numbers; a
  lookup is the greatest frame of the page among the first `mxFrame`.
  Stale entries and `walCleanupHash()` are modelled.
* The page cache is one number, the snapshot its pages are from; a reader drops
  it when the header changed, after a failed attempt, or when it is new.
* Salts are numbers drawn in order. u32 counters are natural numbers.
* A frame, header or page not yet synced when power fails is the old or the new
  one, or damaged. A damaged log header is one that cannot be read.
* A FULL or RESTART checkpoint whose busy handler gives up goes on as a PASSIVE
  one and reports SQLITE_BUSY (lines 3147 and 3189): `mode` is then `"degraded"`,
  and `Result` is what the caller gets. `CkptPromise` is about that result.
* Not there: padding of the last commit to a sector, the size limit of the log
  file, exclusive locking mode, savepoints, opening and closing the log.

Three constants are assumptions about the environment, not bounds.
`AllowRestartRace = FALSE`: no restart resets `nBackfill` while a checkpoint is
between its reads of the header and of `nBackfill`. `AllowRestartCrash =
FALSE`: nobody dies in `walRestartLog()` between publishing the header and
resetting `nBackfill`. `AllowRecoverRace = FALSE`: no recovery resets
`nBackfill` while a connection that read the count is about to lock
READ_LOCK(0) on the strength of it. The code guarantees none of them; section 5
shows what happens without them. The passing runs forbid the first two, and
`wal_crash`, which checks `RestartAssert` with a death, the third as well;
everything else is as the code has it.

### MCWal

The batches of pages that `sqlite3WalFrames()` is called with, as definitions
for the configurations.

### WalLockProofs, WalBackfillProofs, WalSnapshotProofs

The proofs of section 6, each module building on the one before.

### FileLock

What the pager is promised (os.h 147-170): each handle on a database file has a
level from NO to EXCLUSIVE, and a lock or unlock is one atomic step that
respects the levels of all other handles. A request for EXCLUSIVE that meets
readers ends at PENDING. The handles of a process that dies fall to NO.

### UnixLock

How os_unix.c keeps that promise with POSIX locks, which belong to a process,
do not conflict within it and vanish when it closes any descriptor of the file.

| state | code |
|---|---|
| `pLock[f]`, `iLock[p] nShared[p] nLock[p]` | `eFileLock` of `unixFile`, and of `unixInodeInfo` with its two counts |
| `nUnused[p]` | length of the list `pUnused`, the descriptors put aside |
| `kern[p][r]` | what the system holds for the process on PENDING_BYTE, RESERVED_BYTE and the shared range |
| `pc[f]`, `closing` | the place of the thread that uses the handle; the handles inside `unixClose()` |

One action is one `fcntl()` with what the thread does to the records around it.
Threads of different processes interleave between the calls; those of one
process are kept apart by the mutex (`unixEnterMutex`), that is by
`MutexFree`. Two gaps in the mutex are states of their own: an open has its
descriptor before it has a record (`opening`), and an unlock writes
`unixFile.eFileLock` after it left the mutex (`leaveShared`, `leaveNo`).

| part of os_unix.c | actions |
|---|---|
| `unixOpen`, `findReusableFd`, `fillInUnixFile`, `findInodeInfo` | `OpenFd OpenDone OpenFails` |
| `unixLock` | `LockJoin LockSharedPending LockSharedRange LockSharedDone LockReserved LockExclPending LockExclRange` |
| `posixUnlock`, `closePendingFds` | `UnlockReadBack UnlockWriter UnlockAll UnlockDone` |
| `unixClose`, `setPendingFd`, `releaseInodeInfo` | `Close`, the actions of `posixUnlock`, `Release` |
| outside the code | `Death` of a process |

A call of `fcntl()` may fail with an I/O error in every place where the failure
changes something (`Fail`, at most `MaxFail` times). A request that is refused
at once and leaves everything as it was is not a step. `unixCheckReservedLock()`
is the state function `CheckReserved`.

The refinement mapping is `level[f]`: `pLock[f]`, except while an unlock is
under way, which lowers the level in the system and in the record first.

Not there: the unix-excl VFS (`bProcessLock`), an `fstat()` that fails in an
open, the unlock in blocks for NFS, other locking styles.

### MCUnixLock

Two processes, one with two handles.

### UnixLockProofs

The inductive invariant and the refinement (section 6).

### Journal

The pager in rollback mode: connections of one or several processes, the
database file with its lock (an instance of FileLock) and one journal. One
action is one call of the VFS with the private computation next to it.

| part of the pager (amalgamation) | actions |
|---|---|
| `sqlite3PagerSharedLock`, `hasHotJournal` | `SharedLock Access CheckReserved FirstByte HotLock HotBusy HotOpen Validate` |
| `pager_playback`, for a hot journal and for a rollback | `Playback Restore SyncDb`, `Rollback` |
| `pager_end_transaction`, `zeroJournalHdr` | `Finalise SyncZero Unlock`, `EndRead` |
| `sqlite3PagerAcquire`, `sqlite3PagerBegin`, `pager_open_journal`, `pager_write`, `sqlite3PagerTruncateImage` | `Read Begin OpenJournal Write TruncateImage` |
| `sqlite3PagerCommitPhaseOne`, `pagerStress`, `syncJournal`, `pager_write_pagelist`, `pager_truncate` | `Commit Counter Discard Spill Exclusive NextHeader Sync1 Count Sync2 NewHeader WriteOut Truncate` |
| outside the code | `IoError` (a call fails, perhaps half done, and what the caller makes of it), `Crash`, `PowerFail` |

State: `pager[c]` is the `Pager` object (state, page cache, dirty pages, what
is in the journal, offsets); `db` and `jrnl` the files as `read()` returns
them, `dbDisk`, `jrnl.disk` and `lost` what the disk has instead until the
next sync. `image` is the last committed database and `maybe` the set of
databases a loss of power may fall back to, because a journal was deleted or
truncated without a sync.

The journal is a sequence of items, headers and records. `Restored(f, d)` is
what a complete rollback of journal `f` makes of file `d`, by the rules of
`readJournalHdr()` and `pager_playback_one_page()`: records count only while
the header before them promises them and their checksum seed is that header's.
Page 1 is the change counter. A loss of power leaves each unsynced sector old,
new or torn, and may cut the end of a file. A truncation to zero is taken to
reach the disk before writes that follow it.

`HeaderAligned` says whether the last synced record ends where a header may
start, in which case an old header can lie there (`NextHeader`).

Not there: the cases of an empty database file, exclusive locking mode, log
mode, savepoints, devices with atomic, sequential or safe-append writes, the
size limit of the journal, a file that grows after shrinking below its old
size in the same transaction, failing reads, memory and off journals,
synchronous NORMAL. Master journals have a module of their own.

### MCJournal, JournalProofs

Instances (the two connections are interchangeable, hence `SYMMETRY Twins`),
and the proofs of section 6.

### Connections, BlockedList, SharedCache, Notify

Connections of one process that share a page cache, and the list of those that
were refused a lock. `SharedCache` has the fields of `Btree` and `BtShared`
and the operations on them, `BlockedList` the two pointers of each connection
and the list; `Notify` composes them with the threads and the application.

| code | actions |
|---|---|
| `sqlite3BtreeBeginTrans` through OP_Transaction | `Begin`, `BeginRefused` |
| `sqlite3BtreeLockTable` through OP_TableLock | `Lock`, `LockRefused` |
| `sqlite3ConnectionBlocked` after a refusal | `Refuse` |
| `sqlite3VdbeHalt`, `btreeEndTransaction` | `Halt`, `HaltOpen` |
| `sqlite3ConnectionUnlocked` | `Unlocked` |
| `sqlite3_unlock_notify` | `UnlockNotify`, `CancelNotify` |
| `sqlite3_close`, `sqlite3ConnectionClosed` | `Close`, `Leave` |

A refusal and the end of a transaction take two steps each, since the mutex of
the cache and that of the list are entered one after the other; a refusal
still holds the first while it enters the second (`refused`). The list is a
set; the order of callbacks and how many share a call are left out.
`waiting` are the connections whose application does nothing until its
callback comes.

Not there: read-uncommitted connections, failures below the b-tree, several
shared caches and the order of their mutexes.

### Backup

`sqlite3_backup_init()`, `_step()` and `_finish()`, with what the pager of the
source tells its backups. A call of the library holds the mutexes of the
source throughout and is one action.

| code | actions |
|---|---|
| backup.c | `BackupInit Step StepRefused StepFails Finish` |
| `sqlite3PagerSharedLock` of the source, with a hot rollback | `OpenRead CloseRead`, and inside a step |
| the writer in this process | `Begin Change Shrink Spill Commit Rollback RollbackFails` |
| other processes | `OtherCommits OtherDies OtherRecovers` |

`file` is the source, `hot` the journal of a process that died, `known` the
change counter this process has seen, `txn` its write transaction; `bak[b]` the
fields of `sqlite3_backup` with the pages copied so far, `dest[b]` the file it
writes to, which changes when the destination's transaction commits.

Not there: differing page sizes, source or destination in log mode or memory,
the schema cookie, the page with the lock bytes, `sqlite3BtreeCopyFile()`,
and other users of the destination.

### MCBackup, BackupProofs

An instance with one backup (contents of pages are interchangeable), and the
proofs for any number of them.

### AtomicCommit, MasterJournal

`AtomicCommit` is what `vdbeCommit()` promises: a transaction has files, they
change together, and a commit that is not settled on the disk may be undone by
a loss of power, in all its files.

`MasterJournal` is how it is done. A transaction is a number; its master
journal has the same number for a name. Module Journal tells why a rollback
restores what was there, so here the journal of a file is what a rollback would
restore (`orig`), whether it has a valid header (`hot`), its length, and the
name of a master journal with the place it was written to. The name only
counts at the very end of the file (`Tail`).

| code | actions |
|---|---|
| the transaction before its commit | `Open Spill` |
| `vdbeCommit` | `Commit CreateMaster SyncMaster`, `UnlinkMaster SyncDir`, `Finalise` |
| `sqlite3PagerCommitPhaseOne`, one file after the other | `WritePtr CutJrnl` (`writeMasterJournal`), `SyncJrnl WritePages SyncDb` |
| `sqlite3RollbackAll`, `pager_playback` by the writer or whoever finds a hot journal | `Rollback`, `Playback Restore SyncRestored EndPlayback` |
| `pager_delmaster` | `DelOpen DelChild DelMaster` |
| failures | `CommitError FinaliseError PlaybackError Death RecovererDies PowerFail` |

One process commits at a time; what it leaves behind when it dies is recovered
file by file by others, who overlap with each other and with later
transactions on the other files, and, from the moment `pager_end_transaction()`
has lowered their lock, with a transaction on the same file too: that writer
(`"joined"`) can get RESERVED but neither spill nor commit, which take EXCLUSIVE,
before the recoverer leaves (`EndRead`). Its own rollback is put after that
point; the recoverer looks only for the name of the old master, which the
journal of the new transaction does not have. The refinement maps the content of a file to
what its next user finds, after a rollback if the journal calls for one.

Faults and losses of power are not mixed in one execution (`Kinds`), see
section 5. `RecoverModes` is the journal mode of the connections that recover;
the run has `{"delete"}`, an assumption on the environment, also for a reason
given there.

`MasterProofs` has the proofs of section 6.

Not there: files in log mode or with memory or no journals, a main database in
memory (then the code does not promise atomicity), temporary files, two master
journals with the same name.

## 4. Runs

Every bound is a constant of the modules. In the runs of the log `w` writes,
`r` reads, `k` checkpoints, unless said otherwise.

| run | instance | properties |
|---|---|---|
| `wal_read` | w, r, k; three slots; passive checkpoints; commits of one page; 2 pages, 2 frames, 2 transactions | `SnapshotRead ReadMarkSafe CkptBehindReaders ReadMarkStable SnapshotFramesStable` |
| `wal_crash` | w and k write, also spilling, k checkpoints passive; 2 frames, 2 transactions, 2 salts; one death; I/O errors | `TypeOK Recoverable SnapshotRead CacheFresh RestartAssert LogIntact NothingHeld` |
| `wal_power` | w and k; one loss of power; 3 transactions, 4 frames; commits synchronous FULL or NORMAL that shrink and grow the database | `Recoverable Durable` |
| `wal_live` | w and k; passive, FULL and RESTART checkpoints; three slots, 2 attempts; I/O errors; fairness | `CkptPromise CallsReturn` |
| `wal_restart_race` | as `wal_read` without r, the restart race allowed | violates `SnapshotRead` |
| `unix_lock` | handles f1, f2 of one process, g1 of another; three descriptors; two failed calls; any number of deaths | `TypeOK LocksBacked GrantsWhenFree ReservedSeen LastCloseFrees AtomicLock` |
| `journal` | two processes in the same journal mode, each mode in turn; 2 pages, 2 transactions; one death or failing call, two in delete mode | `TypeOK Recoverable ViewOK CacheTrusted WritesLocked` |
| `journal_power` | one connection, each journal mode; 3 pages, 2 transactions that grow or shrink the file; one loss of power | `Recoverable` |
| `journal_mixed` | two processes, one in delete and one in persist mode, one reads over the end of its transaction; 3 transactions | violates `Recoverable` |
| `notify` | three connections, sqlite_master as the only table; fairness | `TypeOK TablesIsolated PendingForReaders Listed NoCycle NotForgotten Delivered` |
| `backup` | one backup, up to 3 pages; 2 committed changes | `TypeOK PrefixCopied CopyIsSnapshot` |
| `master` | two files, journals of up to 2 records and a name; commits in all journal modes, recoveries in delete mode; up to 3 transactions, at most 4 of transactions, faults and losses of power together | `TypeOK CommitsAtomically` |

Each takes from half a minute to two minutes.

Why the bounds are enough for the cases that matter.

*Log.* Two frames and two transactions let the log fill, be copied, restart
and be written again with a reader on the log before; with three slots one
reader sits on a mark while another mark moves and while a checkpointer resets
it. Spills, rollbacks and a second version of a page come in `wal_crash`.

*File lock.* Two handles in a process are what it takes for one to join, close
or unlock under the other, and a third in another process to see the result;
three descriptors let both be open while a third one is put aside; two failures
reach the second call after a failed first one, such as a failed unlock inside
`unixClose()` after a failed unlock by the pager.

*Journal.* The second transaction meets what the first left in the journal
(persist and truncate mode) and in the cache of the other connection; four
items are two headers with a record each, or three records. Two faults
interrupt a rollback. The third page is what lets a file shrink and grow.

*Notify.* Three connections are a cycle longer than two, and a blocker that is
itself blocked; a second table adds nothing to who waits for whom (the proofs
of section 6 are for any tables). *Backup.* Three pages are one copied, one changed and one
left, and a second change comes during the restart after the first.

*Master journal.* Three transactions: the third uses again a journal that the
second left, whose end the first wrote; four events with a single transaction
are a death followed by two interrupted recoveries.

The mutants (one plausible slip per property, listed in `PROJECT.json`) all
fail within these bounds.

Deadlock is checked in the runs of the log, the file lock and the backup: an
idle connection can always begin. Elsewhere the system may stop: transactions
are bounded (`journal`, `journal_power`, `journal_mixed`, `master`), or all
connections are closed (`notify`).

Fairness of the log (`FairSpec`): weak fairness of `ConnStep(c)`, the steps
inside a library call. A thread inside a call is scheduled; it takes no step
the operating system could withhold, since lock requests return at once. The
application's choices, to begin or end a transaction, are not fair. The busy
handler is taken to give up in the end, as a timeout does. The strong fairness of
`RestartBackfill` only undoes what the assumption `AllowRestartRace = FALSE`
takes away: the code never waits before that assignment, the guard of the
model does.

Fairness of notify: weak for the steps inside the library; strong for the end
of a transaction by an application that does not wait for a callback, since
the call is possible again and again as the mutex of the cache is taken and
left, and a mutex does not starve one thread for ever.

## 5. What the runs show

The properties hold, with two exceptions, for which there are runs, and some
observations, which were met when a bound or an assumption was changed. The
three of these that end in a wrong page or a failed assertion of the code
(restart and death, recovery race, cold journals) are excluded from the runs by
`AllowRestartCrash`, `AllowRecoverRace` and `RecoverModes`, so that nothing in
section 4 or 6 speaks for the code in these situations.

* **Restart race** (`wal_restart_race`, `src/wal.c` 1736). `walCheckpoint()`
  compares `nBackfill` with the header that its caller read before. A writer
  may restart the log in between: the checkpointer then sees `nBackfill = 0`
  beside a header of many frames and goes on to copy frame numbers of the old
  log, whose frames may be new ones by now, and sets `nBackfill` past the end
  of the new log. Later readers bypass committed frames.
* **Journal modes that differ** (`journal_mixed`, amalgamation 38899). A
  connection in persist mode falls back to SHARED with the journal open while
  another of its statements reads. A connection in delete mode may begin and
  roll back a transaction meanwhile, and deletes the journal. The first one
  then writes its next transaction's records to the file without a name; when
  it dies half-way the database has no journal. The comment at line 38702
  names this hazard, for the case where the lock is dropped altogether.
* **Restart and death** (`src/wal.c` 2774). The restarted header is valid before
  `nBackfill` is reset; a process that dies there leaves `nBackfill > mxFrame`,
  against the comment at line 323, and nothing starts a recovery. When the next
  commit has made the log as long as the old count, a reader takes the log for
  backfilled and bypasses frames that were never copied. With
  `AllowRestartCrash = TRUE`, `MaxTxn = 3`, `MaxSalt = 3` and `IoErrors = FALSE`
  in `MCWalCrash.cfg` TLC reports this violation of `SnapshotRead` in 73 steps.
* Line 343 says that frames are copied only up to *every mark in use*. Taken
  literally it does not hold: a reader with an old header may set a slot back
  after the checkpointer passed it, and another reader may take the slot. What
  does hold, and is what the readers need, is `CkptBehindReaders`: no frame
  beyond the *snapshot* of a reader is copied while it reads.
* **Recovery race** (`src/wal.c` 1231). `walIndexRecover()` publishes the
  header before it resets `nBackfill` (1238). Two connections and one death are
  enough: the log is backfilled, a writer dies in `walRestartLog()` between the
  two copies of the header, and the recovery that follows finds the old log
  again and publishes its header; a reader compares this header with the
  `nBackfill` of before, the recovery sets it to 0, and the reader locks
  READ_LOCK(0) and bypasses the log. When it writes it reaches the assertion at
  line 2745 with `nBackfill = 0`. With `AllowRecoverRace = TRUE`, `MaxTxn = 3`,
  `MaxSalt = 3` and `IoErrors = FALSE` in `MCWalCrash.cfg` TLC reports this
  violation of `RestartAssert` in 66 steps. Line 1232 says that the reset is safe
  because the locks of the recovery exclude all readers; this one has no lock
  yet. The frames it bypasses are in the database file, so in this execution no
  snapshot is wrong.
* A FULL checkpoint holds WRITE when it reads the header, so the assertion at
  line 2043 (*a bad header is never found by a holder of WRITE*) can fail after
  a writer died half-way through publishing. Without assertions the checkpoint
  returns SQLITE_BUSY, since its second request for WRITE is refused by its own
  lock.

* PENDING and threads (`src/os_unix.c` 1657). os.h 156-158
  says that while a handle is PENDING no new SHARED lock may be obtained by
  other processes. A process whose inode record is SHARED or RESERVED gives
  SHARED to another of its handles without asking the system, so the PENDING
  lock of another process is not met. Readers of one process that overlap for
  ever can keep a writer waiting for ever, which is why no liveness of the
  file lock is claimed. Exclusion is not affected.
* `unixClose()` ignores the result of its `unixUnlock()`. If the unlock failed,
  the handle goes but the record keeps counting it (`nShared`, `nLock`) and
  stays at its level: other handles of the process get SQLITE_BUSY, and
  descriptors are put aside, until the last of them is closed.
  `LastCloseFrees` says that this is where it ends; `GrantsWhenFree` is stated
  for executions without failures for this reason.

Rollback journal:

* Two connections of one process (`ProcOf` the same for both) violate `ViewOK`:
  the PENDING lock of a hot rollback by one thread makes
  `unixCheckReservedLock()` answer *reserved* to the other, which takes the
  journal for that of a live writer and reads the half-written file.
* In persist mode with `HeaderAligned = TRUE` and a failing call `ViewOK` is
  violated: `readJournalHdr()` does not look at the magic number of a header at
  `journalHdr`, where an older transaction may have left one.
* In persist mode a death, or a failing sync, between the zeroing of the header
  and its sync, followed by another transaction and a loss of power, violates
  `Recoverable`. The power runs have no other faults for this reason.

Unlock notification:

* Property (2) that `checkListProperties()` asserts (notify.c 52-53 and 63-70)
  can fail: an entry whose callback was made but which is still blocked by
  another connection stays in the middle of a group. The effect is one batch of
  callbacks made in two.
* When `pBlockingConnection` is 0, `sqlite3_unlock_notify()` makes the callback
  at once but leaves an earlier registration in place, though lines 142-143 say
  that a new one replaces it.
* `sqlite3_backup_finish()` does not call `sqlite3ConnectionUnlocked()` for the
  destination, whose cache must not be shared.

Backup:

* sqlite.h.in 6495 says that SQLITE_LOCKED is returned when the same process
  is writing to the source; the code (backup.c 348) returns SQLITE_BUSY.
* SQLITE_LOCKED_SHAREDCACHE for the destination counts as a fatal error
  (`isFatalError` excludes SQLITE_LOCKED only).
* An error that `sqlite3BackupUpdate()` records during the shared lock of a
  step is overwritten at the end of that step.

Commit over several files:

* **Cold journals.** A process dies after it deleted the master journal and
  before it finalised the journals: these name a master that is gone. When a
  connection in truncate or persist mode finds such a journal,
  `pager_playback()` rightly skips it, but leaves `journalOff` at 0, and then
  `pager_end_transaction()` (38874) and `zeroJournalHdr()` do nothing: the
  name stays. A later, shorter transaction of that connection writes over the
  start of the file; if it is interrupted, its rollback finds the old name
  at the end of the file, sees no such master and skips a journal it
  needs: the database stays half-written. With `RecoverModes` `{"truncate"}` or
  `{"persist"}` TLC reports this in 22 steps as a violation of
  `CommitsAtomically`. The comment at 37468 describes the danger; the flag
  `setMaster` averts it where the transaction ends, not here.
* An error of the directory sync inside `sqlite3OsDelete(zMaster, 1)` makes
  `vdbeCommit()` return an error and roll back, but the rollback finds the
  master gone and restores nothing: the transaction is committed. When power
  fails after that, or after a death in the same place, the master may
  reappear beside a journal that was finalised, and the commit is undone in
  the other file only; this is why faults and losses of power are not mixed.
* Two processes that recover at the same time may both find themselves to be
  the last; the second fails to open the master journal and reports
  SQLITE_CANTOPEN though its file is recovered. In a rollback by the writer the
  assertion on the result code of `sqlite3PagerRollback()` does not allow for
  it.

## 6. What is proved

The log. `WalLockProofs.TypeCorrect`: `Spec => []TypeOK`, for any number of
connections, slots, pages, frames, transactions, deaths and losses of power. The assumptions
are those of the modules on the constants (`NReaderAssumption`,
`WalAssumption`).

`TypeOK` is inductive as it stands because of its last part, `LoopTypeOK`: a
connection inside one of the three loops over the read marks stands on a slot
that has one. Without it a step of the loop could not be shown to stay inside
`aReadMark` or inside the lock numbers, and indeed the proof of these steps is
where `NReader - 1` in the code matters. The proof has a step for every action;
under it a step for every group of variables the action changes, while the
lemma `KeepTypes` accounts for the groups it leaves alone. Lemmas about
`LastFrame` and `LastCommit` need the existence of maxima of finite sets of
numbers, which is proved from well-foundedness of the natural numbers.

*Locks of the log* (`WalLockProofs`). For the same constants, and with all
three races allowed: `LockSafe`, that is `[]LockInv`. `LockInv` is that no lock
is held exclusively beside another holder, and a record `Known(c)` of what
every connection may count on at its place: which call it is in (`OpOK`), which
locks it holds (`HoldOK`), how the header of a writer stands to the shared one
(`BaseOK`), that the mark it relies on is at or below its snapshot (`MarkOK`),
and which snapshot its page cache is of (`CacheOK`). The proof splits a step of
connection `c` into what it does for `c` (a lemma per family of actions) and
for the others: a connection `d` loses nothing since what `d` counts on is only
written under locks that exclude the ones `d` holds (`SharedLocked`,
`OtherKnown`). `ReadMarksSafe` (`ReadMarkSafe`), `CachesFresh` (`CacheFresh`) and
`ReadMarksStable` (`ReadMarkStable`) follow. None of the three is inductive:
`ReadMarkSafe`, for one, rests on the second look at the slot (line 2307), on
the exclusive locks of restart and recovery over all slots, and on the header
of a writer being no shorter than the shared one.

*Frames of the log* (`WalBackfillProofs`, last part). With all three races, deaths,
losses of power and I/O errors allowed: `LogsIntact` (`LogIntact`), that the
frames the shared header publishes are in the log file, as an unbroken chain to
a commit, so that a recovery finds no less; and `FramesStable`
(`SnapshotFramesStable`), that nobody overwrites a frame of a snapshot whose read
mark is locked. The invariant is `LogKnownInv`: `LogInv`, `ChainOK` and `RoomOK`
below, and that an open snapshot of the log is no newer than the shared header
(`SnapOK`). It shows what the races leave alone: they spoil `nBackfill` and what
is concluded from it, not the log.

*Backfill* (`WalBackfillProofs`). `NoRaces` says that the three constants of
section 3 are FALSE; without it the property below has no proof, and
`SnapshotRead`, which needs it, is false, as `wal_restart_race` and the
observations of section 5 show. Deaths, losses of power and I/O errors are all
included. Under `NoRaces`: `CkptStaysBehind` (`CkptBehindReaders`), from
`BackfillKnown`, which is `[]BackfillInv`. Its parts, on top of `LockInv`:

* `SaltInv`: salts only grow, and where the two copies of the header differ the
  log file is not older than the header. A recovery can therefore not go back
  to a log before the published one.
* `LogInv`: the published frames are an unbroken chain under the salt of the
  header and end in a commit. This is what makes the scan of a recovery find
  at least them, so that `mxFrame` cannot fall below `nBackfill` when a
  recovery publishes.
* `FillInv`: `nBackfill <= mxFrame`, except for the writer in a restart that
  has published and not reset yet.
* `FillKnown(c)`: the copy of the header a connection holds is not newer than the
  shared one, and where it decides by it, it is the same (`InitOK`, `SaltOK`);
  what a writer has appended or a recovery has read continues the chain
  (`ChainOK`, `RoomOK`); a connection that bypasses the log, or restarts it, and
  still has the shared header finds all of it backfilled (`BypassOK`); a
  checkpointer's limit is above `nBackfill` and at most the `mxFrame` of the
  log it copies (`TargetOK`).
* `ClearOK(c, d)`: for checkpointer `c` and reader `d`. Once `c` has passed the
  slot of `d` its limit is at most the snapshot of `d`. A reader that takes a
  slot behind the checkpointer has a header at least as new as that of the
  checkpointer, or sets a mark that it then finds changed.

*Contents of the log* (`WalSnapshotProofs`). Under `NoRaces` and `NoPowerLoss`
(`MaxPowerFail = 0`; deaths anywhere, any number of them, and I/O errors are
included): `SnapshotsIsolated` (`SnapshotRead`), `FilesRecoverable`
(`Recoverable`) and `CkptKeepsPromise` (`CkptPromise`). Without `NoRaces` the
first is false (`wal_restart_race`). They rest on `LockInv`, `BackfillInv` and
`SnapshotKnown`, which is `[]SnapshotInv`. A page *at* n frames is the
content of the last of the first n frames that holds it, or that of the database
file when none does; `Shows(h)` says that header `h` finds the pages of
`image[h.ver]` that way, `Whole(v)` that the database file alone has them.

* `FreshInv`: numbers of transactions and salts are new when they are drawn, so
  that a frame of an earlier log can neither continue the chain of a new one nor
  pass for a frame of a pending transaction.
* `IndexInv`: the wal-index has the page of every published frame and no hole.
  `walCleanupHash()` after a rollback and the reuse of frame numbers after a
  restart depend on it.
* `ImageInv`: the shared header stands for a database that has a page 1 and as
  many pages as `nPage` says, and its last frame is the commit of that version.
* `DataInv`: log and file show the shared header; when all is backfilled the file
  alone does; and each page whose last frame is at or below `nBackfill` is
  already in the file. The last part is what lets a checkpoint skip those
  frames.
* `TailInv`: a commit frame *behind* `mxFrame` that continues the chain, which a
  process leaves when it dies before publishing, gives the database of its
  transaction. A recovery publishes exactly these. It has to be stated for
  every salt not older than that of the header, since a death in
  `walRestartLog()` leaves a new header over an old file.
* `OldLogInv`: while the file still has the log before a restart, that log with
  the database file is recoverable: everything in it had been backfilled.
* For each connection: versions are ordered (`VerOK`) and the number of a pending
  transaction marks its frames and no others (`PendOK`); what a transaction has
  appended, has still to append and which new pages it must contain (`FrameOK`);
  how far its index entries are (`IndexOK`); a reader's snapshot is shown by the
  log up to its `mxFrame`, or by the file when it bypasses the log (`ReadOK`); a
  checkpointer has the last frame of each page up to its header on its list or
  in the file (`CopyOK`); a FULL checkpoint works on the newest header
  (`PromiseOK`); a recovery is about to publish the last commit of the chain
  (`RecOK`).

The hard steps are the copy of a page into the file, where `ClearOK` of the
module before says that readers find the page in the log or are not older than
the copy (`ReadOther`); the truncation at the end of a checkpoint, which only
happens when the whole log was safe to copy; a restart, after which the old
frames must be invisible to everybody (`TailStep`); and the header a recovery
publishes, which may be newer than the last one published (`DataPublish`). `View`, the
database that a recovery of the files would give, is related to `Content` by
`ViewIs`. The parts of `SnapshotInv` were checked with TLC on several instances
before they were proved.

The file lock. For any finite number of handles and any number of processes and
failures, `UnixLockProofs` shows `Spec => AtomicLock` (`Implementation`): every
behaviour of the calls is one of FileLock. From the same invariant follow
`TypeOK`, `LocksBacked`, `ReservedSeen`, `PutAsideWhileLocked` (descriptors are put
aside only while the process has locks, a lemma of `LastCloseClean`) and, across
threads and processes, `Levels!Exclusion`. The assumption is
`UnixLockAssumption`: finitely many handles, each of one process.

The invariant `IInv` is needed because none of these is inductive. It says, in
this order: the system grants no conflicting locks (`KernInv`); one thread of a
process is inside the mutex (`MutexInv`); what a thread knows at each place,
above all that it holds the lock it just asked for (`PlaceInv`); the handles
with a level are at most `nShared` (`CountInv`); the record is NO exactly when
nobody is counted, and otherwise there is a lock on the shared range
(`RecordInv`); a level above SHARED is the level of the record and is backed by
the system (`LevelInv`); and what a level excludes (`OthersInv`). `CountInv` is
an inequality since a failed unlock in `unixClose()` leaves a count nobody
owns; it still gives the step everything hangs on, that `nShared <= 1` means
no other handle of the process has a level (`OnlyHolder`), which is the test
before EXCLUSIVE and before the shared range is dropped. The proof has a lemma
for each action or, where an action has several outcomes, for each outcome.
`IInv` was checked with TLC before it was proved.

Two more properties need the counts to be exact, not bounded. `ExactInv` says
that before the first failed call the locks of a process in the system, level
and count of its record are exactly what the places of its handles make them;
`AlwaysGrants` (`GrantsWhenFree`) follows when all are at rest. After a failure
this is false, and what remains is that the last close clears the record, the
descriptors put aside and the locks (`LastCloseClean`, `LastCloseFrees`).

The rollback journal (`JournalProofs`). For any number of connections and
processes, pages, transactions, faults and losses of power:
`TypeCorrect` (`TypeOK`, which contains the mutual exclusion of the lock),
`LockRefined` (every step of the pager is a step of FileLock or leaves the
lock alone, so that the abstract lock that UnixLock implements is the one the
pager uses) and `WritesAlwaysLocked` (`WritesLocked`). The invariant ties the
place of each connection and the state of its pager to the level it must
hold: a write to the file happens where the level is EXCLUSIVE, a write to
the journal from RESERVED upwards, on every path of commit, spill, rollback,
hot rollback and failure. Assumption: `JournalAssumption`.

Shared cache and notification (`NotifyProofs`). For any finite number of connections
and any tables: `TypeOK`, `TablesIsolated`, `PendingForReaders`, `Listed`,
`NotForgotten` and `NoCycle`. `BaseInv` counts: `nTransaction` is the number of
connections with a transaction (with the theorems on cardinality), which is
what makes the test `nTransaction = 2` mean *the last reader*. `NoCycle` is
stated with sets closed under the pointers, since a path has no bound on its
length: *d is not reachable from c* is witnessed by a closed set with c and
without d, and the sets for the state after a registration are unions and
intersections of those before.

Backup (`BackupProofs`). For any number of pages, contents and backups:
`TypeOK`, `PrefixCopied` and `CopyIsSnapshot`. The invariant adds to
`PrefixCopied` how the file, the image of the writer and the journal of a dead
process are related (`SourceInv`), and that a backup is known to the pager as
soon as it has copied anything (`Sound`), without which a write could be
missed. `SourceGood` is the lemma on the lock with its hot rollback: what was
copied is right afterwards, or the backup starts over; `StepEffect` is what a
step adds.

Commit over several files (`MasterProofs`). For any finite number of files and
any number of transactions, faults and deaths: `TypeCorrect` (`TypeOK`) and
`Atomic` (`CommitsAtomically`), the refinement of AtomicCommit. Two hypotheses.
`kind = "fault"`, which never changes after the initial state: executions without
losses of power. `RecoverModes \subseteq {"delete"}`: with another mode the
property is false (section 5, cold journals). The modes of the connections that
commit are any. The invariant says who holds which file
(`TurnInv`, `LockInv`), where a recoverer has fallen to SHARED before it looks for
the master journal and a new writer may already have RESERVED beside it, that names of master journals are fresh and listed
(`NameInv`), that until the master is deleted every hot journal of the
transaction still restores the old content, and afterwards none does
(`RedoInv`), how far the commit has come (`CommitInv`), and how far each rollback
has (`PlayInv`), where the last part is the heart of it: whoever is about to
delete a master journal has yet to look at every journal that still names it.
Each step is then a step of AtomicCommit or leaves the mapped state alone: the
deletion of the master journal is the commit of all files at once.

Only model-checked: `NothingHeld` and `RestartAssert` of the log (the second has
counterexamples outside `NoRaces`, section 5); `Recoverable` of the log when power fails, and `Durable`, which
is about nothing else: the invariant would have to hold for every
combination of old, new and torn frames that a disk may keep (plan);
`Recoverable`, `ViewOK` and `CacheTrusted` of the journal, where `Restored` is
a recursion over the items of the journal, and what such a definition
computes for every journal is out of the prover's reach, because induction over
data is; the commit over several files under losses of power; liveness
(`CallsReturn`, `Delivered`), which is out of reach as well.

## 7. Not modelled

`PROJECT.json` has the reason for each component and, for those modelled in
part, what is left out. In short: the b-tree's pages and the page
cache's lists are next to what is modelled here and only the cache is within
reach of these tools (plan, **PCache**); the hash tables and the torn read of
the header of the wal-index are taken as one step in Wal (plan); the
asynchronous VFS is planned; the SQL compiler, the virtual machine, the
extensions and the utilities are sequential code whose correctness is not
about states and steps; the Windows VFS implements the same interface on
another system; the second copy of the amalgamation (`select debug/`) is the same
code.
