# A TLA+ model of the mail migration service and of the servers around it

The repository is a study collection.  Its own program is the mail migration
service under `src/cpp/recept`: a server, `msgmvrcpt`, that takes requests to move
the mail of an account, and a process per account, `msgmv` (binary `md_msgmove`),
that moves it from a Zimbra server (the "EAS mailbox") to an IMAP server
("NSIM"), for which `src/cpp/sim_nsim` is a simulator.  The rest is the code of two
textbooks (`apue.3e`, `unpv13e`), exercises on it, and small programs.  Among it
are four complete systems in which several processes or threads share state: a
database library, a print spooler, a family of ten servers, and the start of a
daemon.

This project models the service, its simulator and these four, checks them with
TLC and proves what matters most of nearly all of them with TLAPS.

## 1. The system

### 1.1 Parts

| Part | Code | State it keeps | Operations |
|---|---|---|---|
| Reception server | `zn_server.cpp`, `zn_toolserv.cpp` | listener, `_conn_count`, `_end_flag`, the event loop | `on_accept`, `sigchld_handler`, `stop` (SIGINT), `error_cb` |
| Connection handler | `zn_connection.cpp` | request, result, `_close_flag`, read timeout; one forked child per client | `on_read` (`check_request`, `check_prevent_file`, `access_db`, `execute`, `do_reply`), `on_write`, `event_cb` |
| Migration queue | `zn_migration_queue.cpp` | one MySQL row per login: host and `PROC_STATUS` | INSERT, UPDATE, DELETE, SELECT, COUNT |
| Migration process | `zn_main.cpp` | where it is in `main()`, the exported mailbox | LDAP search, account change, download, analysis, IMAP upload, account restore, DELETE |
| Folder and mailbox filters | `zn_folder_info.cpp`, `zn_mailbox.cpp`, `zn_filterable_list.hpp` | the list of folders, the list of mails, replaced folder ids, mail counters | seven filters that rewrite the lists one after the other |
| IMAP client | `zn_cimap.cpp` | socket and send buffer | welcome, LOGIN, CREATE, APPEND, LOGOUT, each a `perform()` of writes and reads |
| Archive unpacking | `zn_untar.cpp`, `zn_untar_utils.cpp`, `zn_mailbox_dump.cpp`, `zn_stream.hpp`, `zn_metafile.cpp` | buffered bytes, state of the tar reader, directory numbers, digest, the mailbox so far | `feed`, `_set_tar_info`, `on_write` |
| Zimbra SOAP and HTTP, LDAP | `zn_zimbra_soap.cpp`, `zn_http.cpp`, `zn_ldap.cpp` | sockets | requests |
| NSIM simulator | `src/cpp/sim_nsim` | one variable for the accepted descriptor, an index per queue of answers, both shared by threads without a lock | accept loop, a thread per connection: receive, find the command, answer from its queue |
| Start-up and PID file | `zn_toolserv.cpp` | the PID file | `create_pidfile`, `run`, `remove_pidfile` |
| Exclusive lock | `zn_exclusive_lock.hpp` | a named semaphore | `lock`, `unlink`, the destructor |
| Daemon start | `apue.3e/daemons` | a locked PID file | `already_running`, SIGTERM |
| Database library | `apue.3e/db/db.c` | index file (free list, hash chains, index records), data file, record locks | `db_fetch`, `db_store`, `db_delete`, `db_rewind`, `db_nextrec` |
| Print spooler | `apue.3e/printer/printd.c`, `print.c` | spool directory (job number, data and control files), job queue, list of client threads | main, printer, signal and client threads |
| Client and server designs | `unpv13e/server` | listening socket, pools of children or threads, stream pipes, a ring of descriptors | `serv00` to `serv09` |

`PROJECT.json` lists every part with its status, the ones that are not modelled
too.

### 1.2 How the parts interact

A client connects to `msgmvrcpt`.  The parent forks a child and counts it in
`_conn_count`; at `TOOLSERV_LITSEN_COUNT` children, further connections are
closed.  The child reads one line, looks for three maintenance files (the
directory itself, the server's lock, the lock of the EAS host), compares three
row counts of the migration table with their limits, inserts a `NOT_PROCESS` row
for the login and double-forks `msgmv`.  Then it replies and, once the response
is written, exits.  The parent learns of the exit by SIGCHLD.

`msgmv` shares nothing with `msgmvrcpt` but the table.  It goes on only if its row
is `NOT_PROCESS`, and raises the status of the row to `EXPORTING`, `ANALYZING`
and `MIGRATING` as it works, and deletes the row at the end.  It talks to NSIM
through the IMAP client, one session for all commands; in tests the simulator is at
the other end.

The other systems stand for themselves.  Processes that use the database library
share its two files and nothing else.  `print` hands a document to `printd` over a
connection; the daemon's threads meet in the job queue and in the spool directory,
which is all that is left when the daemon ends.  Each of the ten servers answers
the same clients; they differ in who accepts a connection and how it gets to the
process or thread that serves it.

### 1.3 What is hard

* Children count and insert in separate SQL statements, concurrently.
* Signals merge: one SIGCHLD may stand for several exits, and SIGINT may come
  before, between or after them.
* The row is in the table before the process that works on it exists, and stays
  there when that process dies at any step.
* Maintenance files come and go while a request is being checked.
* A failed step of the export does not end `main()`: it goes on with what it has.
* The archive is unpacked while it is decompressed, in pieces that respect no
  boundary of the format, and mails are bound to entries by position and digest.
* The filters hand two lists to each other and look folders up by id and by name
  that an earlier filter may have removed, renamed or replaced; a failed look-up
  is an exception nothing catches.  The last sort is given a comparison that is
  not a strict weak order.
* The IMAP client takes what one `read()` returns for an answer and looks at none;
  the simulator takes what one `recv()` returns for the place to look for a line
  end in.  Both are right as long as nothing is cut.
* The simulator's threads are given the address of a variable the accept loop goes
  on writing to, and step through the queues of answers without a lock.
* A PID file is tested, made and written in separate calls, and removed by name.
  A killed process leaves it, or the semaphore it held, behind.
* The database takes the locks of a chain and of the free list separately, moves
  records between lists under one of them at a time, and reads sequentially past
  all chains under the lock of the free list only.
* `printd` can end between any two of the steps that put a job on the disk, tell
  its client, queue it, print it and remove it, and comes back on what it finds.
* A pool of servers has a bookkeeping of its own (a lock around `accept`, a count
  of free children, two indexes of a ring) that must survive clients which end the
  process that serves them, and a stop at any moment.  In `serv05` the pipe on which
  a child says that it is ready is also its standard error, so error messages reach
  the parent as so many bytes of readiness.

### 1.4 What makes each part correct

* Server: `_conn_count` is the number of children that really exist; no child is
  forgotten; a clean stop abandons none; SIGINT does end the server.
* Connection handler: the limits hold up to a known overshoot; a request does not
  get past a maintenance file that was there when it was read; at most one
  `msgmv` per login.
* Process: the row tells the truth about what is being done to the two mail
  stores; what `msgmv` does to the table is what the receptionist relies on.
* Unpacking: every mail of the archive becomes an entry with its own text,
  however the stream is cut.
* Filters: every mail that is kept has a folder that is created, with all its
  parents; the phase fails only for accounts that a removed system folder spoils.
* IMAP client and simulator: an answer is read for the command it answers; a thread
  serves the connection it was made for; a session ends.
* Start: one copy serves, the file says which, copies started together do not all
  give up, and what a killed copy leaves does not keep a later one out.
* Database: each call acts as if at one moment on one map, whatever the others do;
  no record is lost, found twice or seen half written; nobody waits in a circle.
* Spooler: an acknowledged document is printed, as it was received, also when the
  daemon dies in between; a job number names one document.
* Server designs: every connection is served by exactly one process or thread; a
  bad client harms only those the design exposes to it; a stop leaves nobody.

## 2. Modules

| Module | Models | Uses |
|---|---|---|
| `MigrationQueue` | the table and the SQL statements on it, as operators | |
| `Reception` | parent and children of `msgmvrcpt`; `msgmv` only as "something that raises and deletes its row" | extends `MigrationQueue` |
| `Worker` | `main()` of `msgmv` | extends `MigrationQueue` |
| `MsgMove` | the service: `Reception` and `Worker` over one table | extends `Worker`, instantiates `Reception` |
| `Analysis` | the ANALYZING phase: folder and mailbox filters | |
| `Untar` | the tar reader that builds the mailbox | |
| `ImapSession` | the IMAP client, token by token | |
| `Nsim` | the simulator, with sessions of `ImapSession` connected to it | extends `ImapSession` |
| `SingleInstance` | three ways to keep a second copy out: PID file, locked file, semaphore | |
| `KeyStore` | what the database library promises: calls that act at one moment on one map | |
| `Db` | the library, one file access or lock at a time | instantiates `KeyStore` |
| `Printd` | the print spooler with its spool directory and clients | |
| `ServerPool` | the ten server designs | |
| `ReceptionProofs`, `MsgMoveProofs`, `AnalysisProofs`, `SingleInstanceProofs`, `ServerPoolProofs`, `PrintdProofs`, `NsimProofs`, `DbProofs` | lemmas and theorems | extend the module they name; `MsgMoveProofs` also instantiates `ReceptionProofs` |
| `MCReception`, `MCMsgMove`, `MCAnalysis`, `MCUntar`, `MCNsim`, `MCSingleInstance`, `MCDb`, `MCPrintd`, `MCServerPool` | symmetry sets, and the accounts, paths, calls and sessions TLC tries | extend the module they name |

Definitions whose comment begins with "Mutant" are deliberately wrong variants of
the definition that follows them.  No specification uses them; they are there to
show that the property they are listed with in `PROJECT.json` does notice such a
fault.

### 2.1 Reception

The parent is one thread with an event loop, so each callback is one action:
`Accept`, `Refuse`, `SigchldHandler`, `Stop`, `ListenerError`, and `LoopReturns`
for the return of `event_base_dispatch` with the destructor that follows it.
SIGCHLD and SIGINT are pending flags (`sigchld`, `sigint`), which is what the
kernel keeps of a standard signal: two exits before the handler runs are one
signal.  `Refuse` has no guard on the count because a `fork()` that fails takes
the same path at any count.

A child is a process of its own.  `pc[c]` says which call of `on_read` it makes
next; every `access()` and every SQL statement is a separate action, so all the
interleavings of children with each other, with the operator and with `msgmv`
are behaviours of the model.  The order of the checks and of the replies is that
of `on_read`, `check_prevent_file` and `access_db`.  Any statement may fail
without effect (`DbError`), the INSERT may also succeed and have its answer lost
(`Insert` with a `DB_ERR` reply), the first `fork()` may fail
(`ExecuteForkFails`), and a failure further down is invisible to the child
because `wait(NULL)` drops the status (`ExecuteLost`).  `ChildDies` is a child
killed inside a handler.

A request is a login and a host; the text of requests and responses, the
configuration and the log are left out.  `ret` is the last result code.
`readTimer` tells whether the read timeout is `TRANS_REQUEST_TIMER` or the
`INT_MAX` that `on_read` sets.  `barred` is a history variable: the maintenance
files that have been there without interruption since the request was read.

`workers[l]` is the number of `msgmv` processes that still work on the row of
login `l`.  `WorkerUpdates` and `WorkerEnds` are all that `Reception` knows of
them.

### 2.2 MigrationQueue

A table maps a login to a row or to `NoRow`; the unique key `LOGIN_ID` is what a
function is.  The three WHERE conditions of `access_db` are `AllRows`,
`ExportRows` and `EasRows`.  The third one is written without parentheses in the
code, so by SQL precedence it selects every `NOT_PROCESS` row and the `EXPORTING`
rows of one host; `EasRows` says so.  Columns that are written and never read
(Zimbra id, IMAP counters, time stamps) are left out.

### 2.3 Worker and MsgMove

`Worker` has one action per call of `main()` with an effect outside the process.
`wpc[p]` is the next call.  `Die` may happen before any call: a signal, a
`return 1`, or an exception nothing catches.  An exception inside the export
block is `ExportFails`: `main()` logs it and goes on to `ANALYZING` with NULL
pointers, and `Filter` then kills the process.  The answers of NSIM are not
looked at by the code, so `Append` may or may not store the mail and goes on
either way.  `junk` is the part of the account that `change_password` changes.

`MsgMove` runs both over one table.  `Launch` is a child's `Execute` and the start
of a process in one step, since the double fork and `execlp` have returned in the
child's eyes.  Everything else is interleaved.  `WorkersOf`, the number of
processes that run for a login, is what stands for `workers`; with it every
behaviour of `MsgMove` is a behaviour of `Reception` (`ImplementsReception`).

### 2.4 Analysis

A folder is an id and a path, a path a sequence of names.  `Init` takes every
account that can be made from a small pool of folders (with all parents, as
nested XML elements always have) and every archive of a few mails.  The filters
follow in the order in which `main()` performs them:

1. `RemoveUnnecessary`: only default and custom folders stay, ordered by id;
2. `LimitMails`: the oldest `NSIM_MAIL_STORE_MAX` mails stay.  `std::sort` is not
   stable, so which mails of one date stay is a free choice;
3. `ChangeNames`: `/Sent` becomes `/Sent Messages`, and so do the paths below it;
4. `EncodeNames`: names that cannot be encoded remove their folder, and the
   backup folder `000` is added for them;
5. `ReplaceAndCount`: mails of removed folders go to the backup folder, folders
   that have mails are counted;
6. `FillParentFolderMailCounter`: parents count as well; a folder that is not
   found is an exception that ends the process (`phase = "dead"`);
7. `PrioritySort`: the order of the CREATE commands, then empty default folders
   go.

`ById` is a list sorted by id, `Only` what is left of a list from which the other
elements have been erased.

The comparison of the last filter does not define an order, so the result is what
the algorithm makes of it: `SortInsert` is the insertion sort that libstdc++ uses
for up to 16 elements.  With more folders `std::sort` may even read outside the
vector; the pools stay below that.  `Always` are folders every Zimbra account has
(Trash): since the first filter removes it, the vector has spare capacity when
the backup folder is appended, and the iterator the code keeps over `push_back`
stays valid.

### 2.5 Untar

`Init` takes every archive of up to three mails that the Zimbra server may write:
a meta file, then the mail, each with or without the extra entry for a long name,
and entries of other types in between.  `Feed(n)` is `feed()` with a piece of `n`
cells: it appends them to the buffer and runs the loop over the blocks that are
complete.  The loop is a fold of `FeedBlock` over these blocks; `FeedHeader`,
`FeedContent` and `FeedLongname` are its branches, and `st` is the object
(`zn_mailbox_dump_stream` with its base classes).  A length is counted in cells,
two to a block, and a text is the sequence of its cells, so that `size` and
`bytes_left` are compared as in the code.

Details that are kept: the name of a long entry starts with what `process("")`
returns (`.`), so its first directory gets a number of its own; directories are
numbered by name, not by path; files are opened for appending; a block without
the magic is skipped; two zero blocks end the archive, adjacent or not.  SHA-1 is
taken to tell texts apart, and `load_meta` to find the mail its file is about.

### 2.6 ImapSession and Nsim

A client writes a stream of tokens in which CR and LF stand for themselves; an
answer is two tokens, its tag and the rest.  `c2s` and `s2c` are what is on its way,
and every read returns any non-empty part of it.  `cpc[c]` is the place in
`perform()`: `SendLine`, then for an APPEND `Ready`, `SendLiteral` and `SendCRLF`,
then `Answer`.  A write to a closed connection is lost or kills the process
(SIGPIPE), a read of it returns nothing or fails.  Kept from the code: any answer
is leave to send a literal; an empty literal ends the command before its line end;
LOGOUT reads again after a read that returned a tag only.

In `Nsim`, `Accept` writes the lowest free descriptor into the one variable `slot`
and starts a thread; `ReadSlot` is the thread's read of it, a step of its own.
From there a thread goes by the number it read: `tab` says which connection has a
number now.  `RecvCall` and `Recv` are two steps, since a thread blocked in `recv()`
stays with its connection when the number is closed and used again.  A line end is
looked for in what one `recv()` returned.  The index of a queue is read for the
answer (`GetCmdQueIndex`), compared (`CompareIndex`) and changed
(`CmdQueIndexIncrement`) with no lock; the increment may start from either value.
Where the code reads outside its memory (an index behind the queue, `trim` of a
blank string) the process goes on with anything or dies (`Faults`).

`turn` and `sent` number answers, and `odd`, `stray`, `clash` and `cut` record what
went wrong first: they are history and guard nothing.  `Plans` are parts of
sessions: LOGIN and CREATE are the same steps as LOGOUT with one answer to wait
for, so the instance uses APPEND and LOGOUT.  The queues, which the simulator loads
from a file, are the constant `Queue`.

### 2.7 SingleInstance

`Init` chooses the design.  `name` maps a name in the file system to the file or
semaphore bound to it, which is called after its maker; `fd` is what a process has
open, so an unlinked file stays what it is for those that have it open.  With the
PID file, `Access`, `Fopen` (which empties what is there), `WritePidFile`, `Bind` and
`Remove` (whosever file has the name now) are the calls of `create_pidfile`, `run`
and `main`; a process started with `-retry` has a file of its own and goes straight
to its end.  With the locked file, `OpenLockFile`, `LockFile`, `Truncate` and
`WriteLockFile` are those of `already_running`.  With the semaphore, `SemRelease` is
the destructor, which posts even if the wait has failed.  The deadline of that wait
is read from a member nobody sets, so the wait may give up at any time.  `Kill` may
happen at every step; the kernel then drops locks and listeners, and leaves files
and semaphore values.  Left out: a failed `sem_open`, whose result the destructor
uses as a semaphore.

### 2.8 KeyStore and Db

An offset of the index file is a number: 0 is the free list pointer, `1 .. NHash`
are the hash table, the rest are index records in the order of the file.  One action
is one access to a file, with the `lseek` before it, or the taking of one lock; an
append holds a lock on the tail of the file around both of its calls and is one
action.  The two reads of `_db_readidx` are one step, since a record that is used
again keeps its lengths.  `db[p]` is the `DB` structure of a process and the local
variables its functions need from one access to the next; `off` stands for the place
they have come to, in a chain, in the free list or in a scan.

`map`, `call` and `ret` are what callers see: the step at which a call takes effect
(`Effect`) is the write of the index record for an insertion or a deletion, the
write of the data for an overwrite, the read of the data for a fetch.  With them
every behaviour of `Db` is one of `KeyStore`.  `must` and `got` are the history of a
scan.

`PtrMax` is the largest offset that fits a pointer field.  When an appended record
lies behind it the library ends the process (`Quit`): the record stays in the file on
no chain, and if it was to replace another, that one is gone.  `KeyStore` has this as
a step of its own.  A scanning process does nothing else with its handle, whose
position in the file is that of the descriptor; the two uses of one handle mixed are
not modelled.

### 2.9 Printd

The spool directory (`jobno`, `data`, `reqs`) survives, the rest does not.  `up` is
the main thread, `pt` the printer thread, `th[c]` the thread of client `c`; one action
is one system call or one locked section.  A document is `Parts` parts long and known
by its client, so that a truncated or exchanged one can be told apart.  `Crash`,
`Sigterm` and a configuration without a printer end the daemon at any step; `Start`
and `ScanEntry` are `init_request` and `build_qonstart` on what is left.  `creat`
truncates a file of the same name, which happens when a number is given out twice.

`add_worker` links a second node in front of the head and does not make it the head,
so the list loses nodes, and after a cleanup its head may be freed memory
(`Dangling`).  What reading it does is a free choice: the walk finds nothing, dies,
or in `kill_workers` does not end (`spin`).

The exchange with the printer is one step: it takes the job, or the job is put back
(`Defer`), printed or not.  It is assumed to send its answer's header in one piece.
A job number is never so large that it wraps.

### 2.10 ServerPool

A design is a record: processes or threads, a pool or one worker per connection, a
lock around `accept` or none, and who takes the connection.  `serv03` (record lock)
and `serv04` (mutex in shared memory) have the same record; they differ only when
a child dies with the lock, which none does alone.  `open[c]` is who has a
descriptor of connection `c`, `hold` the one a process or thread is working on.
`Take` is `accept`.  `serv05` has `Select`, `PassDescriptor`, `ReadByte` in the parent,
`ReadFd`, `TellParent` in the child; what `select` found is kept in `sel` and used
after the world has moved on.  `serv08` has `Put`, `Get` and `Sleep`, each a section
under `clifd_mutex`.  A client in `Bad` sends what `web_child` calls `err_quit` for,
or resets its connection, and ends the process that serves it (`BadRequest`, `Die`),
which in the threaded designs is the whole server.

In `serv05` the end of a child takes two steps.  `child05.c:22` makes the stream pipe the
child's standard error, so `err_doit` (`error.c:105`) writes the message of `err_quit` or
`err_sys` to the parent: `Complain` puts up to `MsgLen` bytes into `ready` (none when the
child ends by SIGPIPE), and `Exit` follows at any later time.  The parent reads one byte
a round and takes each for "ready again": `ReadByte` marks the child free and counts it,
once per byte, whether the child is about to exit or has exited.  Meanwhile it may pass
connections to that child.  They stay in `inbox` and are lost with the child (`Die` closes
a descriptor nobody has received); the `Write_fd` to one that has exited raises SIGPIPE in
the parent, and when no child is marked free `err_quit` ends it: both are `PassFails`.  Only
when the last byte has been read does the parent see the end of the pipe (`ParentQuits`).
A message of n bytes is written in one step, as `fputs` to an unbuffered stream
does.  SIGINT goes to the server only, not to the
group of processes a terminal would send it to.

## 3. Runs

### 3.1 Runs that pass

| Run | Instance | Shows |
|---|---|---|
| `reception_server` | 3 clients, room for 2 children, 1 login, 1 host, every maintenance file, SIGINT and listener errors | `ConnCountExact`, `NoForgottenChild`, `CleanStop`, `OneWorkerPerLogin`, `MaintenanceHonoured` |
| `reception_limits` | 2 children, 4 logins, limits 1, 1 and 0 | `TableBound` |
| `reception_stop` | 2 clients, SIGINT at any time, fair | `ServerStops`, `AbandonedRowStays` |
| `msgmove_service` | 1 client that may come again, 2 processes, 2 logins | `ExportLoadBounded`, `StatusStepwise`, `StoresChangeUnderRow`, and the refinement `ImplementsReception` |
| `analysis_filters` | every account from 8 folders, up to 3 mails, room for 2 | `TargetsComplete`, `DiesOnlyForRemovedFolder` |
| `untar_archive` | every archive of up to 3 mails of 0, 2 or 3 cells, two texts, long or short names, other entries; pieces of 1 and 5 cells | `UnpacksExactly`, `BoundRight` |
| `nsim_sessions` | 2 sessions, a mail, an empty mail or a logout; 333,000 states | `IndexBound`, `OwnConnection`, `OwnAnswer`, `SessionEnds` |
| `single_instance` | 3 processes, each design; 53,000 states | `TypeOK`, `FileNamesServer`, `NotAllRefused`, `SemaphoreConserved`, `StartRecovers` |
| `db_shared` | 2 processes and a scanner, 3 keys on 2 chains, offsets up to 4; 1.1 million states | `ChainsRight`, `FreeListRight`, `NextrecRight`, `ScanComplete`, `NoCircularWait`, and the refinement `Linearizable` |
| `printd_spool` | 2 documents of 1 part, the daemon ends once | `NoJobLost`, `PrintedRight`, `ReusedOnlyUnsaved`, `AckedPrinted` |
| `server_pool` | each design with 4 clients, 1 of them bad, pools of 2, a ring of 3, messages of 2 bytes; 158,000 states | `ServedOnce`, `NavailBound`, `RingRight`, `GoodAnswered`, `NobodyLeft` |

* `ConnCountExact`, `NoForgottenChild` and `CleanStop` are about the one number
  that three callbacks keep.  If it drifted up, the server would refuse clients
  for good; if it drifted down, it would wrap (it is unsigned) or the server
  would leave its loop with sessions open.
* `TableBound` states how far a limit can be exceeded when children count before
  any of them inserts: by the number of children.  The limits of the run are chosen
  so that the bound is reached: with `TransactMax` 1 and two children there are
  behaviours with three rows, and the off-by-one variant produces a fourth.  The
  bounds of the other two counts (`ExportBound`, `EasBound`) are proved with it.
* `OneWorkerPerLogin` holds only because the child that was told `ER_DUP_ENTRY`
  does not go on, and because the row outlives its process.
* `MaintenanceHonoured` is stated with the history `barred`: a file that is
  created while a request is under way may be missed, one that was there all the
  time may not.
* `ServerStops`: after SIGINT the loop ends, in whatever order the signals come.
* `AbandonedRowStays`: a row whose `msgmv` was never started is never started, and
  never removed; only an operator can.
* `StatusStepwise` and `StoresChangeUnderRow` relate the table to the two mail
  stores: an operator who reads the table knows what has been touched.
* `ExportLoadBounded` bounds the processes that really export, not only rows.
* `TargetsComplete` is why the append loop never meets a folder it cannot find, and
  why the folder for mails of unencodable ones is created, last;
  `DiesOnlyForRemovedFolder` says which accounts cannot be migrated at all (a mail
  in Trash or below it is enough) and that no others fail there.
* `UnpacksExactly` says which entries the mailbox has at the end.  It includes a
  defect: an empty file has no block, and `feed()` takes the header behind it for
  its text, so the mail behind an empty mail is lost, that one and no other.
* `BoundRight` holds in every state, so also for a stream that breaks off: an
  entry has its own mail or none.  It rests on the comparison of digests alone
  once a header has been lost.

* `OwnAnswer` says when answers and commands fall out of step for good, since the
  client looks at no answer: a read that got part of one, a request answered in
  parts, or threads that were mixed up; and not otherwise.  In particular an empty
  mail does not do it by itself.  `OwnConnection` says that the exchange of
  descriptors at the start of a thread is the only way to another's connection, in
  spite of numbers that are used again.  `IndexBound` is how far threads can push an
  index behind its queue.  `SessionEnds` has the one exception that is no fault of
  threads: a line end received in two parts is never found, and both ends wait.
* `FileNamesServer` and `NotAllRefused` hold for the locked file without condition.
  For the PID file the first needs that no two processes ever passed its test
  together: after that, the one that cannot bind removes the file of the other.
  `StartRecovers` shows the other difference: with the lock it holds whatever an
  earlier process left, with the PID file only where none was left.
  `SemaphoreConserved` is the balance of the semaphore: each wait that failed lets one
  more in, each death inside one less.
* `Linearizable` is what callers rely on; `ChainsRight` and `FreeListRight` are why it
  holds while records change lists under two different locks, `NextrecRight` and
  `ScanComplete` what a reader gets that takes only one of them.
* `NoJobLost` and `PrintedRight` exempt documents whose number was given away;
  `ReusedOnlyUnsaved` says when that happens: the counter is saved when a job is
  picked, not when a number is handed out, so only a later daemon gives one again.
  `AckedPrinted` covers the wake-up of the printer thread, which is signalled without
  its lock, the restart, and what becomes of the daemon in its broken list of workers.
* `ServedOnce` covers the descriptors of all designs.  It has one exception, which the run
  reaches: connections that `serv05` passed to a child after its last message go
  with the child, and the property bounds how many these can be.
* `NavailBound` and `RingRight` are about the bookkeeping of two designs.  The count of
  `serv05` is not exact: each byte of a message counts as a free child, while the mark in
  `cptr[]` can be set only once.  `NavailBound` says that it never counts too few, too
  many only by those bytes, and that a child marked free is idle unless it is on its
  way out.  So with children that are well "no available children" cannot happen; `GoodAnswered` and `NobodyLeft` compare what bad clients
  and stops do to each.

### 3.2 Where the code differs from what is written about it

`deleted_unmoved` checks `DeletedOnlyWhenMoved`, which a configuration file and a
message table promise, and finds it violated: NSIM refuses a mail, the row is
deleted and the migration counts as done.  `PROJECT.json` quotes the lines.

The modules contain other such deviations, which have no run of their own:

* `zn_connection.cpp:161` counts `PROC_STATUS = 0 OR PROC_STATUS = 1 AND EAS_HOST =
  ...`.  `AND` binds tighter, so `NOT_PROCESS` rows of every host count, and
  `EAS_BUSY` may be answered for a host without rows.  The comment on line 160 speaks
  of the records of one particular EAS mailbox (`EasRows` in `MigrationQueue`).
* `zn_connection.cpp:258` sets the read time-out to `INT_MAX` when any byte arrives, so
  part of a line switches the request timer off.  `msgmvrcpt.conf:7` gives the request
  50 seconds (`readTimer` in `Reception`).
* `zn_toolserv.cpp:132` does nothing for `-retry`, while `msgmvrcpt.msg:18` announces
  "Remained queue exists. Start msgmv." (`AbandonedRowStays`).
* `zn_folder_info.cpp:213` joins its criteria with `||`, so the sort may put `/A/B/C`
  before `/A/B`; the comments on lines 202 and 204 say parents come first
  (`PrioritySort` in `Analysis`).
* `zn_main.cpp:341` creates a folder under its UTF-8 path, and mails are appended under
  the modified UTF-7 one; the example in `zn_cimap.cpp:382` and `:386` uses one name.

* `serv05.c:46` turns new connections off "if no available children", but `navail` counts
  the bytes of error messages too.  The child of a bad client writes its message while
  the other child is busy; the parent reads two bytes of it, so `navail` is 2 where `cptr[]`
  has one free mark; one connection goes to the child that is about to exit, and the
  next is accepted with every child marked busy.  There the code ends with "no available
  children", and neither good client is served.  `server_pool` reaches this state; it
  is the case `Free = {}` of `NavailBound` (`ReadByte`, `PassFails` in `ServerPool`).

Modules of several processes also state a type invariant `TypeOK`, as the ground for
proofs; those of `Reception` and `SingleInstance` are proved, and `single_instance` checks the latter,
which says what a dead process may not hold.

### 3.3 Bounds

* `Conns` are connections that can be used again and again, so their number bounds
  concurrency, not the number of requests.  Three clients for two places make
  refusals, merged SIGCHLDs and a backlog at the moment of a stop happen
  together.  Two children suffice for the races of counts and INSERTs, since each
  race is between two of them; the theorems of section 4 cover any number.
* `OpFiles` bounds which maintenance files the operator touches; it is empty where
  the property does not depend on them.
* `MayStop` switches SIGINT and listener errors off in the runs that are not about
  stopping.  There the server never stops, and TLC checks for deadlock.  Where it
  may stop, deadlock is not checked: a stopped server with no client has no next
  step.
* `Procs`, `Mails`: two processes and one mail are enough for two migrations to
  overlap at every pair of steps; the run about refused mails uses two mails.
* `MailIds`, `Dates`, `Pool`, `MaxDepth` in `Analysis`: three mails with a limit of
  two and two dates make the limiter choose, and choose between equals; the pool
  has each kind of folder, with a folder below it.  The filters always terminate,
  so deadlock is not checked.
* `Sizes`, `Texts`, `MetaSize`, `Chunks` and `Folders` in `Untar`: no block, one
  full block, and one with a rest; two mails may have the same text; a piece of
  one cell makes every position a cut, one of five completes several blocks at
  once; the paths differ only in the order of their directories.  The paths have
  a length for which the terminating zero of a long name never has a block to
  itself: such a block, read as a header after a loss, would count as an end
  mark.
* In `Db`, offsets up to 4 leave two records on chains of two hash values: enough for
  a chain of two, a reused record, one that does not fit, and a full file.  Three keys
  on two chains make keys collide, data of two lengths make free records fit or not.
  Deadlock is checked: a process between calls can always make one, unless it has
  quit, and the scanner never does.
* In `Printd`, one end of the daemon is enough for the numbers to be given again, and
  two clients for the list to break; a job is tried any number of times.  `Ids` has a
  number for each document, since a document gets one at most.
* In `ServerPool`, three clients overflow the ring before its threads have taken any;
  four are enough to fill the pool and keep others waiting.  The bad one leaves one
  of two children to serve the rest.  `MsgLen` is 2 where the message of `web_child.c:19`
  has about 27 bytes: the first byte marks a child that exits as free, the second
  takes the count beyond the marks or lets a second connection go to it, and more of them
  do the same again.  TLC has also been run with 1 and 3 bytes and with two bad clients;
  the theorems hold for any number.
* In `SingleInstance`, each process starts once; three suffice for two that race and
  one that comes later.
* In `Nsim`, two sessions suffice for a mix-up of two threads, and queues of one and
  two answers for an index at, and behind, the end.
* In these last four a system that has stopped, or whose clients are done, has no next
  step, so deadlock is not checked.  `SessionEnds`, `AckedPrinted`, `GoodAnswered`,
  `NobodyLeft` and `StartRecovers` say who may not be left waiting.
* Symmetry is used for sets whose members nothing distinguishes, and only in runs
  that check safety: those of `Reception`, and `db_shared`, whose two processes may be
  exchanged in `KeyStore` as well.

### 3.4 Fairness

`FairSpec` assumes weak fairness of the parent's callbacks (an event loop that
runs calls what is pending), of a child's own steps (a child is scheduled, and
its database calls have time-outs, so they return), and of the read time-out
while it is set.  It assumes strong fairness of `OnWrite`: libevent serves a
descriptor that is both readable and writable in one pass, so input that keeps
arriving cannot postpone the write callback for ever.  Nothing is assumed of the
client: whether it sends or closes is up to it.  `ServerStops` needs more,
because `stop()` waits for the children and a child may wait for its client;
`PoliteSpec` adds that a client does not keep a connection open for ever.
Without it the property is false: a client that has sent part of a line has
switched the request timer off (section 3.2) and may keep its child for ever.

The other specifications assume weak fairness of every process and thread, which is
that it is scheduled, and of nothing that faults, signals or operators do.  Beyond
that:

* `Printd`: the daemon is started again (`Start`), as an init system would.  Strong
  fairness of `PrinterOk`: the job is tried again every minute, and a printer that is
  tried for ever takes it at last.  Without it `AckedPrinted` would be false of any
  spooler.
* `ServerPool`: a client closes once it has its answer, as `client.c` does.
* `SingleInstance`: only the steps a process takes of itself.  A server need not be
  stopped, a waiting process need not give up.
* `Nsim`: the accept loop, each thread and each client go on while they can; a read
  returns once there is something to read or the other end has closed.

## 4. Proofs

Each theorem holds for every value of the constants that meets the assumptions of
the modules: finite sets of clients, connections, logins, processes, workers; natural
limits; queues that are not empty; folder ids that are natural numbers and unique in an
account, of which the one of the backup folder is no other folder's; and model values (`NoRow`, `NoReq`, `NULL`, `none`)
that are not what they stand beside.  `ReceptionConstants` in `MsgMove` repeats for the
service what `Reception` assumes.  TLC evaluates the assumptions in the runs.

| Module | Theorem | Establishes |
|---|---|---|
| `ReceptionProofs` | `ServerCorrect` | `TypeOK`, `ConnCountExact`, `NoForgottenChild`, `CleanStop` together |
| | `NoChildForgotten`, `StopsClean` | `NoForgottenChild`, `CleanStop` |
| | `OneWorker` | `OneWorkerPerLogin` |
| | `LimitsHold` | `TableBound`, `ExportBound`, `EasBound` |
| | `FilesHonoured` | `MaintenanceHonoured` |
| | `AbandonedForGood` | `AbandonedRowStays`, an action property |
| `MsgMoveProofs` | `ServiceRefinesReception` | `ImplementsReception`: the service implements `Reception` |
| | `StatusesStepwise`, `StoresUnderRow` | `StatusStepwise`, `StoresChangeUnderRow`, action properties |
| | `ExportLoad` | `ExportLoadBounded` |
| `AnalysisProofs` | `TargetsAreComplete`, `DiesOnlyForRemoved` | `TargetsComplete`, `DiesOnlyForRemovedFolder` |
| `SingleInstanceProofs` | `TypeCorrect`, `FileNamesServerHolds`, `NotAllRefusedHolds` | `TypeOK`, `FileNamesServer`, `NotAllRefused` |
| | `SemaphoreCounts` | `SemaphoreConserved` |
| `ServerPoolProofs` | `RingIsRight`, `NavailIsBounded`, `EachServedOnce` | `RingRight`, `NavailBound`, `ServedOnce` |
| `PrintdProofs` | `NoAckedJobLost`, `PrintsRight` | `NoJobLost`, `PrintedRight` |
| | `ReusesOnlyUnsaved` | `ReusedOnlyUnsaved`, an action property |
| `NsimProofs` | `IndexesBounded`, `ConnectionsKept`, `AnswersOwn` | `IndexBound`, `OwnConnection`, `OwnAnswer` |
| `DbProofs` | `StoreLinearizable` | `Linearizable`: the library implements `KeyStore` |
| | `ChainsAreRight`, `FreeListIsRight` | `ChainsRight`, `FreeListRight` |
| | `NextrecIsRight`, `ScansComplete` | `NextrecRight`, `ScanComplete` |
| | `NoCircleOfLocks` | the part of `NoCircularWait` that is about locks |

Every inductive invariant was checked by TLC on the instance of its run before it
was proved.

### 4.1 Reception

* `ServerInv` adds two facts to the properties: the count is at most `MaxConn`,
  and the listener is closed once `_end_flag` is set or the loop drained.  The
  second one is what makes `CleanStop` inductive: without it a drained server
  could accept another child.  `QuietSteps` shows once that all actions but
  `Accept`, `SigchldHandler`, `Stop` and `LoopReturns` neither fork nor reap, and
  that an exit leaves a SIGCHLD pending; `ServerStepInv` then has five cases.
  `TypeOK` needs `ConnCountExact`: the subtraction in `sigchld_handler` stays in
  `Nat` only because there are not more zombies than counted children.
* `LaunchInv` strengthens `OneWorkerPerLogin`: a child about to execute owns the
  row of its login, no other child is about to execute for it and no process works
  on it; and a process has a row.  The INSERT preserves it because the key was
  free; the end of a process because the row was its own.
* `BoundInv` strengthens the bounds by counting the requests that have passed a
  count and not yet inserted along with the rows.  A passing count re-establishes
  the bound (`BoundFresh`): at most the limit of rows, at most `MaxConn` children,
  which is where `ServerInv` is used.  An INSERT moves one from one summand to the
  other (`BoundMoves`); everything else shrinks both (`BoundKeeps`).  That
  `HostRows` is a subset of what the third count selects makes `EasBound` hold in
  spite of the precedence mistake.
* `BarredInv`: a request in hand is barred only by files that are still there, and
  never by one its child has already looked for.  `MaintenanceHonoured` speaks of the
  end of the checks only and is not inductive without the second half, which has one
  clause for each of the three `access()` calls.
* `AbandonedStep` needs no invariant but types: the INSERT of another request fails
  on the row that is there, and a process touches the row of its own login only.

### 4.2 The service

`MsgMoveProofs` instantiates `ReceptionProofs` with the processes counted per login
(`WorkersOf`) for the variable `workers`.  `ServiceInv` is `ServerInv` and `LaunchInv`
of that instance, the types of processes, and `RowInv`: the row of a login that has a
process is there, with the status that belongs to the call of `main()` the process is
at.  `StepKinds` shows that each of the twenty statements of `main()` leaves its row
alone, raises it by one, or ends the process (and deletes the row only after
MIGRATING).  The refinement is then one step of `Reception` for each kind: an advance
stutters, a raise is `WorkerUpdates`, an end is `WorkerEnds`; a raise needs
`RowInv` to be a step from the status that is there, and an end needs `OneProcess` to
take the count of its login from 1 to 0.  `StatusStepwise` and `StoresChangeUnderRow`
follow from `RowInv` and the same cases.  `ExportLoadBounded` is a consequence: the
processes that export have different rows with status EXPORTING (`RowInv`), and the
refinement carries `ExportBound` over from `Reception`.

### 4.3 SingleInstance

`IInv` (theorem `Invariance`) is the conjunction of `TypeOK` and four parts, each with
a lemma that every step keeps it.

* `Opened` ties each step of a process to its design and to what it has open, and
  the port to the process that serves.  Without it a process of one design could be
  at a step of another.
* `OneOwner`: as long as nobody has raced, there is at most one process of a mode
  between the test of the PID file and its removal, and the file is its own.  It is
  what makes `FileNamesServer` inductive for the PID file: `Remove` goes by name, so
  it must be known that nobody else's file has the name.  `Access` keeps it because
  an owner beyond `fopen` has its file there to be seen, and one before is a race.
* `OneHolder`: with the locked file all have the same file open, one that is past the
  lock holds it, and one that serves has written its PID.  No step unlinks the file,
  which is why the same name is the same lock.
* `MadeWay`: whoever was refused, or is about to be, has one beside it that was not;
  and a PID file that is there was made by one that was not, or not yet.  The
  second half is needed for `Access`, where the file is all a process sees.

`SemInv` is about the third design: the equation of `SemaphoreConserved` for every
semaphore that is in use, and that nothing has happened yet to one whose maker has
not come to open it, so that `sem_open` with O_CREAT starts from a balance.

### 4.4 ServerPool

`PoolInv` says, of all ten designs at once: which states belong to which design
(`Shape`), that a connection is in one place of backlog, hands, pipe and ring at most
(`PlaceInv`), that a descriptor is open in exactly the one who holds the connection
(`OpenInv`), and that a good client that waits is in one of these places (`LostInv`).
`RingRight` is inductive with the types and `Shape`.

For `serv05`, `TokenInv` gives each child one token: its mark in `cptr[]`, a descriptor in
its pipe, a byte on the way back, or none of them while it works.  A last message replaces
the token by up to `MsgLen`, and no step makes more of them.  It bounds what can be lost with
a child, and gives that a child which is marked free, and well, has nothing to do.
`NavailBound` is not inductive, since `Cardinality(Spoilt)` does not say how much of a message
has been read.  `NavailOK` bounds the excess of `navail` by the set `Surplus` of the bytes
already read, but for one of each message: `ReadByte` for a child that was marked already
adds a pair to it, which `TokenInv` shows to be new; for any other child the count and the
marks grow together.  `PipeInv` adds that the count was positive when the listening
descriptor was in the set, since between `select` and the end of its round the parent acts
on what it saw.  `EachServedOnce` needs all parts.

### 4.5 Printd

`SpoolInv` has the numbers (`CountInv`: the counter is ahead of the job file and of
every number of its own run), the threads and the restart (`UpInv`), the queue
(`QueueInv`: a job belongs to a document past `add_job`, and the start has still to come
to what is in `todo`), the files (`DocInv`) and the printer (`PrintInv`).  All promises are
to a document that is `Alone` with its number; the code can hand a number out twice when
it dies before saving it, and `ReusesOnlyUnsaved` says that it does so in no other case.
`NoJobLost` is not inductive because a file is unlinked before the document counts as
answered for: `PrintInv` carries from the end of the transfer to the two unlinks that
the job has been printed.

### 4.6 ImapSession and Nsim

`SimInv` (theorem `SimInvariance`) consists of types and four parts.

* `PlaceInv`: a connection waits to be accepted, or has one descriptor and one thread.
  With the pigeonhole principle it gives `FreeFd`: `accept` always finds a number.
* `IndexInv` strengthens `IndexBound` by counting the threads that found room for the
  index and have yet to move it (`Behind`).  Two facts make it inductive: one can join
  only while the index is before the last place, when the bound is far, and an
  increment takes one away for the one it adds.
* `OwnInv`: while no thread has found another's connection, descriptors, threads and
  connections correspond one to one, and a connection is closed only with its
  thread (`NoHangUp`).
* `LockInv` strengthens `OwnAnswer`: client and thread are in step (`InStep`).  An answer
  on its way is the one its client waits for, nothing else is then under way, and a
  client that waits with nothing on its way has a thread that owes exactly that answer.

### 4.7 Db

`DbInv` (theorem `DbInvariance`) is about any number of processes, keys and hash chains
and a file of any length.  What makes it long is that a record is on no list, or on
half of one, while it moves.

* Which records are on which list is said without following pointers: `Chained[h]` has
  the records with a key of that chain, `Free` the blank ones, and a record in the hands
  of a process (`Held`) is in neither.  `ListInv` says that pointers lead from one
  record of the list to another, no two to the same, and that the first pointer
  reaches all of them: each set that contains the first record and is closed under
  the pointers contains every one (`Reaches`).  Two lemmas do the work without induction:
  `TakeOut`, when the pointer to a record gets the one it has, and `PutInFront`.
  Between blanking a record and unchaining it the chain is not right; then `HalfOut`
  says that it will be once the saved pointer is written.
* `ChainsRight` and `FreeListRight` speak of `List(o)`, which does follow the pointers.
  `ListOfChain` shows that on a chain at rest it is the same set: the walk exists
  (`WalkExists`), it meets no record twice (`WalkNoCircle`), so it ends within as many
  steps as there are records (`WalkComesToEnd`, the pigeonhole principle), and what it
  has met by then is closed under the pointers.  The inductions are over the steps of
  the walk and use a set of numbers for the predicate (`NatSetInduction`).
* `LocksInv` ties the steps to the locks.  From it `Alone`: one process at a time works
  on a chain, and one with the free list or any number of scans.
* `Knows` has what a process may rely on between two accesses: on the way along a chain
  the key is still ahead if it is there (`Walking`); a record found is still where it
  was (`AtRecord`); a key not found is still absent (`Absent`), also after the lock of
  the free list has been given up; the old head of the chain is still its head.
  `StillKnows` shows once that a step of another process takes none of it away.
* `DataInv`, `HasData`, `Expects` and `MapInv` tie the files to the map: no two records
  share data, and a chained record has the data its key has in the map, but for one
  whose data is blanked.
* `ScanInv`: of the records nobody has touched since `db_rewind`, those behind the
  position of the scan, and only those, have been returned.
* `HolderInv` is the converse of `LocksInv`: who holds a lock is inside the call that
  took it, and who holds the free list is at one of the steps that do not wait.  So
  the lock of a chain comes before that of the free list, and `NoCircleOfLocks`
  follows: while anyone is busy, someone busy is not waiting for a lock.

Each of the thirty actions has a lemma.  `QuietStep`, `DataStep`, `IndexStep` and
`OffChainStep` share what steps of one kind disturb: nothing in the files, the data
file, a chain, the free list.  In `StoreLinearizable` a step is no step of `KeyStore`,
or the effect of its call, for which `Walking` and `MapInv` give what the map has, or its
return.

### 4.8 Analysis

`FilterInv` (theorem `FiltersInvariance`) holds for any number of folders and mails, and
for any ids and names in the configuration that meet the assumptions.  It says what the
lists are before each filter in terms of the tree and the archive the analysis began
with.

* `FolderInv`: the entries are the folders of the tree as they were listed; then the
  `Kept` ones, listed and later renamed; then the `Fine` ones, encoded, and the
  backup folder if one was replaced; after the sort some of these.  That no two entries
  share an id (`UniqueIds`) follows, because the id of the backup folder is neither a
  default nor a custom one.
* `BackupInv`: the backup folder is the last entry.  `DiesOnlyForRemovedFolder` does not
  need it, the end of `TargetsComplete` does.
* `MailInv`: the mails are some of the archive's, each in its folder or, if that was
  replaced, in the backup folder, and the folders of mails are counted.
* `TargetInv` strengthens `TargetsComplete`: the folder of a mail and those above it
  are not only listed but counted, which is what keeps the last filter from removing
  an empty default folder that is above one with mails.

`LookupsFind` is the heart of `DiesOnlyForRemovedFolder`: renaming commutes with taking a
prefix of a path (`SentFacts`), and what can be encoded has only parents that can be
(`AboveFacts`), so a parent in the tree is a parent in the list unless the first filter
removed it.  The lemmas about lists (`ByIdFacts`, `OnlyFacts`, `SortFacts`) say which
elements a list has after a filter; `SortFacts` also that an element which comes before
no other stays at the end, whatever the rest of the comparison is.  The last part is
about the insertion sort, so for the program it holds up to 16 folders, like
`SortInsert` itself; the others need of the sort only that it permutes the list.

### 4.9 Only model-checked

* Liveness and everything under fairness (`ServerStops`, `SessionEnds`, `StartRecovers`,
  `AckedPrinted`, `GoodAnswered`, `NobodyLeft`): out of reach of the proof system.
* `NoCircularWait` as it is stated, with ENABLED.  Proved is `NoCircleOfLocks`, that
  someone busy is not waiting for a lock; that a process which is not waiting has a
  step for whatever it has read (each flag of a call, each end of a walk) is left to
  TLC.
* `Untar`: `UnpacksExactly` compares the result of a fold over the blocks of the stream
  with a definition by recursion on the archive, for every way of cutting the stream;
  `BoundRight` rests on the same relation between the two.

## 5. What is not modelled

* Texts: requests and responses, HTTP, SOAP, IPP and gzip.  Each exchange is one step
  that succeeds or fails; only the IMAP dialogue is modelled as a stream.
* In `Untar`: the octal numbers of a header, a name that fills its 100 bytes, and
  the text of meta files.
* The retries of `zn_retriable.hpp`: a step that is retried and then fails is one
  failure.
* Two servers on one table, and SQL isolation: every statement is atomic, as one
  auto-committed statement on one table is.
* A process killed in the middle of a database call leaves a record on two lists or
  on none; the library has no recovery for it, so there is no promise to state.
  Opening an existing database changes nothing.
* The search through the printer's answer: when what has come ends within the last
  two bytes of the search for the empty line, the loop at `printd.c:968` neither moves
  on nor reads.  Also the wrap-around of job numbers.
* A `recv()` of exactly the buffer's 1024 bytes in the simulator, which leaves no
  terminating zero (`sim_nsim_main.cpp:247`); and loading its queues.
* Setting the account back (`zn_main.cpp:372`) is attempted once and its failure is
  swallowed: `junk` shows whether it is back, but nothing is promised about it.
* The variants of the server designs that only measure (`child02m` and the like).
* `zn_dbserv.cpp`, which no makefile builds.
* Look-ups in files, logging and configuration, the test scripts, the exercises.
* The rest of the two textbooks.  It is most of the repository by lines, and it is
  examples of a page or two that show one system call each, the wrapper functions
  and portability layers under them, and headers that occur several times (`unp.h`).
  They keep no state between calls that a property could be about.  The longest file
  of the service itself, `SimpleIni.h`, is a third party's.

## 6. Plan

Done: `MigrationQueue`, `Reception`, `Worker`, `MsgMove`, `Analysis`, `Untar`,
`ImapSession`, `Nsim`, `SingleInstance`, `KeyStore`, `Db`, `Printd`, `ServerPool`; the proofs
about all of them but `Untar`.

Next, in this order:

1. `Untar`: that `feed()` leaves the reader in a state that depends only on what has come
   so far and not on how it was cut, then `BoundRight`.
2. `Retriable`: the retry loop and its time-outs, composed with the LDAP step.
