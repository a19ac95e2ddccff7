# The server monitoring system in TLA+

TLA+ models of the programs under `Server_side/`, with the TLC instances that
check them and TLAPS proofs of what holds for every number of slaves; models of
the script that configures them (`Shell_side/`) and of the Android app. Paths
below are relative to the repository (`extFunc.c` is `Server_side/extFunc.c`).

## 1. The system

| part | code | state | operations |
|---|---|---|---|
| monitor, one process per server | `monitor_workload_self` | the struct of its own server in shared memory (`sharedM`) | zero the memory, fill the struct field by field, compare it with the thresholds and tweet, sleep 4 s, again |
| reporter, the main process of a slave | `process_conn_clientSL` | `sndBuffer`, a socket | sleep 2 s; write the 22 characters `Updating_Workload_Info`, sleep 0.1 s, copy the struct, write it, sleep 4 s, again; end when the second write fails |
| handler, one process of the master per connection | `process_conn_server` | `revBuffer`, `revSerInfo`, a socket | read; `Andr...`: send the table; `Upda...`: read again and store what was read at `sharedM[slave_index]`; end at end of file |
| shared table of the master | `sharedM`, System V segment 1234 | one 136-byte struct per server, slot 0 the master's | written by the monitor and all handlers, read by all handlers, no lock |
| testing client | `Android_Client.c` | reply buffer, a socket | every 2 s: write `Android_GET`, read once, print |
| process life | `Server.c` `main`, `init`, `sig_proccess`, `killP.sh` | processes, the segment, sockets | fork the monitor, listen and fork a handler per connection, or connect and report; SIGINT removes the segment and ends the process group |
| configuration | `Config.sh`, `GetProfileString`, `init` | `Server.config` | rewrite, append and read `key=value` lines in sections |
| Android app | `MainActivity`, `SerMod`, `MssActivity`, `DetailActivity` | socket, reader thread, list of decoded structs | connect and disconnect, read and decode in a thread, show |

The processes of one server share memory; servers share nothing but TCP
connections. A report is two writes and two reads; TCP keeps the order of bytes
but not the boundaries of writes, and the whole protocol rests on sleeps.

What is hard, and what makes each part correct:

* **Reporting.** One read may return several writes; reads time out after 5 s;
  either side may be killed at any point; handlers and monitor store into one
  table without a lock; the size of the second read is never looked at. Correct
  means: a slave's slot only ever holds that slave's measurements, a later one
  never gives way to an earlier one, the master's slot is the master's, alarms
  follow measurements, reads find back to writes, and processes that have lost
  their peer end.
* **Requests.** A client sees the table through an unlocked copy, replies that
  may be late, and requests that may be coalesced. Correct means: what it shows
  of a slave never goes back, and it does not lag behind for ever.
* **Life of the processes.** Start order, refused connections, failing `bind`
  or `fork`, a segment that outlives its owners and is shared by a master and a
  slave on one machine, restarts of either side. Correct means: nobody works on
  less memory than it accesses, Ctrl-C leaves nothing behind, a slave is heard
  or ends, its running job wins over its former ones, and the port becomes free.
* **Configuration.** The server reads the file key by key while the script
  rewrites it line by line and may be stopped anywhere. Correct means: what
  belongs together is loaded together, the entries of the secondary servers are
  numbered without gaps, a key that is missing ends the start, and a parameter
  that is compiled in remains only where a line has no value.
* **Android app.** Clicks and reader threads share fields without a lock; a
  reply may come in pieces; bytes are decoded by hand. Correct means: no crash,
  one connection, readers that end, whole replies, no number that is wrong
  without looking wrong.

`PROJECT.json` lists each hazard at its line with the properties that cover it.

## 2. Modules

| module | what it is |
|---|---|
| `ServerPerform` | the struct and the constants of a cluster; pure operators on structs |
| `ClusterTable` | abstract specification: the table as independent registers that only move forward |
| `Reporting` | monitors, reporters, handlers, connections and shared memory; the properties of the core |
| `MCReporting` | instances of `Reporting` for TLC |
| `Polling` | the testing client and the `Android_GET` branch of the handlers, over the registers of `ClusterTable` |
| `MCPolling` | instances of `Polling` for TLC |
| `StructProofs` | lemmas about structs and sequences that the other proofs share |
| `ReportingProofs` | TLAPS proofs about `Reporting` for every value of the constants |
| `OrderlyProofs` | TLAPS proofs for the system in which nothing fails and sleeps are long enough |
| `Lifecycle`, `LifecycleProofs` | starts and ends of the processes of masters and slaves, the segment, the port; proofs |
| `Config`, `ConfigProofs` | `Server.config`, the script that edits it, a server that loads it; proofs |
| `AndroidApp` | the app's activity: UI thread and reader threads |
| `SerMod` | how the app puts numbers together from bytes |
| `MCAndroidApp`, `AppProofs` | the two together, for TLC; proofs about both |
| `PollingProofs` | TLAPS proofs about `Polling`: types, ownership, order and freshness |
| `Cluster`, `ClusterProofs` | `Reporting` and `Polling` side by side, the whole way of a measurement; proofs |

### `ServerPerform`

Two of the nineteen fields are kept. `disk` is `DISK_us`: the first four bytes
of a struct, which are also the bytes a message is recognised by. `idx` is
`slave_index`, which chooses the slot. A server stands for its own index;
`Master` stands for 0, so `ZeroStruct`, what `bzero` leaves, names slot 0. The
value of `DISK_us` is a record of who measured it (`src`: a server, `Nobody` for
zero, `Text` for the characters of a header) and of how many measurements that
server had begun (`n`): the program stores test constants, and the stamp makes
visible what is old and what is new. Stamps stop growing at `MaxTaken`.

### `Reporting`: variables and actions

| variable | code |
|---|---|
| `local[s]` | `sharedM` of slave `s` |
| `table` | `sharedM` of the master |
| `mpc`, `todo`, `taken` | where each monitor is, the assignments left in this round, the rounds begun |
| `rpc`, `out` | where each reporter is, its `sndBuffer` |
| `stream[s]` | written by `s` and not yet read by its handler: a sequence of headers and records |
| `hpc`, `got`, `left` | where each handler is (`refused`: `connect` failed), `revSerInfo`, the fields its `memcpy` has left |
| `alarmed` | the servers whose monitor sent an alarm |

| action | code in `extFunc.c` |
|---|---|
| `MonitorStart` | 359-368, the monitor's own zeroing, after the one in `init` |
| `Fill` | one assignment of 376-396 or 461-482 |
| `Check` | 423-456 or 506-539, the sleep and the next round |
| `WriteHeader`, `Copy`, `WriteRecord`, `RecordFails` | 743-764 |
| `FirstRead`, `FirstReadEOF` | 618-639 and the comparison of 683 |
| `SecondRead`, `StrayRead`, `SecondReadEOF`, `SecondReadTimeout` | 685-713 |
| `StoreField` | one field of the `memcpy` of 717 |
| `Kill` | `killP.sh` and the signal handler: every process of a server |

A read returns any number `k` of the waiting segments. `FirstRead` looks at the
first four bytes only and loses the rest with the buffer. `SecondRead` stores
what came first; a header alone in the zeroed buffer is `TextStruct`, with index
0. In `StrayRead` a record follows a header in the same buffer: `slave_index` is
then made of bytes of two doubles, an index far outside the segment when the
record was complete (the handler dies of it), possibly 0 when it was not.

The constants `Faults` (any of `"kill"`, `"timeout"`, `"unready"`) and
`MaxBacklog` (how many written segments may be unread) choose how much goes
wrong, so the same module gives the orderly system and the worst one.

### `ClusterTable` and the refinement

`ClusterTable` has only the table and the counters of measurements: a server
measures, a slave's slot takes a later measurement of its own (`Publish`) or its
index (`Name`), slot 0 takes anything that was ever measured, zeros or the
characters of a message (`Overwrite`), and once, before the first measurement of
the master, everything is zeroed (`Clear`). `Reporting` implements it with the
identity mapping on `table` and `taken`: every buffer, connection, process and
fault disappears. It is the interface on which `Polling` is built.

### `Polling`: variables and actions

`Polling` is composed with `Reporting` through the abstract specification: its
next-state relation is a step of `ClusterTable` (`Environment`) or a step of a
client or of its handler. What is proved about `Polling` therefore needs nothing
of the reports but `TableSpec`.

| variable | code |
|---|---|
| `cpc[c]` | where each client is: about to ask, waiting in `read`, ended |
| `requests[c]` | `Android_GET`s written and not yet read by the handler |
| `hpc[c]` | where the handler is; `refused`: `connect` failed; `gone`: ended; `reset`: and a read has already failed for it |
| `buf[c]`, `uncopied[c]` | `sndBuffer`, the fields its `memcpy` has left |
| `replies[c]` | replies written and not yet read |
| `shown[c]` | the last reply printed |
| `floor[c]` | history: the table when `c` last asked, zeros before the master's monitor has started |

| action | code |
|---|---|
| `Ask` | `Android_Client.c` 106-113 |
| `ReadReply(c, k)` | 115 and 130-199: `k` replies in one read, the first is printed |
| `ReadLate`, `ReadRefused`, `ReadReset` | 115-121: the read fails, the loop goes on |
| `ReadEOF` | 123-128, 205 |
| `Quit`, `Stop` | the signal handlers, `Android_Client.c` 212 and `extFunc.c` 882 |
| `ReadRequest(c, k)` | `extFunc.c` 619-645: `k` requests in one read, answered once |
| `CopyField` | one field of one slot of the `memcpy` of 646 |
| `WriteReply`, `ReadNothing` | 647 and 634-639 |

After a failed read the client prints a zeroed buffer; this is not kept in
`shown`. `Mishaps` chooses among `"late"` (a reply takes more than the 5 s of
`SO_RCVTIMEO`), `"stop"`, `"quit"` and `"early"` (the 0.1 s a handler sleeps at its
start, `extFunc.c:618`, end before the master's monitor has zeroed the table).
`ReadReset` allows every reply to be lost whenever a handler is gone, more than
the kernel does.

### `Cluster`: the two parts together

`Cluster` extends `Reporting` and instantiates `Polling` over the same `table`
and `taken`; its `serving` is the `hpc` of `Polling`. A step is one of the reports
(`ReportStep`), one of a client or of its handler (`RequestStep`), or `KillMaster`,
in which `Kill(Master)` and `Stop` happen together, since both kinds of handlers
are in the process group of the master. The step of `ClusterTable` that stands
for all of the reports in `Polling` is gone: in its place are the reports.
That this was a fair description of them is `ClientsSpec`. `Cluster` is about
safety only: the two halves of the way of a measurement come to an end by
`ReportReaches` of `Reporting` and `TableShown` of `Polling`.

### `Lifecycle`: variables and actions

A *job* is one start of the program. The configuration it finds (master or
slave, number of servers) is chosen at its start, a report counts as a whole,
and of a report only the job that made it is kept, and whether it names the slot
of its machine. `SlavesAt` may contain the machine of the master. Such a slave
uses the segment 1234 of its master: both monitors fill the same struct, one
writes the index 0 into it (`extFunc.c:396`), the other its own (482), and the
slave reports what it finds there (748). So a report of a slave that shares its
struct with a master (`SharesStruct`) is stored either in its own slot or in slot
0, of which nothing is kept.

| variable | code |
|---|---|
| `launched`, `at`, `role`, `need` | the jobs, their machines, `MASTER_FLAG`, how many structs they access |
| `main`, `mon` | where the main process and the monitor of a job are |
| `shmid`, `key`, `first` | `shmid` of each job, the segment under key 1234 of each machine, the one with the id 0 |
| `slot` | whose report is in which slot of which segment |
| `conn`, `peer`, `wire` | the connection of each slave job as the master sees it, the master it was made to, the reports in it |
| `lingers` | a connection of the port is in `TIME_WAIT` |
| `doomed`, `untidy`, `stops` | what `killP.sh` has listed; machines where a job ended otherwise than by Ctrl-C; how often somebody stopped something |

| action | code |
|---|---|
| `Launch`, `InitShm` | `main`, `init` 217-310: finds or creates the segment, zeroes it, or exits when it is too small |
| `ForkMonitor`, `MonitorStart` | `Server.c` 39-52; `extFunc.c` 352-368 |
| `Bind`, `Accept` | `Server.c` 56-101, 107-155 with the failing `fork` |
| `Connect`, `Report`, `ReporterEnds` | `Server.c` 159-197, `extFunc.c` 738-764 |
| `Take`, `Store`, `HandlerEnds` | `process_conn_server`: a record read, stored; end of file |
| `Interrupt` | the signal handler 882-891: removes the segment `shmid` names, 0 before `init` has set it, and ends the process group |
| `ListProcesses`, `KillListed` | `killP.sh`: the list, then `kill -9` |
| `Forget` | the kernel: `TIME_WAIT` ends |

### `Config`: variables and actions

Of a value only the *dialog* it stands for is kept: 0 for the file as it was
found, `n` for the n-th dialog of the script; an empty answer leaves a line as it
is, which then stands for the new dialog as well. Only the value of `Master_Flag`
is kept (`flag[n]`), for what init reads next depends on it, and whether there is
a value at all: behind the `=` of a line without one, `sscanf` (`extFunc.c:107`)
finds nothing if a carriage return or the end of the file follows, and init then
keeps the parameter that is compiled in (the tests of `strlen`, 156-283). `Found`
and `Blanks` say which keys the file may hold at first and which of them without
a value. A line the script writes has one, except that of an answer left empty.

| variable | code |
|---|---|
| `conf`, `blank`, `rows` | `Server.config`: the keys `init` looks up, those without a value, the numbers of the `Secondary_Server_(n)` entries in their order |
| `script`, `dialog`, `todo`, `i`, `cnumber`, `max` | where the script is, the lines the dialog has still to rewrite, the loop over the servers and the script's own counts |
| `server`, `toload`, `par` | where `init` is, the keys it has still to look up, what it has loaded; the other parameters are those compiled in |

| action | code |
|---|---|
| `StartScript`, `StopScript` | `Config.sh` 298-322: creates a file that is missing; `q` or Ctrl-C anywhere |
| `LocalServer`, `ClusterServer`, `Twitter`, `EndDialog` | the dialogs that write |
| `RewriteFile` | 43-46: one line, replaced if it exists |
| `AppendEntry` | 119-129: `grep` and `max` decide whether an entry is appended |
| `StartServer`, `Load`, `Loaded`, `StopServer` | `init` 129-285: `GetProfileString` for each key, exit without it, the parameter kept without a value |

### `AndroidApp` and `SerMod`

Sockets and their streams are named by the reader that opened them. Every access
of a thread to a field another thread uses is a step of its own.

| variable | code |
|---|---|
| `isConnecting`, `mThread`, `mSocket`, `mInps`, `mPrintWriter`, `servlist` | the fields |
| `posted`, `told` | messages -1 in the queue of the UI thread, and shown |
| `ui`, `leaving`, `app` | where the UI thread is, in `onClick` or in `onDestroy`; whether the activity is up, destroyed or crashed |
| `msg`, `shown` | what the list click has collected; the list last shown |
| `pc`, `todo` | where each reader is, the structs it has still to add |
| `sock`, `left`, `asked` | the sockets, the halves of the reply not yet read, the request |
| `cut`, `careless` | history: replies that were read in pieces; a click that did not wait |

The clicks are `Connect`, `Leave` (Disconnect, or `onDestroy`), `Destroy` and
`ClickList`. `TestSocket` to `DropWriter` are lines 193-207, `ListSize` and
`ListGet` 225-227, `Parse` to `Send` 85-129, `Test`, `ReadNothing`, `Read` and
`Fill` the loop of 133-167. `Answer` and `ServerGone` stand for the master.
`Mishaps` chooses among replies in pieces (`"split"`), a master that goes or is
not there (`"gone"`), an address without a port (`"unclear"`), one whose port is no
number (`"letters"`).

In `SerMod` a number is the set of its bits in two's complement, so that `|`,
`<<` and Java's sign extension are set operations and no width overflows.
`ToInt`, `ToLong` and `ToDouble` are the expressions of the constructor.

## 3. Properties

| property | what it says | hazard |
|---|---|---|
| `TypeOK` | types; in particular every index a handler uses names a slot | |
| `SlotOwner` | a slave's slot holds zero or this slave's measurements, under index 0 or its own; slot 0 keeps index 0 | coalesced, partial, torn records |
| `InOrder` | from the struct of a slave through `sndBuffer`, connection and `revSerInfo` to its slot nothing overtakes | torn copies, lost records |
| `SlotForward` | except for the master's own start no step takes a slot back | second zeroing of the table |
| `TableSpec` | `Reporting` implements `ClusterTable` | all of the above at once |
| `InStep` | the two reads stay in phase with the two writes and records are complete | sleeps as protocol |
| `MasterSlotOwn` | only the master's monitor changes slot 0 | ignored read sizes |
| `NoFalseAlarm` | no alarm without a measurement over its threshold | checks on shared memory |
| `FallsInStep` | after any confusion reads find back to writes, and the slave's records are stored for ever | coalesced reads |
| `MasterRestored` | a spoiled slot 0 is refilled | |
| `ReporterEnds`, `HandlerEnds` | a process whose peer is gone ends | ignored results |
| `ReportReaches` | what a reporter writes as a record reaches the table, unless a fault takes it | two buffers, two reads |
| `ShownOwner` | what a client prints in the row of a slave was measured by this slave | copies of a changing table |
| `Polling!InOrder`, `ShownForward` | nothing overtakes from the table to the screen; what is printed of a slave never goes back | late, lost, coalesced replies |
| `InPhase`, `FreshReply` | without late replies one reply is under way, and it is not older than its request | late replies, torn copies |
| `ClientEnds`, `HandlerEnds` | each end notices that the other is gone | ignored results |
| `Served` | a connected client is shown replies for ever once they stop being late | coalesced requests |
| `TableShown` | what the table holds of a slave, or something later, reaches the screen of every connected client once replies stop being late | replies a client is behind, coalesced requests |
| `ClientsSpec` | under all of `Reporting`, clients behave as `Polling` says they do over registers | composition by the abstract table; one end of the master for both kinds of handlers |
| `ShownBehind` | nothing a client is shown of a slave is ahead of what this slave has in its own memory | five buffers, two connections and no lock between them |
| `InMemory` | every process that runs uses a segment not smaller than it accesses | segments that outlive jobs, other numbers of servers |
| `Tidy` | on a machine whose jobs all ended by Ctrl-C no monitor, no handler and no segment is left without its main process | the interrupt before `shmid` is set, the order of forks |
| `HeardOrEnds` | a slave that reports is heard again and again, or it ends | sockets nobody reads |
| `NewestWins` | the slot of a slave with memory of its own ends up with the reports of the job that runs | handlers of older connections |
| `PortFreed` | after masters that ended by Ctrl-C the port becomes free | orphaned handlers, `TIME_WAIT` |
| `LoadedInOrder` | a server with the flag of a dialog has address and port of this dialog or a later one, and with the master's address the number of servers | a start in the middle of a dialog |
| `RowsInOrder` | the secondary servers are numbered from 2 without gap or repetition | dialogs stopped and repeated |
| `CompiledIn` | a server that is up has found every key it wants, and a parameter that is compiled in remains only for a line without a value, never for one of the file as found that had a value | keys on which script and server disagree, empty values, lines rewritten during the start |
| `CalmNoCrash` | the app crashes only on a port that is no number, a careless click or a reply in pieces | fields set to null by the other thread |
| `CalmOneSocket` | without careless clicks one connection at a time, none after leaving | readers that connect late |
| `CalmWholeList` | the list shown is one reply from first to last struct, if it was read at once | list replaced while shown |
| `CalmReaderEnds` | a reader ends after Disconnect or `onDestroy` | a blocked read, the spin at end of file |
| `CalmListComes` | who waits gets the list of a master that stays | lost messages |
| `NumbersNotMistaken` | in a list doubles are right, and a whole number is right or negative though it was not | sign extension of bytes |

Each module has one type invariant (`TypeOK`, `PollTypeOK`, `ConfTypeOK`,
`AppTypeOK`). Those of `Polling` and `Config` are proved and in no run.

With a late reply `InPhase` and `FreshReply` do not hold: the reply is read for
the next request and the client lags by one from then on. No comment or document
rules this out, so it is stated here and not as a run. `InOrder` and
`ShownForward` assume that handlers are not `"early"`: one that is may show
records that the second zeroing of the table then takes back.

`InStep`, `MasterSlotOwn` and `NoFalseAlarm` hold when nothing fails and every
segment is read before the next one is written (`Faults = {}`,
`MaxBacklog = 1`), which is what the sleeps of 0.1 s, 2 s and 4 s are for. They
fail as soon as that is dropped, and two runs show it.

`NewestWins` is stated for slaves with memory of their own. One that shares its
struct with a master may never report its own index at all, and its slot may keep
for ever what an older handler put there.

`CompiledIn` is about two disagreements. A file that the script has created lacks
`Slave_Index`, and no server starts on it; and a value may be missing, of which
init says nothing. The condition on dialogs in it is needed: a line that was
empty when init read it may have been filled by the time the server is up.

`Tidy` is stated for machines where nothing ended otherwise than by Ctrl-C,
because the code leaves things behind in every other case: a master whose `bind`
or whose first `fork` fails, a slave that loses its connection and everything
`killP.sh` kills leave their segment, the first and the third also their monitor.

The properties of the app are stated for users who wait: a click is *careless*
when it is Disconnect before Connect has come to something, Connect before the
old reader has ended, or a look at the list before the list of this connection
has arrived; after it the model allows no more clicks. What goes wrong
otherwise, and why the condition is needed: Disconnect in the constructor of
`Socket` finds `mSocket` null and closes nothing, and the reader connects
afterwards and keeps the connection; Disconnect between `mSocket` and
`mPrintWriter` ends the app with a `NullPointerException`; a second reader reads
from the stream of the first; a list click during a reconnection may ask for an
element that is not there any more. A reader that gives up (no address, no
master) leaves `isConnecting` set, so that the next click says Disconnect.

## 4. Runs

| run (`.cfg`) | instance | shows |
|---|---|---|
| `FaultsOne` | 1 slave, all faults, 3 segments, 2 measurements | `TypeOK`, `SlotOwner`, `InOrder`, `SlotForward`, `TableSpec` |
| `Orderly` | 2 slaves, no fault, 1 segment | `InStep`, `NoFalseAlarm`, `MasterSlotOwn` |
| `Endings` | 1 slave, all faults, 2 segments, fair | `MasterRestored`, `ReporterEnds`, `HandlerEnds`, `FallsInStep`, `ReportReaches` |
| `PollFaults` | 1 client, 1 slave, late replies, either side stopped, fair | `ShownOwner`, `InOrder`, `ShownForward`, `ClientEnds`, `HandlerEnds`, `Served`, `TableShown` |
| `PollOrderly` | 1 client, 2 slaves, early handlers, either side stopped, no late reply | `InPhase`, `FreshReply` |
| `Cluster` | 1 slave, 1 client, 1 measurement of each server, early handlers, late replies, 2 requests or replies, either server stopped | `ShownBehind`, `ClientsSpec` |
| `Lives` | 3 jobs on 2 machines, 2 numbers of servers, all faults, 1 stop | `TypeOK`, `InMemory`, `Tidy` of `Lifecycle` |
| `Restarts` | 3 jobs on 2 machines, failing forks, 1 stop, fair | `HeardOrEnds`, `NewestWins`, `PortFreed` |
| `App` | 2 connections, replies of 2 structs, all mishaps, fair; bytes of 2 bits | `AppTypeOK`, the `Calm...` properties, `NumbersNotMistaken` |
| `Config` | 2 dialogs, up to 4 servers, 4 files, 3 sets of empty values | `LoadedInOrder`, `RowsInOrder`, `CompiledIn` |
| `FalseAlarm` | 1 slave, no fault, 2 segments | `NoFalseAlarm` is violated |
| `ErasedMaster` | 1 slave, killed | `MasterSlotOwn` is violated |

**Bounds.** Slaves meet only in the table, where each writes its own slot or slot
0; two of them with the master are every kind of pair (`Orderly`). For faults with
more than one slave there are the proofs. A backlog of three holds
header, record and the next header, so every phase of reads against writes
occurs and every branch of the two reads is taken; the proofs hold for any
backlog up to twelve segments, the most that one read of 1024 bytes returns.
Two stamps are enough for old and new, three for two records under way.
In `Polling` clients share nothing but the table, which only the environment
writes, so one client is every client; two slots show a copy at two moments.
`MaxOwed = 2` lets one request be behind when the next is made, which is what a
late reply causes; the proofs do not depend on it. It is not more than 2 because
two replies of three servers (816 bytes) fit into one read of 1024 and three do
not.
In `Cluster` one slave and one client are the whole way of a measurement. Replies
may be late and requests coalesced in its run; coalesced reports and timeouts are
in those of `Reporting`, where they end before the table, and the proofs hold
for all of it at once and any number of slaves and clients. Zeros and one
measurement are old and new; an early handler puts the second zeroing of the table between the copies.
Three jobs are a master, a slave and the restart of either, or two masters with
different numbers of servers and a slave; two machines have a slave next to its
master and one apart. A backlog of one is a connection that is full and one that
is empty. Two connections of the app are an old reader and a new one; two
structs in four halves give pieces that are and that are not whole structs.
Bytes of two bits have a sign and a digit; the proof is for any width. Two
dialogs are one written over another, of the same kind or not; four servers let
the second ask for more, for fewer and for as many as the first. The files are
none, one the script has made, one with every key and one without the keys a
slave needs; the proof is for any.
A system in which everything has ended may stop, so these runs do not check for
deadlock.

**Fairness.** `WF` for each monitor, reporter and handler: they are processes of
a preemptive scheduler whose sleeps and read timeouts end. `SF` for
`RecordFails`: a write to a connection whose other end is gone may still be
accepted by the kernel, but the reset that answers it arrives, so such writes
do not succeed for ever. No fairness for faults or for how many segments a read
returns; `FallsInStep` assumes that reads stop returning several segments and
stop timing out, and says so.

In `Lifecycle`: `WF` for the processes, for `killP.sh` once it has listed and for
the end of `TIME_WAIT`; none for users and faults. In `AndroidApp`: `WF` for the
UI thread once it has begun something, for its message queue, for each reader
and for the answer of a master that is there; none for clicks.

In `Polling`: `WF` for every client, every handler and the start of the master's
monitor, which `"early"` is measured against. None for `ReadLate`, signals or
the other steps of the table; `Served` and `TableShown` assume that replies stop
being late, and say so. `Cluster` has no fairness.

**Disagreements with the comments.**

* `FalseAlarm`: a handler delayed past the next 4 s round reads header and record at
  once, then takes the next header for the record; its index is 0, and `"Upda"`
  read as an integer is over the threshold of 75 % when the master's monitor
  checks the shared slot (`extFunc.c:450`, comment at 423).
* `ErasedMaster`: a slave killed between its two writes leaves the second read
  with 0 bytes; the size is ignored and a zeroed struct is stored in the slot of
  the master (`extFunc.c:685-717`, comment at 716).

Where the programs do not fit together, without a comment that says they should:

* `Config.sh` asks for `Secondary_Index` (77, 306), `init` looks up `Slave_Index`
  (160). With a file that the script has created every server, master or slave,
  exits at its start; `CompiledIn` says that it does not go on instead.
* An empty value goes unnoticed in a file with carriage returns, and is a value,
  a line feed, in one without (`extFunc.c:107`, 156). In the first init keeps what
  is compiled in.
* A slave on its master's machine fills and reports slot 0 of its master
  (`extFunc.c:289`, 748).
* `Config.sh:115` rewrites `Master_Server`, a key no file has; the name of the
  master never changes.
* `Number_Of_Servers` is written before it is validated (101, 102), so a
  rejected number stays in the file.
* A file with line feeds only leaves the line feed in `SERVERIP`
  (`extFunc.c:107`); `inet_pton` fails unnoticed (`Server.c:187`) and the slave
  connects to its own machine.
* The app decodes bytes above 127 with their sign (`SerMod.java:82-87`): the
  `MEM_total` of the test data, 64543, is shown as -993.

## 5. Proofs

`ReportingProofs` is for any set of slaves, any faults, any backlog up to twelve
and any `MaxTaken`, from the assumptions named in `ServerPerform` and
`Reporting`.

* `TypeCorrect`: `Spec => []TypeOK`, one step per action.
* `SlotsOwned`: `Spec => []SlotOwner`. It is not inductive alone: a slot is
  filled from `revSerInfo`, that from the connection, that from `sndBuffer`, that
  from the slave's memory, so `BuffersOwned` says the same of every buffer on the
  way, and `Started` that nothing has been measured before a monitor runs. Lemmas
  `TakenChange`, `LocalChange`, `OutChange`, `StreamChange`, `GotChange`,
  `SlotChange` and `MasterSlotChange` say how each variable can change in one
  step, and ownership follows from them.
* `OrderKept`: `Spec => []InOrder`. `InOrder` is already about the whole chain of
  buffers. `Chain` takes it as a relation between five values, `ChainFacts`
  shows that each kind of change keeps it, and `OrderStep` finds for each action
  the change it makes. `Invariance` is the conjunction, `Inv`.
* `SlotsForward`: from `Inv`, since a stored field comes from a record that is
  not older than the slot.
* `Implements`: `Spec => TableSpec`. `StepImplements` maps every step to a step
  of the registers or to a stutter: `Fill` of the master and a store into slot 0
  are `Overwrite`, a store into another slot `Publish` or `Name`, the start of the
  master's monitor `Clear`, the start of a round `Measure`.

`OrderlyProofs` assumes `Orderly`, no faults and a backlog of one, and proves
`InStep`, `MasterSlotOwn` and `NoFalseAlarm` for any number of slaves
(`OrderlyInStep`, `OrderlyMasterSlot`, `OrderlyAlarms`). `InStep` is inductive together with
`Inv`; the two others follow from it, the last with the lemma that slot 0 never
holds the characters of a header (`Clean`).

`PollingProofs` is for any set of clients and slaves, any
non-empty set of followed slots and any mishaps.

* `PollTypeCorrect`: `Spec => []PollTypeOK`.
* `RowsKeepTheirSlave`: `Spec => []ShownOwner`. Inductive is `BuffersOwned`, the
  same of the table, `sndBuffer` and every reply under way.
* `RepliesInOrder`: `Spec => []InOrder`. The table changes while it is copied, so
  the buffer itself is compared with nothing. `Draft` is the row as it would be
  written if the rest were copied now; `DraftChange` shows that in every step each
  of its fields stays or becomes the one of the table, so that it moves forward
  when the table does (`DraftForward`) and `CopyField` does not change it at all.
  The zeroing of the table is harmless because nothing has been copied before
  (`UntouchedStep`).
* `ClientsForward`: `Spec => ShownForward`, from the same invariant.
* `TurnsTaken`, `RepliesFresh`: if no reply is late (`Punctual`), `InPhase` and
  `FreshReply`. `InPhase` is strengthened by what is left when a server has ended
  (`Quiet`); `FreshInv` adds that the table is above `floor` (`Floors`) and so
  is everything under way to a waiting client (`FreshNext`), for which `Quiet` is
  needed: when a client asks, nothing is under way.

`ClusterProofs` puts the two together, for any set of slaves and of clients, any
faults and mishaps, from the assumptions of both parts and one more: if the
master can be killed, `Mishaps` has `"stop"`.

* `ClusterReports`: `ClusterSpec => Spec` of `Reporting`, so that every theorem
  about the reports holds with clients around.
* `ClusterImplements`: `ClusterSpec => ClientsSpec`. `ClusterStep` takes the steps
  of the reports through `StepImplements` to the registers of `ClusterTable`,
  which are the environment of `Polling`; this is where the invariant of
  `Reporting` is needed. `SameClients`, `SameStop` and `SameTable` only say that two
  instances of one module are the same.
* `ClusterShownOwner`, `ClusterForward`: two theorems about `Polling`, now about
  the whole system.
* `ClusterBehind`: `ClusterSpec => []ShownBehind`. Inductive is `AllBehind`, the
  same of the `sndBuffer` of each handler and of every reply under way. It does
  not follow from the two parts alone, for `Polling` knows no memory of a slave:
  a copied field is behind it by `InOrder` of `Reporting` (`SlotBehind`), and stays
  behind it because that memory only moves forward (`LocalForward`). A
  zeroed table is behind everything, so early handlers make no difference.

`LifecycleProofs` is for any machines, any set of numbers of servers, any faults
and any number of jobs and stops: `LifeTypes`, `LifeInMemory`, `LifeTidy`, all
from `LifeInvariant`. `InMemory` alone is not inductive: `Attached` says that
every main process and every monitor has a segment it fits into, `Connected` that
every connection leads to a master that has, and `Unborn`, `Known` and `Begun` in
which order a job gets these, and that nothing refers to a job not yet started.
`Tidy` needs `Marked`: what `killP.sh` is about to kill is on a machine that is
not tidy any more, so that the kill itself cannot make it untidy.

`ConfigProofs` is for any number of servers and dialogs. `Written` lists how far
a dialog may have got, with what the lines it has written stand for, and
`FileInOrder` says that the file is in order at every moment: the lines are
written so that the one others depend on comes last. `Plan` lists how far a
start has got. Since the file only gets newer (`Older`), what is loaded later is
at least as new, and `LoadedInOrder` follows from the two orders. `Plan` also
lists what has been looked up (`LookedUp`): whatever a start has passed was found,
and is loaded, without a value or rewritten since. A dialog adds no key and takes
no value away, so this stays, and when nothing is left to load it is
`CompiledIn`, for any `Found` and `Blanks` that satisfy `FilesAssumption`. `Counted`
relates the loop and `max` to the entries, which is what makes `grep` and `max`
together append exactly the missing ones.

`AppProofs` is for any number of connections, of structs in a reply and any
mishaps: `AppTypes`, `AppCalmNoCrash`, `AppCalmOneSocket`, `AppCalmWholeList`, all from
`AppInvariant`. None of the three is inductive, because a click and a reader pass
through many steps that none of them mentions. The invariant adds, as long as
the user waits and the app is up:

* `One`: only the reader begun last is alive; while `isConnecting` holds, its
  socket, once opened, is open and in the field `mSocket`; at each step of
  Disconnect which of the fields still hold it. It gives one socket, and a writer that is not null
  where Disconnect closes it.
* `Answered`: whoever has been told of a list, and so whoever looks at one, belongs
  to a reader that has read all of its reply, unless the reply was cut; only after
  a reply that was cut is a list filled again.
* `Lists`: what a reader has added and what it has still to add make up the reply
  (`Filling`); a list nobody is filling is empty, whole or from a reply in pieces
  (`Good`); what the list click has collected is the beginning of the list it
  walks over, so that the next `get` finds its element.

`Begun` (nothing refers to a reader before its start, no reply without a request)
and `Stopped` (a crash leaves no thread and no socket) hold without conditions.

`ListsNotMistaken` proves `NumbersNotMistaken` for bytes of any width. `BitPlace` finds
for each bit its byte. Without a sign bit in a lower byte the number is put
together as it was (`IntRight`, `LongRight`), with one its sign is set
(`IntNegative`, `LongNegative`).

Every safety property of a passing run is proved. Only model-checked are the
liveness properties, since the prover has no rules for fairness and ENABLED:
`MasterRestored`, `ReporterEnds`, `HandlerEnds` of both modules, `FallsInStep`,
`ReportReaches`, `ClientEnds`, `Served`, `TableShown`, `HeardOrEnds`, `NewestWins`,
`PortFreed`, `CalmReaderEnds` and `CalmListComes`. That the two last runs of section 4
are violated is shown by TLC's counterexamples.

## 6. What the model leaves out

* Segments are coalesced and delayed but never split: a write of 22 or 136 bytes
  arrives whole, and what is waiting never exceeds the 1024 bytes of one read.
* Seventeen fields of the struct, and so the memory alarm, which compares two.
* Times: sleeps are fairness, or the fault `"unready"`, or a small `MaxBacklog`.
* A `bzero` of the shared memory is one step; other stores are field by field.
* In `Reporting` and `Cluster` every server has memory of its own. A slave on the
  machine of its master shares the segment 1234 with it (`extFunc.c:219`, 289), and
  none of what is said about `local`, `table` and the slots there is said of such a
  slave. Only `Lifecycle` has it, and there its reports may name slot 0.
* In `Reporting` one connection per slave, accepted or refused at the start.
  `Lifecycle` has the restarts, and there a report counts as a whole.
* In `Lifecycle` the failures of `socket`, `setsockopt`, `listen` and `shmat`, and
  processes that end otherwise than by a signal, a lost connection or a failing
  `fork` or `bind`. A slave that has lost its master stays ended: nothing in the
  code connects again, and somebody has to start it.
* In `Config` the values, but for the master flag and the number of servers; the
  dialogs that only list the file; the names, addresses and ports of the
  secondary servers, which no program looks up. The entries a file has at first
  are in order, and a file with none of init's keys is left out.
* In `AndroidApp` status texts and the exceptions the reader only reports; clicks
  after a careless one; an `IOException` out of `mSocket.close()`, which would leave
  `mSocket` set and the writer open (`MainActivity` 201-204, 309-312).
* Killed processes close their sockets (no loss of power without a reset).
* The configuration is valid: indexes are distinct and below the number of
  servers, at most seven servers.
* Printing, and the zeros printed after a failed read.
* Replies of more than 1024 bytes, and a testing client compiled for another
  number of servers than its master.

Not modelled: the constructor of `SerMod` from a string and `ToStringExt`, by
which the list goes to the next screen, and the screens and charts (layout of
decoded values); the command line and the result of a tweet; vendored
JavaScript; `otherDOCs/dynamic_IntList.c` (an exercise unrelated to the servers);
build files.

## 7. Plan

1. *Done*: `ServerPerform`, `ClusterTable`, `Reporting` and their proofs: the way
   of a report is the core of the system and everything else reads its result.
2. *Done*: `Polling` over the registers of `ClusterTable` (composition by the
   abstract specification) and its proofs.
3. *Done*: `Lifecycle`, restarts and what they leave, and its proofs.
4. *Done*: `Config`, the file between the script and a starting server, and its
   proofs.
5. *Done*: `AndroidApp` and `SerMod` and their proofs.
6. *Done*: `Cluster`, the reports in the place of the registers `Polling` was
   built on, and its proofs.
7. Restarts in `Reporting`, that is, more than one connection per slave with the
   two reads of its handler, once `Lifecycle` is shown to abstract it.
