# A TLA+ model of MIO

MIO is a C library that offers applications objects, key-value sets and
composite objects on top of a storage driver; the only driver is the one for
Motr. This directory holds TLA+ modules of its logic, TLC runs over small
instances, and TLAPS proofs. Definitions keep the names of the C functions and
fields they stand for; `PROJECT.json` maps each of them to its source lines.

## The system

| part | state | operations | how it interacts |
|---|---|---|---|
| operation core (`mio.c`, `mio_driver.c`, `driver_motr.c`) | `struct mio_op`: return code, callbacks, chain of driver operations | `mio_op_init`, `mio_op_callbacks_set`, `mio_driver_op_add`, `motr_op_cb_complete/failed`, `mio_op_fini` | every asynchronous call of MIO ends in it; Motr calls back on its own threads |
| polling (`mio.c`) | locals of `mio_op_poll`, `mp_retstate` | `mio_op_poll`, `mio_motr_op_wait` | runs post-processing on application threads |
| objects (`driver_motr_obj.c`) | per handle: size, statistics, hints, `mo_attrs_updated`; an index with the attributes of all objects | create, open, close, delete, size, readv, writev, sync | chains of Motr operations |
| object I/O (`driver_motr_obj.c`) | `motr_obj_rw_args`: sorted, aligned, read-before-write and copy vectors | sort, adjust, read-before-write, batches | links of a write or read chain |
| lock | `mo_drv_obj_lock` | lock, unlock | synchronous Motr calls |
| hints (`hints.c`) | hint maps of a handle, of its attributes, of the system | set, get, store, load, hotness | stored with the attributes; steer pool selection |
| key-value sets (`driver_motr_kvs.c`) | none of its own | get, next, put, del, create and delete set | one Motr operation per call |
| composite objects (`driver_motr_comp_obj.c`) | none of its own; layouts are in Motr | create, add/delete/list layers, add/delete/get extents | read-modify-write of a layout |
| pools (`mio.c`, `hints.c`) | `mio_pools` | select by identifier, performance hint, hotness, default | used by create |
| instance and configuration (`mio.c`, `mio_conf.c`) | `mio_instance`, parser state | `mio_init`, `mio_fini`, parser events | everything checks the instance |
| telemetry (`mio_telemetry.c`, `telemetry_log.c`, `driver_motr_addb.c`, `telemetry/`) | record store, parser streams | advertise, encode, decode | called by objects and operations |
| logger, utilities | log file | `mio_log`, `mio_now` | called everywhere |
| examples | work lists, windows of operations in flight | threads of readers and writers, asynchronous I/O, tier moves | applications of the library |

What is hard in it:

* *Chains.* One MIO operation is several Motr operations, launched one after
  another by post-processing functions that run on a Motr thread (callbacks) or
  on the application's (polling). The operation must be reported once, after the
  last of them, and truthfully also when a middle one fails.
* *Polling an array* mixes operations that are done with ones that are not, with
  counters and a clock shared by all of them.
* *Attributes* are a cached copy in every handle of a record in an index, written
  back at several places, with failures, crashes and other handles in between.
* *Delete* spans two stores.
* *I/O vectors* are cut into pages and batches with read-modify-write of partial
  pages.
* *Initialisation* has seven stages that may each fail, static variables that
  survive from one call to the next, and a parser that fills tables of fixed size
  from whatever the file lists.
* *Applications* hand work from thread to thread, count operations down in
  callbacks while they launch others, and move objects between pools in steps.
* *Shared indices* are read, changed and written back by several processes.

The full list, each at its line, is `hazards` in `PROJECT.json`.

## Modules

| module | stands for |
|---|---|
| `AsyncOp` | abstract: an operation that is launched, works, and is reported once after its work has settled |
| `MioOp` | chains of driver operations, post-processing, callbacks, finalisation |
| `MotrLinks` | every kind of driver operation of the Motr driver and what its post-processing may return or launch |
| `MioPoll` (extends `MioOp`) | `mio_op_poll` by several threads, next to operations with callbacks |
| `MioObj` | objects, their attribute index, handles, hints, lock, delete, crash |
| `IoVectors` | pure operators: how I/O vectors are sorted, cut at pages, batched and copied |
| `MioObjIO` (extends `IoVectors`) | reads and writes of one object through one handle, on its bytes |
| `MioConf` | `mio_conf.c`: the configuration from the tokens of a YAML file |
| `MioInit` (extends `MioConf`) | `mio_init` stage by stage, `mio_fini`, the driver registry |
| `MioExamples` (extends `MioInit`) | what the example programs share |
| `MioRwThreads`, `MioRwLock`, `MioAsyncIO` (extend `MioExamples`) | `mio_rw_threads`, `mio_rw_lock`, the asynchronous transfers of `obj_io_cbs.c` |
| `MioApps` | composition: a process that runs one of these three, or only initialises and finalises MIO repeatedly |
| `MioHints` | the hint map and the hints of an object, as operators |
| `MioPools` (extends `MioHints`) | pool selection, hotness to pool index, block sizes of a pool |
| `MioHsm` (extends `MioPools`) | the shell of `mio_hsm`: objects in tiers, their moves, failures and crashes |
| `MioKvs` | a key-value set and the tools of `kvs.c` that several processes run on it |
| `MioCompObj` | the layers of a composite object, changed by several processes |
| `MioIndices` | composition: processes that use both |
| `MioPollProofs` | theorems about `MioOp` and `MioPoll` |
| `MioObjProofs` | theorems about `MioObj` |
| `MioObjIOProofs`, `MioObjBytesProofs` | theorems about `MioObjIO`: lists of vectors, batches and sizes; bytes |
| `MioConfProofs` | what `mio_conf_init` leaves, for any file: lemmas for `MioAppsProofs` |
| `MioAppsProofs` | theorems about `MioApps`: initialisation, configuration, `mio_rw_threads`, asynchronous transfers, `mio_rw_lock` |
| `MioHsmProofs` | theorems about `MioHsm` and the tiers of `MioPools` |
| `MioIndicesProofs` | theorems about `MioIndices`: key-value sets and composite objects |
| `MCMioOp`, `MCMioPoll`, `MCMioObjIO`, `MCMioApps`, `MCMioHsm`, `MCMioIndices` | constants for TLC; `MioObj` needs none and is run as it is |

### MioOp

`chain[o]` is `mop_drv_op_chain` of op `o`, oldest link first, so the C list's
`mdoc_head` is the last element. Each link has a kind, the state of its Motr
operation, and a history counter of how often it was post-processed. `PpTable`
gives, for each kind, the set of things its post-processing can return: `FINAL`,
`ERR` (a negative code), or a kind of link it launches (`MIO_DRV_OP_NEXT`). Motr
itself is external: a launched operation ends stable or failed (`MotrSettle`),
and the callback registered for it becomes due (`cb_due`) and is made later, so
callbacks of different operations interleave with everything else. A callback
handler is one step: it touches only its own op. Data is absent; a return code
is `"ok"` or `"err"`.

`MioOp` is written for any table of links. `MotrLinks` fills it in from
`driver_motr_obj.c`, `driver_motr_kvs.c` and `driver_motr_comp_obj.c`. Whether
post-processing returns `FINAL` or launches another batch depends on data there
and is a choice here.

### MioPoll

One step per iteration of the loop over the array (`WaitCompleted`,
`WaitFailed`, `WaitTimedOut`, `WaitError`), one per end of a pass (`PassEnd`),
and one for the application reading the result (`Collect`, as in
`mio_cmd_wait_on_op` of the examples). Time is counted in ticks per call:
`elapsed` is `mio_now() - start`, `waited` the time of the current `m0_op_wait`.
`aborted` records the `assert` on the return value of post-processing; the
process then does nothing more (`Halted`).

### MioObj

`step[h]` is the driver operation a handle waits for. `index` is the attribute
index, `moa_size`, `moa_phints`, `mo_hints`, `updated` the fields of a handle,
`wire` the record a launched PUT carries (it is built when the PUT is launched
and stored when it is stable). `deleting[o]` is the step of a delete, which has
no handle of the application. `written`, `tried`, `hinted` and `faulty` (has an
operation failed or the process crashed?) are history.
Sizes are in blocks; a write is only its end. The application is one that keeps
to the documentation: it does not delete an object it has open, and with
`UseLock` it does I/O between lock and unlock only. A crash ends all handles and
operations and leaves `exists` and `index`.

`motr_obj_write_pp` reads `rwa_max_eow` after freeing the block that holds it.
The C library overwrites only the first two words of such a block and the field
is the third, so the value survives unless another thread is handed the block
first: `ArgsReused` says whether that can happen. The runs assume that it does
not; no property of sizes holds if it does.

### IoVectors and MioObjIO

`IoVectors` has one operator per function of `driver_motr_obj.c` that works on
I/O vectors. The arrays of `struct motr_obj_rw_args` are sequences of a record,
so a function that appends to them is an operator from such a record to the
next, and `motr_obj_iovec_adjust` is a fold. A base address is a memory region
and a position in it; the application's buffers are the first regions of a call
and the extra pages follow. Errors that the callers' conditions exclude (a
`split_3` of less than three pages) and failing allocations are left out.

`MioObjIO` runs any number of calls on one object. `data` is the object in Motr
and `mem[o]` the memory of call `o`; a byte is named by its origin (the object
at first, position `k` of buffer `n` of a call, or zero), so that a misplaced
byte is told from the right one. `call[o]` holds the args, the two cursors and
the batch in flight. Motr executes a batch (`MotrExecute`) or fails after
writing any of its vectors (`MotrFail`), and the post-processing function
follows in a step of its own, so that other calls come between. After the last
batch the write goes on to the PUT of the size, as in `MioObj`, here for several
writes of one handle.

Three constants say what the application sees to, since "MIO assumes application
takes care of concurrent accesses to an object": `PagesApart` (a write and
another call in flight do not touch the same page), `ExtendAlone` (one write at
a time grows the object) and `RbwOneOp` (the partial pages of a write fit one
Motr operation). The table of refuted formulas shows why each is needed.

### MioConf, MioInit and MioApps

A file is a document: a sequence of keys with values or lists of mappings. `Scan`
gives the tokens libyaml makes of it (external) and `ConfScan` is a fold of one
pass of the loop of `mio_conf_init` over them. The record `conf` holds the static
variables of `mio_conf.c`, which outlive a call, next to its locals. A key is
looked up, and a value copied as `conf_copy_str` and `memcpy` do: up to
`YAML_MAX_VAL_LEN` characters of it, or as many as the array of a pool's name
has; `open` has the strings that were stored without an end. Numbers, pool types,
identifiers and log levels are converted. A default pool whose name has no end is
compared with names that have none, which may find any of those that begin alike,
or none. `wild` records that memory in which nothing was stored is freed or used
as a string, and an entry past the end of a table. Properties compare `conf` with
what the document says, read without a parser.

`stage` is where `mio_init` is. Every stage passes or fails, and the failure path
(`InitFails`) is the code's, so what it does not undo stays: `clients` counts
Motr clients that run, `strays` those a failed `mio_telemetry_init` leaves.
Another process may create the attribute index between LOOKUP and CREATE.
`mio_fini` does nothing without an instance, and leaves the pointer to the one it
has freed (`"freed"`): called again, it works on freed memory (`"dead"`).

In `MioRwThreads` a critical section is one step. A digest is the number of
blocks that went into it as long as each is the block its writer wrote there, and
`Foreign` from the first that is not, so that a read of an object with less in it
than was written does not match. `pthread_cond_wait` may return spuriously.
`main` calls `mio_fini` and returns in two steps, and the threads run until it
has returned: if one of them could not be started, `main` does not wait for the
others, and what they ask of MIO from then on fails or ends the process. In
`MioRwLock` a block is named by the report entry of its writer and a digest is a
sequence of blocks; Motr's object lock is exclusive and external; a thread that
waits for it may be refused, but nobody counts on that (`LockFails` has no
fairness). In `MioAsyncIO` the slots are made for the step that was asked for and
the step is cut to the limit of an operation afterwards, as in the code, so that
slots may be overrun (`slots.over`; the process may then end when they are freed,
`SlotsAbort`). A source file may end anywhere, which leaves the number of blocks
read as the result. The callbacks run on Motr's threads; those of a read seek and
write a shared file outside the mutex, in two steps, and nobody looks whether all
was written. `ghost` is history.

### MioHints, MioPools and MioHsm

A hint map is a sequence of pairs and a number of slots. `MCMioHsm` assumes, and
TLC evaluates, that set, copy and store are updates and restrictions of finite
functions as long as there is room, and that the block sizes of `mio_pool_get`
are whole stripes within the limit of Motr. The shell of `mio_hsm` runs one
command at a time, object by object; a block is named by the object it belongs
to. Any MIO call of a command may fail after some of its blocks were written, and
the process may end at any step and be started again. `full[o]` is history: the
blocks that were stored in `o` by completed commands and not taken away by
another one.

### MioKvs, MioCompObj and MioIndices

Keys are ordered as their strings are (`KeyOrder`), which is not the order of
their numbers; values are left out. A tool works in batches of
`KVS_MAX_NR_PAIRS_PER_OP`; each batch is one operation of Motr, served at one
moment (`Serve`), and other processes act between batches. NEXT starts at a key
that need not exist, as `mio_comp_obj.c` relies on. `stay[c]` is history: the
keys that were in the set during all of the listing of `c`. A deletion of layers
is a GET and, in post-processing, a SET of the whole layout; an addition is a SET
of the layers it is given. `sets` counts the SETs and `since` is that count at the
GET of a call; `added` and `deleted` are what the calls so far amount to by the
words of `mio.h`. All of these are history.

## Runs

Passing runs:

| run | instance | shows |
|---|---|---|
| `op_callbacks` | 2 ops, all link kinds, chains up to 4 | the inductive invariant `OpInv`; `PostProcOnce`, `ReportOnce`, `ReportTruthful`; `EventuallyReported`; `ImplementsAsyncOp` |
| `poll_single` | 2 ops with or without callbacks, 1 thread, arrays of 1, `MIO_TIME_NEVER` | the state `mio_op_poll` returns for an op is true (`PollTruthful`), the call returns, and the operations implement `AsyncOp` |
| `poll_timeout` | 2 single-link ops, arrays up to 2, timeouts 0, 2 and never, failing waits | the loop for `MIO_TIME_NEVER` ends with every op done and returns their number (`PollAll`), every call returns |
| `obj_session` | 1 object, 1 handle at a time, 3 blocks, 2 hints, every step may fail, crashes, deletes, the lock | the inductive invariant `ObjInv`; `SizeOfWrites` and `SessionHintsStored` while nothing has failed; `SessionHintsLocal`, `NoForeignSize`, `NoOrphans`, `SizeGrows` whatever fails |
| `obj_io` | 2 calls; pages of 3 bytes, 6 bytes per Motr operation, 3 pages; sizes 0, 4 and 7; failures | `OnlyOwnBytes`, `WriteLands`, `ReadDelivers`: writes change the bytes they name and no other, reads deliver the bytes they name; `BatchesLegal`, `WithinRoom`, `SizeStored`, `CallsEnd` |
| `applications` | 79 files, tables of less than 3 pools, 2 calls of `mio_init`; 2 writers, 2 readers and 2 objects of 3 blocks; under the lock 2 writers and 2 readers of 3 blocks; transfers of 3 blocks in steps of 0 to 3, with at most 2 blocks in an operation; every stage and operation may fail (302 130 states) | `ConfAsDeclared`: the characters stored are those of the file of this very call, nothing is freed that was not set and no entry is past the table of pools; `NothingLeftRunning` after a failed `mio_init` or after `mio_fini`; `HandedOverOnce`, `ReportTrue`: an object is in one hand and the report is true; `ReadersMatch`: a reader under the lock sees all of the last writer; `AsyncSafe`: nothing is freed under a callback, and slots are overrun for steps above the limit only; `AsyncComplete`: a block is missing only for a named reason, and the caller learns of an early end but in one case; `AppEnds` |
| `hsm` | 2 or 4 pools, 2 objects of up to 2 blocks, 4 commands, failures, crashes (1 596 546 states) | `MoveKeepsData`: the data is under one of the two identifiers whatever happens; `MoveArrives`: a move that succeeds has the content in the pool of its hotness; `PoolsOrdered` |
| `indices` | 2 processes, 3 calls, up to 3 pairs in batches of 2, 2 layers, failures (4 137 365 states) | `ListComplete`: a listing misses no key that stayed, and repeats none; `LayersChanged`: a deletion leaves none of the layers it names, and changes nothing else if no SET came between; an addition leaves the layers it names and no other |

Runs that find the code to differ from what its documentation says (each is a
finding in `PROJECT.json`, with the line it contradicts):

| run | property | what happens |
|---|---|---|
| `cb_pp_error` | `ErrorReported` | a failed post-processing step is reported by the complete callback |
| `poll_many_forever` | `PollReturns` | an array with a chained op is passed over twice, the op done first is counted twice, and `nr_done` jumps over `nr_ops` |
| `obj_locked_size` | `SizeOfWrites` | two handles under the lock: close, which comes after unlock, stores a stale size over a newer one |
| `obj_io_rbw` | `OnlyOwnBytes` | with more partial pages than one Motr operation takes, the second batch is launched as a write: zeroed pages go to the object |

Four more findings hang on passing runs, whose properties state what the code
does where its documentation says something else: `PollAll` (all ops are waited
for and their number is returned, against `mio.h:126` and `mio.h:157`),
`BatchesLegal` (vectors of length 0 among the pages read before a write, against
`driver_motr_obj.c:1243`) and `LayersChanged` (an addition of layers replaces
those of the object, against `mio.h:754`).

Further formulas are stated in the modules under "What the code does not
achieve". TLC refutes each of them when it is added to a configuration, as
follows:

| formula | configuration | counterexample |
|---|---|---|
| `PollReturnsZero` | `poll_single` | `mio_op_poll` returns the number of ops done where `mio.h:157` has it return 0 |
| `PollWaitsForOne` | `poll_timeout` with `Timeouts = {Never}`, `MaxTicks = 0`, `WaitErrors = FALSE` | the call waits for all its ops one after the other, where `mio.h:126` has it wait for one of them |
| `PollCount` | `poll_timeout` with `WaitErrors = FALSE` | with a timeout an op that is done is counted once per pass until the time is up, where `mio.c:163` says that the number of ops done is returned |
| `PollBlocks` | `poll_single` with `Timeouts = {4}`, `MaxTicks = 5`, `Cbs = {FALSE}` | `timeout -= end - start` (`mio.c:159`) while `start` stays that of the first pass: the call ends before its timeout with the op in flight, against `mio.h:144` |
| `NoAbort` | `poll_single` | post-processing that cannot launch its next op trips the assert of `mio_op_poll` (`mio.c:143`) |
| `PostProcOnce` | `poll_single` with `MaxPollOps = 2` | an op without a successor is post-processed again in the second pass, when its arguments are freed |
| `WritesCovered` | `obj_session` | `moa_size` is set before the PUT succeeds, so a retried write completes without storing its size |
| `WritesCovered` | `obj_session` with `MayFail = {}`, `ArgsReused = TRUE` | the end of a write is read from freed memory |
| `HintsPersist` | `obj_session` with `MayFail = {}`, `MayDelete = FALSE`, `MayCrash = FALSE` | hints are loaded into `mo_hints` and stored from `moa_phints`: a session that does I/O and sets no hint stores none, where `mio.h:201` has them "valid for the life time of the object" |
| `EmptyNotSent` | `obj_io` | a vector that was set to length 0 so that it "is not sent to motr" (`driver_motr_obj.c:1243`) is part of a batch |
| `OnlyOwnBytes`, `WriteLands` | `obj_io` with `PagesApart = FALSE` | two writes share a page: the one that read it first writes it back over the other's bytes |
| `SizeStored` | `obj_io` with `ExtendAlone = FALSE` | the PUTs of two growing writes take effect in the other order, and the smaller size stays; `obj_io_cbs.c` has such writes in flight |
| `BatchesLegal` | `obj_io` with `MaxSizePerOp = 7` | `motr_obj_max_size_per_op` is not rounded to pages, and `motr_obj_iovec_clone` cuts inside a page |
| `ConfTerminated` | `applications` | `conf_copy_str` allocates and copies the characters of a string without its end, which the line it replaced (`mio_conf.c:271`) counted, and long names of pools fill their array |
| `AsyncStepKept` | `applications` | a step above the limit is cut down after the slots were made for it, and the slots are overrun (`obj_io_cbs.c:202`) |
| `LayersAdded` | `indices` | an addition of layers replaces the ones the object has, where `mio.h:754` "adds a new layer" |
| `LayersStayDeleted` | `indices` | the SET of a deletion, made from the layout before that of another process, brings back a layer that the other has deleted |
| `MoveSettles` | `hsm` | a move goes through new objects, whose access counts start again: the next move may take the object back |

`PostProcOnce`, `OnlyOwnBytes`, `WriteLands`, `SizeStored` and `BatchesLegal` are
the properties of the passing runs themselves, in configurations those exclude.

Some properties name the case in which they do not hold, and TLC shows that it
is needed:

* `NothingLeftRunning` counts the Motr clients that a failed `mio_telemetry_init`
  leaves running, because the error path of `mio_init` does not call `mdo_fini`.
* `ReportTrue` is about programs that could start all their threads:
  `mio_rwt_start` and `mio_rwl_start` otherwise return an error, and `main` calls
  `mio_fini` while the threads that were started run.
* `AsyncComplete` excepts reads in which two callbacks were in
  `obj_write_data_to_file` at once: between `fseek` and `fwrite` of one the other
  moves the position of the file. It also excepts, from what the caller learns, a
  source file that ends where an operation begins: `rc` is then 0, the number of
  blocks read, and so is what the transfer returns.
* `AsyncSafe` excepts steps above `MIO_CMD_MAX_BLOCK_COUNT_PER_OP` from what it
  says of the slots: see `AsyncStepKept`.
* `ConfAsDeclared` says which characters are stored and not where a string ends:
  see `ConfTerminated`.
* `BatchesLegal` excepts vectors of length 0 among the pages read before a write:
  see `EmptyNotSent`.
* `ReadersMatch` promises `MATCHED` only if the entry before the reader's did not
  fail: after a reader that failed, the next one prints `FAILED` although it has
  read what the last writer wrote.
* `PoolsOrdered` is about configurations with at least one pool, and thresholds whose distance is a multiple of the number
  of pools between the extremes. Otherwise `mio_obj_hotness_to_pool_idx` may
  divide by 0, run into its assert, or leave a pool without objects.
* `LayersChanged` says that a deletion changes nothing else only if no SET came
  between its GET and its SET: such an update is lost (`LayersStayDeleted`).
* `MoveKeepsData` no longer counts an object whose only copy is the temporary
  object once another move has begun: all moves share one temporary identifier.

Bounds. `MaxLinks = 4` admits the longest fixed chain (three: open, delete,
delete attributes) and read-before-write, two writes and the size update. Two
operations suffice for interference between operations, since a handler touches
one operation, and for an array in which one operation is done and the other is
not. `MaxCount = 2` stops history counters one above what is right, and
`MaxDone` does the same for `nr_done`. `MaxTicks` exceeds the longest timeout so
that a call can be late. Two or three blocks let a write fall short of, meet and
exceed a known size. Two handles are the least that disagree about a size; two
identifiers let a handle move between objects. For I/O, a page of three bytes has
a first, a middle and a last one; three pages are the least that `split_3` cuts,
and more than one batch; two ranges are enough to share a page, to fill one
together, to overlap and to be out of order. For the applications, two objects
and two threads of each kind let one thread take what another waits for, and
three blocks in operations of two make a short last operation; steps from 0 to 3
are one that divides by zero, one below, one at and one above that limit, the last
of which overruns the slots; two calls of `mio_init` are enough for one to find
what another has left; the files hold no, one, two and too many pools, values and
names longer than their limits (which are the real ones, 128 and 32), right and wrong values, and default pools that are
listed or not. Four pools are the least with two between the extremes, among
which hotness is divided. Three calls are a listing with an insertion and a
deletion of others between its batches, and a deletion of layers between two
other changes.

Fairness. Motr ends every operation it has launched and makes the callback
registered for it (weak fairness on `MotrSettle` and on both callback handlers):
the library has no timeouts of its own to fall back on. The same holds for the
batches of `MioObjIO` and the post-processing that follows them, and for the
operations of an asynchronous transfer. In `MioApps` every thread of a process
that can go on does, and a released lock goes to a thread that waits for it. For `mio_op_poll` a
thread inside the call runs and the clock advances. Nothing is assumed of the
application: it need not launch, poll or finalise anything.

`PollReturns` is checked only for the uses for which it holds: one operation at a
time, or arrays of single-link operations; `poll_many_forever` shows the rest.
The refinement by polled operations is checked for one operation at a time and
proved for any number. `SizeOfWrites` needs exclusive
use of an object. `NoForeignSize`, `NoOrphans` and `SizeGrows` have one
exception, recorded in `orphan`: a delete cut short after the data is gone
leaves the attributes to the next object of that identifier, and no later delete
can remove them, because it would have to open the object first.

## Proofs

The theorems hold for every value of the constants that satisfies the named
assumptions of the modules (types, sizes that are not 0, what `MotrLinks` and
`mio.h` promise of their tables; TLC evaluates each of them in a run). What a
theorem supposes beyond those is in its statement:

| module | theorems | supposing |
|---|---|---|
| `MioPollProofs` | `OpInv`, `TypeOK`, `ChainSerial`, `PostProcOnce`, `ReportOnce`, `ReportTruthful`, refinement of `AsyncOp` | nothing |
| | `PollInv` | nothing |
| | `PollTruthful`, refinement of `AsyncOp` | `m0_op_wait` itself does not fail (`~WaitErrors`) |
| | `PollAll` | one op per call, or ops of a single link (`SingleLinks`) |
| | `PollCount` | the same, and no timeouts |
| `MioObjProofs` | `ObjTypeOK`, `LifeInv`, `NoOrphans`, `SessionHintsLocal` | nothing |
| | `NoForeignSize` | freed arguments are not handed out again (`~ArgsReused`) |
| | `SizeGrows`, `SessionHintsStored` | one handle at a time on an object (`[]ExclusiveUse`) |
| | `SizeOfWrites`, `ObjInv` | both |
| `MioObjIOProofs` | `WithinRoom` | nothing |
| | `BatchesLegal` | the limit of a Motr operation is a multiple of the page size (`PageSized`) |
| | `SizeStored` | one write at a time grows the object (`ExtendAlone`) |
| `MioObjBytesProofs` | `ReadDelivers`, `WriteLands` | `PageSized`; calls that share pages take turns (`PagesApart`); the vectors end somewhere (`Bounded`) |
| | `OnlyOwnBytes` | `PageSized`, `PagesApart`, `ExtendAlone`, and what is read before a write fits one Motr operation (`RbwOneOp`) |
| `MioAppsProofs` | `ConfAsDeclared`, `NothingLeftRunning`, `HandedOverOnce`, `ReportTrue`, `AsyncSafe`, `AsyncComplete`, `ReadersMatch` | nothing |
| `MioHsmProofs` | `HsmInv`, `MoveKeepsData`, `MoveArrives`, `PoolsOrdered` | nothing |
| `MioIndicesProofs` | `LayersChanged`, `ListComplete` | nothing |

These suppositions are needed; TLC refutes the property without them:
`PollTruthful` and the refinement in `poll_single` with `WaitErrors` (an op is
reported as failed while it is in flight), `PollAll` in `poll_single` with
`MaxPollOps = 2` and `MaxLinks = 3` (an op counted twice ends the call before
another is done), those of `MioObj` in `obj_session` with `ArgsReused` or with two
handles, and the others as in the table of refuted formulas. `ReadDelivers` fails
with `PagesApart = FALSE` as the two properties in that table do. `OnlyOwnBytes`
needs `RbwOneOp` (`obj_io_rbw`), and `ExtendAlone` as soon as there are three
calls: one fails and leaves a byte behind the object, a second goes by the old
size and takes its page to be empty, and a third has made the object larger
meanwhile (size 4, vectors of one byte at 7, 6 and 9, pages of 3). There are two
exceptions. `PageSized` is in the theorems about bytes because their argument goes
page by page; the bytes of `obj_io` are right with `MaxSizePerOp = 7` as well, for
a Motr that takes parts of pages. `Bounded` only makes `data`, which is
as long as the longest vector, a function; every `size_t` is bounded.

None of the properties is inductive by itself. The arguments, by module:

* *Chains* (`MioPollProofs`). That a callback finds the head of the chain stable
  and not yet post-processed follows only from how the callback that is due, the
  phase and the chain move together. `OpPhases` states for each phase (`IdleOp`,
  `LaunchedOp`, `DoneOp`) which Motr callback is due, what the head looks like
  and what was reported, and `ChainSerial` that everything behind the head is
  finished. There is one lemma per action, each of which also says which abstract
  step it is, so that the refinement follows from the same lemmas; `StepOnOneOp`
  reduces each to the op the action is about. TLC checks `OpInv` in
  `op_callbacks`.
* *Polling* (`MioPollProofs`). A head may be post-processed again here, so `OpInv`
  does not carry over; `PollInv` says instead that an entry of the array that the
  pass has gone over is true (`EntryTrue`), that the ops of a call are launched
  ones without callbacks, and that two calls have none in common. The abstract
  operation of an op that is polled ends when the application collects it.
  `CountInv` has the counter, which is the number of entries gone over if no op
  grows a second link.
* *Objects* (`MioObjProofs`). `ObjInv` is a conjunction, each part of which uses
  the ones before it: `LifeInv` (an object, its record and the steps of handles
  and deletes belong together), `LocalInv` (no session hint is in a record, in
  flight or in `moa_phints`), `TriedInv` (no size is beyond what was tried on this
  very object), `AheadInv` (an open handle is not behind the record),
  `ExactInv` and `StoredInv` (while nothing has failed, record, handle and history
  agree but for a PUT in flight). TLC checks it in `obj_session`.
* *I/O vectors* (`MioObjIOProofs`). The lists of a call are folds over its
  vectors, so that these are proofs by induction. The induction principle is
  derived for sets of numbers (`Induct`) from the well-foundedness of `<`, as the
  library's own takes an operator, and `FoldRun` turns a fold into a run: a
  function with the value after each element. `AdjustAdvances` says what one pass
  of the loop of `motr_obj_iovec_adjust` does for each way to cut a vector: what it
  appends starts at or behind the end of what is there, is made of whole pages, and
  is not more than the vector's share of the estimate. The estimate is made before
  the vectors are sorted, and `SortKeeps` shows that sorting keeps the sum. From
  there `CallsInv` is inductive by `CallSteps`: every step of a call begins it,
  goes on with the next batch, ends it, or stores the size. For sizes, `SizeInv`
  adds that one call in flight grows the object, that a PUT carries the size of
  the handle, and that handle, record and history agree but for that call.
* *Bytes* (`MioObjBytesProofs`). Of the lists of a call it is shown, by the same
  inductions, where they lead (`Fits`: a vector is a part of a buffer or a page of
  the driver's, a copy connects the same bytes of the object), that they leave no
  byte out (`Covered`), and that a write has no byte in two places (`Tidy`).
  `ByteInv` then follows the memory of each call: of a read, the batches so far are
  equal to the object; of a write, the pages that are read first, then the copies
  of the application's bytes in them, then the batches so far in the object. What
  one call does leaves this alone for the others because their pages are apart
  (`BytesElsewhere`). When the last batch is done, all of it is. `OwnInv` adds what
  the other bytes of a page are (`PagesOK`: those of the object, or zero behind
  the size the call goes by) and that this size is the handle's unless the write
  lies within it (`SizeKnown`), so that writing a page back changes only the
  application's bytes.
* *Configuration* (`MioConfProofs`). The loop of `mio_conf_init` is a function of
  all tokens, of which nothing can be said for a part. `Leads(c, s, d)` is the same
  loop on any tokens `s`, as a run that exists; `LeadsSplit` and `FlatRun` take the
  run over a file apart into one per entry, and that over the list of pools into
  one per pool and field. `EntryIs` says what one entry does from any state of the
  parser: it stores its value if it is right, ends the loop if it is not, and spares
  the rest (`Spares`). By induction over the entries, `DocRead` says that the
  values of all entries so far are in place, and that, if the loop has ended, what
  `mio_conf_init` will free has been set (`Freeable`). `ConfInv` carries `Freeable`
  from call to call, which is what makes the values left by an earlier file
  harmless, and keeps the values while `mio_init` goes on. The files are those that
  `Made` allows, see below.
* *Initialisation and programs* (`MioAppsProofs`). `StageInv` counts clients
  against the stage `mio_init` has reached. `AioInv` has the operations in flight
  as a set, whose cardinality is the count that callbacks decrement, and the slots
  in use are those of the operations launched; blocks are where they belong unless
  two callbacks were at the file together. `Custody` says
  that every object is on the write list, on the read list, in the hand of one
  thread or finished, and that the last are as many as the counters say; `DigestOK`
  and `LeaveOK` say what a thread has done to its object and when it may leave.
* *The lock* (`MioAppsProofs`). `RwlInv` has mutual exclusion, the report
  (`Report`: every entry of a reader matches the last writer before it), and
  `Content`: between two holders the object is filled by the last writer, if it
  did not fail. The block that each position of the object and of a digest comes
  from is carried along block by block.
* *Tiers* (`MioHsmProofs`). `MoveInv` says step by step of a move where the data
  is; that the object is whole at its own identifier until the copy is complete
  carries `MoveKeepsData` through failures and crashes. `PoolsOrdered` is
  arithmetic: monotony of the quotient, and that the quotient stays below the
  number of pools in the middle if they divide the interval.
* *Indices* (`MioIndicesProofs`). `CompInv`: a call that has read the layout since
  the last SET has what is stored, and none has counted more SETs than there were. `KvsInv`: a listing is increasing, the next query
  starts at its last key, and every key that stayed is in it or lies behind it.

Only model-checked are the liveness properties (`EventuallyReported`,
`PollReturns`, `CallsEnd`, `AppEnds`), which are out of reach of the prover, and
every violation. Every invariant and every action property of a passing run is also
proved.

## What the models take as given

What the sources do beyond what a property can state is abstracted as follows; a
reader of the code should know of it.

* Configuration: `Made` says which files there are. Keys may be unknown, and
  values wrong or missing, but nothing is said twice, only `MOTR_POOLS` is a list,
  a pool has its three fields (and an identifier of two numbers), telemetry goes to
  `ADDB`, `LOG` or `NONE`, no pool is called `MIO_DEFAULT_POOL_NULL`, and the strings of Motr, the group and the driver are
  there, in any order. `motr_conf` is allocated without being cleared
  (`mio_conf.c:292`) and freed when something is wrong, so what may be wrong comes
  before the section of Motr or after its strings (`Careful`). Two kinds of
  document break `NoWild` otherwise: one with an error between two of the strings,
  and one without a string. `token_to_key` takes any token that
  ends in the name of a key. An error of the scanner makes `mio_conf_init` loop
  for ever (`ScanForever`); `AppEnds` is about files without one.
* A process does not call `mio_init` while MIO is up.
* Asynchronous transfers: a write has a source file and a read an output file
  (without one, `fclose` is called with a null pointer). The caller does not look
  at `mop_rc`, so that a transfer whose operations failed may return 0;
  `AsyncComplete` says that then only their blocks are missing.
* `mio_hsm`: `create` of a range that exists unlinks all objects of the range
  (`CreateCleanup`). A read does not clear its `struct mio_obj`, so the count that
  close stores is what memory held (`Junk`). A hotness of 0 is not a hint. An
  interrupted move leaves a temporary object of which a later, shorter one keeps
  the tail; `MoveArrives` compares contents only if there was none.
* Key-value tools: PUT without the overwrite flag leaves an existing pair as it
  is. `kvs_query_next` has room for one pair and asks for more (`Overrun`): the
  tool may die. A failed NEXT leaves the results of its keys undefined
  (`QueryNextFails`); `ListComplete` is about listings without one.
* Composite objects: layers are a set; their order and offsets are left out.

## Not modelled

* Extents of composite objects: their keys are strings in which layer and offset
  are printed, and the index orders them as text; a model of what a listing
  returns would be one of that formatting. Their chains are in `MotrLinks`.
* Telemetry records: `mio_telemetry_advertise` and its encoders format values into
  a line or an ADDB entry, and nothing in MIO reads them back; the parser of the
  log is in the tools. Initialisation and finalisation are in `MioInit`.
* The logger beyond its initialisation, the telemetry tools (off-line reports and
  plots), the command lines of the examples, the performance and telemetry tests
  and the test scripts: formatting and I/O.
* `mo_drv_obj_lock` of a handle: no program of the repository unlocks what it has
  not locked.
* `mio_obj_sync`, which changes no state of MIO, and allocations that fail in the
  object driver.
