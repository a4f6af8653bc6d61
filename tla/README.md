# A TLA+ model of the iODBC driver manager

iODBC is the ODBC driver manager: the library an application calls
(`src/iodbc/iodbc/`), which loads a driver per data source and forwards every
call to it, and beside it the installer library (`src/iodbc/iodbcinst/`), the
administrator dialogs and the trace. The driver manager has no threads of its
own. What is hard in it is that

* any thread of the application may call on any handle, and the one global lock
  (`iodbcdm_global_lock`) is *released* while most calls are in the driver;
* a statement has sixteen-odd states spread over five fields, a call may be
  suspended (`SQL_STILL_EXECUTING`) or wait for data (`SQL_NEED_DATA`), and one
  function is often mapped to another of the driver's;
* drivers, their environments and pooled connections are shared, counted by hand
  and freed while others refer to them;
* application and driver may be of different ODBC versions and of different
  character widths, so that nearly every value exists twice: as the application
  set it and as the driver has it;
* the installer changes files that other processes change too, without a lock.

## Inventory

| component | source | state | operations | correct when |
|---|---|---|---|---|
| statement handle | hstmt.c/h, prepare.c, execute.c, fetch.c, result.c, catalog.c, odbc3.c | `state`, `cursor_state`, `prep_state`, `asyn_on`, `need_on` | every statement call, `SQLCancel`, `SQLFreeStmt`, the transactions of the connection | a suspended call is resumed only by itself, and is the one the driver executes; data phases begin and end with the calls made for them; no cursor state without a cursor |
| texts of a statement | hstmt.h, catalog.c, prepare.c, result.c | the slots `params[0..7]` | catalogue calls, preparation, description | the driver's texts stay while it reads them and go afterwards |
| rows and columns | fetch.c, result.c, odbc3.c | `rowset_size`, `bind_type`, `row_status_ptr`, `st_pbinding` | bind, fetch, scroll, set sizes | each text is widened once, inside the application's arrays |
| statement attributes, descriptors | hstmt.c, hdesc.h, odbc3.c, prepare.c | implicit and explicit descriptors, the connection's list, copies of attributes | allocate, lend, free; set and get | live descriptors only; what was set reads back |
| handle entry and locking | the `ENTER_`/`LEAVE_` macros of hstmt.h, hdbc.h, hdesc.h; itrace.h; hdbc.c; connect.c | the global lock, a driver's lock, `stmt_cip`, `dbc_cip`, `desc_cip`, `pdbc->state`, the lists of handles | allocate, call, free, connect, disconnect, transact | one thread in a handle; nobody frees what is in use; every lock is released; the driver is not called on a closed connection |
| driver loading | connect.c (`_iodbcdm_driverload`, `_iodbcdm_driverunload`), dlproc.c | libraries counted by path, environments counted by connection, the list of environments | connect, failed connects, free, unload | counts are numbers of users; nothing used is unloaded or freed; what is no longer used is |
| connection pool | connect.c (`_iodbcdm_pool_*`), henv.c | the pooled connections, their parameters, expiry and retry times, who borrows them | connect, disconnect, expiry, reconnect, `SQLFreeEnv` | an application gets the data source it asked for; a driver's connection has one owner |
| diagnostics | herr.c | a list of records per handle, the driver's records, `err_rec` | posted by every call, cleared by the next, read by three functions | records are those of the last call, each read once by a loop |
| connect options | hdbc.c, connect.c, odbc3.c | options recorded before the connection exists, and on pooled connections | set, replay, read back; `SQLTransact` | what was set reads back; a transaction asked to end has ended |
| environment | henv.c, info.c, odbc3.c, connect.c | version, pooling, the lists of data sources and drivers | allocate, set, free, enumerate, browse | an enumeration answers each entry once, as far as its buffers reach; the driver is told the version |
| text conversion | iodbcinst/unicode.c and the functions that answer a text | blocks, lengths | one call each | no overrun, no lost text, the right length |
| installer | iodbcinst/ | ini files, the configuration mode | read and write profile strings, install, remove, configure | no update is lost, and keys and sections stay unique, unless two write one file at once; a mode serves one call |
| trace | trace/ | a file, on or off | one line per call and argument | (formatting only) |
| administrator, driver proxies | iodbcadm/, drvproxy/ | windows | dialogs | (user interface) |

Interactions. The application calls a handle; ENTER takes the global lock, marks
the handle and (except for the connection's own work) releases the lock. The
driver is called through `CALL_DRIVER`, which takes the driver's own lock if it
is not thread-safe; LEAVE takes the global lock again and clears the mark.
`SQLTransact` and `SQLAllocHandle` stay in the driver with the global lock held.
A connection drops its statements; a transaction visits all of them; a connect
goes through the pool, then through driver loading, then replays the recorded
options; a disconnect goes to the pool. Every call clears the diagnostics of its
handle and every refusal adds to them. The installer library is called for
every data source the driver manager looks up. The hazards in PROJECT.json name
the lines where these meet.

## Modules

`X` is a component, `MCX` its values for TLC, `XProofs` its proofs. Operators
whose comment begins "Mutant:" stand before the definition they are a broken
form of and are used by nothing else: each property is shown to fail under one
of them, under the cfg of its own run.

### Statement: DriverStmt, Stmt, StmtPhases

`Stmt` is one `STMT_t`; its variables carry the field names. A call has three
steps, because the lock is not held between ENTER and LEAVE: `Forward(f)` (the
check of the function's state passes and the driver is entered) or `Refuse(f)`,
`Answer` (the driver answers) and one `...Returns` action per function, which
is the function's state transition. `BadArgument` is the argument check of
catalogue functions, which runs before the test of `asyn_on`. `Transact` may run
between the steps: `SQLTransact` does not look at `stmt_cip`.
`Legal`, `Unchecked`, `Entry`, `Owner` and `Allowed` are the state checks and
the mapping of functions (`SQLFetchScroll` to `SQLExtendedFetch`,
`SQLBulkOperations` to `SQLSetPos`).

`DriverStmt` is the driver, which is outside the repository: it answers
`SQL_ERROR` out of sequence, keeps a suspended call as its only one, asks for
data only where ODBC lets it, has a cursor, and answers `SQL_NO_DATA` where there
is no row: to a fetch, and from ODBC 3 on to an execution that changed none
(`NoRow`), which the switches of `SQLExecute` and `SQLExecDirect` do not name.
Everything else is nondeterministic.

`StmtPhases` is the abstract specification: alive, the call inside, the suspended
call, and whether data is being collected. `Stmt` implements it (`PhasesSpec`)
under the mapping at the end of `Stmt`.

### More of the statement: StmtTexts, Rowset, StmtAttrs

`StmtTexts` follows the slots of converted texts: which call filled them, which
call the driver is executing with them, and who frees them. One action is one
call; `Stmt`'s states are grouped by what these functions tell apart.

`Rowset` follows what a fetch needs: the row set size as recorded and as the
driver has it, the binding type, the row status array, the list of wide columns
and the cells of the application's buffers, over ODBC 2 and 3 applications and
drivers. A text takes a number of rows when it is widened (`Spans`): the driver is
told the bytes of the row for a narrow text, and the widening has no bound, so
that a long text is written over the rows after it (`WritesOver`), which are
widened next. A wide column without indicators ends the process (`NoIndicator`).

`StmtAttrs` has two statements and the descriptors they share: who owns a
descriptor, which one a statement uses, and where the value of an attribute is
kept, by the way it takes.

### Handles and threads: HandleCalls, HandleLease

`HandleCalls` is one connection with its statements and explicit descriptors and
any number of threads. A thread is in a call (`op`) on a handle (`on`) at a place
(`at`: before the driver, in it, back, failed, or in the dialog of
`SQLDriverConnect`). `Enter`/`Leave` are the macros; `Free`, `FreeBusy`,
`RefuseDesc` and `FreeConnect` keep the effects the code puts after the `done:`
label, which happen for refused calls too. `drvConn` is history: whether the
driver has the connection open.

`HandleLease` is the abstract specification: a handle in use belongs to one
thread and no other thread's step takes or destroys it.

### Drivers: DriverLoad

The libraries of dlproc.c (`libRefs`, `libOpen`, `safe`), the environments
(`envList`, `live`, `hdll`, `refcount`) and the handles (`henv`, `dhdbc`). The
cases of `_iodbcdm_driverload` are actions of their own: the library does not
open, the environment is found or new, the driver fails to allocate, the handle
still has an environment, of this or of another driver, alive or freed.
`Unlinked` and `WalksForever` are what the loop at connect.c:1449 does to a list,
which is not what it is meant to do (see below). A use of freed memory or an
endless loop sets `fault` and ends the behaviour.

### Pool: ConnPool

The walk of `_iodbcdm_pool_get_conn` is one step per pooled connection, because
dropping an expired one releases the lock in the middle of it. `Copy` is
`_iodbcdm_pool_copy_conn`, `Put` is `_iodbcdm_pool_put_conn`; the `Dead`, `Got`,
`Refused` and `Missed` actions are what a walk ends with; `GiveBack` is the end of
a connect that failed with a borrowed connection. `link` is the driver's
connection and `target` what it is connected to.

### Connect options and transactions: ConnOptions

Two handles of one environment over the connections of a driver. An option set
before the connection is recorded and replayed (`ConnectFresh`,
`ConnectFromPool`), but a driver's own only as long as the handle has never
connected: after a disconnect or a refused connect (`ConnectFails`) it has a
driver environment, and `SetEarly` records nothing (`lost`). One set later goes to
the driver. A pooled connection keeps
what was recorded with it, and the next application's options are compared with
and set over it. `SQLTransact` asks the driver of every connection in its scope,
by the state of the connection, in the order of the list, each of which may fail.

### Diagnostics: Diag

One handle, of an environment, a connection with or without a driver, or a
statement, with the driver manager's list (`herr`), the driver's records and the
position `err_rec` of `SQLError` among the latter, for the four combinations of ODBC
2 and 3. It may be read while a call is in progress. `SQLError` goes to the driver
through its connection argument, whatever the handle it is for: a statement's
without one ends the process there (`Crash`). Records carry the call they are of and
their number in it, so that "of the last call", "in order" and "once" can be stated.
Other threads are refused on the busy handle (`Refused`) and add records.

### Environments

The state of the process that several environments share: the list and position
of `SQLDataSources` and `SQLDrivers`, while another program edits the files, with
the room of the buffer the names of a file are read into, the name it may end in
(`Read`, `Cut`), and the places of the list (`FirstOf`); the
connection pooling asked for; and of one environment the version, told to the
driver when its environment is made, over `SQLBrowseConnect`'s rounds, failed
loads and the pool. `SQLGetFunctions` is an operator of it, compared with what
can be called.

### Texts: Buffers, Utf8, InstallerTexts

`Buffers` has the functions of the driver manager that answer a text through a block
of their own, or hand the driver one converted for the call: how large the block is
and in which unit, what the driver is told, what is copied out, what is reported. A
text is its length and how many ASCII characters it begins with (`Text`), which is
what the locale's conversions tell apart (`Converted`: bounded by a count of
characters, and ended by what the "C" locale does not have). Size and length pass
the copy as SQLSMALLINT (`CopyEnds`, `Reported`). `Utf8` translates the conversions
of iodbcinst/unicode.c as folds over code points, and `InstallerTexts` the wide
functions of the installer over them, where a text is cut at the byte or character
at which the code cuts it. Both sets of functions make the behaviours of one run.

### Installer: IniFile, Installer

`IniFile` is a configuration file in memory, with the search and the changes of
inifile.c and what is read again once it is written. `Installer` is two
processes; a call opens its files (`Open`), changes them and writes them in two
steps (`Truncate` empties a file, `Flush` writes it from the first byte), between
which a process may crash and another may run: read the file half written
(`Readable`), or empty and write it as well, when the end of the longer text stays
behind the shorter (`Overwritten`). `mixed` are the files that may hold two texts. A
setup library called by `SQLConfigDataSource` makes calls of its own inside that
call. The configuration mode belongs to the process and is consumed by a call, but
for the functions that leave it to the next (`Keeping`).

### Careful and careless behaviours

The code has places where a caller that does the unexpected, or a driver that
fails at the wrong moment, takes the library into undefined behaviour. In
`HandleCalls`, `DriverLoad` and `ConnPool` each such case is a *liberty*, listed
at the constant `Liberties`; it guards exactly the steps that need it. The
variable `liberties` is chosen once, at `Init`: none (a `Careful` application) or
all of them. Properties that need care say `Careful => ...`; the others are
stated, checked and proved of both kinds. A property under `Careful` says nothing of
the liberty's own case, where the code goes wrong: the notes of the hazards in
PROJECT.json say for each which part of it a property covers and which it leaves out.

| module | liberty | where the code goes wrong with it |
|---|---|---|
| HandleCalls | drop | a busy statement is freed (hstmt.c:638) |
| | disconnect | statements are used or allocated while `SQLDisconnect` has released the lock |
| | free | `SQLFreeConnect` refused frees the memory all the same (hdbc.c:317) |
| | keep | descriptors outlive their connection (hdbc.c:300) |
| | nodialog | `SQLDriverConnect` goes on without the lock (connect.c:2604) |
| DriverLoad | switch | a handle writes its new library into a shared or freed environment (connect.c:1109) |
| | retry | after a failed load the handle points to a freed environment, or has none of the driver's connections (connect.c:1247, 1301) |
| ConnPool | adjacent | neighbours expire together, and the walk writes to a freed one (connect.c:466, 786) |
| | walk | another thread walks the pool while the lock is released in a drop |
| | switch | a handle reconnects under stale parameters (connect.c:1926) |
| | noload | `SQLConnect` returns without `end:` and a pooled connection stays in use (connect.c:2072) |
| | silent | a driver does not report a lost connection |

In `Rowset` (`ways`), `StmtAttrs` (`oddities`), `StmtTexts`, `Buffers` and
`Installer` (`odd`) the same is done after the fact: the variable records which
unexpected things have happened (a row set sized through the attribute, a
descriptor freed while in use, a poll with other arguments, a caller without a
buffer), and a property names the ones it excludes. All of them happen in the
runs, up to a bound of kinds in one behaviour (`MaxWays`, `MaxOddities`,
`MaxOdd`).

## Runs

| run | module | instance | shows |
|---|---|---|---|
| Stmt | MCStmt | one statement over four drivers (ODBC 2 and 3, with and without `SQLExtendedFetch`, conversion on and off, the commit behaviours), one catalogue function | `CallOwner`: the call inside a suspended statement is the suspended one; `SuspendedCallIsRunning`: `asyn_on` loses the driver's call to a poll answered `SQL_NO_DATA` and to nothing else; `NeedOriginates`: `need_on` agrees with the driver; `TransactClosesCursor`; `PhasesSpec` |
| HandleThreads | HandleCalls | three threads of a careful application or two of a careless one, a statement, a descriptor, a driver that is not thread-safe | `LockDiscipline`, `CipIsCall`, `ConnStateTrue`, the refinement `LeaseSpec`, and `LockReleased`: the global lock is always released again |
| LoadShared | MCDriverLoad | three handles in two environments (two of a careless application), three drivers (two of a careless application), one failed `DLL_OPEN` each | `RefsAreHandles`, `InDriverLoaded`, `EnvsLinked`, `LibraryCounted` |
| PoolOne | MCConnPool | two handles, two pooled connections, four driver connections, two sources (one for careless applications) | `ConnectedToAsked`, `OneOwner`, `BorrowedOnce` |
| Diagnostics | Diag | a handle of each kind, a list of two records, two calls with up to three records, a driver with up to two | `OnlyTheLastCall`, `ListKeepsOrder`, `ErrorLoopReadsAll` |
| Options | MCConnOptions | two handles, two driver connections, one of them pooled, two settings | `AskedIsSet`, `TransactionEnded` |
| Rows | Rowset | one column, two buffers of three rows, sizes 1 and 3, texts that take one, two or four rows when widened, two unexpected ways | `ListIsBound`, `ConvertedOnce`, `InsideTheRows` |
| Descriptors | StmtAttrs | two statements, two explicit descriptors, one attribute value, one oddity | `DescriptorsLive`, `ReadsWhatWasSet` |
| Texts | StmtTexts | every function with converted texts, one oddity | `SuspendedTextKept`, `TextArrives`, `NothingHeld` |
| Buffers | InstallerTexts | seven buffer lengths, four text lengths with all or one ASCII character, two locales, code points of one to four bytes and one beyond, six capacities around the wrap of a WORD | `InsideTheBuffers`, `WholeTextRead`, `TextHanded`, `LengthReported` |
| Installer | Installer | two processes, two calls, tables of eight entries | `UpdatesKept`, `KeysUnique`, `SourcesWhole`, `ModeIsOneShot` |
| Environments | Environments | two environments, three names, a buffer for three and a list for two, one pooled connection, one edit | `EachEntryOnce`, `VersionTold` |

### The bounds

* *Stmt*: one statement is enough because no statement call reads another
  statement; one catalogue function, because they share their check and
  transition. There is no bound on the length of a behaviour.
* *HandleThreads*: three threads are one in the driver with the lock, one in it
  without, and one that wants in. `Careless` lets only two of them act in a
  careless application: two suffice for every liberty, and three exceed five
  minutes.
* *LoadShared*: three handles are what it takes to share an environment twice and
  to have a second application environment; three drivers, what it takes for a list
  of three, where the unlinking fails (see below). `CarelessDrivers` lets a careless
  application have two of them.
  `MaxFailures` and `MaxRefs` bound a count that failed `DLL_OPEN`s raise for ever.
* *PoolOne*: two pooled connections and two handles are the least with
  neighbours, a borrower and a rival; four links let each connection have one and
  be free again. `Asked` is what careless applications ask for: with one source
  the liberty "switch" has nothing to switch to, and is left out of the cfg.
* *Diagnostics*: `Cap` is 64 in the code (herr.c:147); with two, the entry above
  the top is reached with `MaxPosts` = 3. Two calls are the last and the one
  before; two records of the driver are one read and one unread.
* *Options*: `MaxSets` = 2 is an option of this application over another's.
  Access mode, quiet mode and login timeout are treated like the options that
  stand for them.
* *Rows*, *Descriptors*, *Texts*: `MaxWays`, `MaxOddities` and `MaxOdd` bound the
  kinds of unexpected things, not how often each happens. Three rows are a row set,
  its rest, and what the recorded attribute number (27) runs past; a widened text
  takes up to four times its bytes (`WideSize`), so that it ends in its row, in the
  next one or past the buffer.
* *Buffers*: the room and text lengths are below, at and above each other with and
  without a terminator, and past 16384 a length in bytes no longer fits a WORD
  when scaled; 40000 and 65539 are a SQLINTEGER that is negative, and one that is
  small, as a SQLSMALLINT.
* *Installer*: `MaxCalls` counts the calls of setup libraries too: two are a race,
  or a call inside a call, or a call after a crash. `Pool` is the number of lines
  a table is first allocated for, reached by an installation with its attributes.
* *Environments*: `Names` are three, so that there is an entry before and after
  the position and one more than the list has room for; `Room` and `MaxEntries` stand
  for the 4096 bytes and 512 entries of info.c, and either is reached. An edit by
  another program happens anywhere.

Symmetry is used for addresses, names and handles that no operator orders
(environments and drivers; handles, nodes and links; handles; processes), in runs
that check invariants only.

Deadlock is checked in Stmt, HandleThreads, Texts, Buffers and Environments. In
LoadShared and PoolOne a use of freed memory or a failed assertion ends the
process; Diagnostics, Options, Rows, Descriptors and Installer can come to the end
of their bounds (`MaxCalls`, `MaxSets`, `MaxOddities`, `MaxWays`).

Fairness is stated for `HandleCalls` alone: a thread that is in a call goes on
(`Progress`), that is, a driver returns from its calls and the scheduler runs a
thread that can take the lock. Nothing makes a thread begin a call, answer a
dialog or free anything. The other modules have no liveness property: what they
wait for is the application.

## Proofs

Checked by TLAPS for every value of the constants that the named assumptions
allow: any number of threads, handles, drivers, pooled connections, and any
length of a behaviour.

* `StmtProofs`: `TypeCorrect`, `CallOwnerHolds`, `TransactClosesCursorHolds`,
  `SuspendedCallHolds`, `NeedOriginatesHolds` and the refinement `PhasesHold`.
  `CallOwner` is inductive over the type invariant: `Forward` establishes it from
  `Allowed`, and no completion changes `asyn_on` while its call is still inside. The
  next ones are not inductive alone: a suspension that `asyn_on` has lost, or the
  driver has ended, would let a call in that changes the phase. Their invariant is
  `CallOwner` with `CallInv` (an answer is one its function can get), `RunInv` (the
  driver is executing the call `asyn_on` names until it has answered its poll, or an
  execution has been lost to `SQL_NO_DATA`), `DataInv` and `SupplyInv` (only calls
  for data are in a statement that collects data) and `BulkInv` (`SQLBulkOperations`
  without a function of the driver's passes the check of `SQLSetPos`). There is a
  lemma per group of completions for the invariant and one for the step of
  `StmtPhases` they make. `NeedInv` adds what `need_on` is written from: a call that
  comes back with `SQL_NEED_DATA` is the one the driver waits for, by its entry; and
  in the first data state (`Waiting`) the driver waits for the call `need_on` names
  or for none, has no cursor before an execution, and has ended the phase of a
  `SQLSetPos` only if the call that ended it is still inside.
* `HandleProofs`: `HandleTypes`, `LockDisciplineHolds`, `CipIsCallHolds`,
  `ConnStateHolds` and the refinement `LeaseHolds`. `IInv` adds which thread owns
  the lock at which place (`LockOwned`, `PlaceOK`), that a handle has at most one
  call and that handle is valid (`UseInv`), what the connection's state was when
  the calls in progress began (`ConnInv`), and where the driver's connection is
  open (`DriverInv`). It is inductive for careful applications; the theorems are
  of `Spec`, with the condition in the property.
* `ConnPoolProofs`: `OneOwnerHolds`, for every application, `ConnectedToAskedHolds`
  and `BorrowedOnceHolds`. `OneOwner` is inductive with the types of `link` and
  `cp`: `CopyKeeps`, `PutKeeps`, `LoadKeeps`, `GotKeeps` and `DropKeeps` say that
  the ways a connection changes hands leave it one owner. `AskInv` says what ties a
  source to a driver's connection on the way: a connection with parameters has one
  that is idle or connected to what they name (`KeyTrue`), in the pool too; a handle
  that connects has parameters that are its own request's or none (`AskTrue`). That
  a driver's connection has one owner is what makes a change of one connection leave
  all others true (`Untouched`). `PoolInv` is about the list itself: no pooled
  connection is in it twice and no two neighbours have expired (`PoolTypes`,
  `Apart`); one in use has exactly one borrower, who is connected or connecting
  (`Lent`); one thread walks at a time, and what it goes on from is in the pool
  unless it has just dropped it, when the next one has not expired (`Walking`).
  Lemmas on sequences say what removing an element does to the places and the
  neighbours of the others.
* `DriverLoadProofs`: `RefsAreHandlesHolds`, for every application,
  `LibraryCountedHolds` and `InDriverLoadedHolds`. The counts are cardinalities of
  sets of handles and environments; `Joined`, `Left` and `Pointed` say what a
  handle that comes, goes or only points does to them, `LibOpened`,
  `LibReopened`, `LibClosed` and `LibFailed` the same for a library. That a
  library in use stays open follows: its count is not zero as long as an
  environment has it. `EnvsLinkedHolds` is of steps: it says what a list
  loses and when a walk fails, which for three drivers and more it does. `ListInv` says
  that the lists hold the live environments, each in one list, and repeat no driver
  among these, until a use of freed memory ends the process; `LinkInv` adds that a
  handle with a driver connection is on an environment of its own list.
* `EnvironmentsProofs`: `VersionToldHolds`, `EachEntryOnceHolds`, and
  `SupportedCanBeCalled` for `SQLGetFunctions`. `ToldInv` says that the driver's
  environment is counted by the handle's connection and by the pooled ones at least,
  that while counted it has been told a version, the one in force unless another was
  asked for while it was kept, and that as long as nothing has kept it, it exists
  exactly while the connection has a driver connection; `HandleInv` that the version
  is fixed while there is a handle. `LoopInv` says that the list is in the order of
  the names, that the enumeration being followed has answered it up to the position,
  and that the list serves it (`Serves`: the entries due, or as many as there is
  room for, the user's first). That a finite set of entries has such a list is a
  lemma of its own: the place of a name is the number of names that are not after
  it.
* `StmtDataProofs`, in four parts:
  * texts (`Spec` of `StmtTexts`): `SuspendedTextKeptHolds`, `TextArrivesHolds`,
    `NothingHeldHolds`. `TextsInv` joins `InsideInv` (the driver executes a call of
    the statement's functions, or none), `HeldInv` (no text is held when none
    executes), `KeptInv` (the suspended call is the one `asyn_on` names, and
    converting its texts again would change no slot) and `TextArrives`;
  * descriptors (`AttrsSpec` of `StmtAttrs`): `DescriptorsLiveHolds`, for an
    application that frees no descriptor in use and lends no implicit one. It is
    inductive with the list of descriptors being the live explicit ones and an
    implicit descriptor living as long as its statement (`DescInv`); it needs that
    no descriptor is both explicit and implicit (`DescAssumption`);
  * attributes (`AttrsSpec`): `ReadsWhatWasSetHolds`. `CopyInv` says that the value
    asked for is the one in the copy that will be read;
  * rows (`RowsSpec` of `Rowset`): `ListIsBoundHolds`, `ConvertedOnceHolds`,
    `InsideTheRowsHolds`. `RowsInv` joins `ListInv` (one entry for each wide
    column), `BufferInv` (a buffer is one column's, which is why a text is widened
    for one column only), `SizeInv` (the row set is no larger than a buffer, and the
    row statuses given to the driver are as many as its rows) and `CrashInv` (a
    fetch ends the process only for a wide column without indicators). What one fetch
    does to the rows of a buffer is a lemma on its own (`FetchFills`), for any choice of
    rows that are written over (`Spills`).
* `AnswersProofs`, in three parts:
  * diagnostics (`Spec` of `Diag`): `ListKeepsOrderHolds`, `OnlyTheLastCallHolds`
    and `ErrorLoopReadsAllHolds`, for a list of any size and any number of records.
    `DiagInv` adds what all need: the records of either list are one party's and in
    order, so no two are the same, and the driver's are of the call as soon as the
    call has reached it. `ListTakes` and `DriverTakes` say that `SQLError` takes
    what it answers from what remains, for each of its sources;
  * connect options (`OptionsSpec` of `ConnOptions`): `AskedIsSetHolds` and
    `TransactionEndedHolds`. `OptionsInv` is the types with `Linked` (a handle has a
    driver's connection exactly when it is connected), `Apart` (a driver's
    connection belongs to one handle or one entry of the pool), `Settings` (what is
    recorded of a connection is what its driver was given, and what the handle
    records is what the application set, but for what the driver refused or the
    driver manager does not record) and `Opened` (a transaction is open only where
    there has been a statement, and none in the pool). `Apart` is what lets an
    option set on one connection leave the others' records true, and `Opened` is why
    `SQLTransact` may pass over a connection without statements;
  * texts (`BuffersSpec` of `Buffers`): `InsideTheBuffersHolds`,
    `WholeTextReadHolds`, `TextHandedHolds` and `LengthReportedHolds`, for every
    width of a wide character and every room and length of the driver manager's
    calls. A call leaves `out` and `in` as a whole, so there is nothing to carry
    from one to the next but that they fit (`BuffersInv`); the work is the
    arithmetic of lengths scaled up for the driver and down for the application and
    narrowed for the copy (`Scaling`, `ToldFits`, `CopyFits`), of the characters whole
    in so many bytes, and which functions count what (`AnyFunction`).
    `BufferAssumption` says that an application's room, in bytes,
    is a SQLINTEGER: past it the code's product wraps. The functions whose length is
    a SQLSMALLINT take only such rooms (`ShortRooms`).
* `InstallerProofs`: `KeysUniqueHolds`, `ModeIsOneShotHolds`, `UpdatesKeptHolds` and
  `SourcesWholeHolds`, for any number of processes and calls, any growth of a table
  and whatever is read of a value with a comment in it. In three layers:
  * lines (`IniFile`): a line goes only with its section, so a file is compared with
    an earlier one by the places its lines had there (`Thinned`) or by the line put
    in (`Put`). `ChangeIs` says that a change of a unique table leaves it unique, and
    makes of its meaning what was asked and nothing else unless it overruns the
    table; `WrittenIs` says it of a list of changes, and `RereadIs` that a file
    written and read again keeps all but the end of a value with a comment. Lists
    are gone through by their length (`UpTo`, from the least number where a
    statement fails);
  * changes (`ChangesAre`): what each function asks of the data sources lists one
    exactly if it gives it a section (`KeepsSources`), but for an installation whose
    CreateDSN comes before its driver, or that finds a section of that name among
    the drivers (`Unlisted`);
  * steps: `StepIs` sorts the actions into nine kinds, by what they do to the call,
    the file and the mode, and each invariant has one lemma per kind. `KeysInv` is
    the shape of the calls with unique tables and files: with `Alone`, that a file that
    is being written and is not `mixed` is empty and has one writer, whose table was not
    read in the middle of another's write, so that what is written over it is all there
    is in it. `ModeInv` ties the mode to
    what was asked for (`ModeOf`), the attempts of a call to the mode it found
    (`ScopesOf`) and the files it opens to its attempt (`FilesOf`); the search for a
    setup library never runs out of files it can open (`Callable`). `KeptInv` says
    what a call knows: a table read of the latest version of a file means what was
    asked for of that file (`Knows`), one being written means it too (`Delivers`),
    nobody writes a file whose latest version another has read whole, and only one
    writes a file that was not raced. `WholeInv` says that tables, like files, list
    the data sources that have sections, unless the call is the installation named
    above (`Orderly`).

  `IniAssumption` says that a value with a comment in it (`Cut`) is none of the other
  values, and that what is left of it is neither empty nor such a value again.

Only model-checked:

* `LockReleased`, a liveness property, out of the prover's reach;
* the wide functions of the installer in the run *Buffers* (`SpecOfBoth`), which
  convert through `Utf8`. Its folds would need an induction of their own each.

## What the code does otherwise than it says

These were met while modelling. The modules do what the code does; where a
property would not hold because of one, its condition is the liberty or the
oddity named. None of them has a run of its own.

Statements:

* `SQLNumParams` and `SQLDescribeParam` never clear `asyn_on` (execute.c:798);
  `SuspendedCallIsRunning` leaves them out. `SQLExecute` and `SQLExecDirect` do not
  when a poll answers `SQL_NO_DATA` (execute.c:212, 397), which it names.
* A native `SQLBulkOperations` that answers `SQL_NEED_DATA`, and executions from
  states outside their switches, leave the statement out of the data states
  (odbc3.c:3331).
* `SQLCancel` goes by `need_on`, which is not reset when the data phase ends, and
  can leave the statement in the data state it should have left (hstmt.c:1097).
* `SQLPutData` reaches the driver before `SQLParamData` (execute.c:503), `SQLSetPos`
  after `SQLFetch` (fetch.c:774), and `SQLBindParameter` on a suspended statement
  posts S1010 and goes on (prepare.c:569).
* A bad argument of a catalogue function frees the conversion buffers of the call
  that is suspended (catalog.c:304).
* A polled `SQLFetchScroll` mapped to `SQLExtendedFetch` is refused by the second
  check (fetch.c:308); the suspension is lost (`LostPoll`).
* `SQLSetStmtAttr` records the attribute's number as the row set size
  (odbc3.c:1451), which the widening after a fetch goes by.
* The widening has no bound (hstmt.c:1399): a text that fills its row as a narrow one
  is written over the next rows. It reads the indicator before it tests whether there
  is one (hstmt.c:1396).
* `SQLError` on a statement goes to the driver through the connection argument, which
  may be null (herr.c:366).

Handles:

* `SQLFreeStmt(SQL_DROP)` of a statement another thread uses is refused with S1010
  and frees it (hstmt.c:638); so does `SQLFreeConnect` (hdbc.c:317) and `SQLFreeEnv`
  (henv.c:256).
* A refused call on a busy descriptor clears the flag of the call in progress
  (hdesc.h:140), and `SQLFreeHandle` changes the connection's list of descriptors
  without entering the connection (odbc3.c:421).
* `info.c:383` returns with the global lock held.
* A driver's option set between two connections of a handle is stored nowhere, and
  answered with success (hdbc.c:372).
* A file's data sources are read into 4096 bytes and listed up to 512, the rest goes in
  silence; names that fill the buffer leave it without an end (info.c:150, 217;
  inifile.c:1026).

Drivers and pool:

* The walk that unlinks a driver environment advances by the environment's own
  successor (connect.c:1449): from the third place on it unlinks nothing, and has
  no end unless the environment is the last of the list.
* A walk of the pool writes to the connection it has just dropped when the next
  one has expired too (connect.c:786); a driver that does not load leaves a
  pooled connection in use (connect.c:2072); a handle that was connected to
  another source is found under that source's parameters (connect.c:1926); the
  answer of CPProbe is taken the wrong way round (connect.c:757, not modelled).
* `SQLDisconnect` into the pool drops the first statement until there is none: one
  that cannot be dropped stays first (connect.c:961, not modelled).

Texts and installer:

* The overruns named at `InsideTheBuffers`, and the error stack whose bound is one too
  large (iodbc_error.h:91, not modelled).
* The copy's size and length are SQLSMALLINT where some of its callers count in
  SQLINTEGER (unicode.c:308, 345): from 32768 characters on `SQLGetConnectAttr`,
  `SQLGetDescField` and `SQLNativeSql` copy too little and report another length.
* Conversions through the locale are given as many bytes as the text has characters
  (unicode.c:269): what is not ASCII is cut.
* `ODBC_INSTALL_INQUIRY` with a buffer copies out a block nobody has written to
  (SQLInstallDriverEx.c:238, 386).
* A file is emptied when it is opened and written later (inifile.c:946): two writers
  mix their texts.
* `SQLGetTranslator` resets a variable of its own (SQLGetTranslator.c:249): the mode
  asked for is left to the next call.

## Not modelled

* The administrator dialogs and driver proxies (user interface; the outcomes of the
  two dialogs of `SQLDriverConnect` are in `HandleCalls` and `ConnPool`), the trace
  output, samples and build files: they keep no state other components read.
* In `Diag`, a reader that takes a record while another thread pushes one without the
  lock: the list is then whatever the two writes leave.
* Data that passes through: values of parameters, results, `SQLGetInfo` and
  diagnostic texts; the header fields of diagnostics but for the number of records.
* CPProbe, translation options, the cursor library, the installer's error stack.
* `SQLFreeEnv` where it is refused; the loop of `SQLDisconnect` over a statement that
  cannot be dropped.
* Compositions: `ConnPool` has one driver that is always loaded, `DriverLoad` has no
  pool (`Environments` has both for one driver); the statements of `HandleCalls`
  have no inner state, and `Stmt` has one statement. Each pair meets in the
  variables named above, and the products are out of TLC's reach.

Every component is therefore listed as "partly" modelled, or not at all.

## Next

Theorems: what `Utf8` makes of a text of any length. Models: several statements of
one connection under `SQLTransact` and `SQLDisconnect`; two drivers in the pool.

## Running

    tlc -config Stmt.cfg MCStmt
    tlc -config HandleThreads.cfg HandleCalls
    tlc -config LoadShared.cfg MCDriverLoad
    tlc -config PoolOne.cfg MCConnPool
    tlc -config Diagnostics.cfg Diag
    tlc -config Options.cfg MCConnOptions
    tlc -config Rows.cfg Rowset
    tlc -config Descriptors.cfg StmtAttrs
    tlc -config Texts.cfg StmtTexts
    tlc -config Buffers.cfg InstallerTexts
    tlc -config Installer.cfg Installer
    tlc -config Environments.cfg Environments
    for m in Stmt Handle ConnPool DriverLoad Environments StmtData Answers Installer; do tlapm ${m}Proofs.tla; done
