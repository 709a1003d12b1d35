# Verification of fauxmy

fauxmy is a server that speaks the MySQL 4.1 wire protocol to its clients and
passes their queries to Microsoft SQL Server over ODBC. This directory holds
TLA+ models of it, the TLC configurations that check them on small instances,
and proofs checked by TLAPS.

The program that is modelled is the Windows build, the one the project files
build: `windows/main_win.c` and the `fxmy_*.c` files. `main.c` is an earlier
Linux prototype; it uses members of `struct fxmy_connection_t` that the header
no longer declares, so it cannot be compiled and says nothing about the server.

## The system

| Part | Source | State | Operations |
|---|---|---|---|
| Accept loop and connection table | `windows/main_win.c` | `context_array`, its number of slots and of active slots; one heap structure and one thread per client | accept, create the thread, scan for finished connections, wait and free, grow, insert |
| Session worker | `fxmy_main.c`, `fxmy_common.c`, `fxmy_query.c` | `struct fxmy_connection_t`: packet buffer, packet number, status, database, ODBC handles | handshake, authentication, `COM_QUIT`, `COM_INIT_DB`, `COM_QUERY`, `COM_SET_OPTION`, answer, end |
| Packet transfer | `fxmy_conn.c`, `fxmy_write.c` | the packet buffer and packet number of the connection; a serialization buffer | receive header and body, split into packets, send, grow a buffer |
| Packet reading | `fxmy_read.c`, `fxmy_parse_auth_packet` | the cursor of the packet buffer | read integers, skip strings and length-coded binaries |
| ODBC status translation | `fxmy_error.c`, `fxmy_verify_and_log_odbc` | none (a constant table) | status of a call from its return code and diagnostic records |
| Query translation | `fxmy_query.c`, tokenizer of `fxmy_string.c` | the wide text of a query | `SET NAMES`, `DESCRIBE`, `SHOW TABLES`, `LIMIT` to `TOP` |
| Text conversion | `fxmy_string.c` | none | UTF-8 to UCS-2 |
| Heap wrapper | `fxmy_mem.c` | the heap of the process, a count of its blocks | allocate, reallocate, free |
| Logging | `fxmy_core.c` | a threshold and a file | write a line |

**Interactions.** The main thread accepts a client, allocates its structure,
starts a worker thread on it, and enters both in the table. The worker and the
main thread share nothing but that structure: the worker sets `done` as the last
thing it does (`fxmy_main.c` 73-78), the main thread reads `done` when the next
client arrives, waits for the thread and frees the structure. The worker talks
to its client in lock step over a blocking socket, through one packet buffer
that holds the packet received and then the packet sent, and calls ODBC, whose
calls block as well. Every failed `VERIFY`, `abort()` and `__debugbreak()` ends
the process, with all its connections.

**What is hard.** Workers finish between any two steps of the scan, in any
order; the structure is freed as soon as `done` is seen, although the worker has
not returned yet; the growth test, the `memset` after `realloc` and the search for
a slot rely on a counter staying exact. In a session, the packet buffer, the
packet number and the status are each carried from one function to another and
from one command to the next; clients may pipeline requests, hang up at any
time, or have a packet arrive in pieces; an ODBC call may succeed, succeed with
information, return no data, fail with any mix of diagnostic records, or be
refused because of an earlier failure nobody noticed. Inside the steps of a
session there are loops over arrays whose ends are found by a character and not by
a length: packets that are cut short, texts that are not what UTF-8 allows, a
clause that is moved in place by three overlapping copies. `PROJECT.json` lists each hazard with its
line and the properties that are about it.

**What makes each part correct.**
- *Connection table*: the counter is the number of slots in use; a slot is always
  found; a structure is allocated exactly while it is known; none is freed under
  its worker; the main thread gets back to `accept()`.
- *Session*: every request gets one answer, about that request, in order and with
  the right number; no packet is lost or echoed; a worker told to quit ends; a
  query is never answered without a database; every block is in use or among those
  the early returns lose; the server ends only for the packet in hand or its
  connection.
- *Status translation*: a call that succeeded is reported as a success (it is not
  always, see `session_info`); no status of one command is left for another. That a call
  that failed is reported as a failure is not so, and no property says it: a record
  with native code 0 has the status `FXMY_OK`, so a connect that the driver manager
  refuses, as for a second `COM_INIT_DB`, is answered with OK.
- *Packet transfer*: the loop that copies a message into packets fills exactly the
  room that the loop before it counted; a peer that follows the headers gets the
  message back; nothing is written beyond the serialization buffer, and a call
  appends one encoding, whole, to what is there.
- *Packet reading*: a packet that is cut short is refused, a whole one is read back
  as it was written.
- *Text conversion*: a code point is decoded to itself wherever it stands; no array
  is overrun; a result is terminated.
- *Query translation*: a rewritten query is the query it stands for; no position
  lies beyond the text; every scan ends.

## Modules

| Module | What it is | Checked by | Proved in |
|---|---|---|---|
| `ConnectionLifetime` | abstract: the life of a connection structure, without a table | as the property `ImplementsLifetime` | |
| `ConnectionTable` | the accept loop and `fxmy_add_new_connection` | `MCConnectionTable` | `ConnectionTable_proofs` |
| `Odbc` | outcomes of ODBC calls and the status they are given | through `Session` | |
| `RequestReply` | abstract: a server that answers requests one by one | as the property `ImplementsPromise` | |
| `Session` | a worker, its client and SQL Server | `MCSession` | `Session_proofs` |
| `SendFraming` | `fxmy_begin_send` and `fxmy_send`, byte by byte, and a peer | `MCSendFraming` | `SendFraming_proofs` |
| `OutputStream` | abstract: a stream that grows by one encoding at a time | as the property `ImplementsStream` | |
| `Encoding` | the encodings of `fxmy_write.c`, as sequences of bytes | through `Serializer`, `AuthPacket` | |
| `Serializer` | `fxmy_write.c` and `fxmy_reset_xfer_buffer` | `MCSerializer` | `Serializer_proofs` |
| `AuthPacket` | `fxmy_read.c` and `fxmy_parse_auth_packet` | `MCAuthPacket` | `AuthPacket_proofs` |
| `Utf8` | `fxmy_utf8_to_ucs2` and `fxmy_fstrfromchar`, with their callers | `MCUtf8` | `Utf8_proofs` |
| `Tokenizer` | the functions of `fxmy_string.c` that queries are read with | through `QueryText` | `QueryText_proofs` |
| `QueryText` | what `fxmy_query.c` does to the text of a query | `MCQueryText` | `QueryText_proofs` |

`Session` is the process as its client sees it; `SendFraming`, `Serializer`,
`AuthPacket`, `Utf8` and `QueryText` are the insides of its steps. What they find that
ends a session is an outcome of an action there: an authentication packet that does
not pass (`AuthShort`), a name or a text whose conversion does not come to an end or
runs out of its array (`AuthBadName`, `Malformed`), a query whose handling goes through
NULL or overruns an array (`Malformed`), a `LIMIT` that is not found
(`LimitUnbounded`).

### ConnectionTable

The main thread goes through `accept` (`Accept`), `create_thread`
(`CreateThread`), `scan` (one step per slot: `ScanNull`, `ScanBusy`, `ScanDone`,
`ScanEnd`), `wait` (`ReleaseSlot`), `grow` (`Grow`) and `insert` (`Insert`). `context_array` is a function on `0 .. num_entries - 1` of pairs
`(conn, thread_handle)`; slots that `realloc` returned and `memset` did not clear
hold a value outside the type, so `TypeOK` says that none is left. A worker is
reduced to running, having set `done` (`WorkerDispose`), having returned
(`WorkerReturn`), or ending the process (`WorkerAborts`). `CreateThread` may fail,
as its result is not tested; `MaxOrphans` bounds how often.

### Session

A step is one trip of the worker from one socket call to the next, because
nothing else in the process touches its structure meanwhile. `Recv` is
`fxmy_recv`, and each handler of `fxmy_handle_command_packet` and of
`fxmy_handle_query` is an action that begins with it; `Reply` is `fxmy_send_result`
followed by `fxmy_reset_transient_state`. `xfer_buffer` holds the packet last
received or `NULL`; `Packet` sends what it finds there if anything, as
`fxmy_begin_send` does. `connected` and `stmts` are the state of the ODBC handles;
`blocks` counts the heap blocks that are allocated, by what they hold; each action
adds and takes off what the functions it stands for allocate and free (`Uses`,
`HeapAfterSend`, `HeapAfterResult`), so that what is lost is the difference, not a list.
`early` is history: the commands sent for which `fxmy_handle_query` returns early.
`process` records what ended the server. A query is one of seven kinds, one for each path through
`fxmy_handle_query`, and an authentication packet one of four. What ODBC answers is
any outcome the state of the handle allows: a connected handle refuses a second
connect, an unconnected one refuses a statement, both with native code 0.

`RequestReply` knows none of this: it has a queue of requests without an answer, a
queue of answers on their way, and for each kind of request the outcomes its answer
may have. Under the refinement (`Promise`) the packet in hand and those not received
yet are the first queue, so an answer that was about another request, was sent twice
or not at all, or carried a status left over from an earlier command, would be a step
that `RequestReply` does not have. A statement is always answered with an error: a
success reaches a `TODO` that ends the process (`fxmy_query.c` 420).

Left out of `Session`: the values of client flags, `affected_rows` and `insert_id`
(never set by the code), failures to allocate environment or connection handles and
memory, and errors that an ODBC driver reports without any diagnostic record.

### SendFraming

`Session` sends a message in one step; this module is the inside of that step. Its
variables are the local variables of `fxmy_begin_send`, and a step is one iteration of
the counting loop (`CountPacket`), the `VERIFY` and the allocation (`TooMany`,
`Allocate`), one iteration of the copying loop (`CopyPacket`), or the call of `send()`
(`Transmit`). `memory` is a function on the addresses that exist: a write at an
address beyond the block makes its domain larger than `alloc_size`, which `TypeOK`
notices. A byte of the message stands for its position in the message, so that a
gap, a repetition or a swap is visible in what the peer collects. The peer (`PeerReads`) parses the size of
a header as `fxmy_begin_recv` does. The early return for a buffer that is in use is
not here: `NothingEchoed` of `Session_proofs` shows that it is never taken. Short writes by `send()`
are in `Session` (`SendFails`).

### Serializer

The state is `struct fxmy_xfer_buffer_t`; each `fxmy_serialize_*` function is an action
that makes room (`EnsuredSize`, `EnsuredMemory`) and then writes (`Written`) its
encoding (`Encoding`), and the calls come in any order, not only in that of
`fxmy_send_result`. Bytes are real bytes here, because the encoding of a length-coded
binary is what the properties are about. Left out: strings that are `NULL`, which
change nothing, and allocation failures.

### AuthPacket

A step is one call of a function of `fxmy_read.c`. `packet` is what the client wrote,
laid out with the operators of `Encoding`; `memory` holds its first `size` bytes and
the zero that `fxmy_recv` puts behind them, and a byte beyond that is any of `Stray`,
because the functions read first and verify afterwards. The padding and the name
are passed over without a test of the cursor (`SkipUser`), as in the code. `LcbWidth` is the
switch of `fxmy_read_lcb`, whose cases fall through.

### Utf8

A step is one iteration of the loop of `fxmy_fstrfromchar`. The two actions that start a
call are its callers: queries and `COM_INIT_DB` give an array of one character more
than there are bytes (`ConvertPacket`), `fxmy_parse_auth_packet` gives as many as
`strlen() + 1` and has the terminator converted, too (`ConvertString`). Bytes beyond the
block are any of `Stray`. `debug` tells whether the assertions are compiled in. A
character that is put outside of the array ends the model (`overrun`).

### Tokenizer and QueryText

`Tokenizer` has the string functions as operators on a text, a function from `0 .. n`
whose only `NUL` is at `n`; a loop over characters is the least position with the
property it looks for. Characters stand for themselves, a letter for both its cases, a
blank for all white space. `QueryText` is the handling of one query: the branch
(`SetNames`, `Describe`, `ShowTables`, `Limit`, `Statement`), one step per iteration of the
loops over tokens (`ScanLike`, `ScanLimit`), and what follows the loop (`SendTables`,
`Reject`, `RearrangeNull`, `Rearrange`). The three moves of `fxmy_rearrange_limit` are the
cases of `Rearranged`; a write at a position the array does not have adds it to the
domain, which leads to `overrun`. `sent` is what `SQLExecDirect` gets: for `SHOW TABLES` and
`DESCRIBE` the part of it that comes from the query, and for a wildcard that is not the end
of the query the character behind it and what lies behind its copy, any of `Stray`. `null` is arithmetic on a NULL
pointer that leads to an access through it.

## Runs

| Run | Expected | Question |
|---|---|---|
| `table` | pass | counter, slots, registration and ownership; does the table implement `ConnectionLifetime`; does the main thread always return to `accept()` |
| `table_holes` | violation | does the scan look at registered connections only, as its comment says |
| `table_starvation` | violation | is a finished connection released when scans keep happening, as its comment says |
| `session` | pass | one fitting answer per request, in order; does a session implement `RequestReply`; clean hand-over of the buffer; is every block accounted for; can client and worker wait for each other; for what does the server end; is a waiting client answered and does `COM_QUIT` end the worker |
| `session_info` | violation | is a call that succeeded with information reported as a success, as a comment says |
| `framing` | pass | do the counting and the copying loop agree, and does the peer get the message, around every boundary of a packet |
| `serializer` | pass | does every sequence of calls stay inside the buffer, grow it only as needed, and implement `OutputStream` |
| `auth_packet` | pass | which cut packets pass for whole ones, and are whole ones read back |
| `auth_database` | violation | is the name of the database what follows the scramble, as the comments say |
| `utf8` | pass | is every code point decoded, and when does a conversion return, overrun its array or end without a terminator |
| `query_text` | pass | which queries with a `LIMIT` become the query they stand for, which are rejected, which overrun an array, and do all scans end inside the text |
| `query_wildcard` | violation | is what `SHOW TABLES` inserts the wildcard, as a comment says |

**Bounds.** Four connections and growth by two make the array grow twice, have
slots released before, between and after live ones, and be reused; `table_holes`
and `table_starvation` keep the code's growth of ten. `MaxOrphans` is 1 because
one connection that is never done is enough to block a slot for ever. There is no
symmetry, because `table` checks temporal properties. In `Session`, three commands
with two in flight are what it takes for one command to leave something behind that a
second inherits while a third is waiting; the packet IDs 0 and 255 are the first of a
command and the one after which the number wraps; the four native codes are one of
each sort (no code, success, known error, unknown error), and outcomes have one or
two records.

`SendFraming` has packets of 258 bytes and at most three of them, so that a size takes
two bytes of its header; the sizes lie on and on both sides of each multiple of 258, on
both sides of the carry into the second byte, and beyond what is accepted. The third
byte of the header is out of TLC's reach, and covered by the proof (`HeaderRoundTrip`).
`Serializer` has pages of eight bytes and one value on each side of every change of
form of a length-coded binary; a call is made as long as fewer than `MaxCursor`, nine,
bytes are written, so that the buffer is moved at least twice and holds the longest
encoding. What the callers of today send is shorter than a hundred bytes: it takes one
packet and one growth of the buffer, and the second packet, the limit of 256 and the second
growth are what `fxmy_conn.c` and `fxmy_write.c` are written for and no answer needs yet.

`AuthPacket` has scrambles of 0, 3 and 250 bytes, and of 251, 253 and 300, whose length
takes three; every packet is cut at every byte. `Utf8` has code points on both sides of
each change of length, in pairs and between two others, and texts that begin
in a character, end in one or hold a zero, also behind a lead byte. `QueryText` has
all texts of three words out of thirteen, with and without `SELECT` before them, and statements
with every combination of a body (lists, literals that hold a `LIMIT`, words that begin
or end like it), a number and a rest; `DescribeRoom` is 22 instead of 1024, so that what is cut
off a `DESCRIBE` decides which of two texts of the same length fits.

**Deadlock.** `serializer` checks for deadlock. The other runs set
`CHECK_DEADLOCK FALSE`: a server with no further client to accept, a worker that has
returned, a packet or a query that has been dealt with, and a process that has ended
all rightly stop.

**Fairness.** The main thread is weakly fair in `MainStep`, and workers in
`WorkerReturn`: the scheduler runs a thread that can run. In `Session` the worker is
weakly fair, and so is a client's reading of what has been sent to it. Nothing
makes a client arrive, send, quit or hang up. A step of the worker includes its
ODBC calls, so the liveness properties assume that these return.

**What the violations show.**
- `table_holes`: with three connections, the first two finish and are released by
  the scan for a fourth while a hole stays below the counter; the following scan
  reads `done` through NULL (`windows/main_win.c` 79-82).
- `table_starvation`: the bound of the loop is decremented in the loop, so a
  finished connection at an index not below the new count is skipped for ever.
- `auth_database`: the name is taken from `buffer->memory`, where the client flags
  are, not from the cursor that was moved behind the scramble (`fxmy_main.c` 201).
- `session_info`: the status of a call that returned `SQL_SUCCESS_WITH_INFO` is set to
  success only after every record was looked up in the table (`fxmy_main.c` 118), and a code
  that the table does not have is a `__debugbreak()`.
- `query_wildcard`: the size of the copy counts one character behind the wildcard
  (`fxmy_query.c` 172), which is the terminator only at the end of the query.

Three more places where the code and a comment differ are in the models, but no run is
about them, because a property would only repeat a definition: `column_count_error_code` is
never set to `FXMY_ERROR`, so that the branch for errors of `fxmy_send_result` (`fxmy_main.c`
236-245) is never taken (`Layout`); the number of a packet received is not validated
(`fxmy_conn.c` 96-101), but taken over (`Recv`); and a `LIMIT` without a number is not an error
of `fxmy_rearrange_limit` (`fxmy_query.c` 389-392), which goes on to arithmetic with a NULL
pointer (`RearrangeNull`).

**What the passing runs say about the code's limits.** Several properties say
exactly when something goes wrong, so that they hold and yet describe a limit of the
program:
- `SelectLimitBecomesTop`: a `LIMIT` becomes a `TOP` if and only if there is a number, one
  blank before it, and no earlier token that is a prefix of `LIMIT`, since a token is compared
  to a keyword by its own length (`fxmy_query.c` 281).
- `OverrunsOnlyWithoutRoom`: a `DESCRIBE` overruns the array of `fxmy_describe` only if it is
  longer than what `sp_columns` leaves of it, and the rewriting of a `LIMIT` overruns the text
  only if `LIMIT` and what separates it from its number are shorter than `TOP` and its blank.
- `EndsOnItsOwnAccount`: one client ends the server for all. What ends it is a packet that is
  hopeless by itself, what SQL Server gave for a packet that asks it something, a packet that
  arrives in pieces, or a lost connection; a harmless request of a client that stays never
  does once it has been received, whatever came before it.
- `ReadsBack`: the length of a scramble is read back only if it takes one byte; of the
  longer ones the cursor ends in the right place only for 253.
- `OverrunsAtZeroOnly`, `ReturnsPastSwallowedZero`: a zero among the bytes of a text is
  never passed, so that the conversion of the database name, whose terminator is one
  of its bytes, does not return on a well-formed name.
- `HeapAccounted`: a session has one wide query too many for every query that returned early,
  and at most one statement handle for each; when its worker has exited it still has the packet
  that held `COM_QUIT` and the name of the database, which are lost with `conn`
  (`windows/main_win.c` 85).

And some say less than their names may suggest. `Answered` excuses the end of the process, so
it says nothing about a `recv()` that returns less than a packet; that is `ShortRead`, and
`EndsOnItsOwnAccount` is about it. `OutputStream` lets a step append the encoding of any call,
so `ImplementsStream` says that what is there stays and what comes is one whole encoding; which one
is the definition of the action. `SelectLimitBecomesTop` is about statements: `SelectsAssumption`
leaves out texts that hold `SET NAMES`, `DESCRIBE` or `SHOW TABLES`, in a literal too, because
`fxmy_handle_query` takes those for requests of these kinds.

## Proofs

`ConnectionTable_proofs` holds for every set `Conns`, every `ALLOCATION_DELTA`
above zero and every `MaxOrphans`, from `ConnectionTableAssumption` alone. The
safety invariants are not inductive by themselves, for three reasons, and `IInv`
adds what is missing:
- a release must know that the slot being waited for holds a finished connection
  (`WaitOK`, `DoneOK`) and that its handle is that connection's own thread
  (`PairsOK`), or `WorkerOwnsMemory` could break;
- an insertion must know that there is room (`RoomOK`), which the growth step
  establishes because `CountExact` makes a full count mean a full array
  (`FullTable`), so that the `memset` clears exactly the new slots;
- registration needs `new` to be empty exactly when the main thread is in `accept()`
  (`NewOK`).

`InvInit` and `InvNext` (one lemma per action) give `Invariance`; `TypeCorrect`,
`CountIsExact`, `InsertNeverFails`, `NoneLostNoneTwice` and `WorkerMemorySafe` follow, and
so does `WaitsForNoClient`, the safety side of `ReturnsToAccept`: the handle that is waited
for is that of the worker whose `done` was read.
`Refinement` shows that `Spec` implements `ConnectionLifetime`: `Accept` maps to
`Admit`, `Insert` to `Register`, `WorkerReturn` to `Finish`, `ReleaseSlot` to `Release`,
a crash to `Stop`, everything else to a stutter. TLC checked `IInv` as an invariant
before it was proved.

`Session_proofs` holds for every set of packet IDs (`Ids`, within a byte) and of native
codes, and for any `MaxCommands` and `MaxPipeline`, from `SessionAssumption`. Its
`IInv` joins three of the invariants that TLC checks with three more facts: `NoEcho`,
that no request is sent back as its answer (theorem `NothingEchoed`); `NumberOK`, that the packet number is at most 256 while an answer is prepared, so
that it stays typed when an answer advances it; and `AuthOutstanding`, that
authentication is outstanding until its answer is read, so that the client's queue
is never shortened when empty. Two lemmas carry the proof. `HandlerInv` says what a
handler owes after `Recv`: typed values, the process ended or the worker handed
over, and no answer from SQL Server without a connection; each handler's lemma shows
just that. `SendInv` says that sending from an empty buffer preserves everything;
that the buffer is empty there is `BufferHandOff` for the handshake, and
`fxmy_reset_xfer_buffer` for every answer. `AnswersNeedDatabase` is the one with an
unexpected argument: no handler tests for a connection, but a statement on an
unconnected handle has no status (`NoHandleNoStatus`), and a NULL status ends the
process before it can be answered. `StatusType` shows that the cases the handlers
distinguish (success, error, none) are all there are, so no outcome is lost.

A second invariant, `OInv`, is about the order of answers. `Lined` says that the answers
on their way, the packet in hand and the requests not received yet are, one behind the
other, what the client waits for; `StatusFits` and `NumberFollows` that the status and
the number an answer is about to be given belong to the packet in hand; `QuitLast` that
nothing follows a `COM_QUIT`; `Phases` ties the phases of worker and client. It gives
`AnsweredInOrder` and the refinement `SessionKeepsPromise`: `ClientAuth` and
`ClientCommand` map to `Ask`, the answers to `Answer`, `ClientReads` to `Read`,
`ClientCloses` to `Leave`, the end of the process to `Stop`, all else to a stutter.

`HeapIsAccounted` rests on `HInv`: the count of every sort of block is what a ledger of the state
(`Ledger`) says, that no database is named before authentication is handled, and that the statement
handles kept are no more than the wide queries lost and over a connection. `EarlyAppend` and
`EarlyTail` count the queries of `EarlyKinds` on their way as they are sent and taken up;
`HandlerHeap` is what each handler owes: what it got and freed comes to one wide query for
an early return, to the new name less the old one, and to nothing otherwise; answers, which
free the packet in hand, send a packet and free it, come to the packet in hand
because of `BufferHandOff`.

Two more invariants rest on these. `Ends` is what the two ends owe each other: a client that
was not greeted is about to be, a `COM_QUIT` is on its way until the worker takes it up, and
a worker that has taken it up has left nothing behind it. With it, `Lined` becomes
`NobodyWaitsForNobody`, the safety side of `Answered` and `QuitFinishes`: if a client waits
and nothing is on its way to it, then counting the places of its requests leaves one in the
worker's hands or on its way to a worker that is receiving. `Accounts` is what each end of the process, a failed `VERIFY`, an `abort()` and an access violation
included, has to do with the packet in hand, and adds that an answer without a status
is that of an `INIT_DB` (`StatusMissing`): every other handler sets one or finds the `FXMY_OK`
of `fxmy_reset_transient_state`, which is `StatusFits`. `QuitInHand` says that a worker that
closes holds the `COM_QUIT`, to which a failing disconnect is then due. That is
`ServerEndsForACause`.

`SendFraming_proofs` holds for every `MaxPacket` that a header can express, every
`MaxPackets`, and messages of every size, from `SendFramingAssumption`; with the code's
16777215 and 256 it is about the program itself. `Start(j)` and `Address(j)` are where
packet `j` begins in the message and in the buffer. `IInv` says that the counting loop
has counted so many packets that the last one is needed (`NotOver`) and, at its end,
that they suffice (`Enough`), hence `alloc_size` is the address after the last packet;
that the copying loop is at `Start(i)` and `Address(i)` at once (`BufferInv`); that the
packets before `i` hold a header with their size and the bytes of the message in their
places (`Laid`); and that the peer is between two packets with all of the message up to
there (`PeerInv`). `HeaderRoundTrip` shows that three bytes give the size back, and
`AddressIncreases` that writing packet `i` disturbs none before it. The three properties
of the run follow, and `FramingExact`: the two loops end together, at the end of the message
and of the buffer.

`Serializer_proofs` holds for every page size, every set of numbers and strings, and
any number of calls, from `SerializerAssumption`. The two state properties together are
inductive: `EnsureRoom` shows that the request fits after `fxmy_ensure_buffer_room`
and that a buffer that did not move had no more than the request to spare, and
`EnsureContents` that the bytes already written survive. `SerializeAppends` is the step
common to all functions; the lemmas `U8Type` to `StringType` show that an encoding is
never longer than the room its function asked for. `SerializerRefinement` is the
implementation of `OutputStream`: every call is a `Write` of its encoding, `Reset` a `Clear`.

`AuthPacket_proofs` holds for every set of packets that a client can write
(`AuthPacketAssumption`) and every `Stray`. The lemmas on layout say where the fields of
`Bytes(packet)` begin; the `IInv` says that `memory` holds a prefix of them (`Received`),
that the cursor is at the field that `pc` names as long as no end was passed (`Place`), and
that the values read from a whole packet are those written (`ReadSoFar`).
`AcceptsWhole` rests on the order of the tests: the read that comes after the unverified
skips is verified.

`Utf8_proofs` holds for all texts. `IInv` has what the positions owe to each other:
as long as no zero was come to, `i` is at most `src`, and `dest` has room for both
(`Follows`); what was not written is zero (`Unwritten`), which is where the terminator of
a result comes from; a zero before `src` was swallowed by a lead byte at most two places before it
(`Swallowed`); and the array is one place longer than the text, or the text ends in a
zero (`Shape`). `DecodesEveryPoint` is arithmetic on the three forms of
`Encode`.

`QueryText_proofs` holds for every query over every set of characters
(`QueryTextAssumption`), not only for texts made of the words that TLC is given. `LeastIs`,
from the well-foundedness of `<`, gives the tokenizer's loops a result; `NextTokenIn` is
what the rest needs of it: a token lies in the text, has a character, and does not begin
before the position it was looked for at. `IInv` adds that the text is as received until the
last step (`Untouched`), that the token behind `SELECT` does not lie behind the `LIMIT`
(`Ordered`), and that the scan passes no `LIMIT` that is a word before the first quote
(`Passed`, by `WordFound`). `RearrangedSends` puts the result of the three moves
together part by part (`PartsAre`, `Extends`), and shows that they fit: what `TOP` and the blank behind
the number take is what `LIMIT` and the blank before the number gave. `OverrunsWithoutRoom`
is the converse: with that much room, no position beyond the array is written.

`LimitBecomesTop` is about statements of which the tokens are known (`MadeOf`,
`SelectsAssumption`), of any number and length. The scan is followed from token to token by a
third invariant, `StatementScan`: while it runs (`Scanning`), the position is behind a token of
the body, none of those before it was taken for `LIMIT`, and the place behind `SELECT` is
known once passed; when it has ended (`Located`), what was found is either the `LIMIT` of the
statement or a token that abbreviates it. A token is determined by where it begins, which is why
the tokenizer finds the same ones (literals by the quote that closes them, words by the next
separator). `PlainSends` then puts what is sent for a plain statement together, and
`SendsPlain` shows that for any other one the text that is sent differs from the `TOP`
statement in length or at a place that can be named.

Only model-checked: liveness (`ReturnsToAccept`, `Answered`, `QuitFinishes`), which
needs fairness and `ENABLED`. What each of them would be lost by, a wait for a thread
that serves, a request taken up without an answer, a `COM_QUIT` that is answered, is excluded by
`WaitsForNoClient` and `NobodyWaitsForNobody`. Every other property of a passing run is also
a theorem.

## Seeded faults

Definitions named `X_Something`, with the comment "seeded fault", are plausible
mistakes in the code that `X` models. Each property of a passing run is violated
when `X` is replaced by one of them (`mutants` in `PROJECT.json`).

## Not modelled

- *Logging* (`fxmy_core.c`): output only; nothing reads it back.
- *Start-up* (`windows/main_win.c` 27-49 and the parts of `main` before the loop):
  options, the status table and the listening socket, each set up once.
- *Linux prototype* (`main.c`): cannot be compiled, see above.
- *Unit tests* (`fauxmy_test/`): read as statements about the program, not modelled as a part of it.
- *Functions without a caller in the server*: `fxmy_read_lcs`, `fxmy_read_string`,
  `fxmy_fstrlenfromchar`, and the variants of the tokenizer for `char`, which share the
  bodies of the wide ones.
- *The composition of the table with many sessions*: what sessions share is the end of the
  process and the heap. The first is in `ConnectionTable` (`WorkerAborts`, at any
  moment of any worker); of the second each session has its own blocks (`HeapAccounted`).
- *The counter of blocks* (`num_allocations` of `fxmy_mem.c`): the unit tests compare it
  before and after a test, the server does not read it. The blocks themselves are in
  `Session`, and what `fxmy_realloc` does to them in `ConnectionTable` and `Serializer`.
