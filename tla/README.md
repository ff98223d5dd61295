# koloshmet_lib in TLA+

A verification project for koloshmet_lib, a C++20 utility library over POSIX: TLA+
modules translated from the code under `src/lib`, TLC configurations that check them
on small instances, and theorems that TLAPS checks for every value of the constants.
The library has no documentation and no tests besides a few comments and the texts
of its exceptions, so the code is the reference.

## Inventory

The parts that carry state over time come first; the pure ones follow.

**Socket pool** (`posix/net/socket_pool.*`). State: a map from a socket's `Id` to
the socket and the event it waits for, a pipe, the vector `PollFds` that is kept
between calls, a shared mutex. Operations: the constructor, `Add`, `Set`, `Remove`
(each under the unique lock) and `Get` (shared lock, `poll` without the lock, shared
lock again). `Add` wakes a sleeping `Get` by a byte in the pipe. Hard: the list is
stale after `poll`, wake-ups are bytes in a pipe with a stream buffer at one end and
a bounded kernel buffer at the other, `Add` writes with the lock held, numbers of
closed descriptors come back, results are references into the map. Correct when no
added socket sleeps unnoticed, what `Get` returns is about the right socket and
still alive, and map and sockets agree.

**Sockets** (`posix/net/socket.*`). `TConnectedSocket` is a stream with an address
and the descriptor number it was created with (`Id`). Operations: creation from
`accept` or `Connect`, `Reconnect`, moves, destruction (`shutdown(Id)`, then the
stream flushes and closes). Hard: `Id` outlives the descriptor after `Close`, the
shutdown comes before the flush. Correct when a socket acts on its own connection
only and loses no output.

**File descriptor streams** (`posix/file_descriptor/fd_stream.h`). State: a buffer,
the pointers of its get and put areas, a shared descriptor; the bidirectional stream
uses one memory for both areas. Operations: `underflow`, `overflow`, `sync`, `Open`,
`Close`, moves, and everything iostreams build on them. Hard: short writes, failed
calls (`-1` becomes a large `size_t`), two areas in one memory, moves. Correct when
both directions deliver every byte once, in order.

**Unique and shared descriptors** (`unique_fd.h`, `shared_fd.h`), **system call
wrappers** (`syscalls.*`). State: a number, or a counted reference to it.
Operations: moves, `Release`, `Reset`, `Close`, `Pipe`, `PtMasterSlave`. Correct
when every descriptor is closed exactly once.

**Subprocess** (`posix/subprocess/subprocess.*`). State: `ChildPid`, three optional
streams, prepared arguments. Operations: the constructors (`ForkExec`), `Wait`,
`Kill`, moves, the destructor. Hard: the kernel reuses process numbers, `Wait` keeps
the number, `Kill` forgets it, `operator=` is `noexcept` and calls `Kill`,
exceptions between `fork` and `exec` are thrown in the child, and the communication
modes share bits. Correct when a running child always has exactly one handle and a
handle acts on its own child only.

**Server**, **client** (`posix/net/server.*`, `client.*`), **stop token** (`async`).
State: a listening socket (and a path in the file system for a UNIX one), a replier,
an atomic flag. The server accepts and hands each connection to the replier until it
returns false or the flag is set. Hard: the flag is read between two blocking calls,
a crash leaves the path. Correct when a stop is noticed and a restart can bind.

**HTTP messages** (`net/http`), **slices** (`util/container/slice.h`): writers and
readers of texts that may break off at any byte. Correct when what a reader accepts
is what was written and a splitting is the pieces between the delimiters.

**Sorted array** (`util/container/sorted_array.h`). State: a vector and a comparator
of the caller's. Operations: construction from a range, `insert` and `emplace` (an
append and `SiftUp`), `find`, `Get`. Hard: the comparator may throw between two
swaps. Correct when the order and every entry outlive any insertions.

**URL coding** (`net/coding`), **tree values and JSON** (`util/tree_value`),
**command line options** (`util/opt`). Functions of texts, trees and arguments; a
tree is also built and taken apart by a program, and `TCommand` takes an argument
after the other. Hard: the sign of `char`, escapes cut short, an eight-bit nesting
level, holes in trees, an option that takes the next argument for its value. Correct
when what was encoded is decoded, and what was typed arrives.

**Memory helpers**, **exceptions**, **binary input and output**, **type lists**: no
behaviour of their own.

Interactions: server and client create sockets; a pool takes sockets over and owns
its pipe through two streams; a socket is a stream; a stream shares a descriptor; a
subprocess owns up to three streams. `PROJECT.json` lists every component with what
is modelled, and under "hazards" what is hard to test, each at its line.

## Plan

| Step | Modules | Abstract specification, properties | Theorems | State |
|------|---------|------------------------------------|----------|-------|
| 1 | SocketPool | wake-ups, snapshots, results, liveness | invariants for any sizes | done |
| 2 | ByteChannel, FdStream | two byte queues; FdStream implements them | refinement, order | done |
| 3 | Subprocess | handles and process numbers | all its safety properties | done |
| 4 | FdOwnership | each descriptor closed once, by its owner | all its safety properties | done |
| 5 | Server | a stop is noticed, an answer is not lost quietly, a path left behind is explained | all its safety properties | done |
| 6 | Slice, HttpMessage | what is accepted is what was written; splitting is exact | exact splitting of every text, reading back, the end of a connection | done |
| 7 | SortedArray, UrlCoding, CommandLine, JsonText | order and exact search; round trips, and exactly when they fail | all their safety properties | done |
| 8 | FdStream over several descriptors: Open, Reconnect, move assignment | each descriptor has its own bytes; still two byte queues | order and refinement across descriptors | done |
| 9 | FdStream when anything may fail | the positions and the count | TypeOK, OutputCounted | done |
| 10 | a subprocess with its streams: the pipes that later children inherit | a reader sees the end of file | its ownership | open |

Runs are kept for distinct questions: four for the pool, two each for the streams
and for subprocesses, one each for ownership, the server, the messages and the
sequential helpers.

## Modules

| Module | What it is |
|--------|------------|
| `SocketPool` | TSocketPool with its users, the kernel's descriptor table, `poll` and the pipe |
| `MCSocketPool` | symmetry and interests for TLC |
| `SocketPoolProofs` | the inductive invariants and six theorems |
| `ByteChannel` | what a stream promises: two queues of bytes |
| `FdStream` | the three stream buffers, down to the pointers |
| `MCFdStream` | the state constraint of the run with failures |
| `FdStreamProofs` | order and refinement over descriptors that do not fail, positions and count when everything may fail, for every size |
| `Subprocess` | TSubprocess over a process table that reuses numbers |
| `MCSubprocess` | symmetry and modes for TLC |
| `SubprocessProofs` | the inductive invariant and six theorems |
| `FdOwnership` | TUniqueFd, TSharedFd, `Pipe` and `PtMasterSlave` over the kernel's descriptor table |
| `MCFdOwnership` | symmetry and numbers for TLC |
| `FdOwnershipProofs` | the inductive invariant and five theorems |
| `Server` | TServer's life and accept loop, stop tokens, the UNIX path, TClient |
| `MCServer` | the threads of each server for TLC |
| `ServerProofs` | the inductive invariant and four theorems |
| `Slice` | TSlice and Split, and the definition of a splitting |
| `HttpMessage` | writing and reading HTTP messages on a connection |
| `MCHttpMessage` | the messages for TLC |
| `SortedArray` | TSortedArray, swap by swap and halving by halving |
| `UrlCoding` | UrlEncode and UrlDecode over bytes |
| `CommandLine` | TOptions and TCommand, argument by argument |
| `JsonText` | TTreeValue, and the JSON it is written to and built from |
| `MCUtilities` | the four of them one beside the other, with their inputs |
| `SequentialProofs` | two theorems about splitting and the induction they rest on; the inductive invariants of messages, sorted array, command line and URL coding, and nine theorems |
| `JsonWriterProofs` | trees, and the half of the JSON text's invariant that is about writing it |
| `JsonTextProofs` | the half about reading it, and three theorems |

Operators whose comment begins with "Fault:" are altered copies of the operator that
follows them, with a mistake one could make in that code. No specification uses
them: substituted for the original they make the property they are listed with in
`PROJECT.json` fail, which shows that the property depends on that line.

### SocketPool

`stage`, `id`, `descriptor`, `ready` and `shut` are the connection objects and the
kernel; `Sockets`, `writer` (the lock), `pipe`, `buffered`, `pollCap`, `PollFds`,
`wake`, `pc` are the pool; `results` is what `Get` returned. Each locked section is
one action, because the mutex makes it one, except that `Add` writes its byte inside
the section and may block there: `AddInsert` (or `AddCollides`) leaves `writer`
holding the lock until `AddWake`. `Get` is `Fill`, then `PollReturn`, `PollTimeout`
or `PollFail`, then `Collect` or `CollectThrows`. Several wake-up bytes are read
into the stream's buffer at once (`ReadCommand`), one character is used per Get.
Peers and handlers are the environment. One thread polls: the mutable `PollFds`
allows no more, since `Get` changes it under a shared lock or none. `PollFds` is a
set since the order of entries decides nothing but which entry makes `at` throw
first; the list built before the exception is lost with it.

### FdStream and ByteChannel

Pointers are offsets. A behaviour is that of an input stream beside an output
stream, or, where `shared` holds, that of one `TBasicFdStreamBuf`, for which
`Stored` writes both areas. `read` and `write` take any number of bytes they may. A
failed read moves `egptr` below the buffer and a failed write moves `pptr` forward,
as the code's conversion to `size_t` does. `TakeFirst` is the `char` that
`underflow` returns: a byte of `LikeEof` is taken for the end and stays where it is,
and `Clear` is the program that clears the state and reads on. `good` is kept per
area, since the two areas of a `TFdStream` fail together and those of two streams do
not.

`Open`, `Reconnect` and `MoveAssign` turn the stream to a new descriptor; `opened`
remembers what the descriptors before it brought and were given, so that
`EachItsOwn` can tell whose a byte is and `OutputCounted` counts for the present
one. `Open` flushes a put area before it (unless the stream is not good) and keeps
the get area, `Reconnect` keeps both, `MoveAssign` replaces both.

`ByteChannel` has no buffers: `FdStream`'s variables `written`, `delivered`,
`arrived` and `consumed` are its own, so the refinement mapping is by name and its
difficulty is in the invariant about the memory. Its `Replace` is what a new
descriptor does to the two queues: the bytes of the old peer that are still on their
way are lost, and what the program put goes to one of the two descriptors.

### Subprocess

`ChildPid` and `alive` are the program's; `table`, `state` and `mode` are the
kernel's; `mine` and `stale` are history. `SIGKILL` makes a zombie at once. `fork`
may return any free number. A mode is the set of its bits, so that the overlap of
`In = 1` and `InPt = 3`, and the lack of a common bit of `In` and `Pt = 42`, are in
the model. A failing `PtMasterSlave`, `pipe` or `fork` leaves neither an object nor
a child and is not an action.

### FdOwnership

`Fd` is the number in each object, `ptr` the cell behind each `TSharedFd` (a
`shared_ptr` to a heap `TUniqueFd`; its use count is the number of handles that
point at it), `raw` the numbers `Release` gave to the program. `table` is the
kernel's, which gives the lowest free number; `mine` remembers which file a number
stood for when an object got it, so that the properties can tell a file from another
one that got its number. `Close` (`Closes`, `CloseReturns`, `CloseThrows`) is part
of the operation that calls it, and each caller says where its error goes: out of
`Reset` (`ResetThrows`, before the assignment), into `std::terminate`
(`MoveAssignTerminates`), or into the destructor's `catch` (`CloseQuietly`). A close
that reports an error has freed the number, as on Linux. Programs keep the rule of
the class: they wrap numbers they got from `Release`, once.

### Server

Each server is a process: it binds `path`, its threads (`Home`) run `Check`,
`Accept`, `Read`, `Flush`, `Reply`, where `Read` and `Flush` stand for a handler
that takes one request and writes one answer, and `Reply` for the end of the
replier, with which the connection dies. `~TConnectedSocket` shuts the connection
down before the base class flushes the buffer, and nothing in the library changes
what SIGPIPE does, so an answer that was not flushed ends the process (`Breaks`).
`Release` and `CloseSocket` are the two halves of `~TServer`. A client connects,
sends, waits, and may vanish. `late` records who was accepted after the stop.

### Slice and HttpMessage

A text is a sequence of symbols (`Texts`); a word, a name, a status code or a number
is one symbol, since the code looks at no character within them. `Decimals` are the
symbols of 0, 1 and so on up to a bound, longer than any body a program writes
(`MessageAssumption`). The loops are recursive functions of the number of their turns:
`Iterator` gives where TSlice's iterator is after each step, `HeaderLoop` the reader
after each turn of `ReadHeaders`; a turn after the end changes nothing. `Reading` is one
`operator>>`: `ReadStart`, `ReadHeaders` and `ReadBody` over a record of the object,
the text left, whether its end was reached and the state of the stream, with the
`getline` that takes the end for the end of a line and the body that `resize` fills
with zeros. A read that reaches the end of what has arrived blocks unless the
connection is over (`r.end => over`). A program reads into a new object each time or
into one (`reuse`), which `operator>>` does not clear. `Write` writes the headers in
any order, as the `unordered_map` may. A response whose status was never set, which
the class leaves uninitialised, is not written.

### SortedArray

An entry is its key and the number of its insertion, so that entries with the same
key can be told apart. An insertion is `Insert`, then `SwapDown` for each swap of
`SiftUp` and `SiftEnds`, or `SiftThrows` where the comparator throws; a search is
`FindBegins`, `Halve` for each comparison of `lower_bound`, and `FindEnds`, where
`Hit` is what `find` tests. One caller uses the array, so that the steps of one call
are followed by no other call's. The constructors from a range use `std::sort`,
which is not stable: entries with the same key keep no order, which the entries'
number 0 says.

### UrlCoding

A character is its byte; `signedChar` is the sign of plain `char` in the build.
`EncodeChar` pads a number to two digits and cuts none, `HexNumbers` is what `>>
hex` reads from the two characters after a percent sign, including nothing, when the
number stays uninitialised (`Junk`). `UrlDecode` gets the encoded text or any
beginning of it, and `index` is where its loop is: `DecodeEscape` and `DecodeChar`
are the two branches of one turn, `DecodeEnds` the return.

### CommandLine

An argument is the sequence of its parts (`<<"--", "name", "=", "v">>`). `Choose` is
the constructor of TOptions, `PlainArg` and `OptionArg` are the two branches of
`InsertArgs`' loop, `Finish` is `Init`. `verdict` tells what became of the program,
with the reason of each `exit(1)`. A string is `<<>>` or one word, since the code
tests only whether it is empty; a number is read by `FromString`, where an `int`
that is no number is 0 and a `float` that is none throws. `Roles` says what each
argument is for without the loop, as a reference. `CommandAssumption` says that the
parameters of a command have types of `TElementTypes`. A lone "-" ends the program
from `arg.substr(2)`, before any option is looked up.

### JsonText

A tree is a function from the paths of its values to their kinds and characters: a
path is the sequence of indices and labels that lead to a value. A text is a sequence
of characters where one blank stands for any layout. A number is named by its
characters, a double by all its decimals; `Rounded` gives for those with more than
`std::to_string` prints what it prints of them (`Printed`), which is what the reader
finds, and `Words` are the infinities and NaNs. ToString and BuildJsonHelper
call themselves; `calls` is their stack, and a step is a turn of one of their loops.
`Write` is `operator<<`, which may follow layout in the file; `WriteItem` and
`WriteClose` are the loop over an array or a dictionary, with `Pretty` as a number
that goes up to `Highest` and wraps round to `Lowest`, and `IndentEnds` saying whether
the loops that indent do. Of the reader, `Enter` is what BuildJsonHelper makes of a
part of the text, `ScanOn` a turn of `FindChar` with its stack of brackets, and
`ItemFound`, `EntryFound`, `LabelFound`, `DotSought` and `Leave` are where it goes on
when `FindChar`, or the call for a value inside, has returned; iterators are
positions, and `NextChar` and `PrevChar` take the one step they always take. For the
empty text of an undefined tree `BuildJson` asks for the byte before it: `LastChars`
has both outcomes, that it looks like a blank and that it does not.

Two variables are history: `nest`, the brackets open after each character, and
`span`, where each value of the tree is in the text. No guard depends on what the
code does not know: `WriteItem` takes a value that has no place yet, which is what
the loop's own iterator says.

A program has trees in `Holders`, changes them by assignment, Push, `operator[]`,
copies and moves of trees and of entries (`TakeOut`), writes one and reads the text
back; a copy of a tree with an undefined one inside follows a null pointer (`step =
"null"`), while an assignment that copies asks whether the whole tree is undefined
first (`Whole`). A tree may be stored in itself: by the time of the assignment `x[l]`
is there and undefined, so that a copy follows null and a move loses the tree. An
entry that is moved into another variable leaves an undefined one behind. `careful`
says that the program has done none of this: it has stored no undefined tree and no
tree in itself, assigned to every entry it made, moved entries only into the variable
that had them, and read only texts of trees that come back without a hole
(`Storable`).

`MCUtilities` puts these four beside each other: a behaviour uses one of them, so
its states add up and do not multiply.

## Runs

| Run | Instance | Checks |
|-----|----------|--------|
| `pool_open` | 3 connections, 3 numbers, a worker that adds and removes, handlers that close by reference, capacity 0, pipe of 2 | NoLostWakeup, OneHome, WedgeIsForever |
| `pool_disciplined` | 3 connections on 2 numbers, a worker that adds and sets, removal by the poller, pipe of 3 | SnapshotValid, ResultsHold, IdsExclusive |
| `pool_live` | 2 connections, 2 numbers, infinite timeout, fairness | AddedIsPolled, ReadyIsReported, WakeupsQuiesce |
| `pool_capacity` | 3 connections, capacity 1 | PoolWithinCapacity is violated |
| `stream_channel` | buffer of 3, 6 bytes each way, 2 of them like the end, 3 descriptors, two buffers or one memory, no failures | InputInOrder, OutputInOrder, EachItsOwn, ImplementsChannel |
| `stream_faulty` | buffer of 2, 1 byte in, 3 out, 2 descriptors, short and failed calls, moves, no discipline | TypeOK, OutputCounted |
| `subprocess_life` | 2 objects, 2 numbers, 3 children | NoLostChild, HandleOwns, TerminalsOnly, TerminatesOnlyStale, AbandonedStays |
| `subprocess_not_run` | the same | NotRunMeansNotRun is violated |
| `fd_ownership` | 2 unique objects, 2 shared handles, 3 cells, numbers 0 to 2, 4 files | OwnedOnce, NothingLost, FailureExplained, SharedStaysOpen |
| `server_stop` | 2 servers on one path, 2 threads in the first, 2 clients, a backlog of 2, fairness | StopBound, PathExplained, LostAnswerBlocksPath, StopNoticed, ClientsTold |
| `http_stream` | up to 3 of 5 requests or 4 responses, a connection that ends or breaks at any byte, new objects or one | AcceptedIsWritten, EndIsClean, SplitIsExact |
| `utilities` | arrays of up to 4 entries with 3 keys and a comparator that throws; texts of up to 3 bytes of an unreserved, a percent sign, a control character and one from 128 on; up to 4 of 12 arguments to 2 commands; trees of up to 4 values in 2 variables (true, 1, -1, a NaN, a double of two decimals of which one is printed), a tree written while the other is undefined, levels of 3 bits, 2 blanks a level, depths up to 7 | InOrder, SearchIsExact, NothingForgotten; DecodesWhatItEncoded; VerdictExplained; RoundTrip, DepthLimits, CrashNeedsAHole |

Some of these are conjunctions whose parts are definitions of their own:
`HandleOwns` is `OwnsUntilWait` and `OneHandle`, `OwnedOnce` is `HoldsOwn` and
`OneHolder`, `FailureExplained` is `ForeignCloseNeedsThrow` and `ErrorsComeFromClose`,
and what `DecodesWhatItEncoded`, `VerdictExplained` and `RoundTrip` consist of stands
above them. The type invariants of the pool, the descriptors and the servers, and
`PoolBounded`, are in no run: they are proved.

Why the bounds are enough. Three connections on two or three numbers are the least
with one pooled, one closed whose number comes back, and one that gets it; a pipe of
two bytes and a stream buffer of two are the least where the stream reads ahead and
where the pipe fills; capacity 0 lets the check of `Add` refuse. A buffer of three
has a place for `overflow`, one that is full and one that is not, and the streams
are longer than the buffer, so that the memory is used again; a third descriptor may
find bytes of the first and of the second. Where everything may fail a buffer of
two, the least the class can have, keeps the run small; its proofs are for every
size. Two process numbers for three children make the kernel reuse one. Three
descriptor numbers, one of them the 0 that is never closed, are fewer than the four
files, so that a number left in an object by a failing `Reset` comes to stand for
another owner's file; a third cell is there when both handles are replaced. Two
servers are the one that leaves a path and the one that finds it; two threads race
for the two clients. Three messages are one before and one after a message that
loses its frame or leaves headers in a reused object; they include a body that looks
like the end of the headers, an empty value, a value with a delimiter in it, a body
without a length, and descriptions of no, one and two words. Four entries let one
pass equal and lesser ones and stop; three bytes put an escape before, between and
after others; four arguments are two options with values, or options between
parameters. A level of three bits has its wrap at depths that trees of one variable
reach, as eight bits have at 128 and, for the counter of the blanks, at 32. A tree
of four values has an array in a dictionary with a neighbour. While a tree is written
and read the other one does not matter, so there it is undefined (`MaxOthers` is 0).

Deadlock. `pool_disciplined` and `pool_live` check it: they have no more Adds than
the pipe has room for, so the pool cannot wedge there. `pool_open` does not: there a
full pipe really stops the pool, which `WedgeIsForever` states. A stream whose peer
is done, a program that was terminated, a server whose clients have gone, a reader
at the end of its connection, and a command line that is used up, really stop too.

Fairness (`LiveSpec`). In the pool, `Get` is called again after every `Get` and its
steps come to an end; a write to a pipe with room comes to an end. Nothing is
assumed of peers, workers or handlers. `ReadyIsReported` fails when another thread
calls `Set` and the timeout is infinite, since `Set` wakes nobody; with a finite
timeout it holds. In general the pool wedges when more Adds than the pipe has room
for come between two Gets, so the three properties say "or it is wedged"; in
`pool_live` that disjunct is never taken. In the server, threads run, repliers and
senders come to an end and a server whose loops are over is destroyed; `accept` need
not fail, and nobody has to connect, stop or crash. `StopNoticed` therefore ends in
"sleeps in `accept` with an empty backlog": the token alone wakes nobody.

What the violations show. The pool takes two sockets more than its capacity before
`Get` was called, and more later: `Add` compares with `PollFds.capacity()`, which
starts at `capacity + 1` and grows, and refuses only when the number is greater.
`Wait` says "The process has not been run" of a process that was run and killed; the
destructor calls `Kill` and then `Wait`, so it reaps nothing.

What else became visible while modelling, as the properties state it: a plain `In`,
`Out` or `Err` mode never creates a pipe and, unless another flag opens a terminal,
the child is not executed at all but runs on as a copy of the program
(`TerminalsOnly`); a killed child stays a zombie for good (`AbandonedStays`), and
this is also what keeps its number from being reused. A `Reset` that throws leaves
in the object a number that is free, and the object's destructor then closes
whatever file has it by then (`FailureExplained`); a terminal whose set-up
fails keeps its master open for good (`NothingLost`). An answer that a handler left
in the buffer ends the server process, and the path it leaves keeps it from being
started again (`LostAnswerBlocksPath`). A response whose description has two words,
such as "Not Found", is written and cannot be read (`Plain`); a reader that reuses
its object keeps the last Content-Length (`Overwritten`); and the clean end of a
connection is an exception in the next `operator>>` (`EndIsClean`).

A socket that reconnects sends what waits in its put area to the new peer, and a
stream that is opened again reads what the old descriptor left (`EachItsOwn` states
what remains true). Where `char` is signed, the byte 0xFF ends the input, and no
`clear` passes it: the next read meets the same byte (`InputInOrder` states that
nothing is lost). A negative `char` is encoded as four digits, of which two are
decoded (`DecodesWhatItEncoded`). Help is shown only to those who give all
parameters as well, an option with an empty string as its default must be given, and
"--v=false" sets `v` (`VerdictExplained`). In JSON, numbers of one digit, doubles
with more decimals than `std::to_string` prints and empty arrays are read as something
else (`AsRead`), a negative number, an infinity or a NaN makes the reader throw
(`Unreadable`), structure characters in a container's strings or labels and empty dictionaries
are not read back at all (`Legible`), output in trees deeper than the level's type
turns pretty or never ends (`DepthLimits`), and a copy of a tree with a hole, such as
one an entry was moved out of, crashes (`CrashNeedsAHole`). In a sorted array whose comparator threw during an insertion,
nothing is lost but the order (`NothingForgotten`).

## Proofs

`SocketPoolProofs`, for any numbers of threads, connections, descriptors and any
pipe and buffer size:

- `TypeCorrect` and `HomeAlways`: types and `OneHome` are inductive together
  (`HomeInv`), and every other invariant is proved beside `HomeInv`.
- `WakeupSafe`: `Fill` names every socket, an insertion leaves a writer behind, the
  writer leaves a byte, and bytes are consumed only after `poll` has returned.
- `SizeBounded` counts the keys: `AddInsert` adds one below the check, `Fill` grows
  the vector to what it holds. It rests on the library's facts about cardinalities.
- `WedgePermanent` is a fact of single steps: with a writer inside `Add` no locked
  section starts, and only `Collect`, which needs the lock, empties the pipe.
- `DisciplinedSafe` assumes `Disciplined` (only the poller removes, by `Remove`).
  Its invariant `DiscInv` adds that pooled sockets are open (so that the kernel
  gives their numbers to nobody), that a connection is polled once and reported
  once, and that no result survives into the next `Get`.

`FdStreamProofs`, for every buffer size, stream length, number of descriptors and
set of bytes that look like the end:

- `FaultlessOrder` assumes `Faultless`: whole writes, no failing call, no move after
  the first read, and of a `TFdStream` a program that turns round. The invariant
  adds to the two orders that a shared memory is used in one direction at a time
  (`OneDirection`) and what the descriptors before the present one were given and
  brought (`Turned`), so that `EachItsOwn` follows.
- `FaultlessImplements`: under the same assumption every step is a step of
  `ByteChannel` or leaves its variables alone.

In its second part, with no assumption on the program, the peer or the system calls:

- `PositionsBounded` (`TypeOK`) and `NoneDropped` (`OutputCounted`) are inductive
  together: the count needs to know that `pptr` is a position, and the range of
  `pptr` that a sync never starts from more than a full buffer.

`SubprocessProofs`, for any numbers of objects, children and process numbers:

- The invariant is a ledger (a child has one number and one object, an unborn child
  none, an object that does not exist neither) with `OwnsUntilWait` and
  `NoLostChild`. None of the two is inductive alone: a fork must find no object with
  the number it gives, and a kill must hit no other object's child, which the ledger
  rules out.
- `ChildNeverLost`, `HandlesOwn`, `ExecsOnTerminal` follow from
  it, `TerminationExplained` and `ZombiesStay` are about steps from a state with it.

`FdOwnershipProofs`, for any numbers of objects, handles, descriptors and files, and
a `close` that may fail at any time:

- The invariant is the conjunction of the properties: an object closes its own file
  because no other holder could have closed it (`HoldsOwn` needs `OneHolder`), and a
  number that is opened has no holder because holders' numbers are open (`OneHolder`
  needs `HoldsOwn`).
- What a `Close` does to the table, the history and the numbers of others is stated
  once (`Closing`, `CloseEffect`), for one object and for the cell a handle drops,
  and each operation is a step over it.
- `ClosedOnceByItsOwner`, `NoLeakButTheMaster`, `FailuresExplained` follow from it;
  `SharedKeptOpen` is about steps from a state with it.

`ServerProofs`, for any numbers of servers, threads and clients and any backlog:

- The invariant adds to the properties that a thread is in the loop of a server that
  listens (`Running`), that connections and answers belong to clients that connected
  to that server (`Belonging`), and that a thread that accepted after the stop does
  not come to accept again (`LateOnce`), from which `StopBounded` follows by a
  cardinality.
- `PathAlwaysExplained` and `LossNeverQuiet` need each other: the path of the server
  that a lost answer ended is bound again by nobody, because a server that has died
  never lets its path go.

`SequentialProofs`, in five parts. Of slices, for sequences over any set and every
delimiter that is not empty:

- `SplitExact`: Split is a splitting (`IsSplitting`). The iterator's invariant
  (`SplitInv`) is that the pieces it gave, joined, are what it has passed, but for the
  delimiter it stands behind.
- `SplitJoined`: Split gives back the pieces that were joined, but for an empty last
  one, which the iterator never sees. Of the pieces it asks more than that the
  delimiter does not occur in them: it must not begin in one and end in what follows
  (`Clean`), which for a delimiter of one element, or of two that differ, is the same
  as not to occur, or to occur nowhere and not to end with the first of the two.
- The library's induction theorems cannot be instantiated here, so `NatInduct` and
  `IntervalInduct` state induction with a set in the place of the predicate, proved
  from the least number that is not in it; `Recursion` gives the equations of a
  recursive function over an interval, from which follow those of `FlattenSeq`, the
  iterator and the loop of the headers.

Of the messages, for any symbols, messages of any length, any number of them, any order
of their headers and a connection that breaks at any byte. It assumes of the constants
what `MessageAssumption` says: the characters the code tests for are symbols, numbers
are written differently, the programs write messages with finitely many headers and a
status that `SetStatus` takes. The theorems are conditional where the properties are: on
messages that the format carries (`Plain`, `Framed`, `Overwritten`), which the header of
each property names and the run's messages both satisfy and break.

- `TypeCorrect`: types, and that every body that was read is as long as its own header
  says (`MeasuredInv`), without any condition on the messages. `SplitsExactly` follows
  from the types and `SplitExact`.
- `AcceptedAreWritten` and `EndsCleanly` need one invariant: what is not read yet is
  the texts of the messages that were written and not got, in order, up to where the
  connection broke (`InStep`), and a reused object holds the last message (`Kept`).
- Its step for `Read` follows the reader turn by turn. `WholeOrPart` says that what
  arrives of a line is all of it or its beginning with nothing behind;
  `StartTurnIs`, `HeaderTurnIs`, `BlankTurnIs` and `BodyCut` say for each that the
  reader has the part of the message, or is at the end of the text and cannot be
  "reading" again (`DeadStays`); `LoopTurn` puts the turns of the headers together
  by induction on their number, and `MessageRead` the whole message.

Of the sorted array, for any set of integers as
keys and any length:

- The invariant is what holds between two swaps: all entries but the one on its way
  are in order, and that one is less than all it passed (`Sifting`); a search knows
  that what is below its range is less than the key and what is behind it is not
  (`Searching`).
- `ArrayOrdered`, `SearchExact` and `NoneForgotten` follow; the last also after the
  comparator threw.

Of the command line, for any commands, any arguments and any readable numbers, under
`CommandAssumption`:

- The property speaks of a program that has all its arguments, the invariant of one
  that has taken some (`Inserted`): what `ParamsFit` and `OptionsFit` say of the first
  `next - 1` arguments, and that the next one is no option's value. `RolesForIs` gives
  the equations of the reference's roles, from `Recursion`; the count of parameters
  among the first arguments grows by one exactly where the loop appends
  (`ParamsToIs`).
- `EveryVerdictExplained` follows from what `Finish` makes of that (`AllTaken`,
  `HelpAsked`).

Of the URL coding, for texts of any length over bytes, either sign of `char`, any
limit and any content of the uninitialised number, under `UrlAssumption`:

- `CodesIntoUnit`: the code of a byte is one character that is no percent sign, or an
  escape and digits which the decoder leaves as they are.
- The invariant (`KeepsUp`) is that what is left of the coded text, together with what
  the limit took away, is such digits and the codes of the characters not decoded yet
  (`Ahead`), and that what was decoded, the digits and what those characters become
  are what the whole text becomes. An escape that is cut (`CutOff`) is the end of the
  text. `PlainTurn`, `EscapeTurn` and `EscapeCut` are the turns of the loop.
- `DecodedIsEncoded` follows from what the invariant says where nothing is left
  (`DecodedAtEnd`).

`JsonWriterProofs` and `JsonTextProofs`, of trees and their JSON text, for any number
of trees of any size, any characters of contents, labels and numbers, any width of
`Pretty` and any indent, under `JsonAssumption`:

- The invariant (`JsonSafe`) says of the program that its trees are trees (`Typed`)
  and that those of a careful one have no holes (`Careful`); of the writer, where the
  values placed so far are (`SpanOK`), in which order (`Order`, `Chain`, `Held`), what
  stands there (`Texts`), which loops are left (`Frames`), how deep the text is at each
  character (`Nests`) and at which level each loop writes (`Levels`). `Laid` is what
  remains of that when the text is all there. The first of the two modules is about
  the steps of the writer, which keep those conjuncts and end in `Laid`
  (`WriteStep`, `ItemStep`, `CloseStep`, `EndStep`).
- Of the reader it says what the properties cannot: that BuildJsonHelper, at any place
  of the text, has made of the tree exactly the values that begin before it, as they
  are read (`Cutoff`), that its calls wait for the values around that place (`Waits`),
  and that FindChar's stack is the brackets beyond the depth of the value whose end it
  looks for (`Beyond`). `CommaSought` is the heart: the comma or bracket it returns is
  the one behind that value, and none before.
- What a text of any length holds is put together by induction over its places
  (`Cutoff` grows by the one value that begins at each, `CutoffGrown`), not over the
  tree. `NumberSame`, `LabelSame` and `PartOf` say of numbers, labels and other values
  that what is cut out of the text is what was written there.
- `JsonRoundTrips`, `JsonDepths` and `JsonCrashes` follow: what reading makes of a text
  (`AsRead`) is what a careful program gets, so the third needs the first. Of the
  conversion of doubles the proofs use only what `JsonAssumption` says of `Rounded`:
  what is printed is a number, and is printed again as it is.

Every safety property that a run checks is thus a theorem. Only model-checked: the
liveness properties, since TLAPS has neither ENABLED nor fairness here, and the two
violations.

## Not modelled

- Two threads in `Get`: a data race on `PollFds` from its first step.
- A put after failed writes moved `pptr` past the buffer: the store would be outside
  the memory, and the behaviour ends there in the model.
- A write in `Add` that a signal interrupts: it returns -1, which the stream takes for
  success, so that `Add` goes on without a wake-up. The library installs no handler,
  and the default actions end or stop the program; a handler of the program's own
  without SA_RESTART is left out.
- Pooled references that other threads' removals leave dangling are not used by the
  model's handler; `ResultsHold` states when there are none.
- The search of an executable, argument and environment vectors, IP addresses, the
  timeout of `Connect`, the IP constructor of the server, name lookup: conversions
  for one system call each.
- The pipes of a subprocess with its life: the parent's ends are inherited by every
  later child, which is listed as a hazard and is the open step of the plan.
- The wording and the layout of usage and help texts; `GetCommand`, whose view is of
  a string that has been destroyed, so that using it is undefined.
- JSON texts that the library did not write, for which `BuildJson` has no defined
  behaviour in many cases (positions outside the text).
- A program that wraps one number twice, which the class cannot know.
- An empty delimiter, of which a slice finds one at every place without moving on.
- The components without behaviour: memory helpers, exceptions, binary input and
  output, type lists, environment variables. Nothing happens in them over time.
