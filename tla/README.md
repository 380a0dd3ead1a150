# TLA+ models of pfs::io

[io-lib](../src/README.md) is a C++11 header library that gives files, local
(UNIX) sockets, TCP and UDP sockets and memory buffers one interface, `device`.
This directory holds its specifications, the TLC models that check them and the
proofs that TLAPS checks. The reference is the Linux code under
`src/include/pfs/io/`, read with `src/tests/`.

    tlc -workers 2 -config handles_cleared.cfg MCHandles.tla
    tlapm HandlesProofs.tla

## The system

| part | source | state | operations |
|---|---|---|---|
| device, basic_device | `device.hpp` | a `unique_ptr` to the object behind it | move, swap, invalidate, close, destroy, and the virtual calls it forwards |
| device_handle | `unix_file.hpp:23` | a descriptor number or -1 | swap; `opened()` is `fd >= 0`, the `close()` functions act on `fd > 0` |
| file | `file.hpp`, `unix_file.hpp` | a handle | `make_file`, read, write, `open_mode`, close (with `fsync`) |
| local_socket, local_peer, local_server | `local_*.hpp`, `unix_socket.hpp:135` | a handle; a path in the file system | `make_*`, accept, read, write, close |
| tcp_socket, tcp_peer, tcp_server | `tcp_*.hpp`, `unix_socket.hpp:284,394` | a handle | `make_*` with name resolution, accept, read, write, close |
| udp_socket, udp_server | `udp_*.hpp`, `unix_socket.hpp:516` | a handle and the address `_addr` | `make_*`, read, write, `read_from`, `write_to` |
| buffer | `buffer.hpp` | a pointer to the caller's container, a position, the mode | read, write, has_pending_data, close |
| netdevice | `netdevice.hpp` | a name | `mtu()`: an ioctl, else a file in `/sys` |
| error codes, permissions, platform selection | `device.hpp`, `permissions.hpp`, `operationsystem.h` | none | tables of constants |

How they interact. A factory runs several system calls with a bare
`device_handle`, which has no destructor, and reports through an `error_code &`
that the caller passes; then `return ec ? device{} : device{new ...}` moves the
handle into an object, which from then on closes it. So whether a descriptor is
owned, lost or closed depends on `ec` as well as on the calls. A server's
`accept()` makes peers the same way. Two programs meet in the kernel: through a
connection's buffers, a path or a port. The library has no thread, lock or
callback of its own; the threads of a program, as in `src/tests/`, share the
process's descriptor table.

What is hard here: interleavings of the factories' system calls in different
threads, where a number closed by one is given to another; a step that fails
after an earlier one succeeded; an `error_code` that still holds an old error
(the tests reuse one around their accept loops); the descriptor table at its
limit; `write()`s that go out in parts, with `EAGAIN`, signals, a peer that
closes, a connection that breaks; servers that take a path over from each other,
crash and leave it behind, with clients between their system calls; datagrams
lost, doubled and overtaken; power that fails around an `fsync()`; end of stream against no data; the sizes,
positions and widths of the counters. `PROJECT.json` lists them with their
lines and the properties that cover them, or why none does.

What makes each part correct:

- handles: a descriptor has one owner, is closed once, is not lost, and an
  object got without an error can be used; every factory call returns;
- streams (sockets and buffers): the reader gets the bytes of the writer, in
  order, each once, and `write()` and `read()` report what they did; a loop over
  `has_pending_data()` ends and misses nothing;
- local server: a path leads to the server started last, whatever earlier ones
  left there; a client is turned away for a reason, and served or told once it is
  connected;
- UDP: datagrams stay whole, an object writes to the host it was made for, and
  a loop reads what arrives;
- file: the native flags and permission bits mean what was asked for, a reader
  finds what a writer wrote, and a `close()` without an error can be relied on.

## Modules

| module | models | about |
|---|---|---|
| `Handles` | the factories, `accept()` and the objects of every class | ownership of descriptors, implements `Ownership` |
| `Ownership` | no code: what a handle class with moves and without copies promises | the abstract specification of `Handles` |
| `Buffer` | `buffer` and the owner of its container | implements `ByteStream`, with `TakeBack` (`RevocableNext`) |
| `Stream` | `socket::read`, `write`, `has_pending_data`, `close` on one direction of a connection | implements `ByteStream!StreamSpec` |
| `ByteStream` | no code: what a stream promises | the abstract specification of `Buffer` and `Stream` |
| `LocalServer` | `local::open`, `open_server`, `accept`, `close` of several servers and clients on one path | implements `Rendezvous` |
| `Rendezvous` | no code: what a listening server promises | the abstract specification of `LocalServer` |
| `Udp` | `udp_socket`, `udp_server` and the network between them | datagrams and addresses |
| `FileDevice` | `file`, `make_file`, `permissions` on one path | flags, rights, contents, and what `close()` promises |
| `MCHandles`, `MCBuffer`, `MCStream`, `MCLocalServer`, `MCUdp`, `MCFileDevice` | | constants and symmetries for TLC |
| `HandlesProofs`, `HandlesCallProofs`, `BufferProofs`, `StreamProofs`, `LocalServerProofs`, `UdpProofs`, `FileProofs` | | theorems |
| `SequenceFacts` | | lemmas on prefixes and parts of sequences |

Operators whose comment begins with "Mutant" are not part of a specification.
Each is a plausible bug in the definition below it, kept to show that the
property it is meant for would find it (`PROJECT.json`, "mutants").

### Handles

A *slot* is a variable of the program that holds a `device` or one of the
server classes, and keeps the class of its object (`class`). `held` is the
`device_handle` of each slot's object and, for a thread inside a factory, the
local `fd`. `table` says what the kernel's descriptors refer to: nothing, a
file, or a socket and how far it got. `ec` is the error_code of the call in
progress, `err` the caller's variable between calls.

Every system call that touches the table is one action (`OpenFile`, `Accept`,
`LocalSocket`, `LocalConnect`, `InetSocket`, `TcpBind`, `Cleanup`, ...), and
`pc` follows the factory from one to the next, through its failure paths. `Return`
is the factory's `return ec ? device{} : device{...}` and the assignment to
the slot, whose old object is destroyed; `Throw` is the overload without an
error_code. `Close`, `Destroy`, `MoveAssign` and `Swap` are the objects'. A slot
that a factory is about to assign is left alone by other threads (`Busy`):
objects are not for concurrent use.

Abstractions: a name that does not resolve and a path that is too long are one
failure before `socket()`; addresses are only counted; a descriptor is what it
was made to be (`bind()` of a socket that is closed or another's fails);
`fsync()`, `shutdown()` and `SO_KEEPALIVE` do not change the table. `accept()` may find a
connection at any time. The interval between a slot's `Close` and the end of the
C++ call is not visible in the table.

Constants that stand for how the library is used: `CallerClears` (callers reset
their error_code before each call), `MaxAddrs` (addresses of a host),
`Inherited` (descriptors open at the start) and `Faults` (calls that may fail on
a good descriptor; a full table needs no fault).

| run | question | bounds |
|---|---|---|
| `handles_cleared` | Are descriptors owned exclusively (`Exclusive`), never lost (`NoLeak`), left alone by others (`Undisturbed`) and as the class promises (`Ready`), and is all of it unique ownership (`IsOwnership`)? | every factory, 2 threads, one slot per type, descriptors 0..2 with 0 inherited, one address; 452 209 states |
| `handles_stale` | With error_codes that are not cleared, do objects still own what they hold (`ObjectsOwn`), undisturbed, do the descriptors open before stay out of it (`StrangersKept`), and does every call go forward (`CallsAdvance`) and return (`CallsReturn`)? | files and UDP sockets, 2 threads, 2 device slots, descriptors 0..2; 74 146 states |
| `handles_local_leak` | violation of `NoLeak` | local sockets whose `connect()` may fail |
| `handles_double_close` | violation of `Undisturbed` | TCP sockets and files, error_codes not cleared |
| `handles_stuck` | violation of `CallsReturn` | a host with two addresses, table full |

Two threads are enough for every race between a step of one and a step of
another, and two free descriptors for one to be reused while the other is in
use and for the table to be full. One slot per type lets every class be made,
accepted, closed and destroyed; the runs with two slots of one type move and swap.

`Ownership` has owners and resources: one is obtained into a free hand, released,
handed on or exchanged. Owners are the slots and the calls in progress, `open` is
`OpenFds`, what the library has open. `bind()`, `listen()` and the like are no steps of it; a
descriptor dropped while open, or closed while held, has no step there at all.

Fairness (`FairSpec`): weak, for a thread inside a factory. It holds nothing
that another thread could keep from it, and no call of a factory waits for ever:
`connect()` ends with `ETIMEDOUT` at the latest. `accept()` does wait, but is one action.

What the passing run leaves out, because the code breaks the properties there:

- `connect()` of a local socket fails (`"local connect"`): the descriptor is
  lost, which `handles_local_leak` shows;
- `setsockopt(SO_REUSEADDR)` fails (`"setsockopt"`): `tcp::open_server` and
  `udp::open_server` skip `bind()` and `listen()` but set no error, and the caller
  gets a server that is not bound: `Ready` fails (`unix_socket.hpp:465,579`);
- error_codes not cleared: an `accept()` that succeeds drops its peer's
  descriptor (`tcp_server.hpp:106`), as `make_file` does, and
  `open_inet_socket` closes a descriptor that it returns (`handles_double_close`);
- several addresses: `p = result_addr->ai_next` starts over (`handles_stuck`),
  and the error of a first failed `socket()` closes the descriptor of a second;
- descriptor 0 not inherited: it counts as opened and is never closed
  (`unix_socket.hpp:121`, `unix_file.hpp:142`).

### Buffer

`content` is the container, `pos` is `_pos`, `got` all that `read()` has
returned. A byte is its number among all that were `put` into the container, so
that a byte that comes twice or too late is told from another of the same value.
`Read`, `Write` and `Close` are the member functions; `OwnerAppends`
and `OwnerErases` the caller, whose container it stays. A call that the mode does
not allow changes nothing and is not an action. `SizeMod` gives `size_t` a width, `terminated`
records an exception that leaves a `noexcept` function: `write()` compares `n` with
the room behind the position but appends at the end, so that near `max_size()`
`append()` may throw through it (`buffer.hpp:80`). The owner may cut the container
anywhere, also below the position. The buffer only remembers how far it is, so that what
is put there later is skipped up to the position; `intact` is history and says that
this has not happened yet.

| run | question | bounds |
|---|---|---|
| `buffer_stream` | Until the owner erases bytes already read: is it a byte stream (`IsByteStream`), and does a loop `while (has_pending_data()) read()` come to an end (`ReadingEnds`)? Whatever the owner does: does no byte come twice or out of order (`InOrder`), and does `has_pending_data()` hide none from a loop (`UnreadIsRead`)? | container up to 5, calls up to 3, 7 bytes put; 13 210 states |

A container of 5 lets a read be cut short by the end, and bytes be appended,
erased and appended again behind a position anywhere in it; `MaxPut = 7` bytes are
enough to fill it, cut it to nothing and grow it past the position again. `size_t` has 8
values (`SizeMod`), so that every position behind the container's end makes the difference wrap.
The buffer may be closed for good, so deadlock is not checked. Fairness: weak, for the program that polls
(`PollAndRead`), and for it alone; the writer and the owner need never act.

What `has_pending_data()` does not say: that a `read()` will return something. It ignores the
mode (`buffer.hpp:34` against 56), so that a write-only buffer with bytes in it is pending for ever
while `read()` fails, and after a cut below the position the difference wraps and it is
true while `read()` returns 0. `ReadingEnds` is therefore stated of buffers that may
be read and only until such a cut: without `~intact` in it TLC finds it violated, by an
owner who cuts the container and then leaves it alone. Nothing in the repository promises
more, so that there is no run for it.

### Stream

One direction of a connected local or TCP socket. `channel` is what the kernel
holds between the ends (both socket buffers and the network), `sent` all it took
from the sender, `received` all that `read()` returned. `BeginWrite` enters
`write()`; each `Send(k)` is a `send()` that takes `k` bytes from `bytes +
total_written`; `Sent` and `SendFails` are its two ends. `EAGAIN` in `write()`
is `continue`, a step that changes nothing. `Read(n)` is one `recv()` with what
`read()` makes of it: data, 0 for the end or for `EAGAIN`, -1 for a reset
connection or a signal. After a reset the error is reported once and then 0, as
the kernel does. `HasPendingData` is the peek. `Close` of the sender shuts down,
and what is on its way still arrives; `Break` loses a part of it. Either end may be non-blocking.

A `send()` that blocks half-way is modelled as several that take a part each,
which the reader cannot tell apart. `write()` of nothing returns at once;
`read()` into no space is left out. The width of `int` is `IntMax`.

| run | question | bounds |
|---|---|---|
| `stream_delivery` | Is it a byte stream, is nothing lost while the connection lives, does `write()` report what it sent, does 0 mean the end on a blocking socket, does a true `has_pending_data()` promise a byte, do `write()`s return and does everything arrive? | two bytes, 4 sent in all, writes up to 3, reads up to 2, 2 in the kernel; 288 896 states |
| `stream_spin` | violation of `NonBlockingReturns` | one byte in the kernel |

Writes longer than the kernel's room and reads shorter than it give every way
to cut a message; four bytes make two messages that can share a read.
`WriteCounts` is checked with `IntMax` above every message. A program that writes
more than `INT_MAX` bytes at once leaves it: `total_written` is an `int`
(`unix_socket.hpp:86`), and with `IntMax = 2` in the same run TLC shows a complete
write that returns a negative number. The run may
stop (everything sent, both ends closed), so deadlock is not checked.

Fairness: `WriterSpec` lets a thread inside `write()` go on. `FairSpec` adds
that the receiver keeps calling `read()` while its socket is open. That is the
program's part of the bargain and not the library's: `WritesReturn` and
`AllArrives` hold under it, and `stream_spin` shows what happens without it.

### LocalServer

`path` is what the name in the file system leads to: nothing, a server's socket,
or a socket that is gone (`"stale"`). `state[s]` is where a server is in
`open_server`: `CreateSocket`, `Unlink`, `Bind` and `Listen` are its system calls, each one
action, since servers and clients are threads of any processes. `GiveUp` is the exit with
an error. `Accept` is `accept()` with what `local_server::accept` makes of it (`PeerOf`);
`Close` is `close()` or the destructor, `Crash` the end of the process in any state.
`pending[s]` is the backlog, into which the kernel lets one client more than
`listen()` was told. `Connect` is a client's `make_local_socket()`; a blocking one
may wait for room and `Wake` when there is some or nobody left to wait for;
`HangUp` is the client's `close()`. `disturbed[s]` is a history variable: another
server took the path since `s` began to start.

`Rendezvous` has servers that are up and requests that are out, joined, served
or cut off. The mapping reads a client that waits for room as still out, and an
accepted connection whose handle the server drops (`"dropped"`) as nothing the abstract
module knows, so that `IsRendezvous` fails if one occurs.

Assumed: the directory is writable (`unlink()` of an existing path succeeds: with
`"unlink"` in `Faults` a start finds the path taken and fails, as it should, but
`UndisturbedServes` does not hold); servers clear their error_code before a call
(`CallerClears`; without it `IsRendezvous` fails, `local_server.hpp:102`); no signal
interrupts `connect()`. That a client that waits gets in at last is not claimed: others may
be faster.

| run | question | bounds |
|---|---|---|
| `local_server` | Does an undisturbed server own the path (`UndisturbedServes`), are clients turned away only for a reason (`TurnedAwayRightly`), is it a rendezvous (`IsRendezvous`), and does nobody stay in a backlog for ever (`ServedOrTold`)? | 3 servers that start, fail and crash any number of times, a blocking and a non-blocking client, backlog 0; 642 542 states |

Three servers: one takes the path from a second while a third starts. A
backlog of 0 holds one client, so that two fill it. Fairness: weak, for each
server's `accept()`, which the programs of `src/tests/` call in a loop.

### Udp

`handle` and `addr` are an object's `_h` and `_addr`; `home`, a history variable,
is what each socket was made for. `Emit` puts a datagram on its way in any
number of copies, `Deliver` brings one, in any order, to a socket with a port and
room or to nowhere. Receiving is `Read`: `recvfrom()` of `n` bytes drops what does not
fit (`Take`) and does not store the sender (`Stored`: `addrlen` is 0). `Peek` and
`LoopRead` are the loop `while (has_pending_data()) read()` of `tests/udp_socket.cpp:65`;
on a blocking socket without a datagram the peek waits. `Strangers` use no library;
they send to sockets that have a port, and nothing empty: an empty datagram would make
`has_pending_data()` false and hide what is behind it.

`write_to()` is `WriteTo`. `read_from()` differs from `read()` only in whose
address object is left unset, which leaves a server that wants to answer without
the address: its own is `host_address{}`, to which `sendto()` fails.
A write that fails or finds no room changes nothing. One server: with
`SO_REUSEADDR` a second could bind the same port, and which of the two gets a datagram
is the system's business.

| run | question | bounds |
|---|---|---|
| `udp_delivery` | Is what a read returns the front of one datagram (`Whole`), do clients write to their host whatever they read (`TargetsKept`), does the loop read what arrives (`QueuedIsRead`), and does it end on a non-blocking socket (`PollEnds`)? | 2 clients, a server, a stranger, 2 datagrams of up to 2 bytes, 2 copies on their way, reads of 1 or 2; 950 270 states |
| `udp_loop` | violation of `LoopEnds` | the same with one client and a blocking server |

Two datagrams in two copies are enough for one to be lost, doubled, overtaken, cut by
a short read, and followed by another in the queue. The counters are cut off by
`MaxSent`, so "the senders have stopped" is part of what `PollEnds` and
`QueuedIsRead` say. Fairness: weak, for the server's thread, which enters its loop again.

### FileDevice

One path and the devices open on it, each held by a program of some user.
`NativeFlags` and `ToNative` translate the caller's flags and permissions, `OpenMode` reads the mode back
from the native flags as `fcntl()` gives them. `Open` creates the file (`NewModes`:
with permissions of 0 the code calls `open()` with `O_CREAT` and no mode, and the file gets bits
that nobody chose, `Garbage`), checks the rights, and truncates. `Write` puts bytes at
the device's own offset, with zeros in a gap; a short write is one of fewer bytes. `Read`
and `HasPendingData` (`FIONREAD`, an `int`) are at that offset too. `Close` is `fsync()`
and `::close()`, either of which may fail; `CloseError` is what the caller gets.
`Kill` closes without `fsync()`. `PowerLoss` leaves of what is not `synced` anything
at all, and of a file whose name never got to the disk perhaps nothing.

`synced` grows by what was written through the device that syncs (`dirty`) and
by nothing else, the least that `fsync()` promises; `safe` is what the callers were
promised. `author`, `text`, `quiet` and `got` are history: the device that began the
file afresh and alone wrote to it, what it wrote, and what others have read since.
They follow the flags the caller passed and not the native ones.

Left out: `O_APPEND` (the library never passes it), other links to the file, its
removal, `chmod`, a privileged user, failing reads and writes (nothing changes).

| run | question | bounds |
|---|---|---|
| `file_device` | Does a device report the mode asked for (`ModeRoundTrip`), does nobody get rights the creator did not name (`Granted`), does a reader find what a lone writer wrote (`ReadBack`), and does what a `close()` promised survive (`Survives`)? | 3 devices of 3 users, two in one group, 6 sets of flags, 3 of permissions, files up to 2 bytes, `IntMax = 1`; 222 451 states |

Three devices: a writer, a reader and one who interferes, one for each of
owner, group and others. With `IntMax = 1` a file of two bytes is what 2 GiB are
to a real `int`: `has_pending_data()` is false at its start, and `ReadBack` excepts that case.

What the model says beyond its properties: `truncate` with `read_only` empties an
existing file and creates none, though `device.hpp:33` describes the flag as "Create device";
writing without `truncate` leaves the old end of a longer file; a new file may
be gone after a failure of the power although `close()` reported nothing, since
its directory is not synced; descriptor 0 is neither synced nor closed.

## What the violations show

| run | code | what happens |
|---|---|---|
| `handles_local_leak` | `unix_socket.hpp:190` | `local::open` sets `result.fd` only after `connect()`, so its failure path closes nothing. |
| `handles_double_close` | `unix_socket.hpp:381,426` | With an old error in `ec`, `open_inet_socket` closes the descriptor and returns its number; `tcp::open` connects and closes it again, by then another thread's file. |
| `handles_stuck` | `unix_socket.hpp:361` | The loop over addresses goes to the second one for ever. |
| `stream_spin` | `unix_socket.hpp:97` | In non-blocking mode `write()` spins on `EAGAIN`. |
| `udp_loop` | `unix_socket.hpp:53` | On a blocking socket `has_pending_data()` waits instead of answering false: the loop of `tests/udp_socket.cpp:65` never ends. |

## What is proved

For all values of the constants that the modules' assumptions (`HandlesAssumption`,
`BufferAssumption`, ...) allow:

- `HandlesProofs`: `TypeCorrect`; and, if callers clear their error_code and a
  host has one address, or no inet factory is used (`Disciplined`),
  `ExclusiveOwnership` and `NobodyDisturbs`, for any threads, slots, descriptors
  and faults. `Exclusive` is inductive together with `TypeInv` and
  `NeverDiscards`: no thread reaches the step where `open_inet_socket` closes the
  number it returns. That needs a relation between `ec` and `pc`, that no error is
  pending when `socket()` is called, which is what the hypothesis buys. Each
  action is one of a few transfers of a descriptor, and the proof of a step names
  which; what a transfer keeps is proved once, of any table and handles (`ClaimApart`,
  `MarkApart`, `DropApart`, `HandApart`, `SwapApart`). `NobodyDisturbs` follows from
  `Exclusive`: a step changes only an entry that its own thread or slot holds.
- Also `HandlesProofs`, where error_codes are *not* cleared: `ObjectOwnership` and
  `DiscardsDisturbNobody`, if the only inet factory used is `make_udp_socket`
  (`DiscardsHarmless`). `Exclusive` is false there, because a call goes on with the number it
  has closed. `owned` is what each holder holds without such a number (`Spent`: a call
  about to return an error), and `Apart(table, owned)` is inductive: `make_udp_socket`
  does nothing with the number but drop it. With another inet factory it is connected, set
  or closed again, which is `handles_double_close`. `ObjectOwnership` holds under
  `Disciplined` as well.
- `HandlesCallProofs`: `StrangersUntouched` without any hypothesis: every step
  touches only entries that are free or held. `CallsGoForward` for hosts of one address
  (`OneAddress`), cleared error_codes or not: the safety half of `CallsReturn`, as no call
  can then make more than eight steps. The others rest on `CallsSound`, which says of
  every `pc` what the descriptor of the call is (`Carries`: a socket before `connect()`,
  `setsockopt()` and `bind()`, a bound one before `listen()`, none before `socket()`), what
  it is at a return without an error (`Promises`), and that a return with an error has none
  left (`Clean`). From it, under `Disciplined`, `ObjectsReady`, if `setsockopt()` does
  not fail where a server is made (`Reusable`); and, if callers clear their error_code,
  descriptor 0 is taken and local sockets connect (`Careful`), `NothingLeaks` and
  `HandlesAreUnique`: every step of `Handles` is a step of `Ownership` or none. Without
  either half of these hypotheses the code breaks the properties (see *Handles*).
- `BufferProofs`: `TypeCorrect`, whatever the owner of the container does; and
  `BufferIsByteStream`, until the owner
  erases bytes already read. The invariant `ReadSoFar` says that what has been
  read is the container's part before the position. `BytesComeOnce` holds after that too,
  where `ReadSoFar` fails: `OrderInv` says that the container is in the order its bytes were put,
  and that what is behind the position was put after all that was read.
- `StreamProofs`: every safety property of `Stream`. For `SocketIsByteStream` and
  `NothingIsLost` the invariant says that `sent` is `received`, then `channel`, then
  what was lost, and that nothing was lost while the connection lives: `IsByteStream`
  alone is not inductive, since a `read()` must find in the channel what comes next.
  `WritesAreCounted` needs `MaxMessage <= IntMax`; inside `write()` the invariant
  `Progress` holds: what this call has sent is the front of the message, `total`
  bytes long, and `left` is the rest. `ZeroMeansEnd` and `PendingIsThere` rest on
  `Answers`, which says of the channel what the caller concludes from an answer, and
  that a sender that has closed is not inside `write()`.
- `LocalServerProofs`: `TypeCorrect`; `UndisturbedOwner` and `TurnedAwayForAReason`
  if `unlink()` does not fail, since a server that takes something at the path
  marks every other one that is not down as disturbed; and `ServerIsRendezvous` if
  callers clear their error_code. The step simulation needs to know that a backlog
  holds each client once, and only clients that are connected to its server (`JoinInv`).
- `UdpProofs`: `TypeCorrect`, `AddressesAreKept`, `DatagramsStayWhole`. The invariant
  adds that no two objects have the same socket (`Own`), without which a close or a
  swap could change what another object writes to, and that a queue holds only what
  was sent to its socket (`Routed`).
- `FileProofs`: every property of `FileDevice`. What is promised is on the disk
  (`DataTypes`); the mode names no more than the creator did and whoever has the file open
  was permitted to (`Rights`); a lone writer is at the end of the file and a reader
  has got the part before its offset (`Lone`). `OverlayMeans` and `OverlayAppends` say
  what a write at an offset does to a file.

Every safety invariant and action property of the passing runs is stated by a
theorem. Only model-checked is what is beyond the prover, the liveness properties:
`CallsReturn`, `WritesReturn`, `AllArrives`, `ServedOrTold`, `QueuedIsRead`,
`PollEnds`, `ReadingEnds` and `UnreadIsRead`.

## Not modelled

- `netdevice`: `mtu()` opens and closes a socket around one `ioctl()` or reads a number
  from `/sys`; nothing outlives the call and nobody takes part in it;
- name resolution and addresses as data; the TCP port and its backlog
  (`Handles` has the calls, `Stream` the connection);
- the tables of error codes: an error_code is set or not;
- both directions of one connection together: two peers that write more than it
  holds before either reads wait for each other, but when they read is the programs'
  choice and not in the library;
- the `#if` branches for Windows, which have no implementation behind them;
- concurrent use of one object by two threads, which the library does not offer;
- build scripts and tests, other than the loop of `tests/udp_socket.cpp`.

## Plan

What is left is proof of what the liveness properties rest on, as `CallsAdvance` is for
`CallsReturn`: that a `write()` whose peer reads has less left after each `send()`,
that a server that stops leaves no client in its backlog, that the loop over
`has_pending_data()` shortens its queue; and that what `Ownership`, `Rendezvous` and
`ByteStream` say implies the invariants stated of the modules that implement them.
