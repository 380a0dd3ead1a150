------------------------------ MODULE Handles ------------------------------
(***************************************************************************)
(* Ownership of file descriptors in pfs::io.                               *)
(*                                                                         *)
(* A device or a server object owns a device_handle, which is a descriptor *)
(* number or -1.  The factories (make_file, make_local_socket, ...) and    *)
(* accept() obtain a descriptor in several system calls, report through a  *)
(* caller's error_code passed by reference, and hand the descriptor to an  *)
(* object of the caller.  The threads of a program share nothing but the   *)
(* kernel's descriptor table, so the unit of interleaving is the system    *)
(* call: every action makes at most one call that touches the table.       *)
(***************************************************************************)
EXTENDS Integers

CONSTANTS
  Threads,      \* threads that use the library
  Slots,        \* variables of the program that hold a device or a server
  SlotType,     \* the C++ type of each: "device" or one of the server classes
  Kinds,        \* the kinds of object the program makes
  MaxFd,        \* the largest descriptor number (RLIMIT_NOFILE - 1)
  Inherited,    \* descriptors open before the library is used (stdin, ...)
  MaxAddrs,     \* the most addresses getaddrinfo() returns for a host
  CallerClears, \* callers reset their error_code before every call
  Faults        \* the system calls that may fail on a good descriptor

FD   == 0 .. MaxFd
NoFd == -1

LocalKinds  == {"local_socket", "local_server"}
InetKinds   == {"tcp_socket", "tcp_server", "udp_socket", "udp_server"}
PeerOf      == [local_server |-> "local_peer", tcp_server |-> "tcp_peer"]
DeviceKinds == {"file", "local_socket", "local_peer",
                "tcp_socket", "tcp_peer", "udp_socket"}
ServerKinds == {"local_server", "tcp_server", "udp_server"}
AllKinds    == DeviceKinds \cup ServerKinds

SystemCalls == {"open", "socket", "connect", "local connect", "setsockopt",
                "bind", "listen", "accept", "io"}

ASSUME HandlesAssumption ==
  /\ Slots \cap Threads = {}
  /\ SlotType \in [Slots -> {"device"} \cup ServerKinds]
  /\ Kinds \subseteq {"file"} \cup LocalKinds \cup InetKinds
  /\ MaxFd \in Nat
  /\ Inherited \subseteq FD
  /\ MaxAddrs \in Nat \ {0}
  /\ CallerClears \in BOOLEAN
  /\ Faults \subseteq SystemCalls

VARIABLES
  table, \* the kernel's table: what each descriptor refers to
  held,  \* the device_handle of each slot's object and of each call: its fd
  class, \* the class of the object in each slot
  pc,    \* where each thread is in a factory
  task,  \* the factory call each thread is in, and the slot it is for
  ec,    \* whether the call's error_code holds an error
  err    \* whether the thread's own error_code variable does, between calls

vars == <<table, held, class, pc, task, ec, err>>

Holders == Slots \cup Threads
Entries == {"free", "inherited", "file", "socket", "connected", "bound",
            "listening"}
Steps   == {"idle", "socket", "discard", "connect", "setsockopt", "bind",
            "listen", "cleanup", "return"}
Tasks   == [kind : AllKinds \cup {"none"}, slot : Slots \cup {"none"},
            throwing : BOOLEAN, addrs : 1 .. MaxAddrs]
NoTask  == [kind |-> "none", slot |-> "none", throwing |-> FALSE, addrs |-> 1]

(* Mutant: a null device is given a class. *)
NullWithClass(s) == SlotType[s]

(* A slot without an object: a null device, or a server without a handle. *)
Null(s) == IF SlotType[s] = "device" THEN "null" ELSE SlotType[s]

Fits(k, s) == SlotType[s] = IF k \in DeviceKinds THEN "device" ELSE k

Busy(s) == \E t \in Threads : pc[t] # "idle" /\ task[t].slot = s

Init ==
  /\ table = [f \in FD |-> IF f \in Inherited THEN "inherited" ELSE "free"]
  /\ held  = [x \in Holders |-> NoFd]
  /\ class = [s \in Slots |-> Null(s)]
  /\ pc    = [t \in Threads |-> "idle"]
  /\ task  = [t \in Threads |-> NoTask]
  /\ ec    = [t \in Threads |-> FALSE]
  /\ err   = [t \in Threads |-> FALSE]

-----------------------------------------------------------------------------
(* System calls. *)

(* POSIX allocates the lowest free descriptor. *)
IsLowest(f) == /\ table[f] = "free"
               /\ \A g \in FD : table[g] = "free" => f <= g

Install(f, entry) == table' = [table EXCEPT ![f] = entry]

(* A call that allocates a descriptor for x. *)
Allocate(x, entry) ==
  \E f \in FD : /\ IsLowest(f)
                /\ Install(f, entry)
                /\ held' = [held EXCEPT ![x] = f]

(* It can always fail when the table is full. *)
CannotAllocate(c) ==
  /\ c \in Faults \/ \A f \in FD : table[f] # "free"
  /\ UNCHANGED <<table, held>>

(* What a number refers to; a stale one may be free. *)
Entry(f) == IF f = NoFd THEN "free" ELSE table[f]

(* close(h): ::close() is skipped unless the descriptor is positive. *)
CloseHandle(h) ==
  table' = IF h > 0 THEN [table EXCEPT ![h] = "free"] ELSE table

-----------------------------------------------------------------------------
(* The factories. *)

Goto(t, step) == pc' = [pc EXCEPT ![t] = step]
Succeed(t, step) == Goto(t, step) /\ UNCHANGED ec
Fail(t, step) == Goto(t, step) /\ ec' = [ec EXCEPT ![t] = TRUE]

(* A step inside a factory. *)
InCall(t, step, kinds) ==
  /\ pc[t] = step /\ task[t].kind \in kinds
  /\ UNCHANGED <<class, task, err>>

(* The error_code a call starts with: a fresh one in the overloads that    *)
(* throw, else the caller's own, which no factory clears.                  *)
EntryEc(t, throwing) == ~throwing /\ ~CallerClears /\ err[t]

(* Thread t enters a factory of class k for slot s. *)
Begin(t, s, k, throwing, addrs, step, failed) ==
  /\ pc[t] = "idle" /\ ~Busy(s)
  /\ Goto(t, step)
  /\ task' = [task EXCEPT ![t] = [kind |-> k, slot |-> s,
                                  throwing |-> throwing, addrs |-> addrs]]
  /\ ec' = [ec EXCEPT ![t] = failed \/ EntryEc(t, throwing)]
  /\ UNCHANGED <<class, err>>

(* A socket factory; an unresolvable host or an overlong path sends the    *)
(* call straight to its return.                                            *)
BeginOpen(t, s, k, throwing) ==
  /\ k \in Kinds \ {"file"} /\ Fits(k, s)
  /\ \/ \E n \in IF k \in InetKinds THEN 1 .. MaxAddrs ELSE {1} :
          Begin(t, s, k, throwing, n, "socket", FALSE)
     \/ Begin(t, s, k, throwing, 1, "return", TRUE)
  /\ UNCHANGED <<table, held>>

OpenFile(t, s, throwing) ==
  /\ "file" \in Kinds /\ Fits("file", s)
  /\ \/ /\ Allocate(t, "file")
        /\ Begin(t, s, "file", throwing, 1, "return", FALSE)
     \/ /\ CannotAllocate("open")
        /\ Begin(t, s, "file", throwing, 1, "return", TRUE)

(* The server in slot s accepts a connection into slot d. *)
Accept(t, s, d) ==
  /\ class[s] \in DOMAIN PeerOf /\ ~Busy(s) /\ SlotType[d] = "device"
  /\ \/ /\ Entry(held[s]) = "listening"
        /\ Allocate(t, "connected")
        /\ Begin(t, d, PeerOf[class[s]], FALSE, 1, "return", FALSE)
     \/ /\ Entry(held[s]) # "listening" /\ UNCHANGED <<table, held>>
        /\ Begin(t, d, PeerOf[class[s]], FALSE, 1, "return", TRUE)
     \/ /\ CannotAllocate("accept")
        /\ Begin(t, d, PeerOf[class[s]], FALSE, 1, "return", TRUE)

LocalSocket(t) ==
  /\ InCall(t, "socket", LocalKinds)
  /\ \/ /\ Allocate(t, "socket")
        /\ Succeed(t, IF task[t].kind = "local_socket" THEN "connect" ELSE "bind")
     \/ CannotAllocate("socket") /\ Fail(t, "return")

(* local::open copies the descriptor to its result only after connect():   *)
(* its failure path sees result.fd = -1 and forgets the descriptor.        *)
LocalConnect(t) ==
  /\ InCall(t, "connect", {"local_socket"})
  /\ \/ /\ Entry(held[t]) = "socket"
        /\ Install(held[t], "connected")
        /\ Succeed(t, IF ec[t] /\ held[t] > 0 THEN "cleanup" ELSE "return")
        /\ UNCHANGED held
     \/ /\ Entry(held[t]) # "socket" \/ "local connect" \in Faults
        /\ Fail(t, "return")
        /\ held' = [held EXCEPT ![t] = NoFd]
        /\ UNCHANGED table

(* A call on the descriptor of t that moves it on to `entry', or fails. *)
Advance(t, fault, from, entry, next, failure) ==
  /\ \/ /\ Entry(held[t]) \in from
        /\ Install(held[t], entry)
        /\ Succeed(t, next)
     \/ /\ Entry(held[t]) \notin from \/ fault \in Faults
        /\ Fail(t, failure)
        /\ UNCHANGED table
  /\ UNCHANGED held

(* Mutant: the common exit does not close. *)
LocalServerExitLeaks(t, failed) == "return"

(* local::open_server: its common exit closes the descriptor on an error,  *)
(* the caller's old error included, but never descriptor 0.                *)
LocalServerExit(t, failed) ==
  IF failed /\ held[t] > 0 THEN "cleanup" ELSE "return"

LocalBind(t) ==
  /\ InCall(t, "bind", {"local_server"})
  /\ Advance(t, "bind", {"socket"}, "bound", "listen", LocalServerExit(t, TRUE))

LocalListen(t) ==
  /\ InCall(t, "listen", {"local_server"})
  /\ Advance(t, "listen", {"bound", "listening"}, "listening",
             LocalServerExit(t, ec[t]), LocalServerExit(t, TRUE))

(* Mutant: the UDP server is never bound. *)
AfterInetSocketUnbound(k) ==
  CASE k = "tcp_socket" -> "connect"
    [] k = "tcp_server" -> "setsockopt"
    [] k \in {"udp_socket", "udp_server"} -> "return"

(* Where each inet factory goes on when open_inet_socket returns fd >= 0.  *)
AfterInetSocket(k) ==
  CASE k = "tcp_socket" -> "connect"
    [] k = "udp_socket" -> "return"
    [] k \in {"tcp_server", "udp_server"} -> "setsockopt"

(* Mutant: the loop never advances. *)
SameAddress(t) == "socket"

(* The loop over the host's addresses: a failure leaves its error in ec    *)
(* and goes on to result_addr->ai_next, the second address, every time.    *)
NextAddress(t) == IF task[t].addrs > 1 THEN "socket" ELSE "return"

InetSocket(t) ==
  /\ InCall(t, "socket", InetKinds)
  /\ \/ /\ Allocate(t, "socket")
        /\ Succeed(t, IF ec[t] THEN "discard" ELSE AfterInetSocket(task[t].kind))
     \/ CannotAllocate("socket") /\ Fail(t, NextAddress(t))

(* Mutant: the number goes through a failure path that closes it again. *)
InetDiscardTwice(t) ==
  /\ InCall(t, "discard", InetKinds)
  /\ Install(held[t], "free")
  /\ Succeed(t, "cleanup")
  /\ UNCHANGED held

(* Mutant: a socket that is discarded is asked for again. *)
InetDiscardRetries(t) ==
  /\ InCall(t, "discard", InetKinds)
  /\ Install(held[t], "free")
  /\ held' = [held EXCEPT ![t] = NoFd]
  /\ Succeed(t, "socket")

(* `if (ec) ::close(fd)': the number is returned to the factory all the    *)
(* same, which goes on as if it were open.                                 *)
InetDiscard(t) ==
  /\ InCall(t, "discard", InetKinds)
  /\ Install(held[t], "free")
  /\ Succeed(t, AfterInetSocket(task[t].kind))
  /\ UNCHANGED held

TcpConnect(t) ==
  /\ InCall(t, "connect", {"tcp_socket"})
  /\ Advance(t, "connect", {"socket", "bound"}, "connected", "return", "cleanup")

(* A failing setsockopt() skips bind() and listen() without an error. *)
ReuseAddr(t) ==
  /\ InCall(t, "setsockopt", {"tcp_server", "udp_server"})
  /\ LET good == Entry(held[t]) \notin {"free", "inherited", "file"}
     IN \/ good /\ Succeed(t, "bind")
        \/ (~good \/ "setsockopt" \in Faults) /\ Succeed(t, "return")
  /\ UNCHANGED <<table, held>>

TcpBind(t) ==
  /\ InCall(t, "bind", {"tcp_server"})
  /\ Advance(t, "bind", {"socket"}, "bound", "listen", "cleanup")

TcpListen(t) ==
  /\ InCall(t, "listen", {"tcp_server"})
  /\ Advance(t, "listen", {"socket", "bound", "listening"}, "listening",
             "return", "cleanup")

UdpBind(t) ==
  /\ InCall(t, "bind", {"udp_server"})
  /\ Advance(t, "bind", {"socket"}, "bound", "return", "cleanup")

(* Mutant: the number survives ::close(fd). *)
CleanupKeepsNumber(t) ==
  /\ InCall(t, "cleanup", AllKinds)
  /\ Install(held[t], "free")
  /\ Succeed(t, "return")
  /\ UNCHANGED held

(* The failure paths' ::close(fd); fd = -1. *)
Cleanup(t) ==
  /\ InCall(t, "cleanup", AllKinds)
  /\ Install(held[t], "free")
  /\ held' = [held EXCEPT ![t] = NoFd]
  /\ Succeed(t, "return")

(* The call ends and its error_code goes out of scope, or to its owner. *)
Leave(t) ==
  /\ Goto(t, "idle")
  /\ task' = [task EXCEPT ![t] = NoTask]
  /\ ec'   = [ec EXCEPT ![t] = FALSE]
  /\ err'  = IF task[t].throwing THEN err ELSE [err EXCEPT ![t] = ec[t]]

(* Mutant: the slot's old object is overwritten, not destroyed. *)
ReturnOverwrites(t) ==
  /\ pc[t] = "return" /\ ~(task[t].throwing /\ ec[t])
  /\ LET s == task[t].slot
     IN /\ held'  = [held EXCEPT ![s] = IF ec[t] THEN NoFd ELSE held[t],
                                 ![t] = NoFd]
        /\ class' = [class EXCEPT ![s] = IF ec[t] THEN Null(s) ELSE task[t].kind]
  /\ UNCHANGED table
  /\ Leave(t)

(* `return ec ? device{} : device{new ...}', assigned to the slot, whose   *)
(* old object is destroyed.  A bare device_handle has no destructor: the   *)
(* one of a call that ends with ec set is dropped as it is.                *)
Return(t) ==
  /\ pc[t] = "return" /\ ~(task[t].throwing /\ ec[t])
  /\ LET s == task[t].slot
     IN /\ CloseHandle(held[s])
        /\ held'  = [held EXCEPT ![s] = IF ec[t] THEN NoFd ELSE held[t],
                                 ![t] = NoFd]
        /\ class' = [class EXCEPT ![s] = IF ec[t] THEN Null(s) ELSE task[t].kind]
  /\ Leave(t)

(* The exception of a throwing overload leaves the slot alone. *)
Throw(t) ==
  /\ pc[t] = "return" /\ task[t].throwing /\ ec[t]
  /\ held' = [held EXCEPT ![t] = NoFd]
  /\ Leave(t)
  /\ UNCHANGED <<table, class>>

-----------------------------------------------------------------------------
(* The objects. *)

(* Mutant: h->fd is not reset. *)
CloseKeepsNumber(s) ==
  /\ ~Busy(s) /\ class[s] # "null"
  /\ CloseHandle(held[s])
  /\ UNCHANGED <<held, class, pc, task, ec, err>>

Close(s) ==
  /\ ~Busy(s) /\ class[s] # "null"
  /\ CloseHandle(held[s])
  /\ held' = [held EXCEPT ![s] = NoFd]
  /\ UNCHANGED <<class, pc, task, ec, err>>

(* ~device(), invalidate(), or a server's destructor. *)
Destroy(s) ==
  /\ ~Busy(s)
  /\ CloseHandle(held[s])
  /\ held'  = [held EXCEPT ![s] = NoFd]
  /\ class' = [class EXCEPT ![s] = Null(s)]
  /\ UNCHANGED <<pc, task, ec, err>>

Exchangeable(s, d) ==
  s # d /\ SlotType[s] = SlotType[d] /\ ~Busy(s) /\ ~Busy(d)

(* Mutant: the handle is copied. *)
CopyAssign(s, d) ==
  /\ Exchangeable(s, d)
  /\ CloseHandle(held[d])
  /\ held'  = [held EXCEPT ![d] = held[s]]
  /\ class' = [class EXCEPT ![d] = class[s]]
  /\ UNCHANGED <<pc, task, ec, err>>

(* Mutant: the handle moved from is value-initialised, to descriptor 0. *)
MoveAssignZero(s, d) ==
  /\ Exchangeable(s, d)
  /\ CloseHandle(held[d])
  /\ held'  = [held EXCEPT ![d] = held[s], ![s] = 0]
  /\ class' = [class EXCEPT ![d] = class[s], ![s] = Null(s)]
  /\ UNCHANGED <<pc, task, ec, err>>

(* d = std::move(s). *)
MoveAssign(s, d) ==
  /\ Exchangeable(s, d)
  /\ CloseHandle(held[d])
  /\ held'  = [held EXCEPT ![d] = held[s], ![s] = NoFd]
  /\ class' = [class EXCEPT ![d] = class[s], ![s] = Null(s)]
  /\ UNCHANGED <<pc, task, ec, err>>

Swap(s, d) ==
  /\ Exchangeable(s, d)
  /\ held'  = [held EXCEPT ![d] = held[s], ![s] = held[d]]
  /\ class' = [class EXCEPT ![d] = class[s], ![s] = class[d]]
  /\ UNCHANGED <<table, pc, task, ec, err>>

(* A read or a write that fails sets the caller's error_code; one that     *)
(* succeeds changes nothing here.                                          *)
FailedIo(t, s) ==
  /\ pc[t] = "idle" /\ ~Busy(s)
  /\ class[s] \in DeviceKinds \cup {"udp_server"}
  /\ Entry(held[s]) = "free" \/ "io" \in Faults
  /\ err' = [err EXCEPT ![t] = TRUE]
  /\ UNCHANGED <<table, held, class, pc, task, ec>>

(* The caller's `ec = error_code{}'. *)
ClearError(t) ==
  /\ pc[t] = "idle"
  /\ err' = [err EXCEPT ![t] = FALSE]
  /\ UNCHANGED <<table, held, class, pc, task, ec>>

-----------------------------------------------------------------------------
Proceed(t) ==
  \/ LocalSocket(t) \/ LocalConnect(t) \/ LocalBind(t) \/ LocalListen(t)
  \/ InetSocket(t) \/ InetDiscard(t) \/ TcpConnect(t) \/ ReuseAddr(t)
  \/ TcpBind(t) \/ TcpListen(t) \/ UdpBind(t) \/ Cleanup(t)
  \/ Return(t) \/ Throw(t)

Next ==
  \/ \E t \in Threads :
       \/ \E s \in Slots, throwing \in BOOLEAN :
            \/ OpenFile(t, s, throwing)
            \/ \E k \in Kinds : BeginOpen(t, s, k, throwing)
       \/ \E s, d \in Slots : Accept(t, s, d)
       \/ \E s \in Slots : FailedIo(t, s)
       \/ ClearError(t)
       \/ Proceed(t)
  \/ \E s \in Slots : Close(s) \/ Destroy(s)
  \/ \E s, d \in Slots : MoveAssign(s, d) \/ Swap(s, d)

Spec == Init /\ [][Next]_vars

(* A thread inside a factory runs on: no system call of a factory blocks   *)
(* for ever (connect() ends at the latest with ETIMEDOUT).                 *)
FairSpec == Spec /\ \A t \in Threads : WF_vars(Proceed(t))

-----------------------------------------------------------------------------
(* Properties. *)

(* The types of the variables. *)
TypeOK ==
  /\ table \in [FD -> Entries]
  /\ held  \in [Holders -> FD \cup {NoFd}]
  /\ class \in [Slots -> AllKinds \cup {"null"}]
  /\ pc    \in [Threads -> Steps]
  /\ task  \in [Threads -> Tasks]
  /\ ec    \in [Threads -> BOOLEAN]
  /\ err   \in [Threads -> BOOLEAN]

Live(f) == table[f] \notin {"free", "inherited"}

(* x holds a descriptor that is open, and nobody else knows its number. *)
Owns(x) == /\ Live(held[x])
           /\ \A y \in Holders \ {x} : held[y] # held[x]

(* Objects own their descriptors exclusively, as the deleted copy          *)
(* constructors of device, file and the sockets declare: whatever the      *)
(* threads interleave, two objects never hold one descriptor, and no       *)
(* object keeps a number that is closed, to be reused for somebody else's  *)
(* file, so that no close() hits a stranger.                               *)
ObjectsOwn ==
  \A s \in Slots : held[s] # NoFd =>
    Live(held[s]) /\ \A d \in Slots \ {s} : held[d] # held[s]

(* The factories in progress, too, work on descriptors of their own: not a *)
(* number they have closed already, nor one that an object holds.          *)
Exclusive == \A x \in Holders : held[x] # NoFd => Owns(x)

(* Nothing leaks: an open descriptor always has an object or a call in     *)
(* progress that will close it or hand it on.                              *)
NoLeak == \A f \in FD : Live(f) => \E x \in Holders : held[x] = f

(* The descriptors the process had before stay as they are, and no object  *)
(* or call comes by one: not with an error_code that is not cleared, nor   *)
(* by way of a moved-from or null handle.                                  *)
StrangersKept ==
  /\ \A f \in Inherited : table[f] = "inherited"
  /\ \A x \in Holders : held[x] \notin Inherited

(* What the descriptor of an object is good for, by the object's class. *)
Promised(k) ==
  CASE k = "file" -> "file"
    [] k = "udp_socket" -> "socket"
    [] k = "udp_server" -> "bound"
    [] k \in {"local_server", "tcp_server"} -> "listening"
    [] k \in {"local_socket", "local_peer", "tcp_socket", "tcp_peer"} -> "connected"

(* An object handed over without an error is ready for use: its descriptor *)
(* is connected, bound or listening as the factory's name says, and stays  *)
(* so until the object is closed.                                          *)
Ready == \A s \in Slots : held[s] # NoFd => table[held[s]] = Promised(class[s])

ObjectsUndisturbed ==
  \A s \in Slots : held[s] # NoFd /\ held'[s] = held[s] =>
                     table'[held[s]] = table[held[s]]

(* A step that leaves an object its descriptor leaves the descriptor as it *)
(* is: no other thread's open, accept, failure path or close reaches it.   *)
Undisturbed == [][ObjectsUndisturbed]_vars

(* The way through a factory: no call goes back, or round a loop.  So a    *)
(* call that goes on ends after as many steps as there are places at most. *)
Way == [socket |-> 1, discard |-> 2, connect |-> 3, setsockopt |-> 4,
        bind |-> 5, listen |-> 6, cleanup |-> 7, return |-> 8, idle |-> 9]

(* Each system call of a factory brings it nearer to its end: no failure,  *)
(* discarded socket or old error sends it back to a call it has made.      *)
CallsAdvance ==
  [][\A t \in Threads : Proceed(t) => Way[pc[t]] < Way[pc[t]']]_vars

(* The descriptors that are open for the library. *)
OpenFds == {f \in FD : Live(f)}

(* The objects and the calls are owners of a unique handle: a descriptor   *)
(* comes into a free hand, goes from hand to hand by the moves, swaps and  *)
(* returns only, and is closed whenever its hand lets go of it.  What a    *)
(* descriptor is good for is no matter here, and those that were open      *)
(* before are not for anyone to own.                                       *)
Unique == INSTANCE Ownership WITH
  Owners <- Holders, Resources <- FD \ Inherited, Nothing <- NoFd,
  open <- OpenFds, owns <- held
IsOwnership == Unique!OwnershipSpec

(* Every factory call ends: with an object, an error or an exception. *)
CallsReturn == \A t \in Threads : pc[t] # "idle" ~> pc[t] = "idle"
=============================================================================
