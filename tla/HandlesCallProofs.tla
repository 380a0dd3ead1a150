------------------------- MODULE HandlesCallProofs -------------------------
(***************************************************************************)
(* Proofs about what the factory calls of Handles carry from system call   *)
(* to system call, and so about what they leave behind: that nothing leaks *)
(* and that every object handed over is ready for use.                     *)
(***************************************************************************)
EXTENDS HandlesProofs

-----------------------------------------------------------------------------
(* The descriptors of strangers.  Every step changes the table only where a *)
(* descriptor is free or held, and takes handles only from there.           *)

LEMMA StrangersClaim ==
  ASSUME TypeInv, StrangersKept, NEW x \in Holders, NEW entry, Allocate(x, entry)
  PROVE  StrangersKept'
<1>1. PICK f \in FD : /\ table[f] = "free"
                      /\ table' = [table EXCEPT ![f] = entry]
                      /\ held' = [held EXCEPT ![x] = f]
  BY DEF Allocate, IsLowest, Install
<1>2. f \notin Inherited /\ Inherited \subseteq FD
  BY <1>1, HandlesAssumption DEF StrangersKept
<1> QED
  BY <1>1, <1>2 DEF StrangersKept, TypeInv, TypeOK

LEMMA StrangersPass ==
  ASSUME TypeInv, StrangersKept,
         \/ table' = table
         \/ \E x \in Holders : \E entry : table' = [table EXCEPT ![held[x]] = entry],
         \A x \in Holders : held'[x] = NoFd \/ \E y \in Holders : held'[x] = held[y]
  PROVE  StrangersKept'
<1>1. NoFd \notin Inherited /\ Inherited \subseteq FD
  BY ConstantFacts, HandlesAssumption
<1>2. \A f \in Inherited : table'[f] = table[f]
  BY <1>1 DEF StrangersKept, TypeInv, TypeOK
<1>3. \A x \in Holders : held'[x] \notin Inherited
  BY <1>1 DEF StrangersKept
<1> QED
  BY <1>2, <1>3 DEF StrangersKept

LEMMA StrangersInit == Init => StrangersKept
BY ConstantFacts, HandlesAssumption DEF Init, StrangersKept

LEMMA StrangersStep ==
  ASSUME TypeInv, StrangersKept, [Next]_vars
  PROVE  StrangersKept'
<1>H. /\ \A t \in Threads : t \in Holders
      /\ \A s \in Slots : s \in Holders
      /\ held \in [Holders -> FD \cup {NoFd}]
  BY DEF Holders, TypeInv, TypeOK
<1>k. ASSUME UNCHANGED <<table, held>> PROVE StrangersKept'
  BY <1>k DEF StrangersKept
<1>c. ASSUME NEW t \in Threads, NEW entry,
             Allocate(t, entry) \/ UNCHANGED <<table, held>>
      PROVE  StrangersKept'
  BY <1>c, <1>k, <1>H, StrangersClaim
<1>m. ASSUME NEW t \in Threads, NEW entry, NEW v \in {NoFd, held[t]},
             table' = table \/ table' = [table EXCEPT ![held[t]] = entry],
             held' = held \/ held' = [held EXCEPT ![t] = v]
      PROVE  StrangersKept'
  <2>1. \A x \in Holders : held'[x] = NoFd \/ \E y \in Holders : held'[x] = held[y]
    BY <1>m, <1>H
  <2> QED
    BY <1>m, <1>H, <2>1, StrangersPass
<1>a. ASSUME NEW t \in Threads, NEW fault, NEW from, NEW entry, NEW next,
             NEW failure, Advance(t, fault, from, entry, next, failure)
      PROVE  StrangersKept'
  BY <1>a, <1>m DEF Advance, Install
<1>1. CASE UNCHANGED vars
  BY <1>1, <1>k DEF vars
<1>2. ASSUME NEW t \in Threads, NEW s \in Slots, NEW throwing \in BOOLEAN,
             OpenFile(t, s, throwing)
      PROVE  StrangersKept'
  BY <1>2, <1>c DEF OpenFile, CannotAllocate
<1>3. ASSUME NEW t \in Threads, NEW s \in Slots, NEW throwing \in BOOLEAN,
             NEW k \in Kinds, BeginOpen(t, s, k, throwing)
      PROVE  StrangersKept'
  BY <1>3, <1>k DEF BeginOpen
<1>4. ASSUME NEW t \in Threads, NEW s \in Slots, NEW d \in Slots, Accept(t, s, d)
      PROVE  StrangersKept'
  BY <1>4, <1>c DEF Accept, CannotAllocate
<1>5. ASSUME NEW t \in Threads, NEW s \in Slots, FailedIo(t, s)
      PROVE  StrangersKept'
  BY <1>5, <1>k DEF FailedIo
<1>6. ASSUME NEW t \in Threads, ClearError(t) PROVE StrangersKept'
  BY <1>6, <1>k DEF ClearError
<1>7. ASSUME NEW t \in Threads, Proceed(t) PROVE StrangersKept'
  <2>1. CASE LocalSocket(t)
    BY <2>1, <1>c DEF LocalSocket, CannotAllocate
  <2>2. CASE LocalConnect(t)
    BY <2>2, <1>m DEF LocalConnect, Install
  <2>3. CASE LocalBind(t)
    BY <2>3, <1>a DEF LocalBind
  <2>4. CASE LocalListen(t)
    BY <2>4, <1>a DEF LocalListen
  <2>5. CASE InetSocket(t)
    BY <2>5, <1>c DEF InetSocket, CannotAllocate
  <2>6. CASE InetDiscard(t)
    BY <2>6, <1>m DEF InetDiscard, Install
  <2>7. CASE TcpConnect(t)
    BY <2>7, <1>a DEF TcpConnect
  <2>8. CASE ReuseAddr(t)
    BY <2>8, <1>k DEF ReuseAddr
  <2>9. CASE TcpBind(t)
    BY <2>9, <1>a DEF TcpBind
  <2>10. CASE TcpListen(t)
    BY <2>10, <1>a DEF TcpListen
  <2>11. CASE UdpBind(t)
    BY <2>11, <1>a DEF UdpBind
  <2>12. CASE Cleanup(t)
    BY <2>12, <1>m DEF Cleanup, Install
  <2>13. CASE Return(t)
    <3> DEFINE s == task[t].slot
               h == IF ec[t] THEN NoFd ELSE held[t]
    <3>1. s \in Holders /\ t \in Holders
      BY <2>13, <1>H DEF Return, TypeInv, TaskShape
    <3>2. /\ table' = table \/ table' = [table EXCEPT ![held[s]] = "free"]
          /\ held' = [held EXCEPT ![s] = h, ![t] = NoFd]
      BY <2>13, CloseHandleCases DEF Return
    <3>3. h \in {NoFd, held[t]}
      OBVIOUS
    <3> HIDE DEF h, s
    <3>4. \A x \in Holders : held'[x] = NoFd \/ \E y \in Holders : held'[x] = held[y]
      BY <3>1, <3>2, <3>3, <1>H
    <3> QED
      BY <3>1, <3>2, <3>4, StrangersPass
  <2>14. CASE Throw(t)
    BY <2>14, <1>m DEF Throw
  <2> QED
    BY <1>7, <2>1, <2>2, <2>3, <2>4, <2>5, <2>6, <2>7, <2>8, <2>9, <2>10, <2>11,
       <2>12, <2>13, <2>14 DEF Proceed
<1>8. ASSUME NEW s \in Slots, Close(s) \/ Destroy(s) PROVE StrangersKept'
  <2>1. /\ held' = [held EXCEPT ![s] = NoFd]
        /\ table' = table \/ table' = [table EXCEPT ![held[s]] = "free"]
    BY <1>8, CloseHandleCases DEF Close, Destroy
  <2>2. \A x \in Holders : held'[x] = NoFd \/ \E y \in Holders : held'[x] = held[y]
    BY <2>1, <1>H
  <2> QED
    BY <2>1, <2>2, <1>H, StrangersPass
<1>9. ASSUME NEW s \in Slots, NEW d \in Slots, MoveAssign(s, d)
      PROVE  StrangersKept'
  <2>1. /\ held' = [held EXCEPT ![d] = held[s], ![s] = NoFd]
        /\ table' = table \/ table' = [table EXCEPT ![held[d]] = "free"]
    BY <1>9, CloseHandleCases DEF MoveAssign
  <2>2. \A x \in Holders : held'[x] = NoFd \/ \E y \in Holders : held'[x] = held[y]
    BY <2>1, <1>H
  <2> QED
    BY <2>1, <2>2, <1>H, StrangersPass
<1>10. ASSUME NEW s \in Slots, NEW d \in Slots, Swap(s, d) PROVE StrangersKept'
  <2>1. table' = table /\ held' = [held EXCEPT ![d] = held[s], ![s] = held[d]]
    BY <1>10 DEF Swap
  <2>2. \A x \in Holders : held'[x] = NoFd \/ \E y \in Holders : held'[x] = held[y]
    BY <2>1, <1>H
  <2> QED
    BY <2>1, <2>2, StrangersPass
<1> QED
  BY <1>1, <1>2, <1>3, <1>4, <1>5, <1>6, <1>7, <1>8, <1>9, <1>10 DEF Next

(* The descriptors open before the library is used are never closed, never  *)
(* bound or connected and never in an object, whatever the program does and *)
(* whether or not it clears its error_codes.                                *)
THEOREM StrangersUntouched == Spec => []StrangersKept
<1> DEFINE IInv == TypeInv /\ StrangersKept
<1>1. Init => IInv
  BY TypeInit, StrangersInit
<1>2. IInv /\ [Next]_vars => IInv'
  BY TypeStep, StrangersStep
<1> QED
  <2> HIDE DEF IInv
  <2>1. IInv => StrangersKept
    BY DEF IInv
  <2> QED
    BY <1>1, <1>2, <2>1, PTL DEF Spec

-----------------------------------------------------------------------------
(* What a call in progress carries from one system call to the next.        *)

(* No factory reports success without having finished its work: only a      *)
(* failing setsockopt() does that.                                          *)
Reusable ==
  "setsockopt" \in Faults => Kinds \cap {"tcp_server", "udp_server"} = {}

(* No descriptor is forgotten: an old error makes the return drop one, a    *)
(* failing connect() makes local::open forget one, and 0 is never closed.   *)
Careful ==
  /\ CallerClears /\ 0 \in Inherited
  /\ "local connect" \in Faults => "local_socket" \notin Kinds

(* The descriptor of a call is as far as the call is. *)
Carries(t) ==
  /\ pc[t] \in {"idle", "socket"} => held[t] = NoFd
  /\ pc[t] \in {"connect", "setsockopt", "bind"} => Entry(held[t]) = "socket"
  /\ pc[t] = "listen" => Entry(held[t]) = "bound"
  /\ pc[t] = "cleanup" => ec[t]

Promises(t) ==
  pc[t] = "return" /\ ~ec[t] => Entry(held[t]) = Promised(task[t].kind)

(* An error is new, and leaves the call without a descriptor at the end. *)
Clean(t) ==
  /\ pc[t] \notin {"cleanup", "return"} => ~ec[t]
  /\ pc[t] = "return" /\ ec[t] => held[t] = NoFd

Sound(t) == /\ Carries(t)
            /\ Reusable => Promises(t)
            /\ Careful => Clean(t)

CallsSound == \A t \in Threads : Sound(t)

LEMMA CallsSoundInit == Init => CallsSound
BY DEF Init, CallsSound, Sound, Carries, Promises, Clean, Holders

(* The other calls in progress carry on with what they have. *)
LEMMA OthersSound ==
  ASSUME TypeInv, CallsSound, NEW t \in Threads, NEW X, X \cap Threads \subseteq {t},
         OnlyThread(t), OthersKeep(X), Sound(t)'
  PROVE  CallsSound'
<1> SUFFICES ASSUME NEW u \in Threads, u # t PROVE Sound(u)'
  BY DEF CallsSound
<1>1. Sound(u)
  BY DEF CallsSound
<1>2. pc'[u] = pc[u] /\ task'[u] = task[u] /\ ec'[u] = ec[u]
  BY DEF OnlyThread
<1>3. held'[u] = held[u] /\ Entry(held[u])' = Entry(held[u])
  BY DEF OthersKeep, Untouched, Holders, Entry
<1>4. (Carries(u)' <=> Carries(u)) /\ (Promises(u)' <=> Promises(u))
      /\ (Clean(u)' <=> Clean(u))
  BY <1>2, <1>3 DEF Carries, Promises, Clean
<1> QED
  BY <1>1, <1>4 DEF Sound

LEMMA SlotsSound ==
  ASSUME TypeInv, CallsSound, NEW X, X \cap Threads = {}, OthersKeep(X),
         UNCHANGED <<pc, task, ec>>
  PROVE  CallsSound'
<1> SUFFICES ASSUME NEW u \in Threads PROVE Sound(u)'
  BY DEF CallsSound
<1>1. Sound(u)
  BY DEF CallsSound
<1>2. held'[u] = held[u] /\ Entry(held[u])' = Entry(held[u])
  BY DEF OthersKeep, Untouched, Holders, Entry
<1>3. (Carries(u)' <=> Carries(u)) /\ (Promises(u)' <=> Promises(u))
      /\ (Clean(u)' <=> Clean(u))
  BY <1>2 DEF Carries, Promises, Clean
<1> QED
  BY <1>1, <1>3 DEF Sound

(* The descriptor of a call after a step that obtains or marks one. *)
LEMMA ClaimEntry ==
  ASSUME TypeInv, NEW t \in Threads, NEW entry, Allocate(t, entry)
  PROVE  Entry(held[t])' = entry
<1>1. PICK f \in FD : /\ table' = [table EXCEPT ![f] = entry]
                      /\ held' = [held EXCEPT ![t] = f]
  BY DEF Allocate, Install
<1>2. held'[t] = f /\ table'[f] = entry /\ f # NoFd
  BY <1>1, ConstantFacts DEF TypeInv, TypeOK, Holders
<1> QED
  BY <1>2 DEF Entry

LEMMA MarkEntry ==
  ASSUME TypeInv, NEW t \in Threads, NEW entry, Entry(held[t]) # "free",
         table' = [table EXCEPT ![held[t]] = entry], held' = held
  PROVE  Entry(held[t])' = entry
<1>1. held[t] \in FD /\ held[t] # NoFd
  BY ConstantFacts DEF TypeInv, TypeOK, Holders, Entry
<1> QED
  BY <1>1 DEF Entry, TypeInv, TypeOK

(* A call that works on its descriptor with Advance keeps it in step; its   *)
(* failure path drops the descriptor, or is to close it.                    *)
LEMMA AdvanceSound ==
  ASSUME TypeInv, CallsSound, Exclusive, NEW t \in Threads,
         NEW at \in {"connect", "bind", "listen"}, NEW kinds, InCall(t, at, kinds),
         NEW fault, NEW from, NEW entry \in Opened,
         NEW next, NEW failure \in {"cleanup", "return"},
         Advance(t, fault, from, entry, next, failure),
         Entry(held[t]) # "free",
         \/ next = "listen" /\ entry = "bound"
         \/ next = "return" /\ entry = Promised(task[t].kind)
         \/ next = "cleanup" /\ ec[t],
         Careful => failure = "cleanup"
  PROVE  CallsSound'
<1>1. OthersKeep({t})
  BY MarkExclusive DEF Advance, Install, Holders
<1>2. CASE Succeed(t, next) /\ table' = [table EXCEPT ![held[t]] = entry] /\ held' = held
  <2>1. /\ OnlyThread(t) /\ pc[t] = at /\ pc'[t] = next
        /\ task'[t] = task[t] /\ ec'[t] = ec[t]
    BY <1>2, InCallMoves
  <2>2. Entry(held[t])' = entry
    BY <1>2, MarkEntry
  <2>3. Careful => ~ec'[t]
    BY <2>1 DEF CallsSound, Sound, Clean
  <2>4. CASE next = "listen" /\ entry = "bound"
    BY <2>1, <2>2, <2>3, <2>4, <1>1, OthersSound DEF Sound, Carries, Promises, Clean
  <2>5. CASE next = "return" /\ entry = Promised(task[t].kind)
    BY <2>1, <2>2, <2>3, <2>5, <1>1, OthersSound DEF Sound, Carries, Promises, Clean
  <2>6. CASE next = "cleanup" /\ ec[t]
    BY <2>1, <2>6, <1>1, OthersSound DEF Sound, Carries, Promises, Clean
  <2> QED
    BY <2>4, <2>5, <2>6
<1>3. CASE Fail(t, failure)
  <2>1. OnlyThread(t) /\ pc'[t] = failure
    BY <1>3, InCallMoves
  <2>2. ec'[t] = TRUE
    BY <1>3 DEF Fail, TypeInv, TypeOK
  <2>3. Sound(t)'
    BY <2>1, <2>2 DEF Sound, Carries, Promises, Clean
  <2> QED
    BY <2>1, <2>3, <1>1, OthersSound
<1> QED
  BY <1>2, <1>3 DEF Advance, Install

(* A call begins with a descriptor of its kind, or without one. *)
LEMMA BeginSound ==
  ASSUME TypeInv, CallsSound, Exclusive, NEW t \in Threads, NEW s, NEW k,
         NEW throwing \in BOOLEAN, NEW addrs, NEW step, NEW failed \in BOOLEAN,
         Begin(t, s, k, throwing, addrs, step, failed),
         \/ step = "socket" /\ ~failed /\ UNCHANGED <<table, held>>
         \/ step = "return" /\ failed /\ UNCHANGED <<table, held>>
         \/ /\ step = "return" /\ ~failed /\ Promised(k) \in Opened
            /\ Allocate(t, Promised(k))
  PROVE  CallsSound'
<1>1. /\ OnlyThread(t) /\ pc[t] = "idle" /\ pc'[t] = step /\ task'[t].kind = k
      /\ ec'[t] = (failed \/ EntryEc(t, throwing))
  BY BeginMoves
<1>2. Careful => ec'[t] = failed
  BY <1>1 DEF Careful, EntryEc
<1>3. held[t] = NoFd
  BY <1>1 DEF CallsSound, Sound, Carries
<1>4. CASE /\ UNCHANGED <<table, held>>
           /\ \/ step = "socket" /\ ~failed
              \/ step = "return" /\ failed
  <2>1. OthersKeep({t})
    BY <1>4 DEF OthersKeep, Untouched
  <2>2. step = "socket" => Sound(t)'
    BY <1>1, <1>2, <1>3, <1>4 DEF Sound, Carries, Promises, Clean
  <2>3. step = "return" /\ failed => Sound(t)'
    BY <1>1, <1>2, <1>3, <1>4 DEF Sound, Carries, Promises, Clean
  <2> QED
    BY <1>1, <1>4, <2>1, <2>2, <2>3, OthersSound
<1>5. CASE step = "return" /\ ~failed /\ Promised(k) \in Opened /\ Allocate(t, Promised(k))
  <2>1. OthersKeep({t}) /\ Entry(held[t])' = Promised(k)
    BY <1>5, ClaimExclusive, ClaimEntry DEF Holders
  <2>2. Sound(t)'
    BY <1>1, <1>2, <1>5, <2>1 DEF Sound, Carries, Promises, Clean
  <2> QED
    BY <1>1, <2>1, <2>2, OthersSound
<1> QED
  BY <1>4, <1>5

(* What Return does to the descriptors: the call's goes to the slot, or is  *)
(* dropped after an error.                                                  *)
LEMMA ReturnHands ==
  ASSUME TypeInv, Exclusive, NEW t \in Threads, Return(t)
  PROVE  \E s \in Slots :
           /\ task[t].slot = s
           /\ held' = [held EXCEPT ![s] = IF ec[t] THEN NoFd ELSE held[t],
                                   ![t] = NoFd]
           /\ held'[t] = NoFd /\ CloseHandle(held[s])
           /\ OthersKeep({t, s})
<1>1. PICK s \in Slots : s = task[t].slot
  BY DEF Return, TypeInv, TaskShape
<1>2. s \in Holders /\ t \in Holders /\ t # s
  BY ConstantFacts DEF Holders
<1> DEFINE h == IF ec[t] THEN NoFd ELSE held[t]
<1>3. /\ held' = [held EXCEPT ![s] = h, ![t] = NoFd] /\ CloseHandle(held[s])
      /\ h \in {NoFd, held[t]}
  BY <1>1 DEF Return
<1>4. table' = table \/ table' = [table EXCEPT ![held[s]] = "free"]
  BY <1>3, CloseHandleCases
<1>5. held'[t] = NoFd
  BY <1>2, <1>3 DEF TypeInv, TypeOK
<1>6. OthersKeep({t, s})
  <2> HIDE DEF h
  <2> QED
    BY <1>2, <1>3, <1>4, HandExclusive
<1> QED
  BY <1>1, <1>3, <1>5, <1>6

LEMMA CallsSoundStep ==
  ASSUME Disciplined, TypeInv, NeverDiscards, CallsMade, Exclusive,
         StrangersKept, CallsSound, [Next]_vars
  PROVE  CallsSound'
<1>o. {"file", "socket", "connected", "bound", "listening"} \subseteq Opened
  BY DEF Opened, Entries
<1>g. \A t \in Threads : Sound(t)
  BY DEF CallsSound
<1>k. ASSUME UNCHANGED <<table, held, pc, task, ec>> PROVE CallsSound'
  BY <1>k DEF CallsSound, Sound, Carries, Promises, Clean, Entry
(* A call without a descriptor fails. *)
<1>f. ASSUME NEW t \in Threads, UNCHANGED <<table, held>>, OnlyThread(t),
             held[t] = NoFd, pc'[t] = "return", ec'[t]
      PROVE  CallsSound'
  <2>1. OthersKeep({t})
    BY <1>f DEF OthersKeep, Untouched
  <2>2. Sound(t)'
    BY <1>f DEF Sound, Carries, Promises, Clean
  <2> QED
    BY <1>f, <2>1, <2>2, OthersSound
(* A call obtains its socket. *)
<1>s. ASSUME NEW t \in Threads, Allocate(t, "socket"), OnlyThread(t),
             ec'[t] = ec[t], pc[t] = "socket", task'[t] = task[t],
             \/ pc'[t] \in {"connect", "setsockopt", "bind"}
             \/ pc'[t] = "return" /\ Promised(task[t].kind) = "socket"
      PROVE  CallsSound'
  <2>1. OthersKeep({t}) /\ Entry(held[t])' = "socket"
    BY <1>s, <1>o, ClaimExclusive, ClaimEntry DEF Holders
  <2>2. Careful => ~ec[t]
    BY <1>s DEF CallsSound, Sound, Clean
  <2>3. CASE pc'[t] \in {"connect", "setsockopt", "bind"}
    BY <1>s, <2>1, <2>2, <2>3, OthersSound DEF Sound, Carries, Promises, Clean
  <2>4. CASE pc'[t] = "return" /\ Promised(task[t].kind) = "socket"
    BY <1>s, <2>1, <2>2, <2>4, OthersSound DEF Sound, Carries, Promises, Clean
  <2> QED
    BY <1>s, <2>3, <2>4
(* local::open_server closes whatever is not descriptor 0. *)
<1>e. ASSUME NEW t \in Threads, Entry(held[t]) # "free"
      PROVE  /\ LocalServerExit(t, TRUE) \in {"cleanup", "return"}
             /\ Careful => LocalServerExit(t, TRUE) = "cleanup" /\ held[t] > 0
  <2>1. held[t] \in FD /\ (0 \in Inherited => held[t] # 0)
    BY <1>e DEF Entry, TypeInv, TypeOK, Holders, StrangersKept
  <2>2. 0 \in Inherited => held[t] > 0
    <3>1. held[t] \in Nat
      BY <2>1, ConstantFacts
    <3> QED
      BY <2>1, <3>1
  <2> QED
    BY <2>2 DEF Careful, LocalServerExit
<1>1. CASE UNCHANGED vars
  BY <1>1, <1>k DEF vars
<1>2. ASSUME NEW t \in Threads, NEW s \in Slots, NEW throwing \in BOOLEAN,
             OpenFile(t, s, throwing)
      PROVE  CallsSound'
  <2>1. Promised("file") = "file"
    BY DEF Promised
  <2> QED
    BY <1>2, <2>1, <1>o, BeginSound DEF OpenFile, CannotAllocate
<1>3. ASSUME NEW t \in Threads, NEW s \in Slots, NEW throwing \in BOOLEAN,
             NEW k \in Kinds, BeginOpen(t, s, k, throwing)
      PROVE  CallsSound'
  <2>1. PICK n : \/ Begin(t, s, k, throwing, n, "socket", FALSE)
                 \/ Begin(t, s, k, throwing, n, "return", TRUE)
    BY <1>3 DEF BeginOpen
  <2>2. UNCHANGED <<table, held>>
    BY <1>3 DEF BeginOpen
  <2> QED
    BY <2>1, <2>2, BeginSound
<1>4. ASSUME NEW t \in Threads, NEW s \in Slots, NEW d \in Slots, Accept(t, s, d)
      PROVE  CallsSound'
  <2> DEFINE k == PeerOf[class[s]]
  <2>1. Promised(k) = "connected"
    BY <1>4 DEF Accept, PeerOf, Promised
  <2>2. \/ Allocate(t, "connected") /\ Begin(t, d, k, FALSE, 1, "return", FALSE)
        \/ UNCHANGED <<table, held>> /\ Begin(t, d, k, FALSE, 1, "return", TRUE)
    BY <1>4 DEF Accept, CannotAllocate
  <2> HIDE DEF k
  <2> QED
    BY <2>1, <2>2, <1>o, BeginSound
<1>5. ASSUME NEW t \in Threads, NEW s \in Slots, FailedIo(t, s) PROVE CallsSound'
  BY <1>5, <1>k DEF FailedIo
<1>6. ASSUME NEW t \in Threads, ClearError(t) PROVE CallsSound'
  BY <1>6, <1>k DEF ClearError
<1>7. ASSUME NEW t \in Threads, Proceed(t) PROVE CallsSound'
  <2>1. CASE LocalSocket(t)
    <3>1. InCall(t, "socket", LocalKinds)
      BY <2>1 DEF LocalSocket
    <3>2. held[t] = NoFd
      BY <3>1, <1>g DEF InCall, Sound, Carries
    <3>3. CASE UNCHANGED <<table, held>> /\ Fail(t, "return")
      <4>1. OnlyThread(t) /\ pc'[t] = "return"
        BY <3>1, <3>3, InCallMoves
      <4>2. ec'[t]
        BY <3>3 DEF Fail, TypeInv, TypeOK
      <4> QED
        BY <3>2, <3>3, <4>1, <4>2, <1>f
    <3>4. ASSUME NEW step \in {"connect", "bind"}, Succeed(t, step),
                 Allocate(t, "socket")
          PROVE  CallsSound'
      <4>1. /\ OnlyThread(t) /\ pc[t] = "socket" /\ pc'[t] = step
            /\ task'[t] = task[t] /\ ec'[t] = ec[t]
        BY <3>1, <3>4, InCallMoves
      <4> QED
        BY <3>4, <4>1, <1>s
    <3> QED
      BY <2>1, <3>3, <3>4 DEF LocalSocket, CannotAllocate
  <2>2. CASE LocalConnect(t)
    <3>1. InCall(t, "connect", {"local_socket"})
      BY <2>2 DEF LocalConnect
    <3>2. Entry(held[t]) = "socket" /\ (Careful => "local connect" \notin Faults)
      <4>1. Entry(held[t]) = "socket" /\ task[t].kind \in Kinds
        BY <3>1, <1>g DEF InCall, Sound, Carries, CallsMade, Peers
      <4>2. task[t].kind = "local_socket"
        BY <3>1 DEF InCall
      <4> QED
        BY <4>1, <4>2 DEF Careful
    <3>3. ASSUME NEW step \in {"cleanup", "return"}, step = "cleanup" => ec[t],
                 table' = [table EXCEPT ![held[t]] = "connected"], held' = held,
                 Succeed(t, step)
          PROVE  CallsSound'
      <4>1. /\ OnlyThread(t) /\ pc[t] = "connect" /\ task'[t] = task[t]
            /\ ec'[t] = ec[t] /\ task[t].kind \in {"local_socket"}
            /\ pc'[t] = step
        BY <3>1, <3>3, InCallMoves
      <4>2. Entry(held[t])' = "connected" /\ OthersKeep({t})
        BY <3>2, <3>3, <1>o, MarkEntry, MarkExclusive DEF Holders
      <4>3. Careful => ~ec[t]
        BY <4>1, <1>g DEF Sound, Clean
      <4>4. Promised(task'[t].kind) = "connected"
        BY <4>1 DEF Promised
      <4>5. Sound(t)'
        BY <3>3, <4>1, <4>2, <4>3, <4>4 DEF Sound, Carries, Promises, Clean
      <4> QED
        BY <4>1, <4>2, <4>5, OthersSound
    <3>4. CASE Fail(t, "return") /\ held' = [held EXCEPT ![t] = NoFd] /\ table' = table
      <4>1. OnlyThread(t) /\ pc'[t] = "return"
        BY <3>1, <3>4, InCallMoves
      <4>2. ec'[t] /\ held'[t] = NoFd /\ OthersKeep({t})
        BY <3>4, DropExclusive DEF Fail, TypeInv, TypeOK, Holders
      <4>3. Sound(t)'
        BY <4>1, <4>2 DEF Sound, Carries, Promises, Clean
      <4> QED
        BY <4>1, <4>2, <4>3, OthersSound
    <3> QED
      BY <2>2, <3>3, <3>4 DEF LocalConnect, Install
  <2>3. CASE LocalBind(t)
    <3>1. /\ InCall(t, "bind", {"local_server"})
          /\ Advance(t, "bind", {"socket"}, "bound", "listen", LocalServerExit(t, TRUE))
      BY <2>3 DEF LocalBind
    <3>2. Entry(held[t]) = "socket"
      BY <3>1, <1>g DEF InCall, Sound, Carries
    <3>3. /\ LocalServerExit(t, TRUE) \in {"cleanup", "return"}
          /\ Careful => LocalServerExit(t, TRUE) = "cleanup"
      BY <3>2, <1>e
    <3> QED
      BY <3>1, <3>2, <3>3, <1>o, AdvanceSound
  <2>4. CASE LocalListen(t)
    <3>1. /\ InCall(t, "listen", {"local_server"})
          /\ Advance(t, "listen", {"bound", "listening"}, "listening",
                     LocalServerExit(t, ec[t]), LocalServerExit(t, TRUE))
      BY <2>4 DEF LocalListen
    <3>2. Entry(held[t]) = "bound"
      BY <3>1, <1>g DEF InCall, Sound, Carries
    <3>3. /\ LocalServerExit(t, TRUE) \in {"cleanup", "return"}
          /\ Careful => LocalServerExit(t, TRUE) = "cleanup"
      BY <3>2, <1>e
    <3>4. \/ LocalServerExit(t, ec[t]) = "return"
          \/ LocalServerExit(t, ec[t]) = "cleanup" /\ ec[t]
      BY DEF LocalServerExit
    <3>5. Promised(task[t].kind) = "listening"
      BY <3>1 DEF InCall, Promised
    <3> QED
      BY <3>1, <3>2, <3>3, <3>4, <3>5, <1>o, AdvanceSound
  <2>5. CASE InetSocket(t)
    <3>1. /\ InCall(t, "socket", InetKinds) /\ held[t] = NoFd
          /\ ~ec[t] /\ task[t].kind \in InetKinds \cap Kinds
          /\ task[t].addrs <= MaxAddrs
      BY <2>5, <1>g DEF InetSocket, InCall, Sound, Carries, NeverDiscards
    <3>2. NextAddress(t) = "return"
      <4>1. MaxAddrs = 1 /\ task[t].addrs \in Nat
        BY <3>1, ConstantFacts DEF Disciplined, TypeInv, TypeOK, Tasks
      <4> QED
        BY <3>1, <4>1 DEF NextAddress
    <3>3. CASE UNCHANGED <<table, held>> /\ Fail(t, "return")
      <4>1. OnlyThread(t) /\ pc'[t] = "return"
        BY <3>1, <3>3, InCallMoves
      <4>2. ec'[t]
        BY <3>3 DEF Fail, TypeInv, TypeOK
      <4> QED
        BY <3>1, <3>3, <4>1, <4>2, <1>f
    <3>4. CASE Allocate(t, "socket") /\ Succeed(t, AfterInetSocket(task[t].kind))
      <4>1. /\ OnlyThread(t) /\ pc[t] = "socket" /\ task'[t] = task[t]
            /\ ec'[t] = ec[t] /\ pc'[t] = AfterInetSocket(task[t].kind)
        BY <3>1, <3>4, InCallMoves
      <4>2. \/ AfterInetSocket(task[t].kind) \in {"connect", "setsockopt", "bind"}
            \/ /\ AfterInetSocket(task[t].kind) = "return"
               /\ Promised(task[t].kind) = "socket"
        BY <3>1 DEF AfterInetSocket, Promised, InetKinds
      <4> QED
        BY <3>4, <4>1, <4>2, <1>s
    <3> QED
      BY <2>5, <3>1, <3>2, <3>3, <3>4 DEF InetSocket, CannotAllocate
  <2>6. CASE InetDiscard(t)
    BY <2>6 DEF InetDiscard, InCall, NeverDiscards
  <2>7. CASE TcpConnect(t)
    <3>1. /\ InCall(t, "connect", {"tcp_socket"})
          /\ Advance(t, "connect", {"socket", "bound"}, "connected", "return", "cleanup")
      BY <2>7 DEF TcpConnect
    <3>2. Entry(held[t]) = "socket" /\ Promised(task[t].kind) = "connected"
      BY <3>1, <1>g DEF InCall, Sound, Carries, Promised
    <3> QED
      BY <3>1, <3>2, <1>o, AdvanceSound
  <2>8. CASE ReuseAddr(t)
    <3>1. InCall(t, "setsockopt", {"tcp_server", "udp_server"})
      BY <2>8 DEF ReuseAddr
    <3>2. /\ Entry(held[t]) = "socket" /\ task[t].kind \in {"tcp_server", "udp_server"}
          /\ task[t].kind \in Kinds /\ (Careful => ~ec[t])
      BY <3>1, <1>g DEF InCall, Sound, Carries, Clean, CallsMade, Peers
    <3>3. /\ UNCHANGED <<table, held>>
          /\ Succeed(t, "bind") \/ (Succeed(t, "return") /\ ~Reusable)
      BY <2>8, <3>2 DEF ReuseAddr, Reusable
    <3>4. /\ OnlyThread(t) /\ task'[t] = task[t] /\ ec'[t] = ec[t]
          /\ pc'[t] = "bind" \/ (pc'[t] = "return" /\ ~Reusable)
      BY <3>1, <3>3, InCallMoves
    <3>5. OthersKeep({t}) /\ Entry(held[t])' = "socket"
      BY <3>2, <3>3 DEF OthersKeep, Untouched, Entry
    <3>6. Sound(t)'
      BY <3>2, <3>4, <3>5 DEF Sound, Carries, Promises, Clean
    <3> QED
      BY <3>4, <3>5, <3>6, OthersSound
  <2>9. CASE TcpBind(t)
    <3>1. /\ InCall(t, "bind", {"tcp_server"})
          /\ Advance(t, "bind", {"socket"}, "bound", "listen", "cleanup")
      BY <2>9 DEF TcpBind
    <3>2. Entry(held[t]) = "socket"
      BY <3>1, <1>g DEF InCall, Sound, Carries
    <3> QED
      BY <3>1, <3>2, <1>o, AdvanceSound
  <2>10. CASE TcpListen(t)
    <3>1. /\ InCall(t, "listen", {"tcp_server"})
          /\ Advance(t, "listen", {"socket", "bound", "listening"}, "listening",
                     "return", "cleanup")
      BY <2>10 DEF TcpListen
    <3>2. Entry(held[t]) = "bound" /\ Promised(task[t].kind) = "listening"
      BY <3>1, <1>g DEF InCall, Sound, Carries, Promised
    <3> QED
      BY <3>1, <3>2, <1>o, AdvanceSound
  <2>11. CASE UdpBind(t)
    <3>1. /\ InCall(t, "bind", {"udp_server"})
          /\ Advance(t, "bind", {"socket"}, "bound", "return", "cleanup")
      BY <2>11 DEF UdpBind
    <3>2. Entry(held[t]) = "socket" /\ Promised(task[t].kind) = "bound"
      BY <3>1, <1>g DEF InCall, Sound, Carries, Promised
    <3> QED
      BY <3>1, <3>2, <1>o, AdvanceSound
  <2>12. CASE Cleanup(t)
    <3>1. /\ InCall(t, "cleanup", AllKinds) /\ Succeed(t, "return")
          /\ held' = [held EXCEPT ![t] = NoFd]
          /\ table' = [table EXCEPT ![held[t]] = "free"]
      BY <2>12 DEF Cleanup, Install
    <3>2. OnlyThread(t) /\ pc[t] = "cleanup" /\ pc'[t] = "return" /\ ec'[t] = ec[t]
      BY <3>1, InCallMoves
    <3>3. ec'[t]
      BY <3>2, <1>g DEF Sound, Carries
    <3>4. OthersKeep({t}) /\ held'[t] = NoFd
      BY <3>1, DropExclusive DEF Holders, TypeInv, TypeOK
    <3>5. Sound(t)'
      BY <3>2, <3>3, <3>4 DEF Sound, Carries, Promises, Clean
    <3> QED
      BY <3>2, <3>4, <3>5, OthersSound
  <2>l. ASSUME Leave(t), held'[t] = NoFd, NEW X, X \cap Threads \subseteq {t},
               OthersKeep(X)
        PROVE  CallsSound'
    <3>1. OnlyThread(t) /\ pc'[t] = "idle" /\ ec'[t] = FALSE
      BY <2>l, LeaveMoves
    <3>2. Sound(t)'
      BY <2>l, <3>1 DEF Sound, Carries, Promises, Clean
    <3> QED
      BY <2>l, <3>1, <3>2, OthersSound
  <2>13. CASE Return(t)
    <3>1. PICK s \in Slots : held'[t] = NoFd /\ OthersKeep({t, s})
      BY <2>13, ReturnHands
    <3>2. {t, s} \cap Threads \subseteq {t}
      BY ConstantFacts
    <3> QED
      BY <2>13, <2>l, <3>1, <3>2 DEF Return
  <2>14. CASE Throw(t)
    <3>1. held'[t] = NoFd /\ OthersKeep({t})
      BY <2>14, DropExclusive DEF Throw, Holders, TypeInv, TypeOK
    <3> QED
      BY <2>14, <2>l, <3>1 DEF Throw
  <2> QED
    BY <1>7, <2>1, <2>2, <2>3, <2>4, <2>5, <2>6, <2>7, <2>8, <2>9, <2>10, <2>11,
       <2>12, <2>13, <2>14 DEF Proceed
<1>8. ASSUME NEW s \in Slots, Close(s) \/ Destroy(s) PROVE CallsSound'
  <2>1. /\ s \in Holders /\ held' = [held EXCEPT ![s] = NoFd]
        /\ table' = table \/ table' = [table EXCEPT ![held[s]] = "free"]
    BY <1>8, CloseHandleCases DEF Close, Destroy, Holders
  <2>2. OthersKeep({s}) /\ {s} \cap Threads = {}
    BY <2>1, DropExclusive, ConstantFacts
  <2> QED
    BY <1>8, <2>2, SlotsSound DEF Close, Destroy
<1>9. ASSUME NEW s \in Slots, NEW d \in Slots, MoveAssign(s, d) PROVE CallsSound'
  <2>1. /\ s \in Holders /\ d \in Holders /\ s # d
        /\ held' = [held EXCEPT ![d] = held[s], ![s] = NoFd]
        /\ table' = table \/ table' = [table EXCEPT ![held[d]] = "free"]
    BY <1>9, CloseHandleCases DEF MoveAssign, Exchangeable, Holders
  <2>2. OthersKeep({s, d}) /\ {s, d} \cap Threads = {}
    BY <2>1, HandExclusive, ConstantFacts
  <2> QED
    BY <1>9, <2>2, SlotsSound DEF MoveAssign
<1>10. ASSUME NEW s \in Slots, NEW d \in Slots, Swap(s, d) PROVE CallsSound'
  <2>1. /\ s \in Holders /\ d \in Holders /\ s # d /\ table' = table
        /\ held' = [held EXCEPT ![d] = held[s], ![s] = held[d]]
    BY <1>10 DEF Swap, Exchangeable, Holders
  <2>2. OthersKeep({s, d}) /\ {s, d} \cap Threads = {}
    BY <2>1, SwapExclusive, ConstantFacts
  <2> QED
    BY <1>10, <2>2, SlotsSound DEF Swap
<1> QED
  BY <1>1, <1>2, <1>3, <1>4, <1>5, <1>6, <1>7, <1>8, <1>9, <1>10 DEF Next

-----------------------------------------------------------------------------
(* Nothing leaks.  A step may take a holder's descriptor away only if it    *)
(* closes it or hands it to another holder.                                 *)

LEMMA NoLeakClaim ==
  ASSUME TypeInv, NoLeak, NEW x \in Holders, NEW entry, Allocate(x, entry),
         held[x] = NoFd
  PROVE  NoLeak'
<1> USE DEF TypeInv, TypeOK
<1>1. PICK f \in FD : /\ table' = [table EXCEPT ![f] = entry]
                      /\ held' = [held EXCEPT ![x] = f]
  BY DEF Allocate, Install
<1>2. ASSUME NEW g \in FD, Live(g)' PROVE \E y \in Holders : held'[y] = g
  <2>1. CASE g = f
    BY <1>1, <2>1
  <2>2. CASE g # f
    <3>1. Live(g)
      BY <1>1, <1>2, <2>2 DEF Live
    <3>2. PICK y \in Holders : held[y] = g
      BY <3>1 DEF NoLeak
    <3>3. y # x
      BY <3>2, ConstantFacts
    <3> QED
      BY <1>1, <3>2, <3>3
  <2> QED
    BY <2>1, <2>2
<1> QED
  BY <1>2 DEF NoLeak

LEMMA NoLeakMark ==
  ASSUME TypeInv, NoLeak, NEW x \in Holders, NEW entry, held' = held,
         table' = table \/ table' = [table EXCEPT ![held[x]] = entry]
  PROVE  NoLeak'
<1> USE DEF TypeInv, TypeOK
<1>1. ASSUME NEW g \in FD, Live(g)' PROVE \E y \in Holders : held'[y] = g
  <2>1. g = held[x] \/ Live(g)
    BY <1>1 DEF Live
  <2> QED
    BY <2>1 DEF NoLeak
<1> QED
  BY <1>1 DEF NoLeak

LEMMA NoLeakDrop ==
  ASSUME TypeInv, NoLeak, NEW x \in Holders, held' = [held EXCEPT ![x] = NoFd],
         table' = [table EXCEPT ![held[x]] = "free"]
  PROVE  NoLeak'
<1> USE DEF TypeInv, TypeOK
<1>1. ASSUME NEW g \in FD, Live(g)' PROVE \E y \in Holders : held'[y] = g
  <2>1. g # held[x] /\ Live(g)
    BY <1>1 DEF Live
  <2>2. PICK y \in Holders : held[y] = g
    BY <2>1 DEF NoLeak
  <2> QED
    BY <2>1, <2>2
<1> QED
  BY <1>1 DEF NoLeak

LEMMA NoLeakHand ==
  ASSUME TypeInv, NoLeak, NEW x \in Holders, NEW y \in Holders, x # y,
         held' = [held EXCEPT ![y] = held[x], ![x] = NoFd],
         table' = [table EXCEPT ![held[y]] = "free"]
  PROVE  NoLeak'
<1> USE DEF TypeInv, TypeOK
<1>1. ASSUME NEW g \in FD, Live(g)' PROVE \E z \in Holders : held'[z] = g
  <2>1. g # held[y] /\ Live(g)
    BY <1>1 DEF Live
  <2>2. PICK z \in Holders : held[z] = g
    BY <2>1 DEF NoLeak
  <2>3. CASE z = x
    BY <2>2, <2>3
  <2>4. CASE z # x
    BY <2>1, <2>2, <2>4
  <2> QED
    BY <2>3, <2>4
<1> QED
  BY <1>1 DEF NoLeak

LEMMA NoLeakSwap ==
  ASSUME TypeInv, NoLeak, NEW x \in Holders, NEW y \in Holders, x # y,
         table' = table, held' = [held EXCEPT ![y] = held[x], ![x] = held[y]]
  PROVE  NoLeak'
<1> USE DEF TypeInv, TypeOK
<1>1. ASSUME NEW g \in FD, Live(g)' PROVE \E z \in Holders : held'[z] = g
  <2>1. PICK z \in Holders : held[z] = g
    BY <1>1 DEF NoLeak, Live
  <2> QED
    BY <2>1
<1> QED
  BY <1>1 DEF NoLeak

(* close() does close what an object holds: it is never descriptor 0. *)
LEMMA CarefulClose ==
  ASSUME TypeInv, StrangersKept, Careful, NEW x \in Holders, CloseHandle(held[x])
  PROVE  table' = [table EXCEPT ![held[x]] = "free"]
<1>1. held[x] # 0 /\ held[x] \in FD \cup {NoFd}
  BY DEF StrangersKept, Careful, TypeInv, TypeOK
<1>2. held[x] > 0 \/ held[x] = NoFd
  <2>1. CASE held[x] \in FD
    <3>1. held[x] \in Nat
      BY <2>1, ConstantFacts
    <3> QED
      BY <1>1, <3>1
  <2> QED
    BY <1>1, <2>1
<1>3. CASE held[x] > 0
  BY <1>3 DEF CloseHandle
<1>4. CASE held[x] = NoFd
  <2>1. table' = table
    BY <1>4 DEF CloseHandle, NoFd
  <2> QED
    BY <1>4, <2>1, ConstantFacts DEF TypeInv, TypeOK
<1> QED
  BY <1>2, <1>3, <1>4

LEMMA NoLeakInit == Init => NoLeak
BY DEF Init, NoLeak, Live

LEMMA NoLeakStep ==
  ASSUME Disciplined, Careful, TypeInv, NeverDiscards, CallsMade, Exclusive,
         StrangersKept, CallsSound, NoLeak, [Next]_vars
  PROVE  NoLeak'
<1>h. \A t \in Threads : t \in Holders
  BY DEF Holders
<1>g. \A t \in Threads : Carries(t) /\ Clean(t)
  BY DEF CallsSound, Sound
<1>k. ASSUME UNCHANGED <<table, held>> PROVE NoLeak'
  BY <1>k DEF NoLeak, Live
<1>c. ASSUME NEW t \in Threads, NEW entry, pc[t] \in {"idle", "socket"},
             Allocate(t, entry) \/ UNCHANGED <<table, held>>
      PROVE  NoLeak'
  <2>1. held[t] = NoFd
    BY <1>c, <1>g DEF Carries
  <2> QED
    BY <1>c, <1>h, <1>k, <2>1, NoLeakClaim
<1>a. ASSUME NEW t \in Threads, NEW fault, NEW from, NEW entry, NEW next,
             NEW failure, Advance(t, fault, from, entry, next, failure)
      PROVE  NoLeak'
  BY <1>a, <1>h, NoLeakMark DEF Advance, Install
<1>1. CASE UNCHANGED vars
  BY <1>1, <1>k DEF vars
<1>2. ASSUME NEW t \in Threads, NEW s \in Slots, NEW throwing \in BOOLEAN,
             OpenFile(t, s, throwing)
      PROVE  NoLeak'
  BY <1>2, <1>c DEF OpenFile, CannotAllocate, Begin
<1>3. ASSUME NEW t \in Threads, NEW s \in Slots, NEW throwing \in BOOLEAN,
             NEW k \in Kinds, BeginOpen(t, s, k, throwing)
      PROVE  NoLeak'
  BY <1>3, <1>k DEF BeginOpen
<1>4. ASSUME NEW t \in Threads, NEW s \in Slots, NEW d \in Slots, Accept(t, s, d)
      PROVE  NoLeak'
  <2>1. pc[t] = "idle"
    BY <1>4, AcceptMoves
  <2>2. Allocate(t, "connected") \/ UNCHANGED <<table, held>>
    BY <1>4 DEF Accept, CannotAllocate
  <2> QED
    BY <2>1, <2>2, <1>c
<1>5. ASSUME NEW t \in Threads, NEW s \in Slots, FailedIo(t, s) PROVE NoLeak'
  BY <1>5, <1>k DEF FailedIo
<1>6. ASSUME NEW t \in Threads, ClearError(t) PROVE NoLeak'
  BY <1>6, <1>k DEF ClearError
<1>7. ASSUME NEW t \in Threads, Proceed(t) PROVE NoLeak'
  <2>1. CASE LocalSocket(t)
    BY <2>1, <1>c DEF LocalSocket, InCall, CannotAllocate
  <2>2. CASE LocalConnect(t)
    <3>1. Entry(held[t]) = "socket" /\ "local connect" \notin Faults
      <4>1. Entry(held[t]) = "socket" /\ task[t].kind = "local_socket"
        BY <2>2, <1>g DEF LocalConnect, InCall, Carries
      <4>2. "local_socket" \in Kinds
        BY <2>2, <4>1 DEF LocalConnect, InCall, CallsMade, Peers
      <4> QED
        BY <4>1, <4>2 DEF Careful
    <3> QED
      BY <2>2, <3>1, <1>h, NoLeakMark DEF LocalConnect, Install
  <2>3. CASE LocalBind(t)
    BY <2>3, <1>a DEF LocalBind
  <2>4. CASE LocalListen(t)
    BY <2>4, <1>a DEF LocalListen
  <2>5. CASE InetSocket(t)
    BY <2>5, <1>c DEF InetSocket, InCall, CannotAllocate
  <2>6. CASE InetDiscard(t)
    BY <2>6 DEF InetDiscard, InCall, NeverDiscards
  <2>7. CASE TcpConnect(t)
    BY <2>7, <1>a DEF TcpConnect
  <2>8. CASE ReuseAddr(t)
    BY <2>8, <1>k DEF ReuseAddr
  <2>9. CASE TcpBind(t)
    BY <2>9, <1>a DEF TcpBind
  <2>10. CASE TcpListen(t)
    BY <2>10, <1>a DEF TcpListen
  <2>11. CASE UdpBind(t)
    BY <2>11, <1>a DEF UdpBind
  <2>12. CASE Cleanup(t)
    BY <2>12, <1>h, NoLeakDrop DEF Cleanup, Install
  <2>13. CASE Return(t)
    <3>1. pc[t] = "return" /\ (ec[t] => held[t] = NoFd)
      BY <2>13, <1>g DEF Return, Clean
    <3>2. PICK s \in Slots :
            /\ held' = [held EXCEPT ![s] = IF ec[t] THEN NoFd ELSE held[t],
                                    ![t] = NoFd]
            /\ CloseHandle(held[s])
      BY <2>13, ReturnHands
    <3>3. s \in Holders /\ s # t
      BY ConstantFacts DEF Holders
    <3>4. held' = [held EXCEPT ![s] = held[t], ![t] = NoFd]
      BY <3>1, <3>2
    <3> QED
      BY <3>2, <3>3, <3>4, <1>h, CarefulClose, NoLeakHand
  <2>14. CASE Throw(t)
    <3>1. held[t] = NoFd
      BY <2>14, <1>g DEF Throw, Clean
    <3>2. UNCHANGED <<table, held>>
      BY <2>14, <3>1 DEF Throw, TypeInv, TypeOK
    <3> QED
      BY <3>2, <1>k
  <2> QED
    BY <1>7, <2>1, <2>2, <2>3, <2>4, <2>5, <2>6, <2>7, <2>8, <2>9, <2>10, <2>11,
       <2>12, <2>13, <2>14 DEF Proceed
<1>8. ASSUME NEW s \in Slots, Close(s) \/ Destroy(s) PROVE NoLeak'
  <2>1. s \in Holders /\ held' = [held EXCEPT ![s] = NoFd] /\ CloseHandle(held[s])
    BY <1>8 DEF Close, Destroy, Holders
  <2> QED
    BY <2>1, CarefulClose, NoLeakDrop
<1>9. ASSUME NEW s \in Slots, NEW d \in Slots, MoveAssign(s, d) PROVE NoLeak'
  <2>1. /\ s \in Holders /\ d \in Holders /\ s # d /\ CloseHandle(held[d])
        /\ held' = [held EXCEPT ![d] = held[s], ![s] = NoFd]
    BY <1>9 DEF MoveAssign, Exchangeable, Holders
  <2> QED
    BY <2>1, CarefulClose, NoLeakHand
<1>10. ASSUME NEW s \in Slots, NEW d \in Slots, Swap(s, d) PROVE NoLeak'
  BY <1>10, NoLeakSwap DEF Swap, Exchangeable, Holders
<1> QED
  BY <1>1, <1>2, <1>3, <1>4, <1>5, <1>6, <1>7, <1>8, <1>9, <1>10 DEF Next

(* What all the calls and objects of a disciplined program keep to. *)
CallInv == /\ TypeInv /\ NeverDiscards /\ CallsMade /\ Exclusive
           /\ StrangersKept /\ CallsSound

LEMMA CallInvInit == Init => CallInv
BY TypeInit, NeverDiscardsInit, CallsMadeInit, ExclusiveInit, StrangersInit,
   CallsSoundInit DEF CallInv

LEMMA CallInvStep ==
  ASSUME Disciplined, CallInv, [Next]_vars
  PROVE  CallInv'
<1> USE DEF CallInv
<1>1. TypeInv' /\ NeverDiscards' /\ CallsMade' /\ StrangersKept'
  BY TypeStep, NeverDiscardsStep, CallsMadeStep, StrangersStep
<1>2. Exclusive' /\ CallsSound'
  BY ExclusiveStep, CallsSoundStep
<1> QED
  BY <1>1, <1>2

(* No descriptor leaks from a disciplined program in whose process stdin is *)
(* open and whose local sockets connect: each stays with an object or with  *)
(* a call that will close it or hand it on, whatever else fails.            *)
THEOREM NothingLeaks ==
  ASSUME Disciplined, Careful
  PROVE  Spec => []NoLeak
<1> DEFINE IInv == CallInv /\ NoLeak
<1>1. Init => IInv
  BY CallInvInit, NoLeakInit
<1>2. IInv /\ [Next]_vars => IInv'
  BY CallInvStep, NoLeakStep DEF CallInv
<1> QED
  <2> HIDE DEF IInv
  <2>1. IInv => NoLeak
    BY DEF IInv
  <2> QED
    BY <1>1, <1>2, <2>1, PTL DEF Spec

-----------------------------------------------------------------------------
(* Objects are ready for use. *)

(* A step of a call that hands nothing over leaves the objects as they are. *)
LEMMA ReadyThread ==
  ASSUME TypeInv, Ready, NEW t \in Threads, OthersKeep({t}), class' = class
  PROVE  Ready'
BY ConstantFacts DEF OthersKeep, Untouched, Ready, Holders

(* A slot takes over a descriptor that is what its class promises.  The     *)
(* other slots in X are left without one.                                   *)
LEMMA ReadyHand ==
  ASSUME TypeInv, Ready, NEW X, OthersKeep(X),
         \A s \in Slots \ X : class'[s] = class[s],
         \A s \in Slots \cap X :
           held'[s] # NoFd => table'[held'[s]] = Promised(class'[s])
  PROVE  Ready'
<1> SUFFICES ASSUME NEW s \in Slots, held'[s] # NoFd
             PROVE  table'[held'[s]] = Promised(class'[s])
  BY DEF Ready, Promised
<1>1. CASE s \in X
  BY <1>1
<1>2. CASE s \notin X
  BY <1>2 DEF OthersKeep, Untouched, Ready, Holders
<1> QED
  BY <1>1, <1>2

(* The descriptor somebody holds is left alone when another's is closed. *)
LEMMA CloseLeaves ==
  ASSUME TypeInv, Exclusive, NEW x \in Holders, NEW y \in Holders, x # y,
         CloseHandle(held[y]), held[x] # NoFd
  PROVE  table'[held[x]] = table[held[x]]
BY CloseHandleCases DEF TypeInv, TypeOK, Exclusive, Owns

LEMMA ReadyInit == Init => Ready
BY DEF Init, Ready, Holders

LEMMA ReadyStep ==
  ASSUME Disciplined, Reusable, TypeInv, TypeInv', NeverDiscards, Exclusive,
         CallsSound, Ready, [Next]_vars
  PROVE  Ready'
<1>h. /\ \A t \in Threads : t \in Holders
      /\ \A s \in Slots : s \in Holders
      /\ held \in [Holders -> FD \cup {NoFd}]
      /\ class \in [Slots -> AllKinds \cup {"null"}]
  BY DEF Holders, TypeInv, TypeOK
<1>o. {"file", "socket", "connected", "bound", "listening"} \subseteq Opened
  BY DEF Opened, Entries
<1>k. ASSUME UNCHANGED <<table, held, class>> PROVE Ready'
  BY <1>k DEF Ready
<1>c. ASSUME NEW t \in Threads, NEW entry \in Opened, class' = class,
             Allocate(t, entry) \/ UNCHANGED <<table, held>>
      PROVE  Ready'
  BY <1>c, <1>h, <1>k, ClaimExclusive, ReadyThread
<1>m. ASSUME NEW t \in Threads, NEW entry \in Opened, class' = class, held' = held,
             table' = table \/ table' = [table EXCEPT ![held[t]] = entry]
      PROVE  Ready'
  BY <1>m, <1>h, MarkExclusive, ReadyThread
<1>d. ASSUME NEW t \in Threads, class' = class, held' = [held EXCEPT ![t] = NoFd],
             table' = table \/ table' = [table EXCEPT ![held[t]] = "free"]
      PROVE  Ready'
  BY <1>d, <1>h, DropExclusive, ReadyThread
<1>a. ASSUME NEW t \in Threads, NEW at, NEW kinds, InCall(t, at, kinds),
             NEW fault, NEW from, NEW entry \in Opened, NEW next, NEW failure,
             Advance(t, fault, from, entry, next, failure)
      PROVE  Ready'
  BY <1>a, <1>m DEF Advance, Install, InCall
<1>1. CASE UNCHANGED vars
  BY <1>1, <1>k DEF vars
<1>2. ASSUME NEW t \in Threads, NEW s \in Slots, NEW throwing \in BOOLEAN,
             OpenFile(t, s, throwing)
      PROVE  Ready'
  BY <1>2, <1>c, <1>o DEF OpenFile, CannotAllocate, Begin
<1>3. ASSUME NEW t \in Threads, NEW s \in Slots, NEW throwing \in BOOLEAN,
             NEW k \in Kinds, BeginOpen(t, s, k, throwing)
      PROVE  Ready'
  BY <1>3, <1>k DEF BeginOpen, Begin
<1>4. ASSUME NEW t \in Threads, NEW s \in Slots, NEW d \in Slots, Accept(t, s, d)
      PROVE  Ready'
  <2>1. class' = class
    BY <1>4, AcceptMoves
  <2>2. Allocate(t, "connected") \/ UNCHANGED <<table, held>>
    BY <1>4 DEF Accept, CannotAllocate
  <2> QED
    BY <2>1, <2>2, <1>c, <1>o
<1>5. ASSUME NEW t \in Threads, NEW s \in Slots, FailedIo(t, s) PROVE Ready'
  BY <1>5, <1>k DEF FailedIo
<1>6. ASSUME NEW t \in Threads, ClearError(t) PROVE Ready'
  BY <1>6, <1>k DEF ClearError
<1>7. ASSUME NEW t \in Threads, Proceed(t) PROVE Ready'
  <2>1. CASE LocalSocket(t)
    BY <2>1, <1>c, <1>o DEF LocalSocket, InCall, CannotAllocate
  <2>2. CASE LocalConnect(t)
    BY <2>2, <1>m, <1>d, <1>o DEF LocalConnect, InCall, Install
  <2>3. CASE LocalBind(t)
    BY <2>3, <1>a, <1>o DEF LocalBind
  <2>4. CASE LocalListen(t)
    BY <2>4, <1>a, <1>o DEF LocalListen
  <2>5. CASE InetSocket(t)
    BY <2>5, <1>c, <1>o DEF InetSocket, InCall, CannotAllocate
  <2>6. CASE InetDiscard(t)
    BY <2>6 DEF InetDiscard, InCall, NeverDiscards
  <2>7. CASE TcpConnect(t)
    BY <2>7, <1>a, <1>o DEF TcpConnect
  <2>8. CASE ReuseAddr(t)
    BY <2>8, <1>k DEF ReuseAddr, InCall
  <2>9. CASE TcpBind(t)
    BY <2>9, <1>a, <1>o DEF TcpBind
  <2>10. CASE TcpListen(t)
    BY <2>10, <1>a, <1>o DEF TcpListen
  <2>11. CASE UdpBind(t)
    BY <2>11, <1>a, <1>o DEF UdpBind
  <2>12. CASE Cleanup(t)
    BY <2>12, <1>d DEF Cleanup, InCall, Install
  <2>13. CASE Return(t)
    <3>1. PICK s \in Slots :
            /\ task[t].slot = s /\ OthersKeep({t, s}) /\ CloseHandle(held[s])
            /\ held' = [held EXCEPT ![s] = IF ec[t] THEN NoFd ELSE held[t],
                                    ![t] = NoFd]
      BY <2>13, ReturnHands
    <3>2. class' = [class EXCEPT ![s] = IF ec[t] THEN Null(s) ELSE task[t].kind]
      BY <2>13, <3>1 DEF Return
    <3>3. s # t
      BY ConstantFacts
    <3>4. held'[s] = IF ec[t] THEN NoFd ELSE held[t]
      BY <3>1, <3>3, <1>h
    <3>5. ASSUME held'[s] # NoFd PROVE table'[held'[s]] = Promised(class'[s])
      <4>1. ~ec[t] /\ held'[s] = held[t] /\ held[t] # NoFd
        BY <3>4, <3>5
      <4>2. table[held[t]] = Promised(task[t].kind)
        BY <2>13, <4>1 DEF Return, CallsSound, Sound, Promises, Entry
      <4>3. table'[held[t]] = table[held[t]]
        BY <3>1, <3>3, <4>1, <1>h, CloseLeaves
      <4>4. class'[s] = task[t].kind
        BY <3>2, <4>1, <1>h
      <4> QED
        BY <4>1, <4>2, <4>3, <4>4
    <3>6. /\ \A d \in Slots \ {t, s} : class'[d] = class[d]
          /\ \A d \in Slots \cap {t, s} : d = s
      BY <3>2, <1>h, ConstantFacts
    <3> QED
      BY <3>1, <3>5, <3>6, ReadyHand
  <2>14. CASE Throw(t)
    BY <2>14, <1>d DEF Throw
  <2> QED
    BY <1>7, <2>1, <2>2, <2>3, <2>4, <2>5, <2>6, <2>7, <2>8, <2>9, <2>10, <2>11,
       <2>12, <2>13, <2>14 DEF Proceed
<1>8. ASSUME NEW s \in Slots, Close(s) \/ Destroy(s) PROVE Ready'
  <2>1. /\ held' = [held EXCEPT ![s] = NoFd]
        /\ table' = table \/ table' = [table EXCEPT ![held[s]] = "free"]
        /\ \A d \in Slots \ {s} : class'[d] = class[d]
    BY <1>8, <1>h, CloseHandleCases DEF Close, Destroy
  <2>2. OthersKeep({s}) /\ held'[s] = NoFd
    BY <2>1, <1>h, DropExclusive
  <2> QED
    BY <2>1, <2>2, ReadyHand
<1>9. ASSUME NEW s \in Slots, NEW d \in Slots, MoveAssign(s, d) PROVE Ready'
  <2>1. /\ s # d /\ CloseHandle(held[d])
        /\ held' = [held EXCEPT ![d] = held[s], ![s] = NoFd]
        /\ class' = [class EXCEPT ![d] = class[s], ![s] = Null(s)]
    BY <1>9 DEF MoveAssign, Exchangeable
  <2>2. OthersKeep({s, d})
    BY <2>1, <1>h, CloseHandleCases, HandExclusive
  <2>3. held'[s] = NoFd /\ held'[d] = held[s] /\ class'[d] = class[s]
    BY <2>1, <1>h
  <2>4. \A e \in Slots \ {s, d} : class'[e] = class[e]
    BY <2>1, <1>h
  <2>5. held[s] # NoFd => table'[held[s]] = Promised(class[s])
    BY <2>1, <1>h, CloseLeaves DEF Ready
  <2> QED
    BY <2>2, <2>3, <2>4, <2>5, ReadyHand
<1>10. ASSUME NEW s \in Slots, NEW d \in Slots, Swap(s, d) PROVE Ready'
  <2>1. /\ s # d /\ table' = table
        /\ held' = [held EXCEPT ![d] = held[s], ![s] = held[d]]
        /\ class' = [class EXCEPT ![d] = class[s], ![s] = class[d]]
    BY <1>10 DEF Swap, Exchangeable
  <2>2. OthersKeep({s, d})
    BY <2>1, <1>h, SwapExclusive
  <2>3. /\ held'[s] = held[d] /\ held'[d] = held[s]
        /\ class'[s] = class[d] /\ class'[d] = class[s]
    BY <2>1, <1>h
  <2>4. \A e \in Slots \ {s, d} : class'[e] = class[e]
    BY <2>1, <1>h
  <2>5. /\ held[s] # NoFd => table'[held[s]] = Promised(class[s])
        /\ held[d] # NoFd => table'[held[d]] = Promised(class[d])
    BY <2>1 DEF Ready
  <2> QED
    BY <2>2, <2>3, <2>4, <2>5, ReadyHand
<1> QED
  BY <1>1, <1>2, <1>3, <1>4, <1>5, <1>6, <1>7, <1>8, <1>9, <1>10 DEF Next

(* Every object of a disciplined program is what its factory's name says:   *)
(* connected, bound or listening, and stays so until it is closed.  A       *)
(* setsockopt() that fails in a TCP or UDP server's factory is the one      *)
(* failure that is not reported.                                            *)
THEOREM ObjectsReady ==
  ASSUME Disciplined, Reusable
  PROVE  Spec => []Ready
<1> DEFINE IInv == CallInv /\ Ready
<1>1. Init => IInv
  BY CallInvInit, ReadyInit
<1>2. IInv /\ [Next]_vars => IInv'
  <2> SUFFICES ASSUME IInv, [Next]_vars PROVE IInv'
    OBVIOUS
  <2>1. CallInv'
    BY CallInvStep
  <2>2. Ready'
    BY <2>1, ReadyStep DEF CallInv
  <2> QED
    BY <2>1, <2>2
<1> QED
  <2> HIDE DEF IInv
  <2>1. IInv => Ready
    BY DEF IInv
  <2> QED
    BY <1>1, <1>2, <2>1, PTL DEF Spec

-----------------------------------------------------------------------------
(* Calls go forward.                                                        *)

(* One address at most: the loop over them is not gone round. *)
OneAddress == MaxAddrs = 1 \/ Kinds \cap InetKinds = {}

LEMMA WayForward ==
  ASSUME OneAddress, TypeInv, CallsMade, NEW t \in Threads, Proceed(t)
  PROVE  Way[pc[t]] < Way[pc'[t]]
<1> USE DEF Way
<1>i. ASSUME NEW from, NEW kinds, InCall(t, from, kinds),
             NEW step, Succeed(t, step) \/ Fail(t, step), Way[from] < Way[step]
      PROVE  Way[pc[t]] < Way[pc'[t]]
  BY <1>i, InCallMoves
<1>a. ASSUME NEW at, NEW kinds, InCall(t, at, kinds), NEW fault, NEW from,
             NEW entry, NEW next, NEW failure,
             Advance(t, fault, from, entry, next, failure),
             Way[at] < Way[next], Way[at] < Way[failure]
      PROVE  Way[pc[t]] < Way[pc'[t]]
  BY <1>a, <1>i DEF Advance
<1>1. CASE LocalSocket(t)
  <2>1. PICK step \in {"connect", "bind", "return"} : Succeed(t, step) \/ Fail(t, step)
    BY <1>1 DEF LocalSocket
  <2>2. InCall(t, "socket", LocalKinds)
    BY <1>1 DEF LocalSocket
  <2> QED
    BY <1>i, <2>1, <2>2
<1>2. CASE LocalConnect(t)
  <2>1. PICK step \in {"cleanup", "return"} : Succeed(t, step) \/ Fail(t, step)
    BY <1>2 DEF LocalConnect
  <2>2. InCall(t, "connect", {"local_socket"})
    BY <1>2 DEF LocalConnect
  <2> QED
    BY <1>i, <2>1, <2>2
<1>3. CASE LocalBind(t)
  BY <1>3, <1>a DEF LocalBind, LocalServerExit
<1>4. CASE LocalListen(t)
  BY <1>4, <1>a DEF LocalListen, LocalServerExit
<1>5. CASE InetSocket(t)
  <2>1. InCall(t, "socket", InetKinds) /\ task[t].kind \in InetKinds
    BY <1>5 DEF InetSocket, InCall
  <2>2. MaxAddrs = 1
    <3>1. task[t].kind \in Kinds
      BY <2>1 DEF InCall, CallsMade, Peers, InetKinds
    <3> QED
      BY <2>1, <3>1 DEF OneAddress
  <2>3. NextAddress(t) = "return"
    <3>1. task[t].addrs \in 1 .. 1
      BY <2>2 DEF TypeInv, TypeOK, Tasks
    <3> QED
      BY <3>1 DEF NextAddress
  <2>4. AfterInetSocket(task[t].kind) \in {"connect", "setsockopt", "return"}
    BY <2>1 DEF AfterInetSocket, InetKinds
  <2>5. PICK step \in {"discard", "connect", "setsockopt", "return"} :
          Succeed(t, step) \/ Fail(t, step)
    BY <1>5, <2>3, <2>4 DEF InetSocket
  <2> QED
    BY <1>i, <2>1, <2>5
<1>6. CASE InetDiscard(t)
  <2>1. InCall(t, "discard", InetKinds) /\ Succeed(t, AfterInetSocket(task[t].kind))
    BY <1>6 DEF InetDiscard
  <2>2. AfterInetSocket(task[t].kind) \in {"connect", "setsockopt", "return"}
    BY <2>1 DEF InCall, AfterInetSocket, InetKinds
  <2> QED
    BY <1>i, <2>1, <2>2
<1>7. CASE TcpConnect(t)
  BY <1>7, <1>a DEF TcpConnect
<1>8. CASE ReuseAddr(t)
  <2>1. PICK step \in {"bind", "return"} : Succeed(t, step)
    BY <1>8 DEF ReuseAddr
  <2>2. InCall(t, "setsockopt", {"tcp_server", "udp_server"})
    BY <1>8 DEF ReuseAddr
  <2> QED
    BY <1>i, <2>1, <2>2
<1>9. CASE TcpBind(t)
  BY <1>9, <1>a DEF TcpBind
<1>10. CASE TcpListen(t)
  BY <1>10, <1>a DEF TcpListen
<1>11. CASE UdpBind(t)
  BY <1>11, <1>a DEF UdpBind
<1>12. CASE Cleanup(t)
  BY <1>12, <1>i DEF Cleanup
<1>13. CASE Return(t) \/ Throw(t)
  <2>1. pc[t] = "return" /\ Leave(t)
    BY <1>13 DEF Return, Throw
  <2>2. pc'[t] = "idle"
    BY <2>1, LeaveMoves
  <2> QED
    BY <2>1, <2>2
<1> QED
  BY <1>1, <1>2, <1>3, <1>4, <1>5, <1>6, <1>7, <1>8, <1>9, <1>10, <1>11, <1>12,
     <1>13 DEF Proceed

(* With hosts of one address no call goes back to a system call it has made *)
(* or one before it, old errors and discarded sockets or not: a call that   *)
(* goes on returns after eight steps at most.  Two addresses are enough for *)
(* it to go round for ever.                                                 *)
THEOREM CallsGoForward ==
  ASSUME OneAddress
  PROVE  Spec => CallsAdvance
<1> DEFINE IInv == TypeInv /\ CallsMade
           Forward == \A t \in Threads : Proceed(t) => Way[pc[t]] < Way[pc[t]']
<1>1. Init => IInv
  BY TypeInit, CallsMadeInit
<1>2. IInv /\ [Next]_vars => IInv'
  BY TypeStep, CallsMadeStep
<1>3. IInv /\ [Next]_vars => [Forward]_vars
  BY WayForward
<1>4. Spec => [][Forward]_vars
  <2> HIDE DEF IInv, Forward
  <2> QED
    BY <1>1, <1>2, <1>3, PTL DEF Spec
<1> QED
  BY <1>4 DEF CallsAdvance

-----------------------------------------------------------------------------
(* Handles implement Ownership.  Obtaining a descriptor, closing one,       *)
(* handing one on and a swap are its four actions; all that happens to a    *)
(* descriptor in between, from bind() to listen(), is no step of it.        *)

OwnerVars == <<OpenFds, held>>

LEMMA OpenFdsAfter ==
  ASSUME TypeInv, NEW g \in FD, NEW entry, table' = [table EXCEPT ![g] = entry]
  PROVE  /\ entry \in Opened => OpenFds' = OpenFds \cup {g}
         /\ entry = "free" => OpenFds' = OpenFds \ {g}
<1> USE DEF TypeInv, TypeOK
<1>1. \A f \in FD : Live(f)' <=> IF f = g THEN entry \notin {"free", "inherited"}
                                          ELSE Live(f)
  BY DEF Live
<1>2. entry \in Opened => \A f \in FD : Live(f)' <=> f = g \/ Live(f)
  BY <1>1 DEF Opened
<1>3. entry = "free" => \A f \in FD : Live(f)' <=> f # g /\ Live(f)
  BY <1>1
<1> QED
  BY <1>2, <1>3 DEF OpenFds

LEMMA ClaimObtains ==
  ASSUME TypeInv, StrangersKept, NEW x \in Holders, NEW entry \in Opened,
         Allocate(x, entry), held[x] = NoFd
  PROVE  Unique!Obtain(x)
<1>1. PICK f \in FD : /\ table[f] = "free"
                      /\ table' = [table EXCEPT ![f] = entry]
                      /\ held' = [held EXCEPT ![x] = f]
  BY DEF Allocate, IsLowest, Install
<1>2. f \in (FD \ Inherited) \ OpenFds
  BY <1>1 DEF StrangersKept, OpenFds, Live
<1>3. OpenFds' = OpenFds \cup {f}
  BY <1>1, OpenFdsAfter
<1> QED
  BY <1>1, <1>2, <1>3 DEF Unique!Obtain

LEMMA MarkStutters ==
  ASSUME TypeInv, Exclusive, NEW x \in Holders, NEW entry \in Opened, held' = held,
         table' = table \/ table' = [table EXCEPT ![held[x]] = entry]
  PROVE  UNCHANGED OwnerVars
<1>1. CASE table' = table
  BY <1>1 DEF OwnerVars, OpenFds, Live
<1>2. CASE table' = [table EXCEPT ![held[x]] = entry] /\ held[x] \in FD
  <2>1. held[x] \in OpenFds
    BY <1>2, ConstantFacts DEF Exclusive, Owns, OpenFds
  <2>2. OpenFds' = OpenFds \cup {held[x]}
    BY <1>2, OpenFdsAfter
  <2> QED
    BY <2>1, <2>2 DEF OwnerVars
<1>3. CASE table' = [table EXCEPT ![held[x]] = entry] /\ held[x] \notin FD
  <2>1. table' = table
    BY <1>3 DEF TypeInv, TypeOK
  <2> QED
    BY <1>1, <2>1
<1> QED
  BY <1>1, <1>2, <1>3

(* The descriptor of x is closed, if it has one. *)
LEMMA CloseOpens ==
  ASSUME TypeInv, NEW x \in Holders, table' = [table EXCEPT ![held[x]] = "free"]
  PROVE  OpenFds' = OpenFds \ {held[x]}
<1>1. CASE held[x] \in FD
  BY <1>1, OpenFdsAfter
<1>2. CASE held[x] \notin FD
  <2>1. table' = table
    BY <1>2 DEF TypeInv, TypeOK
  <2> QED
    BY <1>2, <2>1 DEF OpenFds, Live
<1> QED
  BY <1>1, <1>2

LEMMA OwnershipStep ==
  ASSUME Disciplined, Careful, CallInv, [Next]_vars
  PROVE  [Unique!OwnershipNext]_OwnerVars
<1> DEFINE Goal == [Unique!OwnershipNext]_OwnerVars
<1> USE DEF CallInv
<1>h. (\A t \in Threads : t \in Holders) /\ (\A s \in Slots : s \in Holders)
  BY DEF Holders
<1>o. {"file", "socket", "connected", "bound", "listening"} \subseteq Opened
  BY DEF Opened, Entries
<1>g. \A t \in Threads : Carries(t) /\ Clean(t)
  BY DEF CallsSound, Sound
<1>k. ASSUME UNCHANGED <<table, held>> PROVE Goal
  BY <1>k DEF OwnerVars, OpenFds, Live
<1>c. ASSUME NEW t \in Threads, NEW entry \in Opened, pc[t] \in {"idle", "socket"},
             Allocate(t, entry) \/ UNCHANGED <<table, held>>
      PROVE  Goal
  <2>1. held[t] = NoFd
    BY <1>c, <1>g DEF Carries
  <2>2. CASE Allocate(t, entry)
    <3>1. Unique!Obtain(t)
      BY <1>h, <2>1, <2>2, ClaimObtains
    <3> QED
      BY <1>h, <3>1 DEF Unique!OwnershipNext
  <2> QED
    BY <1>c, <1>k, <2>2
<1>m. ASSUME NEW t \in Threads, NEW entry \in Opened, held' = held,
             table' = table \/ table' = [table EXCEPT ![held[t]] = entry]
      PROVE  Goal
  <2>1. UNCHANGED OwnerVars
    BY <1>h, <1>m, MarkStutters
  <2> QED
    BY <2>1
<1>a. ASSUME NEW t \in Threads, NEW fault, NEW from, NEW entry \in Opened, NEW next,
             NEW failure, Advance(t, fault, from, entry, next, failure)
      PROVE  Goal
  BY <1>a, <1>m DEF Advance, Install
<1>d. ASSUME NEW x \in Holders, held' = [held EXCEPT ![x] = NoFd],
             table' = [table EXCEPT ![held[x]] = "free"]
      PROVE  Goal
  <2>1. Unique!Release(x)
    BY <1>d, CloseOpens DEF Unique!Release
  <2> QED
    BY <2>1 DEF Unique!OwnershipNext
<1>p. ASSUME NEW x \in Holders, NEW y \in Holders, x # y,
             held' = [held EXCEPT ![y] = held[x], ![x] = NoFd],
             CloseHandle(held[y])
      PROVE  Goal
  <2>1. OpenFds' = OpenFds \ {held[y]}
    BY <1>p, CarefulClose, CloseOpens
  <2>2. Unique!Hand(x, y)
    BY <1>p, <2>1 DEF Unique!Hand
  <2> QED
    BY <1>p, <2>2 DEF Unique!OwnershipNext
<1>1. CASE UNCHANGED vars
  BY <1>1, <1>k DEF vars
<1>2. ASSUME NEW t \in Threads, NEW s \in Slots, NEW throwing \in BOOLEAN,
             OpenFile(t, s, throwing)
      PROVE  Goal
  BY <1>2, <1>c, <1>o DEF OpenFile, CannotAllocate, Begin
<1>3. ASSUME NEW t \in Threads, NEW s \in Slots, NEW throwing \in BOOLEAN,
             NEW k \in Kinds, BeginOpen(t, s, k, throwing)
      PROVE  Goal
  BY <1>3, <1>k DEF BeginOpen
<1>4. ASSUME NEW t \in Threads, NEW s \in Slots, NEW d \in Slots, Accept(t, s, d)
      PROVE  Goal
  <2>1. pc[t] = "idle"
    BY <1>4, AcceptMoves
  <2>2. Allocate(t, "connected") \/ UNCHANGED <<table, held>>
    BY <1>4 DEF Accept, CannotAllocate
  <2> QED
    BY <2>1, <2>2, <1>c, <1>o
<1>5. ASSUME NEW t \in Threads, NEW s \in Slots, FailedIo(t, s) PROVE Goal
  BY <1>5, <1>k DEF FailedIo
<1>6. ASSUME NEW t \in Threads, ClearError(t) PROVE Goal
  BY <1>6, <1>k DEF ClearError
<1>7. ASSUME NEW t \in Threads, Proceed(t) PROVE Goal
  <2>1. CASE LocalSocket(t)
    BY <2>1, <1>c, <1>o DEF LocalSocket, InCall, CannotAllocate
  <2>2. CASE LocalConnect(t)
    <3>1. Entry(held[t]) = "socket" /\ "local connect" \notin Faults
      <4>1. Entry(held[t]) = "socket" /\ task[t].kind = "local_socket"
        BY <2>2, <1>g DEF LocalConnect, InCall, Carries
      <4>2. "local_socket" \in Kinds
        BY <2>2, <4>1 DEF LocalConnect, InCall, CallsMade, Peers
      <4> QED
        BY <4>1, <4>2 DEF Careful
    <3> QED
      BY <2>2, <3>1, <1>m, <1>o DEF LocalConnect, Install
  <2>3. CASE LocalBind(t)
    BY <2>3, <1>a, <1>o DEF LocalBind
  <2>4. CASE LocalListen(t)
    BY <2>4, <1>a, <1>o DEF LocalListen
  <2>5. CASE InetSocket(t)
    BY <2>5, <1>c, <1>o DEF InetSocket, InCall, CannotAllocate
  <2>6. CASE InetDiscard(t)
    BY <2>6 DEF InetDiscard, InCall, NeverDiscards
  <2>7. CASE TcpConnect(t)
    BY <2>7, <1>a, <1>o DEF TcpConnect
  <2>8. CASE ReuseAddr(t)
    BY <2>8, <1>k DEF ReuseAddr
  <2>9. CASE TcpBind(t)
    BY <2>9, <1>a, <1>o DEF TcpBind
  <2>10. CASE TcpListen(t)
    BY <2>10, <1>a, <1>o DEF TcpListen
  <2>11. CASE UdpBind(t)
    BY <2>11, <1>a, <1>o DEF UdpBind
  <2>12. CASE Cleanup(t)
    BY <2>12, <1>h, <1>d DEF Cleanup, Install
  <2>13. CASE Return(t)
    <3>1. pc[t] = "return" /\ (ec[t] => held[t] = NoFd)
      BY <2>13, <1>g DEF Return, Clean
    <3>2. PICK s \in Slots :
            /\ held' = [held EXCEPT ![s] = IF ec[t] THEN NoFd ELSE held[t],
                                    ![t] = NoFd]
            /\ CloseHandle(held[s])
      BY <2>13, ReturnHands
    <3>3. s \in Holders /\ s # t
      BY ConstantFacts DEF Holders
    <3>4. held' = [held EXCEPT ![s] = held[t], ![t] = NoFd]
      BY <3>1, <3>2
    <3> QED
      BY <3>2, <3>3, <3>4, <1>h, <1>p
  <2>14. CASE Throw(t)
    <3>1. held[t] = NoFd
      BY <2>14, <1>g DEF Throw, Clean
    <3>2. UNCHANGED <<table, held>>
      BY <2>14, <3>1 DEF Throw, TypeInv, TypeOK
    <3> QED
      BY <3>2, <1>k
  <2> QED
    BY <1>7, <2>1, <2>2, <2>3, <2>4, <2>5, <2>6, <2>7, <2>8, <2>9, <2>10, <2>11,
       <2>12, <2>13, <2>14 DEF Proceed
<1>8. ASSUME NEW s \in Slots, Close(s) \/ Destroy(s) PROVE Goal
  <2>1. s \in Holders /\ held' = [held EXCEPT ![s] = NoFd] /\ CloseHandle(held[s])
    BY <1>8 DEF Close, Destroy, Holders
  <2> QED
    BY <2>1, <1>d, CarefulClose
<1>9. ASSUME NEW s \in Slots, NEW d \in Slots, MoveAssign(s, d) PROVE Goal
  <2>1. /\ s \in Holders /\ d \in Holders /\ s # d /\ CloseHandle(held[d])
        /\ held' = [held EXCEPT ![d] = held[s], ![s] = NoFd]
    BY <1>9 DEF MoveAssign, Exchangeable, Holders
  <2> QED
    BY <2>1, <1>p
<1>10. ASSUME NEW s \in Slots, NEW d \in Slots, Swap(s, d) PROVE Goal
  <2>1. /\ s \in Holders /\ d \in Holders /\ s # d /\ table' = table
        /\ held' = [held EXCEPT ![d] = held[s], ![s] = held[d]]
    BY <1>10 DEF Swap, Exchangeable, Holders
  <2>2. OpenFds' = OpenFds
    BY <2>1 DEF OpenFds, Live
  <2>3. Unique!Exchange(s, d)
    BY <2>1, <2>2 DEF Unique!Exchange
  <2> QED
    BY <2>1, <2>3 DEF Unique!OwnershipNext
<1> QED
  BY <1>1, <1>2, <1>3, <1>4, <1>5, <1>6, <1>7, <1>8, <1>9, <1>10 DEF Next

LEMMA OwnershipStart == Init => Unique!OwnershipInit
BY DEF Init, Unique!OwnershipInit, OpenFds, Live

(* The library keeps the promise of a handle class without copies, from the *)
(* first system call of a factory to the destructor: a descriptor changes   *)
(* hands only by a return, a move or a swap, and is closed, once, when a    *)
(* hand lets go of it, whatever the threads interleave and what else fails. *)
THEOREM HandlesAreUnique ==
  ASSUME Disciplined, Careful
  PROVE  Spec => IsOwnership
<1>1. Init => CallInv /\ Unique!OwnershipInit
  BY CallInvInit, OwnershipStart
<1>2. CallInv /\ [Next]_vars => CallInv' /\ [Unique!OwnershipNext]_OwnerVars
  BY CallInvStep, OwnershipStep
<1>3. Spec => Unique!OwnershipInit /\ [][Unique!OwnershipNext]_OwnerVars
  BY <1>1, <1>2, PTL DEF Spec
<1> QED
  BY <1>3 DEF IsOwnership, Unique!OwnershipSpec, OwnerVars
=============================================================================
