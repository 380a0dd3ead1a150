--------------------------- MODULE HandlesProofs ---------------------------
(***************************************************************************)
(* Proofs about Handles, for any number of threads, slots and descriptors. *)
(***************************************************************************)
EXTENDS Handles, TLAPS

-----------------------------------------------------------------------------
(* Type correctness. *)

(* A call in progress is for an object of some class, going to some slot. *)
TaskShape ==
  \A t \in Threads : pc[t] # "idle" => /\ task[t].kind \in AllKinds
                                       /\ task[t].slot \in Slots

TypeInv == TypeOK /\ TaskShape

LEMMA ConstantFacts ==
  /\ MaxFd \in Nat /\ MaxAddrs \in Nat /\ 1 \in 1 .. MaxAddrs
  /\ FD \subseteq Nat /\ NoFd \notin FD
  /\ Kinds \subseteq AllKinds
  /\ Slots \cap Threads = {}
  /\ \A s \in Slots : Null(s) \in AllKinds \cup {"null"}
<1>1. /\ MaxFd \in Nat /\ MaxAddrs \in Nat /\ 1 \in 1 .. MaxAddrs
      /\ Slots \cap Threads = {}
  BY HandlesAssumption
<1>2. FD \subseteq Nat /\ NoFd \notin FD
  BY <1>1 DEF FD, NoFd
<1>3. Kinds \subseteq AllKinds
  BY HandlesAssumption
     DEF AllKinds, DeviceKinds, ServerKinds, LocalKinds, InetKinds
<1>4. \A s \in Slots : Null(s) \in AllKinds \cup {"null"}
  BY HandlesAssumption DEF Null, AllKinds, ServerKinds
<1> QED
  BY <1>1, <1>2, <1>3, <1>4

LEMMA PeersAreDevices ==
  \A k \in DOMAIN PeerOf : PeerOf[k] \in DeviceKinds
BY DEF PeerOf, DeviceKinds

(* A call begins well typed, and so does its error. *)
LEMMA BeginType ==
  ASSUME TypeInv, NEW t \in Threads, NEW s \in Slots, NEW k \in AllKinds,
         NEW throwing \in BOOLEAN, NEW addrs \in 1 .. MaxAddrs,
         NEW step \in Steps, NEW failed \in BOOLEAN,
         Begin(t, s, k, throwing, addrs, step, failed)
  PROVE  /\ class' = class /\ err' = err
         /\ pc' \in [Threads -> Steps]
         /\ task' \in [Threads -> Tasks]
         /\ ec' \in [Threads -> BOOLEAN]
         /\ TaskShape'
<1> USE DEF TypeInv, TypeOK, Begin
<1>1. pc' \in [Threads -> Steps]
  BY DEF Goto
<1>2. task' \in [Threads -> Tasks]
  BY DEF Tasks
<1>3. ec' \in [Threads -> BOOLEAN]
  BY DEF EntryEc
<1>4. TaskShape'
  BY DEF TaskShape, Goto, Tasks
<1> QED
  BY <1>1, <1>2, <1>3, <1>4

LEMMA AllocateType ==
  ASSUME TypeInv, NEW x \in Holders, NEW entry \in Entries, Allocate(x, entry)
  PROVE  /\ table' \in [FD -> Entries]
         /\ held' \in [Holders -> FD \cup {NoFd}]
BY DEF TypeInv, TypeOK, Allocate, Install

LEMMA CloseType ==
  ASSUME TypeInv, NEW h, CloseHandle(h)
  PROVE  table' \in [FD -> Entries]
BY DEF TypeInv, TypeOK, CloseHandle, Entries

(* The steps inside a factory change pc, ec, table and held only. *)
LEMMA InCallType ==
  ASSUME TypeInv, NEW t \in Threads, NEW from, from # "idle", NEW kinds,
         InCall(t, from, kinds),
         NEW step \in Steps, Succeed(t, step) \/ Fail(t, step),
         table' \in [FD -> Entries], held' \in [Holders -> FD \cup {NoFd}]
  PROVE  TypeInv'
<1> USE DEF TypeInv, TypeOK, InCall, Succeed, Fail, Goto
<1>1. TypeOK'
  OBVIOUS
<1>2. TaskShape'
  BY DEF TaskShape
<1> QED
  BY <1>1, <1>2

LEMMA AdvanceType ==
  ASSUME TypeInv, NEW t \in Threads, NEW at, at # "idle", NEW kinds,
         InCall(t, at, kinds), NEW fault, NEW from, NEW entry \in Entries,
         NEW next \in Steps, NEW failure \in Steps,
         Advance(t, fault, from, entry, next, failure)
  PROVE  TypeInv'
<1>1. table' \in [FD -> Entries] /\ held' \in [Holders -> FD \cup {NoFd}]
  BY DEF TypeInv, TypeOK, Advance, Install
<1>2. Succeed(t, next) \/ Fail(t, failure)
  BY DEF Advance
<1> QED
  BY <1>1, <1>2, InCallType

LEMMA TypeInit == Init => TypeInv
<1> SUFFICES ASSUME Init PROVE TypeInv
  OBVIOUS
<1>1. task \in [Threads -> Tasks]
  BY ConstantFacts DEF Init, Tasks, NoTask
<1>2. TypeOK
  BY <1>1, ConstantFacts DEF Init, TypeOK, Entries, Steps
<1> QED
  BY <1>2 DEF Init, TypeInv, TaskShape

LEMMA TypeStep == TypeInv /\ [Next]_vars => TypeInv'
<1> SUFFICES ASSUME TypeInv, [Next]_vars PROVE TypeInv'
  OBVIOUS
<1>t. \A t \in Threads : t \in Holders
  BY DEF Holders
<1>s. \A s \in Slots : s \in Holders
  BY DEF Holders
<1>1. CASE UNCHANGED vars
  BY <1>1 DEF vars, TypeInv, TypeOK, TaskShape
<1>2. ASSUME NEW t \in Threads, NEW s \in Slots, NEW throwing \in BOOLEAN,
             OpenFile(t, s, throwing)
      PROVE  TypeInv'
  <2>1. "file" \in AllKinds /\ "return" \in Steps /\ "file" \in Entries
    BY DEF AllKinds, DeviceKinds, Steps, Entries
  <2>2. PICK failed \in BOOLEAN :
          /\ Begin(t, s, "file", throwing, 1, "return", failed)
          /\ Allocate(t, "file") \/ UNCHANGED <<table, held>>
    BY <1>2 DEF OpenFile, CannotAllocate
  <2>3. table' \in [FD -> Entries] /\ held' \in [Holders -> FD \cup {NoFd}]
    BY <2>1, <2>2, <1>t, AllocateType DEF TypeInv, TypeOK
  <2> QED
    BY <2>1, <2>2, <2>3, BeginType, ConstantFacts DEF TypeInv, TypeOK
<1>3. ASSUME NEW t \in Threads, NEW s \in Slots, NEW throwing \in BOOLEAN,
             NEW k \in Kinds, BeginOpen(t, s, k, throwing)
      PROVE  TypeInv'
  <2>1. PICK n \in 1 .. MaxAddrs, step \in {"socket", "return"}, failed \in BOOLEAN :
          Begin(t, s, k, throwing, n, step, failed)
    BY <1>3, ConstantFacts DEF BeginOpen
  <2>2. k \in AllKinds /\ step \in Steps
    BY ConstantFacts DEF Steps
  <2> QED
    BY <1>3, <2>1, <2>2, BeginType DEF TypeInv, TypeOK, BeginOpen
<1>4. ASSUME NEW t \in Threads, NEW s \in Slots, NEW d \in Slots, Accept(t, s, d)
      PROVE  TypeInv'
  <2> DEFINE k == PeerOf[class[s]]
  <2>1. k \in AllKinds /\ "return" \in Steps /\ "connected" \in Entries
    BY <1>4, PeersAreDevices DEF Accept, AllKinds, Steps, Entries
  <2>2. PICK failed \in BOOLEAN :
          /\ Begin(t, d, k, FALSE, 1, "return", failed)
          /\ Allocate(t, "connected") \/ UNCHANGED <<table, held>>
    BY <1>4 DEF Accept, CannotAllocate
  <2> HIDE DEF k
  <2>3. table' \in [FD -> Entries] /\ held' \in [Holders -> FD \cup {NoFd}]
    BY <2>1, <2>2, <1>t, AllocateType DEF TypeInv, TypeOK
  <2>4. /\ class' = class /\ err' = err /\ pc' \in [Threads -> Steps]
        /\ task' \in [Threads -> Tasks] /\ ec' \in [Threads -> BOOLEAN]
        /\ TaskShape'
    <3>1. FALSE \in BOOLEAN /\ 1 \in 1 .. MaxAddrs
      BY ConstantFacts
    <3> QED
      BY <2>1, <2>2, <3>1, BeginType
  <2> QED
    BY <2>3, <2>4 DEF TypeInv, TypeOK
<1>5. ASSUME NEW t \in Threads, NEW s \in Slots, FailedIo(t, s) PROVE TypeInv'
  BY <1>5 DEF FailedIo, TypeInv, TypeOK, TaskShape
<1>6. ASSUME NEW t \in Threads, ClearError(t) PROVE TypeInv'
  BY <1>6 DEF ClearError, TypeInv, TypeOK, TaskShape
<1>7. ASSUME NEW t \in Threads, Proceed(t) PROVE TypeInv'
  <2> USE DEF Entries, Steps
  <2>0. /\ table \in [FD -> Entries] /\ held \in [Holders -> FD \cup {NoFd}]
        /\ held[t] \in FD \cup {NoFd}
    BY <1>t DEF TypeInv, TypeOK
  <2>1. CASE LocalSocket(t)
    <3>1. table' \in [FD -> Entries] /\ held' \in [Holders -> FD \cup {NoFd}]
      BY <2>0, <2>1, <1>t, AllocateType DEF LocalSocket, CannotAllocate
    <3>2. \E step \in {"connect", "bind", "return"} : Succeed(t, step) \/ Fail(t, step)
      BY <2>1 DEF LocalSocket
    <3> QED
      BY <2>1, <3>1, <3>2, InCallType DEF LocalSocket
  <2>2. CASE LocalConnect(t)
    <3>1. table' \in [FD -> Entries] /\ held' \in [Holders -> FD \cup {NoFd}]
      BY <2>0, <2>2 DEF LocalConnect, Install
    <3>2. \E step \in {"cleanup", "return"} : Succeed(t, step) \/ Fail(t, step)
      BY <2>2 DEF LocalConnect
    <3> QED
      BY <2>2, <3>1, <3>2, InCallType DEF LocalConnect
  <2>3. CASE LocalBind(t)
    BY <2>3, AdvanceType DEF LocalBind, LocalServerExit
  <2>4. CASE LocalListen(t)
    BY <2>4, AdvanceType DEF LocalListen, LocalServerExit
  <2>5. CASE InetSocket(t)
    <3>1. table' \in [FD -> Entries] /\ held' \in [Holders -> FD \cup {NoFd}]
      BY <2>0, <2>5, <1>t, AllocateType DEF InetSocket, CannotAllocate
    <3>2. AfterInetSocket(task[t].kind) \in Steps
      BY <2>5 DEF InetSocket, InCall, AfterInetSocket, InetKinds
    <3>3. \E step \in Steps : Succeed(t, step) \/ Fail(t, step)
      BY <2>5, <3>2 DEF InetSocket, NextAddress
    <3> QED
      BY <2>5, <3>1, <3>3, InCallType DEF InetSocket
  <2>6. CASE InetDiscard(t)
    <3>1. table' \in [FD -> Entries] /\ held' \in [Holders -> FD \cup {NoFd}]
      BY <2>0, <2>6 DEF InetDiscard, Install
    <3>2. AfterInetSocket(task[t].kind) \in Steps
      BY <2>6 DEF InetDiscard, InCall, AfterInetSocket, InetKinds
    <3> QED
      BY <2>6, <3>1, <3>2, InCallType DEF InetDiscard
  <2>7. CASE TcpConnect(t)
    BY <2>7, AdvanceType DEF TcpConnect
  <2>8. CASE ReuseAddr(t)
    BY <2>0, <2>8, InCallType DEF ReuseAddr
  <2>9. CASE TcpBind(t)
    BY <2>9, AdvanceType DEF TcpBind
  <2>10. CASE TcpListen(t)
    BY <2>10, AdvanceType DEF TcpListen
  <2>11. CASE UdpBind(t)
    BY <2>11, AdvanceType DEF UdpBind
  <2>12. CASE Cleanup(t)
    <3>1. table' \in [FD -> Entries] /\ held' \in [Holders -> FD \cup {NoFd}]
      BY <2>0, <2>12 DEF Cleanup, Install
    <3> QED
      BY <2>12, <3>1, InCallType DEF Cleanup
  <2>l. ASSUME Leave(t)
        PROVE  /\ pc' \in [Threads -> Steps] /\ task' \in [Threads -> Tasks]
               /\ ec' \in [Threads -> BOOLEAN] /\ err' \in [Threads -> BOOLEAN]
               /\ TaskShape'
    <3>1. task' \in [Threads -> Tasks]
      BY <2>l, ConstantFacts DEF Leave, NoTask, Tasks, TypeInv, TypeOK
    <3>2. pc' \in [Threads -> Steps] /\ ec' \in [Threads -> BOOLEAN]
          /\ err' \in [Threads -> BOOLEAN]
      BY <2>l DEF Leave, Goto, TypeInv, TypeOK
    <3>3. TaskShape'
      BY <2>l DEF Leave, Goto, TypeInv, TypeOK, TaskShape
    <3> QED
      BY <3>1, <3>2, <3>3
  <2>13. CASE Return(t)
    <3> DEFINE s == task[t].slot
    <3>1. s \in Slots /\ task[t].kind \in AllKinds
      BY <2>13 DEF Return, TypeInv, TaskShape
    <3>2. table' \in [FD -> Entries]
      BY <2>13, CloseType DEF Return
    <3>3. held' \in [Holders -> FD \cup {NoFd}]
      BY <2>0, <2>13, <3>1 DEF Return
    <3>4. class' \in [Slots -> AllKinds \cup {"null"}]
      BY <2>13, <3>1, ConstantFacts DEF Return, TypeInv, TypeOK
    <3> QED
      BY <2>13, <2>l, <3>2, <3>3, <3>4 DEF Return, TypeInv, TypeOK
  <2>14. CASE Throw(t)
    <3>1. held' \in [Holders -> FD \cup {NoFd}]
      BY <2>0, <2>14 DEF Throw
    <3> QED
      BY <2>14, <2>l, <3>1 DEF Throw, TypeInv, TypeOK
  <2> QED
    BY <1>7, <2>1, <2>2, <2>3, <2>4, <2>5, <2>6, <2>7, <2>8, <2>9, <2>10, <2>11,
       <2>12, <2>13, <2>14 DEF Proceed
<1>8. ASSUME NEW s \in Slots, Close(s) PROVE TypeInv'
  BY <1>8, CloseType DEF Close, TypeInv, TypeOK, TaskShape
<1>9. ASSUME NEW s \in Slots, Destroy(s) PROVE TypeInv'
  BY <1>9, CloseType, ConstantFacts DEF Destroy, TypeInv, TypeOK, TaskShape
<1>10. ASSUME NEW s \in Slots, NEW d \in Slots, MoveAssign(s, d) PROVE TypeInv'
  BY <1>10, <1>s, CloseType, ConstantFacts
     DEF MoveAssign, TypeInv, TypeOK, TaskShape
<1>11. ASSUME NEW s \in Slots, NEW d \in Slots, Swap(s, d) PROVE TypeInv'
  BY <1>11, <1>s DEF Swap, TypeInv, TypeOK, TaskShape
<1> QED
  BY <1>1, <1>2, <1>3, <1>4, <1>5, <1>6, <1>7, <1>8, <1>9, <1>10, <1>11 DEF Next

(* Type correctness: whatever the factories, accept(), the moves and the    *)
(* destructors do, the variables keep their types.                          *)
THEOREM TypeCorrect == Spec => []TypeOK
<1>1. TypeInv => TypeOK
  BY DEF TypeInv
<1> QED
  BY TypeInit, TypeStep, <1>1, PTL DEF Spec

-----------------------------------------------------------------------------
(* Exclusive ownership.  It needs callers that clear their error_code and   *)
(* hosts with one address, or no TCP and UDP objects: else open_inet_socket *)
(* may close a descriptor and still return its number.                      *)

Disciplined ==
  (CallerClears /\ MaxAddrs = 1) \/ Kinds \cap InetKinds = {}

(* A TCP or UDP factory reaches ::socket() without an error, so that it     *)
(* never discards the descriptor it obtains.                                *)
NeverDiscards ==
  \A t \in Threads :
    /\ pc[t] # "discard"
    /\ pc[t] = "socket" /\ task[t].kind \in InetKinds =>
         ~ec[t] /\ task[t].addrs <= MaxAddrs /\ task[t].kind \in Kinds

LEMMA NeverDiscardsInit == Init => NeverDiscards
BY DEF Init, NeverDiscards

LEMMA NeverDiscardsStep ==
  ASSUME Disciplined, TypeInv, NeverDiscards, [Next]_vars
  PROVE  NeverDiscards'
<1> USE DEF NeverDiscards, TypeInv, TypeOK
<1>0. \A t \in Threads : pc[t] \in Steps /\ task[t] \in Tasks /\ ec[t] \in BOOLEAN
  OBVIOUS
<1>b. ASSUME NEW t \in Threads, NEW s, NEW k, NEW throwing, NEW addrs,
             NEW step, NEW failed, Begin(t, s, k, throwing, addrs, step, failed),
             step = "return" \/ /\ step = "socket" /\ failed = FALSE
                                /\ k \in Kinds /\ addrs \in 1 .. MaxAddrs
      PROVE  NeverDiscards'
  <2>1. CASE step = "return"
    BY <1>b, <2>1 DEF Begin, Goto
  <2>2. CASE step = "socket"
    <3>1. k \in InetKinds => ~EntryEc(t, throwing)
      BY <1>b, <2>2 DEF Disciplined, EntryEc
    <3>2. task'[t].kind = k /\ task'[t].addrs = addrs /\ pc'[t] = "socket"
          /\ (k \in InetKinds => ~ec'[t])
      BY <1>b, <2>2, <3>1 DEF Begin, Goto
    <3>3. addrs <= MaxAddrs
      BY <1>b, <2>2, ConstantFacts
    <3>4. \A u \in Threads \ {t} :
            pc'[u] = pc[u] /\ task'[u] = task[u] /\ ec'[u] = ec[u]
      BY <1>b DEF Begin, Goto
    <3> QED
      BY <1>b, <2>2, <3>2, <3>3, <3>4
  <2> QED
    BY <1>b, <2>1, <2>2
<1>i. ASSUME NEW t \in Threads, NEW from, NEW kinds, InCall(t, from, kinds),
             NEW step, step \notin {"discard", "socket"},
             Succeed(t, step) \/ Fail(t, step)
      PROVE  NeverDiscards'
  BY <1>i DEF InCall, Succeed, Fail, Goto
<1>a. ASSUME NEW t \in Threads, NEW at, NEW kinds, InCall(t, at, kinds),
             NEW fault, NEW from, NEW entry, NEW next, NEW failure,
             {next, failure} \cap {"discard", "socket"} = {},
             Advance(t, fault, from, entry, next, failure)
      PROVE  NeverDiscards'
  BY <1>a, <1>i DEF Advance
<1>1. CASE UNCHANGED vars
  BY <1>1 DEF vars
<1>2. ASSUME NEW t \in Threads, NEW s \in Slots, NEW throwing \in BOOLEAN,
             OpenFile(t, s, throwing)
      PROVE  NeverDiscards'
  BY <1>2, <1>b DEF OpenFile
<1>3. ASSUME NEW t \in Threads, NEW s \in Slots, NEW throwing \in BOOLEAN,
             NEW k \in Kinds, BeginOpen(t, s, k, throwing)
      PROVE  NeverDiscards'
  <2>1. PICK n \in 1 .. MaxAddrs :
          \/ Begin(t, s, k, throwing, n, "socket", FALSE)
          \/ Begin(t, s, k, throwing, n, "return", TRUE)
    BY <1>3, ConstantFacts DEF BeginOpen
  <2> QED
    BY <2>1, <1>b
<1>4. ASSUME NEW t \in Threads, NEW s \in Slots, NEW d \in Slots, Accept(t, s, d)
      PROVE  NeverDiscards'
  BY <1>4, <1>b DEF Accept
<1>5. ASSUME NEW t \in Threads, NEW s \in Slots, FailedIo(t, s)
      PROVE  NeverDiscards'
  BY <1>5 DEF FailedIo
<1>6. ASSUME NEW t \in Threads, ClearError(t) PROVE NeverDiscards'
  BY <1>6 DEF ClearError
<1>7. ASSUME NEW t \in Threads, Proceed(t) PROVE NeverDiscards'
  <2>1. CASE LocalSocket(t)
    BY <2>1, <1>i DEF LocalSocket
  <2>2. CASE LocalConnect(t)
    <3>1. PICK step \in {"cleanup", "return"} : Succeed(t, step) \/ Fail(t, step)
      BY <2>2 DEF LocalConnect
    <3> QED
      BY <2>2, <1>i, <3>1 DEF LocalConnect
  <2>3. CASE LocalBind(t)
    BY <2>3, <1>a DEF LocalBind, LocalServerExit
  <2>4. CASE LocalListen(t)
    BY <2>4, <1>a DEF LocalListen, LocalServerExit
  <2>5. CASE InetSocket(t)
    <3>1. /\ ~ec[t] /\ task[t].kind \in InetKinds \cap Kinds
          /\ task[t].addrs <= MaxAddrs /\ MaxAddrs = 1
      BY <2>5 DEF InetSocket, InCall, Disciplined
    <3>2. task[t].addrs \in Nat
      BY <1>0, ConstantFacts DEF Tasks
    <3>3. NextAddress(t) = "return"
      BY <3>1, <3>2 DEF NextAddress
    <3>4. AfterInetSocket(task[t].kind) \notin {"discard", "socket"}
      BY <3>1 DEF AfterInetSocket, InetKinds
    <3> QED
      BY <2>5, <1>i, <3>1, <3>3, <3>4 DEF InetSocket
  <2>6. CASE InetDiscard(t)
    BY <2>6 DEF InetDiscard, InCall
  <2>7. CASE TcpConnect(t)
    BY <2>7, <1>a DEF TcpConnect
  <2>8. CASE ReuseAddr(t)
    BY <2>8, <1>i DEF ReuseAddr
  <2>9. CASE TcpBind(t)
    BY <2>9, <1>a DEF TcpBind
  <2>10. CASE TcpListen(t)
    BY <2>10, <1>a DEF TcpListen
  <2>11. CASE UdpBind(t)
    BY <2>11, <1>a DEF UdpBind
  <2>12. CASE Cleanup(t)
    BY <2>12, <1>i DEF Cleanup
  <2>13. CASE Return(t) \/ Throw(t)
    BY <2>13 DEF Return, Throw, Leave, Goto
  <2> QED
    BY <1>7, <2>1, <2>2, <2>3, <2>4, <2>5, <2>6, <2>7, <2>8, <2>9, <2>10, <2>11,
       <2>12, <2>13 DEF Proceed
<1>8. ASSUME NEW s \in Slots, Close(s) \/ Destroy(s) PROVE NeverDiscards'
  BY <1>8 DEF Close, Destroy
<1>9. ASSUME NEW s \in Slots, NEW d \in Slots, MoveAssign(s, d) \/ Swap(s, d)
      PROVE  NeverDiscards'
  BY <1>9 DEF MoveAssign, Swap
<1> QED
  BY <1>1, <1>2, <1>3, <1>4, <1>5, <1>6, <1>7, <1>8, <1>9 DEF Next

(* What a step may do to the table and the handles, and that each of these  *)
(* keeps ownership exclusive and leaves the other holders' descriptors as   *)
(* they are.  T and H are a table and what each holder holds, T2 and H2 the *)
(* same after the step.                                                     *)

Opened   == Entries \ {"free", "inherited"}
Tables   == [FD -> Entries]
Holdings == [Holders -> FD \cup {NoFd}]

(* Every descriptor in H is open, and in one hand. *)
Apart(T, H) ==
  \A x \in Holders : H[x] # NoFd => /\ T[H[x]] \in Opened
                                    /\ \A y \in Holders \ {x} : H[y] # H[x]

(* Nobody but the holders in X sees a change. *)
Untouched(X, T, H, T2, H2) ==
  \A y \in Holders \ X : /\ H2[y] = H[y]
                         /\ H[y] # NoFd => T2[H[y]] = T[H[y]]

LEMMA ClaimApart ==
  ASSUME NEW T \in Tables, NEW H \in Holdings, Apart(T, H),
         NEW x \in Holders, NEW f \in FD, T[f] = "free", NEW entry \in Opened,
         NEW T2, T2 = [T EXCEPT ![f] = entry],
         NEW H2, H2 = [H EXCEPT ![x] = f]
  PROVE  Apart(T2, H2) /\ Untouched({x}, T, H, T2, H2)
<1> USE DEF Tables, Holdings
<1>1. \A y \in Holders : H[y] # f /\ H[y] \in FD \cup {NoFd}
  BY ConstantFacts DEF Apart, Opened
<1>2. Untouched({x}, T, H, T2, H2)
  BY <1>1 DEF Untouched
<1>3. T2[H2[x]] \in Opened
  OBVIOUS
<1> QED
  BY <1>1, <1>2, <1>3 DEF Apart, Untouched

LEMMA MarkApart ==
  ASSUME NEW T \in Tables, NEW H \in Holdings, Apart(T, H),
         NEW x \in Holders, NEW entry \in Opened,
         NEW T2, T2 = T \/ T2 = [T EXCEPT ![H[x]] = entry]
  PROVE  Apart(T2, H) /\ Untouched({x}, T, H, T2, H)
<1> USE DEF Tables, Holdings
<1>1. \A y \in Holders : H[y] \in FD \cup {NoFd}
  OBVIOUS
<1>2. Untouched({x}, T, H, T2, H)
  BY <1>1, ConstantFacts DEF Untouched, Apart
<1>3. H[x] # NoFd => T2[H[x]] \in Opened
  BY <1>1, ConstantFacts DEF Apart
<1> QED
  BY <1>1, <1>2, <1>3 DEF Apart, Untouched

(* x gives its descriptor up; it is closed or it is not. *)
LEMMA DropApart ==
  ASSUME NEW T \in Tables, NEW H \in Holdings, Apart(T, H), NEW x \in Holders,
         NEW T2, T2 = T \/ T2 = [T EXCEPT ![H[x]] = "free"],
         NEW H2, H2 = [H EXCEPT ![x] = NoFd]
  PROVE  Apart(T2, H2) /\ Untouched({x}, T, H, T2, H2)
<1> USE DEF Tables, Holdings
<1>1. \A y \in Holders : H[y] \in FD \cup {NoFd}
  OBVIOUS
<1>2. Untouched({x}, T, H, T2, H2)
  BY <1>1, ConstantFacts DEF Untouched, Apart
<1> QED
  BY <1>1, <1>2, ConstantFacts DEF Apart, Untouched

(* x hands its descriptor to y, or drops it; the old one of y is closed or  *)
(* it is not.                                                               *)
LEMMA HandApart ==
  ASSUME NEW T \in Tables, NEW H \in Holdings, Apart(T, H),
         NEW x \in Holders, NEW y \in Holders, x # y,
         NEW T2, T2 = T \/ T2 = [T EXCEPT ![H[y]] = "free"],
         NEW h \in {NoFd, H[x]},
         NEW H2, H2 = [H EXCEPT ![y] = h, ![x] = NoFd]
  PROVE  Apart(T2, H2) /\ Untouched({x, y}, T, H, T2, H2)
<1> USE DEF Tables, Holdings
<1>1. \A z \in Holders : H[z] \in FD \cup {NoFd}
  OBVIOUS
<1>2. Untouched({x, y}, T, H, T2, H2)
  BY <1>1, ConstantFacts DEF Untouched, Apart
<1>3. H2[x] = NoFd /\ H2[y] = h
  OBVIOUS
<1>4. ASSUME h # NoFd
      PROVE  T2[h] \in Opened /\ \A z \in Holders \ {x} : H[z] # h
  <2>1. h = H[x] /\ H[x] \in FD /\ T[h] \in Opened
        /\ \A z \in Holders \ {x} : H[z] # H[x]
    BY <1>1, <1>4 DEF Apart
  <2>2. T2[h] = T[h]
    BY <2>1
  <2> QED
    BY <2>1, <2>2
<1>5. ASSUME NEW z \in Holders, H2[z] # NoFd
      PROVE  T2[H2[z]] \in Opened /\ \A w \in Holders \ {z} : H2[w] # H2[z]
  <2>1. CASE z = x
    BY <1>3, <1>5, <2>1
  <2>2. CASE z = y
    BY <1>2, <1>3, <1>4, <1>5, <2>2 DEF Untouched
  <2>3. CASE z \notin {x, y}
    <3>1. H2[z] = H[z] /\ T2[H[z]] \in Opened
      BY <1>2, <1>5, <2>3 DEF Untouched, Apart
    <3>2. h # H[z]
      BY <1>4, <1>5, <2>3, <3>1 DEF Apart
    <3> QED
      BY <1>2, <1>3, <1>5, <2>3, <3>1, <3>2 DEF Apart, Untouched
  <2> QED
    BY <2>1, <2>2, <2>3
<1> QED
  BY <1>2, <1>5 DEF Apart

LEMMA SwapApart ==
  ASSUME NEW T \in Tables, NEW H \in Holdings, Apart(T, H),
         NEW x \in Holders, NEW y \in Holders, x # y,
         NEW H2, H2 = [H EXCEPT ![y] = H[x], ![x] = H[y]]
  PROVE  Apart(T, H2) /\ Untouched({x, y}, T, H, T, H2)
BY DEF Holdings, Apart, Untouched

(* The same of the model's own table and handles. *)
OthersKeep(X) == Untouched(X, table, held, table', held')

LEMMA ExclusiveApart ==
  ASSUME TypeInv
  PROVE  /\ table \in Tables /\ held \in Holdings
         /\ Exclusive <=> Apart(table, held)
<1>1. table \in Tables /\ held \in Holdings
  BY DEF TypeInv, TypeOK, Tables, Holdings
<1>2. \A x \in Holders : held[x] # NoFd => (Live(held[x]) <=> table[held[x]] \in Opened)
  BY <1>1 DEF Live, Opened, Tables, Holdings
<1>3. Exclusive <=> Apart(table, held)
  BY <1>2 DEF Exclusive, Owns, Apart
<1> QED
  BY <1>1, <1>3

LEMMA ApartExclusive ==
  ASSUME Apart(table', held')
  PROVE  Exclusive'
BY DEF Exclusive, Owns, Live, Apart, Opened

LEMMA ClaimExclusive ==
  ASSUME TypeInv, Exclusive, NEW x \in Holders, NEW entry \in Opened,
         Allocate(x, entry)
  PROVE  Exclusive' /\ OthersKeep({x})
<1>1. PICK f \in FD : /\ table[f] = "free"
                      /\ table' = [table EXCEPT ![f] = entry]
                      /\ held' = [held EXCEPT ![x] = f]
  BY DEF Allocate, IsLowest, Install
<1>2. Apart(table', held') /\ OthersKeep({x})
  BY <1>1, ExclusiveApart, ClaimApart DEF OthersKeep
<1> QED
  BY <1>2, ApartExclusive

LEMMA MarkExclusive ==
  ASSUME TypeInv, Exclusive, NEW x \in Holders, NEW entry \in Opened,
         table' = table \/ table' = [table EXCEPT ![held[x]] = entry],
         held' = held
  PROVE  Exclusive' /\ OthersKeep({x})
BY ExclusiveApart, ApartExclusive, MarkApart DEF OthersKeep

LEMMA DropExclusive ==
  ASSUME TypeInv, Exclusive, NEW x \in Holders,
         table' = table \/ table' = [table EXCEPT ![held[x]] = "free"],
         held' = [held EXCEPT ![x] = NoFd]
  PROVE  Exclusive' /\ OthersKeep({x})
BY ExclusiveApart, ApartExclusive, DropApart DEF OthersKeep

LEMMA HandExclusive ==
  ASSUME TypeInv, Exclusive, NEW x \in Holders, NEW y \in Holders, x # y,
         table' = table \/ table' = [table EXCEPT ![held[y]] = "free"],
         NEW h \in {NoFd, held[x]},
         held' = [held EXCEPT ![y] = h, ![x] = NoFd]
  PROVE  Exclusive' /\ OthersKeep({x, y})
BY ExclusiveApart, ApartExclusive, HandApart DEF OthersKeep

LEMMA SwapExclusive ==
  ASSUME TypeInv, Exclusive, NEW x \in Holders, NEW y \in Holders, x # y,
         table' = table, held' = [held EXCEPT ![y] = held[x], ![x] = held[y]]
  PROVE  Exclusive' /\ OthersKeep({x, y})
BY ExclusiveApart, ApartExclusive, SwapApart DEF OthersKeep

LEMMA CloseHandleCases ==
  ASSUME NEW h, CloseHandle(h)
  PROVE  table' = table \/ table' = [table EXCEPT ![h] = "free"]
BY DEF CloseHandle

LEMMA ThreadStepUndisturbed ==
  ASSUME NEW t \in Threads, OthersKeep({t})
  PROVE  ObjectsUndisturbed
BY ConstantFacts DEF OthersKeep, Untouched, ObjectsUndisturbed, Holders

LEMMA ExclusiveInit == Init => Exclusive
BY DEF Init, Exclusive

LEMMA ExclusiveStep ==
  ASSUME Disciplined, TypeInv, NeverDiscards, Exclusive, [Next]_vars
  PROVE  Exclusive' /\ ObjectsUndisturbed
<1> DEFINE Goal == Exclusive' /\ ObjectsUndisturbed
<1>o. {"file", "socket", "connected", "bound", "listening"} \subseteq Opened
  BY DEF Opened, Entries
<1>k. ASSUME UNCHANGED <<table, held>> PROVE Goal
  BY <1>k DEF Exclusive, Owns, Live, ObjectsUndisturbed
<1>c. ASSUME NEW t \in Threads, NEW entry \in Opened,
             Allocate(t, entry) \/ UNCHANGED <<table, held>>
      PROVE  Goal
  BY <1>c, <1>k, ClaimExclusive, ThreadStepUndisturbed DEF Holders
<1>m. ASSUME NEW t \in Threads, NEW entry \in Opened, held' = held,
             table' = table \/ table' = [table EXCEPT ![held[t]] = entry]
      PROVE  Goal
  BY <1>m, MarkExclusive, ThreadStepUndisturbed DEF Holders
<1>a. ASSUME NEW t \in Threads, NEW fault, NEW from, NEW entry \in Opened,
             NEW next, NEW failure, Advance(t, fault, from, entry, next, failure)
      PROVE  Goal
  BY <1>a, <1>m DEF Advance, Install
<1>d. ASSUME NEW t \in Threads, held' = [held EXCEPT ![t] = NoFd],
             table' = table \/ table' = [table EXCEPT ![held[t]] = "free"]
      PROVE  Goal
  BY <1>d, DropExclusive, ThreadStepUndisturbed DEF Holders
<1>1. CASE UNCHANGED vars
  BY <1>1, <1>k DEF vars
<1>2. ASSUME NEW t \in Threads, NEW s \in Slots, NEW throwing \in BOOLEAN,
             OpenFile(t, s, throwing)
      PROVE  Goal
  BY <1>2, <1>c, <1>o DEF OpenFile, CannotAllocate
<1>3. ASSUME NEW t \in Threads, NEW s \in Slots, NEW throwing \in BOOLEAN,
             NEW k \in Kinds, BeginOpen(t, s, k, throwing)
      PROVE  Goal
  BY <1>3, <1>k DEF BeginOpen
<1>4. ASSUME NEW t \in Threads, NEW s \in Slots, NEW d \in Slots, Accept(t, s, d)
      PROVE  Goal
  BY <1>4, <1>c, <1>o DEF Accept, CannotAllocate
<1>5. ASSUME NEW t \in Threads, NEW s \in Slots, FailedIo(t, s) PROVE Goal
  BY <1>5, <1>k DEF FailedIo
<1>6. ASSUME NEW t \in Threads, ClearError(t) PROVE Goal
  BY <1>6, <1>k DEF ClearError
<1>7. ASSUME NEW t \in Threads, Proceed(t) PROVE Goal
  <2>1. CASE LocalSocket(t)
    BY <2>1, <1>c, <1>o DEF LocalSocket, CannotAllocate
  <2>2. CASE LocalConnect(t)
    BY <2>2, <1>m, <1>d, <1>o DEF LocalConnect, Install
  <2>3. CASE LocalBind(t)
    BY <2>3, <1>a, <1>o DEF LocalBind
  <2>4. CASE LocalListen(t)
    BY <2>4, <1>a, <1>o DEF LocalListen
  <2>5. CASE InetSocket(t)
    BY <2>5, <1>c, <1>o DEF InetSocket, CannotAllocate
  <2>6. CASE InetDiscard(t)
    BY <2>6 DEF InetDiscard, InCall, NeverDiscards
  <2>7. CASE TcpConnect(t)
    BY <2>7, <1>a, <1>o DEF TcpConnect
  <2>8. CASE ReuseAddr(t)
    BY <2>8, <1>k DEF ReuseAddr
  <2>9. CASE TcpBind(t)
    BY <2>9, <1>a, <1>o DEF TcpBind
  <2>10. CASE TcpListen(t)
    BY <2>10, <1>a, <1>o DEF TcpListen
  <2>11. CASE UdpBind(t)
    BY <2>11, <1>a, <1>o DEF UdpBind
  <2>12. CASE Cleanup(t)
    BY <2>12, <1>d DEF Cleanup, Install
  <2>13. CASE Return(t)
    <3> DEFINE s == task[t].slot
               h == IF ec[t] THEN NoFd ELSE held[t]
    <3>1. s \in Slots /\ s \in Holders /\ t \in Holders /\ t # s
      BY <2>13, ConstantFacts DEF Return, TypeInv, TaskShape, Holders
    <3>2. /\ table' = table \/ table' = [table EXCEPT ![held[s]] = "free"]
          /\ held' = [held EXCEPT ![s] = h, ![t] = NoFd]
      BY <2>13, CloseHandleCases DEF Return
    <3>3. h \in {NoFd, held[t]}
      OBVIOUS
    <3>4. Exclusive' /\ OthersKeep({t, s})
      <4> HIDE DEF h, s
      <4> QED
        BY <3>1, <3>2, <3>3, HandExclusive
    <3>5. held'[s] = held[s] => held[s] = NoFd
      BY <3>1, <3>2, <3>3 DEF TypeInv, TypeOK, Exclusive, Owns
    <3> QED
      BY <3>1, <3>4, <3>5, ConstantFacts
         DEF OthersKeep, Untouched, ObjectsUndisturbed, Holders
  <2>14. CASE Throw(t)
    BY <2>14, <1>d DEF Throw
  <2> QED
    BY <1>7, <2>1, <2>2, <2>3, <2>4, <2>5, <2>6, <2>7, <2>8, <2>9, <2>10, <2>11,
       <2>12, <2>13, <2>14 DEF Proceed
<1>8. ASSUME NEW s \in Slots, Close(s) \/ Destroy(s) PROVE Goal
  <2>1. /\ s \in Holders /\ held' = [held EXCEPT ![s] = NoFd]
        /\ table' = table \/ table' = [table EXCEPT ![held[s]] = "free"]
    BY <1>8, CloseHandleCases DEF Close, Destroy, Holders
  <2>2. Exclusive' /\ OthersKeep({s})
    BY <2>1, DropExclusive
  <2> QED
    BY <2>1, <2>2 DEF OthersKeep, Untouched, ObjectsUndisturbed, Holders, TypeInv, TypeOK
<1>9. ASSUME NEW s \in Slots, NEW d \in Slots, MoveAssign(s, d) PROVE Goal
  <2>1. /\ s \in Holders /\ d \in Holders /\ s # d
        /\ held' = [held EXCEPT ![d] = held[s], ![s] = NoFd]
        /\ table' = table \/ table' = [table EXCEPT ![held[d]] = "free"]
    BY <1>9, CloseHandleCases DEF MoveAssign, Exchangeable, Holders
  <2>2. Exclusive' /\ OthersKeep({s, d})
    BY <2>1, HandExclusive
  <2>3. /\ held'[s] = held[s] => held[s] = NoFd
        /\ held'[d] = held[d] => held[d] = NoFd
    BY <2>1 DEF TypeInv, TypeOK, Exclusive, Owns
  <2> QED
    BY <2>2, <2>3 DEF OthersKeep, Untouched, ObjectsUndisturbed, Holders
<1>10. ASSUME NEW s \in Slots, NEW d \in Slots, Swap(s, d) PROVE Goal
  <2>1. /\ s \in Holders /\ d \in Holders /\ s # d /\ table' = table
        /\ held' = [held EXCEPT ![d] = held[s], ![s] = held[d]]
    BY <1>10 DEF Swap, Exchangeable, Holders
  <2> QED
    BY <2>1, SwapExclusive DEF ObjectsUndisturbed
<1> QED
  BY <1>1, <1>2, <1>3, <1>4, <1>5, <1>6, <1>7, <1>8, <1>9, <1>10 DEF Next

(* Descriptors are owned exclusively by objects and calls in progress, for  *)
(* any number of threads and slots, if the program is disciplined.          *)
THEOREM ExclusiveOwnership ==
  ASSUME Disciplined
  PROVE  Spec => []Exclusive
<1> DEFINE IInv == TypeInv /\ NeverDiscards /\ Exclusive
<1>1. Init => IInv
  BY TypeInit, NeverDiscardsInit, ExclusiveInit
<1>2. IInv /\ [Next]_vars => IInv'
  BY TypeStep, NeverDiscardsStep, ExclusiveStep
<1>3. IInv => Exclusive
  OBVIOUS
<1> QED
  <2> HIDE DEF IInv
  <2> QED
    BY <1>1, <1>2, <1>3, PTL DEF Spec

(* No step of a disciplined program touches the descriptor of an object it  *)
(* leaves alone.                                                            *)
THEOREM NobodyDisturbs ==
  ASSUME Disciplined
  PROVE  Spec => Undisturbed
<1> DEFINE IInv == TypeInv /\ NeverDiscards /\ Exclusive
<1>1. Init => IInv
  BY TypeInit, NeverDiscardsInit, ExclusiveInit
<1>2. IInv /\ [Next]_vars => IInv' /\ [ObjectsUndisturbed]_vars
  BY TypeStep, NeverDiscardsStep, ExclusiveStep
<1> QED
  <2> HIDE DEF IInv
  <2> QED
    BY <1>1, <1>2, PTL DEF Spec, Undisturbed
-----------------------------------------------------------------------------
(* Ownership in a program that does not clear its error_codes.  The number  *)
(* open_inet_socket has closed and returned is harmless if the factory does *)
(* nothing with it: make_udp_socket's only drops it.  Until it does, a      *)
(* stranger may have been given the number, so the call does not count as   *)
(* one of its holders.                                                      *)

Peers == {"local_peer", "tcp_peer"}

(* A call is for a kind the program makes, or accepts a peer; and only an   *)
(* error leads to ::close() in open_inet_socket.                            *)
CallsMade ==
  \A t \in Threads : /\ pc[t] # "idle" => task[t].kind \in Kinds \cup Peers
                     /\ pc[t] = "discard" => ec[t]

OnlyThread(t) ==
  \A u \in Threads \ {t} : pc'[u] = pc[u] /\ task'[u] = task[u] /\ ec'[u] = ec[u]

LEMMA BeginMoves ==
  ASSUME TypeInv, NEW t \in Threads, NEW s, NEW k, NEW throwing, NEW addrs,
         NEW step, NEW failed, Begin(t, s, k, throwing, addrs, step, failed)
  PROVE  /\ OnlyThread(t) /\ pc[t] = "idle" /\ pc'[t] = step
         /\ task'[t].kind = k /\ task'[t].slot = s
         /\ ec'[t] = (failed \/ EntryEc(t, throwing))
         /\ class' = class
BY DEF TypeInv, TypeOK, Begin, Goto, OnlyThread

LEMMA InCallMoves ==
  ASSUME TypeInv, NEW t \in Threads, NEW from, NEW kinds, InCall(t, from, kinds),
         NEW step, Succeed(t, step) \/ Fail(t, step)
  PROVE  /\ OnlyThread(t) /\ pc[t] = from /\ pc'[t] = step
         /\ task'[t] = task[t] /\ task[t].kind \in kinds
         /\ ec'[t] = ec[t] \/ ec'[t] = TRUE
         /\ Succeed(t, step) => ec'[t] = ec[t]
         /\ class' = class
BY DEF TypeInv, TypeOK, InCall, Succeed, Fail, Goto, OnlyThread

LEMMA LeaveMoves ==
  ASSUME TypeInv, NEW t \in Threads, Leave(t)
  PROVE  OnlyThread(t) /\ pc'[t] = "idle" /\ ec'[t] = FALSE
BY DEF TypeInv, TypeOK, Leave, Goto, OnlyThread

LEMMA AcceptMoves ==
  ASSUME TypeInv, NEW t \in Threads, NEW s \in Slots, NEW d \in Slots,
         Accept(t, s, d)
  PROVE  /\ OnlyThread(t) /\ pc[t] = "idle" /\ pc'[t] = "return"
         /\ task'[t].kind \in Peers /\ class' = class
<1> DEFINE k == PeerOf[class[s]]
<1>1. PICK failed \in BOOLEAN : Begin(t, d, k, FALSE, 1, "return", failed)
  BY DEF Accept
<1>2. k \in Peers
  BY DEF Accept, PeerOf, Peers
<1> HIDE DEF k
<1> QED
  BY <1>1, <1>2, BeginMoves

LEMMA CallsMadeInit == Init => CallsMade
BY DEF Init, CallsMade

LEMMA CallsMadeStep ==
  ASSUME TypeInv, CallsMade, [Next]_vars
  PROVE  CallsMade'
<1> DEFINE Made(t) == /\ pc[t] # "idle" => task[t].kind \in Kinds \cup Peers
                      /\ pc[t] = "discard" => ec[t]
<1>o. ASSUME NEW t \in Threads, OnlyThread(t), Made(t)' PROVE CallsMade'
  BY <1>o DEF CallsMade, OnlyThread
<1>k. ASSUME UNCHANGED <<pc, task, ec>> PROVE CallsMade'
  BY <1>k DEF CallsMade
<1>b. ASSUME NEW t \in Threads, NEW s, NEW k \in Kinds \cup Peers, NEW throwing,
             NEW addrs, NEW step, NEW failed,
             Begin(t, s, k, throwing, addrs, step, failed), step # "discard"
      PROVE  CallsMade'
  BY <1>b, <1>o, BeginMoves
<1>i. ASSUME NEW t \in Threads, NEW from, from # "idle", NEW kinds,
             InCall(t, from, kinds), NEW step, step # "discard",
             Succeed(t, step) \/ Fail(t, step)
      PROVE  CallsMade'
  <2>1. /\ OnlyThread(t) /\ pc[t] = from /\ pc'[t] = step
        /\ task'[t] = task[t]
    BY <1>i, InCallMoves
  <2>2. Made(t)'
    BY <1>i, <2>1 DEF CallsMade
  <2> QED
    BY <2>1, <2>2, <1>o
<1>a. ASSUME NEW t \in Threads, NEW at, at # "idle", NEW kinds, InCall(t, at, kinds),
             NEW fault, NEW from, NEW entry, NEW next, NEW failure,
             next # "discard", failure # "discard",
             Advance(t, fault, from, entry, next, failure)
      PROVE  CallsMade'
  BY <1>a, <1>i DEF Advance
<1>1. CASE UNCHANGED vars
  BY <1>1, <1>k DEF vars
<1>2. ASSUME NEW t \in Threads, NEW s \in Slots, NEW throwing \in BOOLEAN,
             OpenFile(t, s, throwing)
      PROVE  CallsMade'
  BY <1>2, <1>b DEF OpenFile
<1>3. ASSUME NEW t \in Threads, NEW s \in Slots, NEW throwing \in BOOLEAN,
             NEW k \in Kinds, BeginOpen(t, s, k, throwing)
      PROVE  CallsMade'
  BY <1>3, <1>b DEF BeginOpen
<1>4. ASSUME NEW t \in Threads, NEW s \in Slots, NEW d \in Slots, Accept(t, s, d)
      PROVE  CallsMade'
  BY <1>4, <1>o, AcceptMoves
<1>5. ASSUME NEW t \in Threads, NEW s \in Slots, FailedIo(t, s) PROVE CallsMade'
  BY <1>5, <1>k DEF FailedIo
<1>6. ASSUME NEW t \in Threads, ClearError(t) PROVE CallsMade'
  BY <1>6, <1>k DEF ClearError
<1>7. ASSUME NEW t \in Threads, Proceed(t) PROVE CallsMade'
  <2>1. CASE LocalSocket(t)
    BY <2>1, <1>i DEF LocalSocket
  <2>2. CASE LocalConnect(t)
    <3>1. PICK step \in {"cleanup", "return"} : Succeed(t, step) \/ Fail(t, step)
      BY <2>2 DEF LocalConnect
    <3> QED
      BY <2>2, <1>i, <3>1 DEF LocalConnect
  <2>3. CASE LocalBind(t)
    BY <2>3, <1>a DEF LocalBind, LocalServerExit
  <2>4. CASE LocalListen(t)
    BY <2>4, <1>a DEF LocalListen, LocalServerExit
  <2>5. CASE InetSocket(t)
    <3>1. InCall(t, "socket", InetKinds)
      BY <2>5 DEF InetSocket
    <3>2. AfterInetSocket(task[t].kind) # "discard" /\ NextAddress(t) # "discard"
      BY <3>1 DEF InCall, AfterInetSocket, NextAddress, InetKinds
    <3>3. CASE ec[t] /\ Succeed(t, "discard")
      <4>1. /\ OnlyThread(t) /\ pc[t] = "socket" /\ pc'[t] = "discard"
            /\ task'[t] = task[t] /\ ec'[t] = ec[t]
        BY <3>1, <3>3, InCallMoves
      <4>2. Made(t)'
        BY <3>3, <4>1 DEF CallsMade
      <4> QED
        BY <4>1, <4>2, <1>o
    <3>4. CASE Succeed(t, AfterInetSocket(task[t].kind)) \/ Fail(t, NextAddress(t))
      BY <3>1, <3>2, <3>4, <1>i
    <3> QED
      BY <2>5, <3>3, <3>4 DEF InetSocket
  <2>6. CASE InetDiscard(t)
    <3>1. InCall(t, "discard", InetKinds)
          /\ Succeed(t, AfterInetSocket(task[t].kind))
      BY <2>6 DEF InetDiscard
    <3>2. AfterInetSocket(task[t].kind) # "discard"
      BY <3>1 DEF InCall, AfterInetSocket, InetKinds
    <3> QED
      BY <3>1, <3>2, <1>i
  <2>7. CASE TcpConnect(t)
    BY <2>7, <1>a DEF TcpConnect
  <2>8. CASE ReuseAddr(t)
    BY <2>8, <1>i DEF ReuseAddr
  <2>9. CASE TcpBind(t)
    BY <2>9, <1>a DEF TcpBind
  <2>10. CASE TcpListen(t)
    BY <2>10, <1>a DEF TcpListen
  <2>11. CASE UdpBind(t)
    BY <2>11, <1>a DEF UdpBind
  <2>12. CASE Cleanup(t)
    BY <2>12, <1>i DEF Cleanup
  <2>13. CASE Return(t) \/ Throw(t)
    BY <2>13, <1>o, LeaveMoves DEF Return, Throw
  <2> QED
    BY <1>7, <2>1, <2>2, <2>3, <2>4, <2>5, <2>6, <2>7, <2>8, <2>9, <2>10, <2>11,
       <2>12, <2>13 DEF Proceed
<1>8. ASSUME NEW s \in Slots, Close(s) \/ Destroy(s) PROVE CallsMade'
  BY <1>8, <1>k DEF Close, Destroy
<1>9. ASSUME NEW s \in Slots, NEW d \in Slots, MoveAssign(s, d) \/ Swap(s, d)
      PROVE  CallsMade'
  BY <1>9, <1>k DEF MoveAssign, Swap
<1> QED
  BY <1>1, <1>2, <1>3, <1>4, <1>5, <1>6, <1>7, <1>8, <1>9 DEF Next

(* The call holds a number that it can only drop. *)
Spent(x) == /\ x \in Threads /\ pc[x] = "return" /\ ec[x]
            /\ task[x].kind = "udp_socket"

owned == [x \in Holders |-> IF Spent(x) THEN NoFd ELSE held[x]]

(* A discarded number is dropped without a further call. *)
DiscardsHarmless == Kinds \cap InetKinds \subseteq {"udp_socket"}

LEMMA OwnedType ==
  ASSUME TypeInv
  PROVE  /\ table \in Tables /\ owned \in Holdings
         /\ \A s \in Slots : s \in Holders /\ owned[s] = held[s]
         /\ \A t \in Threads : t \in Holders
                               /\ owned[t] = IF Spent(t) THEN NoFd ELSE held[t]
BY ConstantFacts
   DEF TypeInv, TypeOK, owned, Tables, Holdings, Spent, Holders

(* A step of t that changes only t's handle, if any. *)
LEMMA OwnedStep ==
  ASSUME TypeInv, TypeInv', NEW t \in Threads, OnlyThread(t), NEW v,
         \/ held' = [held EXCEPT ![t] = v]
         \/ held' = held /\ v = held[t]
  PROVE  owned' = [owned EXCEPT ![t] = IF Spent(t)' THEN NoFd ELSE v]
<1> DEFINE w == IF Spent(t)' THEN NoFd ELSE v
<1>1. \A y \in Holders \ {t} : held'[y] = held[y] /\ (Spent(y)' <=> Spent(y))
  BY DEF TypeInv, TypeOK, OnlyThread, Spent
<1>2. t \in Holders /\ held'[t] = v
  BY DEF TypeInv, TypeOK, Holders
<1>3. \A y \in Holders : owned'[y] = [owned EXCEPT ![t] = w][y]
  BY <1>1, <1>2 DEF owned
<1>4. owned' \in [Holders -> FD \cup {NoFd}]
  BY DEF TypeInv, TypeOK, owned
<1> QED
  BY <1>3, <1>4 DEF owned

(* A step outside the factories spends nobody's descriptor. *)
LEMMA OwnedElsewhere ==
  ASSUME TypeInv, UNCHANGED <<pc, task, ec>>
  PROVE  owned' = [y \in Holders |-> IF Spent(y) THEN NoFd ELSE held'[y]]
<1>1. \A y \in Holders : Spent(y)' <=> Spent(y)
  BY DEF Spent
<1> QED
  BY <1>1 DEF owned

LEMMA SlotsNotSpent ==
  \A s \in Slots : s \in Holders /\ ~Spent(s) /\ ~Spent(s)'
BY ConstantFacts DEF Spent, Holders

OwnedOthersKeep(X) == Untouched(X, table, owned, table', owned')

LEMMA OwnedUndisturbed ==
  ASSUME TypeInv, NEW t \in Threads, OwnedOthersKeep({t}), TypeInv'
  PROVE  ObjectsUndisturbed
BY OwnedType, ConstantFacts
   DEF OwnedOthersKeep, Untouched, ObjectsUndisturbed, Holders

LEMMA OwnedInit == Init => Apart(table, owned)
BY DEF Init, Apart, owned

LEMMA HarmlessStep ==
  ASSUME DiscardsHarmless, TypeInv, TypeInv', CallsMade, Apart(table, owned),
         [Next]_vars
  PROVE  Apart(table', owned') /\ ObjectsUndisturbed
<1> DEFINE Goal == Apart(table', owned') /\ ObjectsUndisturbed
<1>T. table \in Tables /\ owned \in Holdings
  BY OwnedType
<1>h. \A t \in Threads : t \in Holders /\ (pc[t] # "return" => ~Spent(t))
  BY DEF Holders, Spent
<1>f. held \in [Holders -> FD \cup {NoFd}]
  BY DEF TypeInv, TypeOK
<1>o. {"file", "socket", "connected", "bound", "listening"} \subseteq Opened
  BY DEF Opened, Entries
<1>k. ASSUME UNCHANGED <<table, held, pc, task, ec>> PROVE Goal
  <2>1. owned' = owned
    BY <1>k DEF owned, Spent
  <2> QED
    BY <1>k, <2>1 DEF ObjectsUndisturbed
(* t obtains a descriptor. *)
<1>c. ASSUME NEW t \in Threads, NEW entry \in Opened, Allocate(t, entry),
             OnlyThread(t), ~Spent(t)'
      PROVE  Goal
  <2>1. PICK f \in FD : /\ table[f] = "free"
                        /\ table' = [table EXCEPT ![f] = entry]
                        /\ held' = [held EXCEPT ![t] = f]
    BY <1>c DEF Allocate, IsLowest, Install
  <2>2. owned' = [owned EXCEPT ![t] = f]
    BY <1>c, <2>1, OwnedStep
  <2>3. Apart(table', owned') /\ OwnedOthersKeep({t})
    BY <1>T, <1>h, <2>1, <2>2, ClaimApart DEF OwnedOthersKeep
  <2> QED
    BY <2>3, OwnedUndisturbed
(* t's descriptor changes its state, or not even that. *)
<1>m. ASSUME NEW t \in Threads, NEW entry \in Opened, held' = held,
             OnlyThread(t), ~Spent(t), ~Spent(t)',
             table' = table \/ table' = [table EXCEPT ![held[t]] = entry]
      PROVE  Goal
  <2>1. owned' = [owned EXCEPT ![t] = held[t]] /\ owned[t] = held[t]
    BY <1>m, OwnedStep, OwnedType
  <2>2. owned' = owned
    BY <1>T, <2>1 DEF Holdings
  <2>3. Apart(table', owned') /\ OwnedOthersKeep({t})
    BY <1>T, <1>h, <1>m, <2>1, <2>2, MarkApart DEF OwnedOthersKeep
  <2> QED
    BY <2>3, OwnedUndisturbed
(* t gives its descriptor up. *)
<1>d. ASSUME NEW t \in Threads, OnlyThread(t), NEW v,
             held' = [held EXCEPT ![t] = v] \/ (held' = held /\ v = held[t]),
             v = NoFd \/ Spent(t)',
             table' = table \/ table' = [table EXCEPT ![owned[t]] = "free"]
      PROVE  Goal
  <2>1. owned' = [owned EXCEPT ![t] = NoFd]
    BY <1>d, OwnedStep
  <2>2. Apart(table', owned') /\ OwnedOthersKeep({t})
    BY <1>T, <1>h, <1>d, <2>1, DropApart DEF OwnedOthersKeep
  <2> QED
    BY <2>2, OwnedUndisturbed
(* A step inside the factory of a file or a local socket. *)
<1>a. ASSUME NEW t \in Threads, NEW at, at # "return", NEW kinds,
             "udp_socket" \notin kinds, InCall(t, at, kinds),
             NEW fault, NEW from, NEW entry \in Opened, NEW next, NEW failure,
             Advance(t, fault, from, entry, next, failure)
      PROVE  Goal
  <2>1. PICK step : Succeed(t, step) \/ Fail(t, step)
    BY <1>a DEF Advance
  <2>2. OnlyThread(t) /\ ~Spent(t) /\ ~Spent(t)'
    BY <1>a, <2>1, InCallMoves DEF Spent
  <2>3. held' = held /\ (table' = table \/ table' = [table EXCEPT ![held[t]] = entry])
    BY <1>a DEF Advance, Install
  <2> QED
    BY <2>2, <2>3, <1>m
(* No other factory of an inet object runs. *)
<1>n. ASSUME NEW t \in Threads, NEW at, at # "idle", NEW kinds,
             kinds \subseteq InetKinds \ {"udp_socket"}, InCall(t, at, kinds)
      PROVE  FALSE
  <2>1. task[t].kind \in kinds /\ pc[t] # "idle"
    BY <1>n DEF InCall
  <2>2. task[t].kind \in Kinds \cup Peers
    BY <2>1 DEF CallsMade
  <2>3. task[t].kind \notin Peers
    BY <1>n, <2>1 DEF Peers, InetKinds
  <2> QED
    BY <1>n, <2>1, <2>2, <2>3 DEF DiscardsHarmless
<1>i. {"tcp_socket", "tcp_server", "udp_server"} \subseteq InetKinds \ {"udp_socket"}
  BY DEF InetKinds
<1>1. CASE UNCHANGED vars
  BY <1>1, <1>k DEF vars
<1>2. ASSUME NEW t \in Threads, NEW s \in Slots, NEW throwing \in BOOLEAN,
             OpenFile(t, s, throwing)
      PROVE  Goal
  <2>1. OnlyThread(t) /\ pc[t] = "idle" /\ task'[t].kind = "file"
    BY <1>2, BeginMoves DEF OpenFile
  <2>2. ~Spent(t) /\ ~Spent(t)'
    BY <2>1 DEF Spent
  <2> QED
    BY <1>2, <2>1, <2>2, <1>c, <1>m, <1>o DEF OpenFile, CannotAllocate
<1>3. ASSUME NEW t \in Threads, NEW s \in Slots, NEW throwing \in BOOLEAN,
             NEW k \in Kinds, BeginOpen(t, s, k, throwing)
      PROVE  Goal
  <2>1. OnlyThread(t) /\ pc[t] = "idle" /\ UNCHANGED <<table, held>>
    BY <1>3, BeginMoves DEF BeginOpen
  <2>2. ~Spent(t)
    BY <2>1 DEF Spent
  <2>3. CASE Spent(t)'
    BY <2>1, <2>3, <1>d
  <2>4. CASE ~Spent(t)'
    BY <2>1, <2>2, <2>4, <1>m, <1>o
  <2> QED
    BY <2>3, <2>4
<1>4. ASSUME NEW t \in Threads, NEW s \in Slots, NEW d \in Slots, Accept(t, s, d)
      PROVE  Goal
  <2>1. OnlyThread(t) /\ ~Spent(t) /\ ~Spent(t)'
    BY <1>4, AcceptMoves DEF Spent, Peers
  <2>2. Allocate(t, "connected") \/ UNCHANGED <<table, held>>
    BY <1>4 DEF Accept, CannotAllocate
  <2> QED
    BY <2>1, <2>2, <1>c, <1>m, <1>o
<1>5. ASSUME NEW t \in Threads, NEW s \in Slots, FailedIo(t, s) PROVE Goal
  BY <1>5, <1>k DEF FailedIo
<1>6. ASSUME NEW t \in Threads, ClearError(t) PROVE Goal
  BY <1>6, <1>k DEF ClearError
<1>7. ASSUME NEW t \in Threads, Proceed(t) PROVE Goal
  <2>1. CASE LocalSocket(t)
    <3>1. PICK step : InCall(t, "socket", LocalKinds)
                      /\ (Succeed(t, step) \/ Fail(t, step))
      BY <2>1 DEF LocalSocket
    <3>2. OnlyThread(t) /\ ~Spent(t) /\ ~Spent(t)'
      <4>1. /\ OnlyThread(t) /\ pc[t] = "socket" /\ task'[t] = task[t]
            /\ task[t].kind \in LocalKinds
        BY <3>1, InCallMoves
      <4> QED
        BY <4>1 DEF Spent, LocalKinds
    <3>3. Allocate(t, "socket") \/ UNCHANGED <<table, held>>
      BY <2>1 DEF LocalSocket, CannotAllocate
    <3> QED
      BY <3>2, <3>3, <1>c, <1>m, <1>o
  <2>2. CASE LocalConnect(t)
    <3>1. PICK step : InCall(t, "connect", {"local_socket"})
                      /\ (Succeed(t, step) \/ Fail(t, step))
      BY <2>2 DEF LocalConnect
    <3>2. OnlyThread(t) /\ ~Spent(t) /\ ~Spent(t)'
      <4>1. /\ OnlyThread(t) /\ pc[t] = "connect" /\ task'[t] = task[t]
            /\ task[t].kind \in {"local_socket"}
        BY <3>1, InCallMoves
      <4> QED
        BY <4>1 DEF Spent
    <3>3. \/ held' = held /\ table' = [table EXCEPT ![held[t]] = "connected"]
          \/ held' = [held EXCEPT ![t] = NoFd] /\ table' = table
      BY <2>2 DEF LocalConnect, Install
    <3> QED
      BY <3>2, <3>3, <1>m, <1>d, <1>o
  <2>3. CASE LocalBind(t)
    BY <2>3, <1>a, <1>o DEF LocalBind
  <2>4. CASE LocalListen(t)
    BY <2>4, <1>a, <1>o DEF LocalListen
  <2>5. CASE InetSocket(t)
    <3>1. /\ InCall(t, "socket", InetKinds)
          /\ \/ Allocate(t, "socket") /\ ec[t] /\ Succeed(t, "discard")
             \/ /\ Allocate(t, "socket") /\ ~ec[t]
                /\ Succeed(t, AfterInetSocket(task[t].kind))
             \/ UNCHANGED <<table, held>> /\ Fail(t, NextAddress(t))
      BY <2>5 DEF InetSocket, CannotAllocate
    <3>2. OnlyThread(t) /\ pc[t] = "socket" /\ ~Spent(t)
      <4>1. PICK step : Succeed(t, step) \/ Fail(t, step)
        BY <3>1
      <4>2. OnlyThread(t) /\ pc[t] = "socket"
        BY <3>1, <4>1, InCallMoves
      <4> QED
        BY <4>2, <1>h
    <3>3. CASE UNCHANGED <<table, held>>
      <4>1. CASE Spent(t)'
        BY <3>2, <3>3, <4>1, <1>d
      <4>2. CASE ~Spent(t)'
        BY <3>2, <3>3, <4>2, <1>m, <1>o
      <4> QED
        BY <4>1, <4>2
    <3>4. CASE Allocate(t, "socket") /\ ec[t] /\ Succeed(t, "discard")
      <4>1. pc'[t] = "discard"
        BY <3>1, <3>4, InCallMoves
      <4> QED
        BY <3>2, <3>4, <4>1, <1>c, <1>o DEF Spent
    <3>5. CASE Allocate(t, "socket") /\ ~ec[t] /\ Succeed(t, AfterInetSocket(task[t].kind))
      <4>1. ~ec'[t]
        BY <3>1, <3>5, InCallMoves
      <4> QED
        BY <3>2, <3>5, <4>1, <1>c, <1>o DEF Spent
    <3> QED
      BY <3>1, <3>3, <3>4, <3>5
  <2>6. CASE InetDiscard(t)
    <3>1. /\ InCall(t, "discard", InetKinds)
          /\ Succeed(t, AfterInetSocket(task[t].kind))
          /\ held' = held /\ table' = [table EXCEPT ![held[t]] = "free"]
      BY <2>6 DEF InetDiscard, Install
    <3>2. task[t].kind = "udp_socket" /\ ec[t] /\ pc[t] = "discard"
      <4>1. task[t].kind \in InetKinds /\ pc[t] = "discard"
        BY <3>1 DEF InCall
      <4>2. task[t].kind \in Kinds \cup Peers /\ ec[t]
        BY <4>1 DEF CallsMade
      <4>3. task[t].kind \notin Peers
        BY <4>1 DEF Peers, InetKinds
      <4> QED
        BY <4>1, <4>2, <4>3 DEF DiscardsHarmless
    <3>3. AfterInetSocket(task[t].kind) = "return"
      BY <3>2 DEF AfterInetSocket
    <3>4. OnlyThread(t) /\ Spent(t)' /\ ~Spent(t)
      BY <3>1, <3>2, <3>3, InCallMoves DEF Spent
    <3>5. owned[t] = held[t]
      BY <3>4, OwnedType
    <3> QED
      BY <3>1, <3>4, <3>5, <1>d
  <2>7. CASE TcpConnect(t)
    BY <2>7, <1>n, <1>i DEF TcpConnect
  <2>8. CASE ReuseAddr(t)
    BY <2>8, <1>n, <1>i DEF ReuseAddr
  <2>9. CASE TcpBind(t)
    BY <2>9, <1>n, <1>i DEF TcpBind
  <2>10. CASE TcpListen(t)
    BY <2>10, <1>n, <1>i DEF TcpListen
  <2>11. CASE UdpBind(t)
    BY <2>11, <1>n, <1>i DEF UdpBind
  <2>12. CASE Cleanup(t)
    <3>1. InCall(t, "cleanup", AllKinds) /\ Succeed(t, "return")
          /\ held' = [held EXCEPT ![t] = NoFd]
          /\ table' = [table EXCEPT ![held[t]] = "free"]
      BY <2>12 DEF Cleanup, Install
    <3>2. OnlyThread(t) /\ pc[t] = "cleanup"
      BY <3>1, InCallMoves
    <3>3. owned[t] = held[t]
      BY <3>2, <1>h, OwnedType
    <3> QED
      BY <3>1, <3>2, <3>3, <1>d
  <2>13. CASE Return(t)
    <3> DEFINE s == task[t].slot
               h == IF ec[t] THEN NoFd ELSE held[t]
    <3>1. s \in Slots /\ s \in Holders /\ t \in Holders /\ t # s
      BY <2>13, ConstantFacts DEF Return, TypeInv, TaskShape, Holders
    <3>2. /\ table' = table \/ table' = [table EXCEPT ![owned[s]] = "free"]
          /\ held' = [held EXCEPT ![s] = h, ![t] = NoFd]
      BY <2>13, <3>1, CloseHandleCases, OwnedType DEF Return
    <3>3. h \in {NoFd, owned[t]}
      BY OwnedType DEF Spent
    <3>4. OnlyThread(t) /\ ~Spent(t)'
      BY <2>13, LeaveMoves DEF Return, Spent
    <3> HIDE DEF h, s
    <3>5. owned' = [owned EXCEPT ![s] = h, ![t] = NoFd]
      <4>1. \A y \in Holders \ {t} : Spent(y)' <=> Spent(y)
        BY <3>4 DEF OnlyThread, Spent
      <4>2. \A d \in Slots : ~Spent(d)' /\ ~Spent(d)
        BY SlotsNotSpent
      <4>3. \A y \in Holders : owned'[y] = [owned EXCEPT ![s] = h, ![t] = NoFd][y]
        BY <3>1, <3>2, <3>4, <4>1, <4>2 DEF owned, TypeInv, TypeOK
      <4> QED
        BY <4>3 DEF owned
    <3>6. Apart(table', owned') /\ OwnedOthersKeep({t, s})
      BY <1>T, <3>1, <3>2, <3>3, <3>5, HandApart DEF OwnedOthersKeep
    <3>7. held'[s] = held[s] => held[s] = NoFd
      <4>1. held'[s] = h /\ held[s] = owned[s]
        BY <3>1, <3>2, OwnedType DEF TypeInv, TypeOK
      <4> QED
        BY <3>1, <3>3, <4>1 DEF Apart
    <3> QED
      BY <3>1, <3>6, <3>7, OwnedType, ConstantFacts
         DEF OwnedOthersKeep, Untouched, ObjectsUndisturbed
  <2>14. CASE Throw(t)
    BY <2>14, <1>d, LeaveMoves DEF Throw
  <2> QED
    BY <1>7, <2>1, <2>2, <2>3, <2>4, <2>5, <2>6, <2>7, <2>8, <2>9, <2>10, <2>11,
       <2>12, <2>13, <2>14 DEF Proceed
<1>8. ASSUME NEW s \in Slots, Close(s) \/ Destroy(s) PROVE Goal
  <2>1. /\ s \in Holders /\ owned[s] = held[s]
        /\ held' = [held EXCEPT ![s] = NoFd, ![s] = NoFd]
        /\ UNCHANGED <<pc, task, ec>>
    BY <1>8, OwnedType DEF Close, Destroy
  <2>2. table' = table \/ table' = [table EXCEPT ![owned[s]] = "free"]
    BY <1>8, <2>1, CloseHandleCases DEF Close, Destroy
  <2>3. owned' = [owned EXCEPT ![s] = NoFd]
    BY <2>1, OwnedElsewhere, SlotsNotSpent, <1>f DEF owned
  <2>4. Apart(table', owned') /\ OwnedOthersKeep({s})
    BY <1>T, <2>1, <2>2, <2>3, DropApart DEF OwnedOthersKeep
  <2>5. held'[s] = NoFd
    BY <2>1 DEF TypeInv, TypeOK
  <2> QED
    BY <2>4, <2>5, OwnedType DEF OwnedOthersKeep, Untouched, ObjectsUndisturbed
<1>9. ASSUME NEW s \in Slots, NEW d \in Slots, MoveAssign(s, d) PROVE Goal
  <2>1. /\ s \in Holders /\ d \in Holders /\ s # d
        /\ owned[s] = held[s] /\ owned[d] = held[d]
        /\ held' = [held EXCEPT ![d] = owned[s], ![s] = NoFd]
        /\ UNCHANGED <<pc, task, ec>>
    BY <1>9, OwnedType DEF MoveAssign, Exchangeable
  <2>2. table' = table \/ table' = [table EXCEPT ![owned[d]] = "free"]
    BY <1>9, <2>1, CloseHandleCases DEF MoveAssign
  <2>3. owned' = [owned EXCEPT ![d] = owned[s], ![s] = NoFd]
    BY <2>1, OwnedElsewhere, SlotsNotSpent, <1>f DEF owned
  <2>4. Apart(table', owned') /\ OwnedOthersKeep({s, d})
    BY <1>T, <2>1, <2>2, <2>3, HandApart DEF OwnedOthersKeep
  <2>5. /\ held'[s] = held[s] => held[s] = NoFd
        /\ held'[d] = held[d] => held[d] = NoFd
    BY <2>1 DEF TypeInv, TypeOK, Apart
  <2> QED
    BY <2>4, <2>5, OwnedType DEF OwnedOthersKeep, Untouched, ObjectsUndisturbed
<1>10. ASSUME NEW s \in Slots, NEW d \in Slots, Swap(s, d) PROVE Goal
  <2>1. /\ s \in Holders /\ d \in Holders /\ s # d /\ table' = table
        /\ held' = [held EXCEPT ![d] = owned[s], ![s] = owned[d]]
        /\ UNCHANGED <<pc, task, ec>>
    BY <1>10, OwnedType DEF Swap, Exchangeable
  <2>2. owned' = [owned EXCEPT ![d] = owned[s], ![s] = owned[d]]
    BY <2>1, OwnedElsewhere, SlotsNotSpent, <1>f DEF owned
  <2> QED
    BY <1>T, <2>1, <2>2, SwapApart DEF ObjectsUndisturbed
<1> QED
  BY <1>1, <1>2, <1>3, <1>4, <1>5, <1>6, <1>7, <1>8, <1>9, <1>10 DEF Next

(* Objects own their descriptors if the program is disciplined, and also if *)
(* it reuses error_codes that hold an error but makes no TCP object and no  *)
(* UDP server: the number a UDP socket's factory closes and still returns   *)
(* never reaches an object.                                                 *)
THEOREM ObjectOwnership ==
  ASSUME Disciplined \/ DiscardsHarmless
  PROVE  Spec => []ObjectsOwn
<1>1. CASE Disciplined
  <2>1. Exclusive => ObjectsOwn
    BY DEF Exclusive, Owns, ObjectsOwn, Holders
  <2> QED
    BY <1>1, <2>1, ExclusiveOwnership, PTL
<1>2. CASE DiscardsHarmless
  <2> DEFINE IInv == TypeInv /\ CallsMade /\ Apart(table, owned)
  <2>1. Init => IInv
    BY TypeInit, CallsMadeInit, OwnedInit
  <2>2. IInv /\ [Next]_vars => IInv'
    <3> SUFFICES ASSUME IInv, [Next]_vars PROVE IInv'
      OBVIOUS
    <3>1. TypeInv' /\ CallsMade'
      BY TypeStep, CallsMadeStep
    <3>2. Apart(table', owned')
      BY <1>2, <3>1, HarmlessStep
    <3> QED
      BY <3>1, <3>2
  <2>3. IInv => ObjectsOwn
    BY OwnedType DEF ObjectsOwn, Apart, Live, Opened
  <2> QED
    <3> HIDE DEF IInv
    <3> QED
      BY <2>1, <2>2, <2>3, PTL DEF Spec
<1> QED
  BY <1>1, <1>2

(* Nor does a step of such a program touch the descriptor of an object it   *)
(* leaves alone.                                                            *)
THEOREM DiscardsDisturbNobody ==
  ASSUME DiscardsHarmless
  PROVE  Spec => Undisturbed
<1> DEFINE IInv == TypeInv /\ CallsMade /\ Apart(table, owned)
<1>1. Init => IInv
  BY TypeInit, CallsMadeInit, OwnedInit
<1>2. IInv /\ [Next]_vars => IInv' /\ [ObjectsUndisturbed]_vars
  <2> SUFFICES ASSUME IInv, [Next]_vars PROVE IInv' /\ ObjectsUndisturbed
    OBVIOUS
  <2>1. TypeInv' /\ CallsMade'
    BY TypeStep, CallsMadeStep
  <2>2. Apart(table', owned') /\ ObjectsUndisturbed
    BY <2>1, HarmlessStep
  <2> QED
    BY <2>1, <2>2
<1> QED
  <2> HIDE DEF IInv
  <2> QED
    BY <1>1, <1>2, PTL DEF Spec, Undisturbed

=============================================================================
