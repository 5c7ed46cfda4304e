---------------------------- MODULE HutilsProofs ----------------------------
(***************************************************************************)
(* Proofs about hutils: what receive_datagram() reports is what its        *)
(* comment says, for any sockets, threads, buffers and network; creating   *)
(* clients, servers and addresses holds nothing when it fails, for any     *)
(* list of addresses; what is made of any bytes is valid UTF-8; and any    *)
(* values that are packed into bits, and any bits of a mask, come back.    *)
(***************************************************************************)
EXTENDS Udp, UdpCreate, Utf8, Bits, SequenceTheorems, WellFoundedInduction, TLAPS

(* Receiving: the type invariant and what a result says.                   *)

Datagram == [from : Socket, bytes : Length]
Failure == {"none", "poll", "read", "recvfrom"}
Result == [ret : {0, 1}, bytes : Nat \cup {SIZE_MAX}, addr : Socket \cup {Null},
           failed : Failure]

TypeInv ==
    /\ queue \in [Socket -> Seq(Datagram)] /\ error \in [Socket -> BOOLEAN]
    /\ pipe \in Nat
    /\ pc \in [Receiver -> {"idle", "wait", "pipe", "socket"}]
    /\ size \in [Receiver -> Size]
    /\ result \in [Receiver -> Result]
    /\ emptied \in [Receiver -> BOOLEAN]

(* A thread finds in the pipe what its poll() saw there, unless another    *)
(* thread of the server has emptied it since.                              *)
PipeInv ==
    \A r \in Receiver :
        /\ pc[r] = "pipe" => HasPipe(r) /\ (emptied[r] \/ pipe > 0)
        /\ emptied[r] => ~Alone(r)

IInv == TypeInv /\ PipeInv /\ ResultsDocumented

(* What the comment above receive_datagram() says of one result of a       *)
(* thread.                                                                 *)
Documented(r, res, n, late) ==
    /\ res.ret = 0 <=> res.failed = "recvfrom"
    /\ res.failed \in {"recvfrom", "poll"} => res.bytes = 0
    /\ IF res.failed = "read"
       THEN res.bytes = SIZE_MAX /\ late /\ ~Alone(r)
       ELSE res.bytes \in 0..n
    /\ res.addr # Null => HasPipe(r) /\ res.bytes \in 1..n

LEMMA DocumentedResults ==
    ResultsDocumented
        <=> \A r \in Receiver : Documented(r, result[r], size[r], emptied[r])
BY DEF ResultsDocumented, Documented

LEMMA DocumentedResultsNext ==
    ResultsDocumented'
        <=> \A r \in Receiver : Documented(r, result'[r], size'[r], emptied'[r])
BY DEF ResultsDocumented, Documented, Alone, HasPipe

LEMMA NothingDocumented ==
    /\ Nothing \in Result
    /\ \A r \in Receiver, n \in Size, late \in BOOLEAN : Documented(r, Nothing, n, late)
BY SizeAssumption DEF Nothing, Reply, Result, Failure, Documented

LEMMA InitIInv == Init => IInv
<1>. SUFFICES ASSUME Init PROVE IInv
  OBVIOUS
<1>. USE SizeAssumption DEF Init
<1>1. TypeInv
  BY NothingDocumented DEF TypeInv
<1>2. PipeInv
  BY DEF PipeInv
<1>3. ResultsDocumented
  <2>1. \A r \in Receiver : Documented(r, result[r], size[r], emptied[r])
    BY NothingDocumented
  <2>. QED BY <2>1, DocumentedResults
<1>. QED BY <1>1, <1>2, <1>3 DEF IInv

-----------------------------------------------------------------------------
(* The network and the writers change no result and take nothing out of    *)
(* the pipe.                                                               *)

LEMMA InsertAtInSeq ==
    ASSUME NEW S, NEW s \in Seq(S), NEW i \in 1..Len(s) + 1, NEW x \in S
    PROVE  InsertAt(s, i, x) \in Seq(S)
<1>1. Len(s) \in Nat /\ i - 1 \in 0..Len(s) /\ i \in 1..Len(s) + 1
  OBVIOUS
<1>2. SubSeq(s, 1, i - 1) \in Seq(S)
  BY <1>1
<1>3. SubSeq(s, i, Len(s)) \in Seq(S)
  BY <1>1
<1>4. <<x>> \in Seq(S)
  OBVIOUS
<1>. QED BY <1>2, <1>3, <1>4 DEF InsertAt

LEMMA NetworkSteps ==
    ASSUME IInv, \/ \E from, to \in Socket, length \in Length : Send(from, to, length)
                 \/ \E s \in Socket : Duplicate(s) \/ PeerGone(s)
                 \/ \E length \in Length : ServerWrite(length)
    PROVE  IInv'
<1>. USE SizeAssumption DEF IInv, TypeInv
<1>1. /\ UNCHANGED <<pc, size, result, emptied>> /\ pipe' >= pipe /\ pipe' \in Nat
      /\ queue' \in [Socket -> Seq(Datagram)] /\ error' \in [Socket -> BOOLEAN]
  <2>1. ASSUME NEW from \in Socket, NEW to \in Socket, NEW length \in Length,
               Send(from, to, length)
        PROVE  queue' \in [Socket -> Seq(Datagram)]
    <3>1. [from |-> from, bytes |-> length] \in Datagram
      BY DEF Datagram
    <3>2. PICK i \in 1..Len(queue[to]) + 1 :
            queue' = [queue EXCEPT ![to] =
                        InsertAt(@, i, [from |-> from, bytes |-> length])]
      BY <2>1 DEF Send
    <3>. QED BY <3>1, <3>2, InsertAtInSeq
  <2>2. ASSUME NEW s \in Socket, Duplicate(s)
        PROVE  queue' \in [Socket -> Seq(Datagram)]
    <3>1. PICK i \in DOMAIN queue[s] : queue' = [queue EXCEPT ![s] = Append(@, @[i])]
      BY <2>2 DEF Duplicate
    <3>2. queue[s] \in Seq(Datagram) /\ queue[s][i] \in Datagram
      OBVIOUS
    <3>. QED BY <3>1, <3>2
  <2>3. ASSUME NEW s \in Socket, PeerGone(s) PROVE error' \in [Socket -> BOOLEAN]
    BY <2>3, Zenon DEF PeerGone
  <2>4. CASE \E from, to \in Socket, length \in Length : Send(from, to, length)
    <3>1. PICK from \in Socket, to \in Socket, length \in Length : Send(from, to, length)
      BY <2>4
    <3>2. queue' \in [Socket -> Seq(Datagram)]
      BY <2>1, <3>1
    <3>3. UNCHANGED <<error, pipe, pc, size, result, emptied>>
      BY <3>1 DEF Send, thread
    <3>. QED BY <3>2, <3>3
  <2>5. CASE \E s \in Socket : Duplicate(s)
    BY <2>2, <2>5 DEF Duplicate, thread
  <2>6. CASE \E s \in Socket : PeerGone(s)
    BY <2>3, <2>6 DEF PeerGone, thread
  <2>7. CASE \E length \in Length : ServerWrite(length)
    BY <2>7 DEF ServerWrite, net, thread
  <2>. QED BY <2>4, <2>5, <2>6, <2>7
<1>2. PipeInv'
  BY <1>1 DEF PipeInv, HasPipe, Alone
<1>3. ResultsDocumented'
  BY <1>1, DocumentedResults, DocumentedResultsNext
<1>. QED BY <1>1, <1>2, <1>3

-----------------------------------------------------------------------------
(* A thread in receive_datagram().                                         *)

(* What it takes for a return with a documented result to keep all.        *)
LEMMA ReturnKeeps ==
    ASSUME IInv, NEW r \in Receiver, NEW res \in Result, Return(r, res),
           Documented(r, res, size[r], emptied[r]),
           emptied' \in [Receiver -> BOOLEAN],
           \A q \in Receiver : emptied[q] => emptied'[q]
    PROVE  /\ pc' \in [Receiver -> {"idle", "wait", "pipe", "socket"}]
           /\ size' \in [Receiver -> Size] /\ result' \in [Receiver -> Result]
           /\ ResultsDocumented'
<1>. USE DEF IInv, TypeInv, Return
<1>1. result' = [result EXCEPT ![r] = res] /\ size' = size
  OBVIOUS
<1>2. ASSUME NEW q \in Receiver
      PROVE  Documented(q, result'[q], size'[q], emptied'[q])
  <2>1. Documented(q, result'[q], size[q], emptied[q])
    <3>1. CASE q = r
      BY <1>1, <3>1
    <3>2. CASE q # r
      <4>1. result'[q] = result[q]
        BY <1>1, <3>2
      <4>. QED BY <4>1, DocumentedResults
    <3>. QED BY <3>1, <3>2
  <2>. QED BY <1>1, <2>1 DEF Documented
<1>. QED BY <1>1, <1>2, DocumentedResultsNext

LEMMA ReadSteps ==
    ASSUME IInv, NEW r \in Receiver, Read(r)
    PROVE  IInv'
<1>. USE SizeAssumption DEF IInv, TypeInv
<1>1. CASE ReadPipe(r)
  <2>. DEFINE n == Smaller(size[r], pipe)
              res == IF pipe = 0 THEN Reply(1, SIZE_MAX, Null, "read")
                                 ELSE Reply(1, n, Null, "none")
  <2>1. size[r] \in Nat \ {0} /\ n \in 0..size[r] /\ (pipe # 0 => n # 0) /\ pipe - n \in Nat
    <3>1. size[r] \in Nat \ {0} /\ pipe \in Nat
      OBVIOUS
    <3>. QED BY ONLY <3>1 DEF Smaller
  <2>2. /\ pc[r] = "pipe" /\ pipe' = pipe - n /\ Return(r, res) /\ UNCHANGED <<queue, error>>
        /\ emptied' = [q \in Receiver |->
                        emptied[q] \/ (q # r /\ pc[q] = "pipe" /\ n = pipe)]
    BY <1>1 DEF ReadPipe, net
  <2>3. res = [ret |-> 1, bytes |-> IF pipe = 0 THEN SIZE_MAX ELSE n, addr |-> Null,
               failed |-> IF pipe = 0 THEN "read" ELSE "none"]
    BY DEF Reply
  <2>4. res \in Result
    BY <2>1, <2>3 DEF Result, Failure
  <2>5. HasPipe(r) /\ (emptied[r] \/ pipe > 0) /\ (emptied[r] => ~Alone(r))
    BY <2>2 DEF PipeInv
  <2>6. Documented(r, res, size[r], emptied[r])
    BY <2>1, <2>3, <2>5 DEF Documented
  <2>. HIDE DEF n, res
  <2>7. emptied' \in [Receiver -> BOOLEAN] /\ \A q \in Receiver : emptied[q] => emptied'[q]
    BY <2>2, Zenon
  <2>8. ASSUME NEW q \in Receiver, emptied'[q] PROVE ~Alone(q)
    <3>1. CASE emptied[q]
      BY <3>1 DEF PipeInv
    <3>2. CASE ~emptied[q]
      <4>1. q # r /\ pc[q] = "pipe"
        BY <2>2, <2>8, <3>2, Zenon
      <4>2. HasPipe(q)
        BY <4>1 DEF PipeInv
      <4>. QED BY <2>5, <4>1, <4>2 DEF HasPipe, Alone
    <3>. QED BY <3>1, <3>2
  <2>9. ASSUME NEW q \in Receiver, pc'[q] = "pipe"
        PROVE  HasPipe(q) /\ (emptied'[q] \/ pipe' > 0)
    <3>1. q # r /\ pc[q] = "pipe"
      BY <2>2, <2>9 DEF Return
    <3>2. HasPipe(q)
      BY <3>1 DEF PipeInv
    <3>3. CASE n = pipe
      BY <2>2, <3>1, <3>2, <3>3, Zenon
    <3>4. CASE n # pipe
      BY <2>1, <2>2, <3>2, <3>4
    <3>. QED BY <3>3, <3>4
  <2>10. PipeInv'
    BY <2>8, <2>9 DEF PipeInv, HasPipe, Alone
  <2>. QED BY <2>1, <2>2, <2>4, <2>6, <2>7, <2>10, ReturnKeeps
<1>2. ASSUME NEW res \in Result, Return(r, res), UNCHANGED <<pipe, emptied>>,
             Documented(r, res, size[r], emptied[r]),
             queue' \in [Socket -> Seq(Datagram)], error' \in [Socket -> BOOLEAN]
      PROVE  IInv'
  <2>1. PipeInv'
    BY <1>2 DEF PipeInv, Return, HasPipe, Alone
  <2>. QED BY <1>2, <2>1, ReturnKeeps
<1>3. size[r] \in Nat \ {0} /\ EndOf[r] \in Socket /\ emptied[r] \in BOOLEAN
  BY EndAssumption
<1>4. CASE RecvError(r)
  <2>. DEFINE res == Reply(0, 0, Null, "recvfrom")
  <2>1. res = [ret |-> 0, bytes |-> 0, addr |-> Null, failed |-> "recvfrom"]
    BY DEF Reply
  <2>2. res \in Result /\ Documented(r, res, size[r], emptied[r])
    BY <1>3, <2>1 DEF Result, Failure, Documented
  <2>. HIDE DEF res
  <2>3. Return(r, res) /\ UNCHANGED <<queue, pipe, emptied>>
    BY <1>4 DEF RecvError, res
  <2>4. error' \in [Socket -> BOOLEAN]
    BY <1>3, <1>4, Zenon DEF RecvError
  <2>. QED BY <1>2, <2>2, <2>3, <2>4
<1>5. CASE RecvNothing(r)
  <2>1. Nothing \in Result /\ Documented(r, Nothing, size[r], emptied[r])
    BY <1>3, NothingDocumented
  <2>2. Return(r, Nothing) /\ UNCHANGED <<queue, error, pipe, emptied>>
    BY <1>5 DEF RecvNothing, net
  <2>. QED BY <1>2, <2>1, <2>2
<1>6. CASE RecvFrom(r)
  <2>. DEFINE d == Head(queue[EndOf[r]])
              res == Reply(1, Smaller(size[r], d.bytes),
                             IF HasPipe(r) /\ d.bytes # 0 THEN d.from ELSE Null, "none")
  <2>1. queue[EndOf[r]] \in Seq(Datagram) /\ queue[EndOf[r]] # <<>>
    BY <1>3, <1>6 DEF RecvFrom
  <2>2. d \in Datagram /\ Tail(queue[EndOf[r]]) \in Seq(Datagram)
    BY <2>1
  <2>3. /\ Return(r, res) /\ UNCHANGED <<error, pipe, emptied>>
        /\ queue' = [queue EXCEPT ![EndOf[r]] = Tail(@)]
    BY <1>6 DEF RecvFrom
  <2>4. res = [ret |-> 1, bytes |-> Smaller(size[r], d.bytes),
               addr |-> IF HasPipe(r) /\ d.bytes # 0 THEN d.from ELSE Null,
               failed |-> "none"]
    BY DEF Reply
  <2>. HIDE DEF d
  <2>5. d.bytes \in Nat /\ d.from \in Socket
    BY <2>2 DEF Datagram
  <2>6. /\ Smaller(size[r], d.bytes) \in 0..size[r]
        /\ d.bytes # 0 => Smaller(size[r], d.bytes) \in 1..size[r]
    BY ONLY <1>3, <2>5 DEF Smaller
  <2>7. res \in Result /\ Documented(r, res, size[r], emptied[r])
    BY <1>3, <2>4, <2>5, <2>6 DEF Result, Failure, Documented
  <2>8. queue' \in [Socket -> Seq(Datagram)]
    BY <1>3, <2>2, <2>3
  <2>. HIDE DEF res
  <2>. QED BY <1>2, <2>3, <2>7, <2>8
<1>. QED BY <1>1, <1>4, <1>5, <1>6 DEF Read

LEMMA CallSteps ==
    ASSUME IInv, NEW r \in Receiver,
           Poll(r) \/ PollFails(r) \/ \E n \in Size : Receive(r, n)
    PROVE  IInv'
<1>. USE SizeAssumption DEF IInv, TypeInv
<1>1. CASE Poll(r)
  <2>1. /\ EventWait(r) \in {"pipe", "socket", "idle"}
        /\ EventWait(r) = "pipe" => HasPipe(r) /\ pipe > 0
    BY DEF EventWait, PipeReady
  <2>2. /\ pc' = [pc EXCEPT ![r] = EventWait(r)]
        /\ UNCHANGED <<queue, error, pipe, size, result, emptied>>
    BY <1>1 DEF Poll, net
  <2>3. TypeInv'
    BY <2>1, <2>2
  <2>4. PipeInv'
    BY <2>1, <2>2 DEF PipeInv, HasPipe, Alone
  <2>5. ResultsDocumented'
    BY <2>2, DocumentedResults, DocumentedResultsNext
  <2>. QED BY <2>3, <2>4, <2>5
<1>2. CASE PollFails(r)
  <2>. DEFINE res == Reply(1, 0, Null, "poll")
  <2>1. res = [ret |-> 1, bytes |-> 0, addr |-> Null, failed |-> "poll"]
    BY DEF Reply
  <2>2. size[r] \in Nat \ {0}
    OBVIOUS
  <2>3. res \in Result /\ Documented(r, res, size[r], emptied[r])
    BY <2>1, <2>2 DEF Result, Failure, Documented
  <2>. HIDE DEF res
  <2>4. Return(r, res) /\ UNCHANGED <<queue, error, pipe, emptied>>
    BY <1>2 DEF PollFails, net, res
  <2>5. PipeInv'
    BY <2>4 DEF PipeInv, Return, HasPipe, Alone
  <2>. QED BY <2>3, <2>4, <2>5, ReturnKeeps
<1>3. ASSUME NEW n \in Size, Receive(r, n) PROVE IInv'
  <2>1. /\ pc' = [pc EXCEPT ![r] = "wait"] /\ size' = [size EXCEPT ![r] = n]
        /\ result' = [result EXCEPT ![r] = Nothing]
        /\ emptied' = [emptied EXCEPT ![r] = FALSE]
        /\ UNCHANGED <<queue, error, pipe>>
    BY <1>3 DEF Receive, net
  <2>2. emptied' \in [Receiver -> BOOLEAN] /\ emptied'[r] = FALSE
        /\ \A q \in Receiver : q # r => emptied'[q] = emptied[q]
    BY <2>1, Zenon
  <2>3. TypeInv'
    BY <2>1, <2>2, NothingDocumented
  <2>4. PipeInv'
    <3>1. \A q \in Receiver : pc'[q] = "pipe" => q # r /\ pc[q] = "pipe"
      BY <2>1
    <3>. QED BY <2>1, <2>2, <3>1 DEF PipeInv, HasPipe, Alone
  <2>5. ASSUME NEW q \in Receiver
        PROVE  Documented(q, result'[q], size'[q], emptied'[q])
    <3>1. CASE q = r
      BY <2>1, <2>2, <3>1, NothingDocumented
    <3>2. CASE q # r
      <4>1. /\ result'[q] = result[q] /\ size'[q] = size[q]
            /\ emptied'[q] = emptied[q]
        BY <2>1, <2>2, <3>2
      <4>. QED BY <4>1, DocumentedResults
    <3>. QED BY <3>1, <3>2
  <2>. QED BY <2>3, <2>4, <2>5, DocumentedResultsNext
<1>. QED BY <1>1, <1>2, <1>3

(* The result of udp_server_receive() and udp_client_receive() is as the   *)
(* comment says for every buffer size, any number of threads at a socket,  *)
(* and whatever the network does and other threads take between poll() and *)
(* the read: an error returns 0 with just two exceptions, a failed poll()  *)
(* and the read() of a pipe another thread has emptied in between.         *)
THEOREM ResultsAreDocumented == Spec => []ResultsDocumented
<1>1. IInv /\ [Next]_vars => IInv'
  <2>. SUFFICES ASSUME IInv, [Next]_vars PROVE IInv'
    OBVIOUS
  <2>1. CASE UNCHANGED vars
    <3>1. UNCHANGED <<queue, error, pipe, pc, size, result, emptied>>
      BY <2>1 DEF vars
    <3>. QED BY <3>1, DocumentedResults, DocumentedResultsNext
             DEF IInv, TypeInv, PipeInv, HasPipe, Alone
  <2>2. CASE Next
    BY <2>2, NetworkSteps, ReadSteps, CallSteps DEF Next
  <2>. QED BY <2>1, <2>2
<1>2. IInv => ResultsDocumented
  BY DEF IInv
<1>. QED BY InitIInv, <1>1, <1>2, PTL DEF Spec

-----------------------------------------------------------------------------
(* Recursive functions over the elements of a list.                        *)

(* Induction over a set of naturals, from the order being well-founded.    *)
LEMMA SetInduction ==
    ASSUME NEW S, 0 \in S, \A n \in Nat : n \in S => n + 1 \in S
    PROVE  Nat \subseteq S
<1>. DEFINE R == OpToRel(<, Nat)
            T == Nat \ S
<1>. SUFFICES ASSUME T # {} PROVE FALSE
  OBVIOUS
<1>1. IsWellFoundedOn(R, Nat)
  BY NatLessThanWellFounded
<1>2. \A x, y \in Nat : <<x, y>> \in R <=> x < y
  BY DEF OpToRel
<1>3. T \subseteq Nat
  OBVIOUS
<1>. HIDE DEF R, T
<1>4. PICK x \in T : \A y \in T : ~(<<y, x>> \in R)
  BY <1>1, <1>3, WFMin
<1>. USE DEF T
<1>5. x # 0
  OBVIOUS
<1>6. x - 1 \in Nat /\ x - 1 < x
  BY <1>5
<1>7. x - 1 \in S
  BY <1>2, <1>4, <1>6
<1>8. x - 1 + 1 = x
  OBVIOUS
<1>. QED BY <1>6, <1>7, <1>8

(* A recursive function of the natural numbers up to n exists: what it is  *)
(* at k comes from what it is at k - 1.                                    *)
Turns(n, S) == [1 .. n -> [S -> S]]
Goes(n, S, start, g, f) ==
    f \in [0 .. n -> S] /\ f[0] = start /\ \A k \in 1 .. n : f[k] = g[k][f[k - 1]]

LEMMA ForwardExists ==
    ASSUME NEW n \in Nat, NEW S, NEW start \in S, NEW g \in Turns(n, S)
    PROVE  \E f : Goes(n, S, start, g, f)
<1>. DEFINE M == {m \in Nat : m <= n => \E f : Goes(m, S, start, g, f)}
<1>1. 0 \in M
  <2>1. Goes(0, S, start, g, [i \in 0 .. 0 |-> start])
    BY DEF Goes
  <2>. QED
    BY <2>1
<1>2. ASSUME NEW m \in Nat, m \in M PROVE m + 1 \in M
  <2>. SUFFICES ASSUME m + 1 <= n PROVE \E f : Goes(m + 1, S, start, g, f)
    OBVIOUS
  <2>1. PICK f : Goes(m, S, start, g, f)
    BY <1>2
  <2>2. f \in [0 .. m -> S] /\ f[m] \in S
    BY <2>1 DEF Goes
  <2>3. PICK next \in S : next = g[m + 1][f[m]]
    BY <2>2 DEF Turns
  <2>. DEFINE h == [k \in 0 .. m + 1 |-> IF k = m + 1 THEN next ELSE f[k]]
  <2>4. h \in [0 .. m + 1 -> S]
    BY <2>2
  <2>5. h[0] = start
    BY <2>1 DEF Goes
  <2>6. ASSUME NEW k \in 1 .. m + 1 PROVE h[k] = g[k][h[k - 1]]
    <3>1. CASE k = m + 1
      <4>1. h[k] = next /\ h[k - 1] = f[m]
        BY <3>1
      <4>. QED
        BY <2>3, <3>1, <4>1
    <3>2. CASE k \in 1 .. m
      <4>1. h[k] = f[k] /\ h[k - 1] = f[k - 1]
        BY <3>2
      <4>. QED
        BY <2>1, <3>2, <4>1 DEF Goes
    <3>. QED
      BY <3>1, <3>2
  <2>. HIDE DEF h
  <2>7. Goes(m + 1, S, start, g, h)
    BY <2>4, <2>5, <2>6 DEF Goes
  <2>. QED
    BY <2>7
<1>3. n \in M
  <2>. HIDE DEF M
  <2>. QED
    BY <1>1, <1>2, SetInduction
<1>. QED
  BY <1>3

-----------------------------------------------------------------------------
(* The loop over the addresses.                                            *)

Outcome == {"ok", "socket", "connect"}
Descriptor == Pfd \cup UNION {Sock(k) : k \in Nat}
World == [open : SUBSET Descriptor, heap : SUBSET {"address", "addrinfo", "client", "server"}]
Attempt == [world : World, sock : SUBSET Descriptor]

LEMMA SockTypes ==
    ASSUME NEW k \in Nat
    PROVE  Sock(k) \subseteq Descriptor /\ Sock(k) # NoSock /\ Sock(k) \cap Pfd = {}
BY DEF Sock, Descriptor, NoSock, Pfd

LEMMA TryOneType ==
    ASSUME NEW tried \in Attempt, NEW k \in Nat, NEW outcome \in Outcome
    PROVE  TryOne(tried, k, outcome) \in Attempt
<1>1. tried.world \in World
  BY DEF Attempt
<1>2. Open(tried.world, Sock(k)) \in World
  BY <1>1, SockTypes DEF World, Open
<1>3. Close(Open(tried.world, Sock(k)), Sock(k)) \in World
  BY <1>2 DEF World, Close
<1>. QED
  BY <1>2, <1>3, SockTypes DEF TryOne, Outcome, Holds, Attempt, NoSock

LEMMA TriedDef ==
    ASSUME NEW world \in World, NEW addrs \in Seq(Outcome)
    PROVE  \E tried :
            /\ Tried(world, addrs) = tried[Len(addrs)]
            /\ tried[0] = Holds(world, NoSock)
            /\ \A k \in 1 .. Len(addrs) :
                tried[k] = IF tried[k - 1].sock # NoSock THEN tried[k - 1]
                           ELSE TryOne(tried[k - 1], k, addrs[k])
<1>. DEFINE Turn(before, k) == IF before.sock # NoSock THEN before ELSE TryOne(before, k, addrs[k])
            F(t) == [k \in 0 .. Len(addrs) |->
                        IF k = 0 THEN Holds(world, NoSock) ELSE Turn(t[k - 1], k)]
            tried == CHOOSE t : t = F(t)
<1>1. Tried(world, addrs) = tried[Len(addrs)]
  BY DEF Tried
<1>2. PICK n \in Nat : n = Len(addrs)
  OBVIOUS
<1>3. \A before \in Attempt, k \in 1 .. n : Turn(before, k) \in Attempt
  BY <1>2, TryOneType
<1>. HIDE DEF Turn
<1>4. PICK g : g = [k \in 1 .. n |-> [before \in Attempt |-> Turn(before, k)]]
  OBVIOUS
<1>5. g \in Turns(n, Attempt)
  BY <1>3, <1>4 DEF Turns
<1>6. PICK start \in Attempt : start = Holds(world, NoSock)
  BY DEF Holds, NoSock, Attempt
<1>7. PICK t : Goes(n, Attempt, start, g, t)
  BY <1>5, ForwardExists
<1>8. t \in [0 .. n -> Attempt] /\ t[0] = start
  BY <1>7 DEF Goes
<1>9. ASSUME NEW k \in 1 .. n PROVE t[k] = Turn(t[k - 1], k)
  <2>1. t[k - 1] \in Attempt
    BY <1>8
  <2>2. t[k] = g[k][t[k - 1]]
    BY <1>7 DEF Goes
  <2>. QED
    BY <1>4, <2>1, <2>2
<1>10. t = F(t)
  <2>1. \A k \in 0 .. Len(addrs) : t[k] = IF k = 0 THEN start ELSE Turn(t[k - 1], k)
    BY <1>2, <1>8, <1>9
  <2>2. t = [k \in 0 .. Len(addrs) |-> t[k]]
    BY <1>2, <1>8
  <2>. QED
    BY <1>6, <2>1, <2>2
<1>11. tried = F(tried)
  BY <1>10, Zenon
<1>. HIDE DEF tried
<1>12. PICK z : z = tried
  OBVIOUS
<1>13. z = [k \in 0 .. n |-> IF k = 0 THEN start ELSE Turn(z[k - 1], k)]
  BY <1>2, <1>6, <1>11, <1>12
<1>. HIDE DEF F
<1>14. z[0] = start
  BY <1>13
<1>15. \A k \in 1 .. n : z[k] = Turn(z[k - 1], k)
  BY <1>13
<1>. QED
  BY <1>1, <1>2, <1>6, <1>12, <1>14, <1>15 DEF Turn

NoSockets(world) == \A k \in Nat : world.open \cap Sock(k) = {}
AfterTrying(world, addrs, n, tried) ==
    \/ (\A k \in 1 .. n : addrs[k] # "ok") /\ tried = Holds(world, NoSock)
    \/ \E j \in 1 .. n : addrs[j] = "ok" /\ tried = Holds(Open(world, Sock(j)), Sock(j))

LEMMA TriedResult ==
    ASSUME NEW world \in World, NoSockets(world), NEW addrs \in Seq(Outcome)
    PROVE  AfterTrying(world, addrs, Len(addrs), Tried(world, addrs))
<1>1. PICK tried :
            /\ Tried(world, addrs) = tried[Len(addrs)]
            /\ tried[0] = Holds(world, NoSock)
            /\ \A k \in 1 .. Len(addrs) :
                tried[k] = IF tried[k - 1].sock # NoSock THEN tried[k - 1]
                           ELSE TryOne(tried[k - 1], k, addrs[k])
  BY TriedDef
<1>. DEFINE M == {n \in Nat : n <= Len(addrs) => AfterTrying(world, addrs, n, tried[n])}
<1>2. 0 \in M
  <2>1. \A k \in 1 .. 0 : addrs[k] # "ok"
    OBVIOUS
  <2>. QED
    BY <1>1, <2>1 DEF AfterTrying
<1>3. ASSUME NEW n \in Nat, n \in M PROVE n + 1 \in M
  <2>. SUFFICES ASSUME n + 1 <= Len(addrs) PROVE AfterTrying(world, addrs, n + 1, tried[n + 1])
    OBVIOUS
  <2>1. AfterTrying(world, addrs, n, tried[n])
    BY <1>3
  <2>2. n + 1 \in 1 .. Len(addrs) /\ (n + 1) - 1 = n /\ addrs[n + 1] \in Outcome
    OBVIOUS
  <2>3. tried[n + 1] = IF tried[n].sock # NoSock THEN tried[n]
                       ELSE TryOne(tried[n], n + 1, addrs[n + 1])
    BY <1>1, <2>2
  <2>4. CASE \E j \in 1 .. n : addrs[j] = "ok" /\ tried[n] = Holds(Open(world, Sock(j)), Sock(j))
    <3>1. PICK j \in 1 .. n : addrs[j] = "ok" /\ tried[n] = Holds(Open(world, Sock(j)), Sock(j))
      BY <2>4
    <3>2. tried[n].sock # NoSock
      BY <3>1, SockTypes DEF Holds
    <3>3. tried[n + 1] = tried[n] /\ j \in 1 .. n + 1
      BY <2>3, <3>2
    <3>. QED
      BY <3>1, <3>3 DEF AfterTrying
  <2>5. CASE (\A k \in 1 .. n : addrs[k] # "ok") /\ tried[n] = Holds(world, NoSock)
    <3>1. tried[n + 1] = TryOne(tried[n], n + 1, addrs[n + 1]) /\ tried[n].world = world
      BY <2>3, <2>5 DEF Holds
    <3>2. CASE addrs[n + 1] = "ok"
      <4>1. tried[n + 1] = Holds(Open(world, Sock(n + 1)), Sock(n + 1))
        BY <3>1, <3>2 DEF TryOne
      <4>. QED
        BY <2>2, <3>2, <4>1 DEF AfterTrying
    <3>3. CASE addrs[n + 1] # "ok"
      <4>1. \A k \in 1 .. n + 1 : addrs[k] # "ok"
        BY <2>5, <3>3
      <4>2. Close(Open(world, Sock(n + 1)), Sock(n + 1)) = world
        <5>1. world.open \cap Sock(n + 1) = {}
          BY DEF NoSockets
        <5>2. (world.open \cup Sock(n + 1)) \ Sock(n + 1) = world.open
          BY <5>1
        <5>. QED
          BY <5>2 DEF Open, Close, World
      <4>3. tried[n + 1] = Holds(world, NoSock)
        BY <2>2, <2>5, <3>1, <3>3, <4>2 DEF TryOne, Outcome
      <4>. QED
        BY <4>1, <4>3 DEF AfterTrying
    <3>. QED
      BY <3>2, <3>3
  <2>. QED
    BY <2>1, <2>4, <2>5 DEF AfterTrying
<1>4. Len(addrs) \in M
  <2>1. Len(addrs) \in Nat
    OBVIOUS
  <2>. HIDE DEF M
  <2>. QED
    BY <1>2, <1>3, <2>1, SetInduction
<1>. QED
  BY <1>1, <1>4

(* getaddrinfo() fails, or the loop finds a socket, or it does not.        *)
Reachable(fails, addrs) == "getaddrinfo" \notin fails /\ \E k \in DOMAIN addrs : addrs[k] = "ok"

LEMMA LookedResult ==
    ASSUME NEW world \in World, NoSockets(world), "addrinfo" \notin world.heap,
           NEW fails, NEW addrs \in Seq(Outcome)
    PROVE  \/ ~Reachable(fails, addrs) /\ Looked(world, fails, addrs) = Holds(world, NoSock)
           \/ /\ Reachable(fails, addrs)
              /\ \E j \in Nat : Looked(world, fails, addrs) = Holds(Open(world, Sock(j)), Sock(j))
<1>. DEFINE lent == Alloc(world, "addrinfo")
<1>1. lent \in World /\ NoSockets(lent) /\ lent.open = world.open
  BY DEF Alloc, World, NoSockets
<1>2. AfterTrying(lent, addrs, Len(addrs), Tried(lent, addrs))
  BY <1>1, TriedResult
<1>3. Free(lent, "addrinfo") = world
  BY DEF Free, Alloc, World
<1>4. ASSUME NEW j \in Nat PROVE Free(Open(lent, Sock(j)), "addrinfo") = Open(world, Sock(j))
  BY DEF Free, Alloc, Open, World
<1>. HIDE DEF lent
<1>5. CASE "getaddrinfo" \in fails
  BY <1>5 DEF Looked, Reachable
<1>6. CASE "getaddrinfo" \notin fails
  <2>1. Looked(world, fails, addrs) =
            [Tried(lent, addrs) EXCEPT !.world = Free(Tried(lent, addrs).world, "addrinfo")]
    BY <1>6 DEF Looked, lent
  <2>2. DOMAIN addrs = 1 .. Len(addrs)
    OBVIOUS
  <2>3. CASE (\A k \in 1 .. Len(addrs) : addrs[k] # "ok") /\ Tried(lent, addrs) = Holds(lent, NoSock)
    BY <1>3, <2>1, <2>2, <2>3 DEF Reachable, Holds
  <2>4. CASE \E j \in 1 .. Len(addrs) :
                addrs[j] = "ok" /\ Tried(lent, addrs) = Holds(Open(lent, Sock(j)), Sock(j))
    <3>1. PICK j \in 1 .. Len(addrs) :
                addrs[j] = "ok" /\ Tried(lent, addrs) = Holds(Open(lent, Sock(j)), Sock(j))
      BY <2>4
    <3>2. j \in Nat /\ Reachable(fails, addrs)
      BY <1>6, <2>2, <3>1 DEF Reachable
    <3>3. Looked(world, fails, addrs) = Holds(Open(world, Sock(j)), Sock(j))
      BY <1>4, <2>1, <3>1, <3>2 DEF Holds
    <3>. QED
      BY <3>2, <3>3
  <2>. QED
    BY <1>2, <2>3, <2>4 DEF AfterTrying
<1>. QED
  BY <1>5, <1>6

-----------------------------------------------------------------------------
(* Each creation: a descriptor closed or memory freed is what was held.    *)

AnyFails == SUBSET Needs("server")
AsPromised(in, out) ==
    IF Works(in.kind, in.isSetup, in.fails, in.addrs)
    THEN /\ out.ret = in.kind
         /\ (out.sock = NoSock) = (in.kind = "address")
         /\ out.sock \subseteq out.world.open
         /\ Freed(in.kind, out) = Empty
    ELSE /\ out.ret = "NULL"
         /\ out.world = Lost(in.kind, in.isSetup, in.fails, in.addrs)

LEMMA EmptyWorld ==
    /\ Empty \in World /\ Empty.open = {} /\ Empty.heap = {}
    /\ NoSockets(Empty) /\ "addrinfo" \notin Empty.heap
BY DEF Empty, World, NoSockets

Of(fds, blocks) == [open |-> fds, heap |-> blocks]

LEMMA OpenOf ==
    ASSUME NEW fds, NEW blocks, NEW x, NEW y, \A z : z \in y <=> z \in fds \/ z \in x
    PROVE  Open(Of(fds, blocks), x) = Of(y, blocks)
<1>1. y = fds \cup x
  OBVIOUS
<1>2. Open(Of(fds, blocks), x) = Of(fds \cup x, blocks)
  BY DEF Open, Of
<1>. QED
  BY <1>1, <1>2, Zenon

LEMMA CloseOf ==
    ASSUME NEW fds, NEW blocks, NEW x, NEW y, \A z : z \in y <=> z \in fds /\ z \notin x
    PROVE  Close(Of(fds, blocks), x) = Of(y, blocks)
<1>1. y = fds \ x
  OBVIOUS
<1>2. Close(Of(fds, blocks), x) = Of(fds \ x, blocks)
  BY DEF Close, Of
<1>. QED
  BY <1>1, <1>2, Zenon

LEMMA AllocOf ==
    ASSUME NEW fds, NEW blocks, NEW x, NEW y, \A z : z \in y <=> z \in blocks \/ z = x
    PROVE  Alloc(Of(fds, blocks), x) = Of(fds, y)
<1>1. y = blocks \cup {x}
  OBVIOUS
<1>2. Alloc(Of(fds, blocks), x) = Of(fds, blocks \cup {x})
  BY DEF Alloc, Of
<1>. QED
  BY <1>1, <1>2, Zenon

LEMMA FreeOf ==
    ASSUME NEW fds, NEW blocks, NEW x, NEW y, \A z : z \in y <=> z \in blocks /\ z # x
    PROVE  Free(Of(fds, blocks), x) = Of(fds, y)
<1>1. y = blocks \ {x}
  OBVIOUS
<1>2. Free(Of(fds, blocks), x) = Of(fds, blocks \ {x})
  BY DEF Free, Of
<1>. QED
  BY <1>1, <1>2, Zenon

LEMMA EmptyOf == Empty = Of({}, {})
BY DEF Empty, Of

(* What is held when something was created, and after it is given back.    *)
LEMMA HeldOne ==
    ASSUME NEW fds, NEW block
    PROVE  /\ Open(Empty, fds) = Of(fds, {}) /\ Close(Of(fds, {}), fds) = Empty
           /\ Alloc(Empty, block) = Of({}, {block}) /\ Free(Of({}, {block}), block) = Empty
           /\ Alloc(Of(fds, {}), block) = Of(fds, {block})
           /\ Close(Of(fds, {block}), fds) = Of({}, {block})
           /\ Open(Of({}, {block}), fds) = Of(fds, {block})
<1>1. Open(Of({}, {}), fds) = Of(fds, {}) /\ Open(Of({}, {block}), fds) = Of(fds, {block})
  BY OpenOf
<1>2. Close(Of(fds, {}), fds) = Of({}, {}) /\ Close(Of(fds, {block}), fds) = Of({}, {block})
  BY CloseOf
<1>3. Alloc(Of({}, {}), block) = Of({}, {block}) /\ Alloc(Of(fds, {}), block) = Of(fds, {block})
  BY AllocOf
<1>4. Free(Of({}, {block}), block) = Of({}, {})
  BY FreeOf
<1>. QED
  BY <1>1, <1>2, <1>3, <1>4, EmptyOf

LEMMA FailsAsPromised ==
    ASSUME NEW in, ~Works(in.kind, in.isSetup, in.fails, in.addrs),
           NEW world, world = Lost(in.kind, in.isSetup, in.fails, in.addrs),
           NEW sock, Created(in) = Returns("NULL", world, sock)
    PROVE  AsPromised(in, Created(in))
<1>1. Created(in).ret = "NULL" /\ Created(in).world = world
  BY DEF Returns
<1>. QED
  BY <1>1 DEF AsPromised

LEMMA WorksAsPromised ==
    ASSUME NEW in, Works(in.kind, in.isSetup, in.fails, in.addrs),
           NEW world, NEW sock, Created(in) = Returns(in.kind, world, sock),
           sock = NoSock <=> in.kind = "address", sock \subseteq world.open,
           Freed(in.kind, Created(in)) = Empty
    PROVE  AsPromised(in, Created(in))
<1>1. Created(in).ret = in.kind /\ Created(in).world = world /\ Created(in).sock = sock
  BY DEF Returns
<1>. QED
  BY <1>1 DEF AsPromised

LEMMA AddressPromised ==
    ASSUME NEW in \in Creation(Seq(Outcome)), in.kind = "address"
    PROVE  AsPromised(in, Created(in))
<1>1. Created(in) = AddressCreate(in.fails)
  BY DEF Created
<1>2. in.fails \cap Needs("address") = {} <=> "getaddrinfo" \notin in.fails
  BY DEF Needs
<1>3. Free(Alloc(Empty, "address"), "address") = Empty
  BY HeldOne
<1>4. Alloc(Empty, "address") = [Empty EXCEPT !.heap = {"address"}]
  BY DEF Alloc, Empty
<1>5. CASE "getaddrinfo" \in in.fails
  <2>1. Created(in) = Returns("NULL", Alloc(Empty, "address"), NoSock)
    BY <1>1, <1>5 DEF AddressCreate
  <2>2. ~Works(in.kind, in.isSetup, in.fails, in.addrs)
    BY <1>2, <1>5 DEF Works
  <2>3. Alloc(Empty, "address") = Lost(in.kind, in.isSetup, in.fails, in.addrs)
    BY <1>4 DEF Lost
  <2>. QED
    BY <2>1, <2>2, <2>3, FailsAsPromised
<1>6. CASE "getaddrinfo" \notin in.fails
  <2>1. Created(in) = Returns(in.kind, Alloc(Empty, "address"), NoSock)
    BY <1>1, <1>6 DEF AddressCreate
  <2>2. Works(in.kind, in.isSetup, in.fails, in.addrs)
    BY <1>2, <1>6 DEF Works
  <2>3. Freed(in.kind, Created(in)) = Empty
    BY <1>3, <2>1 DEF Freed, AddressFree, Returns
  <2>4. NoSock \subseteq Alloc(Empty, "address").open
    BY DEF NoSock
  <2>. QED
    BY <2>1, <2>2, <2>3, <2>4, WorksAsPromised
<1>. QED
  BY <1>5, <1>6

LEMMA ClientPromised ==
    ASSUME NEW in \in Creation(Seq(Outcome)), in.kind = "client"
    PROVE  AsPromised(in, Created(in))
<1>. DEFINE looked == Looked(Empty, in.fails, in.addrs)
<1>1. Created(in) = ClientCreate(in.isSetup, in.fails, in.addrs)
  BY DEF Created
<1>2. Works("client", in.isSetup, in.fails, in.addrs) <=>
        in.isSetup /\ "nonblock socket" \notin in.fails /\ Reachable(in.fails, in.addrs)
  BY DEF Works, Needs, Reachable
<1>3. Lost("client", in.isSetup, in.fails, in.addrs) = Empty
  BY DEF Lost
<1>4. in.addrs \in Seq(Outcome)
  BY DEF Creation
<1>5. \/ ~Reachable(in.fails, in.addrs) /\ looked = Holds(Empty, NoSock)
      \/ /\ Reachable(in.fails, in.addrs)
         /\ \E j \in Nat : looked = Holds(Open(Empty, Sock(j)), Sock(j))
  BY <1>4, EmptyWorld, LookedResult
<1>6. ASSUME NEW j \in Nat
      PROVE  /\ Sock(j) # NoSock /\ Close(Open(Empty, Sock(j)), Sock(j)) = Empty
             /\ Free(Close(Alloc(Open(Empty, Sock(j)), "client"), Sock(j)), "client") = Empty
             /\ Sock(j) \subseteq Alloc(Open(Empty, Sock(j)), "client").open
  <2>1. Sock(j) # NoSock
    BY SockTypes
  <2>2. Sock(j) \subseteq Alloc(Open(Empty, Sock(j)), "client").open
    BY DEF Alloc, Open, Empty
  <2>3. Close(Open(Empty, Sock(j)), Sock(j)) = Empty
    BY HeldOne
  <2>4. Free(Close(Alloc(Open(Empty, Sock(j)), "client"), Sock(j)), "client") = Empty
    <3>1. Open(Empty, Sock(j)) = Of(Sock(j), {})
      BY HeldOne
    <3>2. Alloc(Of(Sock(j), {}), "client") = Of(Sock(j), {"client"})
      BY HeldOne
    <3>3. Close(Of(Sock(j), {"client"}), Sock(j)) = Of({}, {"client"})
      BY HeldOne
    <3>4. Free(Of({}, {"client"}), "client") = Empty
      BY HeldOne
    <3>. QED
      BY <3>1, <3>2, <3>3, <3>4
  <2>. QED
    BY <2>1, <2>2, <2>3, <2>4
<1>7. ASSUME NEW sock, Created(in) = Returns("NULL", Empty, sock),
             ~Works("client", in.isSetup, in.fails, in.addrs)
      PROVE  AsPromised(in, Created(in))
  BY <1>3, <1>7, FailsAsPromised
<1>. HIDE DEF looked
<1>8. CASE ~in.isSetup
  <2>1. Created(in) = Returns("NULL", Empty, NoSock)
    BY <1>1, <1>8 DEF ClientCreate
  <2>. QED
    BY <1>2, <1>7, <1>8, <2>1
<1>9. CASE in.isSetup /\ ~Reachable(in.fails, in.addrs)
  <2>1. looked.sock = NoSock /\ looked.world = Empty
    BY <1>5, <1>9 DEF Holds
  <2>2. ClientCreate(in.isSetup, in.fails, in.addrs) = Returns("NULL", Empty, NoSock)
    BY <1>9, <2>1 DEF ClientCreate, looked
  <2>. QED
    BY <1>1, <1>2, <1>7, <1>9, <2>2
<1>10. CASE in.isSetup /\ Reachable(in.fails, in.addrs)
  <2>1. PICK j \in Nat : looked = Holds(Open(Empty, Sock(j)), Sock(j))
    BY <1>5, <1>10
  <2>2. looked.sock = Sock(j) /\ looked.world = Open(Empty, Sock(j)) /\ Sock(j) # NoSock
    BY <1>6, <2>1 DEF Holds
  <2>3. CASE "nonblock socket" \in in.fails
    <3>1. ClientCreate(in.isSetup, in.fails, in.addrs) = Returns("NULL", Empty, NoSock)
      BY <1>6, <1>10, <2>2, <2>3 DEF ClientCreate, looked
    <3>. QED
      BY <1>1, <1>2, <1>7, <2>3, <3>1
  <2>4. CASE "nonblock socket" \notin in.fails
    <3>1. PICK world : world = Alloc(Open(Empty, Sock(j)), "client")
      OBVIOUS
    <3>2. ClientCreate(in.isSetup, in.fails, in.addrs) = Returns(in.kind, world, Sock(j))
      BY <1>10, <2>2, <2>4, <3>1 DEF ClientCreate, looked
    <3>3. Freed(in.kind, Created(in)) = Empty
      BY <1>1, <1>6, <3>1, <3>2 DEF Returns, Freed, ClientFree
    <3>4. Works(in.kind, in.isSetup, in.fails, in.addrs)
      BY <1>2, <1>10, <2>4
    <3>5. Sock(j) \subseteq world.open /\ (Sock(j) = NoSock <=> in.kind = "address")
      BY <1>6, <3>1
    <3>. QED
      BY <1>1, <3>2, <3>3, <3>4, <3>5, WorksAsPromised
  <2>. QED
    BY <2>3, <2>4
<1>. QED
  BY <1>8, <1>9, <1>10 DEF Creation

LEMMA ServerPromised ==
    ASSUME NEW in \in Creation(Seq(Outcome)), in.kind = "server"
    PROVE  AsPromised(in, Created(in))
<1>. DEFINE piped == Of(Pfd, {"server"})
            looked == Looked(piped, in.fails, in.addrs)
            unpiped == in.fails \cap {"nonblock pfd[0]", "nonblock pfd[1]"} # {}
            lost == Lost(in.kind, in.isSetup, in.fails, in.addrs)
            works == Works(in.kind, in.isSetup, in.fails, in.addrs)
            reached == in.isSetup /\ "pipe" \notin in.fails /\ ~unpiped /\ Reachable(in.fails, in.addrs)
<1>1. Created(in) = ServerCreate(in.isSetup, in.fails, in.addrs)
  BY DEF Created
<1>2. /\ works <=> reached /\ "nonblock socket" \notin in.fails
      /\ Works(in.kind, in.isSetup, in.fails \ {"nonblock socket"}, in.addrs) <=> reached
  BY DEF Works, Needs, Reachable
<1>3. lost = IF reached THEN piped ELSE Empty
  BY <1>2 DEF Lost, Of
<1>4. in.addrs \in Seq(Outcome) /\ in.isSetup \in BOOLEAN
  BY DEF Creation
<1>5. piped \in World /\ NoSockets(piped) /\ "addrinfo" \notin piped.heap
  BY SockTypes DEF World, NoSockets, Of, Descriptor
<1>6. \/ ~Reachable(in.fails, in.addrs) /\ looked = Holds(piped, NoSock)
      \/ /\ Reachable(in.fails, in.addrs)
         /\ \E j \in Nat : looked = Holds(Open(piped, Sock(j)), Sock(j))
  BY <1>4, <1>5, LookedResult
<1>7. Alloc(Empty, "server") = Of({}, {"server"}) /\ Open(Of({}, {"server"}), Pfd) = piped
  BY HeldOne
<1>8. /\ ServerFail(Of({}, {"server"}), NoSock, FALSE) = Empty
      /\ ServerFail(piped, NoSock, TRUE) = Empty
  <2>1. /\ Close(Of({}, {"server"}), NoSock) = Of({}, {"server"})
        /\ Close(Of({}, {"server"}), {}) = Of({}, {"server"})
        /\ Close(piped, NoSock) = piped
    BY CloseOf DEF NoSock
  <2>2. Free(Of({}, {"server"}), "server") = Empty /\ Close(piped, Pfd) = Of({}, {"server"})
    BY HeldOne
  <2>. QED
    BY <2>1, <2>2 DEF ServerFail
<1>9. ASSUME NEW j \in Nat
      PROVE  /\ Sock(j) # NoSock /\ Close(Open(piped, Sock(j)), Sock(j)) = piped
             /\ Free(Close(piped, Pfd), "server") = Empty
             /\ Sock(j) \subseteq Open(piped, Sock(j)).open
  <2>1. Sock(j) \cap Pfd = {} /\ Sock(j) # NoSock
    BY SockTypes
  <2>2. Open(piped, Sock(j)) = Of(Pfd \cup Sock(j), {"server"})
    BY OpenOf
  <2>3. Close(Of(Pfd \cup Sock(j), {"server"}), Sock(j)) = piped
    BY <2>1, CloseOf
  <2>4. Close(piped, Pfd) = Of({}, {"server"}) /\ Free(Of({}, {"server"}), "server") = Empty
    BY HeldOne
  <2>5. Sock(j) \subseteq Open(piped, Sock(j)).open
    BY <2>2 DEF Of
  <2>. QED
    BY <2>1, <2>2, <2>3, <2>4, <2>5
<1>. HIDE DEF piped, looked, lost, works
<1>10. ASSUME NEW sock, NEW world, Created(in) = Returns("NULL", world, sock), ~works, world = lost
       PROVE  AsPromised(in, Created(in))
  BY <1>10, FailsAsPromised DEF lost, works
<1>11. CASE ~in.isSetup
  <2>1. Created(in) = Returns("NULL", Empty, NoSock)
    BY <1>1, <1>11 DEF ServerCreate
  <2>. QED
    BY <1>2, <1>3, <1>10, <1>11, <2>1
<1>12. CASE in.isSetup /\ "pipe" \in in.fails
  <2>1. Created(in) = Returns("NULL", Empty, NoSock)
    BY <1>1, <1>7, <1>8, <1>12 DEF ServerCreate
  <2>. QED
    BY <1>2, <1>3, <1>10, <1>12, <2>1
<1>13. CASE in.isSetup /\ "pipe" \notin in.fails /\ unpiped
  <2>1. Created(in) = Returns("NULL", Empty, NoSock)
    BY <1>1, <1>7, <1>8, <1>13 DEF ServerCreate
  <2>. QED
    BY <1>2, <1>3, <1>10, <1>13, <2>1
<1>14. CASE in.isSetup /\ "pipe" \notin in.fails /\ ~unpiped
  <2>1. in.fails \cap {"pipe", "nonblock pfd[0]", "nonblock pfd[1]"} = {}
    BY <1>14
  <2>2. Created(in) =
            IF looked.sock = NoSock
            THEN Returns("NULL", ServerFail(looked.world, NoSock, TRUE), NoSock)
            ELSE IF "nonblock socket" \in in.fails
            THEN Returns("NULL", Close(looked.world, looked.sock), NoSock)
            ELSE Returns("server", looked.world, looked.sock)
    BY <1>1, <1>7, <1>14, <2>1 DEF ServerCreate, looked
  <2>3. CASE ~Reachable(in.fails, in.addrs)
    <3>1. looked.sock = NoSock /\ looked.world = piped
      BY <1>6, <2>3 DEF Holds
    <3>2. Created(in) = Returns("NULL", Empty, NoSock)
      BY <1>8, <2>2, <3>1
    <3>. QED
      BY <1>2, <1>3, <1>10, <2>3, <3>2
  <2>4. CASE Reachable(in.fails, in.addrs)
    <3>1. PICK j \in Nat : looked = Holds(Open(piped, Sock(j)), Sock(j))
      BY <1>6, <2>4
    <3>2. looked.sock = Sock(j) /\ looked.world = Open(piped, Sock(j)) /\ Sock(j) # NoSock
      BY <1>9, <3>1 DEF Holds
    <3>3. CASE "nonblock socket" \in in.fails
      <4>1. Created(in) = Returns("NULL", piped, NoSock)
        BY <1>9, <2>2, <3>2, <3>3
      <4>. QED
        BY <1>2, <1>3, <1>10, <1>14, <2>4, <3>3, <4>1
    <3>4. CASE "nonblock socket" \notin in.fails
      <4>1. PICK world : world = Open(piped, Sock(j))
        OBVIOUS
      <4>2. Created(in) = Returns(in.kind, world, Sock(j))
        BY <2>2, <3>2, <3>4, <4>1
      <4>3. Freed(in.kind, Created(in)) = Empty
        BY <1>9, <4>1, <4>2 DEF Returns, Freed, ServerFree
      <4>4. Works(in.kind, in.isSetup, in.fails, in.addrs)
        BY <1>2, <1>14, <2>4, <3>4 DEF works
      <4>5. Sock(j) \subseteq world.open /\ (Sock(j) = NoSock <=> in.kind = "address")
        BY <1>9, <4>1
      <4>. QED
        BY <4>2, <4>3, <4>4, <4>5, WorksAsPromised
    <3>. QED
      BY <3>3, <3>4
  <2>. QED
    BY <2>3, <2>4
<1>. QED
  BY <1>4, <1>11, <1>12, <1>13, <1>14

CreationInv ==
    /\ call = "udp" /\ done \in BOOLEAN /\ input \in Creation(Seq(Outcome))
    /\ done => output = Created(input)

(* FailuresHoldNothing: for any list of addresses and any calls that fail, *)
(* udp_*_create() gives what it names, which its free function takes back  *)
(* completely, or it fails and leaves only the losses the code has.        *)
THEOREM CreationsHoldNothing == CreationSpec => []FailuresHoldNothing
<1>1. ASSUME Starts("udp", Creation(Seq({"ok", "socket", "connect"}))) PROVE CreationInv
  BY <1>1 DEF Starts, CreationInv, Outcome
<1>2. ASSUME CreationInv, [Creates]_benchVars PROVE CreationInv'
  <2>1. CASE Creates
    BY <1>2, <2>1 DEF Creates, Calls, CreationInv
  <2>2. CASE UNCHANGED benchVars
    BY <1>2, <2>2 DEF benchVars, CreationInv
  <2>. QED
    BY <1>2, <2>1, <2>2
<1>3. ASSUME CreationInv PROVE FailuresHoldNothing
  <2>1. input.kind \in {"address", "client", "server"}
    BY <1>3 DEF CreationInv, Creation
  <2>2. AsPromised(input, Created(input))
    BY <1>3, <2>1, AddressPromised, ClientPromised, ServerPromised DEF CreationInv
  <2>. QED
    BY <1>3, <2>2 DEF CreationInv, FailuresHoldNothing, AsPromised
<1>. QED
  BY <1>1, <1>2, <1>3, PTL DEF CreationSpec

-----------------------------------------------------------------------------
(* Sequences one behind the other.                                         *)

(* The provers should not look into it.                                    *)
Glue(s, t) == s \o t

LEMMA GlueEmpty ==
    ASSUME NEW T, NEW s \in Seq(T)
    PROVE  Glue(<<>>, s) = s /\ Glue(s, <<>>) = s
BY ConcatEmptySeq DEF Glue

LEMMA GlueType ==
    ASSUME NEW T, NEW s \in Seq(T), NEW t \in Seq(T)
    PROVE  Glue(s, t) \in Seq(T) /\ Len(Glue(s, t)) = Len(s) + Len(t)
BY ConcatProperties DEF Glue

LEMMA GlueAssociative ==
    ASSUME NEW T, NEW s \in Seq(T), NEW t \in Seq(T), NEW u \in Seq(T)
    PROVE  Glue(Glue(s, t), u) = Glue(s, Glue(t, u))
BY ConcatAssociative DEF Glue

Run(f, seqs, n) == f[0] = <<>> /\ \A k \in 1 .. n : f[k] = Glue(f[k - 1], seqs[k])

LEMMA RunStep ==
    ASSUME NEW f, NEW seqs, NEW n \in Nat, Run(f, seqs, n), NEW k \in Nat, k < n
    PROVE  f[k + 1] = Glue(f[k], seqs[k + 1])
<1>1. k + 1 \in 1 .. n /\ (k + 1) - 1 = k
  OBVIOUS
<1>. QED
  BY <1>1 DEF Run

LEMMA FlattenRuns ==
    ASSUME NEW T, NEW seqs \in Seq(Seq(T)), NEW n \in Nat, n = Len(seqs)
    PROVE  \E f \in [0 .. n -> Seq(T)] : Run(f, seqs, n) /\ FlattenSeq(seqs) = f[n]
<1>1. PICK g : g = [k \in 1 .. n |-> [before \in Seq(T) |-> Glue(before, seqs[k])]]
  OBVIOUS
<1>2. \A k \in 1 .. n : seqs[k] \in Seq(T)
  OBVIOUS
<1>3. \A before \in Seq(T), k \in 1 .. n : Glue(before, seqs[k]) \in Seq(T)
  BY <1>2, GlueType
<1>4. g \in Turns(n, Seq(T))
  BY <1>1, <1>3 DEF Turns
<1>5. <<>> \in Seq(T)
  OBVIOUS
<1>6. PICK f : Goes(n, Seq(T), <<>>, g, f)
  BY <1>4, <1>5, ForwardExists
<1>7. f \in [0 .. n -> Seq(T)] /\ f[0] = <<>>
  BY <1>6 DEF Goes
<1>8. Run(f, seqs, n)
  <2>1. ASSUME NEW k \in 1 .. n PROVE f[k] = Glue(f[k - 1], seqs[k])
    <3>1. k - 1 \in 0 .. n
      OBVIOUS
    <3>2. f[k - 1] \in Seq(T)
      BY <1>7, <3>1
    <3>3. f[k] = g[k][f[k - 1]]
      BY <1>6 DEF Goes
    <3>. QED
      BY <1>1, <3>2, <3>3
  <2>. QED
    BY <1>7, <2>1 DEF Run
<1>9. CASE n = 0
  <2>1. FlattenSeq(seqs) = seqs
    BY <1>9 DEF FlattenSeq
  <2>2. seqs = <<>>
    BY <1>9, EmptySeq
  <2>. QED
    BY <1>7, <1>8, <1>9, <2>1, <2>2
<1>10. CASE n # 0
  <2>. DEFINE F(t) == [i \in 1 .. Len(seqs) |-> IF i = 1 THEN seqs[i] ELSE t[i - 1] \o seqs[i]]
              flatten == CHOOSE t : t = F(t)
  <2>1. FlattenSeq(seqs) = flatten[Len(seqs)]
    BY <1>10 DEF FlattenSeq
  <2>2. PICK h : h = [i \in 1 .. n |-> f[i]]
    OBVIOUS
  <2>3. h = F(h)
    <3>1. ASSUME NEW i \in 1 .. n PROVE h[i] = IF i = 1 THEN seqs[i] ELSE Glue(h[i - 1], seqs[i])
      <4>1. f[i] = Glue(f[i - 1], seqs[i])
        BY <1>8 DEF Run
      <4>2. CASE i = 1
        BY <1>2, <1>7, <2>2, <4>1, <4>2, GlueEmpty
      <4>3. CASE i # 1
        BY <2>2, <4>1, <4>3
      <4>. QED
        BY <4>2, <4>3
    <3>2. h = [i \in 1 .. n |-> h[i]]
      BY <2>2
    <3>. QED
      BY <3>1, <3>2 DEF Glue
  <2>4. flatten = F(flatten)
    BY <2>3, Zenon
  <2>5. PICK z : z = flatten
    OBVIOUS
  <2>. HIDE DEF flatten
  <2>6. \A i \in 1 .. n : z[i] = IF i = 1 THEN seqs[i] ELSE Glue(z[i - 1], seqs[i])
    BY <2>4, <2>5 DEF Glue
  <2>. DEFINE M == {k \in Nat : k \in 1 .. n => z[k] = f[k]}
  <2>7. 0 \in M
    OBVIOUS
  <2>8. ASSUME NEW k \in Nat, k \in M PROVE k + 1 \in M
    <3>. SUFFICES ASSUME k + 1 \in 1 .. n PROVE z[k + 1] = f[k + 1]
      OBVIOUS
    <3>1. f[k + 1] = Glue(f[k], seqs[k + 1])
      <4>1. k < n /\ Run(f, seqs, n)
        BY <1>8
      <4>. QED
        BY <4>1, RunStep, ZenonT(60)
    <3>2. CASE k = 0
      <4>1. z[1] = seqs[1] /\ seqs[1] \in Seq(T)
        BY <1>2, <2>6, <3>2
      <4>2. f[1] = Glue(<<>>, seqs[1])
        BY <1>7, <3>1, <3>2
      <4>. QED
        BY <3>2, <4>1, <4>2, GlueEmpty
    <3>3. CASE k # 0
      <4>1. z[k] = f[k]
        BY <2>8, <3>3
      <4>2. (k + 1) - 1 = k /\ k + 1 # 1
        BY <3>3
      <4>3. z[k + 1] = Glue(z[k], seqs[k + 1])
        BY <2>6, <4>2
      <4>. QED
        BY <3>1, <4>1, <4>3
    <3>. QED
      BY <3>2, <3>3
  <2>9. n \in M
    <3>. HIDE DEF M
    <3>. QED
      BY <2>7, <2>8, SetInduction
  <2>10. z[n] = f[n]
    BY <1>10, <2>9
  <2>. QED
    BY <1>7, <1>8, <2>1, <2>5, <2>10
<1>. QED
  BY <1>9, <1>10

LEMMA FlattenOne ==
    ASSUME NEW T, NEW s \in Seq(T)
    PROVE  FlattenSeq(<<s>>) = s
<1>1. <<s>> \in Seq(Seq(T)) /\ Len(<<s>>) = 1
  OBVIOUS
<1>2. PICK f \in [0 .. 1 -> Seq(T)] : Run(f, <<s>>, 1) /\ FlattenSeq(<<s>>) = f[1]
  BY <1>1, FlattenRuns
<1>3. f[0 + 1] = Glue(f[0], <<s>>[0 + 1])
  BY <1>2, RunStep
<1>4. f[1] = Glue(<<>>, s)
  BY <1>2, <1>3 DEF Run
<1>. QED
  BY <1>2, <1>4, GlueEmpty

LEMMA FlattenType ==
    ASSUME NEW T, NEW seqs \in Seq(Seq(T))
    PROVE  FlattenSeq(seqs) \in Seq(T)
<1>1. PICK n \in Nat : n = Len(seqs)
  OBVIOUS
<1>2. PICK f \in [0 .. n -> Seq(T)] : Run(f, seqs, n) /\ FlattenSeq(seqs) = f[n]
  BY <1>1, FlattenRuns
<1>. QED
  BY <1>2

LEMMA FlattenGlue ==
    ASSUME NEW T, NEW ss \in Seq(Seq(T)), NEW tt \in Seq(Seq(T))
    PROVE  FlattenSeq(ss \o tt) = Glue(FlattenSeq(ss), FlattenSeq(tt))
<1>1. PICK m \in Nat : m = Len(ss)
  OBVIOUS
<1>2. PICK n \in Nat : n = Len(tt)
  OBVIOUS
<1>3. PICK both \in Seq(Seq(T)) : both = ss \o tt
  BY ConcatProperties
<1>4. /\ Len(both) = m + n /\ \A i \in 1 .. m : both[i] = ss[i]
      /\ \A i \in 1 .. n : both[m + i] = tt[i]
  <2>1. /\ Len(ss \o tt) = Len(ss) + Len(tt)
        /\ \A i \in 1 .. Len(ss) + Len(tt) :
                (ss \o tt)[i] = IF i <= Len(ss) THEN ss[i] ELSE tt[i - Len(ss)]
    BY ConcatProperties
  <2>2. \A i \in 1 .. m + n : both[i] = IF i <= m THEN ss[i] ELSE tt[i - m]
    BY <1>1, <1>2, <1>3, <2>1
  <2>3. ASSUME NEW i \in 1 .. n PROVE both[m + i] = tt[i]
    <3>1. m + i \in 1 .. m + n /\ ~(m + i <= m) /\ (m + i) - m = i
      OBVIOUS
    <3>. QED
      BY <2>2, <3>1
  <2>. QED
    BY <1>1, <1>2, <1>3, <2>1, <2>2, <2>3
<1>5. PICK f \in [0 .. m -> Seq(T)] : Run(f, ss, m) /\ FlattenSeq(ss) = f[m]
  BY <1>1, FlattenRuns
<1>6. PICK h \in [0 .. n -> Seq(T)] : Run(h, tt, n) /\ FlattenSeq(tt) = h[n]
  BY <1>2, FlattenRuns
<1>7. PICK l \in Nat : l = m + n
  OBVIOUS
<1>8. PICK w \in [0 .. l -> Seq(T)] : Run(w, both, l) /\ FlattenSeq(both) = w[l]
  BY <1>4, <1>7, FlattenRuns
<1>. DEFINE M == {k \in Nat : k <= m => w[k] = f[k]}
            N == {k \in Nat : k <= n => w[m + k] = Glue(f[m], h[k])}
<1>9. 0 \in M
  BY <1>5, <1>8 DEF Run
<1>10. ASSUME NEW k \in Nat, k \in M PROVE k + 1 \in M
  <2>. SUFFICES ASSUME k + 1 <= m PROVE w[k + 1] = f[k + 1]
    OBVIOUS
  <2>1. w[k] = f[k]
    BY <1>10
  <2>2. k < m /\ k < l
    BY <1>7
  <2>3. f[k + 1] = Glue(f[k], ss[k + 1])
    BY <1>5, <2>2, RunStep
  <2>4. w[k + 1] = Glue(w[k], both[k + 1])
    BY <1>8, <2>2, RunStep
  <2>5. both[k + 1] = ss[k + 1]
    BY <1>4
  <2>. QED
    BY <2>1, <2>3, <2>4, <2>5
<1>11. w[m] = f[m]
  <2>1. m \in M
    <3>. HIDE DEF M
    <3>. QED
      BY <1>9, <1>10, SetInduction
  <2>. QED
    BY <2>1
<1>12. f[m] \in Seq(T)
  OBVIOUS
<1>13. 0 \in N
  <2>1. h[0] = <<>> /\ m + 0 = m
    BY <1>6 DEF Run
  <2>. QED
    BY <1>11, <1>12, <2>1, GlueEmpty
<1>14. ASSUME NEW k \in Nat, k \in N PROVE k + 1 \in N
  <2>. SUFFICES ASSUME k + 1 <= n PROVE w[m + (k + 1)] = Glue(f[m], h[k + 1])
    OBVIOUS
  <2>1. w[m + k] = Glue(f[m], h[k])
    BY <1>14
  <2>2. k < n
    OBVIOUS
  <2>3. h[k + 1] = Glue(h[k], tt[k + 1])
    BY <1>6, <2>2, RunStep
  <2>4. PICK i \in Nat : i = m + k /\ i < l /\ i + 1 = m + (k + 1)
    BY <1>7
  <2>5. w[i + 1] = Glue(w[i], both[i + 1])
    BY <1>8, <2>4, RunStep, ZenonT(60)
  <2>6. k + 1 \in 1 .. n /\ k \in 0 .. n
    BY <2>2
  <2>7. both[m + (k + 1)] = tt[k + 1]
    BY <1>4, <2>6
  <2>8. PICK a \in Seq(T), b \in Seq(T), c \in Seq(T) : a = f[m] /\ b = h[k] /\ c = tt[k + 1]
    <3>1. f[m] \in Seq(T) /\ h[k] \in Seq(T)
      BY <1>12, <2>6
    <3>2. tt[k + 1] \in Seq(T)
      BY <1>2, <2>6
    <3>. QED
      BY <3>1, <3>2
  <2>9. w[m + (k + 1)] = Glue(Glue(a, b), c)
    BY <2>1, <2>4, <2>5, <2>7, <2>8
  <2>10. Glue(Glue(a, b), c) = Glue(a, Glue(b, c))
    BY GlueAssociative
  <2>. QED
    BY <2>3, <2>8, <2>9, <2>10
<1>15. w[m + n] = Glue(f[m], h[n])
  <2>1. n \in N
    <3>. HIDE DEF N
    <3>. QED
      BY <1>13, <1>14, SetInduction
  <2>. QED
    BY <2>1
<1>. QED
  BY <1>3, <1>5, <1>6, <1>8, <1>15, <1>7

-----------------------------------------------------------------------------
(* Texts that spell codes.                                                 *)

Code == {code \in Nat : IsCode(code)}
EncodeAll(codes) == [k \in DOMAIN codes |-> Encode(codes[k])]
Spelled(codes) == FlattenSeq(EncodeAll(codes))

(* The digits of a code in its bytes.                                      *)
Six == 0 .. 63
Two(a, b) == a * 64 + b
Three3(a, b, c) == a * 4096 + b * 64 + c
Four4(a, b, c, d) == a * 262144 + b * 4096 + c * 64 + d

IsTwo(code, s) ==
    \E a \in 2 .. 31, b \in Six : code = Two(a, b) /\ s = <<192 + a, 128 + b>>
IsThree(code, s) ==
    \E a \in 0 .. 15, b \in Six, c \in Six :
        /\ code = Three3(a, b, c) /\ s = <<224 + a, 128 + b, 128 + c>>
        /\ ~(a = 0 /\ b < 32) /\ ~Surrogate(code)
IsFour(code, s) ==
    \E a \in 0 .. 7, b \in Six, c \in Six, d \in Six :
        /\ code = Four4(a, b, c, d) /\ s = <<240 + a, 128 + b, 128 + c, 128 + d>>
        /\ ~(a = 0 /\ b < 16)
Spells(code, s) ==
    \/ code \in 0 .. 127 /\ s = <<code>>
    \/ IsTwo(code, s) \/ IsThree(code, s) \/ IsFour(code, s)

LEMMA TwoDigits ==
    ASSUME NEW a \in Nat, NEW b \in Six
    PROVE  Two(a, b) \div 64 = a /\ Two(a, b) % 64 = b
BY SMT DEF Two, Six

LEMMA ThreeDigits ==
    ASSUME NEW a \in Nat, NEW b \in Six, NEW c \in Six
    PROVE  /\ Three3(a, b, c) \div 4096 = a /\ (Three3(a, b, c) \div 64) % 64 = b
           /\ Three3(a, b, c) % 64 = c
<1>1. Three3(a, b, c) \div 64 = a * 64 + b /\ Three3(a, b, c) % 64 = c
  BY SMT DEF Three3, Six
<1>2. (a * 64 + b) % 64 = b
  BY SMT DEF Six
<1>3. Three3(a, b, c) \div 4096 = a
  BY SMT DEF Three3, Six
<1>. QED
  BY <1>1, <1>2, <1>3

LEMMA FourDigits ==
    ASSUME NEW a \in Nat, NEW b \in Six, NEW c \in Six, NEW d \in Six
    PROVE  /\ Four4(a, b, c, d) \div 262144 = a /\ (Four4(a, b, c, d) \div 4096) % 64 = b
           /\ (Four4(a, b, c, d) \div 64) % 64 = c /\ Four4(a, b, c, d) % 64 = d
<1>1. Four4(a, b, c, d) \div 64 = a * 4096 + b * 64 + c /\ Four4(a, b, c, d) % 64 = d
  BY SMT DEF Four4, Six
<1>2. (a * 4096 + b * 64 + c) % 64 = c
  BY SMT DEF Six
<1>3. Four4(a, b, c, d) \div 4096 = a * 64 + b
  BY SMT DEF Four4, Six
<1>4. (a * 64 + b) % 64 = b
  BY SMT DEF Six
<1>5. Four4(a, b, c, d) \div 262144 = a
  BY SMT DEF Four4, Six
<1>. QED
  BY <1>1, <1>2, <1>3, <1>4, <1>5

LEMMA SpellsEncode ==
    ASSUME NEW code, NEW s, Spells(code, s)
    PROVE  code \in Code /\ s = Encode(code)
<1>1. CASE code \in 0 .. 127 /\ s = <<code>>
  BY <1>1, SMT DEF Code, IsCode, Surrogate, Encode
<1>2. CASE IsTwo(code, s)
  <2>1. PICK a \in 2 .. 31, b \in Six : code = Two(a, b) /\ s = <<192 + a, 128 + b>>
    BY <1>2, SMT DEF IsTwo
  <2>2. code \in Nat /\ 128 <= code /\ code < 2048
    BY <2>1, SMT DEF Two, Six
  <2>3. code \div 64 = a /\ code % 64 = b
    BY <2>1, TwoDigits, SMT
  <2>4. Encode(code) = <<192 + code \div 64, 128 + (code % 64)>>
    BY <2>2, SMT DEF Encode
  <2>. QED
    BY <2>1, <2>2, <2>3, <2>4, SMT DEF Code, IsCode, Surrogate
<1>3. CASE IsThree(code, s)
  <2>1. PICK a \in 0 .. 15, b \in Six, c \in Six :
            /\ code = Three3(a, b, c) /\ s = <<224 + a, 128 + b, 128 + c>>
            /\ ~(a = 0 /\ b < 32) /\ ~Surrogate(code)
    BY <1>3, SMT DEF IsThree
  <2>2. code \in Nat /\ 2048 <= code /\ code < 65536
    BY <2>1, SMT DEF Three3, Six
  <2>3. code \div 4096 = a /\ (code \div 64) % 64 = b /\ code % 64 = c
    BY <2>1, ThreeDigits, SMT
  <2>4. Encode(code) = <<224 + code \div 4096, 128 + ((code \div 64) % 64), 128 + (code % 64)>>
    BY <2>2, SMT DEF Encode
  <2>. QED
    BY <2>1, <2>2, <2>3, <2>4, SMT DEF Code, IsCode, Surrogate
<1>4. CASE IsFour(code, s)
  <2>1. PICK a \in 0 .. 7, b \in Six, c \in Six, d \in Six :
            /\ code = Four4(a, b, c, d) /\ s = <<240 + a, 128 + b, 128 + c, 128 + d>>
            /\ ~(a = 0 /\ b < 16)
    BY <1>4, SMT DEF IsFour
  <2>2. code \in Nat /\ 65536 <= code /\ code < 2097152
    BY <2>1, SMT DEF Four4, Six
  <2>3. /\ code \div 262144 = a /\ (code \div 4096) % 64 = b
        /\ (code \div 64) % 64 = c /\ code % 64 = d
    BY <2>1, FourDigits, SMT
  <2>4. Encode(code) = <<240 + code \div 262144, 128 + ((code \div 4096) % 64),
                         128 + ((code \div 64) % 64), 128 + (code % 64)>>
    BY <2>2, SMT DEF Encode
  <2>. QED
    BY <2>1, <2>2, <2>3, <2>4, SMT DEF Code, IsCode, Surrogate
<1>. QED
  BY <1>1, <1>2, <1>3, <1>4, SMT DEF Spells

LEMMA Quotient ==
    ASSUME NEW n \in Nat, NEW q, q = n \div 64
    PROVE  \E r \in Six : n = q * 64 + r
<1>1. n % 64 \in Six /\ n = q * 64 + (n % 64)
  BY SMT DEF Six
<1>. QED
  BY <1>1

LEMMA EncodeSpells ==
    ASSUME NEW code \in Code
    PROVE  Spells(code, Encode(code))
<1>1. code \in Nat /\ code < 2097152 /\ ~Surrogate(code)
  BY SMT DEF Code, IsCode
<1>2. CASE code \in 0 .. 127
  BY <1>2, SMT DEF Spells, Encode
<1>3. CASE code \in Nat /\ 128 <= code /\ code < 2048
  <2>1. PICK a \in 2 .. 31, b \in Six : code = Two(a, b)
    <3>1. code \div 64 \in 2 .. 31 /\ code % 64 \in Six /\ code = Two(code \div 64, code % 64)
      BY <1>3, SMT DEF Two, Six
    <3>. QED
      BY <3>1, SMT
  <2>2. Encode(code) = <<192 + a, 128 + b>>
    <3>1. code \div 64 = a /\ code % 64 = b
      BY <2>1, TwoDigits, SMT
    <3>. QED
      BY <1>3, <3>1, SMT DEF Encode
  <2>. QED
    BY <2>1, <2>2, SMT DEF Spells, IsTwo
<1>4. CASE code \in Nat /\ 2048 <= code /\ code < 65536
  <2>1. PICK a \in 0 .. 15, b \in Six, c \in Six : code = Three3(a, b, c)
    <3>1. PICK q \in Nat : q = code \div 64
      BY <1>4, SMT
    <3>2. PICK c \in Six : code = q * 64 + c
      BY <1>4, <3>1, Quotient
    <3>3. PICK a \in Nat : a = q \div 64
      BY SMT
    <3>4. PICK b \in Six : q = a * 64 + b
      BY <3>3, Quotient
    <3>5. a \in 0 .. 15 /\ code = Three3(a, b, c)
      BY <1>4, <3>2, <3>4, SMT DEF Three3, Six
    <3>. QED
      BY <3>5
  <2>2. ~(a = 0 /\ b < 32)
    BY <1>4, <2>1, SMT DEF Three3, Six
  <2>3. Encode(code) = <<224 + a, 128 + b, 128 + c>>
    <3>1. code \div 4096 = a /\ (code \div 64) % 64 = b /\ code % 64 = c
      BY <2>1, ThreeDigits, SMT
    <3>. QED
      BY <1>4, <3>1, SMT DEF Encode
  <2>. QED
    BY <1>1, <2>1, <2>2, <2>3, SMT DEF Spells, IsThree
<1>5. CASE code \in Nat /\ 65536 <= code /\ code < 2097152
  <2>1. PICK a \in 0 .. 7, b \in Six, c \in Six, d \in Six : code = Four4(a, b, c, d)
    <3>1. PICK q \in Nat : q = code \div 64
      BY <1>5, SMT
    <3>2. PICK d \in Six : code = q * 64 + d
      BY <1>5, <3>1, Quotient
    <3>3. PICK r \in Nat : r = q \div 64
      BY SMT
    <3>4. PICK c \in Six : q = r * 64 + c
      BY <3>3, Quotient
    <3>5. PICK a \in Nat : a = r \div 64
      BY SMT
    <3>6. PICK b \in Six : r = a * 64 + b
      BY <3>5, Quotient
    <3>7. a \in 0 .. 7 /\ code = Four4(a, b, c, d)
      BY <1>5, <3>2, <3>4, <3>6, SMT DEF Four4, Six
    <3>. QED
      BY <3>7
  <2>2. ~(a = 0 /\ b < 16)
    BY <1>5, <2>1, SMT DEF Four4, Six
  <2>3. Encode(code) = <<240 + a, 128 + b, 128 + c, 128 + d>>
    <3>1. /\ code \div 262144 = a /\ (code \div 4096) % 64 = b
          /\ (code \div 64) % 64 = c /\ code % 64 = d
      BY <2>1, FourDigits, SMT
    <3>. QED
      BY <1>5, <3>1, SMT DEF Encode
  <2>. QED
    BY <2>1, <2>2, <2>3, SMT DEF Spells, IsFour
<1>. QED
  BY <1>1, <1>2, <1>3, <1>4, <1>5, SMT

-----------------------------------------------------------------------------
(* get_code() takes exactly the bytes that spell a code.                   *)

At(str, i, s) == i + Len(s) <= Len(str) + 1 /\ \A k \in 1 .. Len(s) : str[i + (k - 1)] = s[k]

LEMMA ContBits ==
    ASSUME NEW b \in Six
    PROVE  IsCont(128 + b) /\ Bits6(128 + b) = b
BY SMT DEF Six, IsCont, Bits6

LEMMA ContByte ==
    ASSUME NEW byte, IsCont(byte)
    PROVE  \E b \in Six : byte = 128 + b
<1>1. byte - 128 \in Six /\ byte = 128 + (byte - 128)
  BY SMT DEF IsCont, Six
<1>. QED
  BY <1>1

(* The code of each lead byte, given the digits.                           *)
LEMMA GetOne ==
    ASSUME NEW str, NEW i, str[i] \in Nat, str[i] < 128
    PROVE  GetCode(str, i) = [code |-> str[i], bytes |-> 1]
BY SMT DEF GetCode

LEMMA GetTwo ==
    ASSUME NEW str, NEW i \in Nat, NEW a \in 2 .. 31, NEW b \in Six, i + 1 <= Len(str),
           str[i] = 192 + a, str[i + 1] = 128 + b
    PROVE  GetCode(str, i) = [code |-> Two(a, b), bytes |-> 2]
<1>1. /\ str[i] \in 194 .. 223 /\ ~(str[i] < 128) /\ str[i] \notin 224 .. 239
      /\ str[i] \notin 240 .. 247 /\ str[i] % 32 = a
  BY SMT
<1>2. Conts(str, i, 1)
  <2>1. ASSUME NEW k \in i + 1 .. i + 1 PROVE IsCont(str[k])
    <3>1. k = i + 1
      BY SMT
    <3>. QED
      BY <3>1, ContBits
  <2>. QED
    BY <2>1, SMT DEF Conts
<1>3. Bits6(str[i + 1]) = b
  BY ContBits
<1>4. GetCode(str, i) = [code |-> (str[i] % 32) * 64 + Bits6(str[i + 1]), bytes |-> 2]
  BY <1>1, <1>2, SMT DEF GetCode
<1>. QED
  BY <1>1, <1>3, <1>4, SMT DEF Two

LEMMA GetThree ==
    ASSUME NEW str, NEW i \in Nat, NEW a \in 0 .. 15, NEW b \in Six, NEW c \in Six, i + 2 <= Len(str),
           str[i] = 224 + a, str[i + 1] = 128 + b, str[i + 2] = 128 + c
    PROVE  GetCode(str, i) = IF (a = 0 /\ b < 32) \/ Surrogate(Three3(a, b, c)) THEN NoCode
                             ELSE [code |-> Three3(a, b, c), bytes |-> 3]
<1>1. /\ str[i] \in 224 .. 239 /\ ~(str[i] < 128) /\ str[i] \notin 194 .. 223
      /\ str[i] \notin 240 .. 247 /\ str[i] % 16 = a
  BY SMT
<1>2. Conts(str, i, 2)
  <2>1. ASSUME NEW k \in i + 1 .. i + 2 PROVE IsCont(str[k])
    <3>1. k = i + 1 \/ k = i + 2
      BY SMT
    <3>. QED
      BY <3>1, ContBits
  <2>. QED
    BY <2>1, SMT DEF Conts
<1>3. Bits6(str[i + 1]) = b /\ Bits6(str[i + 2]) = c
  BY ContBits
<1>4. GetCode(str, i) = Three(str, i)
  BY <1>1, <1>2, SMT DEF GetCode
<1>5. (str[i] % 16) * 4096 + Bits6(str[i + 1]) * 64 + Bits6(str[i + 2]) = Three3(a, b, c)
  BY <1>1, <1>3, SMT DEF Three3
<1>6. str[i + 1] \in 128 .. 159 <=> b < 32
  BY SMT DEF Six
<1>7. (str[i] % 16 = 0 /\ str[i + 1] \in 128 .. 159) <=> (a = 0 /\ b < 32)
  BY <1>1, <1>6
<1>8. PICK code : code = Three3(a, b, c)
  OBVIOUS
<1>9. Three(str, i) = IF (str[i] % 16 = 0 /\ str[i + 1] \in 128 .. 159) \/ Surrogate(code) THEN NoCode
                      ELSE [code |-> code, bytes |-> 3]
  BY <1>5, <1>8, SMT DEF Three
<1>. QED
  BY <1>4, <1>7, <1>8, <1>9

LEMMA GetFour ==
    ASSUME NEW str, NEW i \in Nat, NEW a \in 0 .. 7, NEW b \in Six, NEW c \in Six, NEW d \in Six,
           i + 3 <= Len(str),
           str[i] = 240 + a, str[i + 1] = 128 + b, str[i + 2] = 128 + c, str[i + 3] = 128 + d
    PROVE  GetCode(str, i) = IF a = 0 /\ b < 16 THEN NoCode
                             ELSE [code |-> Four4(a, b, c, d), bytes |-> 4]
<1>1. /\ str[i] \in 240 .. 247 /\ ~(str[i] < 128) /\ str[i] \notin 194 .. 223
      /\ str[i] \notin 224 .. 239 /\ str[i] % 8 = a /\ (str[i] = 240 <=> a = 0)
  BY SMT
<1>2. Conts(str, i, 3)
  <2>1. ASSUME NEW k \in i + 1 .. i + 3 PROVE IsCont(str[k])
    <3>1. k = i + 1 \/ k = i + 2 \/ k = i + 3
      BY SMT
    <3>. QED
      BY <3>1, ContBits
  <2>. QED
    BY <2>1, SMT DEF Conts
<1>3. Bits6(str[i + 1]) = b /\ Bits6(str[i + 2]) = c /\ Bits6(str[i + 3]) = d
  BY ContBits
<1>4. str[i + 1] \in 128 .. 143 <=> b < 16
  BY SMT DEF Six
<1>5. CASE a = 0 /\ b < 16
  BY <1>1, <1>2, <1>4, <1>5, SMT DEF GetCode
<1>6. CASE ~(a = 0 /\ b < 16)
  <2>1. GetCode(str, i) = [code |-> (str[i] % 8) * 262144 + Bits6(str[i + 1]) * 4096
                                + Bits6(str[i + 2]) * 64 + Bits6(str[i + 3]), bytes |-> 4]
    BY <1>1, <1>2, <1>4, <1>6, SMT DEF GetCode
  <2>. QED
    BY <1>1, <1>3, <1>6, <2>1, SMT DEF Four4
<1>. QED
  BY <1>5, <1>6

LEMMA GetSpelled ==
    ASSUME NEW str \in Seq(Byte), NEW i \in 1 .. Len(str), NEW code, NEW s, Spells(code, s), At(str, i, s)
    PROVE  GetCode(str, i) = [code |-> code, bytes |-> Len(s)]
<1>1. CASE code \in 0 .. 127 /\ s = <<code>>
  <2>1. Len(s) = 1 /\ s[1] = code /\ str[i + (1 - 1)] = s[1]
    BY <1>1 DEF At
  <2>2. str[i] = code /\ str[i] \in Nat /\ str[i] < 128
    BY <1>1, <2>1
  <2>. QED
    BY <2>1, <2>2, GetOne
<1>2. CASE IsTwo(code, s)
  <2>1. PICK a \in 2 .. 31, b \in Six : code = Two(a, b) /\ s = <<192 + a, 128 + b>>
    BY <1>2 DEF IsTwo
  <2>2. Len(s) = 2 /\ s[1] = 192 + a /\ s[2] = 128 + b
    BY <2>1
  <2>3. i + 1 <= Len(str) /\ str[i + (1 - 1)] = s[1] /\ str[i + (2 - 1)] = s[2]
    BY <2>2 DEF At
  <2>4. str[i] = 192 + a /\ str[i + 1] = 128 + b
    BY <2>2, <2>3
  <2>. QED
    BY <2>1, <2>2, <2>3, <2>4, GetTwo
<1>3. CASE IsThree(code, s)
  <2>1. PICK a \in 0 .. 15, b \in Six, c \in Six :
            /\ code = Three3(a, b, c) /\ s = <<224 + a, 128 + b, 128 + c>>
            /\ ~(a = 0 /\ b < 32) /\ ~Surrogate(code)
    BY <1>3 DEF IsThree
  <2>2. Len(s) = 3 /\ s[1] = 224 + a /\ s[2] = 128 + b /\ s[3] = 128 + c
    BY <2>1
  <2>3. /\ i + 2 <= Len(str) /\ str[i + (1 - 1)] = s[1] /\ str[i + (2 - 1)] = s[2]
        /\ str[i + (3 - 1)] = s[3]
    BY <2>2 DEF At
  <2>4. str[i] = 224 + a /\ str[i + 1] = 128 + b /\ str[i + 2] = 128 + c
    BY <2>2, <2>3
  <2>. QED
    BY <2>1, <2>2, <2>3, <2>4, GetThree
<1>4. CASE IsFour(code, s)
  <2>1. PICK a \in 0 .. 7, b \in Six, c \in Six, d \in Six :
            /\ code = Four4(a, b, c, d) /\ s = <<240 + a, 128 + b, 128 + c, 128 + d>>
            /\ ~(a = 0 /\ b < 16)
    BY <1>4 DEF IsFour
  <2>2. Len(s) = 4 /\ s[1] = 240 + a /\ s[2] = 128 + b /\ s[3] = 128 + c /\ s[4] = 128 + d
    BY <2>1
  <2>3. /\ i + 3 <= Len(str) /\ str[i + (1 - 1)] = s[1] /\ str[i + (2 - 1)] = s[2]
        /\ str[i + (3 - 1)] = s[3] /\ str[i + (4 - 1)] = s[4]
    BY <2>2 DEF At
  <2>4. str[i] = 240 + a /\ str[i + 1] = 128 + b /\ str[i + 2] = 128 + c /\ str[i + 3] = 128 + d
    BY <2>2, <2>3
  <2>. QED
    BY <2>1, <2>2, <2>3, <2>4, GetFour, SMTT(30)
<1>. QED
  BY <1>1, <1>2, <1>3, <1>4 DEF Spells

LEMMA SevenBits == \A x \in Nat : x < 128 => x \in 0 .. 127
OBVIOUS

LEMMA ByteIsNat == \A x \in Byte : x \in Nat /\ x < 256
BY DEF Byte

LEMMA GetGives ==
    ASSUME NEW str \in Seq(Byte), NEW i \in 1 .. Len(str), NEW got, got = GetCode(str, i), got # NoCode
    PROVE  \E s : Spells(got.code, s) /\ At(str, i, s) /\ got.bytes = Len(s)
<1>1. str[i] \in Nat /\ str[i] < 256
  <2>1. str[i] \in Byte
    BY ElementOfSeq
  <2>. QED
    BY <2>1, ByteIsNat
<1>2. CASE str[i] < 128
  <2>1. got = [code |-> str[i], bytes |-> 1]
    BY <1>1, <1>2, GetOne
  <2>2. Spells(got.code, <<str[i]>>) /\ got.bytes = Len(<<str[i]>>)
    <3>1. PICK code \in Nat : code = str[i] /\ code < 128
      BY <1>1, <1>2
    <3>2. code \in 0 .. 127
      BY <3>1, SevenBits
    <3>3. Len(<<code>>) = 1
      OBVIOUS
    <3>. QED
      BY <2>1, <3>1, <3>2, <3>3 DEF Spells
  <2>3. At(str, i, <<str[i]>>)
    BY DEF At
  <2>. QED
    BY <2>2, <2>3
<1>3. CASE ~(str[i] < 128) /\ str[i] \in 194 .. 223 /\ Conts(str, i, 1)
  <2>1. PICK a \in 2 .. 31 : str[i] = 192 + a
    <3>1. PICK x \in Nat : x = str[i] /\ x \in 194 .. 223
      BY <1>1, <1>3
    <3>2. x - 192 \in 2 .. 31 /\ x = 192 + (x - 192)
      BY <3>1
    <3>. QED
      BY <3>1, <3>2
  <2>2. i + 1 <= Len(str) /\ IsCont(str[i + 1])
    BY <1>3 DEF Conts
  <2>3. PICK b \in Six : str[i + 1] = 128 + b
    BY <2>2, ContByte
  <2>4. got = [code |-> Two(a, b), bytes |-> 2]
    <3>1. i \in Nat /\ i + 1 <= Len(str)
      BY <2>2
    <3>2. GetCode(str, i) = [code |-> Two(a, b), bytes |-> 2]
      BY <2>1, <2>3, <3>1, GetTwo
    <3>. QED
      BY <3>2
  <2>5. PICK s : s = <<192 + a, 128 + b>>
    OBVIOUS
  <2>6. Spells(got.code, s) /\ got.bytes = Len(s)
    BY <2>4, <2>5 DEF Spells, IsTwo
  <2>7. At(str, i, s)
    BY <2>1, <2>2, <2>3, <2>5 DEF At
  <2>. QED
    BY <2>6, <2>7
<1>4. CASE ~(str[i] < 128) /\ str[i] \in 224 .. 239 /\ Conts(str, i, 2)
  <2>1. PICK a \in 0 .. 15 : str[i] = 224 + a
    <3>1. PICK x \in Nat : x = str[i] /\ x \in 224 .. 239
      BY <1>1, <1>4
    <3>2. x - 224 \in 0 .. 15 /\ x = 224 + (x - 224)
      BY <3>1
    <3>. QED
      BY <3>1, <3>2
  <2>2. i + 2 <= Len(str) /\ IsCont(str[i + 1]) /\ IsCont(str[i + 2])
    BY <1>4 DEF Conts
  <2>3. PICK b \in Six : str[i + 1] = 128 + b
    BY <2>2, ContByte
  <2>4. PICK c \in Six : str[i + 2] = 128 + c
    BY <2>2, ContByte
  <2>5. ~(a = 0 /\ b < 32) /\ ~Surrogate(Three3(a, b, c)) /\ got = [code |-> Three3(a, b, c), bytes |-> 3]
    BY <2>1, <2>2, <2>3, <2>4, GetThree, SMTT(30)
  <2>6. PICK s : s = <<224 + a, 128 + b, 128 + c>>
    OBVIOUS
  <2>7. Spells(got.code, s) /\ got.bytes = Len(s)
    BY <2>5, <2>6 DEF Spells, IsThree
  <2>8. At(str, i, s)
    BY <2>1, <2>2, <2>3, <2>4, <2>6 DEF At
  <2>. QED
    BY <2>7, <2>8
<1>5. CASE ~(str[i] < 128) /\ str[i] \in 240 .. 247 /\ Conts(str, i, 3)
  <2>1. PICK a \in 0 .. 7 : str[i] = 240 + a
    <3>1. PICK x \in Nat : x = str[i] /\ x \in 240 .. 247
      BY <1>1, <1>5
    <3>2. x - 240 \in 0 .. 7 /\ x = 240 + (x - 240)
      BY <3>1
    <3>. QED
      BY <3>1, <3>2
  <2>2. i + 3 <= Len(str) /\ IsCont(str[i + 1]) /\ IsCont(str[i + 2]) /\ IsCont(str[i + 3])
    BY <1>5 DEF Conts
  <2>3. PICK b \in Six : str[i + 1] = 128 + b
    BY <2>2, ContByte
  <2>4. PICK c \in Six : str[i + 2] = 128 + c
    BY <2>2, ContByte
  <2>5. PICK d \in Six : str[i + 3] = 128 + d
    BY <2>2, ContByte
  <2>6. ~(a = 0 /\ b < 16) /\ got = [code |-> Four4(a, b, c, d), bytes |-> 4]
    BY <2>1, <2>2, <2>3, <2>4, <2>5, GetFour
  <2>7. PICK s : s = <<240 + a, 128 + b, 128 + c, 128 + d>>
    OBVIOUS
  <2>8. Spells(got.code, s) /\ got.bytes = Len(s)
    BY <2>6, <2>7 DEF Spells, IsFour
  <2>9. At(str, i, s)
    BY <2>1, <2>2, <2>3, <2>4, <2>5, <2>7 DEF At
  <2>. QED
    BY <2>8, <2>9
<1>6. \/ str[i] < 128
      \/ ~(str[i] < 128) /\ str[i] \in 194 .. 223 /\ Conts(str, i, 1)
      \/ ~(str[i] < 128) /\ str[i] \in 224 .. 239 /\ Conts(str, i, 2)
      \/ ~(str[i] < 128) /\ str[i] \in 240 .. 247 /\ Conts(str, i, 3)
  BY <1>1, SMT DEF GetCode
<1>. QED
  BY <1>2, <1>3, <1>4, <1>5, <1>6

-----------------------------------------------------------------------------
(* A recursive function of the places of a text that looks forward exists, *)
(* and what holds from behind holds everywhere.                            *)

LEMMA DownInduction ==
    ASSUME NEW n \in Nat, NEW S, n + 1 \in S,
           \A i \in 1 .. n : (\A j \in i + 1 .. n + 1 : j \in S) => i \in S
    PROVE  1 .. n + 1 \subseteq S
<1>. DEFINE M == {k \in Nat : k <= n => \A j \in (n + 1) - k .. n + 1 : j \in S}
<1>1. 0 \in M
  OBVIOUS
<1>2. ASSUME NEW k \in Nat, k \in M PROVE k + 1 \in M
  <2>. SUFFICES ASSUME k + 1 <= n, NEW j \in (n + 1) - (k + 1) .. n + 1 PROVE j \in S
    OBVIOUS
  <2>1. \A l \in (n + 1) - k .. n + 1 : l \in S
    BY <1>2
  <2>2. CASE j = n - k
    <3>1. j \in 1 .. n /\ j + 1 = (n + 1) - k
      BY <2>2
    <3>2. \A l \in j + 1 .. n + 1 : l \in S
      BY <2>1, <3>1
    <3>. QED
      BY <3>1, <3>2
  <2>3. CASE j # n - k
    BY <2>1, <2>3
  <2>. QED
    BY <2>2, <2>3
<1>3. n \in M
  <2>. HIDE DEF M
  <2>. QED
    BY <1>1, <1>2, SetInduction
<1>4. \A j \in 1 .. n + 1 : j \in S
  BY <1>3
<1>. QED
  BY <1>4

Jumps(n, next) == next \in [1 .. n -> Nat] /\ \A i \in 1 .. n : next[i] \in i + 1 .. n + 1
Falls(n, S, end, next, g, f) ==
    f \in [1 .. n + 1 -> S] /\ f[n + 1] = end /\ \A i \in 1 .. n : f[i] = g[i][f[next[i]]]

LEMMA BackwardExists ==
    ASSUME NEW n \in Nat, NEW S, NEW end \in S, NEW next, Jumps(n, next), NEW g \in Turns(n, S)
    PROVE  \E f : Falls(n, S, end, next, g, f)
<1>. DEFINE Behind(k, f) ==
                /\ f \in [k .. n + 1 -> S] /\ f[n + 1] = end
                /\ \A i \in k .. n : f[i] = g[i][f[next[i]]]
            T == {k \in 1 .. n + 1 : \E f : Behind(k, f)}
<1>1. n + 1 \in T
  <2>1. Behind(n + 1, [i \in n + 1 .. n + 1 |-> end])
    OBVIOUS
  <2>. QED
    BY <2>1
<1>2. ASSUME NEW k \in 1 .. n, \A j \in k + 1 .. n + 1 : j \in T PROVE k \in T
  <2>1. k + 1 \in k + 1 .. n + 1
    OBVIOUS
  <2>2. PICK f : Behind(k + 1, f)
    BY <1>2, <2>1
  <2>3. next[k] \in k + 1 .. n + 1
    BY DEF Jumps
  <2>4. PICK here \in S : here = g[k][f[next[k]]]
    BY <2>2, <2>3 DEF Turns
  <2>. DEFINE h == [i \in k .. n + 1 |-> IF i = k THEN here ELSE f[i]]
  <2>5. h \in [k .. n + 1 -> S] /\ h[n + 1] = end
    BY <2>2
  <2>6. ASSUME NEW i \in k .. n PROVE h[i] = g[i][h[next[i]]]
    <3>1. next[i] \in i + 1 .. n + 1
      BY DEF Jumps
    <3>2. h[next[i]] = f[next[i]]
      BY <3>1
    <3>3. CASE i = k
      <4>1. h[k] = here
        OBVIOUS
      <4>. QED
        BY <2>4, <3>2, <3>3, <4>1
    <3>4. CASE i # k
      <4>1. i \in k + 1 .. n /\ h[i] = f[i]
        BY <3>4
      <4>2. f[i] = g[i][f[next[i]]]
        BY <2>2, <4>1
      <4>. QED
        BY <3>2, <4>1, <4>2
    <3>. QED
      BY <3>3, <3>4
  <2>. HIDE DEF h
  <2>7. Behind(k, h)
    BY <2>5, <2>6
  <2>. QED
    BY <2>7
<1>3. 1 \in T
  <2>. HIDE DEF T
  <2>1. 1 .. n + 1 \subseteq T
    BY <1>1, <1>2, DownInduction
  <2>. QED
    BY <2>1
<1>4. PICK f : Behind(1, f)
  BY <1>3
<1>. QED
  BY <1>4 DEF Falls

-----------------------------------------------------------------------------
(* The loops of utf8_create() and of a client of utf8_get(): what they     *)
(* make of the text from a place on comes from the place they go to next.  *)

Next8(str, i) == i + Step(GetCode(str, i))

LEMMA SpellsLength ==
    ASSUME NEW code, NEW s, Spells(code, s)
    PROVE  s \in Seq(Byte) /\ Len(s) \in 1 .. 4
<1>1. CASE code \in 0 .. 127 /\ s = <<code>>
  BY <1>1 DEF Byte
<1>2. CASE IsTwo(code, s)
  BY <1>2 DEF IsTwo, Byte, Six
<1>3. CASE IsThree(code, s)
  BY <1>3 DEF IsThree, Byte, Six
<1>4. CASE IsFour(code, s)
  BY <1>4 DEF IsFour, Byte, Six
<1>. QED
  BY <1>1, <1>2, <1>3, <1>4 DEF Spells

LEMMA GetTypes ==
    ASSUME NEW str \in Seq(Byte), NEW i \in 1 .. Len(str), NEW got, got = GetCode(str, i), got # NoCode
    PROVE  got.code \in Code /\ got.bytes \in 1 .. 4 /\ i + got.bytes <= Len(str) + 1
<1>1. PICK s : Spells(got.code, s) /\ At(str, i, s) /\ got.bytes = Len(s)
  BY GetGives
<1>. QED
  BY <1>1, SpellsLength, SpellsEncode DEF At

LEMMA NextType ==
    ASSUME NEW str \in Seq(Byte), NEW i \in 1 .. Len(str)
    PROVE  Next8(str, i) \in i + 1 .. Len(str) + 1
<1>1. CASE GetCode(str, i) = NoCode
  BY <1>1 DEF Next8, Step
<1>2. CASE GetCode(str, i) # NoCode
  <2>1. GetCode(str, i).bytes \in 1 .. 4 /\ i + GetCode(str, i).bytes <= Len(str) + 1
    BY <1>2, GetTypes
  <2>. QED
    BY <1>2, <2>1 DEF Next8, Step
<1>. QED
  BY <1>1, <1>2

LEMMA NextJumps ==
    ASSUME NEW str \in Seq(Byte), NEW n \in Nat, n = Len(str), NEW next,
           next = [i \in 1 .. n |-> Next8(str, i)]
    PROVE  Jumps(n, next)
<1>1. \A i \in 1 .. n : Next8(str, i) \in i + 1 .. n + 1
  BY NextType
<1>. QED
  BY <1>1 DEF Jumps

Count == [length : Nat, bytes : Nat]
CountOne(c, rest) ==
    [length |-> 1 + rest.length, bytes |-> (IF c = NoCode THEN 3 ELSE c.bytes) + rest.bytes]

LEMMA CountedDef ==
    ASSUME NEW str \in Seq(Byte), NEW n \in Nat, n = Len(str)
    PROVE  \E f :
            /\ Counted(str) = f[1] /\ f[n + 1] = [length |-> 0, bytes |-> 0]
            /\ \A i \in 1 .. n : f[i] = CountOne(GetCode(str, i), f[Next8(str, i)])
<1>. DEFINE F(t) == [i \in 1 .. Len(str) + 1 |->
                        IF i > Len(str) THEN [length |-> 0, bytes |-> 0]
                        ELSE CountOne(GetCode(str, i), t[i + Step(GetCode(str, i))])]
            counted == CHOOSE t : t = F(t)
<1>1. Counted(str) = counted[1]
  BY DEF Counted, CountOne
<1>2. PICK next : next = [i \in 1 .. n |-> Next8(str, i)]
  OBVIOUS
<1>3. Jumps(n, next)
  BY <1>2, NextJumps
<1>4. PICK end \in Count : end = [length |-> 0, bytes |-> 0]
  BY DEF Count
<1>5. ASSUME NEW i \in 1 .. n, NEW rest \in Count PROVE CountOne(GetCode(str, i), rest) \in Count
  <2>1. GetCode(str, i) # NoCode => GetCode(str, i).bytes \in Nat
    BY GetTypes
  <2>. QED
    BY <2>1 DEF Count, CountOne
<1>6. PICK g : g = [i \in 1 .. n |-> [rest \in Count |-> CountOne(GetCode(str, i), rest)]]
  OBVIOUS
<1>7. g \in Turns(n, Count)
  BY <1>5, <1>6 DEF Turns
<1>8. PICK t : Falls(n, Count, end, next, g, t)
  BY <1>3, <1>7, BackwardExists
<1>9. t \in [1 .. n + 1 -> Count] /\ t[n + 1] = end
  BY <1>8 DEF Falls
<1>10. ASSUME NEW i \in 1 .. n PROVE t[i] = CountOne(GetCode(str, i), t[Next8(str, i)])
  <2>1. next[i] = Next8(str, i) /\ next[i] \in 1 .. n + 1
    BY <1>2, <1>3 DEF Jumps
  <2>2. t[i] = g[i][t[next[i]]] /\ t[next[i]] \in Count
    BY <1>8, <1>9, <2>1 DEF Falls
  <2>. QED
    BY <1>6, <2>1, <2>2
<1>11. t = F(t)
  <2>1. ASSUME NEW i \in 1 .. n + 1 PROVE t[i] = F(t)[i]
    <3>1. CASE i = n + 1
      BY <1>4, <1>9, <3>1
    <3>2. CASE i \in 1 .. n
      BY <1>10, <3>2 DEF Next8
    <3>. QED
      BY <3>1, <3>2
  <2>2. t = [i \in 1 .. n + 1 |-> t[i]]
    BY <1>9
  <2>. QED
    BY <2>1, <2>2
<1>12. counted = F(counted)
  BY <1>11, Zenon
<1>13. PICK z : z = counted
  OBVIOUS
<1>. HIDE DEF counted
<1>14. z = F(z)
  BY <1>12, <1>13, Zenon
<1>15. z[n + 1] = [length |-> 0, bytes |-> 0]
  BY <1>14
<1>16. ASSUME NEW i \in 1 .. n PROVE z[i] = CountOne(GetCode(str, i), z[Next8(str, i)])
  BY <1>14 DEF Next8
<1>. HIDE DEF F
<1>. QED
  BY <1>1, <1>13, <1>15, <1>16

Copy == [data : Seq(Byte), replacement_num : Nat]
CopyOne(str, i, rest) ==
    IF GetCode(str, i) = NoCode
    THEN [data |-> Replacement \o rest.data, replacement_num |-> 1 + rest.replacement_num]
    ELSE [rest EXCEPT !.data = SubSeq(str, i, i + GetCode(str, i).bytes - 1) \o @]

(* What is copied at a place, and the code it spells.                      *)
Piece(str, i) ==
    IF GetCode(str, i) = NoCode THEN Replacement
    ELSE SubSeq(str, i, i + GetCode(str, i).bytes - 1)
Unknown == 65533
CodeAt(str, i) == IF GetCode(str, i) = NoCode THEN Unknown ELSE GetCode(str, i).code

LEMMA AtPiece ==
    ASSUME NEW str \in Seq(Byte), NEW i \in 1 .. Len(str), NEW s \in Seq(Byte), At(str, i, s)
    PROVE  SubSeq(str, i, i + Len(s) - 1) = s
<1>1. PICK m \in Nat : m = Len(s)
  OBVIOUS
<1>2. i + m <= Len(str) + 1 /\ \A k \in 1 .. m : str[i + (k - 1)] = s[k]
  BY <1>1 DEF At
<1>3. PICK j \in Int : j = i + m - 1 /\ j <= Len(str) /\ (j - i) + 1 = m /\ (i <= j \/ m = 0)
  BY <1>2
<1>4. \A k \in i .. j : str[k] \in Byte
  BY <1>3
<1>5. PICK sub : sub = SubSeq(str, i, j)
  OBVIOUS
<1>6. /\ sub \in Seq(Byte) /\ Len(sub) = (IF i <= j THEN (j - i) + 1 ELSE 0)
      /\ \A k \in 1 .. (j - i) + 1 : sub[k] = str[i + k - 1]
  <2>1. i \in Int /\ j \in Int
    OBVIOUS
  <2>2. /\ SubSeq(str, i, j) \in Seq(Byte)
        /\ Len(SubSeq(str, i, j)) = IF i <= j THEN j - i + 1 ELSE 0
        /\ \A k \in 1 .. j - i + 1 : SubSeq(str, i, j)[k] = str[i + k - 1]
    BY <1>4, <2>1, SubSeqProperties
  <2>. QED
    BY <1>5, <2>2
<1>7. Len(sub) = m /\ \A k \in 1 .. m : sub[k] = str[i + (k - 1)]
  BY <1>3, <1>6
<1>. QED
  BY <1>1, <1>2, <1>3, <1>5, <1>6, <1>7, SeqEqual

LEMMA ReplacementSpells ==
    Spells(Unknown, Replacement)
<1>1. 15 \in 0 .. 15 /\ 63 \in Six /\ 61 \in Six
  BY DEF Six
<1>2. Unknown = Three3(15, 63, 61) /\ ~Surrogate(Unknown)
  BY SMT DEF Unknown, Three3, Surrogate
<1>3. Replacement = <<224 + 15, 128 + 63, 128 + 61>>
  BY SMT DEF Replacement
<1>4. IsThree(Unknown, Replacement)
  BY <1>1, <1>2, <1>3, SMT DEF IsThree
<1>. QED
  BY <1>4, SMT DEF Spells

LEMMA PieceSpells ==
    ASSUME NEW str \in Seq(Byte), NEW i \in 1 .. Len(str)
    PROVE  /\ Spells(CodeAt(str, i), Piece(str, i))
           /\ Len(Piece(str, i)) =
                    IF GetCode(str, i) = NoCode THEN 3 ELSE GetCode(str, i).bytes
<1>1. CASE GetCode(str, i) = NoCode
  <2>1. Len(Replacement) = 3
    BY DEF Replacement
  <2>2. CodeAt(str, i) = Unknown /\ Piece(str, i) = Replacement
    BY <1>1 DEF CodeAt, Piece
  <2>. QED
    BY <1>1, <2>1, <2>2, ReplacementSpells
<1>2. CASE GetCode(str, i) # NoCode
  <2>1. PICK got : got = GetCode(str, i) /\ got # NoCode
    BY <1>2
  <2>2. PICK s : Spells(got.code, s) /\ At(str, i, s) /\ got.bytes = Len(s)
    BY <2>1, GetGives
  <2>3. s \in Seq(Byte)
    BY <2>2, SpellsLength
  <2>4. SubSeq(str, i, i + Len(s) - 1) = s
    BY <2>2, <2>3, AtPiece
  <2>5. CodeAt(str, i) = got.code /\ Piece(str, i) = SubSeq(str, i, i + got.bytes - 1)
    BY <2>1 DEF CodeAt, Piece
  <2>. QED
    BY <1>2, <2>1, <2>2, <2>4, <2>5
<1>. QED
  BY <1>1, <1>2

LEMMA CopyOneIs ==
    ASSUME NEW str \in Seq(Byte), NEW i \in 1 .. Len(str), NEW rest \in Copy
    PROVE  CopyOne(str, i, rest) =
                [data |-> Glue(Piece(str, i), rest.data),
                 replacement_num |-> (IF GetCode(str, i) = NoCode THEN 1 ELSE 0) + rest.replacement_num]
<1>1. rest = [data |-> rest.data, replacement_num |-> rest.replacement_num] /\ rest.replacement_num \in Nat
  BY DEF Copy
<1>2. CASE GetCode(str, i) = NoCode
  BY <1>2 DEF CopyOne, Piece, Glue
<1>3. CASE GetCode(str, i) # NoCode
  <2>1. CopyOne(str, i, rest) = [rest EXCEPT !.data = Glue(Piece(str, i), @)]
    BY <1>3 DEF CopyOne, Piece, Glue
  <2>2. 0 + rest.replacement_num = rest.replacement_num
    BY <1>1
  <2>. QED
    BY <1>1, <1>3, <2>1, <2>2
<1>. QED
  BY <1>2, <1>3

LEMMA CopyOneType ==
    ASSUME NEW str \in Seq(Byte), NEW i \in 1 .. Len(str), NEW rest \in Copy
    PROVE  CopyOne(str, i, rest) \in Copy
<1>1. Piece(str, i) \in Seq(Byte)
  BY PieceSpells, SpellsLength
<1>2. rest.data \in Seq(Byte) /\ rest.replacement_num \in Nat
  BY DEF Copy
<1>3. Glue(Piece(str, i), rest.data) \in Seq(Byte)
  BY <1>1, <1>2, GlueType
<1>. QED
  BY <1>2, <1>3, CopyOneIs DEF Copy

LEMMA CopiedDef ==
    ASSUME NEW str \in Seq(Byte), NEW n \in Nat, n = Len(str)
    PROVE  \E f :
            /\ Copied(str) = f[1] /\ f[n + 1] = [data |-> <<>>, replacement_num |-> 0]
            /\ \A i \in 1 .. n : f[i] = CopyOne(str, i, f[Next8(str, i)])
<1>. DEFINE F(t) == [i \in 1 .. Len(str) + 1 |->
                        IF i > Len(str) THEN [data |-> <<>>, replacement_num |-> 0]
                        ELSE CopyOne(str, i, t[i + Step(GetCode(str, i))])]
            copied == CHOOSE t : t = F(t)
<1>1. Copied(str) = copied[1]
  BY DEF Copied, CopyOne
<1>2. PICK next : next = [i \in 1 .. n |-> Next8(str, i)]
  OBVIOUS
<1>3. Jumps(n, next)
  BY <1>2, NextJumps
<1>4. PICK end : end = [data |-> <<>>, replacement_num |-> 0]
  OBVIOUS
<1>5. end \in Copy
  BY <1>4 DEF Copy
<1>6. ASSUME NEW i \in 1 .. n, NEW rest \in Copy PROVE CopyOne(str, i, rest) \in Copy
  BY CopyOneType
<1>7. PICK g : g = [i \in 1 .. n |-> [rest \in Copy |-> CopyOne(str, i, rest)]]
  OBVIOUS
<1>8. g \in Turns(n, Copy)
  BY <1>6, <1>7 DEF Turns
<1>9. PICK t : Falls(n, Copy, end, next, g, t)
  BY <1>3, <1>8, <1>5, BackwardExists
<1>10. t \in [1 .. n + 1 -> Copy] /\ t[n + 1] = end
  BY <1>9 DEF Falls
<1>11. ASSUME NEW i \in 1 .. n PROVE t[i] = CopyOne(str, i, t[Next8(str, i)])
  <2>1. next[i] = Next8(str, i) /\ next[i] \in 1 .. n + 1
    BY <1>2, <1>3 DEF Jumps
  <2>2. t[i] = g[i][t[next[i]]] /\ t[next[i]] \in Copy
    BY <1>9, <1>10, <2>1 DEF Falls
  <2>. QED
    BY <1>7, <2>1, <2>2
<1>12. t = F(t)
  <2>1. ASSUME NEW i \in 1 .. n + 1 PROVE t[i] = F(t)[i]
    <3>1. CASE i = n + 1
      BY <1>4, <1>10, <3>1
    <3>2. CASE i \in 1 .. n
      BY <1>11, <3>2 DEF Next8
    <3>. QED
      BY <3>1, <3>2
  <2>2. t = [i \in 1 .. n + 1 |-> t[i]]
    BY <1>10
  <2>. QED
    BY <2>1, <2>2
<1>13. copied = F(copied)
  BY <1>12, Zenon
<1>14. PICK z : z = copied
  OBVIOUS
<1>. HIDE DEF copied
<1>15. z = F(z)
  BY <1>13, <1>14, Zenon
<1>16. z[n + 1] = [data |-> <<>>, replacement_num |-> 0]
  BY <1>15
<1>17. ASSUME NEW i \in 1 .. n PROVE z[i] = CopyOne(str, i, z[Next8(str, i)])
  BY <1>15 DEF Next8
<1>. HIDE DEF F
<1>. QED
  BY <1>1, <1>14, <1>16, <1>17

ReadOne(str, i, rest) == <<GetCode(str, i).code>> \o rest

LEMMA ReadOneType ==
    ASSUME NEW str \in Seq(Byte), NEW i \in 1 .. Len(str), NEW rest \in Seq(Int)
    PROVE  ReadOne(str, i, rest) \in Seq(Int)
<1>1. GetCode(str, i).code \in Int
  <2>1. CASE GetCode(str, i) = NoCode
    BY <2>1 DEF NoCode
  <2>2. CASE GetCode(str, i) # NoCode
    BY <2>2, GetTypes DEF Code
  <2>. QED
    BY <2>1, <2>2
<1>. QED
  BY <1>1 DEF ReadOne

LEMMA CodesDef ==
    ASSUME NEW str \in Seq(Byte), NEW n \in Nat, n = Len(str),
           NEW utf8, utf8.data = str, utf8.bytes = n
    PROVE  \E f :
            /\ Codes(utf8) = f[1] /\ f[n + 1] = <<>>
            /\ \A i \in 1 .. n : f[i] = ReadOne(str, i, f[Next8(str, i)])
<1>. DEFINE F(t) == [i \in 1 .. utf8.bytes + 1 |->
                        IF i > utf8.bytes THEN <<>>
                        ELSE ReadOne(utf8.data, i, t[i + Step(GetCode(utf8.data, i))])]
            codes == CHOOSE t : t = F(t)
<1>1. Codes(utf8) = codes[1]
  BY DEF Codes, ReadOne
<1>2. PICK next : next = [i \in 1 .. n |-> Next8(str, i)]
  OBVIOUS
<1>3. Jumps(n, next)
  BY <1>2, NextJumps
<1>4. PICK end : end = <<>>
  OBVIOUS
<1>5. end \in Seq(Int)
  BY <1>4
<1>6. ASSUME NEW i \in 1 .. n, NEW rest \in Seq(Int) PROVE ReadOne(str, i, rest) \in Seq(Int)
  BY ReadOneType
<1>7. PICK g : g = [i \in 1 .. n |-> [rest \in Seq(Int) |-> ReadOne(str, i, rest)]]
  OBVIOUS
<1>8. g \in Turns(n, Seq(Int))
  BY <1>6, <1>7 DEF Turns
<1>9. PICK t : Falls(n, Seq(Int), end, next, g, t)
  BY <1>3, <1>8, <1>5, BackwardExists
<1>10. t \in [1 .. n + 1 -> Seq(Int)] /\ t[n + 1] = end
  BY <1>9 DEF Falls
<1>11. ASSUME NEW i \in 1 .. n PROVE t[i] = ReadOne(str, i, t[Next8(str, i)])
  <2>1. next[i] = Next8(str, i) /\ next[i] \in 1 .. n + 1
    BY <1>2, <1>3 DEF Jumps
  <2>2. t[i] = g[i][t[next[i]]] /\ t[next[i]] \in Seq(Int)
    BY <1>9, <1>10, <2>1 DEF Falls
  <2>. QED
    BY <1>7, <2>1, <2>2
<1>12. t = F(t)
  <2>1. ASSUME NEW i \in 1 .. n + 1 PROVE t[i] = F(t)[i]
    <3>1. CASE i = n + 1
      BY <1>4, <1>10, <3>1
    <3>2. CASE i \in 1 .. n
      BY <1>11, <3>2 DEF Next8
    <3>. QED
      BY <3>1, <3>2
  <2>2. t = [i \in 1 .. n + 1 |-> t[i]]
    BY <1>10
  <2>. QED
    BY <2>1, <2>2
<1>13. codes = F(codes)
  BY <1>12, Zenon
<1>14. PICK z : z = codes
  OBVIOUS
<1>. HIDE DEF codes
<1>15. z = F(z)
  BY <1>13, <1>14, Zenon
<1>16. z[n + 1] = <<>>
  BY <1>15
<1>17. ASSUME NEW i \in 1 .. n PROVE z[i] = ReadOne(str, i, z[Next8(str, i)])
  BY <1>15 DEF Next8
<1>. HIDE DEF F
<1>. QED
  BY <1>1, <1>14, <1>16, <1>17

-----------------------------------------------------------------------------
(* A text from a place on, and what it spells.                             *)

(* What is left of a text from a place on.                                 *)
From(str, i) == SubSeq(str, i, Len(str))

LEMMA FromType ==
    ASSUME NEW str \in Seq(Byte), NEW i \in 1 .. Len(str) + 1
    PROVE  /\ From(str, i) \in Seq(Byte) /\ Len(From(str, i)) = (Len(str) - i) + 1
           /\ \A k \in 1 .. (Len(str) - i) + 1 : From(str, i)[k] = str[i + (k - 1)]
<1>1. PICK n \in Nat : n = Len(str)
  OBVIOUS
<1>2. \A k \in i .. n : str[k] \in Byte
  BY <1>1
<1>3. /\ SubSeq(str, i, n) \in Seq(Byte)
      /\ Len(SubSeq(str, i, n)) = IF i <= n THEN (n - i) + 1 ELSE 0
      /\ \A k \in 1 .. (n - i) + 1 : SubSeq(str, i, n)[k] = str[i + k - 1]
  BY <1>1, <1>2, SubSeqProperties
<1>4. \A k \in 1 .. (n - i) + 1 : i + k - 1 = i + (k - 1)
  BY <1>1
<1>5. i <= n \/ (n - i) + 1 = 0
  BY <1>1
<1>. QED
  BY <1>1, <1>3, <1>4, <1>5 DEF From

LEMMA FromFirst ==
    ASSUME NEW str \in Seq(Byte)
    PROVE  From(str, 1) = str /\ From(str, Len(str) + 1) = <<>>
<1>1. From(str, 1) = str
  BY SubSeqFull DEF From
<1>2. From(str, Len(str) + 1) = <<>>
  BY SubSeqEmpty DEF From
<1>. QED
  BY <1>1, <1>2

(* What is at a place is what the rest begins with.                        *)
LEMMA FromSplit ==
    ASSUME NEW str \in Seq(Byte), NEW i \in 1 .. Len(str) + 1, NEW s \in Seq(Byte), At(str, i, s)
    PROVE  From(str, i) = Glue(s, From(str, i + Len(s)))
<1>1. PICK n \in Nat, m \in Nat : n = Len(str) /\ m = Len(s)
  OBVIOUS
<1>2. i + m <= n + 1 /\ \A k \in 1 .. m : str[i + (k - 1)] = s[k]
  BY <1>1 DEF At
<1>3. PICK j \in 1 .. n + 1 : j = i + m
  BY <1>1, <1>2
<1>4. PICK all \in Seq(Byte) : all = From(str, i)
  BY FromType
<1>5. PICK rest \in Seq(Byte) : rest = From(str, j)
  BY <1>1, FromType
<1>6. Len(all) = (n - i) + 1 /\ \A k \in 1 .. (n - i) + 1 : all[k] = str[i + (k - 1)]
  BY <1>1, <1>4, FromType
<1>7. Len(rest) = (n - j) + 1 /\ \A k \in 1 .. (n - j) + 1 : rest[k] = str[j + (k - 1)]
  BY <1>1, <1>5, FromType
<1>8. /\ s \o rest \in Seq(Byte) /\ Len(s \o rest) = Len(s) + Len(rest)
      /\ \A k \in 1 .. Len(s) + Len(rest) :
            (s \o rest)[k] = IF k <= Len(s) THEN s[k] ELSE rest[k - Len(s)]
  BY ConcatProperties
<1>9. Len(all) = Len(s \o rest)
  BY <1>1, <1>3, <1>6, <1>7, <1>8
<1>10. ASSUME NEW k \in 1 .. Len(all) PROVE all[k] = (s \o rest)[k]
  <2>1. k \in 1 .. (n - i) + 1 /\ (s \o rest)[k] = IF k <= m THEN s[k] ELSE rest[k - m]
    BY <1>1, <1>6, <1>8, <1>9
  <2>2. CASE k <= m
    BY <1>2, <1>6, <2>1, <2>2
  <2>3. CASE ~(k <= m)
    <3>1. k - m \in 1 .. (n - j) + 1 /\ j + ((k - m) - 1) = i + (k - 1)
      BY <1>3, <2>1, <2>3
    <3>. QED
      BY <1>6, <1>7, <2>1, <2>3, <3>1
  <2>. QED
    BY <2>2, <2>3
<1>11. all = s \o rest
  BY <1>8, <1>9, <1>10, SeqEqual
<1>. QED
  BY <1>1, <1>3, <1>4, <1>5, <1>11 DEF Glue

LEMMA FromBegins ==
    ASSUME NEW str \in Seq(Byte), NEW i \in 1 .. Len(str) + 1, NEW s \in Seq(Byte), NEW t \in Seq(Byte),
           From(str, i) = Glue(s, t)
    PROVE  At(str, i, s) /\ t = From(str, i + Len(s))
<1>1. PICK n \in Nat, m \in Nat : n = Len(str) /\ m = Len(s)
  OBVIOUS
<1>2. PICK all \in Seq(Byte) : all = From(str, i)
  BY FromType
<1>3. Len(all) = (n - i) + 1 /\ \A k \in 1 .. (n - i) + 1 : all[k] = str[i + (k - 1)]
  BY <1>1, <1>2, FromType
<1>4. /\ Len(s \o t) = Len(s) + Len(t)
      /\ \A k \in 1 .. Len(s) + Len(t) : (s \o t)[k] = IF k <= Len(s) THEN s[k] ELSE t[k - Len(s)]
  BY ConcatProperties
<1>5. all = s \o t
  BY <1>2 DEF Glue
<1>6. PICK p \in Nat : p = Len(t) /\ m + p = (n - i) + 1
  BY <1>1, <1>3, <1>4, <1>5
<1>7. ASSUME NEW k \in 1 .. m PROVE str[i + (k - 1)] = s[k]
  <2>1. k \in 1 .. (n - i) + 1 /\ k <= Len(s) /\ k \in 1 .. Len(s) + Len(t)
    BY <1>1, <1>6
  <2>2. all[k] = s[k]
    BY <1>4, <1>5, <2>1
  <2>. QED
    BY <1>3, <2>1, <2>2
<1>8. At(str, i, s)
  BY <1>1, <1>6, <1>7 DEF At
<1>9. Glue(s, t) = Glue(s, From(str, i + Len(s)))
  BY <1>8, FromSplit
<1>10. From(str, i + Len(s)) \in Seq(Byte)
  BY <1>1, <1>6, FromType
<1>. QED
  BY <1>8, <1>9, <1>10, ConcatSimplifications DEF Glue

LEMMA EncodeType ==
    ASSUME NEW code \in Code
    PROVE  Encode(code) \in Seq(Byte) /\ Len(Encode(code)) \in 1 .. 4
BY EncodeSpells, SpellsLength

LEMMA EncodeAllType ==
    ASSUME NEW codes \in Seq(Code)
    PROVE  EncodeAll(codes) \in Seq(Seq(Byte)) /\ Len(EncodeAll(codes)) = Len(codes)
<1>1. \A k \in 1 .. Len(codes) : Encode(codes[k]) \in Seq(Byte)
  <2>1. \A k \in 1 .. Len(codes) : codes[k] \in Code
    OBVIOUS
  <2>. QED
    BY <2>1, EncodeType
<1>2. EncodeAll(codes) = [k \in 1 .. Len(codes) |-> Encode(codes[k])]
  BY DEF EncodeAll
<1>. QED
  BY <1>1, <1>2

LEMMA SpelledType ==
    ASSUME NEW codes \in Seq(Code)
    PROVE  Spelled(codes) \in Seq(Byte)
BY EncodeAllType, FlattenType DEF Spelled

LEMMA SpelledGlue ==
    ASSUME NEW codes \in Seq(Code), NEW more \in Seq(Code)
    PROVE  Spelled(codes \o more) = Glue(Spelled(codes), Spelled(more))
<1>1. PICK ss \in Seq(Seq(Byte)), tt \in Seq(Seq(Byte)) :
            ss = EncodeAll(codes) /\ tt = EncodeAll(more) /\ Len(ss) = Len(codes) /\ Len(tt) = Len(more)
  BY EncodeAllType
<1>2. PICK both \in Seq(Code) : both = codes \o more
  BY ConcatProperties
<1>3. /\ Len(both) = Len(codes) + Len(more)
      /\ \A k \in 1 .. Len(codes) + Len(more) :
            both[k] = IF k <= Len(codes) THEN codes[k] ELSE more[k - Len(codes)]
  BY <1>2, ConcatProperties
<1>4. /\ ss \o tt \in Seq(Seq(Byte)) /\ Len(ss \o tt) = Len(ss) + Len(tt)
      /\ \A k \in 1 .. Len(ss) + Len(tt) :
            (ss \o tt)[k] = IF k <= Len(ss) THEN ss[k] ELSE tt[k - Len(ss)]
  BY ConcatProperties
<1>5. EncodeAll(both) \in Seq(Seq(Byte)) /\ Len(EncodeAll(both)) = Len(ss \o tt)
  BY <1>1, <1>3, <1>4, EncodeAllType
<1>6. ASSUME NEW k \in 1 .. Len(ss \o tt) PROVE EncodeAll(both)[k] = (ss \o tt)[k]
  <2>1. EncodeAll(both)[k] = Encode(both[k])
    BY <1>1, <1>3, <1>4 DEF EncodeAll
  <2>2. CASE k <= Len(codes)
    <3>1. both[k] = codes[k] /\ (ss \o tt)[k] = ss[k] /\ ss[k] = Encode(codes[k])
      BY <1>1, <1>3, <1>4, <2>2 DEF EncodeAll
    <3>. QED
      BY <2>1, <3>1
  <2>3. CASE ~(k <= Len(codes))
    <3>1. PICK j \in 1 .. Len(more) : j = k - Len(codes)
      <4>1. Len(codes) \in Nat /\ Len(more) \in Nat /\ k \in 1 .. Len(codes) + Len(more)
        BY <1>1, <1>4
      <4>2. k - Len(codes) \in 1 .. Len(more)
        BY <4>1, <2>3
      <4>. QED
        BY <4>2
    <3>2. both[k] = more[j]
      BY <1>1, <1>3, <1>4, <2>3, <3>1
    <3>3. (ss \o tt)[k] = tt[j]
      BY <1>1, <1>3, <1>4, <2>3, <3>1
    <3>4. tt[j] = Encode(more[j])
      BY <1>1, <1>3, <1>4, <3>1 DEF EncodeAll
    <3>. QED
      BY <2>1, <3>2, <3>3, <3>4
  <2>. QED
    BY <2>2, <2>3
<1>7. EncodeAll(both) = ss \o tt
  BY <1>4, <1>5, <1>6, SeqEqual
<1>. QED
  BY <1>1, <1>2, <1>7, FlattenGlue DEF Spelled

LEMMA SpelledNone ==
    Spelled(<<>>) = <<>>
<1>1. <<>> \in Seq(Code) /\ <<>> \o <<>> = <<>>
  OBVIOUS
<1>2. PICK s \in Seq(Byte) : s = Spelled(<<>>)
  BY <1>1, SpelledType
<1>3. s = s \o s
  BY <1>1, <1>2, SpelledGlue DEF Glue
<1>. QED
  BY <1>2, <1>3, ConcatEqualIffEmpty

LEMMA SpelledOne ==
    ASSUME NEW code \in Code
    PROVE  Spelled(<<code>>) = Encode(code)
<1>1. EncodeAll(<<code>>) = <<Encode(code)>>
  BY DEF EncodeAll
<1>. QED
  BY <1>1, EncodeType, FlattenOne DEF Spelled

LEMMA SpelledFirst ==
    ASSUME NEW code \in Code, NEW codes \in Seq(Code)
    PROVE  Spelled(<<code>> \o codes) = Glue(Encode(code), Spelled(codes))
<1>1. <<code>> \in Seq(Code)
  OBVIOUS
<1>. QED
  BY <1>1, SpelledGlue, SpelledOne

-----------------------------------------------------------------------------
(* Whatever the bytes are, the loops make a text that spells codes.        *)

Text == [length : Nat, bytes : Nat, data : Seq(Byte), replacement_num : Nat]
Writes(codes, text) ==
    codes \in Seq(Code) /\ text.data = Spelled(codes) /\ text.length = Len(codes)
        /\ text.bytes = Len(text.data)
ValidText(text) == text \in Text /\ \E codes : Writes(codes, text)

(* What both loops know of the text from place i on.                       *)
Made(str, i, count, copy) ==
    /\ count \in Count /\ copy \in Copy
    /\ \E codes \in Seq(Code) : copy.data = Spelled(codes) /\ count.length = Len(codes)
    /\ count.bytes = Len(copy.data)
    /\ copy.replacement_num = 0 => copy.data = From(str, i)

LEMMA PieceAt ==
    ASSUME NEW str \in Seq(Byte), NEW i \in 1 .. Len(str), GetCode(str, i) # NoCode
    PROVE  At(str, i, Piece(str, i)) /\ Next8(str, i) = i + Len(Piece(str, i))
<1>1. PICK got : got = GetCode(str, i) /\ got # NoCode
  OBVIOUS
<1>2. PICK s : Spells(got.code, s) /\ At(str, i, s) /\ got.bytes = Len(s)
  BY <1>1, GetGives
<1>3. s \in Seq(Byte)
  BY <1>2, SpellsLength
<1>4. SubSeq(str, i, i + Len(s) - 1) = s
  BY <1>2, <1>3, AtPiece
<1>5. Piece(str, i) = s
  BY <1>1, <1>2, <1>4 DEF Piece
<1>. QED
  BY <1>1, <1>2, <1>5 DEF Next8, Step

LEMMA MadeEnd ==
    ASSUME NEW str \in Seq(Byte)
    PROVE  Made(str, Len(str) + 1, [length |-> 0, bytes |-> 0], [data |-> <<>>, replacement_num |-> 0])
<1>1. <<>> \in Seq(Code) /\ <<>> \in Seq(Byte) /\ Len(<<>>) = 0
  OBVIOUS
<1>. QED
  BY <1>1, SpelledNone, FromFirst DEF Made, Count, Copy

LEMMA MadeOne ==
    ASSUME NEW str \in Seq(Byte), NEW i \in 1 .. Len(str), NEW count, NEW copy,
           Made(str, Next8(str, i), count, copy)
    PROVE  Made(str, i, CountOne(GetCode(str, i), count), CopyOne(str, i, copy))
<1>1. PICK codes \in Seq(Code) : copy.data = Spelled(codes) /\ count.length = Len(codes)
  BY DEF Made
<1>2. PICK code, piece : code = CodeAt(str, i) /\ piece = Piece(str, i)
  OBVIOUS
<1>3. /\ code \in Code /\ piece = Encode(code) /\ piece \in Seq(Byte)
      /\ Len(piece) = IF GetCode(str, i) = NoCode THEN 3 ELSE GetCode(str, i).bytes
  BY <1>2, PieceSpells, SpellsEncode, SpellsLength
<1>4. /\ count.length \in Nat /\ count.bytes \in Nat /\ copy.data \in Seq(Byte)
      /\ copy.replacement_num \in Nat /\ copy \in Copy
  BY DEF Made, Count, Copy
<1>5. PICK data \in Seq(Byte) : data = Glue(piece, copy.data) /\ Len(data) = Len(piece) + Len(copy.data)
  BY <1>3, <1>4, GlueType
<1>6. PICK all \in Seq(Code) : all = <<code>> \o codes /\ Len(all) = 1 + Len(codes)
  <2>1. <<code>> \in Seq(Code) /\ Len(<<code>>) = 1
    BY <1>3
  <2>. QED
    BY <2>1, ConcatProperties, ZenonT(60)
<1>7. data = Spelled(all)
  BY <1>1, <1>3, <1>5, <1>6, SpelledFirst
<1>8. CountOne(GetCode(str, i), count) = [length |-> Len(all), bytes |-> Len(data)]
  <2>1. count.length = Len(codes) /\ count.bytes = Len(copy.data)
    BY <1>1 DEF Made
  <2>2. (IF GetCode(str, i) = NoCode THEN 3 ELSE GetCode(str, i).bytes) + count.bytes = Len(data)
    BY <1>3, <1>5, <2>1
  <2>3. 1 + count.length = Len(all)
    BY <1>6, <2>1
  <2>. QED
    BY <2>2, <2>3 DEF CountOne
<1>9. PICK num \in Nat :
        /\ num = (IF GetCode(str, i) = NoCode THEN 1 ELSE 0) + copy.replacement_num
        /\ CopyOne(str, i, copy) = [data |-> data, replacement_num |-> num]
  <2>1. (IF GetCode(str, i) = NoCode THEN 1 ELSE 0) + copy.replacement_num \in Nat
    BY <1>4
  <2>. QED
    BY <1>2, <1>4, <1>5, <2>1, CopyOneIs
<1>10. num = 0 => data = From(str, i)
  <2>. SUFFICES ASSUME num = 0 PROVE data = From(str, i)
    OBVIOUS
  <2>1. GetCode(str, i) # NoCode /\ copy.replacement_num = 0
    BY <1>4, <1>9
  <2>2. At(str, i, piece) /\ Next8(str, i) = i + Len(piece)
    BY <1>2, <2>1, PieceAt
  <2>3. copy.data = From(str, i + Len(piece))
    BY <2>1, <2>2 DEF Made
  <2>4. i \in 1 .. Len(str) + 1
    OBVIOUS
  <2>5. From(str, i) = Glue(piece, From(str, i + Len(piece)))
    BY <1>3, <2>2, <2>4, FromSplit
  <2>. QED
    BY <1>5, <2>3, <2>5
<1>11. [length |-> Len(all), bytes |-> Len(data)] \in Count /\ [data |-> data, replacement_num |-> num] \in Copy
  BY DEF Count, Copy
<1>. QED
  BY <1>7, <1>8, <1>9, <1>10, <1>11 DEF Made

LEMMA CreateSpells ==
    ASSUME NEW str \in Seq(Byte)
    PROVE  ValidText(Create(str)) /\ (Create(str).replacement_num = 0 => Create(str).data = str)
<1>1. PICK n \in Nat : n = Len(str)
  OBVIOUS
<1>2. PICK counts : 
            /\ Counted(str) = counts[1] /\ counts[n + 1] = [length |-> 0, bytes |-> 0]
            /\ \A i \in 1 .. n : counts[i] = CountOne(GetCode(str, i), counts[Next8(str, i)])
  BY <1>1, CountedDef
<1>3. PICK copies :
            /\ Copied(str) = copies[1] /\ copies[n + 1] = [data |-> <<>>, replacement_num |-> 0]
            /\ \A i \in 1 .. n : copies[i] = CopyOne(str, i, copies[Next8(str, i)])
  BY <1>1, CopiedDef
<1>. DEFINE S == {i \in 1 .. n + 1 : Made(str, i, counts[i], copies[i])}
<1>4. n + 1 \in S
  BY <1>1, <1>2, <1>3, MadeEnd
<1>5. ASSUME NEW i \in 1 .. n, \A j \in i + 1 .. n + 1 : j \in S PROVE i \in S
  <2>1. Next8(str, i) \in S
    <3>1. Next8(str, i) \in i + 1 .. n + 1
      BY <1>1, NextType
    <3>. HIDE DEF S
    <3>. QED
      BY <1>5, <3>1
  <2>2. Made(str, i, CountOne(GetCode(str, i), counts[Next8(str, i)]), CopyOne(str, i, copies[Next8(str, i)]))
    BY <1>1, <2>1, MadeOne
  <2>. QED
    BY <1>2, <1>3, <2>2
<1>6. 1 \in S
  <2>. HIDE DEF S
  <2>1. 1 .. n + 1 \subseteq S
    BY <1>4, <1>5, DownInduction
  <2>. QED
    BY <2>1
<1>7. Made(str, 1, Counted(str), Copied(str))
  BY <1>2, <1>3, <1>6
<1>8. PICK count \in Count, copy \in Copy :
        count = Counted(str) /\ copy = Copied(str) /\ Made(str, 1, count, copy)
  BY <1>7 DEF Made
<1>9. PICK text : text = Create(str)
  OBVIOUS
<1>10. text = [length |-> count.length, bytes |-> count.bytes, data |-> copy.data,
              replacement_num |-> copy.replacement_num]
  BY <1>8, <1>9 DEF Create
<1>11. text \in Text
  BY <1>10 DEF Text, Count, Copy
<1>12. /\ \E codes : Writes(codes, text)
       /\ text.replacement_num = 0 => text.data = From(str, 1)
  BY <1>8, <1>10 DEF Made, Writes
<1>. QED
  BY <1>9, <1>11, <1>12, FromFirst DEF ValidText

-----------------------------------------------------------------------------
(* They make the same text again of one that does, and read its codes.     *)

LEMMA FirstCode ==
    ASSUME NEW codes \in Seq(Code), codes # <<>>
    PROVE  \E code \in Code, rest \in Seq(Code) :
              /\ codes = <<code>> \o rest /\ Len(codes) = 1 + Len(rest)
              /\ Spelled(codes) = Glue(Encode(code), Spelled(rest))
<1>1. PICK code \in Code, rest \in Seq(Code) :
        code = Head(codes) /\ rest = Tail(codes) /\ Len(rest) = Len(codes) - 1
  BY HeadTailProperties
<1>2. codes = <<code>> \o rest
  BY <1>1
<1>3. Len(codes) = 1 + Len(rest)
  BY <1>1
<1>. QED
  BY <1>2, <1>3, SpelledFirst

LEMMA SpelledEmpty ==
    ASSUME NEW codes \in Seq(Code), Spelled(codes) = <<>>
    PROVE  codes = <<>>
<1>. SUFFICES ASSUME codes # <<>> PROVE FALSE
  OBVIOUS
<1>1. PICK code \in Code, rest \in Seq(Code) : Spelled(codes) = Glue(Encode(code), Spelled(rest))
  BY FirstCode
<1>2. PICK s \in Seq(Byte) : s = Encode(code) /\ Len(s) \in 1 .. 4
  BY EncodeType
<1>3. PICK t \in Seq(Byte) : t = Spelled(rest)
  BY SpelledType
<1>4. Len(Glue(s, t)) = Len(s) + Len(t) /\ Glue(s, t) = <<>>
  BY <1>1, <1>2, <1>3, GlueType
<1>5. PICK l \in 1 .. 4, m \in Nat : l = Len(s) /\ m = Len(t)
  BY <1>2
<1>6. Len(Glue(s, t)) = 0
  BY <1>4
<1>7. l + m = 0
  BY <1>4, <1>5, <1>6
<1>. QED
  BY <1>7

(* What the loops, and a client that reads, make of codes from place i on. *)
Remade(str, i, codes, count, copy, read) ==
    /\ count = [length |-> Len(codes), bytes |-> Len(From(str, i))]
    /\ copy = [data |-> From(str, i), replacement_num |-> 0]
    /\ read = codes

LEMMA RemadeEnd ==
    ASSUME NEW str \in Seq(Byte), NEW codes \in Seq(Code), From(str, Len(str) + 1) = Spelled(codes)
    PROVE  Remade(str, Len(str) + 1, codes, [length |-> 0, bytes |-> 0],
                  [data |-> <<>>, replacement_num |-> 0], <<>>)
<1>1. codes = <<>> /\ From(str, Len(str) + 1) = <<>>
  BY FromFirst, SpelledEmpty
<1>. QED
  BY <1>1 DEF Remade

LEMMA SpelledAt ==
    ASSUME NEW str \in Seq(Byte), NEW i \in 1 .. Len(str), NEW code \in Code, NEW rest \in Seq(Code),
           From(str, i) = Glue(Encode(code), Spelled(rest))
    PROVE  \E s \in Seq(Byte) :
              /\ s = Encode(code) /\ At(str, i, s) /\ Len(s) \in 1 .. 4
              /\ GetCode(str, i) = [code |-> code, bytes |-> Len(s)] /\ GetCode(str, i) # NoCode
              /\ Next8(str, i) = i + Len(s) /\ Spelled(rest) = From(str, i + Len(s))
<1>1. PICK s \in Seq(Byte) : s = Encode(code) /\ Spells(code, s) /\ Len(s) \in 1 .. 4
  BY EncodeSpells, EncodeType
<1>2. PICK t \in Seq(Byte) : t = Spelled(rest)
  BY SpelledType
<1>3. From(str, i) = Glue(s, t) /\ i \in 1 .. Len(str) + 1
  BY <1>1, <1>2
<1>4. At(str, i, s) /\ t = From(str, i + Len(s))
  BY <1>3, FromBegins
<1>5. GetCode(str, i) = [code |-> code, bytes |-> Len(s)]
  BY <1>1, <1>4, GetSpelled
<1>6. GetCode(str, i) # NoCode
  BY <1>1, <1>5 DEF NoCode
<1>7. Next8(str, i) = i + Len(s)
  BY <1>5, <1>6 DEF Next8, Step
<1>. QED
  BY <1>1, <1>2, <1>4, <1>5, <1>6, <1>7

LEMMA RemadeOne ==
    ASSUME NEW str \in Seq(Byte), NEW i \in 1 .. Len(str), NEW code \in Code, NEW rest \in Seq(Code),
           From(str, i) = Glue(Encode(code), Spelled(rest)), NEW count, NEW copy, NEW read,
           Remade(str, Next8(str, i), rest, count, copy, read)
    PROVE  Remade(str, i, <<code>> \o rest, CountOne(GetCode(str, i), count),
                  CopyOne(str, i, copy), ReadOne(str, i, read))
<1>1. PICK s \in Seq(Byte) :
        /\ s = Encode(code) /\ At(str, i, s) /\ Len(s) \in 1 .. 4
        /\ GetCode(str, i) = [code |-> code, bytes |-> Len(s)] /\ GetCode(str, i) # NoCode
        /\ Next8(str, i) = i + Len(s) /\ Spelled(rest) = From(str, i + Len(s))
  BY SpelledAt
<1>2. PICK next \in 1 .. Len(str) + 1 : next = i + Len(s) /\ next = Next8(str, i)
  BY <1>1, NextType
<1>3. PICK tail \in Seq(Byte) : tail = From(str, next)
  BY <1>2, FromType
<1>4. From(str, i) = Glue(s, tail) /\ Len(From(str, i)) = Len(s) + Len(tail)
  <2>1. From(str, i) = Glue(s, tail)
    BY <1>1, <1>2, <1>3
  <2>. QED
    BY <2>1, GlueType
<1>5. count = [length |-> Len(rest), bytes |-> Len(tail)] /\ read = rest
      /\ copy = [data |-> tail, replacement_num |-> 0]
  BY <1>2, <1>3 DEF Remade
<1>6. CountOne(GetCode(str, i), count) = [length |-> Len(<<code>> \o rest), bytes |-> Len(From(str, i))]
  <2>1. Len(<<code>> \o rest) = 1 + Len(rest)
    OBVIOUS
  <2>2. PICK got : got = GetCode(str, i) /\ got # NoCode /\ got.bytes = Len(s)
    BY <1>1, SMTT(30)
  <2>3. CountOne(got, count) = [length |-> 1 + Len(rest), bytes |-> Len(s) + Len(tail)]
    BY <1>5, <2>2 DEF CountOne
  <2>. QED
    BY <1>4, <2>1, <2>2, <2>3
<1>7. CopyOne(str, i, copy) = [data |-> From(str, i), replacement_num |-> 0]
  <2>1. Piece(str, i) = s
    <3>1. SubSeq(str, i, i + Len(s) - 1) = s
      BY <1>1, AtPiece
    <3>2. Piece(str, i) = SubSeq(str, i, i + GetCode(str, i).bytes - 1) /\ GetCode(str, i).bytes = Len(s)
      BY <1>1 DEF Piece
    <3>. QED
      BY <3>1, <3>2
  <2>2. copy \in Copy
    BY <1>5 DEF Copy
  <2>. QED
    BY <1>1, <1>4, <1>5, <2>1, <2>2, CopyOneIs
<1>8. ReadOne(str, i, read) = <<code>> \o rest
  BY <1>1, <1>5 DEF ReadOne
<1>. QED
  BY <1>6, <1>7, <1>8 DEF Remade

LEMMA SpelledRemade ==
    ASSUME NEW str \in Seq(Byte), NEW codes \in Seq(Code), str = Spelled(codes),
           NEW utf8, utf8.data = str, utf8.bytes = Len(str)
    PROVE  Remade(str, 1, codes, Counted(str), Copied(str), Codes(utf8))
<1>1. PICK n \in Nat : n = Len(str)
  OBVIOUS
<1>2. PICK counts : 
            /\ Counted(str) = counts[1] /\ counts[n + 1] = [length |-> 0, bytes |-> 0]
            /\ \A i \in 1 .. n : counts[i] = CountOne(GetCode(str, i), counts[Next8(str, i)])
  BY <1>1, CountedDef
<1>3. PICK copies :
            /\ Copied(str) = copies[1] /\ copies[n + 1] = [data |-> <<>>, replacement_num |-> 0]
            /\ \A i \in 1 .. n : copies[i] = CopyOne(str, i, copies[Next8(str, i)])
  BY <1>1, CopiedDef
<1>4. PICK reads :
            /\ Codes(utf8) = reads[1] /\ reads[n + 1] = <<>>
            /\ \A i \in 1 .. n : reads[i] = ReadOne(str, i, reads[Next8(str, i)])
  BY <1>1, CodesDef
<1>. DEFINE Good(i) == \A rest \in Seq(Code) :
                From(str, i) = Spelled(rest) => Remade(str, i, rest, counts[i], copies[i], reads[i])
            S == {i \in 1 .. n + 1 : Good(i)}
<1>5. n + 1 \in S
  BY <1>1, <1>2, <1>3, <1>4, RemadeEnd
<1>6. ASSUME NEW i \in 1 .. n, \A j \in i + 1 .. n + 1 : j \in S PROVE i \in S
  <2>1. Next8(str, i) \in S
    <3>1. Next8(str, i) \in i + 1 .. n + 1
      BY <1>1, NextType
    <3>. HIDE DEF S
    <3>. QED
      BY <1>6, <3>1
  <2>2. ASSUME NEW rest \in Seq(Code), From(str, i) = Spelled(rest)
        PROVE  Remade(str, i, rest, counts[i], copies[i], reads[i])
    <3>1. rest # <<>>
      <4>1. Len(From(str, i)) = (n - i) + 1
        BY <1>1, FromType
      <4>. QED
        BY <2>2, <4>1, SpelledNone
    <3>2. PICK code \in Code, more \in Seq(Code) :
              rest = <<code>> \o more /\ Spelled(rest) = Glue(Encode(code), Spelled(more))
      BY <3>1, FirstCode
    <3>3. From(str, Next8(str, i)) = Spelled(more)
      <4>1. From(str, i) = Glue(Encode(code), Spelled(more)) /\ i \in 1 .. Len(str)
        BY <1>1, <2>2, <3>2
      <4>. QED
        BY <4>1, SpelledAt
    <3>4. Remade(str, Next8(str, i), more, counts[Next8(str, i)], copies[Next8(str, i)], reads[Next8(str, i)])
      BY <2>1, <3>3
    <3>5. Remade(str, i, rest, CountOne(GetCode(str, i), counts[Next8(str, i)]),
                 CopyOne(str, i, copies[Next8(str, i)]), ReadOne(str, i, reads[Next8(str, i)]))
      BY <1>1, <2>2, <3>2, <3>4, RemadeOne
    <3>. QED
      BY <1>2, <1>3, <1>4, <3>5
  <2>. QED
    BY <2>2
<1>7. 1 \in S
  <2>. HIDE DEF S
  <2>1. 1 .. n + 1 \subseteq S
    BY <1>5, <1>6, DownInduction
  <2>. QED
    BY <2>1
<1>8. From(str, 1) = Spelled(codes)
  BY FromFirst
<1>. QED
  BY <1>2, <1>3, <1>4, <1>7, <1>8

LEMMA CreateAgain ==
    ASSUME NEW str \in Seq(Byte), NEW codes \in Seq(Code), str = Spelled(codes)
    PROVE  Create(str) = [length |-> Len(codes), bytes |-> Len(str), data |-> str, replacement_num |-> 0]
<1>1. PICK utf8 : utf8 = [data |-> str, bytes |-> Len(str)]
  OBVIOUS
<1>2. Remade(str, 1, codes, Counted(str), Copied(str), Codes(utf8))
  BY <1>1, SpelledRemade
<1>3. From(str, 1) = str
  BY FromFirst
<1>. QED
  BY <1>2, <1>3 DEF Remade, Create

LEMMA ValidEncodes ==
    ASSUME NEW text, ValidText(text)
    PROVE  Encodes(text)
<1>1. PICK codes : Writes(codes, text)
  BY DEF ValidText
<1>2. PICK str \in Seq(Byte) : str = text.data /\ text.bytes = Len(str) /\ str = Spelled(codes)
  BY <1>1 DEF ValidText, Text, Writes
<1>3. codes \in Seq(Code) /\ text.length = Len(codes)
  BY <1>1 DEF Writes
<1>4. Codes(text) = codes
  BY <1>2, <1>3, SpelledRemade DEF Remade
<1>5. \A k \in DOMAIN codes : IsCode(codes[k])
  <2>1. \A k \in DOMAIN codes : codes[k] \in Code
    BY <1>3
  <2>. QED
    BY <2>1 DEF Code
<1>6. text.data = FlattenSeq([k \in DOMAIN codes |-> Encode(codes[k])])
  BY <1>2 DEF Spelled, EncodeAll
<1>. QED
  BY <1>2, <1>3, <1>4, <1>5, <1>6, Zenon DEF Encodes

LEMMA ConcatSpells ==
    ASSUME NEW l, NEW r, ValidText(l), ValidText(r)
    PROVE  ValidText(Concat(l, r))
<1>1. PICK c, d : Writes(c, l) /\ Writes(d, r)
  BY DEF ValidText
<1>2. /\ l.length \in Nat /\ l.bytes \in Nat /\ l.data \in Seq(Byte) /\ l.replacement_num \in Nat
      /\ r.length \in Nat /\ r.bytes \in Nat /\ r.data \in Seq(Byte) /\ r.replacement_num \in Nat
  BY DEF ValidText, Text
<1>3. PICK data \in Seq(Byte) :
        data = l.data \o r.data /\ data = Glue(l.data, r.data) /\ Len(data) = Len(l.data) + Len(r.data)
  BY <1>2, GlueType DEF Glue
<1>4. PICK codes \in Seq(Code) : codes = c \o d /\ Len(codes) = Len(c) + Len(d)
  <2>1. c \in Seq(Code) /\ d \in Seq(Code)
    BY <1>1 DEF Writes
  <2>. QED
    BY <2>1, ConcatProperties
<1>5. PICK text : text = Concat(l, r)
  OBVIOUS
<1>6. text = [length |-> l.length + r.length, bytes |-> l.bytes + r.bytes, data |-> data,
              replacement_num |-> l.replacement_num + r.replacement_num]
  BY <1>3, <1>5 DEF Concat
<1>7. text \in Text
  BY <1>2, <1>6, SMTT(30) DEF Text
<1>8. data = Spelled(codes)
  BY <1>1, <1>3, <1>4, SpelledGlue DEF Writes
<1>9. Writes(codes, text)
  BY <1>1, <1>3, <1>4, <1>6, <1>8 DEF Writes
<1>. QED
  BY <1>5, <1>7, <1>9 DEF ValidText

-----------------------------------------------------------------------------
Pairs == [left : Seq(Byte), right : Seq(Byte)]

LEMMA Untouched ==
    ASSUME NEW str \in Seq(Byte), NEW text, text = Create(str)
    PROVE  (text.replacement_num = 0) = (text.data = str)
<1>1. text.replacement_num = 0 => text.data = str
  BY CreateSpells
<1>2. ASSUME text.data = str PROVE text.replacement_num = 0
  <2>1. ValidText(text)
    BY CreateSpells
  <2>2. PICK codes : Writes(codes, text)
    BY <2>1 DEF ValidText
  <2>3. codes \in Seq(Code) /\ str = Spelled(codes)
    BY <1>2, <2>2 DEF Writes
  <2>4. text = [length |-> Len(codes), bytes |-> Len(str), data |-> str, replacement_num |-> 0]
    BY <2>3, CreateAgain
  <2>. QED
    BY <2>4
<1>. QED
  BY <1>1, <1>2

LEMMA Again ==
    ASSUME NEW text, ValidText(text)
    PROVE  Create(text.data) = [text EXCEPT !.replacement_num = 0]
<1>1. PICK codes : Writes(codes, text)
  BY DEF ValidText
<1>2. PICK str \in Seq(Byte) : str = text.data
  BY DEF ValidText, Text
<1>3. codes \in Seq(Code) /\ str = Spelled(codes) /\ text.length = Len(codes) /\ text.bytes = Len(str)
  BY <1>1, <1>2 DEF Writes
<1>4. Create(str) = [length |-> Len(codes), bytes |-> Len(str), data |-> str, replacement_num |-> 0]
  BY <1>3, CreateAgain
<1>5. text = [length |-> text.length, bytes |-> text.bytes, data |-> text.data,
              replacement_num |-> text.replacement_num]
  BY DEF ValidText, Text
<1>6. [text EXCEPT !.replacement_num = 0] =
        [length |-> text.length, bytes |-> text.bytes, data |-> text.data, replacement_num |-> 0]
  BY <1>5
<1>. QED
  BY <1>2, <1>3, <1>4, <1>6

AsUtf8(in, out) ==
    /\ Encodes(out.left) /\ Encodes(out.both)
    /\ out.again = [out.both EXCEPT !.replacement_num = 0]
    /\ (out.left.replacement_num = 0) = (out.left.data = in.left)

LEMMA DecodedAsUtf8 ==
    ASSUME NEW in \in Pairs
    PROVE  AsUtf8(in, Decode(in))
<1>1. PICK left, right : left = Create(in.left) /\ right = Create(in.right)
  OBVIOUS
<1>2. in.left \in Seq(Byte) /\ in.right \in Seq(Byte)
  BY DEF Pairs
<1>3. ValidText(left) /\ ValidText(right)
  BY <1>1, <1>2, CreateSpells
<1>4. PICK both : both = Concat(left, right)
  OBVIOUS
<1>5. ValidText(both)
  BY <1>3, <1>4, ConcatSpells
<1>6. Decode(in) = [left |-> left, both |-> both, again |-> Create(both.data)]
  BY <1>1, <1>4 DEF Decode
<1>7. Encodes(left) /\ Encodes(both)
  BY <1>3, <1>5, ValidEncodes
<1>8. Create(both.data) = [both EXCEPT !.replacement_num = 0]
  BY <1>5, Again
<1>9. (left.replacement_num = 0) = (left.data = in.left)
  BY <1>1, <1>2, Untouched
<1>10. PICK out : out = Decode(in)
  OBVIOUS
<1>11. out.left = left /\ out.both = both /\ out.again = Create(both.data)
  BY <1>6, <1>10
<1>. QED
  BY <1>7, <1>8, <1>9, <1>10, <1>11 DEF AsUtf8

(* A text that has been decoded is as it should be.                        *)
TextInv ==
    call = "utf8" /\ input \in Pairs /\ (done => AsUtf8(input, output))

(* What is made of any bytes is UTF-8 of the shortest form, without        *)
(* surrogates, and of the length it says; valid text is not touched, and a *)
(* text made of valid ones is valid: utf8_create(), utf8_concat() and      *)
(* utf8_get() agree for every sequence of bytes.                           *)
THEOREM TextsAlwaysUtf8 == TextSpec => []TextsAreUtf8
<1>1. Starts("utf8", [left : Seq(Byte), right : Seq(Byte)]) => TextInv
  BY DEF Starts, TextInv, Pairs
<1>2. TextInv /\ [Decodes]_benchVars => TextInv'
  <2>. SUFFICES ASSUME TextInv, [Decodes]_benchVars PROVE TextInv'
    OBVIOUS
  <2>1. CASE Decodes
    <3>1. AsUtf8(input, Decode(input))
      BY DecodedAsUtf8 DEF TextInv
    <3>. QED
      BY <2>1, <3>1 DEF Decodes, Calls, TextInv
  <2>2. CASE UNCHANGED benchVars
    BY <2>2 DEF benchVars, TextInv
  <2>. QED
    BY <2>1, <2>2
<1>3. TextInv => TextsAreUtf8
  BY DEF TextInv, TextsAreUtf8, AsUtf8
<1>. QED
  BY <1>1, <1>2, <1>3, PTL DEF TextSpec

-----------------------------------------------------------------------------
(* Packing bits.                                                           *)

(* Induction up to a bound.                                                *)
LEMMA UpTo ==
    ASSUME NEW n \in Nat, NEW S, 0 \in S, \A k \in 1 .. n : k - 1 \in S => k \in S
    PROVE  \A k \in 0 .. n : k \in S
<1>. DEFINE M == {m \in Nat : m <= n => m \in S}
<1>1. 0 \in M
  OBVIOUS
<1>2. ASSUME NEW m \in Nat, m \in M PROVE m + 1 \in M
  <2>1. m + 1 <= n => m + 1 \in 1 .. n /\ m + 1 - 1 = m
    OBVIOUS
  <2>. QED
    BY <1>2, <2>1
<1>3. Nat \subseteq M
  <2>. HIDE DEF M
  <2>. QED
    BY <1>1, <1>2, SetInduction
<1>. QED
  BY <1>3

LEMMA UpToEnd ==
    ASSUME NEW n \in Nat, NEW S, 0 \in S, \A k \in 1 .. n : k - 1 \in S => k \in S
    PROVE  n \in S
<1>1. n \in 0 .. n
  OBVIOUS
<1>. QED
  BY <1>1, UpTo

(* What every turn keeps, all turns of a loop have.                        *)
LEMMA TypedTurns ==
    ASSUME NEW n \in Nat, NEW S, NEW f, f[0] \in S, \A k \in 1 .. n : f[k - 1] \in S => f[k] \in S
    PROVE  \A k \in 0 .. n : f[k] \in S
<1>. DEFINE M == {k \in 0 .. n : f[k] \in S}
<1>1. 0 \in M
  OBVIOUS
<1>2. \A k \in 1 .. n : k - 1 \in M => k \in M
  OBVIOUS
<1>3. \A k \in 0 .. n : k \in M
  <2>. HIDE DEF M
  <2>. QED
    BY <1>1, <1>2, UpTo
<1>. QED
  BY <1>3

(* A buffer of bytes and the packer on it.                                 *)
Byte8 == [0 .. 7 -> BOOLEAN]
Buffer(room) == [0 .. room - 1 -> Byte8]
Store(room) == [size : {room}, buf : Buffer(room), bit_i : Nat, died : BOOLEAN]

LEMMA WordTypes ==
    ASSUME NEW v \in Bits32, NEW w \in Bits32, NEW n \in Nat
    PROVE  /\ Shl(w, n) \in Bits32 /\ Shr(w, n) \in Bits32
           /\ Or(v, w) \in Bits32 /\ Low(w, n) \in Bits32
BY DEF Shl, Shr, Or, Low, Bits32

(* A turn takes a bit at least and no more than its byte has left.         *)
LEMMA AvailBounds ==
    ASSUME NEW room \in Nat, NEW packer \in Store(room), NEW bits \in Nat
    PROVE  LET shift == packer.bit_i % 8
               avail == Avail(packer, bits)
           IN  /\ shift \in 0 .. 7 /\ avail \in Nat /\ avail <= bits /\ shift + avail <= 8
               /\ bits # 0 => avail # 0
               /\ avail = bits \/ shift + avail = 8
<1>1. packer.bit_i \in Nat
  BY DEF Store
<1>2. PICK at \in Nat : at = packer.bit_i
  BY <1>1
<1>. QED
  BY <1>2 DEF Avail

LEMMA SkipType ==
    ASSUME NEW room \in Nat, NEW packer \in Store(room), NEW bits \in Nat
    PROVE  Skip(packer, bits) \in Store(room)
BY DEF Skip, Store

LEMMA PackedByteType ==
    ASSUME NEW byte, NEW shift, NEW w, NEW avail
    PROVE  PackedByte(byte, shift, w, avail) \in Byte8
BY DEF PackedByte, Byte8

LEMMA PackByteType ==
    ASSUME NEW room \in Nat, NEW packer \in Store(room), NEW w \in Bits32, NEW avail \in Nat
    PROVE  PackByte(packer, w, avail) \in Store(room)
<1>1. PICK ofs : ofs = packer.bit_i \div 8
  OBVIOUS
<1>2. PICK byte \in Byte8 : byte = PackedByte(packer.buf[ofs], packer.bit_i % 8, w, avail)
  BY PackedByteType
<1>3. PICK buf \in Buffer(room) : buf = [packer.buf EXCEPT ![ofs] = byte]
  BY DEF Store, Buffer
<1>. HIDE DEF Buffer
<1>4. PICK q : q = [packer EXCEPT !.buf = buf]
  OBVIOUS
<1>5. q \in Store(room)
  BY <1>4 DEF Store
<1>6. PackByte(packer, w, avail) = Skip(q, avail)
  BY <1>1, <1>2, <1>3, <1>4 DEF PackByte, Store
<1>. QED
  BY <1>5, <1>6, SkipType

(* What one turn of the loop of bitpack_uint32() works on.                 *)
Packing(room) == [packer : Store(room), w : Bits32, bits : Nat]

LEMMA PackTurnType ==
    ASSUME NEW room \in Nat, NEW before \in Packing(room)
    PROVE  PackTurn(before) \in Packing(room)
<1>1. PICK avail \in Nat : avail = Avail(before.packer, before.bits) /\ before.bits - avail \in Nat
  BY AvailBounds DEF Packing
<1>2. before.packer \in Store(room) /\ before.w \in Bits32
  BY DEF Packing
<1>3. PackByte(before.packer, before.w, avail) \in Store(room) /\ Shr(before.w, avail) \in Bits32
  BY <1>1, <1>2, PackByteType, WordTypes
<1>. QED
  BY <1>1, <1>3 DEF PackTurn, Packing

(* What one turn of the loop of bitunpack_uint32() works on.               *)
Unpacking(room) == [packer : Store(room), value : Bits32, i : Nat, bits : Nat]

LEMMA UnpackTurnType ==
    ASSUME NEW room \in Nat, NEW before \in Unpacking(room)
    PROVE  UnpackTurn(before) \in Unpacking(room)
<1>1. PICK avail \in Nat : avail = Avail(before.packer, before.bits) /\ before.bits - avail \in Nat
  BY AvailBounds DEF Unpacking
<1>2. before.packer \in Store(room) /\ before.value \in Bits32 /\ before.i \in Nat
  BY DEF Unpacking
<1>3. UnpackedByte(before.packer, avail) \in Bits32
  BY DEF UnpackedByte, Bits32
<1>4. Or(before.value, Shl(UnpackedByte(before.packer, avail), before.i)) \in Bits32
  BY <1>2, <1>3, WordTypes
<1>. QED
  BY <1>1, <1>2, <1>4, SkipType DEF UnpackTurn, Unpacking

LEMMA HalfType == \A n \in Int : Bits(n) \in Bits32
BY DEF Bits, Bits32

LEMMA ZeroType == Zero \in Bits32
BY HalfType DEF Zero

(* A recursive function is what its equation says, turn by turn.           *)
LEMMA HalvesDef ==
    ASSUME NEW x \in Int
    PROVE  \E f : /\ Bits(x) = [k \in Word |-> f[k - 1] % 2 = 1] /\ f[0] = x
                  /\ \A k \in 1 .. 31 : f[k] = f[k - 1] \div 2
                  /\ \A k \in 0 .. 31 : f[k] \in Int
<1>. DEFINE Turn(before, k) == before \div 2
            F(t) == [k \in 0 .. 31 |-> IF k = 0 THEN x ELSE Turn(t[k - 1], k)]
            f == CHOOSE t : t = F(t)
<1>1. Bits(x) = [k \in Word |-> f[k - 1] % 2 = 1]
  BY DEF Bits
<1>2. PICK top \in Nat : top = 31
  OBVIOUS
<1>3. PICK S : S = Int
  OBVIOUS
<1>4. PICK start \in S : start = x
  BY <1>3
<1>5. \A before \in S, k \in 1 .. top : Turn(before, k) \in S
  BY <1>3
<1>. HIDE DEF Turn
<1>6. PICK g : g = [k \in 1 .. top |-> [before \in S |-> Turn(before, k)]]
  OBVIOUS
<1>7. g \in Turns(top, S)
  BY <1>5, <1>6 DEF Turns
<1>8. PICK t : Goes(top, S, start, g, t)
  BY <1>7, ForwardExists
<1>9. t \in [0 .. top -> S] /\ t[0] = start /\ \A k \in 1 .. top : t[k] = g[k][t[k - 1]]
  BY <1>8 DEF Goes
<1>10. t = F(t)
  <2>1. \A k \in 1 .. top : t[k - 1] \in S
    BY <1>9
  <2>2. \A k \in 1 .. top : t[k] = Turn(t[k - 1], k)
    BY <1>6, <1>9, <2>1
  <2>3. \A k \in 0 .. top : t[k] = IF k = 0 THEN start ELSE Turn(t[k - 1], k)
    BY <1>9, <2>2
  <2>4. t = [k \in 0 .. top |-> t[k]]
    BY <1>9
  <2>. QED
    BY <1>2, <1>4, <2>3, <2>4
<1>11. f = F(f)
  BY <1>10, Zenon
<1>. HIDE DEF f
<1>12. PICK z : z = f /\ z = F(z)
  BY <1>11
<1>13. z = [k \in 0 .. top |-> IF k = 0 THEN start ELSE Turn(z[k - 1], k)]
  BY <1>2, <1>4, <1>12, Zenon
<1>. HIDE DEF F
<1>14. z[0] = start /\ \A k \in 1 .. top : z[k] = Turn(z[k - 1], k)
  BY <1>13
<1>15. \A k \in 0 .. top : z[k] \in S
  BY <1>5, <1>14, TypedTurns
<1>16. /\ z[0] = x /\ \A k \in 1 .. 31 : z[k] = Turn(z[k - 1], k)
       /\ \A k \in 0 .. 31 : z[k] \in Int
  BY <1>2, <1>3, <1>4, <1>14, <1>15
<1>17. \A k \in 1 .. 31 : z[k] = z[k - 1] \div 2
  BY <1>16 DEF Turn
<1>18. Bits(x) = [k \in Word |-> z[k - 1] % 2 = 1]
  BY <1>1, <1>12
<1>. QED
  BY <1>16, <1>17, <1>18

LEMMA ValueDef ==
    ASSUME NEW w \in Bits32, NEW e \in Nat
    PROVE  \E f : /\ ValueOf(w, e) = f[e] /\ f[0] = 0
                  /\ \A k \in 1 .. e : f[k] = 2 * f[k - 1] + (IF w[e + 1 - k] THEN 1 ELSE 0)
                  /\ \A k \in 0 .. e : f[k] \in Nat
<1>. DEFINE Turn(before, k) == 2 * before + (IF w[e + 1 - k] THEN 1 ELSE 0)
            F(t) == [k \in 0 .. e |-> IF k = 0 THEN 0 ELSE Turn(t[k - 1], k)]
            f == CHOOSE t : t = F(t)
<1>1. ValueOf(w, e) = f[e]
  BY DEF ValueOf
<1>2. PICK top \in Nat : top = e
  OBVIOUS
<1>3. PICK S : S = Nat
  OBVIOUS
<1>4. PICK start \in S : start = 0
  BY <1>3
<1>5. \A before \in S, k \in 1 .. top : Turn(before, k) \in S
  BY <1>3
<1>. HIDE DEF Turn
<1>6. PICK g : g = [k \in 1 .. top |-> [before \in S |-> Turn(before, k)]]
  OBVIOUS
<1>7. g \in Turns(top, S)
  BY <1>5, <1>6 DEF Turns
<1>8. PICK t : Goes(top, S, start, g, t)
  BY <1>7, ForwardExists
<1>9. t \in [0 .. top -> S] /\ t[0] = start /\ \A k \in 1 .. top : t[k] = g[k][t[k - 1]]
  BY <1>8 DEF Goes
<1>10. t = F(t)
  <2>1. \A k \in 1 .. top : t[k - 1] \in S
    BY <1>9
  <2>2. \A k \in 1 .. top : t[k] = Turn(t[k - 1], k)
    BY <1>6, <1>9, <2>1
  <2>3. \A k \in 0 .. top : t[k] = IF k = 0 THEN start ELSE Turn(t[k - 1], k)
    BY <1>9, <2>2
  <2>4. t = [k \in 0 .. top |-> t[k]]
    BY <1>9
  <2>. QED
    BY <1>2, <1>4, <2>3, <2>4
<1>11. f = F(f)
  BY <1>10, Zenon
<1>. HIDE DEF f
<1>12. PICK z : z = f /\ z = F(z)
  BY <1>11
<1>13. z = [k \in 0 .. top |-> IF k = 0 THEN start ELSE Turn(z[k - 1], k)]
  BY <1>2, <1>4, <1>12, Zenon
<1>. HIDE DEF F
<1>14. z[0] = start /\ \A k \in 1 .. top : z[k] = Turn(z[k - 1], k)
  BY <1>13
<1>15. \A k \in 0 .. top : z[k] \in S
  BY <1>5, <1>14, TypedTurns
<1>16. /\ z[0] = 0 /\ \A k \in 1 .. e : z[k] = Turn(z[k - 1], k)
       /\ \A k \in 0 .. e : z[k] \in Nat
  BY <1>2, <1>3, <1>4, <1>14, <1>15
<1>17. \A k \in 1 .. e : z[k] = 2 * z[k - 1] + (IF w[e + 1 - k] THEN 1 ELSE 0)
  BY <1>16 DEF Turn
<1>18. ValueOf(w, e) = z[e]
  BY <1>1, <1>12
<1>. QED
  BY <1>16, <1>17, <1>18

LEMMA PowersDef ==
    ASSUME TRUE
    PROVE  \E f : /\ Pow2 = f /\ f[0] = 1
                  /\ \A k \in 1 .. 31 : f[k] = 2 * f[k - 1]
                  /\ \A k \in 0 .. 31 : f[k] \in Nat
<1>. DEFINE Turn(before, k) == 2 * before
            F(t) == [k \in 0 .. 31 |-> IF k = 0 THEN 1 ELSE Turn(t[k - 1], k)]
            f == CHOOSE t : t = F(t)
<1>1. Pow2 = f
  BY DEF Pow2
<1>2. PICK top \in Nat : top = 31
  OBVIOUS
<1>3. PICK S : S = Nat
  OBVIOUS
<1>4. PICK start \in S : start = 1
  BY <1>3
<1>5. \A before \in S, k \in 1 .. top : Turn(before, k) \in S
  BY <1>3
<1>. HIDE DEF Turn
<1>6. PICK g : g = [k \in 1 .. top |-> [before \in S |-> Turn(before, k)]]
  OBVIOUS
<1>7. g \in Turns(top, S)
  BY <1>5, <1>6 DEF Turns
<1>8. PICK t : Goes(top, S, start, g, t)
  BY <1>7, ForwardExists
<1>9. t \in [0 .. top -> S] /\ t[0] = start /\ \A k \in 1 .. top : t[k] = g[k][t[k - 1]]
  BY <1>8 DEF Goes
<1>10. t = F(t)
  <2>1. \A k \in 1 .. top : t[k - 1] \in S
    BY <1>9
  <2>2. \A k \in 1 .. top : t[k] = Turn(t[k - 1], k)
    BY <1>6, <1>9, <2>1
  <2>3. \A k \in 0 .. top : t[k] = IF k = 0 THEN start ELSE Turn(t[k - 1], k)
    BY <1>9, <2>2
  <2>4. t = [k \in 0 .. top |-> t[k]]
    BY <1>9
  <2>. QED
    BY <1>2, <1>4, <2>3, <2>4
<1>11. f = F(f)
  BY <1>10, Zenon
<1>. HIDE DEF f
<1>12. PICK z : z = f /\ z = F(z)
  BY <1>11
<1>13. z = [k \in 0 .. top |-> IF k = 0 THEN start ELSE Turn(z[k - 1], k)]
  BY <1>2, <1>4, <1>12, Zenon
<1>. HIDE DEF F
<1>14. z[0] = start /\ \A k \in 1 .. top : z[k] = Turn(z[k - 1], k)
  BY <1>13
<1>15. \A k \in 0 .. top : z[k] \in S
  BY <1>5, <1>14, TypedTurns
<1>16. /\ z[0] = 1 /\ \A k \in 1 .. 31 : z[k] = Turn(z[k - 1], k)
       /\ \A k \in 0 .. 31 : z[k] \in Nat
  BY <1>2, <1>3, <1>4, <1>14, <1>15
<1>17. \A k \in 1 .. 31 : z[k] = 2 * z[k - 1]
  BY <1>16 DEF Turn
<1>18. Pow2 = z
  BY <1>1, <1>12
<1>. QED
  BY <1>16, <1>17, <1>18

LEMMA PackBytesDef ==
    ASSUME NEW room \in Nat, NEW packer \in Store(room), NEW w \in Bits32, NEW bits \in Nat
    PROVE  \E f : /\ PackBytes(packer, w, bits) = f[bits].packer
                  /\ f[0] = [packer |-> packer, w |-> w, bits |-> bits]
                  /\ \A k \in 1 .. bits : f[k] = IF f[k - 1].bits = 0 THEN f[k - 1] ELSE PackTurn(f[k - 1])
                  /\ \A k \in 0 .. bits : f[k] \in Packing(room)
<1>. DEFINE Turn(before, k) == IF before.bits = 0 THEN before ELSE PackTurn(before)
            F(t) == [k \in 0 .. bits |->
                    IF k = 0 THEN [packer |-> packer, w |-> w, bits |-> bits]
                    ELSE Turn(t[k - 1], k)]
            f == CHOOSE t : t = F(t)
<1>1. PackBytes(packer, w, bits) = f[bits].packer
  BY DEF PackBytes
<1>2. PICK top \in Nat : top = bits
  OBVIOUS
<1>3. PICK S : S = Packing(room)
  OBVIOUS
<1>4. PICK start \in S : start = [packer |-> packer, w |-> w, bits |-> bits]
  BY <1>3 DEF Packing
<1>5. \A before \in S, k \in 1 .. top : Turn(before, k) \in S
  BY <1>3, PackTurnType
<1>. HIDE DEF Turn
<1>6. PICK g : g = [k \in 1 .. top |-> [before \in S |-> Turn(before, k)]]
  OBVIOUS
<1>7. g \in Turns(top, S)
  BY <1>5, <1>6 DEF Turns
<1>8. PICK t : Goes(top, S, start, g, t)
  BY <1>7, ForwardExists
<1>9. t \in [0 .. top -> S] /\ t[0] = start /\ \A k \in 1 .. top : t[k] = g[k][t[k - 1]]
  BY <1>8 DEF Goes
<1>10. t = F(t)
  <2>1. \A k \in 1 .. top : t[k - 1] \in S
    BY <1>9
  <2>2. \A k \in 1 .. top : t[k] = Turn(t[k - 1], k)
    BY <1>6, <1>9, <2>1
  <2>3. \A k \in 0 .. top : t[k] = IF k = 0 THEN start ELSE Turn(t[k - 1], k)
    BY <1>9, <2>2
  <2>4. t = [k \in 0 .. top |-> t[k]]
    BY <1>9
  <2>. QED
    BY <1>2, <1>4, <2>3, <2>4
<1>11. f = F(f)
  BY <1>10, Zenon
<1>. HIDE DEF f
<1>12. PICK z : z = f /\ z = F(z)
  BY <1>11
<1>13. z = [k \in 0 .. top |-> IF k = 0 THEN start ELSE Turn(z[k - 1], k)]
  BY <1>2, <1>4, <1>12, Zenon
<1>. HIDE DEF F
<1>14. z[0] = start /\ \A k \in 1 .. top : z[k] = Turn(z[k - 1], k)
  BY <1>13
<1>15. \A k \in 0 .. top : z[k] \in S
  BY <1>5, <1>14, TypedTurns
<1>16. /\ z[0] = [packer |-> packer, w |-> w, bits |-> bits]
       /\ \A k \in 1 .. bits : z[k] = Turn(z[k - 1], k)
       /\ \A k \in 0 .. bits : z[k] \in Packing(room)
  BY <1>2, <1>3, <1>4, <1>14, <1>15
<1>17. \A k \in 1 .. bits : z[k] = IF z[k - 1].bits = 0 THEN z[k - 1] ELSE PackTurn(z[k - 1])
  BY <1>16 DEF Turn
<1>18. PackBytes(packer, w, bits) = z[bits].packer
  BY <1>1, <1>12
<1>. QED
  BY <1>16, <1>17, <1>18

LEMMA UnpackBytesDef ==
    ASSUME NEW room \in Nat, NEW packer \in Store(room), NEW bits \in Nat
    PROVE  \E f : /\ UnpackBytes(packer, bits) = [packer |-> f[bits].packer, value |-> f[bits].value]
                  /\ f[0] = [packer |-> packer, value |-> Zero, i |-> 0, bits |-> bits]
                  /\ \A k \in 1 .. bits : f[k] = IF f[k - 1].bits = 0 THEN f[k - 1] ELSE UnpackTurn(f[k - 1])
                  /\ \A k \in 0 .. bits : f[k] \in Unpacking(room)
<1>. DEFINE Turn(before, k) == IF before.bits = 0 THEN before ELSE UnpackTurn(before)
            F(t) == [k \in 0 .. bits |->
                    IF k = 0 THEN [packer |-> packer, value |-> Zero, i |-> 0, bits |-> bits]
                    ELSE Turn(t[k - 1], k)]
            f == CHOOSE t : t = F(t)
<1>1. UnpackBytes(packer, bits) = [packer |-> f[bits].packer, value |-> f[bits].value]
  BY DEF UnpackBytes
<1>2. PICK top \in Nat : top = bits
  OBVIOUS
<1>3. PICK S : S = Unpacking(room)
  OBVIOUS
<1>4. PICK start \in S : start = [packer |-> packer, value |-> Zero, i |-> 0, bits |-> bits]
  BY <1>3, ZeroType DEF Unpacking
<1>5. \A before \in S, k \in 1 .. top : Turn(before, k) \in S
  BY <1>3, UnpackTurnType
<1>. HIDE DEF Turn
<1>6. PICK g : g = [k \in 1 .. top |-> [before \in S |-> Turn(before, k)]]
  OBVIOUS
<1>7. g \in Turns(top, S)
  BY <1>5, <1>6 DEF Turns
<1>8. PICK t : Goes(top, S, start, g, t)
  BY <1>7, ForwardExists
<1>9. t \in [0 .. top -> S] /\ t[0] = start /\ \A k \in 1 .. top : t[k] = g[k][t[k - 1]]
  BY <1>8 DEF Goes
<1>10. t = F(t)
  <2>1. \A k \in 1 .. top : t[k - 1] \in S
    BY <1>9
  <2>2. \A k \in 1 .. top : t[k] = Turn(t[k - 1], k)
    BY <1>6, <1>9, <2>1
  <2>3. \A k \in 0 .. top : t[k] = IF k = 0 THEN start ELSE Turn(t[k - 1], k)
    BY <1>9, <2>2
  <2>4. t = [k \in 0 .. top |-> t[k]]
    BY <1>9
  <2>. QED
    BY <1>2, <1>4, <2>3, <2>4
<1>11. f = F(f)
  BY <1>10, Zenon
<1>. HIDE DEF f
<1>12. PICK z : z = f /\ z = F(z)
  BY <1>11
<1>13. z = [k \in 0 .. top |-> IF k = 0 THEN start ELSE Turn(z[k - 1], k)]
  BY <1>2, <1>4, <1>12, Zenon
<1>. HIDE DEF F
<1>14. z[0] = start /\ \A k \in 1 .. top : z[k] = Turn(z[k - 1], k)
  BY <1>13
<1>15. \A k \in 0 .. top : z[k] \in S
  BY <1>5, <1>14, TypedTurns
<1>16. /\ z[0] = [packer |-> packer, value |-> Zero, i |-> 0, bits |-> bits]
       /\ \A k \in 1 .. bits : z[k] = Turn(z[k - 1], k)
       /\ \A k \in 0 .. bits : z[k] \in Unpacking(room)
  BY <1>2, <1>3, <1>4, <1>14, <1>15
<1>17. \A k \in 1 .. bits : z[k] = IF z[k - 1].bits = 0 THEN z[k - 1] ELSE UnpackTurn(z[k - 1])
  BY <1>16 DEF Turn
<1>18. UnpackBytes(packer, bits) = [packer |-> z[bits].packer, value |-> z[bits].value]
  BY <1>1, <1>12
<1>. QED
  BY <1>16, <1>17, <1>18

(* Bit j of the buffer.  What bitpack_uint32() keeps: the rest of the byte *)
(* that was begun is clean, whatever dirt lies behind it; bits before the  *)
(* cursor stay.                                                            *)
BitAt(packer, j) == packer.buf[j \div 8][j % 8]
Clean(packer) ==
    packer.bit_i % 8 # 0 =>
        \A k \in packer.bit_i % 8 .. 7 : ~packer.buf[packer.bit_i \div 8][k]
SameBefore(p, q, end) == \A j \in Nat : j < end => BitAt(q, j) = BitAt(p, j)
Grown(room, p, q, w, n) ==
    /\ q \in Store(room) /\ q.died = p.died /\ q.bit_i = p.bit_i + n
    /\ Clean(q) /\ SameBefore(p, q, p.bit_i)
    /\ \A k \in 1 .. n : BitAt(q, p.bit_i + k - 1) = w[k]

(* Where a bit lies.                                                       *)
LEMMA Division ==
    ASSUME NEW j \in Nat, NEW ofs \in Nat, NEW k \in 0 .. 7, j = 8 * ofs + k
    PROVE  j \div 8 = ofs /\ j % 8 = k
OBVIOUS

LEMMA Divided ==
    ASSUME NEW j \in Nat
    PROVE  j \div 8 \in Nat /\ j % 8 \in 0 .. 7 /\ j = 8 * (j \div 8) + (j % 8)
<1>1. j \div 8 \in Nat
  OBVIOUS
<1>2. j % 8 \in 0 .. 7
  OBVIOUS
<1>3. j = 8 * (j \div 8) + (j % 8)
  OBVIOUS
<1>. QED
  BY <1>1, <1>2, <1>3

LEMMA StoreBits ==
    ASSUME NEW room \in Nat, NEW packer \in Store(room), NEW j \in Nat, j < 8 * room
    PROVE  BitAt(packer, j) \in BOOLEAN
<1>1. j \div 8 \in 0 .. room - 1 /\ j % 8 \in 0 .. 7
  OBVIOUS
<1>. QED
  BY <1>1 DEF Store, Buffer, Byte8, BitAt

ByteWritten(room, packer, q, ofs, shift, w, avail) ==
    /\ q.died = packer.died /\ q.bit_i = packer.bit_i + avail
    /\ \A o \in 0 .. room - 1 : o # ofs => q.buf[o] = packer.buf[o]
    /\ \A k \in 0 .. 7 : q.buf[ofs][k] = ((shift # 0 /\ packer.buf[ofs][k])
                                   \/ (k \in shift .. shift + avail - 1 /\ w[k - shift + 1]))

LEMMA PackByteFields ==
    ASSUME NEW room \in Nat, NEW packer \in Store(room), NEW w, NEW avail \in Nat,
           NEW ofs \in 0 .. room - 1, ofs = packer.bit_i \div 8,
           NEW shift \in 0 .. 7, shift = packer.bit_i % 8, NEW q, q = PackByte(packer, w, avail)
    PROVE  ByteWritten(room, packer, q, ofs, shift, w, avail)
<1>1. PICK byte : byte = PackedByte(packer.buf[ofs], shift, w, avail)
  OBVIOUS
<1>2. \A k \in 0 .. 7 : byte[k] = ((shift # 0 /\ packer.buf[ofs][k])
                                   \/ (k \in shift .. shift + avail - 1 /\ w[k - shift + 1]))
  BY <1>1 DEF PackedByte
<1>3. PICK buf : buf = [packer.buf EXCEPT ![ofs] = byte]
  OBVIOUS
<1>4. buf[ofs] = byte /\ \A o \in 0 .. room - 1 : o # ofs => buf[o] = packer.buf[o]
  BY <1>3 DEF Store, Buffer
<1>5. PICK p : p = [packer EXCEPT !.buf = buf]
  OBVIOUS
<1>6. /\ p.buf = buf /\ p.died = packer.died /\ p.bit_i = packer.bit_i
      /\ DOMAIN p = {"size", "buf", "bit_i", "died"}
  BY <1>5 DEF Store
<1>7. PackByte(packer, w, avail) = Skip(p, avail)
  BY <1>1, <1>3, <1>5 DEF PackByte, Store
<1>8. q.buf = buf /\ q.died = packer.died /\ q.bit_i = packer.bit_i + avail
  BY <1>6, <1>7 DEF Skip
<1>. QED
  BY <1>2, <1>4, <1>8 DEF ByteWritten

(* One turn appends the lowest bits of the word.                           *)
LEMMA PackByteGrows ==
    ASSUME NEW room \in Nat, NEW packer \in Store(room), Clean(packer), NEW w \in Bits32,
           NEW avail \in Nat, avail # 0, (packer.bit_i % 8) + avail <= 8, packer.bit_i + avail <= 8 * room
    PROVE  Grown(room, packer, PackByte(packer, w, avail), w, avail)
<1>1. PICK at \in Nat : at = packer.bit_i
  BY DEF Store
<1>2. PICK ofs \in 0 .. room - 1 : ofs = packer.bit_i \div 8
  BY <1>1
<1>3. PICK shift \in 0 .. 7 : shift = packer.bit_i % 8
  BY <1>1
<1>4. at = 8 * ofs + shift /\ shift + avail <= 8
  BY <1>1, <1>2, <1>3, Divided
<1>5. PICK q \in Store(room) : q = PackByte(packer, w, avail)
  BY PackByteType
<1>6. ByteWritten(room, packer, q, ofs, shift, w, avail)
  BY <1>2, <1>3, <1>5, PackByteFields
<1>7. /\ q.died = packer.died /\ q.bit_i = packer.bit_i + avail
      /\ \A o \in 0 .. room - 1 : o # ofs => q.buf[o] = packer.buf[o]
      /\ \A k \in 0 .. 7 : q.buf[ofs][k] = ((shift # 0 /\ packer.buf[ofs][k])
                                     \/ (k \in shift .. shift + avail - 1 /\ w[k - shift + 1]))
  BY <1>6 DEF ByteWritten
<1>8. q.bit_i = at + avail
  BY <1>1, <1>7
<1>9. \A k \in 0 .. 7 : packer.buf[ofs][k] \in BOOLEAN
  <2>1. packer.buf[ofs] \in Byte8
    BY DEF Store, Buffer
  <2>. QED
    BY <2>1 DEF Byte8
<1>10. \A k \in shift .. 7 : shift # 0 => ~packer.buf[ofs][k]
  BY <1>2, <1>3 DEF Clean
<1>11. \A k \in 0 .. 7 : k < shift => q.buf[ofs][k] = packer.buf[ofs][k]
  BY <1>7, <1>9
<1>12. ASSUME NEW k \in 1 .. avail PROVE q.buf[ofs][shift + k - 1] = w[k]
  <2>1. PICK m \in 0 .. 7 : m = shift + k - 1
    BY <1>4
  <2>2. m \in shift .. 7 /\ m \in shift .. shift + avail - 1 /\ m - shift + 1 = k
    BY <2>1, <1>4
  <2>3. w[k] \in BOOLEAN
    BY <1>4 DEF Bits32, Word
  <2>4. q.buf[ofs][m] = w[k]
    BY <1>7, <1>10, <2>2, <2>3
  <2>. QED
    BY <2>1, <2>4
<1>13. ASSUME NEW k \in 0 .. 7, k >= shift + avail PROVE ~q.buf[ofs][k]
  <2>1. k \in shift .. 7 /\ k \notin shift .. shift + avail - 1
    BY <1>13
  <2>2. ~(shift # 0 /\ packer.buf[ofs][k])
    BY <1>10, <2>1
  <2>. QED
    BY <1>7, <2>1, <2>2
<1>14. SameBefore(packer, q, at)
  <2>. SUFFICES ASSUME NEW j \in Nat, j < at PROVE BitAt(q, j) = BitAt(packer, j)
    BY DEF SameBefore
  <2>1. PICK o \in Nat : o = j \div 8
    OBVIOUS
  <2>2. PICK k \in 0 .. 7 : k = j % 8 /\ j = 8 * o + k
    BY <2>1, Divided
  <2>3. CASE o = ofs
    BY <1>4, <1>11, <2>1, <2>2, <2>3 DEF BitAt
  <2>4. CASE o # ofs
    <3>1. o \in 0 .. room - 1
      BY <1>4, <2>2
    <3>. QED
      BY <1>7, <2>1, <2>2, <2>4, <3>1 DEF BitAt
  <2>. QED
    BY <2>3, <2>4
<1>15. ASSUME NEW k \in 1 .. avail PROVE BitAt(q, at + k - 1) = w[k]
  <2>1. PICK j \in Nat : j = at + k - 1
    OBVIOUS
  <2>2. PICK m \in 0 .. 7 : m = shift + k - 1
    BY <1>4
  <2>3. j = 8 * ofs + m
    BY <1>4, <2>1, <2>2
  <2>4. j \div 8 = ofs /\ j % 8 = m
    BY <2>3, Division
  <2>. QED
    BY <1>12, <2>1, <2>2, <2>4 DEF BitAt
<1>16. Clean(q)
  <2>1. PICK end \in Nat : end = q.bit_i
    BY DEF Store
  <2>2. CASE shift + avail = 8
    <3>1. end = 8 * (ofs + 1) + 0
      BY <1>4, <1>8, <2>1, <2>2
    <3>2. end % 8 = 0
      BY <3>1, Division
    <3>. QED
      BY <2>1, <3>2 DEF Clean
  <2>3. CASE shift + avail < 8
    <3>1. PICK m \in 0 .. 7 : m = shift + avail
      BY <2>3
    <3>2. end = 8 * ofs + m
      BY <1>4, <1>8, <2>1, <3>1
    <3>3. end \div 8 = ofs /\ end % 8 = m
      BY <3>2, Division
    <3>4. ASSUME NEW k \in m .. 7 PROVE ~q.buf[ofs][k]
      <4>1. k \in 0 .. 7 /\ k >= shift + avail
        BY <3>1
      <4>. QED
        BY <1>13, <4>1
    <3>5. q.bit_i % 8 = m /\ q.bit_i \div 8 = ofs
      BY <2>1, <3>3
    <3>. QED
      BY <3>4, <3>5 DEF Clean
  <2>. QED
    BY <1>4, <2>2, <2>3
<1>. QED
  BY <1>1, <1>5, <1>7, <1>8, <1>14, <1>15, <1>16 DEF Grown

LEMMA GrownNone ==
    ASSUME NEW room \in Nat, NEW p \in Store(room), Clean(p), NEW w
    PROVE  Grown(room, p, p, w, 0)
<1>1. p.bit_i = p.bit_i + 0
  BY DEF Store
<1>. QED
  BY <1>1 DEF Grown, SameBefore

LEMMA SameTrans ==
    ASSUME NEW p, NEW q, NEW r, NEW m \in Nat, NEW n \in Nat, m <= n,
           SameBefore(p, q, m), SameBefore(q, r, n)
    PROVE  SameBefore(p, r, m)
BY DEF SameBefore

(* Two appended runs are one.                                              *)
LEMMA GrownMore ==
    ASSUME NEW room \in Nat, NEW p \in Store(room), NEW q, NEW r, NEW w, NEW v,
           NEW a \in Nat, NEW b \in Nat, Grown(room, p, q, w, a), Grown(room, q, r, v, b),
           \A j \in 1 .. b : v[j] = w[a + j]
    PROVE  Grown(room, p, r, w, a + b)
<1>1. PICK at \in Nat : at = p.bit_i
  BY DEF Store
<1>2. q.bit_i = at + a /\ r.bit_i = at + (a + b) /\ r.died = p.died /\ r \in Store(room) /\ Clean(r)
  BY <1>1 DEF Grown
<1>3. SameBefore(p, q, at) /\ SameBefore(q, r, at + a)
  BY <1>1, <1>2 DEF Grown
<1>4. SameBefore(p, r, at)
  BY <1>3, SameTrans
<1>5. ASSUME NEW k \in 1 .. a + b PROVE BitAt(r, at + k - 1) = w[k]
  <2>1. CASE k <= a
    <3>1. at + k - 1 \in Nat /\ at + k - 1 < at + a /\ k \in 1 .. a
      BY <2>1
    <3>2. BitAt(r, at + k - 1) = BitAt(q, at + k - 1)
      BY <1>3, <3>1 DEF SameBefore
    <3>3. BitAt(q, at + k - 1) = w[k]
      BY <1>1, <3>1 DEF Grown
    <3>. QED
      BY <3>2, <3>3
  <2>2. CASE k > a
    <3>1. PICK j \in 1 .. b : j = k - a
      BY <2>2
    <3>2. BitAt(r, (at + a) + j - 1) = v[j]
      BY <1>2, <3>1 DEF Grown
    <3>3. (at + a) + j - 1 = at + k - 1 /\ a + j = k
      BY <3>1
    <3>. QED
      BY <3>1, <3>2, <3>3
  <2>. QED
    BY <2>1, <2>2
<1>. QED
  BY <1>1, <1>2, <1>4, <1>5 DEF Grown

PackedSoFar(room, p, w, n, st) ==
    /\ st \in Packing(room) /\ st.bits <= n
    /\ Grown(room, p, st.packer, w, n - st.bits)
    /\ \A j \in 1 .. st.bits : st.w[j] = w[n - st.bits + j]

LEMMA PackTurnPacks ==
    ASSUME NEW room \in Nat, NEW p \in Store(room), NEW w \in Bits32, NEW n \in Word,
           p.bit_i + n <= 8 * room, NEW st, PackedSoFar(room, p, w, n, st), st.bits # 0
    PROVE  PackedSoFar(room, p, w, n, PackTurn(st)) /\ PackTurn(st).bits < st.bits
<1>1. PICK bits \in 1 .. n : bits = st.bits
  BY DEF PackedSoFar, Packing
<1>2. n \in Nat /\ n <= 32
  BY DEF Word
<1>3. PICK q \in Store(room) : q = st.packer
  BY DEF PackedSoFar, Packing
<1>4. PICK v \in Bits32 : v = st.w
  BY DEF PackedSoFar, Packing
<1>5. PICK avail \in Nat : avail = Avail(q, bits)
  BY <1>1, <1>3, AvailBounds
<1>6. avail <= bits /\ (q.bit_i % 8) + avail <= 8 /\ avail # 0
  BY <1>1, <1>5, AvailBounds
<1>7. PICK a \in Nat : a = n - bits
  BY <1>1, <1>2
<1>8. Grown(room, p, q, w, a)
  BY <1>1, <1>3, <1>7 DEF PackedSoFar
<1>9. q.bit_i + avail <= 8 * room
  <2>1. PICK at \in Nat : at = p.bit_i
    BY DEF Store
  <2>2. q.bit_i = at + a /\ at + n <= 8 * room
    BY <1>8, <2>1 DEF Grown
  <2>. QED
    BY <1>1, <1>2, <1>6, <1>7, <2>2
<1>10. PICK r : r = PackByte(q, v, avail)
  OBVIOUS
<1>11. Grown(room, q, r, v, avail)
  BY <1>6, <1>8, <1>9, <1>10, PackByteGrows DEF Grown
<1>12. \A j \in 1 .. bits : v[j] = w[a + j]
  BY <1>1, <1>4, <1>7 DEF PackedSoFar
<1>13. \A j \in 1 .. avail : v[j] = w[a + j]
  BY <1>1, <1>6, <1>12
<1>14. Grown(room, p, r, w, a + avail)
  BY <1>8, <1>11, <1>13, GrownMore
<1>15. PICK left \in Nat : left = bits - avail
  BY <1>1, <1>6
<1>16. PackTurn(st) = [packer |-> r, w |-> Shr(v, avail), bits |-> left]
  BY <1>1, <1>3, <1>4, <1>5, <1>10, <1>15 DEF PackTurn
<1>17. ASSUME NEW j \in 1 .. left PROVE Shr(v, avail)[j] = w[n - left + j]
  <2>1. j \in Word /\ j + avail <= 32 /\ j + avail \in 1 .. bits
    BY <1>1, <1>2, <1>6, <1>15 DEF Word
  <2>2. v[j + avail] = w[a + (j + avail)]
    BY <1>12, <2>1
  <2>3. v[j + avail] \in BOOLEAN
    BY <1>2, <2>1 DEF Bits32, Word
  <2>4. Shr(v, avail)[j] = v[j + avail]
    BY <2>1, <2>3 DEF Shr
  <2>5. a + (j + avail) = n - left + j
    BY <1>1, <1>2, <1>7, <1>15
  <2>. QED
    BY <2>2, <2>4, <2>5
<1>18. a + avail = n - left /\ left <= n /\ left < bits
  BY <1>1, <1>2, <1>6, <1>7, <1>15
<1>19. PackTurn(st) \in Packing(room)
  BY PackTurnType DEF PackedSoFar
<1>. QED
  BY <1>1, <1>14, <1>16, <1>17, <1>18, <1>19 DEF PackedSoFar

(* bitpack_uint32() appends the lowest bits of the word, or dies when the  *)
(* buffer is too small.                                                    *)
LEMMA PackUint32Grows ==
    ASSUME NEW room \in Nat, NEW p \in Store(room), Clean(p), ~p.died, NEW w \in Bits32,
           NEW n \in Word, p.bit_i + n <= 8 * room
    PROVE  Grown(room, p, PackUint32(p, w, n), w, n)
<1>1. n \in Nat /\ n <= 32
  BY DEF Word
<1>2. PICK f : /\ PackBytes(p, w, n) = f[n].packer /\ f[0] = [packer |-> p, w |-> w, bits |-> n]
               /\ \A k \in 1 .. n : f[k] = IF f[k - 1].bits = 0 THEN f[k - 1] ELSE PackTurn(f[k - 1])
               /\ \A k \in 0 .. n : f[k] \in Packing(room)
  BY <1>1, PackBytesDef
<1>. DEFINE Good == {k \in 0 .. n : PackedSoFar(room, p, w, n, f[k]) /\ f[k].bits <= n - k}
<1>3. 0 \in Good
  <2>1. f[0].packer = p /\ f[0].w = w /\ f[0].bits = n /\ f[0] \in Packing(room)
    BY <1>1, <1>2
  <2>2. Grown(room, p, p, w, n - n)
    BY <1>1, GrownNone
  <2>3. \A j \in 1 .. n : w[j] = w[n - n + j]
    BY <1>1
  <2>. QED
    BY <1>1, <2>1, <2>2, <2>3 DEF PackedSoFar
<1>4. ASSUME NEW k \in 1 .. n, k - 1 \in Good PROVE k \in Good
  <2>1. PICK st : st = f[k - 1] /\ PackedSoFar(room, p, w, n, st) /\ st.bits <= n - (k - 1)
    BY <1>4
  <2>2. st.bits \in Nat
    BY <2>1 DEF PackedSoFar, Packing
  <2>3. CASE st.bits = 0
    <3>1. f[k] = st
      BY <1>2, <2>1, <2>3
    <3>. QED
      BY <1>1, <2>1, <2>3, <3>1
  <2>4. CASE st.bits # 0
    <3>1. f[k] = PackTurn(st)
      BY <1>2, <2>1, <2>4
    <3>2. PackedSoFar(room, p, w, n, f[k]) /\ f[k].bits < st.bits
      BY <2>1, <2>4, <3>1, PackTurnPacks
    <3>3. f[k].bits \in Nat
      BY <3>2 DEF PackedSoFar, Packing
    <3>. QED
      BY <1>1, <2>1, <2>2, <3>2, <3>3
  <2>. QED
    BY <2>3, <2>4
<1>5. n \in Good
  <2>. HIDE DEF Good
  <2>. QED
    BY <1>1, <1>3, <1>4, UpTo
<1>6. f[n].bits = 0 /\ PackedSoFar(room, p, w, n, f[n])
  BY <1>1, <1>2, <1>5 DEF Packing
<1>7. Grown(room, p, f[n].packer, w, n)
  BY <1>1, <1>6 DEF PackedSoFar
<1>8. PackUint32(p, w, n) = PackBytes(p, w, n)
  <2>1. ~Overflows(p, n)
    <3>1. p.size = room /\ p.bit_i \in Nat
      BY DEF Store
    <3>. QED
      BY <1>1, <3>1 DEF Overflows
  <2>. QED
    BY <2>1 DEF PackUint32
<1>. QED
  BY <1>2, <1>7, <1>8

LEMMA PackUint32Stops ==
    ASSUME NEW room \in Nat, NEW p \in Store(room), NEW w \in Bits32, NEW n \in Word,
           p.died \/ p.bit_i + n > 8 * room
    PROVE  PackUint32(p, w, n) = [p EXCEPT !.died = TRUE]
BY DEF PackUint32, Overflows, Store

LEMMA ZeroIs == Zero = [k \in Word |-> FALSE]
<1>1. 0 \in Int /\ Zero = Bits(0)
  BY DEF Zero
<1>2. PICK half : /\ Bits(0) = [k \in Word |-> half[k - 1] % 2 = 1] /\ half[0] = 0
                  /\ \A k \in 1 .. 31 : half[k] = half[k - 1] \div 2
                  /\ \A k \in 0 .. 31 : half[k] \in Int
  BY <1>1, HalvesDef
<1>. DEFINE Good == {k \in 0 .. 31 : half[k] = 0}
<1>3. 0 \in Good
  BY <1>2
<1>4. ASSUME NEW k \in 1 .. 31, k - 1 \in Good PROVE k \in Good
  BY <1>2, <1>4
<1>5. \A k \in 0 .. 31 : k \in Good
  <2>. HIDE DEF Good
  <2>. QED
    BY <1>3, <1>4, UpTo
<1>6. \A k \in Word : half[k - 1] = 0
  BY <1>5 DEF Word
<1>7. \A k \in Word : (half[k - 1] % 2 = 1) = FALSE
  BY <1>6
<1>. QED
  BY <1>1, <1>2, <1>7

LEMMA LowZero == \A n \in Nat : Low(Zero, n) = Zero
<1>. SUFFICES ASSUME NEW n \in Nat PROVE Low(Zero, n) = Zero
  OBVIOUS
<1>1. \A k \in Word : (k <= n /\ Zero[k]) = FALSE
  BY ZeroIs
<1>. QED
  BY <1>1, ZeroIs DEF Low

(* The n bits that start at bit at, as a word.                             *)
WordAt(packer, at, n) == [k \in Word |-> k <= n /\ BitAt(packer, at + k - 1)]

LEMMA SkipFields ==
    ASSUME NEW room \in Nat, NEW p \in Store(room), NEW n \in Nat
    PROVE  /\ Skip(p, n) \in Store(room) /\ Skip(p, n).bit_i = p.bit_i + n
           /\ Skip(p, n).buf = p.buf /\ Skip(p, n).died = p.died
BY DEF Skip, Store

LEMMA StoresEqual ==
    ASSUME NEW room \in Nat, NEW p \in Store(room), NEW q \in Store(room),
           p.buf = q.buf, p.bit_i = q.bit_i, p.died = q.died
    PROVE  p = q
BY DEF Store

LEMMA SkipMore ==
    ASSUME NEW room \in Nat, NEW p \in Store(room), NEW m \in Nat, NEW n \in Nat
    PROVE  Skip(Skip(p, m), n) = Skip(p, m + n)
<1>1. PICK at \in Nat : at = p.bit_i
  BY DEF Store
<1>2. PICK sum \in Nat : sum = m + n
  OBVIOUS
<1>3. PICK q : q = Skip(p, m)
  OBVIOUS
<1>4. q \in Store(room) /\ q.bit_i = p.bit_i + m /\ q.buf = p.buf /\ q.died = p.died
  BY <1>3, SkipFields, Zenon
<1>5. PICK r : r = Skip(q, n)
  OBVIOUS
<1>6. r \in Store(room) /\ r.bit_i = q.bit_i + n /\ r.buf = q.buf /\ r.died = q.died
  BY <1>4, <1>5, SkipFields, SMTT(30)
<1>7. PICK s : s = Skip(p, sum)
  OBVIOUS
<1>8. s \in Store(room) /\ s.bit_i = p.bit_i + sum /\ s.buf = p.buf /\ s.died = p.died
  BY <1>7, SkipFields, Zenon
<1>9. s.bit_i = r.bit_i /\ s.buf = r.buf /\ s.died = r.died
  BY <1>1, <1>2, <1>4, <1>8, <1>6
<1>10. r = s
  BY <1>8, <1>6, <1>9, StoresEqual
<1>. QED
  BY <1>2, <1>3, <1>10, <1>7, <1>5

UnpackedSoFar(room, p, n, st) ==
    /\ st \in Unpacking(room) /\ st.i + st.bits = n
    /\ st.packer = Skip(p, st.i) /\ st.value = WordAt(p, p.bit_i, st.i)

LEMMA UnpackTurnUnpacks ==
    ASSUME NEW room \in Nat, NEW p \in Store(room), NEW n \in Word,
           p.bit_i + n <= 8 * room, NEW st, UnpackedSoFar(room, p, n, st), st.bits # 0
    PROVE  UnpackedSoFar(room, p, n, UnpackTurn(st)) /\ UnpackTurn(st).bits < st.bits
<1>1. n \in Nat /\ n <= 32
  BY DEF Word
<1>2. PICK i \in Nat, bits \in 1 .. n : i = st.i /\ bits = st.bits /\ i + bits = n
  BY <1>1 DEF UnpackedSoFar, Unpacking
<1>3. PICK at \in Nat : at = p.bit_i
  BY DEF Store
<1>4. PICK q \in Store(room) : q = st.packer /\ q = Skip(p, i) /\ q.bit_i = at + i /\ q.buf = p.buf
  BY <1>2, <1>3, SkipFields, ZenonT(30) DEF UnpackedSoFar
<1>5. PICK avail \in Nat : avail = Avail(q, bits)
  BY <1>2, <1>4, AvailBounds
<1>6. avail <= bits /\ (q.bit_i % 8) + avail <= 8 /\ avail # 0
  BY <1>2, <1>5, AvailBounds
<1>7. PICK byte : byte = UnpackedByte(q, avail)
  OBVIOUS
<1>8. PICK value : value = Or(st.value, Shl(byte, i))
  OBVIOUS
<1>9. PICK left \in Nat : left = bits - avail
  BY <1>2, <1>6
<1>10. UnpackTurn(st) = [packer |-> Skip(q, avail), value |-> value, i |-> i + avail, bits |-> left]
  BY <1>2, <1>4, <1>5, <1>7, <1>8, <1>9 DEF UnpackTurn
<1>11. Skip(q, avail) = Skip(p, i + avail)
  BY <1>4, SkipMore
<1>12. ASSUME NEW k \in Word PROVE value[k] = (k <= i + avail /\ BitAt(p, at + k - 1))
  <2>1. k \in 1 .. 32
    BY DEF Word
  <2>2. value[k] = (st.value[k] \/ (k > i /\ byte[k - i]))
    BY <1>8 DEF Or, Shl
  <2>3. st.value[k] = (k <= i /\ BitAt(p, at + k - 1))
    BY <1>2, <1>3 DEF UnpackedSoFar, WordAt
  <2>4. CASE k <= i
    <3>1. k <= i + avail /\ ~(k > i)
      BY <2>1, <2>4
    <3>. QED
      BY <2>2, <2>3, <2>4, <3>1
  <2>5. CASE k > i
    <3>1. PICK m \in Word : m = k - i
      BY <2>1, <2>5 DEF Word
    <3>2. m \in Nat /\ ~(k <= i) /\ (m <= avail <=> k <= i + avail)
      BY <2>1, <2>5, <3>1
    <3>3. byte[m] = (m <= avail /\ p.buf[(at + i) \div 8][m - 1 + ((at + i) % 8)])
      BY <1>4, <1>7 DEF UnpackedByte
    <3>4. ASSUME m <= avail PROVE p.buf[(at + i) \div 8][m - 1 + ((at + i) % 8)] = BitAt(p, at + k - 1)
      <4>1. PICK start \in Nat : start = at + i
        OBVIOUS
      <4>2. PICK ofs \in Nat, shift \in 0 .. 7 : ofs = start \div 8 /\ shift = start % 8 /\ start = 8 * ofs + shift
        BY Divided
      <4>3. shift + avail <= 8
        BY <1>4, <1>6, <4>1, <4>2
      <4>4. m >= 1
        BY <2>5, <3>1, <2>1
      <4>5. PICK bit \in 0 .. 7 : bit = m - 1 + shift
        BY <3>2, <3>4, <4>3, <4>4
      <4>6. PICK j \in Nat : j = at + k - 1
        BY <2>1
      <4>7. j = 8 * ofs + bit
        BY <2>1, <3>1, <4>1, <4>2, <4>5, <4>6
      <4>8. j \div 8 = ofs /\ j % 8 = bit
        BY <4>7, Division
      <4>. QED
        BY <4>1, <4>2, <4>5, <4>6, <4>8 DEF BitAt
    <3>5. value[k] = byte[m]
      BY <2>2, <2>3, <2>5, <3>1, <3>2, <3>3
    <3>. QED
      BY <3>2, <3>3, <3>4, <3>5
  <2>. QED
    BY <1>2, <2>1, <2>4, <2>5
<1>13. value = [k \in Word |-> value[k]]
  BY <1>8 DEF Or
<1>14. value = WordAt(p, p.bit_i, i + avail)
  BY <1>3, <1>12, <1>13 DEF WordAt
<1>15. i + avail + left = n /\ left < bits
  BY <1>1, <1>2, <1>6, <1>9
<1>16. UnpackTurn(st) \in Unpacking(room)
  BY UnpackTurnType DEF UnpackedSoFar
<1>. QED
  BY <1>2, <1>10, <1>11, <1>14, <1>15, <1>16 DEF UnpackedSoFar

(* bitunpack_uint32() reads the bits at the cursor and moves past them.    *)
LEMMA UnpackUint32Reads ==
    ASSUME NEW room \in Nat, NEW p \in Store(room), ~p.died, NEW n \in Word, p.bit_i + n <= 8 * room
    PROVE  UnpackUint32(p, n) = [packer |-> Skip(p, n), value |-> WordAt(p, p.bit_i, n)]
<1>1. n \in Nat /\ n <= 32
  BY DEF Word
<1>2. PICK f : /\ UnpackBytes(p, n) = [packer |-> f[n].packer, value |-> f[n].value]
               /\ f[0] = [packer |-> p, value |-> Zero, i |-> 0, bits |-> n]
               /\ \A k \in 1 .. n : f[k] = IF f[k - 1].bits = 0 THEN f[k - 1] ELSE UnpackTurn(f[k - 1])
               /\ \A k \in 0 .. n : f[k] \in Unpacking(room)
  BY <1>1, UnpackBytesDef
<1>. DEFINE Good == {k \in 0 .. n : UnpackedSoFar(room, p, n, f[k]) /\ f[k].bits <= n - k}
<1>3. 0 \in Good
  <2>1. f[0].packer = p /\ f[0].value = Zero /\ f[0].i = 0 /\ f[0].bits = n /\ f[0] \in Unpacking(room)
    BY <1>1, <1>2
  <2>2. p = Skip(p, 0)
    BY DEF Skip, Store
  <2>3. Zero = WordAt(p, p.bit_i, 0)
    <3>1. \A k \in Word : (k <= 0 /\ BitAt(p, p.bit_i + k - 1)) = FALSE
      BY DEF Word
    <3>. QED
      BY <3>1, ZeroIs DEF WordAt
  <2>. QED
    BY <1>1, <2>1, <2>2, <2>3 DEF UnpackedSoFar
<1>4. ASSUME NEW k \in 1 .. n, k - 1 \in Good PROVE k \in Good
  <2>1. PICK st : st = f[k - 1] /\ UnpackedSoFar(room, p, n, st) /\ st.bits <= n - (k - 1)
    BY <1>4
  <2>2. st.bits \in Nat
    BY <2>1 DEF UnpackedSoFar, Unpacking
  <2>3. CASE st.bits = 0
    <3>1. f[k] = st
      BY <1>2, <2>1, <2>3
    <3>. QED
      BY <1>1, <2>1, <2>3, <3>1
  <2>4. CASE st.bits # 0
    <3>1. f[k] = UnpackTurn(st)
      BY <1>2, <2>1, <2>4
    <3>2. UnpackedSoFar(room, p, n, f[k]) /\ f[k].bits < st.bits
      BY <2>1, <2>4, <3>1, UnpackTurnUnpacks
    <3>3. f[k].bits \in Nat
      BY <3>2 DEF UnpackedSoFar, Unpacking
    <3>. QED
      BY <1>1, <2>1, <2>2, <3>2, <3>3
  <2>. QED
    BY <2>3, <2>4
<1>5. n \in Good
  <2>. HIDE DEF Good
  <2>. QED
    BY <1>1, <1>3, <1>4, UpTo
<1>6. f[n].bits = 0 /\ UnpackedSoFar(room, p, n, f[n])
  BY <1>1, <1>2, <1>5 DEF Unpacking
<1>7. f[n].i = n
  BY <1>1, <1>6 DEF UnpackedSoFar, Unpacking
<1>8. UnpackUint32(p, n) = UnpackBytes(p, n)
  <2>1. ~Overflows(p, n)
    <3>1. p.size = room /\ p.bit_i \in Nat
      BY DEF Store
    <3>. QED
      BY <1>1, <3>1 DEF Overflows
  <2>. QED
    BY <2>1 DEF UnpackUint32
<1>. QED
  BY <1>2, <1>6, <1>7, <1>8 DEF UnpackedSoFar

LEMMA PackUint32Type ==
    ASSUME NEW room \in Nat, NEW packer \in Store(room), NEW w \in Bits32, NEW bits \in Nat
    PROVE  PackUint32(packer, w, bits) \in Store(room)
<1>1. [packer EXCEPT !.died = TRUE] \in Store(room)
  BY DEF Store
<1>2. PICK f : /\ PackBytes(packer, w, bits) = f[bits].packer
               /\ f[0] = [packer |-> packer, w |-> w, bits |-> bits]
               /\ \A k \in 1 .. bits : f[k] = IF f[k - 1].bits = 0 THEN f[k - 1] ELSE PackTurn(f[k - 1])
               /\ \A k \in 0 .. bits : f[k] \in Packing(room)
  BY PackBytesDef
<1>3. f[bits].packer \in Store(room)
  BY <1>2 DEF Packing
<1>. QED
  BY <1>1, <1>2, <1>3 DEF PackUint32

Unpacked(room, X) == [packer : Store(room), value : X]

LEMMA UnpackUint32Type ==
    ASSUME NEW room \in Nat, NEW packer \in Store(room), NEW bits \in Nat
    PROVE  UnpackUint32(packer, bits) \in Unpacked(room, Bits32)
<1>1. [packer EXCEPT !.died = TRUE] \in Store(room)
  BY DEF Store
<1>2. PICK f : /\ UnpackBytes(packer, bits) = [packer |-> f[bits].packer, value |-> f[bits].value]
               /\ \A k \in 0 .. bits : f[k] \in Unpacking(room)
  BY UnpackBytesDef, ZenonT(30)
<1>3. f[bits].packer \in Store(room) /\ f[bits].value \in Bits32
  BY <1>2 DEF Unpacking
<1>. QED
  BY <1>1, <1>2, <1>3, ZeroType DEF UnpackUint32, Unpacked

(* What one turn of bitunpack_string() works on.                           *)
Reading(room) == [packer : Store(room), value : Seq(Bits32), ends : BOOLEAN]

LEMMA StartReading ==
    ASSUME NEW room \in Nat, NEW packer \in Store(room)
    PROVE  [packer |-> packer, value |-> <<>>, ends |-> FALSE] \in Reading(room)
<1>1. PICK none \in Seq(Bits32) : none = <<>>
  BY EmptySeq
<1>. QED
  BY <1>1 DEF Reading

LEMMA CharTurnType ==
    ASSUME NEW room \in Nat, NEW before \in Reading(room)
    PROVE  CharTurn(before) \in Reading(room)
<1>1. before.packer \in Store(room) /\ before.value \in Seq(Bits32)
  BY DEF Reading
<1>2. PICK c : c = UnpackUint32(before.packer, 8)
  OBVIOUS
<1>3. c.packer \in Store(room) /\ c.value \in Bits32
  BY <1>1, <1>2, UnpackUint32Type DEF Unpacked
<1>4. PICK ends \in BOOLEAN : ends = (c.packer.died \/ c.value = Zero)
  OBVIOUS
<1>5. CharTurn(before) =
        [packer |-> c.packer,
         value |-> IF ends THEN before.value ELSE Append(before.value, c.value), ends |-> ends]
  BY <1>2, <1>4 DEF CharTurn
<1>6. Append(before.value, c.value) \in Seq(Bits32)
  BY <1>1, <1>3
<1>. QED
  BY <1>1, <1>3, <1>5, <1>6 DEF Reading

LEMMA PackStringDef ==
    ASSUME NEW room \in Nat, NEW packer \in Store(room), NEW s \in Seq(Bits32)
    PROVE  \E f : /\ PackString(packer, s) = PackUint32(f[Len(s)], Zero, 8) /\ f[0] = packer
                  /\ \A k \in 1 .. Len(s) : f[k] = PackUint32(f[k - 1], s[k], 8)
                  /\ \A k \in 0 .. Len(s) : f[k] \in Store(room)
<1>. DEFINE Turn(before, k) == PackUint32(before, s[k], 8)
            F(t) == [k \in 0 .. Len(s) |-> IF k = 0 THEN packer ELSE Turn(t[k - 1], k)]
            f == CHOOSE t : t = F(t)
<1>1. PackString(packer, s) = PackUint32(f[Len(s)], Zero, 8)
  BY DEF PackString
<1>2. PICK top \in Nat : top = Len(s)
  OBVIOUS
<1>3. PICK S : S = Store(room)
  OBVIOUS
<1>4. PICK start \in S : start = packer
  BY <1>3
<1>5. \A before \in S, k \in 1 .. top : Turn(before, k) \in S
  BY <1>2, <1>3, PackUint32Type
<1>. HIDE DEF Turn
<1>6. PICK g : g = [k \in 1 .. top |-> [before \in S |-> Turn(before, k)]]
  OBVIOUS
<1>7. g \in Turns(top, S)
  BY <1>5, <1>6 DEF Turns
<1>8. PICK t : Goes(top, S, start, g, t)
  BY <1>7, ForwardExists
<1>9. t \in [0 .. top -> S] /\ t[0] = start /\ \A k \in 1 .. top : t[k] = g[k][t[k - 1]]
  BY <1>8 DEF Goes
<1>10. t = F(t)
  <2>1. \A k \in 1 .. top : t[k - 1] \in S
    BY <1>9
  <2>2. \A k \in 1 .. top : t[k] = Turn(t[k - 1], k)
    BY <1>6, <1>9, <2>1
  <2>3. \A k \in 0 .. top : t[k] = IF k = 0 THEN start ELSE Turn(t[k - 1], k)
    BY <1>9, <2>2
  <2>4. t = [k \in 0 .. top |-> t[k]]
    BY <1>9
  <2>. QED
    BY <1>2, <1>4, <2>3, <2>4
<1>11. f = F(f)
  BY <1>10, Zenon
<1>. HIDE DEF f
<1>12. PICK z : z = f /\ z = F(z)
  BY <1>11
<1>13. z = [k \in 0 .. top |-> IF k = 0 THEN start ELSE Turn(z[k - 1], k)]
  BY <1>2, <1>4, <1>12, Zenon
<1>. HIDE DEF F
<1>14. z[0] = start /\ \A k \in 1 .. top : z[k] = Turn(z[k - 1], k)
  BY <1>13
<1>15. \A k \in 0 .. top : z[k] \in S
  BY <1>5, <1>14, TypedTurns
<1>16. /\ z[0] = packer /\ \A k \in 1 .. Len(s) : z[k] = Turn(z[k - 1], k)
       /\ \A k \in 0 .. Len(s) : z[k] \in Store(room)
  BY <1>2, <1>3, <1>4, <1>14, <1>15
<1>17. \A k \in 1 .. Len(s) : z[k] = PackUint32(z[k - 1], s[k], 8)
  BY <1>16 DEF Turn
<1>18. PackString(packer, s) = PackUint32(z[Len(s)], Zero, 8)
  BY <1>1, <1>12
<1>. QED
  BY <1>16, <1>17, <1>18

LEMMA UnpackStringDef ==
    ASSUME NEW room \in Nat, NEW packer \in Store(room)
    PROVE  \E f : /\ UnpackString(packer) = [packer |-> f[room + 1].packer, value |-> f[room + 1].value]
                  /\ f[0] = [packer |-> packer, value |-> <<>>, ends |-> FALSE]
                  /\ \A k \in 1 .. room + 1 : f[k] = IF f[k - 1].ends THEN f[k - 1] ELSE CharTurn(f[k - 1])
                  /\ \A k \in 0 .. room + 1 : f[k] \in Reading(room)
<1>. DEFINE Turn(before, k) == IF before.ends THEN before ELSE CharTurn(before)
            F(t) == [k \in 0 .. room + 1 |->
                    IF k = 0 THEN [packer |-> packer, value |-> <<>>, ends |-> FALSE]
                    ELSE Turn(t[k - 1], k)]
            f == CHOOSE t : t = F(t)
<1>1. UnpackString(packer) = [packer |-> f[room + 1].packer, value |-> f[room + 1].value]
  BY DEF UnpackString, Store
<1>2. PICK top \in Nat : top = room + 1
  OBVIOUS
<1>3. PICK S : S = Reading(room)
  OBVIOUS
<1>4. PICK start \in S : start = [packer |-> packer, value |-> <<>>, ends |-> FALSE]
  BY <1>3, StartReading
<1>5. \A before \in S, k \in 1 .. top : Turn(before, k) \in S
  BY <1>3, CharTurnType
<1>. HIDE DEF Turn
<1>6. PICK g : g = [k \in 1 .. top |-> [before \in S |-> Turn(before, k)]]
  OBVIOUS
<1>7. g \in Turns(top, S)
  BY <1>5, <1>6 DEF Turns
<1>8. PICK t : Goes(top, S, start, g, t)
  BY <1>7, ForwardExists
<1>9. t \in [0 .. top -> S] /\ t[0] = start /\ \A k \in 1 .. top : t[k] = g[k][t[k - 1]]
  BY <1>8 DEF Goes
<1>10. t = F(t)
  <2>1. \A k \in 1 .. top : t[k - 1] \in S
    BY <1>9
  <2>2. \A k \in 1 .. top : t[k] = Turn(t[k - 1], k)
    BY <1>6, <1>9, <2>1
  <2>3. \A k \in 0 .. top : t[k] = IF k = 0 THEN start ELSE Turn(t[k - 1], k)
    BY <1>9, <2>2
  <2>4. t = [k \in 0 .. top |-> t[k]]
    BY <1>9
  <2>. QED
    BY <1>2, <1>4, <2>3, <2>4
<1>11. f = F(f)
  BY <1>10, Zenon
<1>. HIDE DEF f
<1>12. PICK z : z = f /\ z = F(z)
  BY <1>11
<1>13. z = [k \in 0 .. top |-> IF k = 0 THEN start ELSE Turn(z[k - 1], k)]
  BY <1>2, <1>4, <1>12, Zenon
<1>. HIDE DEF F
<1>14. z[0] = start /\ \A k \in 1 .. top : z[k] = Turn(z[k - 1], k)
  BY <1>13
<1>15. \A k \in 0 .. top : z[k] \in S
  BY <1>5, <1>14, TypedTurns
<1>16. /\ z[0] = [packer |-> packer, value |-> <<>>, ends |-> FALSE]
       /\ \A k \in 1 .. room + 1 : z[k] = Turn(z[k - 1], k)
       /\ \A k \in 0 .. room + 1 : z[k] \in Reading(room)
  BY <1>2, <1>3, <1>4, <1>14, <1>15
<1>17. \A k \in 1 .. room + 1 : z[k] = IF z[k - 1].ends THEN z[k - 1] ELSE CharTurn(z[k - 1])
  BY <1>16 DEF Turn
<1>18. UnpackString(packer) = [packer |-> z[room + 1].packer, value |-> z[room + 1].value]
  BY <1>1, <1>12
<1>. QED
  BY <1>16, <1>17, <1>18

(* A packer after which one can pack, what one packed into it, and what    *)
(* stays there when more is packed.                                        *)
Ready(room, p) == p \in Store(room) /\ Clean(p) /\ ~p.died
Appended(room, p, q, n) == Ready(room, q) /\ q.bit_i = p.bit_i + n /\ SameBefore(p, q, p.bit_i)
WordStored(p, at, w, n) == \A k \in 1 .. n : BitAt(p, at + k - 1) = w[k]

LEMMA WordStays ==
    ASSUME NEW p, NEW q, NEW at \in Nat, NEW n \in Nat, NEW end \in Nat, at + n <= end, NEW w,
           SameBefore(p, q, end), WordStored(p, at, w, n)
    PROVE  WordStored(q, at, w, n)
<1>. SUFFICES ASSUME NEW k \in 1 .. n PROVE BitAt(q, at + k - 1) = w[k]
  BY DEF WordStored
<1>1. PICK j \in Nat : j = at + k - 1 /\ j < end
  OBVIOUS
<1>2. BitAt(q, j) = BitAt(p, j)
  BY <1>1 DEF SameBefore
<1>. QED
  BY <1>1, <1>2 DEF WordStored

LEMMA AppendedMore ==
    ASSUME NEW room \in Nat, NEW p \in Store(room), NEW q, NEW r, NEW m \in Nat, NEW n \in Nat,
           Appended(room, p, q, m), Appended(room, q, r, n)
    PROVE  Appended(room, p, r, m + n)
<1>1. PICK at \in Nat : at = p.bit_i
  BY DEF Store
<1>2. q.bit_i = at + m /\ r.bit_i = (at + m) + n /\ Ready(room, r)
  BY <1>1 DEF Appended
<1>3. SameBefore(p, q, at) /\ SameBefore(q, r, at + m)
  BY <1>1, <1>2 DEF Appended
<1>4. SameBefore(p, r, at)
  BY <1>3, SameTrans
<1>. QED
  BY <1>1, <1>2, <1>4 DEF Appended

LEMMA AppendedNone ==
    ASSUME NEW room \in Nat, NEW p, Ready(room, p)
    PROVE  Appended(room, p, p, 0)
<1>1. p.bit_i = p.bit_i + 0
  BY DEF Ready, Store
<1>. QED
  BY <1>1 DEF Appended, SameBefore

LEMMA PackWord ==
    ASSUME NEW room \in Nat, NEW p, Ready(room, p), NEW w \in Bits32, NEW n \in Word,
           NEW q, q = PackUint32(p, w, n)
    PROVE  /\ q \in Store(room) /\ q.died = (p.bit_i + n > 8 * room)
           /\ ~q.died => Appended(room, p, q, n) /\ WordStored(q, p.bit_i, w, n)
<1>1. p \in Store(room) /\ ~p.died /\ Clean(p) /\ p.bit_i \in Nat /\ p.died = FALSE
  BY DEF Ready, Store
<1>2. n \in Nat
  BY DEF Word
<1>3. q \in Store(room)
  BY <1>1, <1>2, PackUint32Type
<1>4. CASE p.bit_i + n > 8 * room
  <2>1. q = [p EXCEPT !.died = TRUE]
    BY <1>1, <1>4, PackUint32Stops
  <2>2. q.died = TRUE
    BY <1>1, <2>1 DEF Store
  <2>3. (p.bit_i + n > 8 * room) = TRUE
    BY <1>4, Zenon
  <2>4. q.died = (p.bit_i + n > 8 * room)
    BY <2>2, <2>3, Zenon
  <2>. QED
    BY <1>3, <2>2, <2>4
<1>5. CASE ~(p.bit_i + n > 8 * room)
  <2>1. p.bit_i + n <= 8 * room
    BY <1>1, <1>2, <1>5
  <2>2. Grown(room, p, q, w, n)
    BY <1>1, <2>1, PackUint32Grows
  <2>3. q.died = FALSE
    BY <1>1, <2>2 DEF Grown
  <2>4. Appended(room, p, q, n) /\ WordStored(q, p.bit_i, w, n)
    BY <2>2, <2>3 DEF Grown, Appended, Ready, WordStored
  <2>5. (p.bit_i + n > 8 * room) = FALSE
    BY <1>1, <1>2, <1>5, <2>1
  <2>6. q.died = (p.bit_i + n > 8 * room)
    BY <2>3, <2>5, Zenon
  <2>. QED
    BY <1>3, <2>4, <2>6, Zenon
<1>. QED
  BY <1>4, <1>5

LEMMA PackWordDead ==
    ASSUME NEW room \in Nat, NEW p \in Store(room), p.died, NEW w \in Bits32, NEW n \in Word
    PROVE  PackUint32(p, w, n) \in Store(room) /\ PackUint32(p, w, n).died
<1>1. PackUint32(p, w, n) = [p EXCEPT !.died = TRUE]
  BY PackUint32Stops
<1>. QED
  BY <1>1 DEF Store

LEMMA LowStored ==
    ASSUME NEW p, NEW at \in Nat, NEW w \in Bits32, NEW n \in Word, WordStored(p, at, w, n)
    PROVE  WordAt(p, at, n) = Low(w, n)
<1>1. ASSUME NEW k \in Word PROVE (k <= n /\ BitAt(p, at + k - 1)) = (k <= n /\ w[k])
  <2>1. k \in 1 .. 32 /\ n \in Nat
    BY DEF Word
  <2>2. CASE k <= n
    <3>1. k \in 1 .. n
      BY <2>1, <2>2
    <3>2. BitAt(p, at + k - 1) = w[k]
      BY <3>1 DEF WordStored
    <3>. QED
      BY <3>2
  <2>. QED
    BY <2>2
<1>. QED
  BY <1>1 DEF WordAt, Low

LEMMA UnpackWord ==
    ASSUME NEW room \in Nat, NEW p \in Store(room), ~p.died, NEW w \in Bits32, NEW n \in Word,
           p.bit_i + n <= 8 * room, WordStored(p, p.bit_i, w, n)
    PROVE  UnpackUint32(p, n) = [packer |-> Skip(p, n), value |-> Low(w, n)]
<1>1. p.bit_i \in Nat
  BY DEF Store
<1>2. WordAt(p, p.bit_i, n) = Low(w, n)
  BY <1>1, LowStored
<1>. QED
  BY <1>2, UnpackUint32Reads

-----------------------------------------------------------------------------
(* Strings.                                                                *)
StringStored(p, at, s, n) == \A c \in 1 .. n : WordStored(p, at + 8 * (c - 1), s[c], 8)

LEMMA CharTypes ==
    /\ 8 \in Word
    /\ \A c \in Char : c \in Bits32 /\ c # Zero /\ Low(c, 8) = c
<1>1. 8 \in Word
  BY DEF Word
<1>2. ASSUME NEW c \in Char PROVE Low(c, 8) = c
  <2>1. c \in Bits32 /\ \A k \in Word : k > 8 => ~c[k]
    BY DEF Char
  <2>2. ASSUME NEW k \in Word PROVE (k <= 8 /\ c[k]) = c[k]
    <3>1. k \in 1 .. 32 /\ c[k] \in BOOLEAN
      BY <2>1 DEF Bits32, Word
    <3>. QED
      BY <2>1, <3>1
  <2>3. c = [k \in Word |-> c[k]]
    BY <2>1 DEF Bits32
  <2>. QED
    BY <2>2, <2>3 DEF Low
<1>. QED
  BY <1>1, <1>2 DEF Char

PackedString(room, p, s, n, q) ==
    /\ q \in Store(room) /\ q.died = (n > 0 /\ p.bit_i + 8 * n > 8 * room)
    /\ ~q.died => Appended(room, p, q, 8 * n) /\ StringStored(q, p.bit_i, s, n)

LEMMA PackOneChar ==
    ASSUME NEW room \in Nat, NEW p, Ready(room, p), NEW s, NEW n \in Nat, s[n + 1] \in Bits32,
           NEW q, PackedString(room, p, s, n, q)
    PROVE  PackedString(room, p, s, n + 1, PackUint32(q, s[n + 1], 8))
<1>1. p \in Store(room)
  BY DEF Ready
<1>2. PICK at \in Nat : at = p.bit_i
  BY <1>1 DEF Store
<1>3. q \in Store(room) /\ 8 \in Word /\ 8 \in Nat
  BY CharTypes DEF PackedString
<1>4. PICK r : r = PackUint32(q, s[n + 1], 8)
  OBVIOUS
<1>5. PICK m \in Nat : m = n + 1 /\ m > 0
  OBVIOUS
<1>6. CASE q.died
  <2>1. r \in Store(room) /\ r.died
    BY <1>3, <1>4, <1>6, PackWordDead
  <2>2. at + 8 * n > 8 * room
    BY <1>2, <1>6 DEF PackedString
  <2>3. at + 8 * m > 8 * room
    BY <1>5, <2>2
  <2>4. r.died \in BOOLEAN
    BY <2>1 DEF Store
  <2>. QED
    BY <1>2, <1>4, <1>5, <2>1, <2>3, <2>4 DEF PackedString
<1>7. CASE ~q.died
  <2>1. Appended(room, p, q, 8 * n) /\ StringStored(q, at, s, n)
    BY <1>2, <1>7 DEF PackedString
  <2>2. Ready(room, q) /\ q.bit_i = at + 8 * n
    BY <1>2, <2>1 DEF Appended
  <2>3. /\ r \in Store(room) /\ r.died = (q.bit_i + 8 > 8 * room)
        /\ ~r.died => Appended(room, q, r, 8) /\ WordStored(r, q.bit_i, s[n + 1], 8)
    BY <1>3, <1>4, <2>2, PackWord
  <2>4. r.died = (at + 8 * m > 8 * room)
    BY <1>5, <2>2, <2>3
  <2>5. ASSUME ~r.died PROVE Appended(room, p, r, 8 * m) /\ StringStored(r, at, s, m)
    <3>1. PICK a \in Nat : a = 8 * n
      OBVIOUS
    <3>2. Appended(room, p, q, a) /\ Appended(room, q, r, 8)
      BY <2>1, <2>3, <2>5, <3>1
    <3>3. Appended(room, p, r, a + 8)
      BY <1>1, <1>3, <3>2, AppendedMore
    <3>4. a + 8 = 8 * m
      BY <1>5, <3>1
    <3>5. ASSUME NEW c \in 1 .. m PROVE WordStored(r, at + 8 * (c - 1), s[c], 8)
      <4>1. CASE c = m
        <5>1. at + 8 * (c - 1) = q.bit_i /\ s[c] = s[n + 1]
          BY <1>5, <2>2, <4>1
        <5>. QED
          BY <2>3, <2>5, <5>1
      <4>2. CASE c # m
        <5>1. c \in 1 .. n
          BY <1>5, <4>2
        <5>2. PICK start \in Nat : start = at + 8 * (c - 1)
          OBVIOUS
        <5>3. start + 8 <= at + a
          BY <3>1, <5>1, <5>2
        <5>4. WordStored(q, start, s[c], 8)
          BY <2>1, <5>1, <5>2 DEF StringStored
        <5>5. SameBefore(q, r, at + a)
          BY <2>2, <3>1, <3>2 DEF Appended
        <5>. QED
          BY <1>3, <5>2, <5>3, <5>4, <5>5, WordStays
      <4>. QED
        BY <4>1, <4>2
    <3>. QED
      BY <3>3, <3>4, <3>5 DEF StringStored
  <2>. QED
    BY <1>2, <1>4, <1>5, <2>3, <2>4, <2>5 DEF PackedString
<1>. QED
  BY <1>6, <1>7

(* A string is packed with its zero, or the packer dies.                   *)
LEMMA PackStringWell ==
    ASSUME NEW room \in Nat, NEW p, Ready(room, p), NEW s \in Seq(Char),
           NEW t, t = Append(s, Zero), NEW n \in Nat, n = Len(s)
    PROVE  PackedString(room, p, t, n + 1, PackString(p, s))
<1>1. p \in Store(room) /\ s \in Seq(Bits32) /\ \A c \in 1 .. n : t[c] = s[c] /\ t[c] \in Bits32
  BY CharTypes DEF Ready
<1>2. t[n + 1] = Zero /\ Zero \in Bits32
  BY ZeroType
<1>3. PICK f : /\ PackString(p, s) = PackUint32(f[Len(s)], Zero, 8) /\ f[0] = p
               /\ \A k \in 1 .. Len(s) : f[k] = PackUint32(f[k - 1], s[k], 8)
               /\ \A k \in 0 .. Len(s) : f[k] \in Store(room)
  BY <1>1, PackStringDef
<1>. DEFINE Good == {k \in 0 .. n : PackedString(room, p, t, k, f[k])}
<1>4. 0 \in Good
  <2>1. Appended(room, p, p, 0) /\ p.died = FALSE
    BY AppendedNone DEF Ready, Store
  <2>2. StringStored(p, p.bit_i, t, 0)
    BY DEF StringStored
  <2>3. ~(0 > 0) /\ 8 * 0 = 0 /\ f[0] = p
    BY <1>3
  <2>4. p.died = (0 > 0 /\ p.bit_i + 8 * 0 > 8 * room)
    BY <2>1, <2>3, Zenon
  <2>. QED
    BY <1>1, <2>1, <2>2, <2>3, <2>4 DEF PackedString
<1>5. ASSUME NEW k \in 1 .. n, k - 1 \in Good PROVE k \in Good
  <2>1. PICK m \in Nat : m = k - 1 /\ m + 1 = k
    OBVIOUS
  <2>2. PackedString(room, p, t, m, f[m])
    BY <1>5, <2>1
  <2>3. t[m + 1] \in Bits32
    BY <1>1, <2>1
  <2>4. PackedString(room, p, t, m + 1, PackUint32(f[m], t[m + 1], 8))
    BY <2>2, <2>3, PackOneChar
  <2>5. f[k] = PackUint32(f[m], t[m + 1], 8)
    BY <1>1, <1>3, <2>1
  <2>. QED
    BY <2>1, <2>4, <2>5
<1>6. n \in Good
  <2>. HIDE DEF Good
  <2>. QED
    BY <1>4, <1>5, UpToEnd, Zenon
<1>7. PackedString(room, p, t, n, f[n])
  BY <1>6
<1>8. PackedString(room, p, t, n + 1, PackUint32(f[n], t[n + 1], 8))
  BY <1>2, <1>7, PackOneChar
<1>. QED
  BY <1>2, <1>3, <1>8

LEMMA PackStringDead ==
    ASSUME NEW room \in Nat, NEW p \in Store(room), p.died, NEW s \in Seq(Bits32)
    PROVE  PackString(p, s) \in Store(room) /\ PackString(p, s).died
<1>1. PICK n \in Nat : n = Len(s)
  OBVIOUS
<1>2. \A c \in 1 .. n : s[c] \in Bits32
  BY <1>1
<1>3. PICK f : /\ PackString(p, s) = PackUint32(f[Len(s)], Zero, 8) /\ f[0] = p
               /\ \A k \in 1 .. Len(s) : f[k] = PackUint32(f[k - 1], s[k], 8)
               /\ \A k \in 0 .. Len(s) : f[k] \in Store(room)
  BY PackStringDef
<1>. DEFINE Good == {k \in 0 .. n : f[k].died}
<1>4. 0 \in Good
  BY <1>3
<1>5. ASSUME NEW k \in 1 .. n, k - 1 \in Good PROVE k \in Good
  <2>1. f[k - 1] \in Store(room) /\ f[k - 1].died /\ f[k] = PackUint32(f[k - 1], s[k], 8)
    BY <1>1, <1>3, <1>5
  <2>2. f[k].died
    BY <1>2, <2>1, PackWordDead, CharTypes
  <2>. QED
    BY <2>2
<1>6. n \in Good
  <2>. HIDE DEF Good
  <2>. QED
    BY <1>4, <1>5, UpToEnd, Zenon
<1>7. f[n] \in Store(room) /\ f[n].died
  BY <1>1, <1>3, <1>6
<1>. QED
  BY <1>1, <1>3, <1>7, PackWordDead, ZeroType, CharTypes

ReadSoFar(p, s, n, k, st) ==
    IF k <= n THEN st.packer = Skip(p, 8 * k) /\ st.value = SubSeq(s, 1, k) /\ ~st.ends
    ELSE st.packer = Skip(p, 8 * (n + 1)) /\ st.value = s /\ st.ends

LEMMA WordInCopy ==
    ASSUME NEW p, NEW q, p.buf = q.buf, NEW at, NEW w, NEW n, WordStored(p, at, w, n)
    PROVE  WordStored(q, at, w, n)
BY DEF WordStored, BitAt

LEMMA ReadOneChar ==
    ASSUME NEW room \in Nat, NEW p \in Store(room), ~p.died, NEW s \in Seq(Char),
           NEW t, t = Append(s, Zero), NEW n \in Nat, n = Len(s),
           p.bit_i + 8 * (n + 1) <= 8 * room, StringStored(p, p.bit_i, t, n + 1),
           NEW k \in Nat, NEW st, ReadSoFar(p, s, n, k, st)
    PROVE  ReadSoFar(p, s, n, k + 1, IF st.ends THEN st ELSE CharTurn(st))
<1>1. PICK at \in Nat : at = p.bit_i
  BY DEF Store
<1>2. CASE k > n
  BY <1>2 DEF ReadSoFar
<1>3. CASE k <= n
  <2>1. st.packer = Skip(p, 8 * k) /\ st.value = SubSeq(s, 1, k) /\ ~st.ends
    BY <1>3 DEF ReadSoFar
  <2>2. PICK m \in Nat : m = 8 * k
    OBVIOUS
  <2>3. PICK q : q = st.packer
    OBVIOUS
  <2>4. q \in Store(room) /\ q.bit_i = p.bit_i + m /\ q.buf = p.buf /\ q.died = p.died
    <3>1. q = Skip(p, m)
      BY <2>1, <2>2, <2>3
    <3>. QED
      BY <3>1, SkipFields, ZenonT(60)
  <2>5. PICK c : c = t[k + 1]
    OBVIOUS
  <2>6. WordStored(p, at + m, c, 8)
    <3>1. k + 1 \in 1 .. n + 1
      BY <1>3
    <3>2. PICK i \in 1 .. n + 1 : i = k + 1
      BY <3>1
    <3>3. WordStored(p, at + 8 * (i - 1), t[i], 8)
      BY <1>1 DEF StringStored
    <3>4. at + 8 * (i - 1) = at + m
      BY <2>2, <3>2
    <3>. QED
      BY <2>5, <3>2, <3>3, <3>4
  <2>7. WordStored(q, q.bit_i, c, 8)
    BY <1>1, <2>4, <2>6, WordInCopy
  <2>8. q.bit_i + 8 <= 8 * room
    BY <1>1, <1>3, <2>2, <2>4
  <2>9. c \in Bits32
    <3>1. CASE k < n
      <4>1. c = s[k + 1] /\ k + 1 \in 1 .. n
        BY <2>5, <3>1
      <4>. QED
        BY <4>1, CharTypes
    <3>2. CASE k = n
      BY <2>5, <3>2, ZeroType
    <3>. QED
      BY <1>3, <3>1, <3>2
  <2>10. PICK u : u = UnpackUint32(q, 8)
    OBVIOUS
  <2>11. u = [packer |-> Skip(q, 8), value |-> Low(c, 8)]
    BY <2>4, <2>7, <2>8, <2>9, <2>10, UnpackWord, CharTypes
  <2>12. Skip(q, 8) = Skip(p, m + 8) /\ ~Skip(q, 8).died
    <3>1. q = Skip(p, m)
      BY <2>1, <2>2, <2>3
    <3>2. Skip(q, 8) = Skip(p, m + 8)
      BY <3>1, SkipMore
    <3>3. Skip(q, 8).died = q.died
      BY <2>4, SkipFields
    <3>. QED
      BY <2>4, <3>2, <3>3
  <2>13. u.packer = Skip(p, m + 8) /\ ~u.packer.died /\ u.value = Low(c, 8)
    BY <2>11, <2>12
  <2>14. CharTurn(st) = [packer |-> u.packer,
                        value |-> IF u.value = Zero THEN st.value ELSE Append(st.value, u.value),
                        ends |-> u.value = Zero]
    BY <2>3, <2>10, <2>13 DEF CharTurn
  <2>15. m + 8 = 8 * (k + 1)
    BY <2>2
  <2>16. CASE k < n
    <3>1. c = s[k + 1] /\ k + 1 \in 1 .. n
      BY <2>5, <2>16
    <3>2. Low(c, 8) = c /\ c # Zero
      BY <3>1, CharTypes
    <3>3. Append(SubSeq(s, 1, k), s[k + 1]) = SubSeq(s, 1, k + 1)
      BY <3>1
    <3>4. PICK more : more = SubSeq(s, 1, k + 1)
      OBVIOUS
    <3>5. Append(st.value, u.value) = more /\ u.value # Zero
      BY <2>1, <2>13, <3>1, <3>2, <3>3, <3>4, Zenon
    <3>6. CharTurn(st) = [packer |-> u.packer, value |-> more, ends |-> FALSE]
      BY <2>14, <3>5
    <3>7. k + 1 <= n
      BY <2>16
    <3>8. PICK r : r = CharTurn(st)
      OBVIOUS
    <3>9. r.packer = u.packer /\ r.value = more /\ ~r.ends
      BY <3>6, <3>8
    <3>10. u.packer = Skip(p, 8 * (k + 1))
      BY <2>13, <2>15, Zenon
    <3>11. ReadSoFar(p, s, n, k + 1, r)
      BY <3>7, <3>9, <3>4, <3>10, Zenon DEF ReadSoFar
    <3>. QED
      BY <2>1, <3>8, <3>11
  <2>17. CASE k = n
    <3>1. c = Zero
      BY <2>5, <2>17
    <3>2. Low(c, 8) = Zero
      BY <3>1, LowZero
    <3>3. SubSeq(s, 1, k) = s
      BY <2>17
    <3>4. CharTurn(st) = [packer |-> u.packer, value |-> s, ends |-> TRUE]
      BY <2>1, <2>13, <2>14, <3>2, <3>3
    <3>5. ~(k + 1 <= n)
      BY <2>17
    <3>. QED
      BY <2>1, <2>13, <2>15, <2>17, <3>4, <3>5 DEF ReadSoFar
  <2>. QED
    BY <1>3, <2>16, <2>17
<1>. QED
  BY <1>2, <1>3

(* A stored string is read up to its zero, for none of its characters is   *)
(* zero.                                                                   *)
LEMMA UnpackStringReads ==
    ASSUME NEW room \in Nat, NEW p \in Store(room), ~p.died, NEW s \in Seq(Char),
           NEW t, t = Append(s, Zero), NEW n \in Nat, n = Len(s),
           p.bit_i + 8 * (n + 1) <= 8 * room, StringStored(p, p.bit_i, t, n + 1)
    PROVE  UnpackString(p) = [packer |-> Skip(p, 8 * (n + 1)), value |-> s]
<1>1. PICK f : /\ UnpackString(p) = [packer |-> f[room + 1].packer, value |-> f[room + 1].value]
               /\ f[0] = [packer |-> p, value |-> <<>>, ends |-> FALSE]
               /\ \A k \in 1 .. room + 1 : f[k] = IF f[k - 1].ends THEN f[k - 1] ELSE CharTurn(f[k - 1])
               /\ \A k \in 0 .. room + 1 : f[k] \in Reading(room)
  BY UnpackStringDef
<1>. DEFINE Good == {k \in 0 .. room + 1 : ReadSoFar(p, s, n, k, f[k])}
<1>2. 0 \in Good
  <2>1. p = Skip(p, 8 * 0)
    BY DEF Skip, Store
  <2>2. SubSeq(s, 1, 0) = <<>>
    OBVIOUS
  <2>3. PICK none : none = <<>>
    OBVIOUS
  <2>4. f[0].packer = p /\ f[0].value = none /\ ~f[0].ends
    BY <1>1, <2>3
  <2>5. 0 <= n /\ 0 \in 0 .. room + 1
    OBVIOUS
  <2>6. ReadSoFar(p, s, n, 0, f[0])
    BY <2>1, <2>2, <2>3, <2>4, <2>5, Zenon DEF ReadSoFar
  <2>. QED
    BY <2>5, <2>6
<1>3. ASSUME NEW k \in 1 .. room + 1, k - 1 \in Good PROVE k \in Good
  <2>1. PICK m \in Nat : m = k - 1 /\ m + 1 = k
    OBVIOUS
  <2>2. ReadSoFar(p, s, n, m, f[m])
    BY <1>3, <2>1
  <2>3. ReadSoFar(p, s, n, m + 1, IF f[m].ends THEN f[m] ELSE CharTurn(f[m]))
    BY <2>2, ReadOneChar
  <2>. QED
    BY <1>1, <2>1, <2>3
<1>4. room + 1 \in Good
  <2>. HIDE DEF Good
  <2>1. room + 1 \in Nat
    OBVIOUS
  <2>. QED
    BY <1>2, <1>3, <2>1, UpToEnd, Zenon
<1>5. room + 1 > n
  <2>1. p.bit_i \in Nat
    BY DEF Store
  <2>. QED
    BY <2>1
<1>6. f[room + 1].packer = Skip(p, 8 * (n + 1)) /\ f[room + 1].value = s
  BY <1>4, <1>5 DEF ReadSoFar
<1>. QED
  BY <1>1, <1>6

-----------------------------------------------------------------------------
(* Floats: their three parts do not overlap.                               *)

LEMMA Powers ==
    /\ Pow2[0] = 1
    /\ \A k \in 1 .. 31 : Pow2[k] = 2 * Pow2[k - 1]
    /\ \A k \in 0 .. 31 : Pow2[k] \in Nat
<1>1. PICK f : /\ Pow2 = f /\ f[0] = 1
               /\ \A k \in 1 .. 31 : f[k] = 2 * f[k - 1]
               /\ \A k \in 0 .. 31 : f[k] \in Nat
  BY PowersDef
<1>. QED
  BY <1>1

Halved(x, half) ==
    /\ Bits(x) = [k \in Word |-> half[k - 1] % 2 = 1] /\ half[0] = x
    /\ \A k \in 1 .. 31 : half[k] = half[k - 1] \div 2

(* Halving a number below 2^n n times leaves 0: it has no bits from n on.  *)
LEMMA HalvesEnd ==
    ASSUME NEW e \in 0 .. 31, NEW x \in Nat, x < Pow2[e]
    PROVE  \E half : Halved(x, half) /\ (\A k \in 0 .. e : half[k] \in Nat)
                     /\ \A k \in e .. 31 : half[k] = 0
<1>1. PICK half : /\ Bits(x) = [k \in Word |-> half[k - 1] % 2 = 1] /\ half[0] = x
                  /\ \A k \in 1 .. 31 : half[k] = half[k - 1] \div 2
                  /\ \A k \in 0 .. 31 : half[k] \in Int
  BY HalvesDef
<1>2. Halved(x, half)
  BY <1>1 DEF Halved
<1>. DEFINE Good == {k \in 0 .. e : half[k] \in Nat /\ half[k] < Pow2[e - k]}
<1>3. 0 \in Good
  BY <1>1
<1>4. ASSUME NEW k \in 1 .. e, k - 1 \in Good PROVE k \in Good
  <2>1. PICK i \in 1 .. 31 : i = e - (k - 1)
    OBVIOUS
  <2>2. PICK a \in Nat : a = half[k - 1] /\ a < Pow2[i]
    BY <1>4, <2>1
  <2>3. PICK p \in Nat : p = Pow2[i - 1] /\ Pow2[i] = 2 * p
    BY Powers
  <2>4. half[k] = a \div 2
    BY <1>1, <2>2, SMTT(30)
  <2>5. a \div 2 \in Nat /\ a \div 2 < p
    BY <2>2, <2>3
  <2>6. i - 1 = e - k
    BY <2>1
  <2>. QED
    BY <2>3, <2>4, <2>5, <2>6
<1>5. \A k \in 0 .. e : k \in Good
  <2>. HIDE DEF Good
  <2>. QED
    BY <1>3, <1>4, UpTo
<1>6. half[e] = 0
  <2>1. half[e] \in Nat /\ half[e] < Pow2[e - e]
    BY <1>5
  <2>2. e - e = 0
    OBVIOUS
  <2>. QED
    BY <2>1, <2>2, Powers
<1>. DEFINE Rest == {m \in 0 .. 31 - e : half[e + m] = 0}
<1>7. 0 \in Rest
  BY <1>6
<1>8. ASSUME NEW m \in 1 .. 31 - e, m - 1 \in Rest PROVE m \in Rest
  <2>1. PICK k \in 1 .. 31 : k = e + m
    OBVIOUS
  <2>2. half[k - 1] = 0
    <3>1. k - 1 = e + (m - 1)
      BY <2>1
    <3>. QED
      BY <1>8, <3>1
  <2>3. half[k] = half[k - 1] \div 2
    BY <1>1
  <2>4. half[k] = 0
    BY <2>2, <2>3
  <2>. QED
    BY <2>1, <2>4
<1>9. \A m \in 0 .. 31 - e : m \in Rest
  <2>1. 31 - e \in Nat
    OBVIOUS
  <2>. HIDE DEF Rest
  <2>. QED
    BY <1>7, <1>8, <2>1, UpTo
<1>10. ASSUME NEW k \in e .. 31 PROVE half[k] = 0
  <2>1. PICK m \in 0 .. 31 - e : m = k - e /\ e + m = k
    OBVIOUS
  <2>. QED
    BY <1>9, <2>1
<1>11. \A k \in 0 .. e : half[k] \in Nat
  BY <1>5
<1>. QED
  BY <1>2, <1>10, <1>11

LEMMA HighBits ==
    ASSUME NEW e \in 0 .. 31, NEW x \in Nat, x < Pow2[e], NEW k \in Word, k > e
    PROVE  ~Bits(x)[k]
<1>1. PICK half : Halved(x, half) /\ (\A j \in 0 .. e : half[j] \in Nat)
                  /\ \A j \in e .. 31 : half[j] = 0
  BY HalvesEnd
<1>2. k - 1 \in e .. 31
  BY DEF Word
<1>3. half[k - 1] = 0
  BY <1>1, <1>2
<1>4. Bits(x)[k] = (half[k - 1] % 2 = 1)
  BY <1>1 DEF Halved
<1>5. ~(half[k - 1] % 2 = 1)
  BY <1>3
<1>. QED
  BY <1>4, <1>5, Zenon

LEMMA SignBits ==
    ASSUME NEW sign \in BOOLEAN
    PROVE  \A k \in Word : Bits(IF sign THEN 1 ELSE 0)[k] = (k = 1 /\ sign)
<1>1. CASE sign = TRUE
  <2>1. 1 < Pow2[1] /\ 1 \in 0 .. 31 /\ 1 \in Word
    <3>1. 1 \in 1 .. 31 /\ 1 - 1 = 0
      OBVIOUS
    <3>. QED
      BY <3>1, Powers DEF Word
  <2>2. \A k \in Word : k > 1 => ~Bits(1)[k]
    BY <2>1, HighBits
  <2>3. Bits(1)[1] = TRUE
    <3>1. PICK half : Halved(1, half)
      BY <2>1, HalvesEnd
    <3>2. Bits(1)[1] = (half[1 - 1] % 2 = 1)
      BY <2>1, <3>1 DEF Halved
    <3>3. half[1 - 1] = 1
      BY <3>1 DEF Halved
    <3>4. half[1 - 1] % 2 = 1
      BY <3>3
    <3>. QED
      BY <3>2, <3>4, Zenon
  <2>4. Bits(1) \in Bits32
    BY HalfType
  <2>5. ASSUME NEW k \in Word PROVE Bits(1)[k] = (k = 1)
    <3>1. Bits(1)[k] \in BOOLEAN /\ k \in 1 .. 32
      BY <2>4 DEF Bits32, Word
    <3>. QED
      BY <2>2, <2>3, <3>1
  <2>. QED
    BY <1>1, <2>5
<1>2. CASE sign = FALSE
  <2>1. \A k \in Word : Bits(0)[k] = FALSE
    BY ZeroIs DEF Zero
  <2>. QED
    BY <1>2, <2>1
<1>. QED
  BY <1>1, <1>2

(* The bits of a number have its value.                                    *)
LEMMA ValueOfBits ==
    ASSUME NEW e \in 0 .. 31, NEW x \in Nat, x < Pow2[e], NEW w \in Bits32,
           \A k \in 1 .. e : w[k] = Bits(x)[k]
    PROVE  ValueOf(w, e) = x
<1>1. PICK half : Halved(x, half) /\ (\A j \in 0 .. e : half[j] \in Nat)
                  /\ \A j \in e .. 31 : half[j] = 0
  BY HalvesEnd
<1>2. e \in Nat
  OBVIOUS
<1>3. PICK value : /\ ValueOf(w, e) = value[e] /\ value[0] = 0
                   /\ \A k \in 1 .. e : value[k] = 2 * value[k - 1] + (IF w[e + 1 - k] THEN 1 ELSE 0)
                   /\ \A k \in 0 .. e : value[k] \in Nat
  BY <1>2, ValueDef
<1>. DEFINE Good == {k \in 0 .. e : value[k] = half[e - k]}
<1>4. 0 \in Good
  <2>1. e - 0 = e /\ e \in e .. 31
    OBVIOUS
  <2>. QED
    BY <1>1, <1>3, <2>1
<1>5. ASSUME NEW k \in 1 .. e, k - 1 \in Good PROVE k \in Good
  <2>1. PICK i \in 1 .. e : i = e + 1 - k
    OBVIOUS
  <2>2. PICK a \in Nat : a = half[i - 1]
    BY <1>1
  <2>3. half[i] = a \div 2
    <3>1. i \in 1 .. 31
      OBVIOUS
    <3>. QED
      BY <1>1, <2>2, <3>1 DEF Halved
  <2>4. i \in Word
    BY DEF Word
  <2>5. w[i] = (a % 2 = 1)
    BY <1>1, <2>2, <2>4 DEF Halved
  <2>6. value[k - 1] = half[i]
    <3>1. e - (k - 1) = i
      BY <2>1
    <3>. QED
      BY <1>5, <3>1
  <2>7. value[k] = 2 * (a \div 2) + (IF w[i] THEN 1 ELSE 0)
    BY <1>3, <2>1, <2>3, <2>6
  <2>8. 2 * (a \div 2) + (IF a % 2 = 1 THEN 1 ELSE 0) = a
    <3>1. CASE a % 2 = 1
      <4>1. 2 * (a \div 2) + 1 = a
        BY <3>1
      <4>. QED
        BY <3>1, <4>1
    <3>2. CASE a % 2 # 1
      <4>1. 2 * (a \div 2) + 0 = a
        BY <3>2
      <4>. QED
        BY <3>2, <4>1
    <3>. QED
      BY <3>1, <3>2
  <2>9. value[k] = a
    <3>1. CASE w[i]
      <4>1. a % 2 = 1
        BY <2>5, <3>1
      <4>. QED
        BY <2>7, <2>8, <3>1, <4>1
    <3>2. CASE ~w[i]
      <4>1. ~(a % 2 = 1)
        BY <2>5, <3>2
      <4>. QED
        BY <2>7, <2>8, <3>2, <4>1
    <3>. QED
      BY <3>1, <3>2
  <2>10. i - 1 = e - k
    BY <2>1
  <2>. QED
    BY <2>2, <2>9, <2>10
<1>6. e \in Good
  <2>. HIDE DEF Good
  <2>. QED
    BY <1>2, <1>4, <1>5, UpToEnd
<1>7. value[e] = half[e - e] /\ e - e = 0
  BY <1>6
<1>. QED
  BY <1>1, <1>3, <1>7 DEF Halved

Sizes(e, m) == e \in 2 .. 8 /\ m \in 1 .. 23
CutFloat(flt, m) == [flt EXCEPT !.mantissa = [k \in Word |-> k > 23 - m /\ @[k]]]

LEMMA FloatFields ==
    ASSUME NEW flt \in Float
    PROVE  /\ flt.sign \in BOOLEAN /\ flt.exponent \in 0 .. 255 /\ flt.mantissa \in Bits32
           /\ \A k \in Word : k > 23 => ~flt.mantissa[k]
BY DEF Float

LEMMA FloatWordType ==
    ASSUME NEW flt \in Float, NEW e, NEW m, Sizes(e, m)
    PROVE  FloatWord(flt, e, m) \in Bits32 /\ 1 + e + m \in Word
<1>1. e \in 1 .. 31 /\ e - 1 \in 0 .. 31 /\ m \in Nat /\ 23 - m \in Nat /\ e + m \in Nat
  BY DEF Sizes
<1>2. flt.exponent - 128 + Pow2[e - 1] \in Int
  <2>1. Pow2[e - 1] \in Nat
    BY <1>1, Powers
  <2>2. flt.exponent \in Int
    BY FloatFields
  <2>. QED
    BY <2>1, <2>2
<1>3. PICK b \in Bits32 : b = Bits(flt.exponent - 128 + Pow2[e - 1])
  BY <1>2, HalfType
<1>4. PICK s \in Bits32 : s = Bits(IF flt.sign THEN 1 ELSE 0)
  BY HalfType
<1>5. PICK a \in Bits32 : a = flt.mantissa
  BY FloatFields
<1>6. Shl(b, m) \in Bits32 /\ Shr(a, 23 - m) \in Bits32 /\ Shl(s, e + m) \in Bits32
  BY <1>1, WordTypes
<1>7. FloatWord(flt, e, m) = Or(Shl(s, e + m), Or(Shl(b, m), Shr(a, 23 - m)))
  BY <1>3, <1>4, <1>5 DEF FloatWord
<1>8. FloatWord(flt, e, m) \in Bits32
  BY <1>6, <1>7, WordTypes
<1>. QED
  BY <1>8 DEF Sizes, Word

(* Sign, exponent and mantissa are taken out of the word as they went in.  *)
LEMMA FloatParts ==
    ASSUME NEW flt \in Float, NEW e, NEW m, Sizes(e, m), InRange(flt, e),
           NEW x, x = flt.exponent - 128 + Pow2[e - 1], NEW w, w = FloatWord(flt, e, m)
    PROVE  /\ x \in Nat /\ x < Pow2[e]
           /\ \A k \in 1 .. m : w[k] = flt.mantissa[k + (23 - m)]
           /\ \A k \in 1 .. e : w[m + k] = Bits(x)[k]
           /\ w[1 + e + m] = flt.sign
<1>1. e \in 2 .. 8 /\ m \in 1 .. 23
  BY DEF Sizes
<1>2. x \in Nat /\ x < Pow2[e]
  <2>1. PICK i \in 1 .. 31 : i = e
    BY <1>1
  <2>2. PICK p \in Nat : p = Pow2[i - 1] /\ Pow2[i] = 2 * p
    BY Powers
  <2>3. PICK y \in 128 - p .. 127 + p : y = flt.exponent
    BY <2>1, <2>2 DEF InRange
  <2>4. x = y - 128 + p
    BY <2>1, <2>2, <2>3
  <2>. QED
    BY <2>1, <2>2, <2>3, <2>4
<1>3. PICK sign \in BOOLEAN : sign = flt.sign
  BY FloatFields
<1>4. PICK s \in Bits32 : s = Bits(IF sign THEN 1 ELSE 0)
  BY HalfType
<1>5. PICK b \in Bits32 : b = Bits(x)
  BY <1>2, HalfType
<1>6. PICK a \in Bits32 : a = flt.mantissa /\ \A k \in Word : k > 23 => ~a[k]
  BY FloatFields
<1>7. w = Or(Shl(s, e + m), Or(Shl(b, m), Shr(a, 23 - m)))
  BY <1>3, <1>4, <1>5, <1>6 DEF FloatWord
<1>8. ASSUME NEW k \in Word
      PROVE  w[k] = ((k > e + m /\ s[k - (e + m)])
                        \/ ((k > m /\ b[k - m]) \/ (k + (23 - m) <= 32 /\ a[k + (23 - m)])))
  BY <1>7 DEF Or, Shl, Shr
<1>9. \A k \in Word : s[k] = (k = 1 /\ sign)
  BY <1>4, SignBits
<1>10. \A k \in Word : k > e => ~b[k]
  <2>1. e \in 0 .. 31
    BY <1>1
  <2>. QED
    BY <1>2, <1>5, <2>1, HighBits
<1>11. ASSUME NEW k \in 1 .. m PROVE w[k] = a[k + (23 - m)]
  <2>1. k \in Word /\ ~(k > m) /\ ~(k > e + m) /\ k + (23 - m) <= 32 /\ k + (23 - m) \in Word
    BY <1>1 DEF Word
  <2>2. a[k + (23 - m)] \in BOOLEAN
    BY <2>1 DEF Bits32
  <2>3. w[k] = (FALSE \/ (FALSE \/ a[k + (23 - m)]))
    BY <1>8, <2>1
  <2>. QED
    BY <2>2, <2>3
<1>12. ASSUME NEW k \in 1 .. e PROVE w[m + k] = b[k]
  <2>1. PICK j \in Word : j = m + k
    BY <1>1 DEF Word
  <2>2. j > m /\ ~(j > e + m) /\ j - m = k
    BY <1>1, <2>1
  <2>3. ~(j + (23 - m) <= 32 /\ a[j + (23 - m)])
    <3>1. ASSUME j + (23 - m) <= 32 PROVE ~a[j + (23 - m)]
      <4>1. j + (23 - m) \in Word /\ j + (23 - m) > 23
        BY <1>1, <2>1, <3>1 DEF Word
      <4>. QED
        BY <1>6, <4>1
    <3>. QED
      BY <3>1
  <2>4. b[k] \in BOOLEAN
    <3>1. k \in Word
      BY <1>1 DEF Word
    <3>. QED
      BY <3>1 DEF Bits32
  <2>5. w[j] = b[k]
    BY <1>8, <2>2, <2>3, <2>4
  <2>. QED
    BY <2>1, <2>5
<1>13. w[1 + e + m] = sign
  <2>1. PICK j \in Word : j = 1 + e + m
    BY <1>1 DEF Word
  <2>2. j > e + m /\ j - (e + m) = 1 /\ 1 \in Word
    BY <1>1, <2>1 DEF Word
  <2>3. ~(j + (23 - m) <= 32 /\ a[j + (23 - m)])
    <3>1. ASSUME j + (23 - m) <= 32 PROVE ~a[j + (23 - m)]
      <4>1. j + (23 - m) \in Word /\ j + (23 - m) > 23
        BY <1>1, <2>1, <3>1 DEF Word
      <4>. QED
        BY <1>6, <4>1
    <3>. QED
      BY <3>1
  <2>4. ~(j > m /\ b[j - m])
    <3>1. j - m \in Word /\ j - m > e
      BY <1>1, <2>1 DEF Word
    <3>. QED
      BY <1>10, <3>1
  <2>5. s[j - (e + m)] = sign
    <3>1. s[1] = sign
      BY <1>9, <2>2
    <3>. QED
      BY <2>2, <3>1
  <2>6. w[j] = sign
    BY <1>8, <2>2, <2>3, <2>4, <2>5
  <2>. QED
    BY <2>1, <2>6
<1>. QED
  BY <1>2, <1>3, <1>5, <1>6, <1>11, <1>12, <1>13

(* An exponent in range comes back, and the mantissa cut to its bits.      *)
LEMMA FloatComesBack ==
    ASSUME NEW flt \in Float, NEW e, NEW m, Sizes(e, m), InRange(flt, e)
    PROVE  FloatIn(Low(FloatWord(flt, e, m), 1 + e + m), e, m) = CutFloat(flt, m)
<1>1. e \in 2 .. 8 /\ m \in 1 .. 23
  BY DEF Sizes
<1>2. PICK x : x = flt.exponent - 128 + Pow2[e - 1]
  OBVIOUS
<1>3. PICK w \in Bits32 : w = FloatWord(flt, e, m)
  BY FloatWordType
<1>4. PICK u : u = Low(w, 1 + e + m)
  OBVIOUS
<1>5. \A k \in Word : u[k] = (k <= 1 + e + m /\ w[k])
  BY <1>4 DEF Low
<1>6. u \in Bits32
  BY <1>4 DEF Low, Bits32
<1>7. /\ x \in Nat /\ x < Pow2[e]
      /\ \A k \in 1 .. m : w[k] = flt.mantissa[k + (23 - m)]
      /\ \A k \in 1 .. e : w[m + k] = Bits(x)[k]
      /\ w[1 + e + m] = flt.sign
  BY <1>2, <1>3, FloatParts
<1>8. \A k \in Word : w[k] \in BOOLEAN
  BY <1>3 DEF Bits32
<1>9. u[1 + e + m] = flt.sign
  <2>1. PICK j \in Word : j = 1 + e + m
    BY <1>1 DEF Word
  <2>2. j <= 1 + e + m
    BY <2>1 DEF Word
  <2>3. u[j] = w[j]
    BY <1>5, <1>8, <2>2
  <2>. QED
    BY <1>7, <2>1, <2>3
<1>10. ValueOf(Shr(u, m), e) = x
  <2>1. m \in Nat /\ e \in 0 .. 31
    BY <1>1
  <2>2. Shr(u, m) \in Bits32
    BY <1>6, <2>1, WordTypes
  <2>3. ASSUME NEW k \in 1 .. e PROVE Shr(u, m)[k] = Bits(x)[k]
    <3>1. k \in Word /\ k + m <= 32
      BY <1>1 DEF Word
    <3>2. PICK j \in Word : j = m + k /\ j = k + m /\ j <= 1 + e + m
      BY <1>1 DEF Word
    <3>3. Shr(u, m)[k] = (k + m <= 32 /\ u[k + m])
      BY <3>1 DEF Shr
    <3>4. u[j] = w[j] /\ w[j] \in BOOLEAN
      BY <1>5, <1>8, <3>2
    <3>5. w[j] = Bits(x)[k]
      BY <1>7, <3>2
    <3>. QED
      BY <3>1, <3>2, <3>3, <3>4, <3>5
  <2>. QED
    BY <1>7, <2>1, <2>2, <2>3, ValueOfBits
<1>11. PICK exponent \in 0 .. 255 : exponent = flt.exponent
  BY FloatFields
<1>12. x - Pow2[e - 1] + 128 = exponent
  <2>1. e - 1 \in 0 .. 31
    BY <1>1
  <2>2. PICK p \in Nat : p = Pow2[e - 1]
    BY <2>1, Powers
  <2>3. x = exponent - 128 + p
    BY <1>2, <1>11, <2>2
  <2>. QED
    BY <2>2, <2>3
<1>13. PICK a \in Bits32 : a = flt.mantissa /\ \A k \in Word : k > 23 => ~a[k]
  BY FloatFields
<1>14. PICK b : b = Low(Shl(Low(u, m), 23 - m), 23)
  OBVIOUS
<1>15. b = [k \in Word |-> k > 23 - m /\ a[k]]
  <2>1. ASSUME NEW k \in Word
        PROVE  (k <= 23 /\ (k > 23 - m /\ (k - (23 - m) <= m /\ u[k - (23 - m)]))) = (k > 23 - m /\ a[k])
    <3>1. k \in 1 .. 32 /\ a[k] \in BOOLEAN
      BY DEF Word, Bits32
    <3>2. CASE k > 23
      BY <1>13, <3>1, <3>2
    <3>3. CASE ~(k > 23 - m)
      BY <3>3
    <3>4. CASE k <= 23 /\ k > 23 - m
      <4>1. PICK i \in 1 .. m : i = k - (23 - m)
        BY <1>1, <3>1, <3>4
      <4>2. i \in Word /\ i <= 1 + e + m /\ i <= m /\ i + (23 - m) = k
        BY <1>1, <4>1 DEF Word
      <4>3. u[i] = w[i]
        BY <1>5, <1>8, <4>2
      <4>4. w[i] = a[k]
        BY <1>7, <1>13, <4>2
      <4>5. u[i] = a[k]
        BY <4>3, <4>4
      <4>. QED
        BY <3>1, <3>4, <4>1, <4>2, <4>5
    <3>. QED
      BY <1>1, <3>1, <3>2, <3>3, <3>4
  <2>2. ASSUME NEW k \in Word
        PROVE  (k > 23 - m /\ Low(u, m)[k - (23 - m)]) = (k > 23 - m /\ (k - (23 - m) <= m /\ u[k - (23 - m)]))
    <3>1. ASSUME k > 23 - m PROVE k - (23 - m) \in Word
      BY <1>1, <3>1 DEF Word
    <3>. QED
      BY <3>1 DEF Low
  <2>3. \A k \in Word : b[k] = (k <= 23 /\ (k > 23 - m /\ Low(u, m)[k - (23 - m)]))
    BY <1>14 DEF Low, Shl
  <2>4. \A k \in Word : b[k] = (k > 23 - m /\ a[k])
    BY <2>1, <2>2, <2>3
  <2>5. b = [k \in Word |-> b[k]]
    BY <1>14 DEF Low
  <2>. QED
    BY <2>4, <2>5
<1>16. FloatIn(u, e, m) = [sign |-> flt.sign, exponent |-> exponent, mantissa |-> b]
  BY <1>9, <1>10, <1>12, <1>14 DEF FloatIn, Flt
<1>17. CutFloat(flt, m) = [flt EXCEPT !.mantissa = b]
  BY <1>13, <1>15 DEF CutFloat
<1>18. [flt EXCEPT !.mantissa = b] = [sign |-> flt.sign, exponent |-> exponent, mantissa |-> b]
  BY <1>11 DEF Float
<1>. QED
  BY <1>3, <1>4, <1>16, <1>17, <1>18

-----------------------------------------------------------------------------
(* Values of the three kinds.                                              *)

LEMMA ValueKinds ==
    ASSUME NEW v \in Value
    PROVE  \/ v.kind = "uint32" /\ v.value \in Bits32 /\ v.e \in Word
           \/ v.kind = "string" /\ v.value \in Seq(Char)
           \/ v.kind = "float" /\ v.value \in Float /\ Sizes(v.e, v.m)
<1>. DEFINE A == [kind : {"uint32"}, value : Bits32, e : Word, m : {0}]
            B == [kind : {"string"}, value : Seq(Char), e : {0}, m : {0}]
            C == [kind : {"float"}, value : Float, e : 2 .. 8, m : 1 .. 23]
<1>1. v \in A \/ v \in B \/ v \in C
  BY DEF Value
<1>2. ASSUME v \in A PROVE v.kind = "uint32" /\ v.value \in Bits32 /\ v.e \in Word
  BY <1>2
<1>3. ASSUME v \in B PROVE v.kind = "string" /\ v.value \in Seq(Char)
  BY <1>3
<1>4. ASSUME v \in C PROVE v.kind = "float" /\ v.value \in Float /\ Sizes(v.e, v.m)
  BY <1>4 DEF Sizes
<1>. QED
  BY <1>1, <1>2, <1>3, <1>4

LEMMA WordOf ==
    ASSUME NEW v, v.kind = "uint32"
    PROVE  /\ Width(v) = v.e /\ Cut(v) = Low(v.value, v.e)
           /\ \A p : Pack(p, v) = PackUint32(p, v.value, v.e) /\ Unpack(p, v) = UnpackUint32(p, v.e)
BY DEF Width, Cut, Pack, Unpack

LEMMA StringOf ==
    ASSUME NEW v, v.kind = "string"
    PROVE  /\ Width(v) = 8 * (Len(v.value) + 1) /\ Cut(v) = v.value
           /\ \A p : Pack(p, v) = PackString(p, v.value) /\ Unpack(p, v) = UnpackString(p)
BY DEF Width, Cut, Pack, Unpack

LEMMA FloatOf ==
    ASSUME NEW v, v.kind = "float"
    PROVE  /\ Width(v) = 1 + v.e + v.m /\ Cut(v) = CutFloat(v.value, v.m)
           /\ \A p : /\ Pack(p, v) = PackUint32(p, FloatWord(v.value, v.e, v.m), 1 + v.e + v.m)
                     /\ Unpack(p, v) = LET u == UnpackUint32(p, 1 + v.e + v.m)
                                       IN  [packer |-> u.packer, value |-> FloatIn(u.value, v.e, v.m)]
BY DEF Width, Cut, Pack, Unpack, PackFloat, UnpackFloat, CutFloat

(* Where and how a value is stored.                                        *)
Stored(p, at, v) ==
    /\ v.kind = "uint32" => WordStored(p, at, v.value, v.e)
    /\ v.kind = "string" => StringStored(p, at, Append(v.value, Zero), Len(v.value) + 1)
    /\ v.kind = "float" => WordStored(p, at, FloatWord(v.value, v.e, v.m), 1 + v.e + v.m)

LEMMA WidthType ==
    ASSUME NEW v \in Value
    PROVE  Width(v) \in Nat /\ Width(v) > 0
<1>1. CASE v.kind = "uint32" /\ v.value \in Bits32 /\ v.e \in Word
  BY <1>1, WordOf DEF Word
<1>2. CASE v.kind = "string" /\ v.value \in Seq(Char)
  <2>1. PICK n \in Nat : n = Len(v.value)
    BY <1>2
  <2>. QED
    BY <1>2, <2>1, StringOf
<1>3. CASE v.kind = "float" /\ v.value \in Float /\ Sizes(v.e, v.m)
  BY <1>3, FloatOf DEF Sizes
<1>. QED
  BY <1>1, <1>2, <1>3, ValueKinds

StoredWell(room, p, q, n, v) ==
    /\ q \in Store(room) /\ q.died = (p.bit_i + n > 8 * room)
    /\ ~q.died => Appended(room, p, q, n) /\ Stored(q, p.bit_i, v)

(* Each value is stored at the cursor, or the packer dies.                 *)
LEMMA PackWell ==
    ASSUME NEW room \in Nat, NEW p, Ready(room, p), NEW v \in Value
    PROVE  StoredWell(room, p, Pack(p, v), Width(v), v)
<1>1. PICK q : q = Pack(p, v)
  OBVIOUS
<1>2. CASE v.kind = "uint32" /\ v.value \in Bits32 /\ v.e \in Word
  <2>1. q = PackUint32(p, v.value, v.e) /\ Width(v) = v.e
    BY <1>1, <1>2, WordOf
  <2>2. /\ q \in Store(room) /\ q.died = (p.bit_i + v.e > 8 * room)
        /\ ~q.died => Appended(room, p, q, v.e) /\ WordStored(q, p.bit_i, v.value, v.e)
    BY <1>2, <2>1, PackWord
  <2>3. WordStored(q, p.bit_i, v.value, v.e) => Stored(q, p.bit_i, v)
    BY <1>2 DEF Stored
  <2>. QED
    BY <1>1, <2>1, <2>2, <2>3 DEF StoredWell
<1>3. CASE v.kind = "string" /\ v.value \in Seq(Char)
  <2>1. PICK n \in Nat : n = Len(v.value)
    BY <1>3
  <2>2. PICK t : t = Append(v.value, Zero)
    OBVIOUS
  <2>3. q = PackString(p, v.value) /\ Width(v) = 8 * (n + 1)
    BY <1>1, <1>3, <2>1, StringOf
  <2>4. PackedString(room, p, t, n + 1, q)
    BY <1>3, <2>1, <2>2, <2>3, PackStringWell
  <2>5. n + 1 > 0
    OBVIOUS
  <2>6. /\ q \in Store(room) /\ q.died = (p.bit_i + 8 * (n + 1) > 8 * room)
        /\ ~q.died => Appended(room, p, q, 8 * (n + 1)) /\ StringStored(q, p.bit_i, t, n + 1)
    BY <2>4, <2>5 DEF PackedString
  <2>7. StringStored(q, p.bit_i, t, n + 1) => Stored(q, p.bit_i, v)
    BY <1>3, <2>1, <2>2 DEF Stored
  <2>. QED
    BY <1>1, <2>3, <2>6, <2>7 DEF StoredWell
<1>4. CASE v.kind = "float" /\ v.value \in Float /\ Sizes(v.e, v.m)
  <2>1. PICK w \in Bits32 : w = FloatWord(v.value, v.e, v.m)
    BY <1>4, FloatWordType
  <2>2. PICK n \in Word : n = 1 + v.e + v.m
    BY <1>4, FloatWordType
  <2>3. q = PackUint32(p, w, n) /\ Width(v) = n
    BY <1>1, <1>4, <2>1, <2>2, FloatOf
  <2>4. /\ q \in Store(room) /\ q.died = (p.bit_i + n > 8 * room)
        /\ ~q.died => Appended(room, p, q, n) /\ WordStored(q, p.bit_i, w, n)
    BY <2>3, PackWord
  <2>5. WordStored(q, p.bit_i, w, n) => Stored(q, p.bit_i, v)
    BY <1>4, <2>1, <2>2 DEF Stored
  <2>. QED
    BY <1>1, <2>3, <2>4, <2>5 DEF StoredWell
<1>. QED
  BY <1>2, <1>3, <1>4, ValueKinds

LEMMA CharsAreWords == \A s \in Seq(Char) : s \in Seq(Bits32)
BY CharTypes

LEMMA PackDead ==
    ASSUME NEW room \in Nat, NEW p \in Store(room), p.died, NEW v \in Value
    PROVE  Pack(p, v) \in Store(room) /\ Pack(p, v).died
<1>1. CASE v.kind = "uint32" /\ v.value \in Bits32 /\ v.e \in Word
  BY <1>1, WordOf, PackWordDead
<1>2. CASE v.kind = "string" /\ v.value \in Seq(Char)
  BY <1>2, StringOf, PackStringDead, CharsAreWords
<1>3. CASE v.kind = "float" /\ v.value \in Float /\ Sizes(v.e, v.m)
  BY <1>3, FloatOf, PackWordDead, FloatWordType
<1>. QED
  BY <1>1, <1>2, <1>3, ValueKinds

LEMMA PackType ==
    ASSUME NEW room \in Nat, NEW p \in Store(room), NEW v \in Value
    PROVE  Pack(p, v) \in Store(room)
<1>1. CASE v.kind = "uint32" /\ v.value \in Bits32 /\ v.e \in Word
  <2>1. v.e \in Nat
    BY <1>1 DEF Word
  <2>. QED
    BY <1>1, <2>1, WordOf, PackUint32Type
<1>2. CASE v.kind = "string" /\ v.value \in Seq(Char)
  <2>1. PICK s \in Seq(Bits32) : s = v.value
    BY <1>2, CharsAreWords
  <2>2. PICK f : /\ PackString(p, s) = PackUint32(f[Len(s)], Zero, 8) /\ f[0] = p
                 /\ \A k \in 1 .. Len(s) : f[k] = PackUint32(f[k - 1], s[k], 8)
                 /\ \A k \in 0 .. Len(s) : f[k] \in Store(room)
    BY PackStringDef
  <2>3. f[Len(s)] \in Store(room)
    BY <2>2
  <2>4. PackString(p, s) \in Store(room)
    BY <2>2, <2>3, PackUint32Type, ZeroType
  <2>. QED
    BY <1>2, <2>1, <2>4, StringOf
<1>3. CASE v.kind = "float" /\ v.value \in Float /\ Sizes(v.e, v.m)
  <2>1. PICK w \in Bits32, n \in Word : w = FloatWord(v.value, v.e, v.m) /\ n = 1 + v.e + v.m
    BY <1>3, FloatWordType
  <2>2. n \in Nat
    BY DEF Word
  <2>. QED
    BY <1>3, <2>1, <2>2, FloatOf, PackUint32Type
<1>. QED
  BY <1>1, <1>2, <1>3, ValueKinds

(* A stored value stays when more is packed, and is read from wherever the *)
(* cursor is put on it.                                                    *)
LEMMA StoredStays ==
    ASSUME NEW room \in Nat, NEW p, NEW q, NEW at \in Nat, NEW v \in Value, NEW end \in Nat,
           at + Width(v) <= end, SameBefore(p, q, end), Stored(p, at, v)
    PROVE  Stored(q, at, v)
<1>1. CASE v.kind = "uint32" /\ v.value \in Bits32 /\ v.e \in Word
  <2>1. v.e \in Nat /\ at + v.e <= end
    BY <1>1, WordOf DEF Word
  <2>2. WordStored(q, at, v.value, v.e)
    BY <1>1, <2>1, WordStays DEF Stored
  <2>. QED
    BY <1>1, <2>2 DEF Stored
<1>2. CASE v.kind = "string" /\ v.value \in Seq(Char)
  <2>1. PICK n \in Nat : n = Len(v.value)
    BY <1>2
  <2>2. PICK t : t = Append(v.value, Zero)
    OBVIOUS
  <2>3. at + 8 * (n + 1) <= end
    BY <1>2, <2>1, StringOf
  <2>4. StringStored(p, at, t, n + 1)
    BY <1>2, <2>1, <2>2 DEF Stored
  <2>5. ASSUME NEW c \in 1 .. n + 1 PROVE WordStored(q, at + 8 * (c - 1), t[c], 8)
    <3>1. PICK start \in Nat : start = at + 8 * (c - 1)
      OBVIOUS
    <3>2. start + 8 <= end
      BY <2>3, <3>1
    <3>3. WordStored(p, start, t[c], 8)
      BY <2>4, <3>1 DEF StringStored
    <3>4. WordStored(q, start, t[c], 8)
      BY <3>2, <3>3, WordStays
    <3>. QED
      BY <3>1, <3>4
  <2>6. StringStored(q, at, t, n + 1)
    BY <2>5 DEF StringStored
  <2>. QED
    BY <1>2, <2>1, <2>2, <2>6 DEF Stored
<1>3. CASE v.kind = "float" /\ v.value \in Float /\ Sizes(v.e, v.m)
  <2>1. PICK n \in Nat : n = 1 + v.e + v.m
    BY <1>3, FloatWordType DEF Word
  <2>2. at + n <= end
    BY <1>3, <2>1, FloatOf
  <2>3. PICK w : w = FloatWord(v.value, v.e, v.m)
    OBVIOUS
  <2>4. WordStored(p, at, w, n)
    BY <1>3, <2>1, <2>3 DEF Stored
  <2>5. WordStored(q, at, w, n)
    BY <2>2, <2>4, WordStays
  <2>. QED
    BY <1>3, <2>1, <2>3, <2>5 DEF Stored
<1>. QED
  BY <1>1, <1>2, <1>3, ValueKinds

LEMMA StoredInCopy ==
    ASSUME NEW p, NEW q, p.buf = q.buf, NEW at, NEW v, Stored(p, at, v)
    PROVE  Stored(q, at, v)
BY WordInCopy DEF Stored, StringStored

ReadWell(p, v, u) ==
    /\ u.packer = Skip(p, Width(v))
    /\ v.kind # "float" \/ InRange(v.value, v.e) => u.value = Cut(v)

(* A stored value is read.                                                 *)
LEMMA UnpackWell ==
    ASSUME NEW room \in Nat, NEW p \in Store(room), ~p.died, NEW v \in Value,
           p.bit_i + Width(v) <= 8 * room, Stored(p, p.bit_i, v)
    PROVE  ReadWell(p, v, Unpack(p, v))
<1>1. CASE v.kind = "uint32" /\ v.value \in Bits32 /\ v.e \in Word
  <2>1. PICK n \in Word, w \in Bits32 : n = v.e /\ w = v.value
    BY <1>1
  <2>2. p.bit_i + n <= 8 * room /\ WordStored(p, p.bit_i, w, n)
    BY <1>1, <2>1, WordOf DEF Stored
  <2>3. UnpackUint32(p, n) = [packer |-> Skip(p, n), value |-> Low(w, n)]
    BY <2>2, UnpackWord
  <2>. QED
    BY <1>1, <2>1, <2>3, WordOf DEF ReadWell
<1>2. CASE v.kind = "string" /\ v.value \in Seq(Char)
  <2>1. PICK s \in Seq(Char) : s = v.value
    BY <1>2
  <2>2. PICK n \in Nat : n = Len(s)
    OBVIOUS
  <2>3. PICK t : t = Append(s, Zero)
    OBVIOUS
  <2>4. Width(v) = 8 * (n + 1) /\ Cut(v) = s /\ Unpack(p, v) = UnpackString(p)
    BY <1>2, <2>1, <2>2, StringOf
  <2>5. StringStored(p, p.bit_i, t, n + 1)
    BY <1>2, <2>1, <2>2, <2>3 DEF Stored
  <2>6. p.bit_i + 8 * (n + 1) <= 8 * room
    BY <2>4
  <2>7. UnpackString(p) = [packer |-> Skip(p, 8 * (n + 1)), value |-> s]
    BY <2>2, <2>3, <2>5, <2>6, UnpackStringReads
  <2>8. PICK u : u = Unpack(p, v)
    OBVIOUS
  <2>9. u.packer = Skip(p, Width(v)) /\ u.value = Cut(v)
    BY <2>4, <2>7, <2>8
  <2>. QED
    BY <2>8, <2>9 DEF ReadWell
<1>3. CASE v.kind = "float" /\ v.value \in Float /\ Sizes(v.e, v.m)
  <2>1. PICK w \in Bits32, n \in Word : w = FloatWord(v.value, v.e, v.m) /\ n = 1 + v.e + v.m
    BY <1>3, FloatWordType
  <2>2. Width(v) = n
    BY <1>3, <2>1, FloatOf
  <2>3. p.bit_i + n <= 8 * room /\ WordStored(p, p.bit_i, w, n)
    BY <1>3, <2>1, <2>2 DEF Stored
  <2>4. UnpackUint32(p, n) = [packer |-> Skip(p, n), value |-> Low(w, n)]
    BY <2>3, UnpackWord
  <2>5. PICK a : a = Low(w, n)
    OBVIOUS
  <2>6. Unpack(p, v) = [packer |-> Skip(p, n), value |-> FloatIn(a, v.e, v.m)]
    BY <1>3, <2>1, <2>4, <2>5, FloatOf
  <2>7. ASSUME InRange(v.value, v.e) PROVE FloatIn(a, v.e, v.m) = Cut(v)
    BY <1>3, <2>1, <2>5, <2>7, FloatComesBack, FloatOf
  <2>8. PICK u : u = Unpack(p, v)
    OBVIOUS
  <2>9. u.packer = Skip(p, n) /\ u.value = FloatIn(a, v.e, v.m)
    BY <2>6, <2>8
  <2>. QED
    BY <1>3, <2>2, <2>7, <2>8, <2>9 DEF ReadWell
<1>. QED
  BY <1>1, <1>2, <1>3, ValueKinds

-----------------------------------------------------------------------------
(* All values of a list.                                                   *)

(* What can be read, and in what order.                                    *)
Decoded == [sign : BOOLEAN, exponent : Int, mantissa : Bits32]
Readable == Bits32 \cup Seq(Bits32) \cup Decoded
Found(room) == [packer : Store(room), values : Seq(Readable)]

LEMMA UnpackType ==
    ASSUME NEW room \in Nat, NEW p \in Store(room), NEW v \in Value
    PROVE  Unpack(p, v).packer \in Store(room) /\ Unpack(p, v).value \in Readable
<1>1. CASE v.kind = "uint32" /\ v.value \in Bits32 /\ v.e \in Word
  <2>1. v.e \in Nat
    BY <1>1 DEF Word
  <2>2. PICK u \in Unpacked(room, Bits32) : u = Unpack(p, v)
    BY <1>1, <2>1, WordOf, UnpackUint32Type
  <2>3. u.packer \in Store(room) /\ u.value \in Bits32
    BY DEF Unpacked
  <2>. QED
    BY <2>2, <2>3 DEF Readable
<1>2. CASE v.kind = "string" /\ v.value \in Seq(Char)
  <2>1. PICK f : /\ UnpackString(p) = [packer |-> f[room + 1].packer, value |-> f[room + 1].value]
                 /\ f[0] = [packer |-> p, value |-> <<>>, ends |-> FALSE]
                 /\ \A k \in 1 .. room + 1 : f[k] = IF f[k - 1].ends THEN f[k - 1] ELSE CharTurn(f[k - 1])
                 /\ \A k \in 0 .. room + 1 : f[k] \in Reading(room)
    BY UnpackStringDef
  <2>2. room + 1 \in 0 .. room + 1
    OBVIOUS
  <2>3. f[room + 1].packer \in Store(room) /\ f[room + 1].value \in Seq(Bits32)
    BY <2>1, <2>2 DEF Reading
  <2>4. PICK u : u = UnpackString(p) /\ u.packer \in Store(room) /\ u.value \in Seq(Bits32)
    BY <2>1, <2>3
  <2>. QED
    BY <1>2, <2>4, StringOf DEF Readable
<1>3. CASE v.kind = "float" /\ v.value \in Float /\ Sizes(v.e, v.m)
  <2>1. PICK e \in 2 .. 8, m \in 1 .. 23 : e = v.e /\ m = v.m
    BY <1>3 DEF Sizes
  <2>2. PICK n \in Word : n = 1 + e + m
    BY <2>1 DEF Word
  <2>3. n \in Nat /\ m \in Nat /\ e \in Nat /\ 23 - m \in Nat /\ 23 \in Nat
    BY DEF Word
  <2>4. PICK u \in Unpacked(room, Bits32) : u = UnpackUint32(p, n)
    BY <2>3, UnpackUint32Type
  <2>5. u.packer \in Store(room) /\ u.value \in Bits32
    BY DEF Unpacked
  <2>6. PICK w \in Bits32 : w = u.value
    BY <2>5
  <2>7. w[n] \in BOOLEAN
    BY DEF Bits32
  <2>8. Low(Shl(Low(w, m), 23 - m), 23) \in Bits32 /\ Shr(w, m) \in Bits32
    BY <2>3, WordTypes
  <2>9. ValueOf(Shr(w, m), e) - Pow2[e - 1] + 128 \in Int
    <3>1. PICK r \in Bits32 : r = Shr(w, m)
      BY <2>8
    <3>2. PICK value : /\ ValueOf(r, e) = value[e] /\ value[0] = 0
                       /\ \A k \in 1 .. e : value[k] = 2 * value[k - 1] + (IF r[e + 1 - k] THEN 1 ELSE 0)
                       /\ \A k \in 0 .. e : value[k] \in Nat
      BY <2>3, ValueDef
    <3>3. ValueOf(r, e) \in Nat
      BY <3>2
    <3>4. Pow2[e - 1] \in Nat
      <4>1. e - 1 \in 0 .. 31
        OBVIOUS
      <4>. QED
        BY <4>1, Powers
    <3>. QED
      BY <3>1, <3>3, <3>4
  <2>10. FloatIn(w, e, m) \in Decoded
    BY <2>2, <2>7, <2>8, <2>9 DEF FloatIn, Flt, Decoded
  <2>11. Unpack(p, v) = [packer |-> u.packer, value |-> FloatIn(w, e, m)]
    BY <1>3, <2>1, <2>2, <2>4, <2>6, FloatOf
  <2>. QED
    BY <2>5, <2>10, <2>11 DEF Readable
<1>. QED
  BY <1>1, <1>2, <1>3, ValueKinds

LEMMA UnpackNextType ==
    ASSUME NEW room \in Nat, NEW before \in Found(room), NEW v \in Value
    PROVE  UnpackNext(before, v) \in Found(room)
<1>1. before.packer \in Store(room) /\ before.values \in Seq(Readable)
  BY DEF Found
<1>2. PICK u : u = Unpack(before.packer, v)
  OBVIOUS
<1>3. u.packer \in Store(room) /\ u.value \in Readable
  BY <1>1, <1>2, UnpackType
<1>4. PICK values \in Seq(Readable) : values = Append(before.values, u.value)
  <2>1. PICK found \in Seq(Readable), value \in Readable : found = before.values /\ value = u.value
    BY <1>1, <1>3
  <2>2. Append(found, value) \in Seq(Readable)
    OBVIOUS
  <2>. QED
    BY <2>1, <2>2
<1>5. UnpackNext(before, v) = [packer |-> u.packer, values |-> values]
  BY <1>2, <1>4 DEF UnpackNext
<1>. QED
  BY <1>3, <1>5 DEF Found

LEMMA StartFound ==
    ASSUME NEW room \in Nat, NEW packer \in Store(room)
    PROVE  [packer |-> [packer EXCEPT !.bit_i = 0], values |-> <<>>] \in Found(room)
<1>1. PICK none \in Seq(Readable) : none = <<>>
  BY EmptySeq
<1>2. [packer EXCEPT !.bit_i = 0] \in Store(room)
  BY DEF Store
<1>. QED
  BY <1>1, <1>2 DEF Found

LEMMA PackAllDef ==
    ASSUME NEW room \in Nat, NEW packer \in Store(room), NEW values \in Seq(Value)
    PROVE  \E f : /\ PackAll(packer, values) = f[Len(values)] /\ f[0] = packer
                  /\ \A k \in 1 .. Len(values) : f[k] = Pack(f[k - 1], values[k])
                  /\ \A k \in 0 .. Len(values) : f[k] \in Store(room)
<1>. DEFINE Turn(before, k) == Pack(before, values[k])
            F(t) == [k \in 0 .. Len(values) |-> IF k = 0 THEN packer ELSE Turn(t[k - 1], k)]
            f == CHOOSE t : t = F(t)
<1>1. PackAll(packer, values) = f[Len(values)]
  BY DEF PackAll
<1>2. PICK top \in Nat : top = Len(values)
  OBVIOUS
<1>3. PICK S : S = Store(room)
  OBVIOUS
<1>4. PICK start \in S : start = packer
  BY <1>3
<1>5. \A before \in S, k \in 1 .. top : Turn(before, k) \in S
  BY <1>2, <1>3, PackType
<1>. HIDE DEF Turn
<1>6. PICK g : g = [k \in 1 .. top |-> [before \in S |-> Turn(before, k)]]
  OBVIOUS
<1>7. g \in Turns(top, S)
  BY <1>5, <1>6 DEF Turns
<1>8. PICK t : Goes(top, S, start, g, t)
  BY <1>7, ForwardExists
<1>9. t \in [0 .. top -> S] /\ t[0] = start /\ \A k \in 1 .. top : t[k] = g[k][t[k - 1]]
  BY <1>8 DEF Goes
<1>10. t = F(t)
  <2>1. \A k \in 1 .. top : t[k - 1] \in S
    BY <1>9
  <2>2. \A k \in 1 .. top : t[k] = Turn(t[k - 1], k)
    BY <1>6, <1>9, <2>1
  <2>3. \A k \in 0 .. top : t[k] = IF k = 0 THEN start ELSE Turn(t[k - 1], k)
    BY <1>9, <2>2
  <2>4. t = [k \in 0 .. top |-> t[k]]
    BY <1>9
  <2>. QED
    BY <1>2, <1>4, <2>3, <2>4
<1>11. f = F(f)
  BY <1>10, Zenon
<1>. HIDE DEF f
<1>12. PICK z : z = f /\ z = F(z)
  BY <1>11
<1>13. z = [k \in 0 .. top |-> IF k = 0 THEN start ELSE Turn(z[k - 1], k)]
  BY <1>2, <1>4, <1>12, Zenon
<1>. HIDE DEF F
<1>14. z[0] = start /\ \A k \in 1 .. top : z[k] = Turn(z[k - 1], k)
  BY <1>13
<1>15. \A k \in 0 .. top : z[k] \in S
  BY <1>5, <1>14, TypedTurns
<1>16. /\ z[0] = packer /\ \A k \in 1 .. Len(values) : z[k] = Turn(z[k - 1], k)
       /\ \A k \in 0 .. Len(values) : z[k] \in Store(room)
  BY <1>2, <1>3, <1>4, <1>14, <1>15
<1>17. \A k \in 1 .. Len(values) : z[k] = Pack(z[k - 1], values[k])
  BY <1>16 DEF Turn
<1>18. PackAll(packer, values) = z[Len(values)]
  BY <1>1, <1>12
<1>. QED
  BY <1>16, <1>17, <1>18

LEMMA TotalWidthDef ==
    ASSUME NEW values \in Seq(Value)
    PROVE  \E f : /\ TotalWidth(values) = f[Len(values)] /\ f[0] = 0
                  /\ \A k \in 1 .. Len(values) : f[k] = f[k - 1] + Width(values[k])
                  /\ \A k \in 0 .. Len(values) : f[k] \in Nat
<1>. DEFINE Turn(before, k) == before + Width(values[k])
            F(t) == [k \in 0 .. Len(values) |-> IF k = 0 THEN 0 ELSE Turn(t[k - 1], k)]
            f == CHOOSE t : t = F(t)
<1>1. TotalWidth(values) = f[Len(values)]
  BY DEF TotalWidth
<1>2. PICK top \in Nat : top = Len(values)
  OBVIOUS
<1>3. PICK S : S = Nat
  OBVIOUS
<1>4. PICK start \in S : start = 0
  BY <1>3
<1>5. \A before \in S, k \in 1 .. top : Turn(before, k) \in S
  BY <1>2, <1>3, WidthType
<1>. HIDE DEF Turn
<1>6. PICK g : g = [k \in 1 .. top |-> [before \in S |-> Turn(before, k)]]
  OBVIOUS
<1>7. g \in Turns(top, S)
  BY <1>5, <1>6 DEF Turns
<1>8. PICK t : Goes(top, S, start, g, t)
  BY <1>7, ForwardExists
<1>9. t \in [0 .. top -> S] /\ t[0] = start /\ \A k \in 1 .. top : t[k] = g[k][t[k - 1]]
  BY <1>8 DEF Goes
<1>10. t = F(t)
  <2>1. \A k \in 1 .. top : t[k - 1] \in S
    BY <1>9
  <2>2. \A k \in 1 .. top : t[k] = Turn(t[k - 1], k)
    BY <1>6, <1>9, <2>1
  <2>3. \A k \in 0 .. top : t[k] = IF k = 0 THEN start ELSE Turn(t[k - 1], k)
    BY <1>9, <2>2
  <2>4. t = [k \in 0 .. top |-> t[k]]
    BY <1>9
  <2>. QED
    BY <1>2, <1>4, <2>3, <2>4
<1>11. f = F(f)
  BY <1>10, Zenon
<1>. HIDE DEF f
<1>12. PICK z : z = f /\ z = F(z)
  BY <1>11
<1>13. z = [k \in 0 .. top |-> IF k = 0 THEN start ELSE Turn(z[k - 1], k)]
  BY <1>2, <1>4, <1>12, Zenon
<1>. HIDE DEF F
<1>14. z[0] = start /\ \A k \in 1 .. top : z[k] = Turn(z[k - 1], k)
  BY <1>13
<1>15. \A k \in 0 .. top : z[k] \in S
  BY <1>5, <1>14, TypedTurns
<1>16. /\ z[0] = 0 /\ \A k \in 1 .. Len(values) : z[k] = Turn(z[k - 1], k)
       /\ \A k \in 0 .. Len(values) : z[k] \in Nat
  BY <1>2, <1>3, <1>4, <1>14, <1>15
<1>17. \A k \in 1 .. Len(values) : z[k] = z[k - 1] + Width(values[k])
  BY <1>16 DEF Turn
<1>18. TotalWidth(values) = z[Len(values)]
  BY <1>1, <1>12
<1>. QED
  BY <1>16, <1>17, <1>18

LEMMA UnpackAllDef ==
    ASSUME NEW room \in Nat, NEW packer \in Store(room), NEW values \in Seq(Value)
    PROVE  \E f : /\ UnpackAll(packer, values) = f[Len(values)]
                  /\ f[0] = [packer |-> [packer EXCEPT !.bit_i = 0], values |-> <<>>]
                  /\ \A k \in 1 .. Len(values) : f[k] = UnpackNext(f[k - 1], values[k])
                  /\ \A k \in 0 .. Len(values) : f[k] \in Found(room)
<1>. DEFINE Turn(before, k) == UnpackNext(before, values[k])
            F(t) == [k \in 0 .. Len(values) |->
                    IF k = 0 THEN [packer |-> [packer EXCEPT !.bit_i = 0], values |-> <<>>]
                    ELSE Turn(t[k - 1], k)]
            f == CHOOSE t : t = F(t)
<1>1. UnpackAll(packer, values) = f[Len(values)]
  BY DEF UnpackAll
<1>2. PICK top \in Nat : top = Len(values)
  OBVIOUS
<1>3. PICK S : S = Found(room)
  OBVIOUS
<1>4. PICK start \in S : start = [packer |-> [packer EXCEPT !.bit_i = 0], values |-> <<>>]
  BY <1>3, StartFound
<1>5. \A before \in S, k \in 1 .. top : Turn(before, k) \in S
  BY <1>2, <1>3, UnpackNextType
<1>. HIDE DEF Turn
<1>6. PICK g : g = [k \in 1 .. top |-> [before \in S |-> Turn(before, k)]]
  OBVIOUS
<1>7. g \in Turns(top, S)
  BY <1>5, <1>6 DEF Turns
<1>8. PICK t : Goes(top, S, start, g, t)
  BY <1>7, ForwardExists
<1>9. t \in [0 .. top -> S] /\ t[0] = start /\ \A k \in 1 .. top : t[k] = g[k][t[k - 1]]
  BY <1>8 DEF Goes
<1>10. t = F(t)
  <2>1. \A k \in 1 .. top : t[k - 1] \in S
    BY <1>9
  <2>2. \A k \in 1 .. top : t[k] = Turn(t[k - 1], k)
    BY <1>6, <1>9, <2>1
  <2>3. \A k \in 0 .. top : t[k] = IF k = 0 THEN start ELSE Turn(t[k - 1], k)
    BY <1>9, <2>2
  <2>4. t = [k \in 0 .. top |-> t[k]]
    BY <1>9
  <2>. QED
    BY <1>2, <1>4, <2>3, <2>4
<1>11. f = F(f)
  BY <1>10, Zenon
<1>. HIDE DEF f
<1>12. PICK z : z = f /\ z = F(z)
  BY <1>11
<1>13. z = [k \in 0 .. top |-> IF k = 0 THEN start ELSE Turn(z[k - 1], k)]
  BY <1>2, <1>4, <1>12, Zenon
<1>. HIDE DEF F
<1>14. z[0] = start /\ \A k \in 1 .. top : z[k] = Turn(z[k - 1], k)
  BY <1>13
<1>15. \A k \in 0 .. top : z[k] \in S
  BY <1>5, <1>14, TypedTurns
<1>16. /\ z[0] = [packer |-> [packer EXCEPT !.bit_i = 0], values |-> <<>>]
       /\ \A k \in 1 .. Len(values) : z[k] = Turn(z[k - 1], k)
       /\ \A k \in 0 .. Len(values) : z[k] \in Found(room)
  BY <1>2, <1>3, <1>4, <1>14, <1>15
<1>17. \A k \in 1 .. Len(values) : z[k] = UnpackNext(z[k - 1], values[k])
  BY <1>16 DEF Turn
<1>18. UnpackAll(packer, values) = z[Len(values)]
  BY <1>1, <1>12
<1>. QED
  BY <1>16, <1>17, <1>18

Wide(values, width, n) ==
    /\ TotalWidth(values) = width[n] /\ width[0] = 0
    /\ \A k \in 1 .. n : width[k] = width[k - 1] + Width(values[k])
    /\ \A k \in 0 .. n : width[k] \in Nat

LEMMA WidthsGrow ==
    ASSUME NEW values \in Seq(Value), NEW n \in Nat, n = Len(values), NEW width, Wide(values, width, n),
           NEW i \in 0 .. n
    PROVE  \A k \in i .. n : width[i] <= width[k]
<1>. DEFINE Good == {m \in 0 .. n - i : width[i] <= width[i + m]}
<1>1. 0 \in Good
  <2>1. width[i] \in Nat /\ i + 0 = i
    BY DEF Wide
  <2>. QED
    BY <2>1
<1>2. ASSUME NEW m \in 1 .. n - i, m - 1 \in Good PROVE m \in Good
  <2>1. PICK k \in 1 .. n : k = i + m
    OBVIOUS
  <2>2. i + (m - 1) = k - 1 /\ k - 1 \in 0 .. n
    BY <2>1
  <2>3. PICK a \in Nat, b \in Nat : a = width[i] /\ b = width[k - 1] /\ a <= b
    BY <1>2, <2>2 DEF Wide
  <2>4. PICK w \in Nat : w = Width(values[k])
    BY WidthType
  <2>5. width[k] = b + w
    BY <2>3, <2>4 DEF Wide
  <2>. QED
    BY <2>1, <2>3, <2>5
<1>3. \A m \in 0 .. n - i : m \in Good
  <2>1. n - i \in Nat
    OBVIOUS
  <2>. HIDE DEF Good
  <2>. QED
    BY <1>1, <1>2, <2>1, UpTo
<1>4. ASSUME NEW k \in i .. n PROVE width[i] <= width[k]
  <2>1. PICK m \in 0 .. n - i : m = k - i /\ i + m = k
    OBVIOUS
  <2>. QED
    BY <1>3, <2>1
<1>. QED
  BY <1>4

AllStored(p, values, width, n) == \A i \in 1 .. n : Stored(p, width[i - 1], values[i])
PackedAll(room, values, width, n, p) ==
    /\ p \in Store(room) /\ p.died = (width[n] > 8 * room)
    /\ ~p.died => Ready(room, p) /\ p.bit_i = width[n] /\ AllStored(p, values, width, n)

LEMMA PackNext ==
    ASSUME NEW room \in Nat, NEW values \in Seq(Value), NEW n \in Nat, n = Len(values),
           NEW width, Wide(values, width, n), NEW k \in 1 .. n, NEW p, PackedAll(room, values, width, k - 1, p)
    PROVE  PackedAll(room, values, width, k, Pack(p, values[k]))
<1>1. PICK v \in Value : v = values[k]
  OBVIOUS
<1>2. PICK w \in Nat : w = Width(v)
  BY WidthType
<1>3. PICK a \in Nat : a = width[k - 1]
  BY DEF Wide
<1>4. width[k] = a + w
  BY <1>1, <1>2, <1>3 DEF Wide
<1>5. PICK q : q = Pack(p, v)
  OBVIOUS
<1>6. p \in Store(room) /\ p.died = (a > 8 * room)
  BY <1>3 DEF PackedAll
<1>7. CASE p.died
  <2>1. q \in Store(room) /\ q.died
    BY <1>5, <1>6, <1>7, PackDead
  <2>2. a > 8 * room
    BY <1>6, <1>7, Zenon
  <2>3. width[k] > 8 * room
    BY <1>4, <2>2
  <2>4. q.died = TRUE
    BY <2>1 DEF Store
  <2>. QED
    BY <1>1, <1>5, <2>1, <2>3, <2>4 DEF PackedAll
<1>8. CASE ~p.died
  <2>1. Ready(room, p) /\ p.bit_i = a /\ AllStored(p, values, width, k - 1)
    BY <1>3, <1>8 DEF PackedAll
  <2>2. StoredWell(room, p, q, w, v)
    BY <1>2, <1>5, <2>1, PackWell
  <2>3. q \in Store(room) /\ q.died = (width[k] > 8 * room)
    BY <1>4, <2>1, <2>2 DEF StoredWell
  <2>4. ASSUME ~q.died PROVE Ready(room, q) /\ q.bit_i = width[k] /\ AllStored(q, values, width, k)
    <3>1. Ready(room, q) /\ q.bit_i = a + w /\ SameBefore(p, q, a) /\ Stored(q, a, v)
      BY <2>1, <2>2, <2>4 DEF StoredWell, Appended
    <3>2. ASSUME NEW i \in 1 .. k PROVE Stored(q, width[i - 1], values[i])
      <4>1. CASE i = k
        BY <1>1, <1>3, <3>1, <4>1
      <4>2. CASE i # k
        <5>1. i \in 1 .. n /\ i \in 1 .. k - 1 /\ i \in 0 .. n /\ i - 1 \in 0 .. n /\ k - 1 \in i .. n
          BY <4>2
        <5>2. PICK u \in Value : u = values[i]
          BY <5>1
        <5>3. PICK b \in Nat : b = width[i - 1]
          BY <5>1 DEF Wide
        <5>4. PICK x \in Nat : x = Width(u)
          BY WidthType
        <5>5. width[i] = b + x
          BY <5>1, <5>2, <5>3, <5>4 DEF Wide
        <5>6. b + x <= a
          BY <1>3, <5>1, <5>5, WidthsGrow
        <5>7. Stored(p, b, u)
          BY <2>1, <5>1, <5>2, <5>3 DEF AllStored
        <5>8. Stored(q, b, u)
          BY <3>1, <5>4, <5>6, <5>7, StoredStays
        <5>. QED
          BY <5>2, <5>3, <5>8
      <4>. QED
        BY <4>1, <4>2
    <3>. QED
      BY <1>4, <3>1, <3>2 DEF AllStored
  <2>. QED
    BY <1>1, <1>5, <2>3, <2>4 DEF PackedAll
<1>. QED
  BY <1>7, <1>8

LEMMA PackerReady ==
    ASSUME NEW room \in Nat, NEW dirt \in BOOLEAN
    PROVE  Ready(room, Packer(room, dirt)) /\ Packer(room, dirt).bit_i = 0
<1>1. PICK byte \in Byte8 : byte = [k \in 0 .. 7 |-> dirt]
  BY DEF Byte8
<1>2. PICK buf \in Buffer(room) : buf = [ofs \in 0 .. room - 1 |-> byte]
  BY DEF Buffer
<1>3. Packer(room, dirt) = [size |-> room, buf |-> buf, bit_i |-> 0, died |-> FALSE]
  BY <1>1, <1>2 DEF Packer
<1>4. 0 % 8 = 0
  OBVIOUS
<1>. QED
  BY <1>3, <1>4 DEF Ready, Store, Clean

(* The values lie one behind the other, or the packer died at the first    *)
(* that did not fit.                                                       *)
LEMMA PackAllWell ==
    ASSUME NEW room \in Nat, NEW dirt \in BOOLEAN, NEW values \in Seq(Value), NEW n \in Nat, n = Len(values),
           NEW width, Wide(values, width, n)
    PROVE  PackedAll(room, values, width, n, PackAll(Packer(room, dirt), values))
<1>1. PICK p : p = Packer(room, dirt)
  OBVIOUS
<1>2. Ready(room, p) /\ p \in Store(room) /\ p.bit_i = 0 /\ ~p.died
  BY <1>1, PackerReady DEF Ready
<1>3. PICK f : /\ PackAll(p, values) = f[Len(values)] /\ f[0] = p
               /\ \A k \in 1 .. Len(values) : f[k] = Pack(f[k - 1], values[k])
               /\ \A k \in 0 .. Len(values) : f[k] \in Store(room)
  BY <1>2, PackAllDef
<1>. DEFINE Good == {k \in 0 .. n : PackedAll(room, values, width, k, f[k])}
<1>4. 0 \in Good
  <2>1. width[0] = 0
    BY DEF Wide
  <2>2. ~(width[0] > 8 * room)
    BY <2>1
  <2>3. p.died = FALSE
    BY <1>2 DEF Store
  <2>4. AllStored(p, values, width, 0)
    BY DEF AllStored
  <2>5. (0 > 8 * room) = FALSE
    OBVIOUS
  <2>6. p.died = (width[0] > 8 * room) /\ p.bit_i = width[0]
    BY <1>2, <2>1, <2>3, <2>5, Zenon
  <2>7. PackedAll(room, values, width, 0, p)
    BY <1>2, <2>4, <2>6, Zenon DEF PackedAll
  <2>. QED
    BY <1>3, <2>7
<1>5. ASSUME NEW k \in 1 .. n, k - 1 \in Good PROVE k \in Good
  <2>1. PackedAll(room, values, width, k, Pack(f[k - 1], values[k]))
    BY <1>5, PackNext
  <2>. QED
    BY <1>3, <2>1
<1>6. n \in Good
  <2>. HIDE DEF Good
  <2>. QED
    BY <1>4, <1>5, UpToEnd, Zenon
<1>. QED
  BY <1>1, <1>3, <1>6

FoundSoFar(p, values, width, n, found) ==
    /\ found.packer = Skip([p EXCEPT !.bit_i = 0], width[n]) /\ Len(found.values) = n
    /\ \A i \in 1 .. n : values[i].kind # "float" \/ InRange(values[i].value, values[i].e)
                            => found.values[i] = Cut(values[i])

LEMMA FindNext ==
    ASSUME NEW room \in Nat, NEW values \in Seq(Value), NEW n \in Nat, n = Len(values),
           NEW width, Wide(values, width, n), NEW p \in Store(room), ~p.died, width[n] <= 8 * room,
           AllStored(p, values, width, n),
           NEW k \in 1 .. n, NEW found \in Found(room), FoundSoFar(p, values, width, k - 1, found)
    PROVE  FoundSoFar(p, values, width, k, UnpackNext(found, values[k]))
<1>1. PICK v \in Value : v = values[k]
  OBVIOUS
<1>2. PICK w \in Nat : w = Width(v)
  BY WidthType
<1>3. PICK a \in Nat : a = width[k - 1]
  BY DEF Wide
<1>4. width[k] = a + w
  BY <1>1, <1>2, <1>3 DEF Wide
<1>5. PICK start \in Store(room) : /\ start = [p EXCEPT !.bit_i = 0] /\ start.bit_i = 0
                                   /\ start.buf = p.buf /\ ~start.died
  <2>1. PICK start : start = [p EXCEPT !.bit_i = 0]
    OBVIOUS
  <2>2. start \in Store(room) /\ start.bit_i = 0 /\ start.buf = p.buf /\ start.died = p.died
    BY <2>1 DEF Store
  <2>. QED
    BY <2>1, <2>2
<1>6. PICK q : q = found.packer
  OBVIOUS
<1>7. q = Skip(start, a)
  BY <1>3, <1>5, <1>6 DEF FoundSoFar
<1>8. q \in Store(room) /\ q.bit_i = a /\ q.buf = p.buf /\ ~q.died
  <2>1. q \in Store(room) /\ q.bit_i = start.bit_i + a /\ q.buf = start.buf /\ q.died = start.died
    BY <1>7, SkipFields, ZenonT(60)
  <2>. QED
    BY <1>5, <2>1
<1>9. a + w <= 8 * room
  <2>1. k \in 0 .. n /\ n \in k .. n
    OBVIOUS
  <2>2. width[n] \in Nat
    BY <2>1 DEF Wide
  <2>3. \A j \in k .. n : width[k] <= width[j]
    BY <2>1, WidthsGrow, Zenon
  <2>4. width[k] <= width[n]
    BY <2>1, <2>3
  <2>. QED
    BY <1>4, <2>2, <2>4
<1>10. Stored(q, q.bit_i, v)
  <2>1. Stored(p, a, v)
    BY <1>1, <1>3 DEF AllStored
  <2>. QED
    BY <1>8, <2>1, StoredInCopy
<1>11. PICK u : u = Unpack(q, v)
  OBVIOUS
<1>12. ReadWell(q, v, u)
  BY <1>2, <1>8, <1>9, <1>10, <1>11, UnpackWell
<1>13. u.packer = Skip(start, a + w)
  BY <1>2, <1>5, <1>7, <1>12, SkipMore DEF ReadWell
<1>14. u.value \in Readable
  BY <1>8, <1>11, UnpackType
<1>15. PICK old \in Seq(Readable) : old = found.values /\ Len(old) = k - 1
  BY DEF Found, FoundSoFar
<1>16. PICK new : new = Append(old, u.value)
  OBVIOUS
<1>17. Len(new) = k /\ new[k] = u.value /\ \A i \in 1 .. k - 1 : new[i] = old[i]
  BY <1>14, <1>15, <1>16
<1>18. PICK next : next = UnpackNext(found, v)
  OBVIOUS
<1>19. next.packer = u.packer /\ next.values = new
  BY <1>6, <1>11, <1>15, <1>16, <1>18 DEF UnpackNext
<1>20. ASSUME NEW i \in 1 .. k, values[i].kind # "float" \/ InRange(values[i].value, values[i].e)
       PROVE  new[i] = Cut(values[i])
  <2>1. CASE i = k
    <3>1. u.value = Cut(v)
      BY <1>1, <1>12, <1>20, <2>1 DEF ReadWell
    <3>. QED
      BY <1>1, <1>17, <2>1, <3>1
  <2>2. CASE i # k
    <3>1. i \in 1 .. k - 1
      BY <2>2
    <3>2. old[i] = Cut(values[i])
      BY <1>15, <1>20, <3>1 DEF FoundSoFar
    <3>. QED
      BY <1>17, <3>1, <3>2
  <2>. QED
    BY <2>1, <2>2
<1>21. next.packer = Skip([p EXCEPT !.bit_i = 0], width[k]) /\ Len(next.values) = k
  BY <1>4, <1>5, <1>13, <1>17, <1>19
<1>22. FoundSoFar(p, values, width, k, next)
  BY <1>19, <1>20, <1>21 DEF FoundSoFar
<1>. QED
  BY <1>1, <1>18, <1>22

(* They are found in the order in which they were packed.                  *)
LEMMA UnpackAllWell ==
    ASSUME NEW room \in Nat, NEW values \in Seq(Value), NEW n \in Nat, n = Len(values),
           NEW width, Wide(values, width, n), NEW p \in Store(room), ~p.died, width[n] <= 8 * room,
           AllStored(p, values, width, n)
    PROVE  FoundSoFar(p, values, width, n, UnpackAll(p, values))
<1>1. PICK f : /\ UnpackAll(p, values) = f[Len(values)]
               /\ f[0] = [packer |-> [p EXCEPT !.bit_i = 0], values |-> <<>>]
               /\ \A k \in 1 .. Len(values) : f[k] = UnpackNext(f[k - 1], values[k])
               /\ \A k \in 0 .. Len(values) : f[k] \in Found(room)
  BY UnpackAllDef
<1>. DEFINE Good == {k \in 0 .. n : FoundSoFar(p, values, width, k, f[k])}
<1>2. 0 \in Good
  <2>1. PICK start \in Store(room) : start = [p EXCEPT !.bit_i = 0]
    <3>1. [p EXCEPT !.bit_i = 0] \in Store(room)
      BY DEF Store
    <3>. QED
      BY <3>1
  <2>2. width[0] = 0
    BY DEF Wide
  <2>3. start = Skip(start, 0)
    BY DEF Skip, Store
  <2>4. PICK none : none = <<>> /\ Len(none) = 0
    OBVIOUS
  <2>5. f[0].packer = start /\ f[0].values = none
    BY <1>1, <2>1, <2>4
  <2>. QED
    BY <2>1, <2>2, <2>3, <2>4, <2>5 DEF FoundSoFar
<1>3. ASSUME NEW k \in 1 .. n, k - 1 \in Good PROVE k \in Good
  <2>1. f[k - 1] \in Found(room) /\ FoundSoFar(p, values, width, k - 1, f[k - 1])
    BY <1>1, <1>3
  <2>2. FoundSoFar(p, values, width, k, UnpackNext(f[k - 1], values[k]))
    BY <2>1, FindNext
  <2>. QED
    BY <1>1, <2>2
<1>4. n \in Good
  <2>. HIDE DEF Good
  <2>. QED
    BY <1>2, <1>3, UpToEnd, Zenon
<1>. QED
  BY <1>1, <1>4

(* What the property says of values.                                       *)
PacksWell(in, out) ==
    /\ out.packer.died = (TotalWidth(in.values) > 8 * in.size)
    /\ ~out.packer.died =>
        /\ out.unpacked.packer.bit_i = out.packer.bit_i
        /\ \A n \in DOMAIN in.values :
            LET v == in.values[n] IN
            v.kind # "float" \/ InRange(v.value, v.e) => out.unpacked.values[n] = Cut(v)

LEMMA PackingComesBack ==
    ASSUME NEW in \in [size : Nat, dirt : BOOLEAN, values : Seq(Value)]
    PROVE  PacksWell(in, PackedAndUnpacked(in))
<1>1. PICK room \in Nat, dirt \in BOOLEAN, values \in Seq(Value) :
        room = in.size /\ dirt = in.dirt /\ values = in.values
  OBVIOUS
<1>2. PICK n \in Nat : n = Len(values)
  OBVIOUS
<1>3. PICK width : Wide(values, width, n)
  BY <1>2, TotalWidthDef DEF Wide
<1>4. PICK p : p = PackAll(Packer(room, dirt), values)
  OBVIOUS
<1>5. PackedAll(room, values, width, n, p)
  BY <1>2, <1>3, <1>4, PackAllWell
<1>6. p \in Store(room) /\ p.died = (TotalWidth(values) > 8 * room)
  BY <1>3, <1>5 DEF PackedAll, Wide
<1>7. PICK out : out = PackedAndUnpacked(in)
  OBVIOUS
<1>8. CASE p.died
  <2>1. out = [packer |-> p]
    BY <1>1, <1>4, <1>7, <1>8 DEF PackedAndUnpacked
  <2>2. out.packer = p
    BY <2>1
  <2>. QED
    BY <1>1, <1>6, <1>7, <1>8, <2>2 DEF PacksWell
<1>9. CASE ~p.died
  <2>1. p.bit_i = width[n] /\ AllStored(p, values, width, n)
    BY <1>5, <1>9 DEF PackedAll
  <2>2. width[n] \in Nat /\ width[n] <= 8 * room
    <3>1. ~(TotalWidth(values) > 8 * room)
      BY <1>6, <1>9, Zenon
    <3>2. width[n] \in Nat /\ TotalWidth(values) = width[n]
      BY <1>3 DEF Wide
    <3>. QED
      BY <3>1, <3>2
  <2>3. PICK found : found = UnpackAll(p, values)
    OBVIOUS
  <2>4. FoundSoFar(p, values, width, n, found)
    BY <1>2, <1>3, <1>6, <1>9, <2>1, <2>2, <2>3, UnpackAllWell
  <2>5. out = [packer |-> p, unpacked |-> found]
    BY <1>1, <1>4, <1>7, <1>9, <2>3 DEF PackedAndUnpacked
  <2>6. out.packer = p /\ out.unpacked = found
    BY <2>5
  <2>7. found.packer.bit_i = p.bit_i
    <3>1. PICK start : start = [p EXCEPT !.bit_i = 0]
      OBVIOUS
    <3>2. start \in Store(room) /\ start.bit_i = 0
      BY <1>6, <3>1 DEF Store
    <3>3. found.packer = Skip(start, width[n])
      BY <2>4, <3>1 DEF FoundSoFar
    <3>4. PICK w \in Nat : w = width[n]
      BY <2>2
    <3>5. PICK q : q = Skip(start, w)
      OBVIOUS
    <3>6. q.bit_i = start.bit_i + w
      BY <3>2, <3>5, SkipFields
    <3>. QED
      BY <2>1, <3>2, <3>3, <3>4, <3>5, <3>6
  <2>8. DOMAIN values = 1 .. n
    BY <1>2
  <2>9. \A i \in 1 .. n : values[i].kind # "float" \/ InRange(values[i].value, values[i].e)
                            => found.values[i] = Cut(values[i])
    BY <2>4 DEF FoundSoFar
  <2>. QED
    BY <1>1, <1>6, <1>7, <2>6, <2>7, <2>8, <2>9 DEF PacksWell
<1>. QED
  BY <1>8, <1>9

-----------------------------------------------------------------------------
(* Bit masks.                                                              *)

(* The words of a mask.                                                    *)
Byte32 == [0 .. 31 -> BOOLEAN]
Data(bit_num) == [0 .. WordNum(bit_num) - 1 -> Byte32]
Bitmask(bit_num) == [bit_num : {bit_num}, data : Data(bit_num), died : BOOLEAN]

AllBits(N, mask, bit) ==
    /\ mask \in Bitmask(N) /\ ~mask.died
    /\ \A i \in 0 .. WordNum(N) - 1, k \in 0 .. 31 : mask.data[i][k] = bit

LEMMA MaskOfType ==
    ASSUME NEW N \in Nat, NEW bit \in BOOLEAN
    PROVE  AllBits(N, MaskOf(N, bit), bit)
<1>1. PICK word \in Byte32 : word = [k \in 0 .. 31 |-> bit]
  BY DEF Byte32
<1>2. PICK data \in Data(N) : data = [i \in 0 .. WordNum(N) - 1 |-> word]
  BY DEF Data
<1>3. MaskOf(N, bit) = [bit_num |-> N, data |-> data, died |-> FALSE]
  BY <1>1, <1>2 DEF MaskOf
<1>4. \A i \in 0 .. WordNum(N) - 1, k \in 0 .. 31 : data[i][k] = bit
  BY <1>1, <1>2
<1>. QED
  BY <1>3, <1>4 DEF Bitmask, AllBits

LEMMA OpKinds ==
    ASSUME NEW op \in MaskOp
    PROVE  \/ op[1] \in {"one", "zero"} /\ op[2] = 0
           \/ op[1] \in {"set", "unset"} /\ op[2] \in Nat
BY DEF MaskOp

LEMMA Indexes ==
    ASSUME NEW N \in Nat, NEW index \in 0 .. N - 1
    PROVE  index \div 32 \in 0 .. WordNum(N) - 1 /\ index % 32 \in 0 .. 31
           /\ index = 32 * (index \div 32) + (index % 32)
<1>1. index % 32 \in 0 .. 31
  OBVIOUS
<1>2. index = 32 * (index \div 32) + (index % 32)
  OBVIOUS
<1>3. index \div 32 \in 0 .. WordNum(N) - 1
  BY DEF WordNum
<1>. QED
  BY <1>1, <1>2, <1>3

(* bitmask_set() and bitmask_unset() change one bit.                       *)
LEMMA PutIs ==
    ASSUME NEW N \in Nat, NEW mask \in Bitmask(N), ~mask.died, NEW index \in 0 .. N - 1, NEW bit \in BOOLEAN,
           NEW q, q = Put(mask, index, bit)
    PROVE  /\ q \in Bitmask(N) /\ ~q.died
           /\ \A i \in 0 .. N - 1 : Get(q, i) = IF i = index THEN bit ELSE Get(mask, i)
<1>1. PICK o \in 0 .. WordNum(N) - 1, k \in 0 .. 31 : o = index \div 32 /\ k = index % 32 /\ index = 32 * o + k
  BY Indexes
<1>2. PICK word \in Byte32 : word = [mask.data[o] EXCEPT ![k] = bit]
  BY DEF Bitmask, Data, Byte32
<1>3. PICK data \in Data(N) : data = [mask.data EXCEPT ![o] = word]
  BY DEF Bitmask, Data
<1>4. ~(mask.died \/ mask.bit_num <= index)
  BY DEF Bitmask
<1>5. Put(mask, index, bit) = [mask EXCEPT !.data[o][k] = bit]
  BY <1>1, <1>4 DEF Put
<1>. HIDE DEF Byte32
<1>6. [mask EXCEPT !.data[o][k] = bit] = [mask EXCEPT !.data = data]
  BY <1>2, <1>3 DEF Bitmask
<1>. HIDE DEF Data
<1>7. q \in Bitmask(N) /\ q.data = data /\ q.died = mask.died
  BY <1>5, <1>6 DEF Bitmask
<1>8. ASSUME NEW i \in 0 .. N - 1 PROVE Get(q, i) = IF i = index THEN bit ELSE Get(mask, i)
  <2>1. PICK oi \in 0 .. WordNum(N) - 1, ki \in 0 .. 31 : oi = i \div 32 /\ ki = i % 32 /\ i = 32 * oi + ki
    BY Indexes
  <2>2. Get(q, i) = data[oi][ki] /\ Get(mask, i) = mask.data[oi][ki]
    BY <1>7, <2>1 DEF Get
  <2>3. mask.data \in Data(N) /\ mask.data[oi] \in Byte32 /\ mask.data[o] \in Byte32
    BY DEF Bitmask, Data
  <2>4. data[o] = word /\ \A j \in 0 .. WordNum(N) - 1 : j # o => data[j] = mask.data[j]
    BY <1>3, <2>3 DEF Data
  <2>5. word[k] = bit /\ \A j \in 0 .. 31 : j # k => word[j] = mask.data[o][j]
    BY <1>2, <2>3 DEF Byte32
  <2>6. CASE oi = o /\ ki = k
    BY <1>1, <2>1, <2>2, <2>4, <2>5, <2>6
  <2>7. CASE oi = o /\ ki # k
    <3>1. i # index
      BY <1>1, <2>1, <2>7
    <3>. QED
      BY <2>2, <2>4, <2>5, <2>7, <3>1
  <2>8. CASE oi # o
    <3>1. i # index
      BY <1>1, <2>1, <2>8
    <3>. QED
      BY <2>2, <2>4, <2>8, <3>1
  <2>. QED
    BY <2>6, <2>7, <2>8
<1>. QED
  BY <1>7, <1>8

LEMMA DeadMask ==
    ASSUME NEW N \in Nat, NEW mask \in Bitmask(N), NEW index \in Nat, NEW bit,
           mask.died \/ index >= N
    PROVE  Put(mask, index, bit) \in Bitmask(N) /\ Put(mask, index, bit).died
<1>1. Put(mask, index, bit) = [mask EXCEPT !.died = TRUE]
  BY DEF Put, Bitmask
<1>. QED
  BY <1>1 DEF Bitmask

Turns01(op) == op[1] \in {"set", "one"}

(* An operation changes the bits it is on, or the mask dies.               *)
LEMMA MaskedIs ==
    ASSUME NEW N \in Nat, N # 0, NEW mask \in Bitmask(N), NEW op \in MaskOp, NEW q, q = Masked(mask, op)
    PROVE  /\ q \in Bitmask(N) /\ q.died = (mask.died \/ op[2] >= N)
           /\ ~q.died => \A i \in 0 .. N - 1 : Get(q, i) = IF OnBit(op, i) THEN Turns01(op) ELSE Get(mask, i)
<1>1. CASE op[1] \in {"one", "zero"} /\ op[2] = 0
  <2>1. q = Fill(mask, op[1] = "one")
    BY <1>1 DEF Masked
  <2>2. ~(op[2] >= N)
    BY <1>1
  <2>3. CASE mask.died
    <3>1. q = mask
      BY <2>1, <2>3 DEF Fill
    <3>. QED
      BY <2>3, <3>1 DEF Bitmask
  <2>4. CASE ~mask.died
    <3>1. PICK bit \in BOOLEAN : bit = (op[1] = "one")
      OBVIOUS
    <3>2. PICK p : p = MaskOf(N, bit)
      OBVIOUS
    <3>3. p \in Bitmask(N) /\ ~p.died /\ \A i \in 0 .. WordNum(N) - 1, k \in 0 .. 31 : p.data[i][k] = bit
      <4>1. AllBits(N, p, bit)
        BY <3>2, MaskOfType, Zenon
      <4>. QED
        BY <4>1 DEF AllBits
    <3>4. q = p
      <4>1. mask.bit_num = N
        BY DEF Bitmask
      <4>2. q = [p EXCEPT !.died = FALSE]
        BY <2>1, <2>4, <3>1, <3>2, <4>1 DEF Fill
      <4>. QED
        BY <3>3, <4>2 DEF Bitmask
    <3>5. \A i \in 0 .. N - 1 : Get(q, i) = bit
      BY <3>3, <3>4, Indexes DEF Get
    <3>6. \A i : OnBit(op, i)
      BY <1>1 DEF OnBit
    <3>7. bit = Turns01(op)
      BY <1>1, <3>1 DEF Turns01
    <3>8. q.died = FALSE
      BY <3>3, <3>4 DEF Bitmask
    <3>. QED
      BY <2>2, <2>4, <3>3, <3>4, <3>5, <3>6, <3>7, <3>8
  <2>. QED
    BY <2>3, <2>4
<1>2. CASE op[1] \in {"set", "unset"} /\ op[2] \in Nat
  <2>1. PICK index \in Nat : index = op[2]
    BY <1>2
  <2>2. PICK bit \in BOOLEAN : bit = (op[1] = "set")
    OBVIOUS
  <2>3. q = Put(mask, index, bit)
    BY <1>2, <2>1, <2>2 DEF Masked
  <2>4. CASE mask.died \/ index >= N
    <3>1. q \in Bitmask(N) /\ q.died
      BY <2>3, <2>4, DeadMask
    <3>. QED
      BY <2>1, <2>4, <3>1 DEF Bitmask
  <2>5. CASE ~(mask.died \/ index >= N)
    <3>1. index \in 0 .. N - 1 /\ ~mask.died
      BY <2>5
    <3>2. /\ q \in Bitmask(N) /\ ~q.died
          /\ \A i \in 0 .. N - 1 : Get(q, i) = IF i = index THEN bit ELSE Get(mask, i)
      BY <2>3, <3>1, PutIs
    <3>3. \A i : OnBit(op, i) <=> i = index
      BY <1>2, <2>1 DEF OnBit
    <3>4. bit = Turns01(op)
      BY <1>2, <2>2 DEF Turns01
    <3>5. q.died = FALSE
      BY <3>2 DEF Bitmask
    <3>. QED
      BY <2>1, <2>5, <3>2, <3>3, <3>4, <3>5
  <2>. QED
    BY <2>4, <2>5
<1>. QED
  BY <1>1, <1>2, OpKinds

LEMMA MaskedType ==
    ASSUME NEW N \in Nat, NEW mask \in Bitmask(N), NEW op \in MaskOp
    PROVE  Masked(mask, op) \in Bitmask(N)
<1>1. CASE op[1] \in {"one", "zero"}
  <2>1. Masked(mask, op) = Fill(mask, op[1] = "one")
    BY <1>1 DEF Masked
  <2>2. PICK bit \in BOOLEAN : bit = (op[1] = "one")
    OBVIOUS
  <2>3. PICK p : p = MaskOf(N, bit)
    OBVIOUS
  <2>4. p \in Bitmask(N) /\ mask.bit_num = N
    BY <2>3, MaskOfType DEF Bitmask, AllBits
  <2>5. [p EXCEPT !.died = FALSE] \in Bitmask(N)
    BY <2>4 DEF Bitmask
  <2>6. Fill(mask, bit) = IF mask.died THEN mask ELSE [p EXCEPT !.died = FALSE]
    BY <2>3, <2>4 DEF Fill
  <2>. QED
    BY <2>1, <2>2, <2>5, <2>6
<1>2. CASE op[1] \in {"set", "unset"} /\ op[2] \in Nat
  <2>1. PICK index \in Nat, bit \in BOOLEAN : index = op[2] /\ bit = (op[1] = "set")
    BY <1>2
  <2>2. Masked(mask, op) = Put(mask, index, bit)
    BY <1>2, <2>1 DEF Masked
  <2>3. CASE mask.died \/ index >= N
    BY <2>2, <2>3, DeadMask
  <2>4. CASE ~(mask.died \/ index >= N)
    <3>1. index \in 0 .. N - 1 /\ ~mask.died
      BY <2>4
    <3>. QED
      BY <2>2, <3>1, PutIs
  <2>. QED
    BY <2>3, <2>4
<1>. QED
  BY <1>1, <1>2, OpKinds

LEMMA MaskAfterDef ==
    ASSUME NEW bit_num \in Nat, NEW ops \in Seq(MaskOp)
    PROVE  \E f : /\ MaskAfter(bit_num, ops) = f[Len(ops)] /\ f[0] = MaskOf(bit_num, FALSE)
                  /\ \A k \in 1 .. Len(ops) : f[k] = Masked(f[k - 1], ops[k])
                  /\ \A k \in 0 .. Len(ops) : f[k] \in Bitmask(bit_num)
<1>. DEFINE Turn(before, k) == Masked(before, ops[k])
            F(t) == [k \in 0 .. Len(ops) |->
                    IF k = 0 THEN MaskOf(bit_num, FALSE)
                    ELSE Turn(t[k - 1], k)]
            f == CHOOSE t : t = F(t)
<1>1. MaskAfter(bit_num, ops) = f[Len(ops)]
  BY DEF MaskAfter
<1>2. PICK top \in Nat : top = Len(ops)
  OBVIOUS
<1>3. PICK S : S = Bitmask(bit_num)
  OBVIOUS
<1>4. PICK start \in S : start = MaskOf(bit_num, FALSE)
  BY <1>3, MaskOfType DEF AllBits
<1>5. \A before \in S, k \in 1 .. top : Turn(before, k) \in S
  BY <1>2, <1>3, MaskedType
<1>. HIDE DEF Turn
<1>6. PICK g : g = [k \in 1 .. top |-> [before \in S |-> Turn(before, k)]]
  OBVIOUS
<1>7. g \in Turns(top, S)
  BY <1>5, <1>6 DEF Turns
<1>8. PICK t : Goes(top, S, start, g, t)
  BY <1>7, ForwardExists
<1>9. t \in [0 .. top -> S] /\ t[0] = start /\ \A k \in 1 .. top : t[k] = g[k][t[k - 1]]
  BY <1>8 DEF Goes
<1>10. t = F(t)
  <2>1. \A k \in 1 .. top : t[k - 1] \in S
    BY <1>9
  <2>2. \A k \in 1 .. top : t[k] = Turn(t[k - 1], k)
    BY <1>6, <1>9, <2>1
  <2>3. \A k \in 0 .. top : t[k] = IF k = 0 THEN start ELSE Turn(t[k - 1], k)
    BY <1>9, <2>2
  <2>4. t = [k \in 0 .. top |-> t[k]]
    BY <1>9
  <2>. QED
    BY <1>2, <1>4, <2>3, <2>4
<1>11. f = F(f)
  BY <1>10, Zenon
<1>. HIDE DEF f
<1>12. PICK z : z = f /\ z = F(z)
  BY <1>11
<1>13. z = [k \in 0 .. top |-> IF k = 0 THEN start ELSE Turn(z[k - 1], k)]
  BY <1>2, <1>4, <1>12, Zenon
<1>. HIDE DEF F
<1>14. z[0] = start /\ \A k \in 1 .. top : z[k] = Turn(z[k - 1], k)
  BY <1>13
<1>15. \A k \in 0 .. top : z[k] \in S
  BY <1>5, <1>14, TypedTurns
<1>16. /\ z[0] = MaskOf(bit_num, FALSE) /\ \A k \in 1 .. Len(ops) : z[k] = Turn(z[k - 1], k)
       /\ \A k \in 0 .. Len(ops) : z[k] \in Bitmask(bit_num)
  BY <1>2, <1>3, <1>4, <1>14, <1>15
<1>17. \A k \in 1 .. Len(ops) : z[k] = Masked(z[k - 1], ops[k])
  BY <1>16 DEF Turn
<1>18. MaskAfter(bit_num, ops) = z[Len(ops)]
  BY <1>1, <1>12
<1>. QED
  BY <1>16, <1>17, <1>18

(* The last of the first n operations on a bit turned it on.               *)
LastUpTo(ops, n, index) ==
    \E m \in 1 .. n : /\ OnBit(ops[m], index) /\ Turns01(ops[m])
                      /\ \A j \in m + 1 .. n : ~OnBit(ops[j], index)

LEMMA LastNext ==
    ASSUME NEW ops, NEW n \in Nat, NEW index
    PROVE  LastUpTo(ops, n + 1, index) =
                IF OnBit(ops[n + 1], index) THEN Turns01(ops[n + 1]) ELSE LastUpTo(ops, n, index)
<1>1. PICK k \in Nat : k = n + 1
  OBVIOUS
<1>2. CASE OnBit(ops[k], index)
  <2>1. ASSUME LastUpTo(ops, k, index) PROVE Turns01(ops[k])
    <3>1. PICK m \in 1 .. k : Turns01(ops[m]) /\ \A j \in m + 1 .. k : ~OnBit(ops[j], index)
      BY <2>1 DEF LastUpTo
    <3>2. m = k
      <4>1. ASSUME m # k PROVE FALSE
        <5>1. k \in m + 1 .. k
          BY <4>1
        <5>. QED
          BY <1>2, <3>1, <5>1
      <4>. QED
        BY <4>1
    <3>. QED
      BY <3>1, <3>2
  <2>2. ASSUME Turns01(ops[k]) PROVE LastUpTo(ops, k, index)
    <3>1. k \in 1 .. k /\ \A j \in k + 1 .. k : FALSE
      BY <1>1
    <3>. QED
      BY <1>2, <2>2, <3>1 DEF LastUpTo
  <2>3. LastUpTo(ops, k, index) \in BOOLEAN /\ Turns01(ops[k]) \in BOOLEAN
    BY DEF LastUpTo, Turns01
  <2>4. LastUpTo(ops, k, index) = Turns01(ops[k])
    BY <2>1, <2>2, <2>3
  <2>. QED
    BY <1>1, <1>2, <2>4
<1>3. CASE ~OnBit(ops[k], index)
  <2>1. ASSUME LastUpTo(ops, k, index) PROVE LastUpTo(ops, n, index)
    <3>1. PICK m \in 1 .. k : /\ OnBit(ops[m], index) /\ Turns01(ops[m])
                              /\ \A j \in m + 1 .. k : ~OnBit(ops[j], index)
      BY <2>1 DEF LastUpTo
    <3>2. m # k
      BY <1>3, <3>1
    <3>3. m \in 1 .. n /\ \A j \in m + 1 .. n : j \in m + 1 .. k
      BY <1>1, <3>2
    <3>. QED
      BY <3>1, <3>3 DEF LastUpTo
  <2>2. ASSUME LastUpTo(ops, n, index) PROVE LastUpTo(ops, k, index)
    <3>1. PICK m \in 1 .. n : /\ OnBit(ops[m], index) /\ Turns01(ops[m])
                              /\ \A j \in m + 1 .. n : ~OnBit(ops[j], index)
      BY <2>2 DEF LastUpTo
    <3>2. m \in 1 .. k /\ \A j \in m + 1 .. k : j = k \/ j \in m + 1 .. n
      BY <1>1
    <3>3. \A j \in m + 1 .. k : ~OnBit(ops[j], index)
      BY <1>3, <3>1, <3>2
    <3>. QED
      BY <3>1, <3>2, <3>3 DEF LastUpTo
  <2>3. LastUpTo(ops, k, index) = LastUpTo(ops, n, index)
    BY <2>1, <2>2 DEF LastUpTo
  <2>. QED
    BY <1>1, <1>3, <2>3
<1>. QED
  BY <1>1, <1>2, <1>3

(* The mask after n operations.                                            *)
MaskWell(N, ops, n, mask) ==
    /\ mask \in Bitmask(N) /\ mask.died = \E m \in 1 .. n : ops[m][2] >= N
    /\ ~mask.died => \A i \in 0 .. N - 1 : Get(mask, i) = LastUpTo(ops, n, i)

LEMMA MaskNext ==
    ASSUME NEW N \in Nat, N # 0, NEW ops \in Seq(MaskOp), NEW n \in Nat, n + 1 <= Len(ops),
           NEW mask, MaskWell(N, ops, n, mask)
    PROVE  MaskWell(N, ops, n + 1, Masked(mask, ops[n + 1]))
<1>1. PICK k \in 1 .. Len(ops) : k = n + 1
  OBVIOUS
<1>2. PICK op \in MaskOp : op = ops[k]
  OBVIOUS
<1>3. PICK q : q = Masked(mask, op)
  OBVIOUS
<1>4. mask \in Bitmask(N) /\ mask.died = \E m \in 1 .. n : ops[m][2] >= N
  BY DEF MaskWell
<1>5. /\ q \in Bitmask(N) /\ q.died = (mask.died \/ op[2] >= N)
      /\ ~q.died => \A i \in 0 .. N - 1 : Get(q, i) = IF OnBit(op, i) THEN Turns01(op) ELSE Get(mask, i)
  BY <1>3, <1>4, MaskedIs
<1>6. q.died = \E m \in 1 .. k : ops[m][2] >= N
  <2>1. (\E m \in 1 .. k : ops[m][2] >= N) <=> ((\E m \in 1 .. n : ops[m][2] >= N) \/ ops[k][2] >= N)
    <3>1. \A m : m \in 1 .. k <=> m \in 1 .. n \/ m = k
      BY <1>1
    <3>. QED
      BY <3>1
  <2>2. mask.died <=> \E m \in 1 .. n : ops[m][2] >= N
    BY <1>4
  <2>3. q.died <=> (mask.died \/ ops[k][2] >= N)
    BY <1>2, <1>5
  <2>4. q.died \in BOOLEAN
    BY <1>5 DEF Bitmask
  <2>. QED
    BY <2>1, <2>2, <2>3, <2>4
<1>7. ASSUME ~q.died, NEW i \in 0 .. N - 1 PROVE Get(q, i) = LastUpTo(ops, k, i)
  <2>1. ~mask.died
    BY <1>5, <1>7
  <2>2. Get(mask, i) = LastUpTo(ops, n, i)
    BY <2>1 DEF MaskWell
  <2>3. Get(q, i) = IF OnBit(op, i) THEN Turns01(op) ELSE Get(mask, i)
    BY <1>5, <1>7
  <2>4. LastUpTo(ops, k, i) = IF OnBit(op, i) THEN Turns01(op) ELSE LastUpTo(ops, n, i)
    BY <1>1, <1>2, LastNext
  <2>. QED
    BY <2>2, <2>3, <2>4
<1>. QED
  BY <1>1, <1>2, <1>3, <1>5, <1>6, <1>7 DEF MaskWell

(* What the property says of masks.                                        *)
MasksWell(in, out) ==
    /\ out.died = \E n \in DOMAIN in.ops : in.ops[n][2] >= in.bit_num
    /\ ~out.died => \A index \in 0 .. in.bit_num - 1 : Get(out, index) = LastOn(in.ops, index)

LEMMA MasksAreAsDone ==
    ASSUME NEW in \in [bit_num : Nat \ {0}, ops : Seq(MaskOp)]
    PROVE  MasksWell(in, MaskAfter(in.bit_num, in.ops))
<1>1. PICK N \in Nat, ops \in Seq(MaskOp) : N = in.bit_num /\ N # 0 /\ ops = in.ops
  OBVIOUS
<1>2. PICK n \in Nat : n = Len(ops)
  OBVIOUS
<1>3. PICK f : /\ MaskAfter(N, ops) = f[Len(ops)] /\ f[0] = MaskOf(N, FALSE)
               /\ \A k \in 1 .. Len(ops) : f[k] = Masked(f[k - 1], ops[k])
               /\ \A k \in 0 .. Len(ops) : f[k] \in Bitmask(N)
  BY MaskAfterDef
<1>. DEFINE Good == {k \in 0 .. n : MaskWell(N, ops, k, f[k])}
<1>4. 0 \in Good
  <2>1. PICK p : p = MaskOf(N, FALSE)
    OBVIOUS
  <2>2. p \in Bitmask(N) /\ ~p.died /\ \A i \in 0 .. WordNum(N) - 1, k \in 0 .. 31 : p.data[i][k] = FALSE
    BY <2>1, MaskOfType DEF AllBits
  <2>3. \A i \in 0 .. N - 1 : Get(p, i) = FALSE
    BY <2>2, Indexes DEF Get
  <2>4. \A i : LastUpTo(ops, 0, i) = FALSE
    BY DEF LastUpTo
  <2>5. ~\E m \in 1 .. 0 : ops[m][2] >= N
    OBVIOUS
  <2>6. p.died = FALSE
    BY <2>2 DEF Bitmask
  <2>7. p.died = \E m \in 1 .. 0 : ops[m][2] >= N
    BY <2>5, <2>6
  <2>8. MaskWell(N, ops, 0, p)
    BY <2>2, <2>3, <2>4, <2>7 DEF MaskWell
  <2>9. f[0] = p /\ 0 \in 0 .. n
    BY <1>3, <2>1
  <2>. QED
    BY <2>8, <2>9
<1>5. ASSUME NEW k \in 1 .. n, k - 1 \in Good PROVE k \in Good
  <2>1. PICK m \in Nat : m = k - 1 /\ m + 1 = k /\ m + 1 <= Len(ops)
    BY <1>2
  <2>2. MaskWell(N, ops, m + 1, Masked(f[m], ops[m + 1]))
    BY <1>1, <1>5, <2>1, MaskNext
  <2>. QED
    BY <1>2, <1>3, <2>1, <2>2
<1>6. n \in Good
  <2>. HIDE DEF Good
  <2>. QED
    BY <1>4, <1>5, UpToEnd, Zenon
<1>7. PICK out : out = MaskAfter(N, ops)
  OBVIOUS
<1>8. MaskWell(N, ops, n, out)
  BY <1>2, <1>3, <1>6, <1>7
<1>9. DOMAIN ops = 1 .. n
  BY <1>2
<1>10. \A i : LastOn(ops, i) = LastUpTo(ops, n, i)
  BY <1>2, <1>9 DEF LastOn, LastUpTo, Turns01
<1>. QED
  BY <1>1, <1>7, <1>8, <1>9, <1>10 DEF MaskWell, MasksWell

(* A bench of values has packed and unpacked them, one of operations has   *)
(* done them.                                                              *)
BitsInv ==
    \/ /\ call = "pack" /\ done \in BOOLEAN
       /\ input \in [size : Nat, dirt : BOOLEAN, values : Seq(Value)]
       /\ done => PacksWell(input, output)
    \/ /\ call = "mask" /\ done \in BOOLEAN
       /\ input \in [bit_num : Nat \ {0}, ops : Seq(MaskOp)]
       /\ done => MasksWell(input, output)

(* Whatever is packed, in whatever order and into whatever dirt, comes out *)
(* as it went in, cut to its bits, or packing stops because the buffer is  *)
(* too small; and a bit of a mask of any size is what the last operation   *)
(* on it made it: bitpack_*(), bitunpack_*() and bitmask_*() for every     *)
(* input.                                                                  *)
THEOREM BitsAlwaysComeBack == BitSpec => []BitsComeBack
<1>1. Starts("pack", [size : Nat, dirt : BOOLEAN, values : Seq(Value)]) => BitsInv
  BY DEF Starts, BitsInv
<1>2. Starts("mask", [bit_num : Nat \ {0}, ops : Seq(MaskOp)]) => BitsInv
  BY DEF Starts, BitsInv
<1>3. BitsInv /\ [Packs \/ Masks]_benchVars => BitsInv'
  <2>. SUFFICES ASSUME BitsInv, [Packs \/ Masks]_benchVars PROVE BitsInv'
    OBVIOUS
  <2>1. CASE Packs
    <3>1. call = "pack" /\ input \in [size : Nat, dirt : BOOLEAN, values : Seq(Value)]
      BY <2>1 DEF Packs, Calls, BitsInv
    <3>2. PacksWell(input, PackedAndUnpacked(input))
      BY <3>1, PackingComesBack
    <3>3. /\ call' = "pack" /\ done' \in BOOLEAN /\ input' = input
          /\ output' = PackedAndUnpacked(input)
      BY <2>1, <3>1 DEF Packs, Calls
    <3>. QED
      BY <3>1, <3>2, <3>3 DEF BitsInv
  <2>2. CASE Masks
    <3>1. call = "mask" /\ input \in [bit_num : Nat \ {0}, ops : Seq(MaskOp)]
      BY <2>2 DEF Masks, Calls, BitsInv
    <3>2. MasksWell(input, MaskAfter(input.bit_num, input.ops))
      BY <3>1, MasksAreAsDone
    <3>3. /\ call' = "mask" /\ done' \in BOOLEAN /\ input' = input
          /\ output' = MaskAfter(input.bit_num, input.ops)
      BY <2>2, <3>1 DEF Masks, Calls
    <3>. QED
      BY <3>1, <3>2, <3>3 DEF BitsInv
  <2>3. CASE UNCHANGED benchVars
    BY <2>3 DEF benchVars, BitsInv
  <2>. QED
    BY <2>1, <2>2, <2>3
<1>4. BitsInv => BitsComeBack
  <2>1. CASE call = "pack" /\ (done => PacksWell(input, output))
    BY <2>1 DEF BitsComeBack, PacksWell
  <2>2. CASE call = "mask" /\ (done => MasksWell(input, output))
    BY <2>2 DEF BitsComeBack, MasksWell
  <2>. QED
    BY <2>1, <2>2 DEF BitsInv
<1>. QED
  BY <1>1, <1>2, <1>3, <1>4, PTL DEF BitSpec
=============================================================================
