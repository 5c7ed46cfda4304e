-------------------------------- MODULE Udp --------------------------------
(***************************************************************************)
(* hutils/src/udp.c with poll(): threads in udp_server_receive() and       *)
(* udp_client_receive(), the pipe udp_server_write() wakes the server      *)
(* with, and a network that loses, duplicates and reorders datagrams.      *)
(* Between poll() and the read that follows, other threads run.            *)
(***************************************************************************)
EXTENDS Integers, FiniteSets, SequencesExt

CONSTANTS
    Server, Client,  (* the socket of a server, the sockets of clients     *)
    Receiver,        (* threads                                            *)
    EndOf,           (* the socket a thread receives from                  *)
    Size,            (* the buffer sizes given in a_dgram->bytes           *)
    Length,          (* bound: the lengths of datagrams and of writes      *)
    QueueSize,       (* bound: datagrams a socket keeps                    *)
    PipeSize,        (* bound: bytes the pipe keeps                        *)
    Null             (* no address                                         *)

Socket == {Server} \cup Client

ASSUME SocketAssumption == Server \notin Client /\ Null \notin Socket
ASSUME EndAssumption == EndOf \in [Receiver -> Socket]
ASSUME SizeAssumption ==
    /\ Size \subseteq Nat \ {0} /\ Length \subseteq Nat
    /\ QueueSize \in Nat \ {0} /\ PipeSize \in Nat \ {0}

VARIABLES
    queue,     (* per socket: datagrams that have arrived                  *)
    error,     (* per socket: whether an ICMP error is pending             *)
    pipe,      (* the number of bytes in the server's pipe                 *)
    pc,        (* per thread: outside, in poll(), or before the read       *)
    size,      (* per thread: the size of its buffer                       *)
    result,    (* per thread: return value, a_dgram->bytes and *a_addr     *)
    emptied    (* history, per thread: whether another thread has emptied  *)
               (* the pipe between its poll() and its read()               *)

vars == <<queue, error, pipe, pc, size, result, emptied>>
net == <<queue, error>>
thread == <<pc, size, result, emptied>>

SIZE_MAX == -1          (* what read() returns on an error, as a size_t    *)

(* A result carries a history too: the system call that failed, EINTR of   *)
(* poll() and EAGAIN of recvfrom() apart.                                  *)
Reply(ret, bytes, addr, failed) ==
    [ret |-> ret, bytes |-> bytes, addr |-> addr, failed |-> failed]
Nothing == Reply(1, 0, Null, "none")
Smaller(m, n) == IF m < n THEN m ELSE n

-----------------------------------------------------------------------------
(* The network, and the other threads of the server.                       *)

(* udp_client_send() and udp_server_send(): a datagram arrives at any      *)
(* place in the queue; one that is lost does not arrive.                   *)
Send(from, to, length) ==
    /\ (from = Server) # (to = Server)
    /\ Len(queue[to]) < QueueSize
    /\ \E i \in 1..Len(queue[to]) + 1 :
        queue' = [queue EXCEPT ![to] =
                    InsertAt(@, i, [from |-> from, bytes |-> length])]
    /\ UNCHANGED <<error, pipe, thread>>

Duplicate(s) ==
    /\ queue[s] # <<>> /\ Len(queue[s]) < QueueSize
    /\ \E i \in DOMAIN queue[s] :
        queue' = [queue EXCEPT ![s] = Append(@, @[i])]
    /\ UNCHANGED <<error, pipe, thread>>

(* The host of a connected socket's peer says that nobody listens.         *)
PeerGone(s) ==
    /\ s \in Client
    /\ error' = [error EXCEPT ![s] = TRUE]
    /\ UNCHANGED <<queue, pipe, thread>>

(* A write that does not fit into the pipe fails, for it does not block.   *)
ServerWrite(length) ==
    /\ pipe + length <= PipeSize
    /\ pipe' = pipe + length
    /\ UNCHANGED <<net, thread>>

-----------------------------------------------------------------------------
(* receive_datagram().                                                     *)

HasPipe(r) == EndOf[r] = Server
SocketReady(r) == queue[EndOf[r]] # <<>> \/ error[EndOf[r]]
PipeReady(r) == HasPipe(r) /\ pipe > 0

Receive(r, n) ==
    /\ pc[r] = "idle"
    /\ pc' = [pc EXCEPT ![r] = "wait"]
    /\ size' = [size EXCEPT ![r] = n]
    /\ result' = [result EXCEPT ![r] = Nothing]
    /\ emptied' = [emptied EXCEPT ![r] = FALSE]
    /\ UNCHANGED <<net, pipe>>

SeededEventWait(r) ==   (* seeded fault: the socket goes first             *)
    IF SocketReady(r) THEN "socket" ELSE IF PipeReady(r) THEN "pipe" ELSE "idle"

SeededPollSet(r) ==     (* seeded fault: only the pipe is polled           *)
    IF PipeReady(r) THEN "pipe" ELSE "idle"

(* event_wait(): what comes next.  poll() times out, or is interrupted,    *)
(* only when nothing is ready.                                             *)
EventWait(r) ==
    IF PipeReady(r) THEN "pipe" ELSE IF SocketReady(r) THEN "socket" ELSE "idle"

Poll(r) ==
    /\ pc[r] = "wait"
    /\ pc' = [pc EXCEPT ![r] = EventWait(r)]
    /\ UNCHANGED <<net, pipe, size, result, emptied>>

Return(r, res) ==
    /\ pc' = [pc EXCEPT ![r] = "idle"]
    /\ result' = [result EXCEPT ![r] = res]
    /\ UNCHANGED size

(* poll() may fail at any time (ENOMEM): event_wait() warns, and the call  *)
(* returns as after a timeout.                                             *)
PollFails(r) ==
    /\ pc[r] = "wait"
    /\ Return(r, Reply(1, 0, Null, "poll"))
    /\ UNCHANGED <<net, pipe, emptied>>

(* read() of everything in the pipe that fits.  When nothing is left it    *)
(* fails, for the pipe does not block; the result is not looked at.        *)
ReadPipe(r) ==
    /\ pc[r] = "pipe"
    /\ LET n == Smaller(size[r], pipe)
       IN  /\ pipe' = pipe - n
           /\ Return(r, IF pipe = 0 THEN Reply(1, SIZE_MAX, Null, "read")
                                    ELSE Reply(1, n, Null, "none"))
           /\ emptied' = [q \in Receiver |->
                            emptied[q] \/ (q # r /\ pc[q] = "pipe" /\ n = pipe)]
    /\ UNCHANGED net

RecvError(r) ==
    /\ pc[r] = "socket" /\ error[EndOf[r]]
    /\ error' = [error EXCEPT ![EndOf[r]] = FALSE]
    /\ Return(r, Reply(0, 0, Null, "recvfrom"))
    /\ UNCHANGED <<queue, pipe, emptied>>

SeededRecvNothing(r) == (* seeded fault: the socket blocks                 *)
    /\ pc[r] = "socket" /\ FALSE
    /\ UNCHANGED vars

(* Another thread was faster: the socket is set to not block, EAGAIN.      *)
RecvNothing(r) ==
    /\ pc[r] = "socket" /\ ~SocketReady(r)
    /\ Return(r, Nothing)
    /\ UNCHANGED <<net, pipe, emptied>>

SeededRecvFrom(r) ==    (* seeded fault: an address for an empty datagram  *)
    /\ pc[r] = "socket" /\ ~error[EndOf[r]] /\ queue[EndOf[r]] # <<>>
    /\ LET d == Head(queue[EndOf[r]])
       IN  /\ queue' = [queue EXCEPT ![EndOf[r]] = Tail(@)]
           /\ Return(r, Reply(1, Smaller(size[r], d.bytes),
                                IF HasPipe(r) THEN d.from ELSE Null, "none"))
    /\ UNCHANGED <<error, pipe, emptied>>

(* recvfrom() cuts a datagram off at the size of the buffer; only a server *)
(* asks for the address, and only a datagram with data gets one.           *)
RecvFrom(r) ==
    /\ pc[r] = "socket" /\ ~error[EndOf[r]] /\ queue[EndOf[r]] # <<>>
    /\ LET d == Head(queue[EndOf[r]])
       IN  /\ queue' = [queue EXCEPT ![EndOf[r]] = Tail(@)]
           /\ Return(r, Reply(1, Smaller(size[r], d.bytes),
                                IF HasPipe(r) /\ d.bytes # 0 THEN d.from ELSE Null,
                                "none"))
    /\ UNCHANGED <<error, pipe, emptied>>

Read(r) == ReadPipe(r) \/ RecvError(r) \/ RecvNothing(r) \/ RecvFrom(r)

-----------------------------------------------------------------------------
Init ==
    /\ queue = [s \in Socket |-> <<>>] /\ error = [s \in Socket |-> FALSE]
    /\ pipe = 0
    /\ pc = [r \in Receiver |-> "idle"]
    /\ size \in [Receiver -> Size]
    /\ result = [r \in Receiver |-> Nothing]
    /\ emptied = [r \in Receiver |-> FALSE]

Next ==
    \/ \E from, to \in Socket, length \in Length : Send(from, to, length)
    \/ \E s \in Socket : Duplicate(s) \/ PeerGone(s)
    \/ \E length \in Length : ServerWrite(length)
    \/ \E r \in Receiver : Poll(r) \/ PollFails(r) \/ Read(r)
    \/ \E r \in Receiver, n \in Size : Receive(r, n)

(* A thread inside a receive is scheduled, and its timeout is finite.      *)
(* Nobody has to call receive, write or send.                              *)
Spec ==
    /\ Init /\ [][Next]_vars
    /\ \A r \in Receiver : WF_vars(Poll(r) \/ PollFails(r)) /\ WF_vars(Read(r))

-----------------------------------------------------------------------------
(* Properties.                                                             *)

Alone(r) == \A q \in Receiver : EndOf[q] = EndOf[r] => q = r

(* The comment above receive_datagram(), with any number of threads at a   *)
(* socket.  An error returns 0; anything else returns 1, with at most the  *)
(* buffer's size and, without data, size 0 and no address.  Two errors do  *)
(* not return 0 (findings): a failed poll() looks like a timeout, and a    *)
(* read() of a pipe that another thread has emptied since this one's       *)
(* poll() looks like SIZE_MAX bytes, which no thread ever sees that has    *)
(* its server for itself.                                                  *)
ResultsDocumented ==
    \A r \in Receiver : LET res == result[r] IN
        /\ res.ret = 0 <=> res.failed = "recvfrom"
        /\ res.failed \in {"recvfrom", "poll"} => res.bytes = 0
        /\ IF res.failed = "read"
           THEN res.bytes = SIZE_MAX /\ emptied[r] /\ ~Alone(r)
           ELSE res.bytes \in 0..size[r]
        /\ res.addr # Null => HasPipe(r) /\ res.bytes \in 1..size[r]

(* No call blocks longer than its timeout, whoever takes what poll() saw.  *)
ReceiveReturns == \A r \in Receiver : pc[r] # "idle" ~> pc[r] = "idle"

KeepsReceiving == []<>(\E r \in Receiver : HasPipe(r) /\ pc[r] # "idle")

PollRecovers == <>[](\A r \in Receiver : result[r].failed # "poll")

(* udp_server_write() wakes the server, however many datagrams arrive:     *)
(* what is written is read if somebody keeps receiving and poll() does not *)
(* fail for ever.                                                          *)
WriteWakes ==
    KeepsReceiving /\ PollRecovers => (pipe > 0 ~> \E r \in Receiver : pc[r] = "pipe")

(* A datagram that has arrived is taken if somebody keeps receiving,       *)
(* poll() does not fail for ever, and the writers leave the pipe empty in  *)
(* the end.                                                                *)
DatagramsAreTaken ==
    KeepsReceiving /\ PollRecovers /\ <>[](pipe = 0) =>
        (queue[Server] # <<>> ~> \E r \in Receiver : HasPipe(r) /\ pc[r] = "socket")
=============================================================================
