----------------------------- MODULE UdpCreate -----------------------------
(***************************************************************************)
(* Creating and freeing clients, servers and addresses in hutils/src/udp.c *)
(* with GETADDRINFO: which descriptors and memory are held after any call  *)
(* of the system failed.  The outcome of every call is an input: a set of  *)
(* the calls that fail, and for each address of getaddrinfo() the call     *)
(* that fails on it, or "ok".  Memory never runs out: MALLOC and CALLOC    *)
(* end the program.                                                        *)
(***************************************************************************)
EXTENDS Bench, Integers, Sequences

Empty == [open |-> {}, heap |-> {}]
Open(world, fds) == [world EXCEPT !.open = @ \cup fds]
Close(world, fds) == [world EXCEPT !.open = @ \ fds]
Alloc(world, x) == [world EXCEPT !.heap = @ \cup {x}]
Free(world, x) == [world EXCEPT !.heap = @ \ {x}]

Pfd == {<<"pfd", 0>>, <<"pfd", 1>>}
Sock(k) == {<<"socket", k>>}
NoSock == {}                            (* INVALID_SOCKET                  *)
Returns(ret, world, sock) == [ret |-> ret, world |-> world, sock |-> sock]
Holds(world, sock) == [world |-> world, sock |-> sock]

(* The loop over the addresses: connect() or bind() the first that works.  *)
SeededTryOne(tried, k, outcome) ==  (* seeded fault: the failed one is kept *)
    IF outcome = "socket" THEN tried
    ELSE Holds(Open(tried.world, Sock(k)), Sock(k))

TryOne(tried, k, outcome) ==
    LET opened == Open(tried.world, Sock(k)) IN
    CASE outcome = "socket" -> tried
      [] outcome = "connect" -> Holds(Close(opened, Sock(k)), NoSock)
      [] outcome = "ok" -> Holds(opened, Sock(k))

Tried(world, addrs) ==
    LET tried[k \in 0 .. Len(addrs)] ==
            IF k = 0 THEN Holds(world, NoSock)
            ELSE LET before == tried[k - 1]
                 IN  IF before.sock # NoSock THEN before ELSE TryOne(before, k, addrs[k])
    IN  tried[Len(addrs)]

(* getaddrinfo(), the loop and freeaddrinfo().                             *)
Looked(world, fails, addrs) ==
    LET tried == Tried(Alloc(world, "addrinfo"), addrs)
    IN  IF "getaddrinfo" \in fails THEN Holds(world, NoSock)
        ELSE [tried EXCEPT !.world = Free(@, "addrinfo")]

ClientCreate(isSetup, fails, addrs) ==
    LET looked == Looked(Empty, fails, addrs) IN
    CASE ~isSetup -> Returns("NULL", Empty, NoSock)
      [] isSetup /\ looked.sock = NoSock -> Returns("NULL", looked.world, NoSock)
      [] isSetup /\ looked.sock # NoSock /\ "nonblock socket" \in fails ->
            Returns("NULL", Close(looked.world, looked.sock), NoSock)
      [] OTHER -> Returns("client", Alloc(looked.world, "client"), looked.sock)

ClientFree(c) == Free(Close(c.world, c.sock), "client")

ServerFail(world, sock, hasPfd) ==
    Free(Close(Close(world, sock), IF hasPfd THEN Pfd ELSE {}), "server")

ServerCreate(isSetup, fails, addrs) ==
    LET server == Alloc(Empty, "server")
        piped == Open(server, Pfd)
        looked == Looked(piped, fails, addrs)
    IN  CASE ~isSetup -> Returns("NULL", Empty, NoSock)
          [] isSetup /\ "pipe" \in fails -> Returns("NULL", ServerFail(server, NoSock, FALSE), NoSock)
          [] isSetup /\ "pipe" \notin fails /\ fails \cap {"nonblock pfd[0]", "nonblock pfd[1]"} # {} ->
                Returns("NULL", ServerFail(piped, NoSock, TRUE), NoSock)
          [] isSetup /\ fails \cap {"pipe", "nonblock pfd[0]", "nonblock pfd[1]"} = {} ->
                IF looked.sock = NoSock
                THEN Returns("NULL", ServerFail(looked.world, NoSock, TRUE), NoSock)
                ELSE IF "nonblock socket" \in fails
                THEN Returns("NULL", Close(looked.world, looked.sock), NoSock)
                ELSE Returns("server", looked.world, looked.sock)

ServerFree(s) == Free(Close(Close(s.world, s.sock), Pfd), "server")

AddressCreate(fails) ==
    LET addr == Alloc(Empty, "address")
    IN  IF "getaddrinfo" \in fails THEN Returns("NULL", addr, NoSock) ELSE Returns("address", addr, NoSock)
AddressFree(a) == Free(a.world, "address")

Created(in) ==
    CASE in.kind = "address" -> AddressCreate(in.fails)
      [] in.kind = "client" -> ClientCreate(in.isSetup, in.fails, in.addrs)
      [] in.kind = "server" -> ServerCreate(in.isSetup, in.fails, in.addrs)

Freed(kind, created) ==
    CASE kind = "address" -> AddressFree(created)
      [] kind = "client" -> ClientFree(created)
      [] kind = "server" -> ServerFree(created)

-----------------------------------------------------------------------------
(* Reference: what a creation needs, and what its failure leaves behind:   *)
(* nothing but for the two places where memory or descriptors are lost.    *)

Needs(kind) ==
    CASE kind = "address" -> {"getaddrinfo"}
      [] kind = "client" -> {"getaddrinfo", "nonblock socket"}
      [] kind = "server" -> {"pipe", "nonblock pfd[0]", "nonblock pfd[1]", "getaddrinfo", "nonblock socket"}

Works(kind, isSetup, fails, addrs) ==
    /\ fails \cap Needs(kind) = {}
    /\ kind # "address" => isSetup /\ \E k \in DOMAIN addrs : addrs[k] = "ok"

Lost(kind, isSetup, fails, addrs) ==
    CASE kind = "address" -> [Empty EXCEPT !.heap = {"address"}]
      [] kind = "server" /\ Works(kind, isSetup, fails \ {"nonblock socket"}, addrs) ->
            [open |-> Pfd, heap |-> {"server"}]
      [] OTHER -> Empty

(* Property: something is created exactly if all it needs works, with one  *)
(* socket open, and freeing it leaves nothing; a failed creation leaves    *)
(* nothing open or allocated, but for the two losses in Lost.              *)
FailuresHoldNothing ==
    call = "udp" /\ done =>
        IF Works(input.kind, input.isSetup, input.fails, input.addrs)
        THEN /\ output.ret = input.kind
             /\ (output.sock = NoSock) = (input.kind = "address")
             /\ output.sock \subseteq output.world.open
             /\ Freed(input.kind, output) = Empty
        ELSE /\ output.ret = "NULL"
             /\ output.world = Lost(input.kind, input.isSetup, input.fails, input.addrs)

-----------------------------------------------------------------------------
(* One creation, with any failures and any number of addresses.            *)
Creation(addresses) ==
    [kind : {"address", "client", "server"}, isSetup : BOOLEAN,
     fails : SUBSET Needs("server"), addrs : addresses]

Creates == Calls("udp") /\ output' = Created(input)

CreationSpec ==
    /\ Starts("udp", Creation(Seq({"ok", "socket", "connect"})))
    /\ [][Creates]_benchVars
=============================================================================
