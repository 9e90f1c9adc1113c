------------------------------- MODULE Floppyd -------------------------------
(***************************************************************************)
(* A device used over the network: the RemoteFile_t stream of floppyd_io.c,  *)
(* and floppyd.c, which forks one process for each client.  A client has one *)
(* request under way at a time; client, server process and connection may go *)
(* away at any moment, also in the middle of a request.  A session begins with *)
(* a handshake, in which a client falls back to protocol version 10 if the     *)
(* connection ends before floppyd has told its version.                       *)
(***************************************************************************)
EXTENDS Integers, Sequences, FiniteSets

CONSTANTS
    Clients,        \* clients, each with at most one session at a time
    Size,           \* cells of the device (a block device of fixed size)
    Values,         \* what a client stores in a cell
    Zero,           \* what make_new fills a packet with, and what is there at first
    Unknown,        \* what a client knows of a cell it has not accessed
    MaxLen,         \* cells of one request
    MaxWhere,       \* the highest position a client asks for
    MaxCalls,       \* bound: sessions, reads and writes of all clients together
    MaxOld,         \* bound: clients that speak version 10 at the same time
    OffsetWrap      \* 2^32, in cells: floppyd_lseek64 sends (uint32_t) offset,
                    \* and version 10 refuses what does not fit an int32_t

ASSUME FloppydAssumption ==
    /\ Size \in Nat \ {0} /\ MaxLen \in Nat \ {0} /\ MaxWhere \in Nat /\ MaxCalls \in Nat /\ MaxOld \in Nat
    /\ OffsetWrap \in Nat \ {0}
    /\ Unknown \notin Values \cup {Zero}

Cells == 0..Size-1
Content == Values \cup {Zero}
NoRequest == [op |-> "none", where |-> 0, len |-> 0, val |-> Zero, got |-> 0]

VARIABLES
    device,         \* content of the device
    state,          \* of a client: what it waits for, "idle" between calls, "out" without session
    old,            \* whether it speaks version 10
    rw,             \* whether it opened the device for writing
    lastwhere,      \* where it believes the server's file position is, -1: unknown
    io,             \* its call of floppyd_pread or floppyd_pwrite
    up, down,       \* the two directions of the connection: a request, a sequence of packets
    server,         \* the process for a client: [alive, old, ready, open, lock,
                    \* readOnly, pos]
    calls,          \* sessions, reads and writes so far
    known,          \* history: what a session has read or stored, while its server lives
    disturbed,      \* history: clients whose process lives, and beside which another
                    \* has written while one of the two had no lock
    stored          \* history: what the clients' writes should have left in each cell,
                    \* Unknown where a client has died sending one

client == <<state, old, rw, lastwhere, io, calls>>
history == <<known, disturbed, stored>>
vars == <<device, client, up, down, server, history>>

Least(a, b) == IF a < b THEN a ELSE b
NoServer == [alive |-> FALSE, old |-> FALSE, ready |-> FALSE, open |-> FALSE, lock |-> "none",
             readOnly |-> TRUE, pos |-> 0]
Command(op) == [NoRequest EXCEPT !.op = op]
OpenOp(write) == IF write THEN "oprw" ELSE "opro"

-----------------------------------------------------------------------------
(* floppyd.c: serve_client                                                  *)

Got(c, op) == server[c].alive /\ up[c].op = op

\* send_reply; nobody reads it if the client is gone.
Reply(c, packets) ==
    /\ up' = [up EXCEPT ![c] = NoRequest]
    /\ down' = [down EXCEPT ![c] = IF state[c] = "out" THEN <<>> ELSE @ \o packets]
Count(n) == [n |-> n, data |-> <<>>]
Data(s) == [n |-> Len(s), data |-> s]
Failed == Count(-1)

\* Mutant: what it has locked stays locked.
Gone_locked(s) == [NoServer EXCEPT !.lock = s.lock]
Gone(s) == NoServer

\* lock_dev: readers share the device.
\* Mutant: only writers are in each other's way.
Compatible_writers(c, write) == \A d \in Clients \ {c} : server[d].lock # "exclusive" \/ ~write
Compatible(c, write) ==
    \A d \in Clients \ {c} :
        server[d].lock = "none" \/ (server[d].lock = "shared" /\ ~write)

\* do_auth: the version, to which the answer of version 11 adds what floppyd can do
Greet(c) ==
    /\ Got(c, "hello") \/ Got(c, "helloOld")
    /\ up[c].got # -1
    /\ server' = [server EXCEPT ![c].old = up[c].op = "helloOld"]
    /\ Reply(c, <<Count(0)>>)
    /\ UNCHANGED <<device, client, history>>

\* The cookie does not open the display, or a packet is not whole.
Refuse(c) ==
    /\ Got(c, "cookie") \/ (up[c].op \in {"hello", "helloOld"} /\ up[c].got = -1)
    /\ server[c].alive
    /\ Reply(c, <<Failed>>)
    /\ server' = [server EXCEPT ![c] = Gone(@)]
    /\ UNCHANGED <<device, client, history>>

\* The cookie is right.  For version 10 the device is opened at once, read-only
\* if need be; whether lock_dev got the lock is not looked at.  If it cannot be
\* opened, an error follows that no request has asked for.
Authenticate(c) ==
    /\ Got(c, "cookie") /\ up[c].got # -1
    /\ \/ /\ ~server[c].old
          /\ server' = [server EXCEPT ![c].ready = TRUE]
          /\ Reply(c, <<Count(0)>>)
       \/ /\ server[c].old
          /\ \E write \in BOOLEAN :
                server' = [server EXCEPT ![c].ready = TRUE, ![c].open = TRUE,
                               ![c].readOnly = ~write,
                               ![c].lock = IF ~Compatible(c, write) THEN "none"
                                           ELSE IF write THEN "exclusive" ELSE "shared"]
          /\ Reply(c, <<Count(0)>>)
       \/ /\ server[c].old
          /\ server' = [server EXCEPT ![c] = Gone(@)]
          /\ Reply(c, <<Count(0), Failed>>)
    /\ UNCHANGED <<device, client, history>>

\* OP_OPRO, OP_OPRW: the lock is waited for, but not for ever.  If it is not
\* to be had, the device stays open and readOnly as it was.
OpenDevice(c) ==
    /\ \E write \in BOOLEAN :
        /\ Got(c, OpenOp(write))
        /\ \/ /\ Compatible(c, write)
              /\ server' = [server EXCEPT ![c].open = TRUE, ![c].readOnly = ~write,
                                ![c].lock = IF write THEN "exclusive" ELSE "shared"]
              /\ Reply(c, <<Count(0)>>)
           \/ /\ ~Compatible(c, write)
              /\ server' = [server EXCEPT ![c].open = TRUE]
              /\ Reply(c, <<Failed>>)
           \/ /\ server' = [server EXCEPT ![c].readOnly = ~write]
              /\ Reply(c, <<Failed>>)
    /\ UNCHANGED <<device, client, history>>

\* A parameter that has not come: get_dword goes through a null pointer.
Faults(c) == up[c].op \in {"seek", "read"} /\ up[c].got = -1

\* OP_SEEK, OP_SEEK64: the answer is the position, the old one if it cannot seek.
Seek(c) ==
    /\ Got(c, "seek") /\ ~Faults(c)
    /\ LET p   == up[c].where
           pos == IF p <= Size THEN p ELSE server[c].pos
       IN  /\ server' = [server EXCEPT ![c].pos = pos]
           /\ Reply(c, <<Count(pos)>>)
    /\ UNCHANGED <<device, client, history>>

\* Mutant: an error is not answered.
ReadError_none == <<>>

\* Mutant: an error is answered, and then the packet sent as well.
ReadError_packet == <<Failed, Data(<<>>)>>
ReadError == <<Failed>>

\* OP_READ: to the end of the device, or an error
ReadDevice(c) ==
    /\ Got(c, "read") /\ ~Faults(c)
    /\ LET p == server[c].pos
           n == Least(up[c].len, Size - p)
       IN  \/ /\ server' = [server EXCEPT ![c].pos = p + n]
              /\ Reply(c, <<Count(n), Data([i \in 1..n |-> device[p + i - 1]])>>)
           \/ server' = server /\ Reply(c, ReadError)
    /\ UNCHANGED <<device, client, history>>

\* What recv_packet leaves of a write's data: what has not come is 0.
Payload(r) == [i \in 1..(IF r.got = -1 THEN 0 ELSE r.len) |-> IF i <= r.got THEN r.val ELSE Zero]

\* The cells that a client's call is about, n of them
Accessed(c, n) == {p \in Cells : p >= io[c].where /\ p < io[c].where + n}
Put(f, cells, v) == [p \in Cells |-> IF p \in cells THEN v ELSE f[p]]

\* Sessions that a write of c's process is not kept apart from by a lock
Unprotected(c) == {d \in Clients \ {c} :
    server[d].ready /\ (server[c].lock = "none" \/ server[d].lock = "none")}
Nothing == [p \in Cells |-> Unknown]

\* OP_WRITE: all of it, part of it, or none
WriteDevice(c) ==
    /\ Got(c, "write")
    /\ LET p    == server[c].pos
           data == Payload(up[c])
           fits == Least(Len(data), Size - p)
       IN  \/ /\ ~server[c].readOnly
              /\ \E n \in 0..fits :
                     /\ n > 0 \/ Len(data) = 0
                     /\ device' = [q \in Cells |-> IF q \in p..p+n-1 THEN data[q - p + 1]
                                                   ELSE device[q]]
                     /\ server' = [server EXCEPT ![c].pos = p + n]
                     /\ stored' = IF state[c] = "out"
                                  THEN IF c \notin disturbed THEN stored
                                       ELSE Put(stored, p..p+n-1, Unknown)
                                  ELSE Put(stored, Accessed(c, n), io[c].val)
                     /\ disturbed' = disturbed \cup Unprotected(c)
                     /\ known' = [d \in Clients |-> IF d \in Unprotected(c) THEN Nothing
                                                   ELSE known[d]]
                     /\ Reply(c, <<Count(n)>>)
           \/ UNCHANGED <<device, server, history>> /\ Reply(c, <<Failed>>)
    /\ UNCHANGED client

\* OP_FLUSH
Fsync(c) ==
    /\ Got(c, "flush")
    /\ Reply(c, <<Count(0)>>)
    /\ UNCHANGED <<device, client, server, history>>

\* OP_CLOSE: the answer goes through a buffer that is free already, so that it
\* may or may not arrive.
CloseDevice(c) ==
    /\ Got(c, "close")
    /\ \E answer \in {<<>>, <<Count(0)>>} : Reply(c, answer)
    /\ server' = [server EXCEPT ![c] = NoServer] /\ disturbed' = disturbed \ {c}
    /\ UNCHANGED <<device, client, known, stored>>

\* The end of the connection where a request should begin, or a fault
Hangup(c) ==
    /\ server[c].alive
    /\ (state[c] = "out" /\ up[c] = NoRequest) \/ Faults(c)
    /\ server' = [server EXCEPT ![c] = Gone(@)]
    /\ up' = [up EXCEPT ![c] = NoRequest] /\ disturbed' = disturbed \ {c}
    /\ UNCHANGED <<device, client, down, known, stored>>

-----------------------------------------------------------------------------
(* floppyd_io.c                                                             *)

\* What is sent to a process that is gone is lost.
Sent(c, r) == [up EXCEPT ![c] = IF server[c].alive THEN r ELSE NoRequest]

\* ConnectToFloppyd: a connection that floppyd cannot fork a process for is
\* accepted and closed; write is what the client is going to do.
Connect(c, version10) ==
    /\ state' = [state EXCEPT ![c] = "hello"] /\ old' = [old EXCEPT ![c] = version10]
    /\ lastwhere' = [lastwhere EXCEPT ![c] = 0] /\ io' = [io EXCEPT ![c] = NoRequest]
    /\ down' = [down EXCEPT ![c] = <<>>]
    /\ \/ /\ server' = [server EXCEPT ![c] = [NoServer EXCEPT !.alive = TRUE]]
          /\ up' = [up EXCEPT ![c] = Command(IF version10 THEN "helloOld" ELSE "hello")]
       \/ UNCHANGED <<server, up>>
    /\ UNCHANGED <<device, history>>

FloppydOpen(c, write) ==
    /\ state[c] = "out" /\ ~server[c].alive /\ calls < MaxCalls /\ calls' = calls + 1
    /\ rw' = [rw EXCEPT ![c] = write] /\ Connect(c, FALSE)

\* The answer has come as far as it can, and whether it is whole.
Whole(c) ==
    /\ down[c] # <<>>
    /\ io[c].op = "read" /\ state[c] = "io" /\ Head(down[c]).n # -1 => Len(down[c]) > 1
Taken(c) == IF state[c] = "io" /\ io[c].op = "read" /\ Head(down[c]).n # -1 THEN 2 ELSE 1
Answered(c, s) == state[c] = s /\ Whole(c)
Take(c) == down' = [down EXCEPT ![c] = SubSeq(@, Taken(c) + 1, Len(@))]

\* The end of a session
Forget(c) ==
    /\ state' = [state EXCEPT ![c] = "out"] /\ old' = [old EXCEPT ![c] = FALSE]
    /\ io' = [io EXCEPT ![c] = NoRequest]
    /\ lastwhere' = [lastwhere EXCEPT ![c] = 0] /\ rw' = [rw EXCEPT ![c] = FALSE]
    /\ known' = [known EXCEPT ![c] = Nothing]
    /\ UNCHANGED <<calls, disturbed>>

\* authenticate_to_floppyd
Greeted(c) ==
    /\ Answered(c, "hello") /\ Take(c)
    /\ state' = [state EXCEPT ![c] = "cookie"] /\ up' = Sent(c, Command("cookie"))
    /\ UNCHANGED <<device, old, rw, lastwhere, io, calls, server, history>>

\* floppyd_open asks version 11 only.
Authenticated(c) ==
    /\ Answered(c, "cookie")
    /\ IF Head(down[c]).n < 0
       THEN Forget(c) /\ down' = [down EXCEPT ![c] = <<>>] /\ up' = up
       ELSE /\ Take(c)
            /\ IF old[c] THEN state' = [state EXCEPT ![c] = "idle"] /\ up' = up
               ELSE /\ state' = [state EXCEPT ![c] = "open"]
                    /\ up' = Sent(c, Command(OpenOp(rw[c])))
            /\ UNCHANGED <<old, rw, lastwhere, io, calls, known, disturbed>>
    /\ UNCHANGED <<device, server, stored>>

\* The connection has ended before floppyd told its version.
FallBack(c) ==
    /\ state[c] = "hello" /\ ~old[c] /\ ~server[c].alive /\ ~Whole(c)
    /\ Cardinality({d \in Clients : old[d]}) < MaxOld
    /\ UNCHANGED <<rw, calls>> /\ Connect(c, TRUE)

Opened(c) ==
    /\ Answered(c, "open")
    /\ IF Head(down[c]).n < 0
       THEN Forget(c) /\ down' = [down EXCEPT ![c] = <<>>]
       ELSE /\ state' = [state EXCEPT ![c] = "idle"] /\ Take(c)
            /\ UNCHANGED <<old, rw, lastwhere, io, calls, known, disturbed>>
    /\ UNCHANGED <<device, up, server, stored>>

\* floppyd_io: a seek only if the server is elsewhere, and for version 10 only
\* as far as an int32_t goes
Beyond(c, where) == old[c] /\ where >= OffsetWrap \div 2
StartIO(c, op, where, len, val) ==
    /\ state[c] = "idle" /\ (op = "write" => rw[c])
    /\ calls < MaxCalls /\ calls' = calls + 1
    /\ where = lastwhere[c] \/ ~Beyond(c, where)
    /\ LET call == [op |-> op, where |-> where, len |-> len, val |-> val, got |-> len]
           seek == [Command("seek") EXCEPT !.where = where % OffsetWrap]
       IN  /\ io' = [io EXCEPT ![c] = call]
           /\ IF where = lastwhere[c]
              THEN state' = [state EXCEPT ![c] = "io"] /\ up' = Sent(c, call)
              ELSE state' = [state EXCEPT ![c] = "seek"] /\ up' = Sent(c, seek)
    /\ UNCHANGED <<device, old, rw, lastwhere, down, server, history>>

\* What remains of a call that failed
\* Mutant: the position is taken to be where it was.
After_kept(c) == lastwhere[c]
After(c) == -1
Fail(c) ==
    /\ state' = [state EXCEPT ![c] = "idle"] /\ io' = [io EXCEPT ![c] = NoRequest]
    /\ lastwhere' = [lastwhere EXCEPT ![c] = After(c)]
    /\ known' = IF io[c].op = "write"
                THEN [known EXCEPT ![c] = Put(@, Accessed(c, io[c].len), Unknown)] ELSE known
    /\ UNCHANGED <<old, rw, calls, disturbed>>

Sought(c) ==
    /\ Answered(c, "seek") /\ Take(c)
    /\ IF Head(down[c]).n < 0 THEN Fail(c) /\ up' = up
       ELSE /\ state' = [state EXCEPT ![c] = "io"] /\ up' = Sent(c, io[c])
            /\ UNCHANGED <<old, rw, lastwhere, io, calls, known, disturbed>>
    /\ UNCHANGED <<device, server, stored>>

\* The end of floppyd_io
EndIO(c) ==
    /\ Answered(c, "io") /\ Take(c)
    /\ LET n     == Head(down[c]).n
           cells == Accessed(c, n)
           read  == down[c][2].data
       IN  IF n = -1 THEN Fail(c)
           ELSE /\ state' = [state EXCEPT ![c] = "idle"] /\ io' = [io EXCEPT ![c] = NoRequest]
                /\ lastwhere' = [lastwhere EXCEPT ![c] = io[c].where + n]
                /\ known' = IF ~server[c].alive \/ c \in disturbed THEN known
                            ELSE IF io[c].op = "write"
                            THEN [known EXCEPT ![c] = Put(@, cells, io[c].val)]
                            ELSE [known EXCEPT ![c] = [p \in Cells |->
                                     IF p \in cells THEN read[p - io[c].where + 1] ELSE @[p]]]
                /\ UNCHANGED <<old, rw, calls, disturbed>>
    /\ UNCHANGED <<device, up, server, stored>>

\* floppyd_flush and floppyd_free
StartCommand(c, op) ==
    /\ state[c] = "idle"
    /\ state' = [state EXCEPT ![c] = op] /\ up' = Sent(c, Command(op))
    /\ UNCHANGED <<device, old, rw, lastwhere, io, calls, down, server, history>>
Flushed(c) ==
    /\ Answered(c, "flush") /\ Take(c)
    /\ state' = [state EXCEPT ![c] = "idle"]
    /\ UNCHANGED <<device, old, rw, lastwhere, io, calls, up, server, history>>
Closed(c) ==
    /\ Answered(c, "close") /\ Take(c) /\ Forget(c)
    /\ UNCHANGED <<device, up, server, stored>>

\* The server is gone and the answer not whole.  A request that can no longer
\* be sent fails, too, or seems to have succeeded (AUTH_IO_ERROR is positive):
\* in a session whose server is gone nothing is known of the device.
EndOfFile(c) ==
    /\ state[c] # "out" /\ ~server[c].alive /\ state[c] # "idle" /\ ~Whole(c)
    /\ IF state[c] \in {"hello", "cookie", "open", "close"} THEN Forget(c)
       ELSE IF state[c] \in {"seek", "io"} THEN Fail(c)
       ELSE state' = [state EXCEPT ![c] = "idle"] /\ UNCHANGED <<old, rw, lastwhere, io, calls, known, disturbed>>
    /\ up' = up /\ down' = [down EXCEPT ![c] = <<>>]
    /\ UNCHANGED <<device, server, stored>>

-----------------------------------------------------------------------------
(* What is lost                                                             *)

\* A client ends; of a request it was sending, a part arrives.
ClientDies(c) ==
    /\ state[c] # "out" /\ Forget(c)
    /\ down' = [down EXCEPT ![c] = <<>>]
    /\ \/ up' = [up EXCEPT ![c] = NoRequest] /\ stored' = stored
       \/ /\ up[c] # NoRequest
          /\ \E g \in -1..up[c].len : up' = [up EXCEPT ![c].got = g]
          /\ stored' = IF up[c].op = "write" THEN Put(stored, Accessed(c, up[c].len), Unknown)
                       ELSE stored
    /\ UNCHANGED <<device, server>>

\* A server process ends; its answer may get lost, or the second packet of it.
ServerDies(c) ==
    /\ server[c].alive
    /\ server' = [server EXCEPT ![c] = Gone(@)]
    /\ up' = [up EXCEPT ![c] = NoRequest]
    /\ \E n \in 0..Len(down[c]) : down' = [down EXCEPT ![c] = SubSeq(@, 1, n)]
    /\ known' = [known EXCEPT ![c] = Nothing] /\ disturbed' = disturbed \ {c}
    /\ UNCHANGED <<device, client, stored>>

-----------------------------------------------------------------------------
Init ==
    /\ device = [p \in Cells |-> Zero]
    /\ state = [c \in Clients |-> "out"] /\ rw = [c \in Clients |-> FALSE]
    /\ old = rw
    /\ lastwhere = [c \in Clients |-> 0] /\ io = [c \in Clients |-> NoRequest]
    /\ up = [c \in Clients |-> NoRequest] /\ down = [c \in Clients |-> <<>>]
    /\ server = [c \in Clients |-> NoServer]
    /\ known = [c \in Clients |-> Nothing] /\ disturbed = {}
    /\ stored = device /\ calls = 0

ServerStep(c) ==
    \/ Greet(c) \/ Refuse(c) \/ Authenticate(c) \/ OpenDevice(c) \/ Seek(c) \/ ReadDevice(c) \/ WriteDevice(c)
    \/ Fsync(c) \/ CloseDevice(c) \/ Hangup(c)
Receive(c) ==
    \/ Greeted(c) \/ Authenticated(c) \/ FallBack(c) \/ Opened(c) \/ Sought(c) \/ EndIO(c) \/ Flushed(c) \/ Closed(c) \/ EndOfFile(c)
Call(c) ==
    \/ \E write \in BOOLEAN : FloppydOpen(c, write)
    \/ \E where \in 0..MaxWhere, len \in 1..MaxLen :
          \/ StartIO(c, "read", where, len, Zero)
          \/ \E val \in Values : StartIO(c, "write", where, len, val)
    \/ \E op \in {"flush", "close"} : StartCommand(c, op)

Next == \E c \in Clients : ServerStep(c) \/ Receive(c) \/ Call(c) \/ ClientDies(c) \/ ServerDies(c)

Spec == Init /\ [][Next]_vars

-----------------------------------------------------------------------------
(* Properties                                                               *)

Requests == [op : {"none", "hello", "helloOld", "cookie", "opro", "oprw", "seek", "read", "write",
                   "flush", "close"},
             where : 0..MaxWhere, len : 0..MaxLen, val : Content, got : -1..MaxLen]

\* A process that is gone holds nothing.
TypeOK ==
    /\ device \in [Cells -> Content] /\ stored \in [Cells -> Content \cup {Unknown}]
    /\ state \in [Clients -> {"out", "hello", "cookie", "open", "idle", "seek", "io", "flush", "close"}]
    /\ old \in [Clients -> BOOLEAN] /\ rw \in [Clients -> BOOLEAN] /\ lastwhere \in [Clients -> -1..MaxWhere+MaxLen]
    /\ io \in [Clients -> Requests] /\ up \in [Clients -> Requests]
    /\ known \in [Clients -> [Cells -> Content \cup {Unknown}]]
    /\ \A c \in Clients :
        /\ \A i \in DOMAIN down[c] : down[c][i].n \in -1..Size
        /\ server[c].pos \in 0..Size
        /\ server[c].lock # "none" => server[c].open
        /\ server[c].open => server[c].alive /\ server[c].ready

\* As long as a session has its server, the device holds what the session has
\* read from it and written to it: no other client that has its lock interferes
\* (a version 10 session may be without one), and every access
\* is where it should be.  NEWS says of version 4.0.14: "Fix floppyd for disks
\* bigger than 2 Gig".
SessionView ==
    \A c \in Clients, p \in Cells :
        server[c].alive /\ known[c][p] # Unknown =>
            \/ io[c].op = "write" /\ p \in Accessed(c, io[c].len)
            \/ device[p] = known[c][p]

\* The device holds what the clients' writes have stored, whoever else comes,
\* goes or dies; a client that dies while it sends a write leaves its mark only
\* on the cells of that write.
StoresStay == \A p \in Cells : stored[p] # Unknown => device[p] = stored[p]

\* Between calls there is nothing in the connection: no answer is taken for the
\* answer to another request, but for the error of a version 10 process that
\* could not open the device and is gone.
InStep ==
    /\ TypeOK
    /\ \A c \in Clients : state[c] = "idle" => 
            /\ up[c] = NoRequest
            /\ down[c] = <<>> \/ (old[c] /\ ~server[c].alive /\ down[c] = <<Failed>>)

\* Nobody waits for what will not come: while a client is in a call, the server
\* process has its request, or the whole answer is on its way, or the process
\* is gone and the client will see the end of the connection.
NobodyStuck ==
    \A c \in Clients :
        state[c] \notin {"out", "idle"} =>
            ~server[c].alive \/ up[c] # NoRequest \/ Whole(c)
=============================================================================
