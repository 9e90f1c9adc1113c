---------------------------- MODULE FloppydProofs ----------------------------
(***************************************************************************)
(* Proofs about Floppyd, for any number of clients, any size of the device  *)
(* and requests of any length, as long as no client seeks beyond the end of *)
(* the device or beyond what the protocol's offset can say: first the       *)
(* conversation, then what the device holds.                                *)
(***************************************************************************)
EXTENDS Floppyd, SequenceTheorems, TLAPS

\* What a command of mtools keeps to: the size of the file system it found.
WithinDevice == MaxWhere <= Size /\ MaxWhere < OffsetWrap

-----------------------------------------------------------------------------
(* The conversation                                                         *)

Packets == [n : -1..Size, data : Seq(Content)]
Servers == [alive : BOOLEAN, old : BOOLEAN, ready : BOOLEAN, open : BOOLEAN,
            lock : {"none", "shared", "exclusive"}, readOnly : BOOLEAN, pos : 0..Size]
States == {"out", "hello", "cookie", "open", "idle", "seek", "io", "flush", "close"}

Typed ==
    /\ device \in [Cells -> Content] /\ stored \in [Cells -> Content \cup {Unknown}]
    /\ state \in [Clients -> States]
    /\ old \in [Clients -> BOOLEAN] /\ rw \in [Clients -> BOOLEAN]
    /\ lastwhere \in [Clients -> -1..MaxWhere+MaxLen]
    /\ io \in [Clients -> Requests] /\ up \in [Clients -> Requests]
    /\ down \in [Clients -> Seq(Packets)]
    /\ server \in [Clients -> Servers]
    /\ known \in [Clients -> [Cells -> Content \cup {Unknown}]]

\* A process holds a lock only on a device that it has opened for an
\* authenticated client, and for writing only an exclusive one.
ProcessRight(c) ==
    /\ ~server[c].alive => server[c] = NoServer /\ up[c] = NoRequest
    /\ server[c].open => server[c].ready
    /\ server[c].lock # "none" => server[c].open
    /\ server[c].lock = "shared" => server[c].readOnly
    /\ up[c].op \in {"opro", "oprw"} => server[c].ready /\ ~server[c].open
    /\ up[c].op \in {"seek", "read", "write", "flush", "close"} => server[c].ready

\* A client's call under way
CallRight(c) ==
    /\ state[c] \in {"seek", "io"} => io[c].op \in {"read", "write"} /\ io[c].got = io[c].len
    /\ state[c] \notin {"seek", "io"} => io[c] = NoRequest

\* What may be on its way to a client
AnswerRight(c) ==
    /\ Len(down[c]) <= 2
    /\ state[c] = "out" => Len(down[c]) = 0
    /\ Len(down[c]) = 2 =>
          \/ /\ state[c] = "io" /\ io[c].op = "read" /\ down[c][1].n # -1
             /\ Len(down[c][2].data) = down[c][1].n
          \/ state[c] = "cookie" /\ old[c] /\ ~server[c].alive /\ down[c][2] = Failed
    /\ state[c] = "io" /\ Len(down[c]) > 0 => down[c][1].n <= io[c].len
    /\ state[c] = "idle" /\ Len(down[c]) > 0 =>
          old[c] /\ ~server[c].alive /\ down[c][1] = Failed

\* The request r is the one that a client in a call has sent.
Asks(c, r) ==
    /\ state[c] = "hello"  => r = Command(IF old[c] THEN "helloOld" ELSE "hello")
    /\ state[c] = "cookie" => r = Command("cookie")
    /\ state[c] = "open"   => r = Command(OpenOp(rw[c]))
    /\ state[c] = "seek"   => r = [Command("seek") EXCEPT !.where = io[c].where]
    /\ state[c] = "io"     => r = io[c]
    /\ state[c] \in {"flush", "close"} => r = Command(state[c])

\* While the process lives, it has the client's request or has sent the whole
\* answer, and never both.
ExchangeRight(c) ==
    server[c].alive =>
        /\ state[c] = "idle" => up[c] = NoRequest
        /\ state[c] \notin {"out", "idle"} =>
              \/ up[c] # NoRequest /\ Asks(c, up[c]) /\ Len(down[c]) = 0
              \/ /\ up[c] = NoRequest /\ Len(down[c]) > 0
                 /\ state[c] = "io" /\ io[c].op = "read" /\ down[c][1].n # -1 => Len(down[c]) = 2
        /\ state[c] \in {"idle", "seek", "io", "flush", "close"} => server[c].ready
        /\ state[c] = "open" => server[c].ready
        /\ state[c] = "hello" =>
              ~server[c].ready /\ (up[c] = NoRequest => server[c].old = old[c])
        /\ state[c] = "cookie" =>
              /\ server[c].old = old[c]
              /\ up[c] = NoRequest => server[c].ready /\ (~old[c] => ~server[c].open)
              /\ up[c] # NoRequest => ~server[c].ready

ClientRight(c) == ProcessRight(c) /\ CallRight(c) /\ AnswerRight(c) /\ ExchangeRight(c)

\* A writer that has locked the device has it to itself.
LocksExclude ==
    \A c, d \in Clients :
        c # d /\ server[c].lock = "exclusive" => server[d].lock = "none"

Control == Typed /\ LocksExclude /\ \A c \in Clients : ClientRight(c)

-----------------------------------------------------------------------------
(* What the steps have in common                                            *)

\* Commands are requests, and none of them is NoRequest.
LEMMA CommandsAreRequests ==
    /\ NoRequest \in Requests /\ NoRequest.op = "none"
    /\ \A op \in {"hello", "helloOld", "cookie", "opro", "oprw", "seek", "flush", "close"} :
          /\ Command(op) \in Requests /\ Command(op) # NoRequest
          /\ Command(op).op = op /\ Command(op).got = 0
    /\ \A w \in 0..MaxWhere : LET seek == [Command("seek") EXCEPT !.where = w]
                              IN  /\ seek \in Requests /\ seek # NoRequest
                                  /\ seek.op = "seek" /\ seek.got = 0 /\ seek.where = w
  <1>1. /\ NoRequest \in Requests /\ NoRequest.op = "none"
        /\ \A op \in {"hello", "helloOld", "cookie", "opro", "oprw", "seek", "flush", "close"} :
              /\ Command(op) \in Requests /\ Command(op) # NoRequest
              /\ Command(op).op = op /\ Command(op).got = 0
    BY FloppydAssumption DEF FloppydAssumption, NoRequest, Requests, Command, Content
  <1>2. ASSUME NEW w \in 0..MaxWhere
        PROVE  LET seek == [Command("seek") EXCEPT !.where = w]
               IN  /\ seek \in Requests /\ seek # NoRequest
                   /\ seek.op = "seek" /\ seek.got = 0 /\ seek.where = w
    <2> DEFINE seek == [Command("seek") EXCEPT !.where = w]
    <2>0. Command("seek") = [op |-> "seek", where |-> 0, len |-> 0, val |-> Zero, got |-> 0]
      BY DEF Command, NoRequest
    <2>1. seek = [op |-> "seek", where |-> w, len |-> 0, val |-> Zero, got |-> 0]
      BY <2>0
    <2>2. seek \in Requests /\ seek.op = "seek" /\ seek.got = 0 /\ seek.where = w
      BY <2>1, FloppydAssumption DEF FloppydAssumption, Requests, Content
    <2> QED BY <1>1, <2>2
  <1> QED BY <1>1, <1>2

\* What a client in a call has sent tells what it waits for.
LEMMA OpTells ==
    ASSUME Typed, NEW c \in Clients, CallRight(c), NEW r, Asks(c, r), state[c] \notin {"out", "idle"}
    PROVE  /\ r \in Requests /\ r # NoRequest /\ r.got # -1
           /\ state[c] = "hello" => r.op = IF old[c] THEN "helloOld" ELSE "hello"
           /\ state[c] = "open" => r.op = OpenOp(rw[c])
           /\ state[c] = "io" => r.op \in {"read", "write"}
           /\ state[c] \in {"cookie", "seek", "flush", "close"} => r.op = state[c]
  <1>1. /\ state[c] \in States \ {"out", "idle"} /\ io[c] \in Requests
        /\ old[c] \in BOOLEAN /\ rw[c] \in BOOLEAN
    BY DEF Typed
  <1>2. CASE state[c] = "hello"
    BY <1>2, <1>1, CommandsAreRequests DEF Asks
  <1>3. CASE state[c] = "open"
    BY <1>3, <1>1, CommandsAreRequests DEF Asks, OpenOp
  <1>4. CASE state[c] \in {"cookie", "flush", "close"}
    BY <1>4, <1>1, CommandsAreRequests DEF Asks
  <1>5. CASE state[c] = "seek"
    BY <1>5, <1>1, CommandsAreRequests DEF Asks, Requests
  <1>6. CASE state[c] = "io"
    <2>1. r = io[c] /\ r.op \in {"read", "write"} /\ r.got = r.len
      BY <1>6 DEF Asks, CallRight
    <2> QED BY <1>1, <1>6, <2>1, FloppydAssumption, CommandsAreRequests DEF Requests, FloppydAssumption
  <1> QED BY <1>1, <1>2, <1>3, <1>4, <1>5, <1>6 DEF States

\* The fields of a process' record
LEMMA ServerFields ==
    /\ NoServer \in Servers
    /\ \A s \in Servers, b \in BOOLEAN :
          LET t == [s EXCEPT !.old = b]
          IN  /\ t \in Servers /\ t.alive = s.alive /\ t.ready = s.ready /\ t.open = s.open
              /\ t.lock = s.lock /\ t.readOnly = s.readOnly /\ t.pos = s.pos /\ t.old = b
    /\ \A s \in Servers, b \in BOOLEAN :
          LET t == [s EXCEPT !.readOnly = b]
          IN  /\ t \in Servers /\ t.alive = s.alive /\ t.ready = s.ready /\ t.open = s.open
              /\ t.lock = s.lock /\ t.readOnly = b /\ t.pos = s.pos /\ t.old = s.old
    /\ \A s \in Servers, p \in 0..Size :
          LET t == [s EXCEPT !.pos = p]
          IN  /\ t \in Servers /\ t.alive = s.alive /\ t.ready = s.ready /\ t.open = s.open
              /\ t.lock = s.lock /\ t.readOnly = s.readOnly /\ t.pos = p /\ t.old = s.old
  BY FloppydAssumption DEF NoServer, Servers, FloppydAssumption

\* Replies of one packet or two are sequences of packets.
LEMMA PacketSequences ==
    /\ \A n \in -1..Size : Count(n) \in Packets /\ Count(n).n = n
    /\ \A s \in Seq(Content) : Len(s) <= Size => Data(s) \in Packets /\ Data(s).n = Len(s)
    /\ \A x \in Packets : <<x>> \in Seq(Packets) /\ Len(<<x>>) = 1 /\ <<x>>[1] = x
    /\ \A x, y \in Packets : /\ <<x, y>> \in Seq(Packets) /\ Len(<<x, y>>) = 2
                             /\ <<x, y>>[1] = x /\ <<x, y>>[2] = y
    /\ Failed \in Packets /\ Failed.n = -1
  <1>1. \A n \in -1..Size : Count(n) \in Packets /\ Count(n).n = n
    BY DEF Count, Packets
  <1>2. \A s \in Seq(Content) : Len(s) <= Size => Data(s) \in Packets /\ Data(s).n = Len(s)
    BY DEF Data, Packets
  <1>3. Failed \in Packets /\ Failed.n = -1
    BY <1>1, FloppydAssumption DEF Failed, FloppydAssumption
  <1> QED BY <1>1, <1>2, <1>3

\* The rest of a connection after k packets have been taken
LEMMA RestOf ==
    ASSUME NEW s \in Seq(Packets), NEW k \in 0..Len(s)
    PROVE  /\ SubSeq(s, k+1, Len(s)) \in Seq(Packets)
           /\ Len(SubSeq(s, k+1, Len(s))) = Len(s) - k
           /\ \A i \in 1..Len(s)-k : SubSeq(s, k+1, Len(s))[i] = s[i+k]
  BY SubSeqProperties

\* The first n packets of a connection
LEMMA StartOf ==
    ASSUME NEW s \in Seq(Packets), NEW n \in 0..Len(s)
    PROVE  /\ SubSeq(s, 1, n) \in Seq(Packets)
           /\ Len(SubSeq(s, 1, n)) = n
           /\ \A i \in 1..n : SubSeq(s, 1, n)[i] = s[i]
  BY SubSeqProperties

\* send_reply of a process that serves a request: the client in a call gets
\* these packets and nothing else.
LEMMA Replied ==
    ASSUME Control, NEW c \in Clients, server[c].alive, up[c].op # "none",
           NEW packets \in Seq(Packets), Reply(c, packets)
    PROVE  /\ up' \in [Clients -> Requests] /\ up'[c] = NoRequest
           /\ down' \in [Clients -> Seq(Packets)]
           /\ down'[c] = IF state[c] = "out" THEN <<>> ELSE packets
           /\ \A d \in Clients \ {c} : up'[d] = up[d] /\ down'[d] = down[d]
           /\ state[c] = "out" \/ (state[c] # "idle" /\ Asks(c, up[c]))
  <1>1. state[c] = "out" \/ (state[c] # "idle" /\ up[c] # NoRequest /\ Asks(c, up[c]) /\ Len(down[c]) = 0)
    BY CommandsAreRequests DEF Control, ClientRight, ExchangeRight
  <1>2. state[c] # "out" => down[c] \o packets = packets
    <2> SUFFICES ASSUME state[c] # "out" PROVE down[c] \o packets = packets
      OBVIOUS
    <2>1. down[c] \in Seq(Packets) /\ Len(down[c]) = 0
      BY <1>1 DEF Control, Typed
    <2>2. down[c] = <<>>
      BY <2>1, EmptySeq
    <2> QED BY <2>2, ConcatEmptySeq
  <1>3. <<>> \in Seq(Packets)
    BY EmptySeq
  <1> QED BY <1>1, <1>2, <1>3, CommandsAreRequests DEF Control, Typed, Reply

\* A client that takes an answer leaves nothing in the connection, but for the
\* error of a version 10 process that could not open the device.
LEMMA Took ==
    ASSUME Control, NEW c \in Clients, state[c] # "out", Whole(c), Take(c)
    PROVE  /\ Len(down[c]) > 0 /\ Head(down[c]) = down[c][1] /\ down[c][1] \in Packets
           /\ down' \in [Clients -> Seq(Packets)]
           /\ \A d \in Clients \ {c} : down'[d] = down[d]
           /\ \/ Len(down'[c]) = 0
              \/ /\ state[c] = "cookie" /\ old[c] /\ ~server[c].alive
                 /\ Len(down'[c]) = 1 /\ down'[c][1] = Failed
  <1>1. down[c] \in Seq(Packets) /\ down[c] # <<>>
    BY DEF Control, Typed, Whole
  <1>2. /\ Len(down[c]) > 0 /\ Len(down[c]) \in Nat
        /\ Head(down[c]) = down[c][1] /\ down[c][1] \in Packets
    BY <1>1, EmptySeq
  <1>3. Taken(c) \in 0..Len(down[c])
    BY <1>1, <1>2 DEF Taken, Whole
  <1>4. /\ down'[c] = SubSeq(down[c], Taken(c)+1, Len(down[c]))
        /\ \A d \in Clients \ {c} : down'[d] = down[d]
        /\ down' \in [Clients -> Seq(Packets)]
    BY <1>1, <1>3, RestOf DEF Control, Typed, Take
  <1>5. Len(down'[c]) = Len(down[c]) - Taken(c)
    BY <1>1, <1>3, <1>4, RestOf
  <1>6. AnswerRight(c)
    BY DEF Control, ClientRight
  <1>7. CASE Len(down[c]) = Taken(c)
    BY <1>1, <1>2, <1>4, <1>5, <1>7
  <1>8. CASE Len(down[c]) # Taken(c)
    <2>0. Taken(c) \in {1, 2} /\ Len(down[c]) <= 2
      BY <1>6 DEF Taken, AnswerRight
    <2>1. Len(down[c]) = 2 /\ Taken(c) = 1
      <3>1. \A n \in Nat, k \in {1, 2} : n <= 2 /\ k \in 0..n /\ n # k => n = 2 /\ k = 1
        OBVIOUS
      <3> QED BY <1>2, <1>3, <1>8, <2>0, <3>1, Zenon
    <2>2. state[c] = "cookie" /\ old[c] /\ ~server[c].alive /\ down[c][2] = Failed
      BY <1>2, <1>6, <2>1 DEF AnswerRight, Taken
    <2>3. Len(down'[c]) = 1 /\ down'[c][1] = down[c][2]
      BY <1>1, <1>3, <1>4, <1>5, <2>1, RestOf
    <2> QED BY <1>2, <1>4, <2>2, <2>3
  <1> QED BY <1>7, <1>8

\* Nothing changes for the other clients and their processes.
Elsewhere(c) ==
    \A d \in Clients \ {c} :
        UNCHANGED <<state[d], old[d], rw[d], io[d], up[d], down[d], server[d]>>

\* A step of one client or its process leaves the others' conversations right.
LEMMA OneClient ==
    ASSUME Control, NEW c \in Clients, Elsewhere(c), Typed', LocksExclude', ClientRight(c)'
    PROVE  Control'
  <1> SUFFICES ASSUME NEW d \in Clients \ {c} PROVE ClientRight(d)'
    BY DEF Control
  <1>1. /\ state'[d] = state[d] /\ old'[d] = old[d] /\ rw'[d] = rw[d] /\ io'[d] = io[d]
        /\ up'[d] = up[d] /\ down'[d] = down[d] /\ server'[d] = server[d]
    BY DEF Elsewhere
  <1>2. ProcessRight(d) /\ CallRight(d) /\ AnswerRight(d) /\ ExchangeRight(d)
    BY DEF Control, ClientRight
  <1>3. ProcessRight(d)' /\ CallRight(d)' /\ AnswerRight(d)'
    BY <1>1, <1>2 DEF ProcessRight, CallRight, AnswerRight
  <1>4. ExchangeRight(d)'
    BY <1>1, <1>2, Zenon DEF ExchangeRight, Asks
  <1> QED BY <1>3, <1>4 DEF ClientRight

\* A process that gives up its lock, or gets one that is to be had, leaves the
\* locks exclusive.
LEMMA LocksKept ==
    ASSUME Control, NEW c \in Clients,
           \A d \in Clients \ {c} : server'[d] = server[d],
           \/ server'[c].lock \in {server[c].lock, "none"}
           \/ \E write \in BOOLEAN :
                 Compatible(c, write) /\ server'[c].lock = IF write THEN "exclusive" ELSE "shared"
    PROVE  LocksExclude'
  BY DEF Control, LocksExclude, Compatible

-----------------------------------------------------------------------------
(* floppyd.c: the process' steps                                            *)

\* What a process that serves a request is left with, so that everything stays
\* right: s is its new state.
Leaves(c, s, packets) ==
    /\ s \in Servers
    /\ ~s.alive => s = NoServer
    /\ s.open => s.ready
    /\ s.lock # "none" => s.open
    /\ s.lock = "shared" => s.readOnly
    /\ \/ s.lock \in {server[c].lock, "none"}
       \/ \E write \in BOOLEAN :
             Compatible(c, write) /\ s.lock = IF write THEN "exclusive" ELSE "shared"
    /\ state[c] # "out" =>
          /\ Len(packets) <= 2
          /\ Len(packets) = 2 =>
                \/ /\ state[c] = "io" /\ io[c].op = "read" /\ packets[1].n # -1
                   /\ Len(packets[2].data) = packets[1].n
                \/ state[c] = "cookie" /\ old[c] /\ ~s.alive /\ packets[2] = Failed
          /\ state[c] = "io" => packets[1].n <= io[c].len
          /\ s.alive =>
                /\ Len(packets) > 0
                /\ state[c] = "io" /\ io[c].op = "read" /\ packets[1].n # -1 => Len(packets) = 2
                /\ state[c] # "hello" => s.ready
                /\ state[c] = "hello" => ~s.ready /\ s.old = old[c]
                /\ state[c] = "cookie" => s.old = old[c] /\ (~old[c] => ~s.open)

\* A process' step that answers its client's request keeps the conversation right,
\* if the answer is one that the client expects.
LEMMA Served ==
    ASSUME Control, NEW c \in Clients, server[c].alive, up[c].op # "none",
           NEW packets \in Seq(Packets), Reply(c, packets), UNCHANGED client,
           NEW s, Leaves(c, s, packets), server' = [server EXCEPT ![c] = s],
           device' \in [Cells -> Content], stored' \in [Cells -> Content \cup {Unknown}],
           known' \in [Clients -> [Cells -> Content \cup {Unknown}]]
    PROVE  Control'
  <1>1. /\ up' \in [Clients -> Requests] /\ up'[c] = NoRequest
        /\ down' \in [Clients -> Seq(Packets)]
        /\ down'[c] = IF state[c] = "out" THEN <<>> ELSE packets
        /\ \A d \in Clients \ {c} : up'[d] = up[d] /\ down'[d] = down[d]
        /\ state[c] = "out" \/ (state[c] # "idle" /\ Asks(c, up[c]))
    BY Replied
  <1>2. s \in Servers
    BY DEF Leaves
  <1>3. server \in [Clients -> Servers]
    BY DEF Control, Typed
  <1>4. /\ server' \in [Clients -> Servers] /\ server'[c] = s
        /\ \A d \in Clients \ {c} : server'[d] = server[d]
    BY <1>2, <1>3
  <1>5. Typed'
    BY <1>1, <1>4 DEF Control, Typed, client
  <1>6. Elsewhere(c)
    BY <1>1, <1>4 DEF Elsewhere, client
  <1>7. LocksExclude'
    BY <1>4, LocksKept DEF Leaves
  <1>8. ClientRight(c)'
    <2>0. UNCHANGED <<state, old, rw, io>>
      BY DEF client
    <2>1. ProcessRight(c)'
      BY <1>1, <1>4, CommandsAreRequests DEF Leaves, ProcessRight
    <2>2. CallRight(c)'
      BY <2>0 DEF Control, ClientRight, CallRight
    <2>3. Len(down'[c]) = IF state[c] = "out" THEN 0 ELSE Len(packets)
      BY <1>1, EmptySeq
    <2>4. AnswerRight(c)'
      BY <1>1, <1>4, <2>0, <2>3 DEF Leaves, AnswerRight
    <2>5. ExchangeRight(c)'
      BY <1>1, <1>4, <2>0, <2>3 DEF Leaves, ExchangeRight
    <2> QED BY <2>1, <2>2, <2>4, <2>5 DEF ClientRight
  <1> QED BY <1>5, <1>6, <1>7, <1>8, OneClient

\* What a process that serves a client's request knows about it
LEMMA Serving ==
    ASSUME Control, NEW c \in Clients, server[c].alive, up[c].op # "none"
    PROVE  /\ server[c] \in Servers
           /\ server[c].open => server[c].ready
           /\ server[c].lock # "none" => server[c].open
           /\ server[c].lock = "shared" => server[c].readOnly
           /\ up[c].op \in {"opro", "oprw"} => server[c].ready /\ ~server[c].open
           /\ up[c].op \in {"seek", "read", "write", "flush", "close"} => server[c].ready
           /\ state[c] # "out" =>
                /\ state[c] \in States \ {"idle"} /\ Asks(c, up[c])
                /\ up[c].got # -1
                /\ state[c] = "hello" => /\ up[c].op = IF old[c] THEN "helloOld" ELSE "hello"
                                         /\ ~server[c].ready
                /\ state[c] = "open" => up[c].op = OpenOp(rw[c])
                /\ state[c] = "io" => up[c].op \in {"read", "write"} /\ up[c] = io[c]
                /\ state[c] = "cookie" => server[c].old = old[c]
                /\ state[c] \in {"cookie", "seek", "flush", "close"} => up[c].op = state[c]
  <1>1. /\ server[c] \in Servers /\ Typed /\ state[c] \in States
        /\ ProcessRight(c) /\ CallRight(c) /\ ExchangeRight(c)
    BY DEF Control, ClientRight, Typed
  <1>2. state[c] # "out" => state[c] # "idle" /\ Asks(c, up[c])
    BY <1>1, CommandsAreRequests DEF ExchangeRight
  <1>3. state[c] = "io" => up[c] = io[c]
    BY <1>2 DEF Asks
  <1>4. /\ state[c] = "hello" => ~server[c].ready
        /\ state[c] = "cookie" => server[c].old = old[c]
    BY <1>1 DEF ExchangeRight
  <1>5. state[c] # "out" =>
            /\ up[c].got # -1
            /\ state[c] = "hello" => up[c].op = IF old[c] THEN "helloOld" ELSE "hello"
            /\ state[c] = "open" => up[c].op = OpenOp(rw[c])
            /\ state[c] = "io" => up[c].op \in {"read", "write"}
            /\ state[c] \in {"cookie", "seek", "flush", "close"} => up[c].op = state[c]
    BY <1>1, <1>2, OpTells
  <1> QED BY <1>1, <1>2, <1>3, <1>4, <1>5 DEF ProcessRight

\* The packets that processes reply with
LEMMA Replies ==
    /\ <<Failed>> \in Seq(Packets) /\ Len(<<Failed>>) = 1 /\ <<Failed>>[1].n = -1
    /\ \A n \in 0..Size : /\ <<Count(n)>> \in Seq(Packets) /\ Len(<<Count(n)>>) = 1
                          /\ <<Count(n)>>[1].n = n
    /\ /\ <<Count(0), Failed>> \in Seq(Packets) /\ Len(<<Count(0), Failed>>) = 2
       /\ <<Count(0), Failed>>[1].n = 0 /\ <<Count(0), Failed>>[2] = Failed
  BY PacketSequences, FloppydAssumption DEF FloppydAssumption

\* do_auth tells the version: the client waits for it, and the process is not ready yet.
LEMMA GreetRight == ASSUME Control, NEW c \in Clients, Greet(c) PROVE Control'
  <1>1. PICK b \in BOOLEAN : b = (up[c].op = "helloOld")
    OBVIOUS
  <1> DEFINE s == [server[c] EXCEPT !.old = b]
  <1>2. /\ up[c].op \in {"hello", "helloOld"} /\ server[c].alive
        /\ server' = [server EXCEPT ![c] = s] /\ Reply(c, <<Count(0)>>)
        /\ device' = device /\ stored' = stored /\ known' = known /\ UNCHANGED client
    BY <1>1 DEF Greet, Got, history
  <1>3. server[c] \in Servers
    BY DEF Control, Typed
  <1>4. /\ s \in Servers /\ s.alive = server[c].alive /\ s.open = server[c].open
        /\ s.ready = server[c].ready /\ s.lock = server[c].lock
        /\ s.readOnly = server[c].readOnly /\ s.old = b
    BY <1>3, ServerFields
  <1> HIDE DEF s
  <1>5. 0 \in 0..Size
    BY FloppydAssumption DEF FloppydAssumption
  <1>6. Leaves(c, s, <<Count(0)>>)
    <2>1. state[c] # "out" => /\ state[c] = "hello" /\ ~server[c].ready
                              /\ up[c].op = IF old[c] THEN "helloOld" ELSE "hello"
      BY <1>2, Serving DEF States, OpenOp
    <2>2. state[c] # "out" => b = old[c]
      BY <1>1, <2>1 DEF Control, Typed
    <2>3. Len(<<Count(0)>>) = 1
      OBVIOUS
    <2>4. /\ server[c].open => server[c].ready
          /\ server[c].lock # "none" => server[c].open
          /\ server[c].lock = "shared" => server[c].readOnly
      BY <1>2, Serving
    <2>5. /\ ~s.alive => s = NoServer
          /\ s.open => s.ready
          /\ s.lock # "none" => s.open
          /\ s.lock = "shared" => s.readOnly
          /\ s.lock \in {server[c].lock, "none"}
      BY <1>2, <1>4, <2>4
    <2>6. CASE state[c] # "out"
      <3>1. ~s.ready
        BY <1>4, <2>1, <2>6
      <3>2. s.old = old[c]
        BY <1>4, <2>2, <2>6
      <3> QED BY <1>4, <2>1, <2>3, <2>5, <2>6, <3>1, <3>2 DEF Leaves
    <2>7. CASE state[c] = "out"
      BY <1>4, <2>5, <2>7 DEF Leaves
    <2> QED BY <2>6, <2>7
  <1>7. <<Count(0)>> \in Seq(Packets)
    BY <1>5, Replies
  <1> QED BY <1>2, <1>6, <1>7, Served DEF Control, Typed

\* A client that is refused finds an error and then the end of the connection.
LEMMA RefuseRight == ASSUME Control, NEW c \in Clients, Refuse(c) PROVE Control'
  <1>1. /\ up[c].op \in {"cookie", "hello", "helloOld"} /\ server[c].alive
        /\ up[c].op # "cookie" => up[c].got = -1
        /\ server' = [server EXCEPT ![c] = NoServer] /\ Reply(c, <<Failed>>)
        /\ device' = device /\ stored' = stored /\ known' = known /\ UNCHANGED client
    BY DEF Refuse, Got, Gone, history
  <1>2. state[c] # "out" => state[c] = "cookie"
    BY <1>1, Serving DEF States, OpenOp
  <1>3. Leaves(c, NoServer, <<Failed>>)
    <2>1. /\ NoServer.lock = "none" /\ ~NoServer.open /\ ~NoServer.alive
      BY DEF NoServer
    <2> QED BY <1>2, <2>1, Replies, ServerFields DEF Leaves
  <1> QED BY <1>1, <1>3, Replies, Served DEF Control, Typed

\* After the cookie the process is ready, and that of a version 10 client has its
\* device open, or is gone after an error that nobody has asked for.
LEMMA AuthenticateRight == ASSUME Control, NEW c \in Clients, Authenticate(c) PROVE Control'
  <1>1. /\ up[c].op = "cookie" /\ server[c].alive
        /\ device' = device /\ stored' = stored /\ known' = known /\ UNCHANGED client
    BY DEF Authenticate, Got, history
  <1>2. /\ server[c] \in Servers
        /\ server[c].open => server[c].ready
        /\ server[c].lock # "none" => server[c].open
        /\ server[c].lock = "shared" => server[c].readOnly
        /\ state[c] # "out" => state[c] = "cookie" /\ server[c].old = old[c]
    BY <1>1, Serving DEF States, OpenOp
  <1>3. /\ <<Count(0)>> \in Seq(Packets) /\ Len(<<Count(0)>>) = 1
        /\ <<Count(0), Failed>> \in Seq(Packets) /\ Len(<<Count(0), Failed>>) = 2
        /\ <<Count(0), Failed>>[2] = Failed
    BY Replies, FloppydAssumption DEF FloppydAssumption
  <1>4. CASE /\ ~server[c].old
             /\ server' = [server EXCEPT ![c].ready = TRUE]
             /\ Reply(c, <<Count(0)>>)
    <2> DEFINE s == [server[c] EXCEPT !.ready = TRUE]
    <2>1. /\ s \in Servers /\ s.alive = server[c].alive /\ s.open = server[c].open
          /\ s.ready /\ s.lock = server[c].lock /\ s.old = server[c].old
          /\ s.readOnly = server[c].readOnly
      BY <1>2 DEF Servers
    <2>2. server' = [server EXCEPT ![c] = s]
      BY <1>4
    <2> HIDE DEF s
    <2>3. state[c] # "out" => ~s.open
      <3>1. state[c] # "out" => up[c] # NoRequest /\ ~server[c].ready
        BY <1>1, <1>2, CommandsAreRequests DEF Control, ClientRight, ExchangeRight
      <3> QED BY <1>2, <2>1, <3>1
    <2>4. Leaves(c, s, <<Count(0)>>)
      BY <1>1, <1>2, <1>3, <2>1, <2>3 DEF Leaves
    <2> QED BY <1>1, <1>3, <1>4, <2>2, <2>4, Served DEF Control, Typed
  <1>5. ASSUME server[c].old, NEW write \in BOOLEAN,
               server' = [server EXCEPT ![c].ready = TRUE, ![c].open = TRUE,
                              ![c].readOnly = ~write,
                              ![c].lock = IF ~Compatible(c, write) THEN "none"
                                          ELSE IF write THEN "exclusive" ELSE "shared"],
               Reply(c, <<Count(0)>>)
        PROVE  Control'
    <2>1. PICK l \in {"none", "shared", "exclusive"}, r \in BOOLEAN :
             /\ l = IF ~Compatible(c, write) THEN "none"
                    ELSE IF write THEN "exclusive" ELSE "shared"
             /\ r = ~write
      BY <1>5
    <2> DEFINE s == [server[c] EXCEPT !.ready = TRUE, !.open = TRUE, !.readOnly = r, !.lock = l]
    <2>2. /\ s \in Servers /\ s.alive = server[c].alive /\ s.open /\ s.ready
          /\ s.lock = l /\ s.old = server[c].old /\ s.readOnly = r
      BY <1>2 DEF Servers
    <2>3. server' = [server EXCEPT ![c] = s]
      BY <1>5, <2>1
    <2> HIDE DEF s
    <2>4. l = "shared" => r
      BY <2>1
    <2>5. \/ l = "none"
          \/ \E w \in BOOLEAN : Compatible(c, w) /\ l = IF w THEN "exclusive" ELSE "shared"
      BY <2>1
    <2>6. state[c] # "out" => state[c] = "cookie" /\ old[c] /\ s.old = old[c]
      BY <1>2, <1>5, <2>2
    <2>7. Leaves(c, s, <<Count(0)>>)
      BY <1>1, <1>3, <2>2, <2>4, <2>5, <2>6 DEF Leaves
    <2> QED BY <1>1, <1>3, <1>5, <2>3, <2>7, Served DEF Control, Typed
  <1>6. CASE /\ server[c].old
             /\ server' = [server EXCEPT ![c] = NoServer]
             /\ Reply(c, <<Count(0), Failed>>)
    <2>1. /\ NoServer.lock = "none" /\ ~NoServer.open /\ ~NoServer.alive
      BY DEF NoServer
    <2>2. state[c] # "out" => state[c] = "cookie" /\ old[c]
      BY <1>2, <1>6
    <2>3. Leaves(c, NoServer, <<Count(0), Failed>>)
      BY <1>3, <2>1, <2>2, ServerFields DEF Leaves
    <2> QED BY <1>1, <1>3, <1>6, <2>3, Served, ServerFields DEF Control, Typed
  <1> QED BY <1>4, <1>5, <1>6 DEF Authenticate, Gone

\* OP_OPRO and OP_OPRW get a lock only if it is compatible with the others.
LEMMA OpenDeviceRight == ASSUME Control, NEW c \in Clients, OpenDevice(c) PROVE Control'
  <1>1. PICK write \in BOOLEAN :
          /\ Got(c, OpenOp(write))
          /\ \/ /\ Compatible(c, write)
                /\ server' = [server EXCEPT ![c].open = TRUE, ![c].readOnly = ~write,
                                  ![c].lock = IF write THEN "exclusive" ELSE "shared"]
                /\ Reply(c, <<Count(0)>>)
             \/ /\ ~Compatible(c, write)
                /\ server' = [server EXCEPT ![c].open = TRUE]
                /\ Reply(c, <<Failed>>)
             \/ /\ server' = [server EXCEPT ![c].readOnly = ~write]
                /\ Reply(c, <<Failed>>)
    BY DEF OpenDevice
  <1>2. /\ up[c].op \in {"opro", "oprw"} /\ server[c].alive
        /\ device' = device /\ stored' = stored /\ known' = known /\ UNCHANGED client
    BY <1>1 DEF OpenDevice, Got, OpenOp, history
  <1>3. /\ server[c] \in Servers
        /\ server[c].ready /\ ~server[c].open
        /\ server[c].lock # "none" => server[c].open
        /\ state[c] # "out" => state[c] = "open"
    BY <1>2, Serving DEF States
  <1>4. PICK l \in {"shared", "exclusive"}, r \in BOOLEAN :
          /\ l = IF write THEN "exclusive" ELSE "shared"
          /\ r = ~write
    OBVIOUS
  <1>5. /\ <<Count(0)>> \in Seq(Packets) /\ Len(<<Count(0)>>) = 1
        /\ <<Failed>> \in Seq(Packets) /\ Len(<<Failed>>) = 1
    BY Replies, FloppydAssumption DEF FloppydAssumption
  <1>6. ASSUME NEW s \in Servers, s.alive = server[c].alive, s.ready = server[c].ready,
               s.lock # "none" => s.open, s.lock = "shared" => s.readOnly,
               \/ s.lock \in {server[c].lock, "none"}
               \/ \E w \in BOOLEAN :
                     Compatible(c, w) /\ s.lock = IF w THEN "exclusive" ELSE "shared",
               NEW packets, Len(packets) = 1
        PROVE  Leaves(c, s, packets)
    BY <1>2, <1>3, <1>6 DEF Leaves
  <1>7. CASE /\ Compatible(c, write)
             /\ server' = [server EXCEPT ![c].open = TRUE, ![c].readOnly = ~write,
                               ![c].lock = IF write THEN "exclusive" ELSE "shared"]
             /\ Reply(c, <<Count(0)>>)
    <2> DEFINE s == [server[c] EXCEPT !.open = TRUE, !.readOnly = r, !.lock = l]
    <2>1. /\ s \in Servers /\ s.alive = server[c].alive /\ s.open
          /\ s.ready = server[c].ready /\ s.lock = l /\ s.readOnly = r
      BY <1>3 DEF Servers
    <2>2. server' = [server EXCEPT ![c] = s]
      BY <1>4, <1>7
    <2> HIDE DEF s
    <2>3. l = "shared" => r
      BY <1>4
    <2>4. \E w \in BOOLEAN : Compatible(c, w) /\ l = IF w THEN "exclusive" ELSE "shared"
      BY <1>4, <1>7
    <2>5. Leaves(c, s, <<Count(0)>>)
      BY <1>5, <1>6, <2>1, <2>3, <2>4
    <2> QED BY <1>2, <1>5, <1>7, <2>2, <2>5, Served DEF Control, Typed
  <1>8. CASE server' = [server EXCEPT ![c].open = TRUE] /\ Reply(c, <<Failed>>)
    <2> DEFINE s == [server[c] EXCEPT !.open = TRUE]
    <2>1. /\ s \in Servers /\ s.alive = server[c].alive /\ s.open
          /\ s.ready = server[c].ready /\ s.lock = server[c].lock
      BY <1>3 DEF Servers
    <2>2. server' = [server EXCEPT ![c] = s]
      BY <1>8
    <2> HIDE DEF s
    <2>3. Leaves(c, s, <<Failed>>)
      BY <1>3, <1>5, <1>6, <2>1
    <2> QED BY <1>2, <1>5, <1>8, <2>2, <2>3, Served DEF Control, Typed
  <1>9. CASE server' = [server EXCEPT ![c].readOnly = ~write] /\ Reply(c, <<Failed>>)
    <2> DEFINE s == [server[c] EXCEPT !.readOnly = r]
    <2>1. /\ s \in Servers /\ s.alive = server[c].alive
          /\ s.ready = server[c].ready /\ s.lock = server[c].lock
      BY <1>3 DEF Servers
    <2>2. server' = [server EXCEPT ![c] = s]
      BY <1>4, <1>9
    <2> HIDE DEF s
    <2>3. Leaves(c, s, <<Failed>>)
      BY <1>3, <1>5, <1>6, <2>1
    <2> QED BY <1>2, <1>5, <1>9, <2>2, <2>3, Served DEF Control, Typed
  <1> QED BY <1>1, <1>7, <1>8, <1>9

\* A request about the contents changes the position of the process at most.
LEMMA Works ==
    ASSUME Control, NEW c \in Clients, server[c].alive,
           up[c].op \in {"seek", "read", "write", "flush"},
           NEW p \in 0..Size, server' = [server EXCEPT ![c].pos = p],
           NEW packets \in Seq(Packets), Reply(c, packets), UNCHANGED client,
           Len(packets) > 0, Len(packets) <= 2,
           up[c].op = "read" /\ packets[1].n # -1 <=> Len(packets) = 2,
           up[c].op \in {"read", "write"} => packets[1].n <= up[c].len,
           Len(packets) = 2 => Len(packets[2].data) = packets[1].n,
           device' \in [Cells -> Content], stored' \in [Cells -> Content \cup {Unknown}],
           known' \in [Clients -> [Cells -> Content \cup {Unknown}]]
    PROVE  Control'
  <1>1. /\ server[c] \in Servers /\ server[c].ready
        /\ server[c].lock # "none" => server[c].open
        /\ server[c].lock = "shared" => server[c].readOnly
    BY Serving
  <1>2. state[c] # "out" => /\ state[c] \in {"seek", "io", "flush"}
                            /\ state[c] = "io" => up[c] = io[c] /\ up[c].op \in {"read", "write"}
                            /\ state[c] # "io" => up[c].op = state[c]
    BY Serving DEF States, OpenOp
  <1> DEFINE s == [server[c] EXCEPT !.pos = p]
  <1>3. /\ s \in Servers /\ s.alive = server[c].alive /\ s.open = server[c].open
        /\ s.ready = server[c].ready /\ s.lock = server[c].lock
        /\ s.readOnly = server[c].readOnly
    BY <1>1 DEF Servers
  <1>4. server' = [server EXCEPT ![c] = s]
    OBVIOUS
  <1> HIDE DEF s
  <1>5. Leaves(c, s, packets)
    <2>1. CASE state[c] = "out"
      BY <1>1, <1>3, <2>1 DEF Leaves
    <2>2. CASE state[c] # "out"
      <3>1. Len(packets) = 2 => /\ state[c] = "io" /\ io[c].op = "read" /\ packets[1].n # -1
                                /\ Len(packets[2].data) = packets[1].n
        BY <1>2, <2>2
      <3>2. state[c] = "io" => /\ packets[1].n <= io[c].len
                               /\ io[c].op = "read" /\ packets[1].n # -1 => Len(packets) = 2
        BY <1>2, <2>2
      <3>3. /\ s.open => s.ready
            /\ s.lock # "none" => s.open
            /\ s.lock = "shared" => s.readOnly
            /\ s.lock \in {server[c].lock, "none"}
            /\ s.alive /\ s.ready
        BY <1>1, <1>3
      <3>5. state[c] # "hello" /\ state[c] # "cookie"
        BY <1>2, <2>2
      <3> QED BY <1>3, <3>1, <3>2, <3>3, <3>5 DEF Leaves
    <2> QED BY <2>1, <2>2
  <1>6. up[c].op # "none"
    OBVIOUS
  <1> QED BY <1>4, <1>5, <1>6, Served

\* The contents are typed after a step that leaves them alone.
LEMMA ContentsTyped ==
    ASSUME Control, device' = device, stored' = stored, known' = known
    PROVE  /\ device' \in [Cells -> Content] /\ stored' \in [Cells -> Content \cup {Unknown}]
           /\ known' \in [Clients -> [Cells -> Content \cup {Unknown}]]
  BY DEF Control, Typed

\* OP_SEEK answers with a position on the device.
LEMMA SeekRight == ASSUME Control, NEW c \in Clients, Seek(c) PROVE Control'
  <1> DEFINE pos == IF up[c].where <= Size THEN up[c].where ELSE server[c].pos
  <1>1. /\ up[c].op = "seek" /\ server[c].alive
        /\ server' = [server EXCEPT ![c].pos = pos] /\ Reply(c, <<Count(pos)>>)
        /\ device' = device /\ stored' = stored /\ known' = known /\ UNCHANGED client
    BY DEF Seek, Got, history
  <1>2. pos \in 0..Size
    BY FloppydAssumption DEF Control, Typed, Requests, Servers, FloppydAssumption
  <1> HIDE DEF pos
  <1>3. <<Count(pos)>> \in Seq(Packets) /\ Len(<<Count(pos)>>) = 1
    BY <1>2, Replies
  <1>4. /\ up[c].op = "read" /\ <<Count(pos)>>[1].n # -1 <=> Len(<<Count(pos)>>) = 2
        /\ up[c].op \in {"read", "write"} => <<Count(pos)>>[1].n <= up[c].len
        /\ Len(<<Count(pos)>>) > 0 /\ Len(<<Count(pos)>>) <= 2 /\ Len(<<Count(pos)>>) # 2
    BY <1>1, <1>3
  <1> QED BY <1>1, <1>2, <1>3, <1>4, Works, ContentsTyped

\* OP_FLUSH answers.
LEMMA FsyncRight == ASSUME Control, NEW c \in Clients, Fsync(c) PROVE Control'
  <1>1. /\ up[c].op = "flush" /\ server[c].alive /\ Reply(c, <<Count(0)>>)
        /\ device' = device /\ stored' = stored /\ known' = known /\ UNCHANGED client
        /\ server' = server
    BY DEF Fsync, Got, history
  <1>2. server[c].pos \in 0..Size /\ server' = [server EXCEPT ![c].pos = server[c].pos]
    BY <1>1 DEF Control, Typed, Servers
  <1>3. <<Count(0)>> \in Seq(Packets) /\ Len(<<Count(0)>>) = 1
    BY Replies, FloppydAssumption DEF FloppydAssumption
  <1>4. /\ up[c].op = "read" /\ <<Count(0)>>[1].n # -1 <=> Len(<<Count(0)>>) = 2
        /\ up[c].op \in {"read", "write"} => <<Count(0)>>[1].n <= up[c].len
        /\ Len(<<Count(0)>>) > 0 /\ Len(<<Count(0)>>) <= 2 /\ Len(<<Count(0)>>) # 2
    BY <1>1, <1>3
  <1> QED BY <1>1, <1>2, <1>3, <1>4, Works, ContentsTyped

\* As much of a request as there is of the device
LEMMA WithinBounds ==
    ASSUME NEW p \in 0..Size, NEW len \in Nat
    PROVE  /\ Least(len, Size - p) \in 0..Size
           /\ p + Least(len, Size - p) \in 0..Size
           /\ Least(len, Size - p) <= len
  BY FloppydAssumption DEF Least, FloppydAssumption

\* OP_READ answers with as many cells as it tells, never more than were asked for.
LEMMA ReadDeviceRight == ASSUME Control, NEW c \in Clients, ReadDevice(c) PROVE Control'
  <1> DEFINE p == server[c].pos
             n == Least(up[c].len, Size - p)
             s == [i \in 1..n |-> device[p + i - 1]]
  <1>1. /\ up[c].op = "read" /\ server[c].alive
        /\ \/ server' = [server EXCEPT ![c].pos = p + n] /\ Reply(c, <<Count(n), Data(s)>>)
           \/ server' = server /\ Reply(c, <<Failed>>)
        /\ device' = device /\ stored' = stored /\ known' = known /\ UNCHANGED client
    BY DEF ReadDevice, Got, ReadError, history
  <1>2. p \in 0..Size /\ up[c].len \in Nat
    BY FloppydAssumption DEF Control, Typed, Servers, Requests, FloppydAssumption
  <1>3. n \in 0..Size /\ p + n \in 0..Size /\ n <= up[c].len
    BY <1>2, WithinBounds
  <1>4. s \in Seq(Content) /\ Len(s) = n
    <2>1. ASSUME NEW i \in 1..n PROVE device[p + i - 1] \in Content
      <3> HIDE DEF n
      <3>1. p + i - 1 \in Cells
        BY <1>2, <1>3, FloppydAssumption DEF Cells, FloppydAssumption
      <3> QED BY <3>1 DEF Control, Typed
    <2>2. s \in [1..n -> Content]
      BY <2>1
    <2> QED BY <1>3, <2>2
  <1> HIDE DEF s
  <1>5. /\ <<Count(n), Data(s)>> \in Seq(Packets) /\ Len(<<Count(n), Data(s)>>) = 2
        /\ <<Count(n), Data(s)>>[1].n = n /\ Len(<<Count(n), Data(s)>>[2].data) = n
    <2> HIDE DEF n
    <2>1. n \in -1..Size /\ Len(s) <= Size
      BY <1>3, <1>4, FloppydAssumption DEF FloppydAssumption
    <2>2. Count(n) \in Packets /\ Count(n).n = n /\ Data(s) \in Packets
      BY <1>4, <2>1, PacketSequences
    <2>3. Data(s).data = s
      BY DEF Data
    <2> QED BY <1>4, <2>2, <2>3, PacketSequences
  <1> HIDE DEF n, p
  <1>6. CASE server' = [server EXCEPT ![c].pos = p + n] /\ Reply(c, <<Count(n), Data(s)>>)
    <2>1. /\ up[c].op = "read" /\ <<Count(n), Data(s)>>[1].n # -1
                <=> Len(<<Count(n), Data(s)>>) = 2
          /\ up[c].op \in {"read", "write"} => <<Count(n), Data(s)>>[1].n <= up[c].len
          /\ Len(<<Count(n), Data(s)>>) > 0 /\ Len(<<Count(n), Data(s)>>) <= 2
          /\ Len(<<Count(n), Data(s)>>[2].data) = <<Count(n), Data(s)>>[1].n
      BY <1>1, <1>3, <1>5
    <2> QED BY <1>1, <1>3, <1>5, <1>6, <2>1, Works, ContentsTyped
  <1>7. CASE server' = server /\ Reply(c, <<Failed>>)
    <2>1. /\ up[c].op = "read" /\ <<Failed>>[1].n # -1 <=> Len(<<Failed>>) = 2
          /\ up[c].op \in {"read", "write"} => <<Failed>>[1].n <= up[c].len
          /\ Len(<<Failed>>) > 0 /\ Len(<<Failed>>) <= 2 /\ Len(<<Failed>>) # 2
      BY <1>2, Replies
    <2>2. server' = [server EXCEPT ![c].pos = p]
      BY <1>7 DEF p, Control, Typed, Servers
    <2> QED BY <1>1, <1>2, <1>7, <2>1, <2>2, Replies, Works, ContentsTyped
  <1> QED BY <1>1, <1>6, <1>7

\* OP_CLOSE gives the lock back, whether its answer arrives or not.
LEMMA CloseDeviceRight == ASSUME Control, NEW c \in Clients, CloseDevice(c) PROVE Control'
  <1>1. PICK answer \in {<<>>, <<Count(0)>>} : Reply(c, answer)
    BY DEF CloseDevice
  <1>2. /\ up[c].op = "close" /\ server[c].alive
        /\ server' = [server EXCEPT ![c] = NoServer]
        /\ device' = device /\ stored' = stored /\ known' = known /\ UNCHANGED client
    BY DEF CloseDevice, Got
  <1>3. /\ answer \in Seq(Packets) /\ Len(answer) <= 1
    <2>1. <<>> \in Seq(Packets) /\ Len(<<>>) = 0
      BY EmptySeq
    <2>2. <<Count(0)>> \in Seq(Packets) /\ Len(<<Count(0)>>) = 1
      BY Replies, FloppydAssumption DEF FloppydAssumption
    <2>3. CASE answer = <<>>
      BY <2>1, <2>3
    <2>4. CASE answer = <<Count(0)>>
      BY <2>2, <2>4
    <2> QED BY <2>3, <2>4
  <1>4. state[c] # "out" => state[c] = "close"
    BY <1>2, Serving DEF States, OpenOp
  <1>5. Leaves(c, NoServer, answer)
    <2>1. /\ NoServer.lock = "none" /\ ~NoServer.open /\ ~NoServer.alive
      BY DEF NoServer
    <2> QED BY <1>3, <1>4, <2>1, ServerFields DEF Leaves
  <1> QED BY <1>1, <1>2, <1>3, <1>5, Served, ContentsTyped

\* What WriteDevice leaves in the device and in the histories
LEMMA WriteDeviceTyped ==
    ASSUME Control, NEW c \in Clients, WriteDevice(c)
    PROVE  /\ device' \in [Cells -> Content] /\ stored' \in [Cells -> Content \cup {Unknown}]
           /\ known' \in [Clients -> [Cells -> Content \cup {Unknown}]]
           /\ up[c].op = "write" /\ server[c].alive /\ UNCHANGED client
           /\ \E p \in 0..Size, n \in -1..Size :
                 /\ n <= up[c].len
                 /\ server' = [server EXCEPT ![c].pos = p] /\ Reply(c, <<Count(n)>>)
  <1> DEFINE p == server[c].pos
             data == Payload(up[c])
             fits == Least(Len(data), Size - p)
  <1>1. /\ up[c].op = "write" /\ server[c].alive /\ UNCHANGED client
        /\ \/ \E n \in 0..fits :
                /\ device' = [q \in Cells |-> IF q \in p..p+n-1 THEN data[q - p + 1]
                                              ELSE device[q]]
                /\ server' = [server EXCEPT ![c].pos = p + n]
                /\ stored' = IF state[c] = "out"
                             THEN IF c \notin disturbed THEN stored
                                  ELSE Put(stored, p..p+n-1, Unknown)
                             ELSE Put(stored, Accessed(c, n), io[c].val)
                /\ known' = [d \in Clients |-> IF d \in Unprotected(c) THEN Nothing
                                               ELSE known[d]]
                /\ Reply(c, <<Count(n)>>)
           \/ UNCHANGED <<device, server, history>> /\ Reply(c, <<Failed>>)
    BY DEF WriteDevice, Got
  <1>2. /\ up[c] \in Requests /\ p \in 0..Size /\ io[c].val \in Content
        /\ up[c].got \in -1..MaxLen /\ up[c].len \in 0..MaxLen
    BY DEF Control, Typed, Servers, Requests
  <1>3. data \in Seq(Content) /\ Len(data) <= up[c].len
    <2> DEFINE m == IF up[c].got = -1 THEN 0 ELSE up[c].len
    <2>1. m \in Nat /\ m <= up[c].len
      BY <1>2, FloppydAssumption DEF FloppydAssumption
    <2>2. data = [i \in 1..m |-> IF i <= up[c].got THEN up[c].val ELSE Zero]
      BY DEF Payload
    <2>3. up[c].val \in Content /\ Zero \in Content
      BY <1>2 DEF Requests, Content
    <2> HIDE DEF m, data
    <2>4. data \in [1..m -> Content]
      BY <2>2, <2>3
    <2> QED BY <2>1, <2>4
  <1>4. fits \in 0..Size /\ p + fits \in 0..Size /\ fits <= Len(data) /\ Len(data) \in Nat
    <2> HIDE DEF data, p
    <2>1. Len(data) \in Nat
      BY <1>3
    <2> QED BY <1>2, <2>1, WithinBounds
  <1>5. CASE UNCHANGED <<device, server, history>> /\ Reply(c, <<Failed>>)
    <2>1. -1 \in -1..Size /\ -1 <= up[c].len /\ Failed = Count(-1)
      BY <1>2, FloppydAssumption DEF FloppydAssumption, Failed
    <2>2. server' = [server EXCEPT ![c].pos = p]
      BY <1>5 DEF Control, Typed, Servers
    <2> HIDE DEF p
    <2> QED BY <1>1, <1>2, <1>5, <2>1, <2>2 DEF Control, Typed, history
  <1>6. ASSUME NEW n \in 0..fits,
               device' = [q \in Cells |-> IF q \in p..p+n-1 THEN data[q - p + 1] ELSE device[q]],
               server' = [server EXCEPT ![c].pos = p + n],
               stored' = IF state[c] = "out"
                         THEN IF c \notin disturbed THEN stored
                              ELSE Put(stored, p..p+n-1, Unknown)
                         ELSE Put(stored, Accessed(c, n), io[c].val),
               known' = [d \in Clients |-> IF d \in Unprotected(c) THEN Nothing ELSE known[d]],
               Reply(c, <<Count(n)>>)
        PROVE  /\ device' \in [Cells -> Content]
               /\ stored' \in [Cells -> Content \cup {Unknown}]
               /\ known' \in [Clients -> [Cells -> Content \cup {Unknown}]]
               /\ \E q \in 0..Size, m \in -1..Size :
                     /\ m <= up[c].len
                     /\ server' = [server EXCEPT ![c].pos = q] /\ Reply(c, <<Count(m)>>)
    <2> HIDE DEF data, fits, p
    <2>1. /\ n \in 0..Size /\ p + n \in 0..Size /\ n <= Len(data) /\ n <= up[c].len
          /\ n \in -1..Size
      BY <1>2, <1>3, <1>4, FloppydAssumption DEF FloppydAssumption
    <2>2. ASSUME NEW q \in Cells, q \in p..p+n-1 PROVE data[q - p + 1] \in Content
      <3>1. q - p + 1 \in 1..Len(data)
        BY <1>2, <1>3, <2>1, <2>2
      <3> QED BY <1>3, <3>1
    <2>3. device' \in [Cells -> Content]
      BY <1>6, <2>2 DEF Control, Typed
    <2>4. \A cells, v : v \in Content \cup {Unknown} =>
             Put(stored, cells, v) \in [Cells -> Content \cup {Unknown}]
      BY DEF Put, Control, Typed
    <2>5. stored' \in [Cells -> Content \cup {Unknown}]
      BY <1>2, <1>6, <2>4 DEF Control, Typed
    <2>6. Nothing \in [Cells -> Content \cup {Unknown}]
      BY DEF Nothing
    <2>7. known' \in [Clients -> [Cells -> Content \cup {Unknown}]]
      BY <1>6, <2>6 DEF Control, Typed
    <2> QED BY <1>6, <2>1, <2>3, <2>5, <2>7
  <1> QED BY <1>1, <1>5, <1>6

\* OP_WRITE never tells that it has stored more than it was sent.
LEMMA WriteDeviceRight == ASSUME Control, NEW c \in Clients, WriteDevice(c) PROVE Control'
  <1>1. PICK p \in 0..Size, n \in -1..Size :
           /\ n <= up[c].len
           /\ server' = [server EXCEPT ![c].pos = p] /\ Reply(c, <<Count(n)>>)
    BY WriteDeviceTyped
  <1>2. /\ <<Count(n)>> \in Seq(Packets) /\ Len(<<Count(n)>>) = 1 /\ <<Count(n)>>[1].n = n
    BY PacketSequences
  <1>3. /\ up[c].op = "read" /\ <<Count(n)>>[1].n # -1 <=> Len(<<Count(n)>>) = 2
        /\ up[c].op \in {"read", "write"} => <<Count(n)>>[1].n <= up[c].len
        /\ Len(<<Count(n)>>) > 0 /\ Len(<<Count(n)>>) <= 2 /\ Len(<<Count(n)>>) # 2
    BY <1>1, <1>2, WriteDeviceTyped
  <1> QED BY <1>1, <1>2, <1>3, WriteDeviceTyped, Works

\* A process ends, and the end of what it has sent may be lost.
LEMMA ProcessEnds ==
    ASSUME Control, NEW c \in Clients, server[c].alive,
           server' = [server EXCEPT ![c] = NoServer], up' = [up EXCEPT ![c] = NoRequest],
           NEW n \in 0..Len(down[c]), down' = [down EXCEPT ![c] = SubSeq(@, 1, n)],
           UNCHANGED client, device' = device, stored' = stored,
           known' \in [Clients -> [Cells -> Content \cup {Unknown}]]
    PROVE  Control'
  <1>1. UNCHANGED <<state, old, rw, lastwhere, io>>
    BY DEF client
  <1>2. down[c] \in Seq(Packets)
    BY DEF Control, Typed
  <1>3. /\ down' \in [Clients -> Seq(Packets)]
        /\ \A d \in Clients \ {c} : down'[d] = down[d]
        /\ Len(down'[c]) = n /\ \A i \in 1..n : down'[c][i] = down[c][i]
    BY <1>2, StartOf DEF Control, Typed
  <1>4. /\ server' \in [Clients -> Servers] /\ server'[c] = NoServer
        /\ \A d \in Clients \ {c} : server'[d] = server[d]
    BY ServerFields DEF Control, Typed
  <1>5. /\ up' \in [Clients -> Requests] /\ up'[c] = NoRequest
        /\ \A d \in Clients \ {c} : up'[d] = up[d]
    BY CommandsAreRequests DEF Control, Typed
  <1>6. Typed'
    BY <1>1, <1>3, <1>4, <1>5 DEF Control, Typed
  <1>7. Elsewhere(c)
    BY <1>1, <1>3, <1>4, <1>5 DEF Elsewhere
  <1>8. NoServer.lock = "none" /\ ~NoServer.open /\ ~NoServer.alive
    BY DEF NoServer
  <1>9. LocksExclude'
    BY <1>4, <1>8, LocksKept
  <1>10. ClientRight(c)'
    <2>1. ProcessRight(c)'
      BY <1>4, <1>5, <1>8, CommandsAreRequests DEF ProcessRight
    <2>2. CallRight(c)'
      BY <1>1 DEF Control, ClientRight, CallRight
    <2>3. AnswerRight(c)'
      <3>1. AnswerRight(c)
        BY DEF Control, ClientRight
      <3>2. n \in Nat /\ n <= Len(down[c]) /\ Len(down[c]) \in Nat
        BY <1>2
      <3>3. n > 0 => 1 \in 1..n
        BY <3>2
      <3>4. n = 2 => 2 \in 1..n
        OBVIOUS
      <3>5. Len(down[c]) <= 2
        BY <3>1 DEF AnswerRight
      <3>6. n = 2 => /\ down'[c][1] = down[c][1] /\ down'[c][2] = down[c][2]
                     /\ state[c] = "io" /\ io[c].op = "read" /\ down[c][1].n # -1
                     /\ Len(down[c][2].data) = down[c][1].n
        <4>1. n = 2 => Len(down[c]) = 2
          <5>1. \A k \in Nat : n <= k /\ k <= 2 /\ n = 2 => k = 2
            OBVIOUS
          <5> QED BY <3>2, <3>5, <5>1, Zenon
        <4>2. Len(down[c]) = 2 => /\ state[c] = "io" /\ io[c].op = "read" /\ down[c][1].n # -1
                                  /\ Len(down[c][2].data) = down[c][1].n
          BY <3>1 DEF AnswerRight
        <4>3. n = 2 => down'[c][1] = down[c][1] /\ down'[c][2] = down[c][2]
          BY <1>3, <3>3, <3>4
        <4> QED BY <4>1, <4>2, <4>3
      <3>7. state[c] \in {"out", "idle"} => n = 0
        <4>1. state[c] = "out" => Len(down[c]) = 0
          BY <3>1 DEF AnswerRight
        <4>2. state[c] = "idle" => ~(Len(down[c]) > 0)
          BY <3>1 DEF AnswerRight
        <4>3. state[c] \in {"out", "idle"} => Len(down[c]) = 0
          BY <3>2, <4>1, <4>2
        <4> QED BY <3>2, <4>3
      <3>8. state[c] = "io" /\ n > 0 => down'[c][1].n <= io[c].len
        BY <1>3, <3>1, <3>2, <3>3 DEF AnswerRight
      <3>9. n <= 2
        BY <3>2, <3>5
      <3> QED BY <1>1, <1>3, <3>6, <3>7, <3>8, <3>9 DEF AnswerRight
    <2>4. ExchangeRight(c)'
      BY <1>4, <1>8 DEF ExchangeRight
    <2> QED BY <2>1, <2>2, <2>3, <2>4 DEF ClientRight
  <1> QED BY <1>6, <1>7, <1>9, <1>10, OneClient

\* A process that finds no request ends and gives its lock back.
LEMMA HangupRight == ASSUME Control, NEW c \in Clients, Hangup(c) PROVE Control'
  <1>1. /\ server[c].alive
        /\ server' = [server EXCEPT ![c] = NoServer] /\ up' = [up EXCEPT ![c] = NoRequest]
        /\ UNCHANGED client /\ down' = down
        /\ device' = device /\ stored' = stored /\ known' = known
    BY DEF Hangup, Gone
  <1>2. down[c] \in Seq(Packets) /\ down \in [Clients -> Seq(Packets)]
    BY DEF Control, Typed
  <1>3. Len(down[c]) \in 0..Len(down[c]) /\ SubSeq(down[c], 1, Len(down[c])) = down[c]
    BY <1>2
  <1>4. down' = [down EXCEPT ![c] = SubSeq(@, 1, Len(down[c]))]
    BY <1>1, <1>2, <1>3
  <1> QED BY <1>1, <1>3, <1>4, ProcessEnds, ContentsTyped

\* A process may end at any moment; what it holds is free then.
LEMMA ServerDiesRight == ASSUME Control, NEW c \in Clients, ServerDies(c) PROVE Control'
  <1>1. PICK n \in 0..Len(down[c]) : down' = [down EXCEPT ![c] = SubSeq(@, 1, n)]
    BY DEF ServerDies
  <1>2. /\ server[c].alive
        /\ server' = [server EXCEPT ![c] = NoServer] /\ up' = [up EXCEPT ![c] = NoRequest]
        /\ UNCHANGED client /\ known' = [known EXCEPT ![c] = Nothing]
        /\ device' = device /\ stored' = stored
    BY DEF ServerDies, Gone
  <1>3. known' \in [Clients -> [Cells -> Content \cup {Unknown}]]
    BY <1>2 DEF Control, Typed, Nothing
  <1> QED BY <1>1, <1>2, <1>3, ProcessEnds

-----------------------------------------------------------------------------
(* floppyd_io.c: the client's steps                                         *)

\* A step that only client c takes part in: what it keeps, and its types
Steps(c) ==
    /\ server' = server /\ device' = device
    /\ stored' \in [Cells -> Content \cup {Unknown}]
    /\ known' \in [Clients -> [Cells -> Content \cup {Unknown}]]
    /\ state' \in [Clients -> States] /\ old' \in [Clients -> BOOLEAN]
    /\ rw' \in [Clients -> BOOLEAN] /\ lastwhere' \in [Clients -> -1..MaxWhere+MaxLen]
    /\ io' \in [Clients -> Requests] /\ up' \in [Clients -> Requests]
    /\ down' \in [Clients -> Seq(Packets)]
    /\ \A d \in Clients \ {c} :
          /\ state'[d] = state[d] /\ old'[d] = old[d] /\ rw'[d] = rw[d] /\ io'[d] = io[d]
          /\ up'[d] = up[d] /\ down'[d] = down[d]

\* A step that only a client takes part in touches neither locks nor others.
LEMMA ClientStep ==
    ASSUME Control, NEW c \in Clients, Steps(c), ClientRight(c)'
    PROVE  Control'
  <1>1. Typed'
    BY DEF Control, Typed, Steps
  <1>2. Elsewhere(c)
    BY DEF Steps, Elsewhere
  <1>3. LocksExclude'
    BY LocksKept DEF Steps
  <1> QED BY <1>1, <1>2, <1>3, OneClient

\* A client without a session
LEMMA ToOut ==
    ASSUME Control, NEW c \in Clients, Steps(c),
           state'[c] = "out", io'[c] = NoRequest, Len(down'[c]) = 0,
           up'[c] = NoRequest \/ (up'[c].op = up[c].op /\ up[c] # NoRequest) \/ up'[c] = up[c]
    PROVE  Control'
  <1>1. server' = server
    BY DEF Steps
  <1>2. ProcessRight(c)'
    BY <1>1, CommandsAreRequests DEF Control, ClientRight, ProcessRight
  <1>3. CallRight(c)' /\ AnswerRight(c)' /\ ExchangeRight(c)'
    BY DEF CallRight, AnswerRight, ExchangeRight
  <1> QED BY <1>2, <1>3, ClientStep DEF ClientRight

\* A client between calls
LEMMA ToIdle ==
    ASSUME Control, NEW c \in Clients, Steps(c),
           state'[c] = "idle", io'[c] = NoRequest, up'[c] = NoRequest,
           server[c].alive => server[c].ready,
           \/ Len(down'[c]) = 0
           \/ old'[c] /\ ~server[c].alive /\ Len(down'[c]) = 1 /\ down'[c][1] = Failed
    PROVE  Control'
  <1>1. server' = server
    BY DEF Steps
  <1>2. ProcessRight(c)'
    BY <1>1, CommandsAreRequests DEF Control, ClientRight, ProcessRight
  <1>3. CallRight(c)'
    BY DEF CallRight
  <1>4. AnswerRight(c)'
    <2>1. CASE Len(down'[c]) = 0
      BY <2>1 DEF AnswerRight
    <2>2. CASE old'[c] /\ ~server[c].alive /\ Len(down'[c]) = 1 /\ down'[c][1] = Failed
      BY <1>1, <2>2 DEF AnswerRight
    <2> QED BY <2>1, <2>2
  <1>5. ExchangeRight(c)'
    BY <1>1 DEF ExchangeRight
  <1> QED BY <1>2, <1>3, <1>4, <1>5, ClientStep DEF ClientRight

\* A client that has just sent a request
LEMMA ToCall ==
    ASSUME Control, NEW c \in Clients, Steps(c),
           state'[c] \in States \ {"out", "idle", "hello"}, old'[c] = old[c],
           state'[c] \in {"seek", "io"} => io'[c].op \in {"read", "write"} /\ io'[c].got = io'[c].len,
           state'[c] \notin {"seek", "io"} => io'[c] = NoRequest,
           NEW r, Asks(c, r)', r # NoRequest, up'[c] = IF server[c].alive THEN r ELSE NoRequest,
           r.op \in {"opro", "oprw"} => state'[c] = "open",
           server[c].alive =>
              /\ Len(down'[c]) = 0
              /\ state'[c] # "cookie" => server[c].ready
              /\ state'[c] = "open" => ~server[c].open
              /\ state'[c] = "cookie" => ~server[c].ready /\ server[c].old = old[c],
           state'[c] = "cookie" => r.op = "cookie",
           \/ Len(down'[c]) = 0
           \/ Len(down'[c]) = 1 /\ down'[c][1] = Failed
    PROVE  Control'
  <1>1. server' = server
    BY DEF Steps
  <1>2. server[c].open => server[c].ready
    BY DEF Control, ClientRight, ProcessRight
  <1>3. ProcessRight(c)'
    <2>1. CASE server[c].alive
      <3>1. up'[c] = r
        BY <2>1
      <3>2. r.op \in {"opro", "oprw"} => server[c].ready /\ ~server[c].open
        BY <2>1
      <3>3. r.op \in {"seek", "read", "write", "flush", "close"} => server[c].ready
        BY <2>1
      <3> QED BY <1>1, <2>1, <3>1, <3>2, <3>3 DEF Control, ClientRight, ProcessRight
    <2>2. CASE ~server[c].alive
      BY <1>1, <2>2, CommandsAreRequests DEF Control, ClientRight, ProcessRight
    <2> QED BY <2>1, <2>2
  <1>4. CallRight(c)'
    BY DEF CallRight
  <1>5. AnswerRight(c)'
    <2>1. state'[c] = "io" => 0 <= io'[c].len /\ -1 <= io'[c].len
      BY FloppydAssumption DEF Steps, Requests, FloppydAssumption
    <2>2. CASE Len(down'[c]) = 0
      BY <2>2 DEF AnswerRight
    <2>3. CASE Len(down'[c]) = 1 /\ down'[c][1] = Failed
      <3>1. Failed.n = -1
        BY PacketSequences
      <3> QED BY <2>1, <2>3, <3>1 DEF AnswerRight
    <2> QED BY <2>2, <2>3
  <1>6. ExchangeRight(c)'
    <2>1. CASE server[c].alive
      BY <1>1, <2>1 DEF ExchangeRight
    <2>2. CASE ~server[c].alive
      BY <1>1, <2>2 DEF ExchangeRight
    <2> QED BY <2>1, <2>2
  <1> QED BY <1>3, <1>4, <1>5, <1>6, ClientStep DEF ClientRight

\* What the client knows of a process that has answered and lives
LEMMA Answering ==
    ASSUME Control, NEW c \in Clients, state[c] \notin {"out", "idle"}, Whole(c)
    PROVE  /\ up[c] = NoRequest
           /\ server[c].alive =>
                /\ state[c] \in {"open", "seek", "io", "flush", "close"} => server[c].ready
                /\ state[c] = "hello" => ~server[c].ready /\ server[c].old = old[c]
                /\ state[c] = "cookie" => /\ server[c].old = old[c] /\ server[c].ready
                                          /\ ~old[c] => ~server[c].open
  <1>1. down[c] \in Seq(Packets) /\ down[c] # <<>>
    BY DEF Control, Typed, Whole
  <1>2. Len(down[c]) > 0 /\ Len(down[c]) # 0
    BY <1>1, EmptySeq
  <1>3. ExchangeRight(c) /\ ProcessRight(c)
    BY DEF Control, ClientRight
  <1>4. server[c].alive => up[c] = NoRequest
    BY <1>2, <1>3 DEF ExchangeRight
  <1>5. ~server[c].alive => up[c] = NoRequest
    BY <1>3 DEF ProcessRight
  <1>6. server[c].alive =>
                /\ state[c] \in {"open", "seek", "io", "flush", "close"} => server[c].ready
                /\ state[c] = "hello" => ~server[c].ready /\ server[c].old = old[c]
                /\ state[c] = "cookie" => /\ server[c].old = old[c] /\ server[c].ready
                                          /\ ~old[c] => ~server[c].open
    BY <1>3, <1>4 DEF ExchangeRight
  <1> QED BY <1>4, <1>5, <1>6

\* The end of a session is typed.
LEMMA Forgotten ==
    ASSUME Control, NEW c \in Clients, Forget(c)
    PROVE  /\ state' \in [Clients -> States] /\ old' \in [Clients -> BOOLEAN]
           /\ rw' \in [Clients -> BOOLEAN] /\ lastwhere' \in [Clients -> -1..MaxWhere+MaxLen]
           /\ io' \in [Clients -> Requests]
           /\ known' \in [Clients -> [Cells -> Content \cup {Unknown}]]
           /\ state'[c] = "out" /\ io'[c] = NoRequest /\ known'[c] = Nothing
           /\ \A d \in Clients \ {c} :
                 /\ state'[d] = state[d] /\ old'[d] = old[d] /\ rw'[d] = rw[d]
                 /\ io'[d] = io[d] /\ known'[d] = known[d]
  <1>1. 0 \in -1..MaxWhere+MaxLen
    BY FloppydAssumption DEF FloppydAssumption
  <1>2. Nothing \in [Cells -> Content \cup {Unknown}]
    BY DEF Nothing
  <1>3. "out" \in States
    BY DEF States
  <1> QED BY <1>1, <1>2, <1>3, CommandsAreRequests DEF Control, Typed, Forget

\* A call that has failed is typed.
LEMMA FailedTyped ==
    ASSUME Control, NEW c \in Clients, Fail(c)
    PROVE  /\ state' \in [Clients -> States] /\ old' = old /\ rw' = rw
           /\ lastwhere' \in [Clients -> -1..MaxWhere+MaxLen]
           /\ io' \in [Clients -> Requests]
           /\ known' \in [Clients -> [Cells -> Content \cup {Unknown}]]
           /\ state'[c] = "idle" /\ io'[c] = NoRequest
           /\ \A d \in Clients \ {c} : state'[d] = state[d] /\ io'[d] = io[d] /\ known'[d] = known[d]
  <1>1. -1 \in -1..MaxWhere+MaxLen
    BY FloppydAssumption DEF FloppydAssumption
  <1>2. \A cells, f : f \in [Cells -> Content \cup {Unknown}] =>
           Put(f, cells, Unknown) \in [Cells -> Content \cup {Unknown}]
    BY DEF Put
  <1>3. "idle" \in States
    BY DEF States
  <1> QED BY <1>1, <1>2, <1>3, CommandsAreRequests DEF Control, Typed, Fail, After

\* Sending is typed.
LEMMA SentTyped ==
    ASSUME Control, NEW c \in Clients, NEW r \in Requests
    PROVE  /\ Sent(c, r) \in [Clients -> Requests]
           /\ Sent(c, r)[c] = IF server[c].alive THEN r ELSE NoRequest
           /\ \A d \in Clients \ {c} : Sent(c, r)[d] = up[d]
  BY CommandsAreRequests DEF Control, Typed, Sent

\* authenticate_to_floppyd sends the cookie after the version.
LEMMA GreetedRight == ASSUME Control, NEW c \in Clients, Greeted(c) PROVE Control'
  <1>1. /\ state[c] = "hello" /\ Whole(c) /\ Take(c)
        /\ state' = [state EXCEPT ![c] = "cookie"] /\ up' = Sent(c, Command("cookie"))
        /\ device' = device /\ old' = old /\ rw' = rw /\ lastwhere' = lastwhere /\ io' = io
        /\ server' = server /\ stored' = stored /\ known' = known
    BY DEF Greeted, Answered, history
  <1>2. /\ down' \in [Clients -> Seq(Packets)] /\ Len(down'[c]) = 0
        /\ \A d \in Clients \ {c} : down'[d] = down[d]
    BY <1>1, Took
  <1>3. server[c].alive => ~server[c].ready /\ server[c].old = old[c]
    BY <1>1, Answering
  <1>4. Steps(c)
    <2>1. Command("cookie") \in Requests
      BY CommandsAreRequests
    <2>2. /\ up' \in [Clients -> Requests] /\ \A d \in Clients \ {c} : up'[d] = up[d]
      BY <1>1, <2>1, SentTyped
    <2> QED BY <1>1, <1>2, <2>2 DEF Control, Typed, Steps, States
  <1>5. /\ Command("cookie") # NoRequest /\ Command("cookie").op = "cookie"
        /\ state'[c] = "cookie" /\ io'[c] = NoRequest
        /\ up'[c] = IF server[c].alive THEN Command("cookie") ELSE NoRequest
    BY <1>1, CommandsAreRequests, SentTyped DEF Control, Typed, ClientRight, CallRight
  <1>6. Asks(c, Command("cookie"))'
    BY <1>5 DEF Asks
  <1>7. state'[c] \in States \ {"out", "idle", "hello"}
    BY <1>5 DEF States
  <1> QED BY <1>1, <1>2, <1>3, <1>4, <1>5, <1>6, <1>7, ToCall

\* floppyd_open begins the session, or ends with the process' error.
LEMMA OpenedRight == ASSUME Control, NEW c \in Clients, Opened(c) PROVE Control'
  <1>1. /\ state[c] = "open" /\ Whole(c)
        /\ device' = device /\ up' = up /\ server' = server /\ stored' = stored
    BY DEF Opened, Answered
  <1>2. up[c] = NoRequest /\ (server[c].alive => server[c].ready) /\ io[c] = NoRequest
    BY <1>1, Answering DEF Control, ClientRight, CallRight
  <1>3. CASE Forget(c) /\ down' = [down EXCEPT ![c] = <<>>]
    <2>1. /\ down' \in [Clients -> Seq(Packets)] /\ Len(down'[c]) = 0
          /\ \A d \in Clients \ {c} : down'[d] = down[d]
      BY <1>3, EmptySeq DEF Control, Typed
    <2>2. Steps(c)
      BY <1>1, <1>3, <2>1, Forgotten DEF Control, Typed, Steps
    <2> QED BY <1>1, <1>3, <2>1, <2>2, Forgotten, ToOut
  <1>4. CASE /\ state' = [state EXCEPT ![c] = "idle"] /\ Take(c)
             /\ UNCHANGED <<old, rw, lastwhere, io, calls, known, disturbed>>
    <2>1. /\ down' \in [Clients -> Seq(Packets)] /\ Len(down'[c]) = 0
          /\ \A d \in Clients \ {c} : down'[d] = down[d]
      BY <1>1, <1>4, Took
    <2>2. Steps(c) /\ state'[c] = "idle"
      BY <1>1, <1>4, <2>1 DEF Control, Typed, Steps, States
    <2> QED BY <1>1, <1>2, <1>4, <2>1, <2>2, ToIdle
  <1> QED BY <1>3, <1>4 DEF Opened

\* floppyd_flush ends.
LEMMA FlushedRight == ASSUME Control, NEW c \in Clients, Flushed(c) PROVE Control'
  <1>1. /\ state[c] = "flush" /\ Whole(c) /\ Take(c)
        /\ state' = [state EXCEPT ![c] = "idle"]
        /\ device' = device /\ old' = old /\ rw' = rw /\ lastwhere' = lastwhere /\ io' = io
        /\ up' = up /\ server' = server /\ stored' = stored /\ known' = known
    BY DEF Flushed, Answered, history
  <1>2. up[c] = NoRequest /\ (server[c].alive => server[c].ready) /\ io[c] = NoRequest
    BY <1>1, Answering DEF Control, ClientRight, CallRight
  <1>3. /\ down' \in [Clients -> Seq(Packets)] /\ Len(down'[c]) = 0
        /\ \A d \in Clients \ {c} : down'[d] = down[d]
    BY <1>1, Took
  <1>4. Steps(c) /\ state'[c] = "idle"
    BY <1>1, <1>3 DEF Control, Typed, Steps, States
  <1> QED BY <1>1, <1>2, <1>3, <1>4, ToIdle

\* floppyd_free ends.
LEMMA ClosedRight == ASSUME Control, NEW c \in Clients, Closed(c) PROVE Control'
  <1>1. /\ state[c] = "close" /\ Whole(c) /\ Take(c) /\ Forget(c)
        /\ device' = device /\ up' = up /\ server' = server /\ stored' = stored
    BY DEF Closed, Answered
  <1>2. /\ down' \in [Clients -> Seq(Packets)] /\ Len(down'[c]) = 0
        /\ \A d \in Clients \ {c} : down'[d] = down[d]
    BY <1>1, Took
  <1>3. Steps(c)
    BY <1>1, <1>2, Forgotten DEF Control, Typed, Steps
  <1> QED BY <1>1, <1>2, <1>3, Forgotten, ToOut

\* authenticate_to_floppyd ends; a version 10 session is open at once.
LEMMA AuthenticatedRight == ASSUME Control, NEW c \in Clients, Authenticated(c) PROVE Control'
  <1>1. /\ state[c] = "cookie" /\ Whole(c)
        /\ device' = device /\ server' = server /\ stored' = stored
    BY DEF Authenticated, Answered
  <1>2. /\ up[c] = NoRequest /\ io[c] = NoRequest
        /\ server[c].alive => server[c].ready /\ (~old[c] => ~server[c].open)
    BY <1>1, Answering DEF Control, ClientRight, CallRight
  <1>3. CASE Forget(c) /\ down' = [down EXCEPT ![c] = <<>>] /\ up' = up
    <2>1. /\ down' \in [Clients -> Seq(Packets)] /\ Len(down'[c]) = 0
          /\ \A d \in Clients \ {c} : down'[d] = down[d]
      BY <1>3, EmptySeq DEF Control, Typed
    <2>2. Steps(c)
      BY <1>1, <1>3, <2>1, Forgotten DEF Control, Typed, Steps
    <2> QED BY <1>1, <1>3, <2>1, <2>2, Forgotten, ToOut
  <1>4. CASE /\ Take(c)
             /\ IF old[c] THEN state' = [state EXCEPT ![c] = "idle"] /\ up' = up
                ELSE /\ state' = [state EXCEPT ![c] = "open"]
                     /\ up' = Sent(c, Command(OpenOp(rw[c])))
             /\ UNCHANGED <<old, rw, lastwhere, io, calls, known, disturbed>>
    <2>1. /\ down' \in [Clients -> Seq(Packets)]
          /\ \A d \in Clients \ {c} : down'[d] = down[d]
          /\ \/ Len(down'[c]) = 0
             \/ old[c] /\ ~server[c].alive /\ Len(down'[c]) = 1 /\ down'[c][1] = Failed
      BY <1>1, <1>4, Took
    <2>2. CASE old[c]
      <3>1. /\ state' = [state EXCEPT ![c] = "idle"] /\ up' = up
            /\ old' = old /\ rw' = rw /\ lastwhere' = lastwhere /\ io' = io /\ known' = known
        BY <1>4, <2>2
      <3>2. Steps(c) /\ state'[c] = "idle"
        BY <1>1, <2>1, <3>1 DEF Control, Typed, Steps, States
      <3> QED BY <1>2, <2>1, <3>1, <3>2, ToIdle
    <2>3. CASE ~old[c]
      <3>0. PICK r : r = Command(OpenOp(rw[c]))
        OBVIOUS
      <3>1. /\ state' = [state EXCEPT ![c] = "open"] /\ up' = Sent(c, r)
            /\ old' = old /\ rw' = rw /\ lastwhere' = lastwhere /\ io' = io /\ known' = known
        BY <1>4, <2>3, <3>0
      <3>2. r \in Requests /\ r # NoRequest /\ r.op \in {"opro", "oprw"}
        BY <3>0, CommandsAreRequests DEF OpenOp
      <3>3. /\ up' \in [Clients -> Requests] /\ \A d \in Clients \ {c} : up'[d] = up[d]
            /\ up'[c] = IF server[c].alive THEN r ELSE NoRequest
        BY <3>1, <3>2, SentTyped
      <3>4. state'[c] = "open" /\ io'[c] = NoRequest
        BY <1>2, <3>1 DEF Control, Typed
      <3>5. Asks(c, r)'
        BY <3>0, <3>1, <3>4 DEF Asks
      <3>6. Steps(c)
        BY <1>1, <2>1, <3>1, <3>3 DEF Control, Typed, Steps, States
      <3>7. state'[c] \in States \ {"out", "idle", "hello"}
        BY <3>4 DEF States
      <3>8. Len(down'[c]) = 0 /\ old'[c] = old[c]
        BY <2>1, <2>3, <3>1
      <3>9. server[c].alive =>
               /\ Len(down'[c]) = 0
               /\ state'[c] # "cookie" => server[c].ready
               /\ state'[c] = "open" => ~server[c].open
               /\ state'[c] = "cookie" => ~server[c].ready /\ server[c].old = old[c]
        BY <1>2, <2>3, <3>4, <3>8
      <3> QED BY <3>2, <3>3, <3>4, <3>5, <3>6, <3>7, <3>8, <3>9, ToCall
    <2> QED BY <2>2, <2>3
  <1> QED BY <1>3, <1>4 DEF Authenticated

\* Of an earlier answer, at most the error of a version 10 process is left.
LeftOver(c) ==
    /\ server[c].alive => Len(down'[c]) = 0
    /\ Len(down'[c]) = 0 \/ (Len(down'[c]) = 1 /\ down'[c][1] = Failed)

\* Between calls at most an unasked-for error is left in the connection.
LEMMA IdleLeftOver ==
    ASSUME Control, NEW c \in Clients, state[c] = "idle", down' = down
    PROVE  LeftOver(c)
  <1>1. AnswerRight(c) /\ Len(down[c]) \in Nat
    BY DEF Control, Typed, ClientRight
  <1>2. Len(down[c]) # 2
    BY <1>1 DEF AnswerRight
  <1>3. Len(down[c]) > 0 => ~server[c].alive /\ down[c][1] = Failed
    BY <1>1 DEF AnswerRight
  <1>4. Len(down[c]) <= 2
    BY <1>1 DEF AnswerRight
  <1>5. Len(down[c]) = 0 \/ Len(down[c]) = 1
    <2>1. \A n \in Nat : n # 2 /\ n <= 2 => n = 0 \/ n = 1
      OBVIOUS
    <2> QED BY <1>1, <1>2, <1>4, <2>1, Zenon
  <1> QED BY <1>3, <1>5 DEF LeftOver

\* floppyd_flush and floppyd_free begin.
LEMMA StartCommandRight ==
    ASSUME Control, NEW c \in Clients, NEW op \in {"flush", "close"}, StartCommand(c, op)
    PROVE  Control'
  <1>1. /\ state[c] = "idle" /\ state' = [state EXCEPT ![c] = op] /\ up' = Sent(c, Command(op))
        /\ device' = device /\ old' = old /\ rw' = rw /\ lastwhere' = lastwhere /\ io' = io
        /\ down' = down /\ server' = server /\ stored' = stored /\ known' = known
    BY DEF StartCommand, history
  <1>2. io[c] = NoRequest /\ (server[c].alive => server[c].ready)
    BY <1>1 DEF Control, ClientRight, CallRight, ExchangeRight
  <1>3. Command(op) \in Requests /\ Command(op) # NoRequest /\ Command(op).op = op
    BY CommandsAreRequests
  <1>4. /\ up' \in [Clients -> Requests] /\ \A d \in Clients \ {c} : up'[d] = up[d]
        /\ up'[c] = IF server[c].alive THEN Command(op) ELSE NoRequest
    BY <1>1, <1>3, SentTyped
  <1>5. state'[c] = op /\ io'[c] = NoRequest
    BY <1>1, <1>2 DEF Control, Typed
  <1>6. Asks(c, Command(op))'
    BY <1>5 DEF Asks
  <1>7. Steps(c)
    BY <1>1, <1>4 DEF Control, Typed, Steps, States
  <1>8. state'[c] \in States \ {"out", "idle", "hello"}
    BY <1>5 DEF States
  <1>9. LeftOver(c)
    BY <1>1, IdleLeftOver
  <1> QED BY <1>1, <1>2, <1>3, <1>4, <1>5, <1>6, <1>7, <1>8, <1>9, ToCall DEF LeftOver

\* floppyd_io begins with a seek or with the request itself.
LEMMA StartIORight ==
    ASSUME WithinDevice, Control, NEW c \in Clients, NEW op \in {"read", "write"},
           NEW where \in 0..MaxWhere, NEW len \in 1..MaxLen, NEW val \in Content,
           StartIO(c, op, where, len, val)
    PROVE  Control'
  <1> DEFINE call == [op |-> op, where |-> where, len |-> len, val |-> val, got |-> len]
             seek == [Command("seek") EXCEPT !.where = where]
  <1>0. PICK s, r : \/ where = lastwhere[c] /\ s = "io" /\ r = call
                    \/ where # lastwhere[c] /\ s = "seek" /\ r = seek
    OBVIOUS
  <1>1. where % OffsetWrap = where
    BY FloppydAssumption DEF WithinDevice, FloppydAssumption
  <1>2. /\ state[c] = "idle" /\ io' = [io EXCEPT ![c] = call]
        /\ state' = [state EXCEPT ![c] = s] /\ up' = Sent(c, r)
        /\ device' = device /\ old' = old /\ rw' = rw /\ lastwhere' = lastwhere
        /\ down' = down /\ server' = server /\ stored' = stored /\ known' = known
    BY <1>0, <1>1 DEF StartIO, history
  <1>3. server[c].alive => server[c].ready
    BY <1>2 DEF Control, ClientRight, ExchangeRight
  <1>4. call \in Requests /\ call # NoRequest /\ call.op = op /\ call.got = call.len /\ call.where = where
    <2>1. call \in Requests
      BY FloppydAssumption DEF Requests, FloppydAssumption
    <2>2. call # NoRequest
      BY CommandsAreRequests
    <2> QED BY <2>1, <2>2
  <1>5. seek \in Requests /\ seek # NoRequest /\ seek.op = "seek"
    BY CommandsAreRequests
  <1> HIDE DEF call
  <1>6. io'[c] = call /\ state'[c] = s /\ old'[c] = old[c]
    BY <1>2 DEF Control, Typed
  <1>7. Asks(c, r)'
    <2>1. seek = [Command("seek") EXCEPT !.where = io'[c].where]
      BY <1>4, <1>6
    <2> HIDE DEF seek
    <2>2. CASE s = "io" /\ r = call
      BY <1>6, <2>2 DEF Asks
    <2>3. CASE s = "seek" /\ r = seek
      BY <1>6, <2>1, <2>3 DEF Asks
    <2> QED BY <1>0, <2>2, <2>3
  <1> HIDE DEF seek
  <1>8. r \in Requests /\ r # NoRequest /\ r.op \in {"read", "write", "seek"}
    BY <1>0, <1>4, <1>5
  <1>9. s \in {"io", "seek"}
    BY <1>0
  <1>10. /\ up' \in [Clients -> Requests] /\ \A d \in Clients \ {c} : up'[d] = up[d]
         /\ up'[c] = IF server[c].alive THEN r ELSE NoRequest
    BY <1>2, <1>8, SentTyped
  <1>11. Steps(c)
    BY <1>2, <1>4, <1>9, <1>10 DEF Control, Typed, Steps, States
  <1>12. state'[c] \in States \ {"out", "idle", "hello"} /\ state'[c] \in {"io", "seek"}
    BY <1>6, <1>9 DEF States
  <1>13. LeftOver(c)
    BY <1>2, IdleLeftOver
  <1>14. /\ io'[c].op \in {"read", "write"} /\ io'[c].got = io'[c].len
         /\ state'[c] # "cookie" /\ state'[c] # "open"
         /\ r.op \notin {"opro", "oprw"}
         /\ server[c].alive => Len(down'[c]) = 0
         /\ Len(down'[c]) = 0 \/ (Len(down'[c]) = 1 /\ down'[c][1] = Failed)
    BY <1>4, <1>6, <1>8, <1>12, <1>13 DEF LeftOver
  <1> QED BY <1>3, <1>6, <1>7, <1>8, <1>10, <1>11, <1>12, <1>14, ToCall

\* floppyd_io goes on after its seek.
LEMMA SoughtRight == ASSUME Control, NEW c \in Clients, Sought(c) PROVE Control'
  <1>1. /\ state[c] = "seek" /\ Whole(c) /\ Take(c)
        /\ device' = device /\ server' = server /\ stored' = stored
    BY DEF Sought, Answered
  <1>2. up[c] = NoRequest /\ (server[c].alive => server[c].ready)
    BY <1>1, Answering
  <1>3. /\ down' \in [Clients -> Seq(Packets)] /\ Len(down'[c]) = 0
        /\ \A d \in Clients \ {c} : down'[d] = down[d]
    BY <1>1, Took
  <1>4. CASE Fail(c) /\ up' = up
    <2>1. Steps(c)
      BY <1>1, <1>3, <1>4, FailedTyped DEF Control, Typed, Steps
    <2> QED BY <1>2, <1>3, <1>4, <2>1, FailedTyped, ToIdle
  <1>5. CASE /\ state' = [state EXCEPT ![c] = "io"] /\ up' = Sent(c, io[c])
             /\ UNCHANGED <<old, rw, lastwhere, io, calls, known, disturbed>>
    <2>1. /\ io[c] \in Requests /\ io[c].op \in {"read", "write"} /\ io[c].got = io[c].len
          /\ io[c] # NoRequest
      BY <1>1, CommandsAreRequests DEF Control, Typed, ClientRight, CallRight
    <2>2. /\ up' \in [Clients -> Requests] /\ \A d \in Clients \ {c} : up'[d] = up[d]
          /\ up'[c] = IF server[c].alive THEN io[c] ELSE NoRequest
      BY <1>5, <2>1, SentTyped
    <2>3. state'[c] = "io" /\ io'[c] = io[c] /\ old'[c] = old[c]
      BY <1>5 DEF Control, Typed
    <2>4. Asks(c, io[c])'
      BY <2>3 DEF Asks
    <2>5. Steps(c)
      BY <1>1, <1>3, <1>5, <2>2 DEF Control, Typed, Steps, States
    <2>6. state'[c] \in States \ {"out", "idle", "hello"}
      BY <2>3 DEF States
    <2> QED BY <1>2, <1>3, <2>1, <2>2, <2>3, <2>4, <2>5, <2>6, ToCall
  <1> QED BY <1>1, <1>4, <1>5 DEF Sought

\* A call of floppyd_io that ends.
LEMMA EndIORight == ASSUME Control, NEW c \in Clients, EndIO(c) PROVE Control'
  <1>1. /\ state[c] = "io" /\ Whole(c) /\ Take(c)
        /\ device' = device /\ up' = up /\ server' = server /\ stored' = stored
    BY DEF EndIO, Answered
  <1>2. up[c] = NoRequest /\ (server[c].alive => server[c].ready)
    BY <1>1, Answering
  <1>3. /\ down' \in [Clients -> Seq(Packets)] /\ Len(down'[c]) = 0
        /\ \A d \in Clients \ {c} : down'[d] = down[d]
        /\ Len(down[c]) > 0 /\ Head(down[c]) = down[c][1] /\ down[c][1] \in Packets
    BY <1>1, Took
  <1>4. CASE Fail(c)
    <2>1. Steps(c)
      BY <1>1, <1>3, <1>4, FailedTyped DEF Control, Typed, Steps
    <2> QED BY <1>1, <1>2, <1>3, <1>4, <2>1, FailedTyped, ToIdle
  <1>5. CASE ~Fail(c)
    <2>1. PICK n, read : n = down[c][1].n /\ read = down[c][2].data
      OBVIOUS
    <2>2. /\ n # -1
          /\ state' = [state EXCEPT ![c] = "idle"] /\ io' = [io EXCEPT ![c] = NoRequest]
          /\ lastwhere' = [lastwhere EXCEPT ![c] = io[c].where + n]
          /\ UNCHANGED <<old, rw, calls, disturbed>>
          /\ \/ known' = known
             \/ known' = [known EXCEPT ![c] = Put(@, Accessed(c, n), io[c].val)]
             \/ io[c].op # "write" /\ known' = [known EXCEPT ![c] = [p \in Cells |->
                   IF p \in Accessed(c, n) THEN read[p - io[c].where + 1] ELSE @[p]]]
      BY <1>3, <1>5, <2>1 DEF EndIO
    <2>3. /\ io[c] \in Requests /\ io[c].op \in {"read", "write"}
          /\ io[c].where \in 0..MaxWhere /\ io[c].len \in 0..MaxLen /\ io[c].val \in Content
      BY <1>1 DEF Control, Typed, ClientRight, CallRight, Requests
    <2>4. n \in 0..MaxLen
      <3>1. n \in -1..Size /\ n # -1
        BY <1>3, <2>1, <2>2 DEF Packets
      <3>2. n <= io[c].len
        BY <1>1, <1>3, <2>1 DEF Control, ClientRight, AnswerRight
      <3> QED BY <2>3, <3>1, <3>2, FloppydAssumption DEF FloppydAssumption
    <2>5. io[c].where + n \in -1..MaxWhere+MaxLen
      BY <2>3, <2>4, FloppydAssumption DEF FloppydAssumption
    <2>6. io[c].op = "read" => read \in Seq(Content) /\ Len(read) = n
      <3> SUFFICES ASSUME io[c].op = "read" PROVE read \in Seq(Content) /\ Len(read) = n
        OBVIOUS
      <3>1. down[c] \in Seq(Packets) /\ Len(down[c]) \in Nat /\ Len(down[c]) <= 2
        BY DEF Control, Typed, ClientRight, AnswerRight
      <3>2. Len(down[c]) > 1
        BY <1>1, <1>3, <2>1, <2>2 DEF Whole
      <3>3. Len(down[c]) = 2
        <4>1. \A k \in Nat : k > 1 /\ k <= 2 => k = 2
          OBVIOUS
        <4> QED BY <3>1, <3>2, <4>1, Zenon
      <3>4. Len(down[c][2].data) = down[c][1].n
        BY <1>1, <3>3 DEF Control, ClientRight, AnswerRight
      <3>5. down[c][2] \in Packets
        BY <3>1, <3>3
      <3> QED BY <2>1, <3>4, <3>5 DEF Packets
    <2>7. known' \in [Clients -> [Cells -> Content \cup {Unknown}]]
      <3>0. known \in [Clients -> [Cells -> Content \cup {Unknown}]]
        BY DEF Control, Typed
      <3>1. CASE known' = known
        BY <3>0, <3>1
      <3>2. CASE known' = [known EXCEPT ![c] = Put(@, Accessed(c, n), io[c].val)]
        BY <2>3, <3>0, <3>2 DEF Put
      <3>3. CASE io[c].op # "write" /\ known' = [known EXCEPT ![c] = [p \in Cells |->
                   IF p \in Accessed(c, n) THEN read[p - io[c].where + 1] ELSE @[p]]]
        <4>1. read \in Seq(Content) /\ Len(read) = n
          BY <2>3, <2>6, <3>3
        <4>2. \A p \in Accessed(c, n) : p - io[c].where + 1 \in 1..n
          BY <2>3, <2>4, FloppydAssumption DEF Accessed, Cells, FloppydAssumption
        <4>3. \A p \in Accessed(c, n) : read[p - io[c].where + 1] \in Content
          BY <4>1, <4>2
        <4> QED BY <3>0, <3>3, <4>3
      <3> QED BY <2>2, <3>1, <3>2, <3>3
    <2>8. Steps(c) /\ state'[c] = "idle" /\ io'[c] = NoRequest
      BY <1>1, <1>3, <2>2, <2>5, <2>7, CommandsAreRequests DEF Control, Typed, Steps, States
    <2> QED BY <1>1, <1>2, <1>3, <2>8, ToIdle
  <1> QED BY <1>4, <1>5

\* A client that finds the connection ended gives its call or its session up.
LEMMA EndOfFileRight == ASSUME Control, NEW c \in Clients, EndOfFile(c) PROVE Control'
  <1>1. /\ state[c] # "out" /\ ~server[c].alive /\ state[c] # "idle" /\ ~Whole(c)
        /\ up' = up /\ down' = [down EXCEPT ![c] = <<>>]
        /\ device' = device /\ server' = server /\ stored' = stored
    BY DEF EndOfFile
  <1>2. up[c] = NoRequest
    BY <1>1 DEF Control, ClientRight, ProcessRight
  <1>3. /\ down' \in [Clients -> Seq(Packets)] /\ Len(down'[c]) = 0
        /\ \A d \in Clients \ {c} : down'[d] = down[d]
    BY <1>1, EmptySeq DEF Control, Typed
  <1>4. CASE Forget(c)
    <2>1. Steps(c)
      BY <1>1, <1>3, <1>4, Forgotten DEF Control, Typed, Steps
    <2> QED BY <1>1, <1>3, <1>4, <2>1, Forgotten, ToOut
  <1>5. CASE Fail(c)
    <2>1. Steps(c)
      BY <1>1, <1>3, <1>5, FailedTyped DEF Control, Typed, Steps
    <2> QED BY <1>1, <1>2, <1>3, <1>5, <2>1, FailedTyped, ToIdle
  <1>6. CASE /\ state[c] \notin {"seek", "io"} /\ state' = [state EXCEPT ![c] = "idle"]
             /\ UNCHANGED <<old, rw, lastwhere, io, calls, known, disturbed>>
    <2>1. io[c] = NoRequest
      BY <1>6 DEF Control, ClientRight, CallRight
    <2>2. Steps(c) /\ state'[c] = "idle" /\ io'[c] = NoRequest
      BY <1>1, <1>3, <1>6, <2>1 DEF Control, Typed, Steps, States
    <2> QED BY <1>1, <1>2, <1>3, <2>2, ToIdle
  <1> QED BY <1>4, <1>5, <1>6 DEF EndOfFile

\* A client that dies leaves at most its request, as far as it has come.
LEMMA ClientDiesRight == ASSUME Control, NEW c \in Clients, ClientDies(c) PROVE Control'
  <1>1. /\ Forget(c) /\ down' = [down EXCEPT ![c] = <<>>]
        /\ device' = device /\ server' = server
    BY DEF ClientDies
  <1>2. /\ down' \in [Clients -> Seq(Packets)] /\ Len(down'[c]) = 0
        /\ \A d \in Clients \ {c} : down'[d] = down[d]
    BY <1>1, EmptySeq DEF Control, Typed
  <1>3. CASE up' = [up EXCEPT ![c] = NoRequest] /\ stored' = stored
    <2>1. up' \in [Clients -> Requests] /\ up'[c] = NoRequest /\ \A d \in Clients \ {c} : up'[d] = up[d]
      BY <1>3, CommandsAreRequests DEF Control, Typed
    <2>2. Steps(c)
      BY <1>1, <1>2, <1>3, <2>1, Forgotten DEF Control, Typed, Steps
    <2> QED BY <1>1, <1>2, <2>1, <2>2, Forgotten, ToOut
  <1>4. CASE /\ up[c] # NoRequest
             /\ \E g \in -1..up[c].len : up' = [up EXCEPT ![c].got = g]
             /\ stored' = IF up[c].op = "write" THEN Put(stored, Accessed(c, up[c].len), Unknown)
                          ELSE stored
    <2>1. PICK g \in -1..up[c].len : up' = [up EXCEPT ![c].got = g]
      BY <1>4
    <2>2. up[c] \in Requests /\ g \in -1..MaxLen
      <3>1. up[c] \in Requests /\ up[c].len \in 0..MaxLen
        BY DEF Control, Typed, Requests
      <3> QED BY <2>1, <3>1, FloppydAssumption DEF FloppydAssumption
    <2>3. up' \in [Clients -> Requests] /\ up'[c].op = up[c].op /\ \A d \in Clients \ {c} : up'[d] = up[d]
      BY <2>1, <2>2 DEF Control, Typed, Requests
    <2>4. stored' \in [Cells -> Content \cup {Unknown}]
      BY <1>4 DEF Control, Typed, Put
    <2>5. Steps(c)
      BY <1>1, <1>2, <2>3, <2>4, Forgotten DEF Control, Typed, Steps
    <2> QED BY <1>1, <1>2, <1>4, <2>3, <2>5, Forgotten, ToOut
  <1> QED BY <1>3, <1>4 DEF ClientDies

\* A new connection: either floppyd has forked a process for it, which has
\* nothing of an earlier one, or it is closed at once.
LEMMA Connected ==
    ASSUME Control, NEW c \in Clients, NEW version10 \in BOOLEAN, Connect(c, version10),
           rw' \in [Clients -> BOOLEAN], \A d \in Clients \ {c} : rw'[d] = rw[d],
           ~server[c].alive
    PROVE  Control'
  <1>0. PICK r : r = Command(IF version10 THEN "helloOld" ELSE "hello")
    OBVIOUS
  <1>1. r \in Requests /\ r # NoRequest /\ r.op \in {"hello", "helloOld"} /\ r.got # -1
    BY <1>0, CommandsAreRequests
  <1>2. /\ state' \in [Clients -> States] /\ state'[c] = "hello"
        /\ old' \in [Clients -> BOOLEAN] /\ old'[c] = version10
        /\ lastwhere' \in [Clients -> -1..MaxWhere+MaxLen]
        /\ io' \in [Clients -> Requests] /\ io'[c] = NoRequest
        /\ device' = device /\ known' = known /\ stored' = stored
        /\ \A d \in Clients \ {c} : state'[d] = state[d] /\ old'[d] = old[d] /\ io'[d] = io[d]
    <2>1. "hello" \in States /\ 0 \in -1..MaxWhere+MaxLen
      BY FloppydAssumption DEF FloppydAssumption, States
    <2> QED BY <2>1, CommandsAreRequests DEF Control, Typed, Connect, history
  <1>3. /\ down' \in [Clients -> Seq(Packets)] /\ Len(down'[c]) = 0
        /\ \A d \in Clients \ {c} : down'[d] = down[d]
    BY EmptySeq DEF Control, Typed, Connect
  <1>4. PICK born : born = [NoServer EXCEPT !.alive = TRUE]
    OBVIOUS
  <1>5. born \in Servers /\ born.alive /\ ~born.ready /\ ~born.open /\ born.lock = "none"
    <2>1. born = [alive |-> TRUE, old |-> FALSE, ready |-> FALSE, open |-> FALSE, lock |-> "none",
                  readOnly |-> TRUE, pos |-> 0]
      BY <1>4 DEF NoServer
    <2> QED BY <2>1, FloppydAssumption DEF Servers, FloppydAssumption
  <1>6. /\ server' \in [Clients -> Servers] /\ up' \in [Clients -> Requests]
        /\ \A d \in Clients \ {c} : server'[d] = server[d] /\ up'[d] = up[d]
        /\ \/ server'[c] = born /\ up'[c] = r
           \/ server'[c] = server[c] /\ up'[c] = up[c]
    <2>0. /\ server \in [Clients -> Servers] /\ up \in [Clients -> Requests]
          /\ \/ server' = [server EXCEPT ![c] = born] /\ up' = [up EXCEPT ![c] = r]
             \/ server' = server /\ up' = up
      BY <1>0, <1>4 DEF Control, Typed, Connect
    <2>1. CASE server' = [server EXCEPT ![c] = born] /\ up' = [up EXCEPT ![c] = r]
      BY <1>1, <1>5, <2>0, <2>1
    <2>2. CASE server' = server /\ up' = up
      BY <2>0, <2>2
    <2> QED BY <2>0, <2>1, <2>2
  <1>7. server[c] = NoServer /\ up[c] = NoRequest
    BY DEF Control, ClientRight, ProcessRight
  <1>8. Typed'
    BY <1>2, <1>3, <1>6 DEF Control, Typed
  <1>9. Elsewhere(c)
    BY <1>2, <1>3, <1>6 DEF Elsewhere
  <1>10. LocksExclude'
    BY <1>5, <1>6, LocksKept
  <1>11. CallRight(c)' /\ AnswerRight(c)'
    BY <1>2, <1>3 DEF CallRight, AnswerRight
  <1>12. ProcessRight(c)' /\ ExchangeRight(c)'
    <2>1. CASE server'[c] = born /\ up'[c] = r
      <3>1. ProcessRight(c)'
        BY <1>1, <1>5, <2>1 DEF ProcessRight
      <3>2. Asks(c, r)'
        BY <1>0, <1>2 DEF Asks
      <3>3. ExchangeRight(c)'
        BY <1>1, <1>2, <1>3, <1>5, <2>1, <3>2 DEF ExchangeRight
      <3> QED BY <3>1, <3>3
    <2>2. CASE server'[c] = server[c] /\ up'[c] = up[c]
      <3>1. ~server'[c].alive
        BY <2>2
      <3>2. ExchangeRight(c)'
        BY <3>1 DEF ExchangeRight
      <3> QED BY <2>2, <3>2 DEF Control, ClientRight, ProcessRight
    <2> QED BY <1>6, <2>1, <2>2
  <1> QED BY <1>8, <1>9, <1>10, <1>11, <1>12, OneClient DEF ClientRight

\* floppyd_open, and its second attempt in version 10
LEMMA ConnectRight ==
    ASSUME Control, NEW c \in Clients,
           FallBack(c) \/ \E write \in BOOLEAN : FloppydOpen(c, write)
    PROVE  Control'
  <1>1. CASE FallBack(c)
    BY <1>1, Connected DEF FallBack, Control, Typed
  <1>2. CASE \E write \in BOOLEAN : FloppydOpen(c, write)
    <2>1. PICK write \in BOOLEAN : FloppydOpen(c, write)
      BY <1>2
    <2>2. /\ ~server[c].alive /\ Connect(c, FALSE)
          /\ rw' \in [Clients -> BOOLEAN] /\ \A d \in Clients \ {c} : rw'[d] = rw[d]
      BY <2>1 DEF FloppydOpen, Control, Typed
    <2> QED BY <2>2, Connected
  <1> QED BY <1>1, <1>2

-----------------------------------------------------------------------------
(* The theorems about the conversation                                      *)

\* At the start there is no session.
LEMMA InitControl == Init => Control
  <1> SUFFICES ASSUME Init PROVE Control
    OBVIOUS
  <1>1. Typed
    <2>1. 0 \in -1..MaxWhere+MaxLen /\ "out" \in States
      BY FloppydAssumption DEF FloppydAssumption, States
    <2> QED BY <2>1, CommandsAreRequests, ServerFields, EmptySeq
            DEF Init, Typed, Content, Nothing
  <1>2. LocksExclude
    BY DEF Init, LocksExclude, NoServer
  <1>3. ASSUME NEW c \in Clients PROVE ClientRight(c)
    <2>1. /\ server[c] = NoServer /\ up[c] = NoRequest /\ state[c] = "out" /\ io[c] = NoRequest
          /\ down[c] = <<>>
      BY DEF Init
    <2>2. Len(down[c]) = 0
      BY <2>1, EmptySeq
    <2>3. ~NoServer.alive /\ ~NoServer.open /\ NoServer.lock = "none"
      BY DEF NoServer
    <2> QED BY <2>1, <2>2, <2>3, CommandsAreRequests
            DEF ClientRight, ProcessRight, CallRight, AnswerRight, ExchangeRight
  <1> QED BY <1>1, <1>2, <1>3 DEF Control

\* Every step of a client or of its process keeps the conversation right.
LEMMA NextControl == ASSUME WithinDevice PROVE Control /\ [Next]_vars => Control'
  <1> SUFFICES ASSUME Control, [Next]_vars PROVE Control'
    OBVIOUS
  <1>1. CASE UNCHANGED vars
    BY <1>1 DEF vars, client, history, Control, Typed, LocksExclude, ClientRight, ProcessRight,
       CallRight, AnswerRight, ExchangeRight, Asks
  <1>2. CASE Next
    <2>1. PICK c \in Clients :
             ServerStep(c) \/ Receive(c) \/ Call(c) \/ ClientDies(c) \/ ServerDies(c)
      BY <1>2 DEF Next
    <2>2. CASE ServerStep(c)
      BY <2>2, GreetRight, RefuseRight, AuthenticateRight, OpenDeviceRight, SeekRight,
         ReadDeviceRight, WriteDeviceRight, FsyncRight, CloseDeviceRight, HangupRight
         DEF ServerStep
    <2>3. CASE Receive(c)
      BY <2>3, GreetedRight, AuthenticatedRight, ConnectRight, OpenedRight, SoughtRight,
         EndIORight, FlushedRight, ClosedRight, EndOfFileRight DEF Receive
    <2>4. CASE Call(c)
      <3>1. CASE \E write \in BOOLEAN : FloppydOpen(c, write)
        BY <3>1, ConnectRight
      <3>2. CASE \E where \in 0..MaxWhere, len \in 1..MaxLen :
                    \/ StartIO(c, "read", where, len, Zero)
                    \/ \E val \in Values : StartIO(c, "write", where, len, val)
        BY <3>2, StartIORight DEF Content
      <3>3. CASE \E op \in {"flush", "close"} : StartCommand(c, op)
        BY <3>3, StartCommandRight
      <3> QED BY <2>4, <3>1, <3>2, <3>3 DEF Call
    <2>5. CASE ClientDies(c) \/ ServerDies(c)
      BY <2>5, ClientDiesRight, ServerDiesRight
    <2> QED BY <2>1, <2>2, <2>3, <2>4, <2>5
  <1> QED BY <1>1, <1>2

\* The conversation of every client with its process is right at all times.
THEOREM ConversationRight == ASSUME WithinDevice PROVE Spec => []Control
  BY InitControl, NextControl, PTL DEF Spec

\* Packets, positions and locks are of their types, and a process that holds a
\* lock lives and has its device open.
LEMMA TypesFollow == Control => TypeOK
  <1> SUFFICES ASSUME Control, NEW c \in Clients
      PROVE  /\ \A i \in DOMAIN down[c] : down[c][i].n \in -1..Size
             /\ server[c].pos \in 0..Size
             /\ server[c].lock # "none" => server[c].open
             /\ server[c].open => server[c].alive /\ server[c].ready
    BY DEF Control, Typed, TypeOK, States
  <1>1. down[c] \in Seq(Packets) /\ server[c] \in Servers
    BY DEF Control, Typed
  <1>2. \A i \in DOMAIN down[c] : down[c][i] \in Packets
    BY <1>1
  <1>3. ~server[c].alive => ~server[c].open
    BY DEF Control, ClientRight, ProcessRight, NoServer
  <1> QED BY <1>1, <1>2, <1>3 DEF Packets, Servers, Control, ClientRight, ProcessRight

\* InStep: between calls nothing is on its way between a client and its process,
\* but for the error of a version 10 process that is gone.
THEOREM AnswersInStep == ASSUME WithinDevice PROVE Spec => []InStep
  <1>1. Control => InStep
    <2> SUFFICES ASSUME Control, NEW c \in Clients, state[c] = "idle"
        PROVE  /\ up[c] = NoRequest
               /\ down[c] = <<>> \/ (old[c] /\ ~server[c].alive /\ down[c] = <<Failed>>)
      BY TypesFollow DEF InStep
    <2>1. up[c] = NoRequest
      BY DEF Control, ClientRight, ProcessRight, ExchangeRight
    <2>2. down[c] \in Seq(Packets) /\ Len(down[c]) \in Nat
      BY DEF Control, Typed
    <2>3. AnswerRight(c)
      BY DEF Control, ClientRight
    <2>4. CASE Len(down[c]) = 0
      <3>1. down[c] = <<>>
        BY <2>2, <2>4, EmptySeq
      <3> QED BY <2>1, <3>1
    <2>5. CASE Len(down[c]) # 0
      <3>1. Len(down[c]) > 0 /\ Len(down[c]) # 2 /\ Len(down[c]) <= 2
        <4>1. Len(down[c]) > 0
          BY <2>2, <2>5
        <4> QED BY <2>3, <4>1 DEF AnswerRight
      <3>2. Len(down[c]) = 1
        <4>1. \A n \in Nat : n > 0 /\ n # 2 /\ n <= 2 => n = 1
          OBVIOUS
        <4> QED BY <2>2, <3>1, <4>1, Zenon
      <3>3. old[c] /\ ~server[c].alive /\ down[c][1] = Failed
        BY <2>3, <3>1 DEF AnswerRight
      <3>4. down[c] = <<Failed>>
        BY <2>2, <3>2, <3>3
      <3> QED BY <2>1, <3>3, <3>4
    <2> QED BY <2>4, <2>5
  <1> QED BY <1>1, ConversationRight, PTL

\* NobodyStuck: a client in a call has a process that works on its request, a
\* whole answer on its way, or will see the end of the connection.
THEOREM NobodyWaitsForNothing == ASSUME WithinDevice PROVE Spec => []NobodyStuck
  <1>1. Control => NobodyStuck
    <2> SUFFICES ASSUME Control, NEW c \in Clients, state[c] \notin {"out", "idle"},
                        server[c].alive, up[c] = NoRequest
        PROVE  Whole(c)
      BY DEF NobodyStuck
    <2>1. /\ Len(down[c]) > 0
          /\ state[c] = "io" /\ io[c].op = "read" /\ down[c][1].n # -1 => Len(down[c]) = 2
      BY DEF Control, ClientRight, ExchangeRight
    <2>2. down[c] \in Seq(Packets) /\ Len(down[c]) \in Nat
      BY DEF Control, Typed
    <2>3. down[c] # <<>> /\ Head(down[c]) = down[c][1]
      BY <2>1, <2>2, EmptySeq
    <2>4. Len(down[c]) = 2 => Len(down[c]) > 1
      OBVIOUS
    <2> QED BY <2>1, <2>3, <2>4, Zenon DEF Whole
  <1> QED BY <1>1, ConversationRight, PTL

-----------------------------------------------------------------------------
(* The invariant                                                            *)

\* A session that has not begun knows nothing, nor does one that a writer
\* without a lock may have disturbed.
KnownRight(c) ==
    state[c] \in {"out", "hello", "cookie", "open"} \/ c \in disturbed => known[c] = Nothing

\* The client's belief about the file position is right.
PositionRight(c) ==
    server[c].alive =>
        /\ state[c] \in {"hello", "cookie", "open", "idle", "flush"} /\ lastwhere[c] # -1 =>
              server[c].pos = lastwhere[c]
        /\ state[c] = "seek" /\ up[c] = NoRequest => server[c].pos = io[c].where
        /\ state[c] = "io" /\ up[c] # NoRequest => server[c].pos = io[c].where
        /\ state[c] = "io" /\ Len(down[c]) > 0 /\ down[c][1].n # -1 =>
              server[c].pos = io[c].where + down[c][1].n

\* The cells that a write has changed, the answer to which is on its way
Changed(c) ==
    IF state[c] = "io" /\ io[c].op = "write" /\ Len(down[c]) > 0
    THEN Accessed(c, down[c][1].n) ELSE {}

\* The answer to a read that is on its way tells what the device holds.
ReadRight(c) ==
    state[c] = "io" /\ io[c].op = "read" /\ Len(down[c]) = 2 =>
        \A p \in Accessed(c, down[c][1].n) :
            down[c][2].data[p - io[c].where + 1] = device[p]

\* What a session knows is so, except for the cells it has just changed, which
\* hold what it wrote.
ViewRight(c) ==
    server[c].alive =>
        /\ \A p \in Cells \ Changed(c) : known[c][p] # Unknown => device[p] = known[c][p]
        /\ c \notin disturbed =>
              /\ \A p \in Changed(c) : device[p] = io[c].val
              /\ ReadRight(c)

\* A dead client's write, not carried out yet, goes to cells nothing is known of.
PendingRight(c) ==
    state[c] = "out" /\ up[c].op = "write" /\ c \notin disturbed /\ ~server[c].readOnly =>
        \A p \in Cells : p >= server[c].pos /\ p < server[c].pos + up[c].len =>
            stored[p] = Unknown

ContentRight(c) == KnownRight(c) /\ PositionRight(c) /\ ViewRight(c) /\ PendingRight(c)
Contents == StoresStay /\ \A c \in Clients : ContentRight(c)

-----------------------------------------------------------------------------
(* What the steps have in common                                            *)

\* A step that does not change the device, and nothing about other clients than
\* c: of what the writes have stored, at most less is known.
Quiet(c) ==
    /\ device' = device
    /\ \A p \in Cells : stored'[p] = stored[p] \/ stored'[p] = Unknown
    /\ \A d \in Clients \ {c} :
          /\ state'[d] = state[d] /\ io'[d] = io[d] /\ lastwhere'[d] = lastwhere[d]
          /\ up'[d] = up[d] /\ down'[d] = down[d] /\ server'[d] = server[d]
          /\ known'[d] = known[d] /\ (d \in disturbed' <=> d \in disturbed)

\* After such a step, only c's own part is left to show.
LEMMA QuietStep ==
    ASSUME Contents, NEW c \in Clients, Quiet(c), ContentRight(c)'
    PROVE  Contents'
  <1>1. StoresStay'
    BY DEF Contents, StoresStay, Quiet
  <1>2. ASSUME NEW d \in Clients \ {c} PROVE ContentRight(d)'
    <2>1. /\ state'[d] = state[d] /\ io'[d] = io[d] /\ lastwhere'[d] = lastwhere[d]
          /\ up'[d] = up[d] /\ down'[d] = down[d] /\ server'[d] = server[d]
          /\ known'[d] = known[d] /\ (d \in disturbed' <=> d \in disturbed)
          /\ device' = device
      BY DEF Quiet
    <2>2. KnownRight(d) /\ PositionRight(d) /\ ViewRight(d) /\ PendingRight(d)
      BY DEF Contents, ContentRight
    <2>3. KnownRight(d)'
      BY <2>1, <2>2 DEF KnownRight, Nothing
    <2>4. PositionRight(d)'
      BY <2>1, <2>2 DEF PositionRight
    <2>5. Changed(d)' = Changed(d) /\ (ReadRight(d)' <=> ReadRight(d))
      BY <2>1 DEF Changed, ReadRight, Accessed
    <2>6. ViewRight(d)'
      BY <2>1, <2>2, <2>5 DEF ViewRight
    <2>7. PendingRight(d)'
      BY <2>1, <2>2 DEF PendingRight, Quiet
    <2> QED BY <2>3, <2>4, <2>6, <2>7 DEF ContentRight
  <1> QED BY <1>1, <1>2 DEF Contents

\* Nothing is transferred by an answer that is an error, or none.
LEMMA NothingAccessed == ASSUME Control, NEW c \in Clients PROVE Accessed(c, -1) = {}
  BY DEF Control, Typed, Requests, Accessed, Cells

\* Who waits for no answer to a transfer has changed nothing.
LEMMA NothingChanged ==
    ASSUME NEW c \in Clients, state[c] # "io" \/ io[c].op # "write" \/ Len(down[c]) = 0
    PROVE  Changed(c) = {}
  BY DEF Changed

-----------------------------------------------------------------------------
(* floppyd.c                                                                *)

\* A process answers; unless it has written, the answer must tell where the file
\* position is now, and what has been read.
LEMMA Replying ==
    ASSUME Control, Contents, NEW c \in Clients, server[c].alive, up[c].op # "none",
           NEW packets \in Seq(Packets), Reply(c, packets), UNCHANGED client,
           device' = device, stored' = stored, known' = known,
           disturbed' = disturbed \/ disturbed' = disturbed \ {c},
           NEW s, server' = [server EXCEPT ![c] = s],
           s.alive /\ state[c] # "out" =>
              /\ state[c] \notin {"seek", "io"} => s.pos = server[c].pos
              /\ state[c] = "seek" => s.pos = io[c].where
              /\ state[c] = "io" /\ packets[1].n # -1 =>
                    s.pos = io[c].where + packets[1].n /\ io[c].op = "read"
              /\ state[c] = "io" /\ io[c].op = "read" /\ Len(packets) = 2 =>
                    \A p \in Accessed(c, packets[1].n) :
                        packets[2].data[p - io[c].where + 1] = device[p]
    PROVE  Contents'
  <1>1. /\ up'[c] = NoRequest
        /\ down'[c] = IF state[c] = "out" THEN <<>> ELSE packets
        /\ \A d \in Clients \ {c} : up'[d] = up[d] /\ down'[d] = down[d]
        /\ state[c] = "out" \/ (state[c] # "idle" /\ Asks(c, up[c]))
    BY Replied
  <1>2. /\ server'[c] = s /\ \A d \in Clients \ {c} : server'[d] = server[d]
    BY DEF Control, Typed
  <1>3. state' = state /\ io' = io /\ lastwhere' = lastwhere
    BY DEF client
  <1>4. Quiet(c)
    BY <1>1, <1>2, <1>3 DEF Quiet
  <1>5. KnownRight(c) /\ PositionRight(c) /\ ViewRight(c)
    BY DEF Contents, ContentRight
  <1>6. KnownRight(c)'
    BY <1>3, <1>5 DEF KnownRight, Nothing
  <1>7. PositionRight(c)'
    <2>1. ASSUME s.alive, state[c] \in {"hello", "cookie", "open", "idle", "flush"}, lastwhere[c] # -1
          PROVE  s.pos = lastwhere[c]
      BY <1>5, <2>1 DEF PositionRight
    <2>2. ASSUME s.alive, state[c] = "io", packets[1].n # -1
          PROVE  s.pos = io[c].where + packets[1].n
      BY <2>2
    <2> QED BY <1>1, <1>2, <1>3, <2>1, <2>2 DEF PositionRight
  <1>8. ViewRight(c)'
    <2> SUFFICES ASSUME s.alive PROVE ViewRight(c)'
      BY <1>2 DEF ViewRight
    <2>1. Changed(c) = {}
      <3>1. CASE state[c] = "io"
        <4>1. up[c] # NoRequest
          BY CommandsAreRequests
        <4>2. Len(down[c]) = 0
          BY <3>1, <4>1 DEF Control, ClientRight, ExchangeRight
        <4> QED BY <4>2, NothingChanged
      <3> QED BY <3>1, NothingChanged
    <2>2. Changed(c)' = {}
      <3>1. CASE state[c] = "io" /\ io[c].op = "write"
        <4>1. packets[1].n = -1 /\ down'[c] = packets
          BY <1>1, <3>1
        <4>2. Accessed(c, -1)' = {}
          BY <1>3, NothingAccessed DEF Accessed
        <4> QED BY <4>1, <4>2 DEF Changed
      <3>2. CASE ~(state[c] = "io" /\ io[c].op = "write")
        BY <1>3, <3>2 DEF Changed
      <3> QED BY <3>1, <3>2
    <2>3. ReadRight(c)'
      BY <1>1, <1>3 DEF ReadRight, Accessed
    <2>4. \A p \in Cells : known[c][p] # Unknown => device[p] = known[c][p]
      BY <1>5, <2>1 DEF ViewRight
    <2> QED BY <2>2, <2>3, <2>4 DEF ViewRight
  <1>9. PendingRight(c)'
    BY <1>1, CommandsAreRequests DEF PendingRight
  <1> QED BY <1>4, <1>6, <1>7, <1>8, <1>9, QuietStep DEF ContentRight

\* A process that is gone leaves nothing to show but what its client knew.
LEMMA Ending ==
    ASSUME Control, Contents, NEW c \in Clients,
           server' = [server EXCEPT ![c] = NoServer], up' = [up EXCEPT ![c] = NoRequest],
           \A d \in Clients \ {c} : down'[d] = down[d],
           UNCHANGED client, device' = device, stored' = stored,
           known' = known \/ known' = [known EXCEPT ![c] = Nothing],
           disturbed' = disturbed \ {c}
    PROVE  Contents'
  <1>1. state' = state /\ io' = io /\ lastwhere' = lastwhere
    BY DEF client
  <1>2. /\ up'[c] = NoRequest /\ server'[c] = NoServer
        /\ \A d \in Clients \ {c} : up'[d] = up[d] /\ server'[d] = server[d] /\ known'[d] = known[d]
        /\ known'[c] \in {known[c], Nothing}
    BY DEF Control, Typed
  <1>3. Quiet(c)
    BY <1>1, <1>2 DEF Quiet
  <1>4. KnownRight(c)'
    BY <1>1, <1>2 DEF Contents, ContentRight, KnownRight, Nothing
  <1>5. PositionRight(c)' /\ ViewRight(c)'
    BY <1>2 DEF PositionRight, ViewRight, NoServer
  <1>6. PendingRight(c)'
    BY <1>2, CommandsAreRequests DEF PendingRight
  <1> QED BY <1>3, <1>4, <1>5, <1>6, QuietStep DEF ContentRight

\* do_auth: neither the version nor a refusal moves the file position.
LEMMA GreetContents ==
    ASSUME Control, Contents, NEW c \in Clients, Greet(c) \/ Refuse(c)
    PROVE  Contents'
  <1>1. CASE Greet(c)
    <2>1. PICK b \in BOOLEAN : b = (up[c].op = "helloOld")
      OBVIOUS
    <2> DEFINE s == [server[c] EXCEPT !.old = b]
    <2>2. /\ up[c].op \in {"hello", "helloOld"} /\ server[c].alive
          /\ server' = [server EXCEPT ![c] = s] /\ Reply(c, <<Count(0)>>)
          /\ UNCHANGED client /\ device' = device /\ stored' = stored /\ known' = known
          /\ disturbed' = disturbed
      BY <1>1, <2>1 DEF Greet, Got, history
    <2>3. s.pos = server[c].pos
      BY ServerFields DEF Control, Typed
    <2>4. state[c] \notin {"seek", "io"}
      BY <2>2, Serving
    <2>5. <<Count(0)>> \in Seq(Packets)
      BY Replies, FloppydAssumption DEF FloppydAssumption
    <2> QED BY <2>2, <2>3, <2>4, <2>5, Replying
  <1>2. CASE Refuse(c)
    <2>1. /\ up[c].op \in {"cookie", "hello", "helloOld"} /\ server[c].alive
          /\ server' = [server EXCEPT ![c] = NoServer] /\ Reply(c, <<Failed>>)
          /\ UNCHANGED client /\ device' = device /\ stored' = stored /\ known' = known
          /\ disturbed' = disturbed
      BY <1>2 DEF Refuse, Got, Gone, history
    <2>2. ~NoServer.alive
      BY DEF NoServer
    <2>3. <<Failed>> \in Seq(Packets)
      BY Replies
    <2> QED BY <2>1, <2>2, <2>3, Replying
  <1> QED BY <1>1, <1>2

\* do_auth, the end of it: the device is opened at most.
LEMMA AuthenticateContents ==
    ASSUME Control, Contents, NEW c \in Clients, Authenticate(c)
    PROVE  Contents'
  <1>1. /\ up[c].op = "cookie" /\ server[c].alive
        /\ device' = device /\ stored' = stored /\ known' = known /\ disturbed' = disturbed
        /\ UNCHANGED client
    BY DEF Authenticate, Got, history
  <1>2. server[c] \in Servers /\ (state[c] # "out" => state[c] = "cookie")
    BY <1>1, Serving DEF States, OpenOp
  <1>3. <<Count(0)>> \in Seq(Packets) /\ <<Count(0), Failed>> \in Seq(Packets)
    BY Replies, FloppydAssumption DEF FloppydAssumption
  <1>4. CASE server' = [server EXCEPT ![c].ready = TRUE] /\ Reply(c, <<Count(0)>>)
    <2> DEFINE s == [server[c] EXCEPT !.ready = TRUE]
    <2>1. s.pos = server[c].pos /\ server' = [server EXCEPT ![c] = s]
      BY <1>2, <1>4 DEF Servers
    <2> HIDE DEF s
    <2> QED BY <1>1, <1>2, <1>3, <1>4, <2>1, Replying
  <1>5. ASSUME NEW write \in BOOLEAN,
               server' = [server EXCEPT ![c].ready = TRUE, ![c].open = TRUE,
                              ![c].readOnly = ~write,
                              ![c].lock = IF ~Compatible(c, write) THEN "none"
                                          ELSE IF write THEN "exclusive" ELSE "shared"],
               Reply(c, <<Count(0)>>)
        PROVE  Contents'
    <2>1. PICK l \in {"none", "shared", "exclusive"}, r \in BOOLEAN :
             /\ l = IF ~Compatible(c, write) THEN "none"
                    ELSE IF write THEN "exclusive" ELSE "shared"
             /\ r = ~write
      BY <1>5
    <2> DEFINE s == [server[c] EXCEPT !.ready = TRUE, !.open = TRUE, !.readOnly = r, !.lock = l]
    <2>2. s.pos = server[c].pos
      BY <1>2 DEF Servers
    <2>3. server' = [server EXCEPT ![c] = s]
      BY <1>5, <2>1
    <2> HIDE DEF s
    <2> QED BY <1>1, <1>2, <1>3, <1>5, <2>2, <2>3, Replying
  <1>6. CASE server' = [server EXCEPT ![c] = NoServer] /\ Reply(c, <<Count(0), Failed>>)
    <2>1. ~NoServer.alive
      BY DEF NoServer
    <2> QED BY <1>1, <1>3, <1>6, <2>1, Replying
  <1> QED BY <1>4, <1>5, <1>6 DEF Authenticate, Gone

\* OP_OPRO and OP_OPRW do not move the file position.
LEMMA OpenDeviceContents ==
    ASSUME Control, Contents, NEW c \in Clients, OpenDevice(c)
    PROVE  Contents'
  <1>1. PICK write \in BOOLEAN :
          /\ Got(c, OpenOp(write))
          /\ \/ /\ Compatible(c, write)
                /\ server' = [server EXCEPT ![c].open = TRUE, ![c].readOnly = ~write,
                                  ![c].lock = IF write THEN "exclusive" ELSE "shared"]
                /\ Reply(c, <<Count(0)>>)
             \/ /\ ~Compatible(c, write)
                /\ server' = [server EXCEPT ![c].open = TRUE]
                /\ Reply(c, <<Failed>>)
             \/ /\ server' = [server EXCEPT ![c].readOnly = ~write]
                /\ Reply(c, <<Failed>>)
    BY DEF OpenDevice
  <1>2. /\ up[c].op \in {"opro", "oprw"} /\ server[c].alive
        /\ device' = device /\ stored' = stored /\ known' = known /\ disturbed' = disturbed
        /\ UNCHANGED client
    BY <1>1 DEF OpenDevice, Got, OpenOp, history
  <1>3. server[c] \in Servers /\ (state[c] # "out" => state[c] = "open")
    BY <1>2, Serving DEF States
  <1>4. PICK l \in {"shared", "exclusive"}, r \in BOOLEAN :
          /\ l = IF write THEN "exclusive" ELSE "shared"
          /\ r = ~write
    OBVIOUS
  <1>5. <<Count(0)>> \in Seq(Packets) /\ <<Failed>> \in Seq(Packets)
    BY Replies, FloppydAssumption DEF FloppydAssumption
  <1>6. ASSUME NEW s, s.pos = server[c].pos, server' = [server EXCEPT ![c] = s],
               NEW packets \in Seq(Packets), Reply(c, packets)
        PROVE  Contents'
    BY <1>2, <1>3, <1>6, Replying
  <1>7. CASE /\ server' = [server EXCEPT ![c].open = TRUE, ![c].readOnly = ~write,
                               ![c].lock = IF write THEN "exclusive" ELSE "shared"]
             /\ Reply(c, <<Count(0)>>)
    <2> DEFINE s == [server[c] EXCEPT !.open = TRUE, !.readOnly = r, !.lock = l]
    <2>1. s.pos = server[c].pos
      BY <1>3 DEF Servers
    <2>2. server' = [server EXCEPT ![c] = s]
      BY <1>4, <1>7
    <2> HIDE DEF s
    <2> QED BY <1>5, <1>6, <1>7, <2>1, <2>2
  <1>8. CASE server' = [server EXCEPT ![c].open = TRUE] /\ Reply(c, <<Failed>>)
    <2> DEFINE s == [server[c] EXCEPT !.open = TRUE]
    <2>1. s.pos = server[c].pos /\ server' = [server EXCEPT ![c] = s]
      BY <1>3, <1>8 DEF Servers
    <2> HIDE DEF s
    <2> QED BY <1>5, <1>6, <1>8, <2>1
  <1>9. CASE server' = [server EXCEPT ![c].readOnly = ~write] /\ Reply(c, <<Failed>>)
    <2> DEFINE s == [server[c] EXCEPT !.readOnly = r]
    <2>1. s.pos = server[c].pos
      BY <1>3 DEF Servers
    <2>2. server' = [server EXCEPT ![c] = s]
      BY <1>4, <1>9
    <2> HIDE DEF s
    <2> QED BY <1>5, <1>6, <1>9, <2>1, <2>2
  <1> QED BY <1>1, <1>7, <1>8, <1>9

\* OP_SEEK: where a client seeks, the process is, as no client seeks beyond the
\* device.
LEMMA SeekContents ==
    ASSUME WithinDevice, Control, Contents, NEW c \in Clients, Seek(c)
    PROVE  Contents'
  <1> DEFINE pos == IF up[c].where <= Size THEN up[c].where ELSE server[c].pos
  <1>1. /\ up[c].op = "seek" /\ server[c].alive
        /\ server' = [server EXCEPT ![c].pos = pos] /\ Reply(c, <<Count(pos)>>)
        /\ device' = device /\ stored' = stored /\ known' = known /\ disturbed' = disturbed
        /\ UNCHANGED client
    BY DEF Seek, Got, history
  <1>2. /\ pos \in 0..Size /\ server[c] \in Servers /\ pos = up[c].where
        /\ io[c].where \in 0..MaxWhere
    <2>1. up[c].where \in 0..MaxWhere /\ io[c].where \in 0..MaxWhere /\ server[c] \in Servers
      BY DEF Control, Typed, Requests
    <2> QED BY <2>1, FloppydAssumption DEF FloppydAssumption, WithinDevice
  <1> HIDE DEF pos
  <1> DEFINE s == [server[c] EXCEPT !.pos = pos]
  <1>3. s.pos = pos /\ server' = [server EXCEPT ![c] = s]
    BY <1>1, <1>2 DEF Servers
  <1>4. state[c] # "out" => state[c] = "seek" /\ Asks(c, up[c])
    BY <1>1, Serving DEF States, OpenOp
  <1>5. state[c] # "out" => up[c].where = io[c].where
    <2>1. state[c] # "out" => up[c] = [Command("seek") EXCEPT !.where = io[c].where]
      BY <1>4 DEF Asks
    <2>2. Command("seek") = [op |-> "seek", where |-> 0, len |-> 0, val |-> Zero, got |-> 0]
      BY DEF Command, NoRequest
    <2> QED BY <2>1, <2>2
  <1>6. <<Count(pos)>> \in Seq(Packets)
    BY <1>2, Replies
  <1> HIDE DEF s
  <1>7. PICK packets : packets = <<Count(pos)>>
    OBVIOUS
  <1>8. s.alive /\ state[c] # "out" =>
          /\ state[c] \notin {"io"} /\ state[c] = "seek"
          /\ s.pos = io[c].where
    BY <1>2, <1>3, <1>4, <1>5
  <1>9. up[c].op # "none" /\ packets \in Seq(Packets) /\ Reply(c, packets)
    BY <1>1, <1>6, <1>7
  <1> QED BY <1>1, <1>3, <1>8, <1>9, Replying

\* OP_FLUSH changes nothing.
LEMMA FsyncContents ==
    ASSUME Control, Contents, NEW c \in Clients, Fsync(c)
    PROVE  Contents'
  <1>1. /\ up[c].op = "flush" /\ server[c].alive /\ Reply(c, <<Count(0)>>)
        /\ device' = device /\ stored' = stored /\ known' = known /\ disturbed' = disturbed
        /\ server' = server /\ UNCHANGED client
    BY DEF Fsync, Got, history
  <1>2. server' = [server EXCEPT ![c] = server[c]]
    BY <1>1 DEF Control, Typed
  <1>3. state[c] # "out" => state[c] = "flush"
    BY <1>1, Serving DEF States, OpenOp
  <1>4. <<Count(0)>> \in Seq(Packets)
    BY Replies, FloppydAssumption DEF FloppydAssumption
  <1> QED BY <1>1, <1>2, <1>3, <1>4, Replying

\* OP_READ: what is sent is what the device holds where the client believes to
\* be, and the position has moved by as much.
LEMMA ReadDeviceContents ==
    ASSUME Control, Contents, NEW c \in Clients, ReadDevice(c)
    PROVE  Contents'
  <1> DEFINE p == server[c].pos
             n == Least(up[c].len, Size - p)
             data == [i \in 1..n |-> device[p + i - 1]]
  <1>1. /\ up[c].op = "read" /\ server[c].alive
        /\ \/ server' = [server EXCEPT ![c].pos = p + n] /\ Reply(c, <<Count(n), Data(data)>>)
           \/ server' = server /\ Reply(c, <<Failed>>)
        /\ device' = device /\ stored' = stored /\ known' = known /\ disturbed' = disturbed
        /\ UNCHANGED client
    BY DEF ReadDevice, Got, ReadError, history
  <1>2. p \in 0..Size /\ up[c].len \in Nat /\ server[c] \in Servers
    BY FloppydAssumption DEF Control, Typed, Servers, Requests, FloppydAssumption
  <1>3. n \in 0..Size /\ p + n \in 0..Size
    BY <1>2, WithinBounds
  <1>4. state[c] # "out" => state[c] = "io" /\ up[c] = io[c]
    BY <1>1, Serving DEF States, OpenOp
  <1>5. state[c] # "out" => p = io[c].where
    <2>1. up[c] # NoRequest
      BY <1>1, CommandsAreRequests
    <2> QED BY <1>1, <1>4, <2>1 DEF Contents, ContentRight, PositionRight
  <1>6. CASE server' = server /\ Reply(c, <<Failed>>)
    <2>1. server' = [server EXCEPT ![c] = server[c]]
      BY <1>6 DEF Control, Typed
    <2>2. /\ <<Failed>> \in Seq(Packets) /\ <<Failed>>[1].n = -1 /\ Len(<<Failed>>) # 2
      BY Replies
    <2> HIDE DEF p
    <2> QED BY <1>1, <1>4, <1>6, <2>1, <2>2, Replying
  <1>7. CASE server' = [server EXCEPT ![c].pos = p + n] /\ Reply(c, <<Count(n), Data(data)>>)
    <2>1. data \in Seq(Content) /\ Len(data) = n
      <3>1. ASSUME NEW i \in 1..n PROVE device[p + i - 1] \in Content
        <4> HIDE DEF n
        <4>1. p + i - 1 \in Cells
          BY <1>2, <1>3, FloppydAssumption DEF Cells, FloppydAssumption
        <4> QED BY <4>1 DEF Control, Typed
      <3>2. data \in [1..n -> Content]
        BY <3>1
      <3> QED BY <1>3, <3>2
    <2>2. \A i \in 1..n : data[i] = device[p + i - 1]
      OBVIOUS
    <2> HIDE DEF data, n
    <2>3. PICK packets : packets = <<Count(n), Data(data)>>
      OBVIOUS
    <2>4. /\ packets \in Seq(Packets) /\ packets[1].n = n /\ packets[2].data = data
      <3>1. n \in -1..Size /\ Len(data) <= Size
        BY <1>3, <2>1, FloppydAssumption DEF FloppydAssumption
      <3>2. Count(n) \in Packets /\ Count(n).n = n /\ Data(data) \in Packets
        BY <2>1, <3>1, PacketSequences
      <3>3. Data(data).data = data
        BY DEF Data
      <3> QED BY <2>3, <3>2, <3>3, PacketSequences
    <2> DEFINE s == [server[c] EXCEPT !.pos = p + n]
    <2>5. s.pos = p + n /\ server' = [server EXCEPT ![c] = s]
      BY <1>2, <1>7 DEF Servers
    <2>6. state[c] # "out" => \A q \in Accessed(c, n) : data[q - io[c].where + 1] = device[q]
      <3> SUFFICES ASSUME state[c] # "out", NEW q \in Accessed(c, n)
          PROVE  data[q - io[c].where + 1] = device[q]
        OBVIOUS
      <3> HIDE DEF p
      <3>1. p = io[c].where
        BY <1>5
      <3>2. q \in Int /\ q - p + 1 \in 1..n /\ p + (q - p + 1) - 1 = q
        BY <1>2, <1>3, <3>1, FloppydAssumption DEF Accessed, Cells, FloppydAssumption
      <3> QED BY <2>2, <3>1, <3>2
    <2> HIDE DEF s, p
    <2>7. s.alive /\ state[c] # "out" =>
             /\ state[c] = "io" /\ io[c].op = "read"
             /\ s.pos = io[c].where + packets[1].n
             /\ \A q \in Accessed(c, packets[1].n) :
                    packets[2].data[q - io[c].where + 1] = device[q]
      BY <1>1, <1>4, <1>5, <2>4, <2>5, <2>6
    <2>8. up[c].op # "none" /\ Reply(c, packets)
      BY <1>1, <1>7, <2>3
    <2> QED BY <1>1, <2>4, <2>5, <2>7, <2>8, Replying
  <1> QED BY <1>1, <1>6, <1>7

\* OP_CLOSE, the end of a process: what it leaves needs no proof.
LEMMA CloseContents ==
    ASSUME Control, Contents, NEW c \in Clients,
           CloseDevice(c) \/ Hangup(c) \/ ServerDies(c)
    PROVE  Contents'
  <1>1. CASE CloseDevice(c)
    <2>1. PICK answer \in {<<>>, <<Count(0)>>} : Reply(c, answer)
      BY <1>1 DEF CloseDevice
    <2>2. /\ up[c].op = "close" /\ server[c].alive
          /\ server' = [server EXCEPT ![c] = NoServer] /\ disturbed' = disturbed \ {c}
          /\ device' = device /\ stored' = stored /\ known' = known /\ UNCHANGED client
      BY <1>1 DEF CloseDevice, Got
    <2>3. answer \in Seq(Packets)
      <3>1. <<>> \in Seq(Packets)
        BY EmptySeq
      <3>2. <<Count(0)>> \in Seq(Packets)
        BY Replies, FloppydAssumption DEF FloppydAssumption
      <3> QED BY <3>1, <3>2
    <2>4. ~NoServer.alive
      BY DEF NoServer
    <2> QED BY <2>1, <2>2, <2>3, <2>4, Replying
  <1>2. CASE Hangup(c)
    BY <1>2, Ending DEF Hangup, Gone
  <1>3. CASE ServerDies(c)
    <2>1. \A d \in Clients \ {c} : down'[d] = down[d]
      BY <1>3 DEF ServerDies, Control, Typed
    <2> QED BY <1>3, <2>1, Ending DEF ServerDies, Gone
  <1> QED BY <1>1, <1>2, <1>3

\* What OP_WRITE does to the device: a client that waits for the answer finds its
\* value in the cells that the answer tells of, and nothing changes elsewhere.
LEMMA Written ==
    ASSUME Control, NEW c \in Clients, WriteDevice(c)
    PROVE  /\ up[c].op = "write" /\ server[c].alive /\ UNCHANGED client
           /\ \/ /\ device' = device /\ server' = server /\ stored' = stored /\ known' = known
                 /\ disturbed' = disturbed /\ Reply(c, <<Failed>>)
              \/ \E n \in 0..Size :
                    /\ n <= up[c].len /\ ~server[c].readOnly
                    /\ server' = [server EXCEPT ![c].pos = server[c].pos + n]
                    /\ Reply(c, <<Count(n)>>)
                    /\ \A q \in Cells :
                          /\ q \notin server[c].pos..server[c].pos+n-1 => device'[q] = device[q]
                          /\ q \in server[c].pos..server[c].pos+n-1 /\ state[c] # "out" =>
                                device'[q] = io[c].val
                    /\ stored' = IF state[c] = "out"
                                 THEN IF c \notin disturbed THEN stored
                                      ELSE Put(stored, server[c].pos..server[c].pos+n-1, Unknown)
                                 ELSE Put(stored, Accessed(c, n), io[c].val)
                    /\ disturbed' = disturbed \cup Unprotected(c)
                    /\ known' = [d \in Clients |-> IF d \in Unprotected(c) THEN Nothing
                                                   ELSE known[d]]
  <1> DEFINE p == server[c].pos
             data == Payload(up[c])
             fits == Least(Len(data), Size - p)
  <1>1. /\ up[c].op = "write" /\ server[c].alive /\ UNCHANGED client
        /\ \/ \E n \in 0..fits :
                /\ ~server[c].readOnly
                /\ device' = [q \in Cells |-> IF q \in p..p+n-1 THEN data[q - p + 1]
                                              ELSE device[q]]
                /\ server' = [server EXCEPT ![c].pos = p + n]
                /\ stored' = IF state[c] = "out"
                             THEN IF c \notin disturbed THEN stored
                                  ELSE Put(stored, p..p+n-1, Unknown)
                             ELSE Put(stored, Accessed(c, n), io[c].val)
                /\ disturbed' = disturbed \cup Unprotected(c)
                /\ known' = [d \in Clients |-> IF d \in Unprotected(c) THEN Nothing
                                               ELSE known[d]]
                /\ Reply(c, <<Count(n)>>)
           \/ /\ device' = device /\ server' = server /\ stored' = stored /\ known' = known
              /\ disturbed' = disturbed /\ Reply(c, <<Failed>>)
    BY DEF WriteDevice, Got, history
  <1>2. /\ up[c] \in Requests /\ p \in 0..Size
        /\ up[c].got \in -1..MaxLen /\ up[c].len \in 0..MaxLen
    BY DEF Control, Typed, Servers, Requests
  <1>3. PICK m \in Nat : /\ m <= up[c].len
                         /\ data = [i \in 1..m |-> IF i <= up[c].got THEN up[c].val ELSE Zero]
    <2> DEFINE k == IF up[c].got = -1 THEN 0 ELSE up[c].len
    <2>1. k \in Nat /\ k <= up[c].len
      BY <1>2, FloppydAssumption DEF FloppydAssumption
    <2>2. data = [i \in 1..k |-> IF i <= up[c].got THEN up[c].val ELSE Zero]
      BY DEF Payload
    <2> HIDE DEF k, data
    <2> QED BY <2>1, <2>2
  <1> HIDE DEF data
  <1>4. Len(data) = m
    <2>1. data \in Seq(Content)
      <3>1. up[c].val \in Content /\ Zero \in Content
        BY <1>2 DEF Requests, Content
      <3>2. data \in [1..m -> Content]
        BY <1>3, <3>1
      <3> QED BY <3>2
    <2> QED BY <1>3, <2>1
  <1>5. fits \in 0..Size /\ fits <= m
    <2> HIDE DEF p
    <2> QED BY <1>2, <1>3, <1>4, WithinBounds
  <1>6. state[c] # "out" => /\ \A i \in 1..m : data[i] = io[c].val
    <2> SUFFICES ASSUME state[c] # "out", NEW i \in 1..m PROVE data[i] = io[c].val
      OBVIOUS
    <2>1. state[c] = "io" /\ up[c] = io[c]
      BY <1>1, Serving DEF States, OpenOp
    <2>2. io[c].got = io[c].len
      BY <2>1 DEF Control, ClientRight, CallRight
    <2>3. i <= up[c].got
      BY <1>2, <1>3, <2>1, <2>2, FloppydAssumption DEF FloppydAssumption
    <2> QED BY <1>3, <2>1, <2>3
  <1>7. ASSUME NEW n \in 0..fits,
               device' = [q \in Cells |-> IF q \in p..p+n-1 THEN data[q - p + 1] ELSE device[q]]
        PROVE  /\ n \in 0..Size /\ n <= up[c].len
               /\ \A q \in Cells :
                     /\ q \notin p..p+n-1 => device'[q] = device[q]
                     /\ q \in p..p+n-1 /\ state[c] # "out" => device'[q] = io[c].val
    <2> HIDE DEF fits, p
    <2>1. n \in 0..Size /\ n <= m /\ n <= up[c].len
      BY <1>2, <1>3, <1>5, FloppydAssumption DEF FloppydAssumption
    <2>2. ASSUME NEW q \in Cells, q \in p..p+n-1, state[c] # "out"
          PROVE  device'[q] = io[c].val
      <3>1. q - p + 1 \in 1..m
        BY <1>2, <1>3, <2>1, <2>2
      <3> QED BY <1>6, <1>7, <2>2, <3>1
    <2> QED BY <1>7, <2>1, <2>2
  <1> HIDE DEF fits
  <1> QED BY <1>1, <1>7

\* Who writes with a lock is alone; who writes without one disturbs all whose
\* sessions have begun.
LEMMA Alone ==
    ASSUME Control, NEW c \in Clients, up[c].op = "write", ~server[c].readOnly,
           NEW d \in Clients \ {c}, d \notin Unprotected(c)
    PROVE  /\ ~server[d].ready /\ up[d].op # "write"
           /\ server[d].alive => state[d] \in {"out", "hello", "cookie"}
  <1>1. ProcessRight(c) /\ ProcessRight(d) /\ ExchangeRight(d)
    BY DEF Control, ClientRight
  <1>2. server[c] \in Servers /\ server[d] \in Servers /\ state[d] \in States
    BY DEF Control, Typed
  <1>3. server[c].lock # "shared"
    BY <1>1 DEF ProcessRight
  <1>4. ~server[d].ready
    BY <1>2, <1>3 DEF Control, LocksExclude, Unprotected, Servers
  <1>5. up[d].op # "write"
    BY <1>1, <1>4 DEF ProcessRight
  <1>6. server[d].alive => state[d] \in {"out", "hello", "cookie"}
    BY <1>1, <1>2, <1>4 DEF ExchangeRight, States
  <1> QED BY <1>4, <1>5, <1>6

\* OP_WRITE: the cells that the answer tells of hold what the client wrote, and
\* no session that is kept apart by a lock has known or stored anything there.
LEMMA WriteDeviceContents ==
    ASSUME Control, Contents, NEW c \in Clients, WriteDevice(c)
    PROVE  Contents'
  <1>1. up[c].op = "write" /\ server[c].alive /\ UNCHANGED client
    BY Written
  <1>2. CASE /\ device' = device /\ server' = server /\ stored' = stored /\ known' = known
             /\ disturbed' = disturbed /\ Reply(c, <<Failed>>)
    <2>1. server' = [server EXCEPT ![c] = server[c]]
      BY <1>2 DEF Control, Typed
    <2>2. <<Failed>> \in Seq(Packets) /\ <<Failed>>[1].n = -1 /\ Len(<<Failed>>) # 2
      BY Replies
    <2>3. state[c] # "out" => state[c] = "io"
      BY <1>1, Serving DEF States, OpenOp
    <2> QED BY <1>1, <1>2, <2>1, <2>2, <2>3, Replying
  <1>3. ASSUME NEW n \in 0..Size,
               n <= up[c].len, ~server[c].readOnly,
               server' = [server EXCEPT ![c].pos = server[c].pos + n],
               Reply(c, <<Count(n)>>),
               \A q \in Cells :
                  /\ q \notin server[c].pos..server[c].pos+n-1 => device'[q] = device[q]
                  /\ q \in server[c].pos..server[c].pos+n-1 /\ state[c] # "out" =>
                        device'[q] = io[c].val,
               stored' = IF state[c] = "out"
                         THEN IF c \notin disturbed THEN stored
                              ELSE Put(stored, server[c].pos..server[c].pos+n-1, Unknown)
                         ELSE Put(stored, Accessed(c, n), io[c].val),
               disturbed' = disturbed \cup Unprotected(c),
               known' = [d \in Clients |-> IF d \in Unprotected(c) THEN Nothing ELSE known[d]]
        PROVE  Contents'
    <2>1. /\ up'[c] = NoRequest
          /\ down'[c] = IF state[c] = "out" THEN <<>> ELSE <<Count(n)>>
          /\ \A d \in Clients \ {c} : up'[d] = up[d] /\ down'[d] = down[d]
          /\ <<Count(n)>>[1].n = n /\ Len(<<Count(n)>>) = 1
      BY <1>1, <1>3, Replied, Replies
    <2>2. state[c] # "out" => state[c] = "io" /\ up[c] = io[c] /\ io[c].op = "write"
      BY <1>1, Serving DEF States, OpenOp
    <2>3. state' = state /\ io' = io /\ lastwhere' = lastwhere
      BY <1>1 DEF client
    <2>4. /\ server[c] \in Servers /\ server[c].pos \in 0..Size /\ up[c].len \in Nat
          /\ io[c].where \in Nat
      BY FloppydAssumption DEF Control, Typed, Servers, Requests, FloppydAssumption
    <2>5. /\ server'[c].pos = server[c].pos + n
          /\ \A d \in Clients \ {c} : server'[d] = server[d]
      BY <1>3, <2>4 DEF Control, Typed, Servers
    <2>6. /\ KnownRight(c) /\ PositionRight(c) /\ ViewRight(c) /\ PendingRight(c)
          /\ \A d \in Clients : ContentRight(d)
      BY DEF Contents, ContentRight
    <2>7. state[c] # "out" => server[c].pos = io[c].where /\ Changed(c) = {}
      <3>1. up[c] # NoRequest
        BY <1>1, CommandsAreRequests
      <3>2. state[c] = "io" => Len(down[c]) = 0
        BY <1>1, <3>1 DEF Control, ClientRight, ExchangeRight
      <3> QED BY <1>1, <2>2, <2>6, <3>1, <3>2 DEF PositionRight, Changed
    <2>8. state[c] # "out" => \A q \in Cells : q \in server[c].pos..server[c].pos+n-1 <=> q \in Accessed(c, n)
      <3> SUFFICES ASSUME state[c] # "out", NEW q \in Cells
          PROVE  q \in server[c].pos..server[c].pos+n-1 <=> q \in Accessed(c, n)
        OBVIOUS
      <3>1. q \in Int /\ server[c].pos = io[c].where
        BY <2>7 DEF Cells
      <3> QED BY <2>4, <3>1 DEF Accessed
    <2>9. StoresStay'
      <3>1. CASE state[c] = "out" /\ c \notin disturbed
        <4>1. ASSUME NEW q \in Cells, q \in server[c].pos..server[c].pos+n-1
              PROVE  stored[q] = Unknown
          <5>1. q >= server[c].pos /\ q < server[c].pos + up[c].len
            BY <1>3, <2>4, <4>1
          <5> QED BY <1>1, <1>3, <2>6, <3>1, <5>1 DEF PendingRight
        <4> QED BY <1>3, <3>1, <4>1 DEF Contents, StoresStay
      <3>2. CASE state[c] = "out" /\ c \in disturbed
        BY <1>3, <3>2 DEF Contents, StoresStay, Put
      <3>3. CASE state[c] # "out"
        BY <1>3, <2>8, <3>3 DEF Contents, StoresStay, Put
      <3> QED BY <3>1, <3>2, <3>3
    <2>10. ContentRight(c)'
      <3>1. known'[c] = known[c] /\ (c \in disturbed' <=> c \in disturbed)
        BY <1>3 DEF Unprotected
      <3>2. KnownRight(c)'
        BY <2>3, <2>6, <3>1 DEF KnownRight, Nothing
      <3>3. PositionRight(c)'
        <4>1. CASE state[c] = "out"
          BY <2>3, <4>1 DEF PositionRight
        <4>2. CASE state[c] # "out"
          BY <2>1, <2>2, <2>3, <2>5, <2>7, <4>2 DEF PositionRight
        <4> QED BY <4>1, <4>2
      <3>4. ViewRight(c)'
        <4>1. CASE state[c] = "out"
          <5>1. known[c] = Nothing
            BY <2>6, <4>1 DEF KnownRight
          <5>2. Changed(c)' = {} /\ ReadRight(c)'
            BY <2>3, <4>1 DEF Changed, ReadRight
          <5> QED BY <3>1, <5>1, <5>2 DEF ViewRight, Nothing
        <4>2. CASE state[c] # "out"
          <5>1. Changed(c)' = Accessed(c, n)
            BY <2>1, <2>2, <2>3, <4>2 DEF Changed, Accessed
          <5>2. ReadRight(c)'
            BY <2>2, <2>3, <4>2 DEF ReadRight
          <5>3. \A q \in Cells : known[c][q] # Unknown => device[q] = known[c][q]
            BY <1>1, <2>6, <2>7, <4>2 DEF ViewRight
          <5>4. \A q \in Cells \ Accessed(c, n) : device'[q] = device[q]
            BY <1>3, <2>8, <4>2
          <5>5. \A q \in Accessed(c, n) : device'[q] = io'[c].val
            BY <1>3, <2>3, <2>8, <4>2 DEF Accessed
          <5> QED BY <3>1, <5>1, <5>2, <5>3, <5>4, <5>5 DEF ViewRight
        <4> QED BY <4>1, <4>2
      <3>5. PendingRight(c)'
        BY <2>1, CommandsAreRequests DEF PendingRight
      <3> QED BY <3>2, <3>3, <3>4, <3>5 DEF ContentRight
    <2>11. ASSUME NEW d \in Clients \ {c} PROVE ContentRight(d)'
      <3>1. /\ state'[d] = state[d] /\ io'[d] = io[d] /\ lastwhere'[d] = lastwhere[d]
            /\ up'[d] = up[d] /\ down'[d] = down[d] /\ server'[d] = server[d]
        BY <2>1, <2>3, <2>5
      <3>2. KnownRight(d) /\ PositionRight(d) /\ ViewRight(d) /\ PendingRight(d)
        BY <2>6 DEF ContentRight
      <3>3. PositionRight(d)'
        BY <3>1, <3>2 DEF PositionRight
      <3>4. CASE d \in Unprotected(c)
        <4>1. known'[d] = Nothing /\ d \in disturbed'
          BY <1>3, <3>4
        <4>2. KnownRight(d)'
          BY <4>1 DEF KnownRight, Nothing
        <4>3. ViewRight(d)' /\ PendingRight(d)'
          BY <4>1 DEF ViewRight, PendingRight, Nothing
        <4> QED BY <3>3, <4>2, <4>3 DEF ContentRight
      <3>5. CASE d \notin Unprotected(c)
        <4>1. known'[d] = known[d] /\ (d \in disturbed' <=> d \in disturbed)
          BY <1>3, <3>5
        <4>2. /\ up[d].op # "write"
              /\ server[d].alive => state[d] \in {"out", "hello", "cookie"}
          BY <1>1, <1>3, <3>5, Alone
        <4>3. KnownRight(d)'
          BY <3>1, <3>2, <4>1 DEF KnownRight, Nothing
        <4>4. ViewRight(d)'
          <5> SUFFICES ASSUME server[d].alive PROVE ViewRight(d)'
            BY <3>1 DEF ViewRight
          <5>1. known[d] = Nothing /\ state[d] # "io"
            BY <3>2, <4>2 DEF KnownRight
          <5>2. Changed(d)' = {} /\ ReadRight(d)'
            BY <3>1, <5>1 DEF Changed, ReadRight
          <5> QED BY <4>1, <5>1, <5>2 DEF ViewRight, Nothing
        <4>5. PendingRight(d)'
          BY <3>1, <4>2 DEF PendingRight
        <4> QED BY <3>3, <4>3, <4>4, <4>5 DEF ContentRight
      <3> QED BY <3>4, <3>5
    <2> QED BY <2>9, <2>10, <2>11 DEF Contents
  <1> QED BY <1>2, <1>3, Written

-----------------------------------------------------------------------------
(* floppyd_io.c                                                             *)

\* A step that only the client c takes part in
Moves(c) ==
    /\ server' = server /\ device' = device /\ disturbed' = disturbed
    /\ \A p \in Cells : stored'[p] = stored[p] \/ stored'[p] = Unknown
    /\ \A d \in Clients \ {c} :
          /\ state'[d] = state[d] /\ io'[d] = io[d] /\ lastwhere'[d] = lastwhere[d]
          /\ up'[d] = up[d] /\ down'[d] = down[d] /\ known'[d] = known[d]

\* It is a quiet one.
LEMMA MovesQuietly ==
    ASSUME NEW c \in Clients, Moves(c), Contents, ContentRight(c)'
    PROVE  Contents'
  <1>1. Quiet(c)
    BY DEF Moves, Quiet
  <1> QED BY <1>1, QuietStep

\* The end of a session leaves nothing to show, but of a write under way.
LEMMA MoveOut ==
    ASSUME Contents, NEW c \in Clients, Moves(c), state'[c] = "out", known'[c] = Nothing,
           up'[c].op = "write" /\ c \notin disturbed /\ ~server[c].readOnly =>
              \A p \in Cells : p >= server[c].pos /\ p < server[c].pos + up'[c].len =>
                  stored'[p] = Unknown
    PROVE  Contents'
  <1>1. server' = server /\ disturbed' = disturbed
    BY DEF Moves
  <1>2. KnownRight(c)'
    BY DEF KnownRight, Nothing
  <1>3. PositionRight(c)'
    BY DEF PositionRight
  <1>4. ViewRight(c)'
    <2>1. Changed(c)' = {} /\ ReadRight(c)'
      BY DEF Changed, ReadRight
    <2> QED BY <2>1 DEF ViewRight, Nothing
  <1>5. PendingRight(c)'
    BY <1>1 DEF PendingRight
  <1> QED BY <1>2, <1>3, <1>4, <1>5, MovesQuietly DEF ContentRight

\* A step in which the client learns nothing, from which the position that it
\* believes in follows
LEMMA MoveOn ==
    ASSUME Contents, NEW c \in Clients, Moves(c),
           state'[c] # "out", state[c] # "io",
           known'[c] = known[c], lastwhere'[c] = lastwhere[c],
           server[c].alive => Len(down'[c]) = 0,
           state'[c] \in {"hello", "cookie", "open"} => state[c] \in {"hello", "cookie", "open"},
           server[c].alive =>
              /\ state'[c] \in {"hello", "cookie", "open", "idle", "flush"} =>
                    state[c] \in {"hello", "cookie", "open", "idle", "flush"}
              /\ state'[c] = "seek" => up'[c] # NoRequest
              /\ state'[c] = "io" => server[c].pos = io'[c].where
    PROVE  Contents'
  <1>1. server' = server /\ disturbed' = disturbed /\ device' = device
    BY DEF Moves
  <1>2. KnownRight(c) /\ PositionRight(c) /\ ViewRight(c)
    BY DEF Contents, ContentRight
  <1>3. KnownRight(c)'
    BY <1>1, <1>2 DEF KnownRight, Nothing
  <1>4. PositionRight(c)'
    <2> SUFFICES ASSUME server[c].alive PROVE PositionRight(c)'
      BY <1>1 DEF PositionRight
    <2>1. ~(Len(down'[c]) > 0)
      OBVIOUS
    <2>2. state'[c] \in {"hello", "cookie", "open", "idle", "flush"} /\ lastwhere'[c] # -1 =>
              server[c].pos = lastwhere'[c]
      BY <1>2 DEF PositionRight
    <2> QED BY <1>1, <2>1, <2>2 DEF PositionRight
  <1>5. ViewRight(c)'
    <2> SUFFICES ASSUME server[c].alive PROVE ViewRight(c)'
      BY <1>1 DEF ViewRight
    <2>1. Changed(c) = {}
      BY DEF Changed
    <2>2. Changed(c)' = {} /\ ReadRight(c)'
      BY DEF Changed, ReadRight
    <2> QED BY <1>1, <1>2, <2>1, <2>2 DEF ViewRight
  <1>6. PendingRight(c)'
    BY DEF PendingRight
  <1> QED BY <1>3, <1>4, <1>5, <1>6, MovesQuietly DEF ContentRight

\* After a failure the client does not believe anything about the position, nor
\* know what the cells of a write hold.
LEMMA MoveFail ==
    ASSUME Control, Contents, NEW c \in Clients, Fail(c),
           server' = server, device' = device, stored' = stored, up' = up,
           \A d \in Clients \ {c} : down'[d] = down[d],
           state[c] \in {"seek", "io"},
           server[c].alive /\ state[c] = "io" => down[c][1].n = -1
    PROVE  Contents'
  <1>1. /\ state'[c] = "idle" /\ lastwhere'[c] = -1 /\ disturbed' = disturbed
        /\ \A d \in Clients \ {c} :
              /\ state'[d] = state[d] /\ io'[d] = io[d] /\ lastwhere'[d] = lastwhere[d]
              /\ known'[d] = known[d]
        /\ \A p \in Cells : known'[c][p] = known[c][p] \/ known'[c][p] = Unknown
        /\ known'[c] \in [Cells -> Content \cup {Unknown}]
    BY DEF Fail, After, Control, Typed, Put
  <1>2. Moves(c)
    BY <1>1 DEF Moves
  <1>3. KnownRight(c) /\ ViewRight(c)
    BY DEF Contents, ContentRight
  <1>4. KnownRight(c)'
    <2> SUFFICES ASSUME c \in disturbed PROVE known'[c] = Nothing
      BY <1>1 DEF KnownRight, Nothing
    <2>1. known[c] = Nothing
      BY <1>3 DEF KnownRight
    <2>2. \A p \in Cells : known'[c][p] = Unknown
      BY <1>1, <2>1 DEF Nothing
    <2> QED BY <1>1, <2>2 DEF Nothing
  <1>5. PositionRight(c)'
    BY <1>1 DEF PositionRight
  <1>6. ViewRight(c)'
    <2> SUFFICES ASSUME server[c].alive PROVE ViewRight(c)'
      BY DEF ViewRight
    <2>1. Changed(c) = {}
      <3>1. Accessed(c, -1) = {}
        BY NothingAccessed
      <3> QED BY <3>1 DEF Changed
    <2>2. Changed(c)' = {} /\ ReadRight(c)'
      BY <1>1 DEF Changed, ReadRight
    <2> QED BY <1>1, <1>3, <2>1, <2>2 DEF ViewRight
  <1>7. PendingRight(c)'
    BY <1>1 DEF PendingRight
  <1> QED BY <1>2, <1>4, <1>5, <1>6, <1>7, MovesQuietly DEF ContentRight

\* Taking an answer does not concern the others.
LEMMA TakeMoves ==
    ASSUME Control, NEW c \in Clients, Take(c)
    PROVE  \A d \in Clients \ {c} : down'[d] = down[d]
  BY DEF Take, Control, Typed

\* The handshake, floppyd_flush and floppyd_free
LEMMA HandshakeContents ==
    ASSUME Control, Contents, NEW c \in Clients,
           Greeted(c) \/ Authenticated(c) \/ Opened(c) \/ Flushed(c) \/ Closed(c)
    PROVE  Contents'
  <1>1. /\ state[c] \in {"hello", "cookie", "open", "flush", "close"} /\ Whole(c)
        /\ server' = server /\ device' = device /\ stored' = stored
    BY DEF Greeted, Authenticated, Opened, Flushed, Closed, Answered, history
  <1>2. up[c] = NoRequest
    BY <1>1, Answering
  <1>3. CASE Forget(c) /\ up' = up /\ \A d \in Clients \ {c} : down'[d] = down[d]
    <2>1. Moves(c) /\ state'[c] = "out" /\ known'[c] = Nothing
      BY <1>1, <1>3 DEF Moves, Forget, Control, Typed
    <2>2. up'[c].op # "write"
      BY <1>2, <1>3, CommandsAreRequests
    <2> QED BY <2>1, <2>2, MoveOut
  <1>4. ASSUME Take(c), NEW s \in {"cookie", "open", "idle"}, state' = [state EXCEPT ![c] = s],
               UNCHANGED <<lastwhere, io, known, disturbed>>,
               \A d \in Clients \ {c} : up'[d] = up[d],
               state[c] # "close", s \in {"cookie", "open"} => state[c] \in {"hello", "cookie"}
        PROVE  Contents'
    <2>1. Moves(c) /\ state'[c] = s
      BY <1>1, <1>4, TakeMoves DEF Moves, Control, Typed
    <2>2. server[c].alive => Len(down'[c]) = 0
      BY <1>1, <1>4, Took
    <2> QED BY <1>1, <1>4, <2>1, <2>2, MoveOn
  <1>5. CASE Greeted(c)
    <2>1. /\ state[c] = "hello" /\ Take(c) /\ state' = [state EXCEPT ![c] = "cookie"]
          /\ up' = Sent(c, Command("cookie")) /\ UNCHANGED <<lastwhere, io, known, disturbed>>
      BY <1>5 DEF Greeted, Answered, history
    <2>2. \A d \in Clients \ {c} : up'[d] = up[d]
      BY <2>1, CommandsAreRequests, SentTyped
    <2> QED BY <1>4, <2>1, <2>2
  <1>6. CASE Authenticated(c)
    <2>1. CASE Forget(c) /\ down' = [down EXCEPT ![c] = <<>>] /\ up' = up
      BY <1>3, <2>1 DEF Control, Typed
    <2>2. CASE /\ Take(c)
               /\ IF old[c] THEN state' = [state EXCEPT ![c] = "idle"] /\ up' = up
                  ELSE /\ state' = [state EXCEPT ![c] = "open"]
                       /\ up' = Sent(c, Command(OpenOp(rw[c])))
               /\ UNCHANGED <<old, rw, lastwhere, io, calls, known, disturbed>>
      <3>1. state[c] = "cookie"
        BY <1>6 DEF Authenticated, Answered
      <3>2. CASE old[c]
        BY <1>4, <2>2, <3>1, <3>2
      <3>3. CASE ~old[c]
        <4>1. Command(OpenOp(rw[c])) \in Requests
          BY CommandsAreRequests DEF OpenOp
        <4>2. \A d \in Clients \ {c} : up'[d] = up[d]
          BY <2>2, <3>3, <4>1, SentTyped
        <4> QED BY <1>4, <2>2, <3>1, <3>3, <4>2
      <3> QED BY <3>2, <3>3
    <2> QED BY <1>6, <2>1, <2>2 DEF Authenticated
  <1>7. CASE Opened(c)
    <2>1. CASE Forget(c) /\ down' = [down EXCEPT ![c] = <<>>]
      BY <1>3, <1>7, <2>1 DEF Opened, Control, Typed
    <2>2. CASE /\ state' = [state EXCEPT ![c] = "idle"] /\ Take(c)
               /\ UNCHANGED <<old, rw, lastwhere, io, calls, known, disturbed>>
      BY <1>4, <1>7, <2>2 DEF Opened, Answered
    <2> QED BY <1>7, <2>1, <2>2 DEF Opened
  <1>8. CASE Flushed(c)
    BY <1>4, <1>8 DEF Flushed, Answered, history
  <1>9. CASE Closed(c)
    BY <1>3, <1>9, TakeMoves DEF Closed
  <1> QED BY <1>5, <1>6, <1>7, <1>8, <1>9

\* A call begins where the client believes the process to be, or with a seek.
LEMMA StartContents ==
    ASSUME Control, Contents, NEW c \in Clients,
           \/ \E op \in {"flush", "close"} : StartCommand(c, op)
           \/ \E op \in {"read", "write"}, where \in 0..MaxWhere, len \in 1..MaxLen, val \in Content :
                 StartIO(c, op, where, len, val)
    PROVE  Contents'
  <1>1. CASE \E op \in {"flush", "close"} : StartCommand(c, op)
    <2>1. PICK op \in {"flush", "close"} : StartCommand(c, op)
      BY <1>1
    <2>2. /\ state[c] = "idle" /\ state' = [state EXCEPT ![c] = op] /\ up' = Sent(c, Command(op))
          /\ server' = server /\ device' = device /\ stored' = stored /\ known' = known
          /\ disturbed' = disturbed /\ down' = down /\ io' = io /\ lastwhere' = lastwhere
      BY <2>1 DEF StartCommand, history
    <2>3. \A d \in Clients \ {c} : up'[d] = up[d]
      BY <2>2, CommandsAreRequests, SentTyped
    <2>4. Moves(c) /\ state'[c] = op
      BY <2>2, <2>3 DEF Moves, Control, Typed
    <2>5. LeftOver(c)
      BY <2>2, IdleLeftOver
    <2>6. /\ state'[c] # "out" /\ state[c] # "io"
          /\ known'[c] = known[c] /\ lastwhere'[c] = lastwhere[c]
          /\ server[c].alive => Len(down'[c]) = 0
          /\ state'[c] \notin {"hello", "cookie", "open", "idle", "seek", "io"}
      BY <2>2, <2>4, <2>5 DEF LeftOver
    <2> QED BY <2>2, <2>4, <2>6, MoveOn
  <1>2. ASSUME NEW op \in {"read", "write"}, NEW where \in 0..MaxWhere, NEW len \in 1..MaxLen,
               NEW val \in Content, StartIO(c, op, where, len, val)
        PROVE  Contents'
    <2>1. PICK call, seek : /\ call = [op |-> op, where |-> where, len |-> len, val |-> val, got |-> len]
                            /\ seek = [Command("seek") EXCEPT !.where = where % OffsetWrap]
      OBVIOUS
    <2>2. /\ state[c] = "idle" /\ io' = [io EXCEPT ![c] = call]
          /\ \/ /\ where = lastwhere[c] /\ state' = [state EXCEPT ![c] = "io"]
                /\ up' = Sent(c, call)
             \/ state' = [state EXCEPT ![c] = "seek"] /\ up' = Sent(c, seek)
          /\ server' = server /\ device' = device /\ stored' = stored /\ known' = known
          /\ disturbed' = disturbed /\ down' = down /\ lastwhere' = lastwhere
      BY <1>2, <2>1 DEF StartIO, history
    <2>3. io'[c].where = where
      BY <2>1, <2>2 DEF Control, Typed
    <2>4. \A r : /\ \A d \in Clients \ {c} : Sent(c, r)[d] = up[d]
                 /\ Sent(c, r)[c] = IF server[c].alive THEN r ELSE NoRequest
      BY DEF Sent, Control, Typed
    <2>5. seek # NoRequest
      <3>1. Command("seek") = [op |-> "seek", where |-> 0, len |-> 0, val |-> Zero, got |-> 0]
        BY DEF Command, NoRequest
      <3>2. seek.op = "seek"
        BY <2>1, <3>1
      <3> QED BY <3>2, CommandsAreRequests
    <2>6. Moves(c)
      BY <2>2, <2>4 DEF Moves, Control, Typed
    <2>7. LeftOver(c)
      BY <2>2, IdleLeftOver
    <2>8. server[c].alive /\ where = lastwhere[c] => server[c].pos = where
      <3>1. where # -1
        BY FloppydAssumption DEF FloppydAssumption
      <3> QED BY <2>2, <3>1 DEF Contents, ContentRight, PositionRight
    <2>9. state'[c] = "seek" \/ (state'[c] = "io" /\ where = lastwhere[c])
      BY <2>2 DEF Control, Typed
    <2>10. server[c].alive /\ state'[c] = "seek" => up'[c] # NoRequest
      BY <2>2, <2>4, <2>5 DEF Control, Typed
    <2>11. /\ state'[c] # "out" /\ state[c] # "io"
           /\ known'[c] = known[c] /\ lastwhere'[c] = lastwhere[c]
           /\ server[c].alive => Len(down'[c]) = 0
           /\ state'[c] \notin {"hello", "cookie", "open", "idle", "flush"}
           /\ server[c].alive /\ state'[c] = "io" => server[c].pos = io'[c].where
      BY <2>2, <2>3, <2>7, <2>8, <2>9 DEF LeftOver
    <2> QED BY <2>6, <2>10, <2>11, MoveOn
  <1> QED BY <1>1, <1>2

\* After its seek a call goes on where the process is, or fails.
LEMMA SoughtContents ==
    ASSUME Control, Contents, NEW c \in Clients, Sought(c)
    PROVE  Contents'
  <1>1. /\ state[c] = "seek" /\ Whole(c) /\ Take(c)
        /\ device' = device /\ server' = server /\ stored' = stored
    BY DEF Sought, Answered
  <1>2. up[c] = NoRequest /\ Len(down'[c]) = 0
    BY <1>1, Answering, Took
  <1>3. CASE Fail(c) /\ up' = up
    BY <1>1, <1>3, TakeMoves, MoveFail
  <1>4. CASE /\ state' = [state EXCEPT ![c] = "io"] /\ up' = Sent(c, io[c])
             /\ UNCHANGED <<old, rw, lastwhere, io, calls, known, disturbed>>
    <2>1. \A d \in Clients \ {c} : up'[d] = up[d]
      BY <1>4, SentTyped DEF Control, Typed
    <2>2. Moves(c) /\ state'[c] = "io"
      BY <1>1, <1>4, <2>1, TakeMoves DEF Moves, Control, Typed
    <2>3. server[c].alive => server[c].pos = io'[c].where
      BY <1>1, <1>2, <1>4 DEF Contents, ContentRight, PositionRight
    <2> QED BY <1>1, <1>2, <1>4, <2>2, <2>3, MoveOn
  <1> QED BY <1>3, <1>4 DEF Sought

\* What a read has found and a write has stored is known from then on, and the
\* process is at the end of it.
LEMMA EndIOContents ==
    ASSUME Control, Contents, NEW c \in Clients, EndIO(c)
    PROVE  Contents'
  <1>1. /\ state[c] = "io" /\ Whole(c) /\ Take(c)
        /\ device' = device /\ up' = up /\ server' = server /\ stored' = stored
    BY DEF EndIO, Answered
  <1>2. /\ Len(down[c]) > 0 /\ Head(down[c]) = down[c][1]
        /\ io[c].op \in {"read", "write"}
    BY <1>1, Took DEF Control, ClientRight, CallRight
  <1>3. PICK n, read : n = down[c][1].n /\ read = down[c][2].data
    OBVIOUS
  <1>4. CASE n = -1
    <2>1. Fail(c)
      BY <1>2, <1>3, <1>4 DEF EndIO
    <2> QED BY <1>1, <1>3, <1>4, <2>1, TakeMoves, MoveFail
  <1>5. CASE n # -1
    <2>1. /\ state' = [state EXCEPT ![c] = "idle"] /\ io' = [io EXCEPT ![c] = NoRequest]
          /\ lastwhere' = [lastwhere EXCEPT ![c] = io[c].where + n]
          /\ disturbed' = disturbed
          /\ known' = IF ~server[c].alive \/ c \in disturbed THEN known
                      ELSE IF io[c].op = "write"
                      THEN [known EXCEPT ![c] = Put(@, Accessed(c, n), io[c].val)]
                      ELSE [known EXCEPT ![c] = [p \in Cells |->
                               IF p \in Accessed(c, n) THEN read[p - io[c].where + 1] ELSE @[p]]]
      BY <1>2, <1>3, <1>5 DEF EndIO
    <2>2. /\ state'[c] = "idle" /\ lastwhere'[c] = io[c].where + n
          /\ \A d \in Clients \ {c} :
                /\ state'[d] = state[d] /\ io'[d] = io[d] /\ lastwhere'[d] = lastwhere[d]
                /\ known'[d] = known[d]
      BY <2>1 DEF Control, Typed
    <2>3. Moves(c)
      BY <1>1, <2>1, <2>2, TakeMoves DEF Moves
    <2>4. KnownRight(c) /\ PositionRight(c) /\ ViewRight(c)
      BY DEF Contents, ContentRight
    <2>5. KnownRight(c)'
      BY <2>1, <2>2, <2>4 DEF KnownRight, Nothing
    <2>6. PositionRight(c)'
      <3>1. server[c].alive => server[c].pos = lastwhere'[c]
        BY <1>1, <1>2, <1>3, <1>5, <2>2, <2>4 DEF PositionRight
      <3> QED BY <1>1, <2>2, <3>1 DEF PositionRight
    <2>7. Changed(c)' = {} /\ ReadRight(c)'
      BY <2>2 DEF Changed, ReadRight
    <2>8. ViewRight(c)'
      <3> SUFFICES ASSUME server[c].alive, NEW p \in Cells, known'[c][p] # Unknown
          PROVE  device[p] = known'[c][p]
        BY <1>1, <2>7 DEF ViewRight
      <3>1. CASE c \in disturbed
        <4>1. known'[c] = Nothing
          BY <2>1, <2>4, <3>1 DEF KnownRight
        <4> QED BY <4>1 DEF Nothing
      <3>2. CASE c \notin disturbed /\ io[c].op = "write"
        <4>1. Changed(c) = Accessed(c, n)
          BY <1>1, <1>2, <1>3, <3>2 DEF Changed
        <4>2. known'[c][p] = IF p \in Accessed(c, n) THEN io[c].val ELSE known[c][p]
          BY <2>1, <3>2 DEF Put, Control, Typed
        <4> QED BY <2>4, <3>2, <4>1, <4>2 DEF ViewRight
      <3>3. CASE c \notin disturbed /\ io[c].op = "read"
        <4>1. Changed(c) = {}
          BY <3>3 DEF Changed
        <4>2. Len(down[c]) = 2
          <5>1. server[c].alive /\ up[c] = NoRequest
            BY <1>1, Answering
          <5> QED BY <1>1, <1>2, <1>3, <1>5, <3>3, <5>1 DEF Control, ClientRight, ExchangeRight
        <4>3. ReadRight(c)
          BY <2>4, <3>3 DEF ViewRight
        <4>4. \A q \in Accessed(c, n) : read[q - io[c].where + 1] = device[q]
          BY <1>1, <1>3, <3>3, <4>2, <4>3 DEF ReadRight
        <4>5. known'[c][p] = IF p \in Accessed(c, n) THEN read[p - io[c].where + 1] ELSE known[c][p]
          BY <2>1, <3>3 DEF Control, Typed
        <4> QED BY <2>4, <4>1, <4>4, <4>5 DEF ViewRight
      <3> QED BY <1>2, <3>1, <3>2, <3>3
    <2>9. PendingRight(c)'
      BY <2>2 DEF PendingRight
    <2> QED BY <2>3, <2>5, <2>6, <2>8, <2>9, MovesQuietly DEF ContentRight
  <1> QED BY <1>4, <1>5

\* The end of the connection
LEMMA EndOfFileContents ==
    ASSUME Control, Contents, NEW c \in Clients, EndOfFile(c)
    PROVE  Contents'
  <1>1. /\ state[c] # "out" /\ ~server[c].alive /\ state[c] # "idle"
        /\ up' = up /\ down' = [down EXCEPT ![c] = <<>>]
        /\ device' = device /\ server' = server /\ stored' = stored
    BY DEF EndOfFile
  <1>2. \A d \in Clients \ {c} : down'[d] = down[d]
    BY <1>1 DEF Control, Typed
  <1>3. up[c] = NoRequest
    BY <1>1 DEF Control, ClientRight, ProcessRight
  <1>4. CASE Forget(c)
    <2>1. Moves(c) /\ state'[c] = "out" /\ known'[c] = Nothing
      BY <1>1, <1>2, <1>4 DEF Moves, Forget, Control, Typed
    <2>2. up'[c].op # "write"
      BY <1>1, <1>3, CommandsAreRequests
    <2> QED BY <2>1, <2>2, MoveOut
  <1>5. CASE Fail(c) /\ state[c] \in {"seek", "io"}
    BY <1>1, <1>2, <1>5, MoveFail
  <1>6. CASE /\ state[c] \notin {"seek", "io"} /\ state' = [state EXCEPT ![c] = "idle"]
             /\ UNCHANGED <<old, rw, lastwhere, io, calls, known, disturbed>>
    <2>1. Moves(c) /\ state'[c] = "idle"
      BY <1>1, <1>2, <1>6 DEF Moves, Control, Typed
    <2> QED BY <1>1, <1>6, <2>1, MoveOn
  <1> QED BY <1>4, <1>5, <1>6 DEF EndOfFile

\* A client that dies while it sends a write leaves nothing known of the cells
\* that the write is about.
LEMMA ClientDiesContents ==
    ASSUME Control, Contents, NEW c \in Clients, ClientDies(c)
    PROVE  Contents'
  <1>1. /\ state[c] # "out" /\ Forget(c) /\ down' = [down EXCEPT ![c] = <<>>]
        /\ device' = device /\ server' = server
    BY DEF ClientDies
  <1>2. /\ state'[c] = "out" /\ known'[c] = Nothing /\ disturbed' = disturbed
        /\ \A d \in Clients \ {c} :
              /\ state'[d] = state[d] /\ io'[d] = io[d] /\ lastwhere'[d] = lastwhere[d]
              /\ known'[d] = known[d] /\ down'[d] = down[d]
    BY <1>1 DEF Forget, Control, Typed
  <1>3. CASE up' = [up EXCEPT ![c] = NoRequest] /\ stored' = stored
    <2>1. up'[c] = NoRequest /\ \A d \in Clients \ {c} : up'[d] = up[d]
      BY <1>3 DEF Control, Typed
    <2>2. Moves(c)
      BY <1>1, <1>2, <1>3, <2>1 DEF Moves
    <2>3. up'[c].op # "write"
      BY <2>1, CommandsAreRequests
    <2> QED BY <1>2, <2>2, <2>3, MoveOut
  <1>4. CASE /\ up[c] # NoRequest
             /\ \E g \in -1..up[c].len : up' = [up EXCEPT ![c].got = g]
             /\ stored' = IF up[c].op = "write" THEN Put(stored, Accessed(c, up[c].len), Unknown)
                          ELSE stored
    <2>1. PICK g \in -1..up[c].len : up' = [up EXCEPT ![c].got = g]
      BY <1>4
    <2>2. up[c] \in Requests
      BY DEF Control, Typed
    <2>3. /\ up'[c].op = up[c].op /\ up'[c].len = up[c].len
          /\ \A d \in Clients \ {c} : up'[d] = up[d]
      BY <2>1, <2>2 DEF Control, Typed, Requests
    <2>4. Moves(c)
      BY <1>1, <1>2, <1>4, <2>3 DEF Moves, Put
    <2>5. ASSUME up[c].op = "write", NEW p \in Cells,
                 p >= server[c].pos, p < server[c].pos + up[c].len
          PROVE  stored'[p] = Unknown
      <3>1. server[c].alive
        BY <1>4 DEF Control, ClientRight, ProcessRight
      <3>2. state[c] = "io"
        BY <1>1, <2>5, <3>1, CommandsAreRequests, Serving DEF States, OpenOp
      <3>3. server[c].pos = io[c].where
        BY <1>4, <3>1, <3>2 DEF Contents, ContentRight, PositionRight
      <3>4. p \in Accessed(c, up[c].len)
        BY <2>5, <3>3 DEF Accessed
      <3> QED BY <1>4, <2>5, <3>4 DEF Put
    <2> QED BY <1>2, <2>3, <2>4, <2>5, MoveOut
  <1> QED BY <1>3, <1>4 DEF ClientDies

\* A new session knows nothing, and both sides begin at the start of the device.
LEMMA ConnectContents ==
    ASSUME Control, Contents, NEW c \in Clients,
           FallBack(c) \/ \E write \in BOOLEAN : FloppydOpen(c, write)
    PROVE  Contents'
  <1>1. PICK version10 \in BOOLEAN :
           state[c] \in {"out", "hello"} /\ ~server[c].alive /\ Connect(c, version10)
    BY DEF FallBack, FloppydOpen
  <1>2. PICK born : born = [NoServer EXCEPT !.alive = TRUE]
    OBVIOUS
  <1>3. born.pos = 0
    <2>1. born = [alive |-> TRUE, old |-> FALSE, ready |-> FALSE, open |-> FALSE, lock |-> "none",
                  readOnly |-> TRUE, pos |-> 0]
      BY <1>2 DEF NoServer
    <2> QED BY <2>1
  <1>4. /\ state'[c] = "hello" /\ lastwhere'[c] = 0 /\ device' = device /\ stored' = stored
        /\ known' = known /\ disturbed' = disturbed
        /\ server'[c] = born \/ server'[c] = server[c]
        /\ \A d \in Clients \ {c} :
              /\ state'[d] = state[d] /\ io'[d] = io[d] /\ lastwhere'[d] = lastwhere[d]
              /\ up'[d] = up[d] /\ down'[d] = down[d] /\ server'[d] = server[d]
    <2>1. /\ state' = [state EXCEPT ![c] = "hello"] /\ lastwhere' = [lastwhere EXCEPT ![c] = 0]
          /\ io' = [io EXCEPT ![c] = NoRequest] /\ down' = [down EXCEPT ![c] = <<>>]
          /\ device' = device /\ stored' = stored /\ known' = known /\ disturbed' = disturbed
      BY <1>1 DEF Connect, history
    <2>2. PICK r : \/ server' = [server EXCEPT ![c] = born] /\ up' = [up EXCEPT ![c] = r]
                   \/ server' = server /\ up' = up
      BY <1>1, <1>2 DEF Connect
    <2> QED BY <2>1, <2>2 DEF Control, Typed
  <1>5. Quiet(c)
    BY <1>4 DEF Quiet
  <1>6. known[c] = Nothing
    BY <1>1 DEF Contents, ContentRight, KnownRight
  <1>7. KnownRight(c)'
    BY <1>4, <1>6 DEF KnownRight, Nothing
  <1>8. PositionRight(c)'
    BY <1>1, <1>3, <1>4 DEF PositionRight
  <1>9. ViewRight(c)'
    <2>1. Changed(c)' = {} /\ ReadRight(c)'
      BY <1>4 DEF Changed, ReadRight
    <2> QED BY <1>4, <1>6, <2>1 DEF ViewRight, Nothing
  <1>10. PendingRight(c)'
    BY <1>4 DEF PendingRight
  <1> QED BY <1>5, <1>7, <1>8, <1>9, <1>10, QuietStep DEF ContentRight

-----------------------------------------------------------------------------
(* The theorems                                                             *)

\* At the start nobody knows anything, and nobody has stored anything.
LEMMA InitContents == Init => Contents
  <1> SUFFICES ASSUME Init, NEW c \in Clients PROVE StoresStay /\ ContentRight(c)
    BY DEF Contents, Init, StoresStay
  <1>1. /\ state[c] = "out" /\ server[c] = NoServer /\ up[c] = NoRequest /\ known[c] = Nothing
    BY DEF Init
  <1>2. ~NoServer.alive
    BY DEF NoServer
  <1>3. KnownRight(c) /\ PositionRight(c) /\ ViewRight(c)
    BY <1>1, <1>2 DEF KnownRight, PositionRight, ViewRight
  <1>4. PendingRight(c)
    BY <1>1, CommandsAreRequests DEF PendingRight
  <1>5. StoresStay
    BY DEF Init, StoresStay
  <1> QED BY <1>3, <1>4, <1>5 DEF ContentRight

\* Every step keeps what is known and what is stored right.
LEMMA NextContents ==
    ASSUME WithinDevice
    PROVE  Control /\ Contents /\ [Next]_vars => Contents'
  <1> SUFFICES ASSUME Control, Contents, [Next]_vars PROVE Contents'
    OBVIOUS
  <1>1. CASE UNCHANGED vars
    <2>1. /\ device' = device /\ state' = state /\ lastwhere' = lastwhere /\ io' = io /\ up' = up
          /\ down' = down /\ server' = server /\ known' = known /\ disturbed' = disturbed
          /\ stored' = stored
      BY <1>1 DEF vars, client, history
    <2> QED BY <2>1 DEF Contents, StoresStay, ContentRight, KnownRight, PositionRight,
               ViewRight, Changed, ReadRight, PendingRight, Accessed, Nothing
  <1>2. CASE Next
    <2>1. PICK c \in Clients :
             ServerStep(c) \/ Receive(c) \/ Call(c) \/ ClientDies(c) \/ ServerDies(c)
      BY <1>2 DEF Next
    <2>2. CASE ServerStep(c)
      BY <2>2, GreetContents, AuthenticateContents, OpenDeviceContents, SeekContents,
         ReadDeviceContents, WriteDeviceContents, FsyncContents, CloseContents DEF ServerStep
    <2>3. CASE Receive(c)
      BY <2>3, HandshakeContents, ConnectContents, SoughtContents, EndIOContents,
         EndOfFileContents DEF Receive
    <2>4. CASE Call(c)
      <3>1. CASE \E write \in BOOLEAN : FloppydOpen(c, write)
        BY <3>1, ConnectContents
      <3>2. CASE \E where \in 0..MaxWhere, len \in 1..MaxLen :
                    \/ StartIO(c, "read", where, len, Zero)
                    \/ \E val \in Values : StartIO(c, "write", where, len, val)
        <4>1. PICK where \in 0..MaxWhere, len \in 1..MaxLen :
                    \/ StartIO(c, "read", where, len, Zero)
                    \/ \E val \in Values : StartIO(c, "write", where, len, val)
          BY <3>2
        <4>2. Zero \in Content /\ Values \subseteq Content
          BY DEF Content
        <4>3. \E op \in {"read", "write"}, val \in Content : StartIO(c, op, where, len, val)
          BY <4>1, <4>2
        <4> QED BY <4>3, StartContents
      <3>3. CASE \E op \in {"flush", "close"} : StartCommand(c, op)
        BY <3>3, StartContents
      <3> QED BY <2>4, <3>1, <3>2, <3>3 DEF Call
    <2>5. CASE ClientDies(c) \/ ServerDies(c)
      BY <2>5, ClientDiesContents, CloseContents
    <2> QED BY <2>1, <2>2, <2>3, <2>4, <2>5
  <1> QED BY <1>1, <1>2

\* Both layers of the invariant hold at all times.
THEOREM ContentsRight == ASSUME WithinDevice PROVE Spec => [](Control /\ Contents)
  BY InitControl, NextControl, InitContents, NextContents, PTL DEF Spec

\* SessionView: what a session has read from the device or written to it, the
\* device holds as long as the session has its process.
THEOREM SessionsAreApart == ASSUME WithinDevice PROVE Spec => []SessionView
  <1>1. Control /\ Contents => SessionView
    <2> SUFFICES ASSUME Control, Contents, NEW c \in Clients, NEW p \in Cells,
                        server[c].alive, known[c][p] # Unknown,
                        ~(io[c].op = "write" /\ p \in Accessed(c, io[c].len))
        PROVE  device[p] = known[c][p]
      BY DEF SessionView
    <2>1. p \notin Changed(c)
      <3> SUFFICES ASSUME p \in Changed(c) PROVE FALSE
        OBVIOUS
      <3>1. /\ state[c] = "io" /\ io[c].op = "write" /\ Len(down[c]) > 0
            /\ p \in Accessed(c, down[c][1].n)
        BY DEF Changed
      <3>2. down[c][1].n <= io[c].len
        BY <3>1 DEF Control, ClientRight, AnswerRight
      <3>3. /\ io[c].where \in Int /\ io[c].len \in Int /\ p \in Int /\ down[c][1].n \in Int
        <4>1. down[c] \in Seq(Packets) /\ Len(down[c]) \in Nat
          BY DEF Control, Typed
        <4>2. down[c][1] \in Packets
          BY <3>1, <4>1
        <4>3. down[c][1].n \in Int
          BY <4>2, FloppydAssumption DEF Packets, FloppydAssumption
        <4>4. io[c].where \in Int /\ io[c].len \in Int
          BY FloppydAssumption DEF Control, Typed, Requests, FloppydAssumption
        <4> QED BY <4>3, <4>4 DEF Cells
      <3>4. p \in Accessed(c, io[c].len)
        BY <3>1, <3>2, <3>3 DEF Accessed
      <3> QED BY <3>1, <3>4
    <2> QED BY <2>1 DEF Contents, ContentRight, ViewRight
  <1> QED BY <1>1, ContentsRight, PTL

\* StoresStay: the device holds what the clients' writes have stored.
THEOREM WritesLast == ASSUME WithinDevice PROVE Spec => []StoresStay
  <1>1. Contents => StoresStay
    BY DEF Contents
  <1> QED BY <1>1, ContentsRight, PTL
=============================================================================
