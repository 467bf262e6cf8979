----------------------------- MODULE ClientConn -----------------------------
(* One game client connection (internal/gameserver/transport/client/conn.go and
   gamecrypt): senders on several goroutines put packets into a bounded queue,
   one writer goroutine frames, encrypts and writes them in batches, and the
   reader dispatches what the client sends by the state of the connection
   (handlers/client/handler.go, dispatch.go).

   A packet is its sender and number; the key packet is the handler's packet
   number 0. The cipher is its stage: 0 before the first Encrypt, which only
   enables it and leaves the packet plain, and one more after each. *)
EXTENDS Naturals, Sequences, SequencesExt, FiniteSets

CONSTANTS
  Senders,     \* goroutines that send besides the connection's own
  QueueCap,    \* sendQueueCapacity
  MaxBatch,    \* maxBatchPackets
  MaxSent      \* bound: packets per sender

ASSUME ConnAssumption ==
  /\ QueueCap \in Nat \ {0} /\ MaxBatch \in Nat \ {0} /\ MaxSent \in Nat \ {0}
  /\ "handler" \notin Senders

VARIABLES
  queue,     \* sendCh
  done,      \* the done channel is closed
  socket,    \* the socket is open
  enable,    \* EnableCrypt has run
  stage,     \* stage of the outbound cipher
  writer,    \* where the writer goroutine is: "select", "drain", "flush", "fail",
             \* "last", "ends", "off"
  batch,     \* what it has framed: packets with the stage they were encrypted at
  stream,    \* what was written to the socket
  sent,      \* packets taken into the queue, per sender
  handler,   \* where the connection's goroutine is: "hello", "key", "read", "off"
  state,     \* connection state of the dispatcher
  login,     \* history: AuthLogin has succeeded
  closing    \* goroutines in Close, between the done channel and the socket

connVars == <<queue, done, socket, closing>>
writeVars == <<stage, writer, batch, stream>>
readVars == <<enable, handler, state, login>>
clientVars == <<connVars, writeVars, readVars, sent>>

All     == Senders \union {"handler"}
OutPackets == All \X (0..MaxSent)
States  == {"connected", "authed", "ingame"}

ConnTypeOK ==
  /\ queue \in Seq(OutPackets) /\ Len(queue) <= QueueCap
  /\ done \in BOOLEAN /\ socket \in BOOLEAN /\ enable \in BOOLEAN /\ login \in BOOLEAN
  /\ stage \in Nat /\ closing \in BOOLEAN
  /\ writer \in {"select", "drain", "flush", "fail", "last", "ends", "off"}
  /\ batch \in Seq([packet : OutPackets, stage : Nat]) /\ Len(batch) <= MaxBatch
  /\ stream \in Seq([packet : OutPackets, stage : Nat])
  /\ sent \in [All -> 0..(MaxSent + 1)]
  /\ handler \in {"hello", "key", "read", "off"}
  /\ state \in States

ConnInit ==
  /\ queue = <<>> /\ done = FALSE /\ socket = TRUE /\ closing = FALSE
  /\ stage = 0 /\ writer = "select" /\ batch = <<>> /\ stream = <<>>
  /\ enable = FALSE /\ handler = "hello" /\ state = "connected"
  /\ login = FALSE
  /\ sent = [s \in All |-> 0]

-----------------------------------------------------------------------------
(* Close and Send. *)

\* Close: once, the done channel first and then the socket.
BeginClose ==
  /\ done' = TRUE
  /\ closing' = (closing \/ ~done)

\* Mutant: Close only signals the writer.
CloseSocketNot ==
  /\ closing
  /\ closing' = FALSE
  /\ UNCHANGED <<queue, done, socket, writeVars, readVars, sent>>

CloseSocket ==
  /\ closing
  /\ closing' = FALSE /\ socket' = FALSE
  /\ UNCHANGED <<queue, done, writeVars, readVars, sent>>

\* Send takes the packet, or finds the queue full and closes the connection; it
\* never waits, and it takes packets of a closed connection too.
Enqueue(s) ==
  IF Len(queue) < QueueCap
    THEN /\ queue' = Append(queue, <<s, sent[s]>>)
         /\ sent' = [sent EXCEPT ![s] = @ + 1]
         /\ UNCHANGED <<done, closing>>
    ELSE BeginClose /\ UNCHANGED <<queue, sent>>

\* The game loop, another connection: once the player is in the world.
Send(s) ==
  /\ s \in Senders /\ login /\ sent[s] <= MaxSent
  /\ Enqueue(s)
  /\ UNCHANGED <<socket, writeVars, readVars>>

-----------------------------------------------------------------------------
(* The writer goroutine. *)

\* Mutant: a packet is put before those already framed.
FramedFirst(p) == <<[packet |-> p, stage |-> stage]>> \o batch

\* appendFramed and Encrypt: the first packet encrypted enables the cipher and
\* stays plain; without EnableCrypt the cipher is not touched.
Framed(p) == Append(batch, [packet |-> p, stage |-> stage])
Advance == stage' = IF enable THEN stage + 1 ELSE stage

Take ==
  /\ writer = "select" /\ queue # <<>>
  /\ queue' = Tail(queue)
  /\ batch' = Framed(Head(queue)) /\ Advance
  /\ writer' = "drain"
  /\ UNCHANGED <<done, socket, closing, stream, readVars, sent>>

\* select found the done channel closed, whether or not packets are queued.
SeeDone ==
  /\ writer = "select" /\ done
  /\ writer' = "last"
  /\ UNCHANGED <<connVars, stage, batch, stream, readVars, sent>>

\* drainInto: more packets without waiting, MaxBatch - 1 at most; what is
\* written at the end starts from an empty batch and has the same limit.
BatchRoom == Len(batch) < IF writer = "last" THEN MaxBatch - 1 ELSE MaxBatch
Drain ==
  /\ writer \in {"drain", "last"} /\ queue # <<>> /\ BatchRoom
  /\ queue' = Tail(queue)
  /\ batch' = Framed(Head(queue)) /\ Advance
  /\ UNCHANGED <<done, socket, closing, writer, stream, readVars, sent>>

Drained ==
  /\ writer \in {"drain", "last"} /\ (queue = <<>> \/ ~BatchRoom)
  /\ writer' = IF writer = "drain" THEN "flush" ELSE "ends"
  /\ UNCHANGED <<connVars, stage, batch, stream, readVars, sent>>

\* flush: one write; it fails on a closed socket, and at the deadline on a stuck
\* client, after some of the batch has been written.
Write(n) ==
  /\ stream' = stream \o SubSeq(batch, 1, n)
  /\ batch' = SubSeq(batch, n + 1, Len(batch))
Flush ==
  /\ writer = "flush"
  /\ \/ socket /\ Write(Len(batch)) /\ writer' = "select"
     \/ writer' = "fail" /\ \E n \in 0..Len(batch) : (n > 0 => socket) /\ Write(n)
  /\ UNCHANGED <<connVars, stage, readVars, sent>>

\* A write that failed closes the connection and ends the writer.
WriterCloses ==
  /\ writer = "fail"
  /\ BeginClose
  /\ writer' = "off"
  /\ UNCHANGED <<queue, socket, stage, batch, stream, readVars, sent>>

LastFlush ==
  /\ writer = "ends"
  /\ \E n \in 0..Len(batch) : (n > 0 => socket) /\ Write(n)
  /\ writer' = "off"
  /\ UNCHANGED <<connVars, stage, readVars, sent>>

-----------------------------------------------------------------------------
(* The connection's own goroutine. *)

\* Mutant: the key packet is sent before the cipher is enabled.
HelloPlain ==
  /\ handler = "hello" /\ socket
  /\ handler' = "key"
  /\ UNCHANGED <<connVars, writeVars, enable, state, login, sent>>

\* ProtocolVersion is read; the key is set and the cipher enabled, ...
Hello ==
  /\ handler = "hello" /\ socket
  /\ enable' = TRUE /\ handler' = "key"
  /\ UNCHANGED <<connVars, writeVars, state, login, sent>>

\* ... and only then is the key packet sent.
SendKey ==
  /\ handler = "key"
  /\ Enqueue("handler")
  /\ handler' = IF Len(queue) < QueueCap THEN "read" ELSE "off"
  /\ UNCHANGED <<socket, writeVars, enable, state, login>>

\* Registry.Resolve: the handlers of the state; a 0xD0 packet that the state does
\* not know falls back to the handlers of the game.
Kinds == {"AuthLogin", "EnterWorld", "Restart", "Action", "Multi"}
Resolves(st, kind) ==
  \/ kind = "AuthLogin" /\ st = "connected"
  \/ kind = "EnterWorld" /\ st = "authed"
  \/ kind = "Restart" /\ st \in {"authed", "ingame"}
  \/ kind = "Action" /\ st = "ingame"
  \/ kind = "Multi"

\* The handler succeeds: the packet's own transition, then the one of the
\* session's pendingState, which a restart in the game has set.
Transition(st, kind) ==
  CASE kind = "AuthLogin"                   -> "authed"
    [] kind = "EnterWorld"                  -> "ingame"
    [] kind = "Restart" /\ st = "ingame"    -> "authed"
    [] OTHER                                -> st
Read(kind, ok) ==
  /\ handler = "read" /\ socket
  /\ IF Resolves(state, kind) /\ ok
       THEN state' = Transition(state, kind) /\ login' = (login \/ kind = "AuthLogin")
       ELSE UNCHANGED <<state, login>>
  /\ handler' = IF Resolves(state, kind) /\ ~ok /\ kind \in {"AuthLogin", "EnterWorld"}
                  THEN "off" ELSE "read"
  /\ UNCHANGED <<connVars, writeVars, enable, sent>>

\* A handler answers its own client.
Reply ==
  /\ handler = "read" /\ sent["handler"] <= MaxSent
  /\ Enqueue("handler")
  /\ UNCHANGED <<socket, writeVars, readVars>>

\* The client closes, or the socket is closed under the reader.
HandlerReadFails ==
  /\ handler \in {"hello", "read"}
  /\ handler' = "off"
  /\ UNCHANGED <<connVars, writeVars, enable, state, login, sent>>

\* ListenAndServe closes the connection when its handler has returned.
HandlerReturned ==
  /\ handler = "off" /\ ~done
  /\ BeginClose
  /\ UNCHANGED <<queue, socket, writeVars, readVars, sent>>

-----------------------------------------------------------------------------
Writing == Take \/ SeeDone \/ Drain \/ Drained \/ Flush \/ WriterCloses \/ LastFlush
ConnNext ==
  \/ \E s \in Senders : Send(s)
  \/ Writing \/ CloseSocket \/ HandlerReturned
  \/ Hello \/ SendKey \/ Reply \/ HandlerReadFails
  \/ \E kind \in Kinds, ok \in BOOLEAN : Read(kind, ok)

\* Goroutines run, and a read on a closed socket fails.
ConnFairness ==
  /\ WF_clientVars(Writing) /\ WF_clientVars(CloseSocket) /\ WF_clientVars(HandlerReturned)
  /\ WF_clientVars(SendKey) /\ WF_clientVars(~socket /\ HandlerReadFails)
ConnSpec == ConnInit /\ [][ConnNext]_clientVars /\ ConnFairness

-----------------------------------------------------------------------------
(* Properties. *)

PacketsOf(s) == [i \in 1..Len(s) |-> s[i].packet]

\* The connection is a first-in first-out channel (the comment on ClientConn).
Channel == INSTANCE FifoChannel WITH
  inFlight  <- PacketsOf(batch) \o queue,
  delivered <- PacketsOf(stream),
  open      <- ~done
FifoDelivery == Channel!Spec

\* The client can decrypt all it is sent: the key packet comes first and plain,
\* and the cipher advances once per packet in the order of the stream, however
\* the writer batches (appendFramed, Encrypt, EnableCrypt before SendKey).
StreamDecodes ==
  \A i \in 1..Len(stream) : /\ stream[i].stage = i - 1
                            /\ i = 1 => stream[i].packet = <<"handler", 0>>

\* A connection that is closed, by a full queue, a failed write or its handler, is
\* rid of its writer, its handler and its socket.
ClosedEnds == done ~> (writer = "off" /\ handler = "off" /\ ~socket)

\* Every variable has its type, with queue and batch within their bounds, and the
\* client can decrypt all it is sent.
ConnSound == ConnTypeOK /\ StreamDecodes
=============================================================================
