---------------------------- MODULE NetworkProofs ---------------------------
(***************************************************************************)
(* What TLAPS proves of the two servers' connections: of ClientConn for any *)
(* senders, queue and batch size, of LoginLink for any number of            *)
(* connections, retries and packets under way, and of LoginServer for any   *)
(* clients, accounts, game servers and number of session keys.              *)
(***************************************************************************)
EXTENDS ClientConn, LoginLink, LoginServer, SequenceTheorems, TLAPS

-----------------------------------------------------------------------------
(* ClientConn: the stream to the client. *)

KeyPacket == <<"handler", 0>>
Frame == [packet : OutPackets, stage : Nat]

(* What the writer has framed carries the stages 0, 1, 2, ... on from what the
   socket was given, and the cipher stands at the next. *)
Stages ==
  /\ stage = Len(stream) + Len(batch)
  /\ \A i \in 1..Len(stream) : stream[i].stage = i - 1
  /\ \A i \in 1..Len(batch) : batch[i].stage = Len(stream) + i - 1

(* The oldest packet taken, wherever it is, is the key packet. *)
KeyFirst ==
  /\ Len(stream) > 0 => stream[1].packet = KeyPacket
  /\ Len(stream) = 0 /\ Len(batch) > 0 => batch[1].packet = KeyPacket
  /\ Len(stream) = 0 /\ Len(batch) = 0 /\ Len(queue) > 0 => queue[1] = KeyPacket

NothingTaken == Len(queue) = 0 /\ Len(batch) = 0 /\ Len(stream) = 0
(* Nothing is sent before the key packet, and that not before the cipher is
   enabled: the handler sends it before it reads on, everybody else waits for
   the login. *)
KeyStarts ==
  /\ handler = "hello" => ~enable
  /\ handler \in {"key", "read"} => enable
  /\ ~enable => NothingTaken
  /\ handler \in {"hello", "key"} => NothingTaken /\ sent["handler"] = 0
  /\ NothingTaken => ~login /\ handler # "read"

(* The batch stays within its limit in every phase of the writer. *)
BatchBounded ==
  /\ writer = "select" => Len(batch) = 0
  /\ Len(batch) <= MaxBatch

ConnInv == ConnTypeOK /\ Stages /\ KeyFirst /\ KeyStarts /\ BatchBounded

(* The sequences and their lengths. *)
LEMMA Shapes ==
  ConnTypeOK => /\ queue \in Seq(OutPackets) /\ batch \in Seq(Frame) /\ stream \in Seq(Frame)
                /\ Len(queue) \in Nat /\ Len(batch) \in Nat /\ Len(stream) \in Nat
<1> SUFFICES ASSUME ConnTypeOK
             PROVE  /\ queue \in Seq(OutPackets) /\ batch \in Seq(Frame) /\ stream \in Seq(Frame)
                    /\ Len(queue) \in Nat /\ Len(batch) \in Nat /\ Len(stream) \in Nat
  OBVIOUS
<1>1. queue \in Seq(OutPackets) /\ batch \in Seq(Frame) /\ stream \in Seq(Frame)
  BY DEF ConnTypeOK, Frame
<1> QED BY <1>1, LenProperties

LEMMA ConnInvInit == ConnInit => ConnInv
<1> SUFFICES ASSUME ConnInit PROVE ConnInv
  OBVIOUS
<1>1. Len(queue) = 0 /\ Len(batch) = 0 /\ Len(stream) = 0
  BY EmptySeq DEF ConnInit
<1>2. \A S : <<>> \in Seq(S)
  BY EmptySeq
<1>3. sent \in [All -> 0..(MaxSent + 1)]
  BY ConnAssumption DEF ConnInit
<1>4. ConnTypeOK
  <2>1. Len(queue) <= QueueCap /\ Len(batch) <= MaxBatch /\ stage \in Nat
    BY <1>1, ConnAssumption DEF ConnInit
  <2>2. /\ queue \in Seq(OutPackets) /\ batch \in Seq([packet : OutPackets, stage : Nat])
        /\ stream \in Seq([packet : OutPackets, stage : Nat])
    BY <1>2 DEF ConnInit
  <2>3. writer = "select" /\ handler = "hello" /\ state = "connected"
    BY DEF ConnInit
  <2>4. /\ done \in BOOLEAN /\ socket \in BOOLEAN /\ enable \in BOOLEAN
        /\ login \in BOOLEAN /\ closing \in BOOLEAN
    BY DEF ConnInit
  <2> QED BY <1>3, <2>1, <2>2, <2>3, <2>4 DEF ConnTypeOK, States
<1> QED BY <1>1, <1>4, ConnAssumption DEF ConnInit, ConnInv, Stages, KeyFirst, KeyStarts, NothingTaken, BatchBounded, All

LEMMA Enqueues ==
  ASSUME ConnInv, NEW s \in All, sent[s] <= MaxSent, Enqueue(s),
         NothingTaken => s = "handler" /\ sent[s] = 0,
         UNCHANGED <<socket, writeVars, enable, state, login>>,
         handler' \in {"key", "read", "off"}
  PROVE  /\ ConnTypeOK' /\ Stages' /\ KeyFirst' /\ BatchBounded'
         /\ Len(queue) < QueueCap => Len(queue') = Len(queue) + 1
         /\ Len(queue) >= QueueCap => queue' = queue
<1> USE ConnAssumption
<1>1. ConnTypeOK
  BY DEF ConnInv
<1>2. CASE Len(queue) < QueueCap
  <2>1. <<s, sent[s]>> \in OutPackets
    BY <1>1 DEF ConnTypeOK, OutPackets
  <2>2. queue' = Append(queue, <<s, sent[s]>>) /\ sent' = [sent EXCEPT ![s] = @ + 1]
    BY <1>2 DEF Enqueue
  <2>3. ConnTypeOK'
    <3>1. sent' \in [All -> 0..(MaxSent + 1)]
      BY <1>1, <2>2 DEF ConnTypeOK
    <3>2. queue' \in Seq(OutPackets) /\ Len(queue') <= QueueCap
      BY <1>1, <1>2, <2>1, <2>2 DEF ConnTypeOK
    <3> QED BY <1>1, <1>2, <3>1, <3>2 DEF ConnTypeOK, Enqueue, writeVars
  <2>4. queue' \in Seq(OutPackets) /\ Len(queue') = Len(queue) + 1
        /\ (Len(queue) > 0 => queue'[1] = queue[1])
        /\ (Len(queue) = 0 => queue'[1] = <<s, sent[s]>>)
    BY <1>1, <2>1, <2>2 DEF ConnTypeOK
  <2>5. Len(queue) \in Nat /\ Len(batch) \in Nat /\ Len(stream) \in Nat
    BY <1>1, Shapes
  <2>6. KeyFirst'
    BY <2>4, <2>5 DEF ConnInv, KeyFirst, KeyPacket, NothingTaken, writeVars
  <2> QED BY <1>2, <2>3, <2>4, <2>5, <2>6 DEF ConnInv, Stages, BatchBounded, writeVars
<1>3. CASE ~(Len(queue) < QueueCap)
  BY <1>1, <1>3 DEF Enqueue, BeginClose, ConnInv, ConnTypeOK, Stages, KeyFirst, BatchBounded, writeVars
<1> QED BY <1>1, <1>2, <1>3, Shapes

LEMMA Frames ==
  ASSUME ConnInv, queue # <<>>, Len(batch) < MaxBatch,
         queue' = Tail(queue), batch' = Framed(Head(queue)), Advance,
         writer' \in {"drain", "last"},
         UNCHANGED <<done, socket, closing, stream, readVars, sent>>
  PROVE  ConnInv'
<1> USE ConnAssumption
<1>1. ConnTypeOK
  BY DEF ConnInv
<1>0. Len(queue) \in Nat /\ Len(batch) \in Nat /\ Len(stream) \in Nat
  BY <1>1, Shapes
<1>2. enable /\ stage' = stage + 1
  <2>1. Len(queue) > 0
    BY <1>1 DEF ConnTypeOK
  <2> QED BY <2>1 DEF ConnInv, KeyStarts, NothingTaken, Advance
<1>3. /\ queue' \in Seq(OutPackets) /\ Len(queue') = Len(queue) - 1
      /\ Head(queue) \in OutPackets /\ Head(queue) = queue[1]
  BY <1>1 DEF ConnTypeOK
<1>4. /\ batch' \in Seq(Frame) /\ Len(batch') = Len(batch) + 1
      /\ \A i \in 1..Len(batch) : batch'[i] = batch[i]
      /\ batch'[Len(batch) + 1] = [packet |-> Head(queue), stage |-> stage]
  <2>1. [packet |-> Head(queue), stage |-> stage] \in Frame /\ batch \in Seq(Frame)
    BY <1>1, <1>3 DEF ConnTypeOK, Frame
  <2> QED BY <2>1, AppendProperties DEF Framed
<1>5. ConnTypeOK'
  BY <1>1, <1>2, <1>3, <1>4 DEF ConnTypeOK, Frame, readVars
<1>6. Stages'
  <2>1. batch'[Len(batch) + 1].stage = stage
    BY <1>4
  <2>2. \A i \in 1..Len(batch') : batch'[i].stage = Len(stream) + i - 1
    <3> TAKE i \in 1..Len(batch')
    <3>1. i \in 1..Len(batch) \/ i = Len(batch) + 1
      BY <1>0, <1>4
    <3>2. CASE i \in 1..Len(batch)
      BY <1>0, <1>4, <3>2 DEF ConnInv, Stages
    <3>3. CASE i = Len(batch) + 1
      BY <1>0, <2>1, <3>3 DEF ConnInv, Stages
    <3> QED BY <3>1, <3>2, <3>3
  <2>3. stream' = stream
    OBVIOUS
  <2>4. stage = Len(stream) + Len(batch) /\ \A i \in 1..Len(stream) : stream[i].stage = i - 1
    BY DEF ConnInv, Stages
  <2>5. stage' = Len(stream') + Len(batch')
    BY <1>0, <1>2, <1>4, <2>3, <2>4
  <2> QED BY <2>2, <2>3, <2>4, <2>5 DEF Stages
<1>7. KeyFirst'
  <2>1. batch'[Len(batch) + 1].packet = Head(queue)
    BY <1>4
  <2> QED BY <1>0, <1>3, <1>4, <2>1 DEF ConnInv, KeyFirst
<1>8. KeyStarts' /\ BatchBounded'
  BY <1>1, <1>2, <1>3, <1>4 DEF ConnInv, KeyStarts, BatchBounded, NothingTaken, ConnTypeOK, readVars
<1> QED BY <1>5, <1>6, <1>7, <1>8 DEF ConnInv

LEMMA Writes ==
  ASSUME ConnInv, NEW n \in 0..Len(batch), Write(n),
         writer' \in {"select", "fail", "off"}, writer' = "select" => n = Len(batch),
         UNCHANGED <<connVars, stage, readVars, sent>>
  PROVE  ConnInv'
<1> USE ConnAssumption
<1>1. ConnTypeOK
  BY DEF ConnInv
<1>2. /\ batch' \in Seq(Frame) /\ Len(batch') = Len(batch) - n
      /\ \A i \in 1..Len(batch') : batch'[i] = batch[n + i]
  <2>2. Len(batch) \in Nat /\ batch \in Seq(Frame)
    BY <1>1, Shapes
  <2>1. \A i \in n + 1 .. Len(batch) : batch[i] \in Frame
    BY <2>2, ElementOfSeq
  <2> QED BY <2>1, <2>2, SubSeqProperties DEF Write
<1>3. /\ stream' \in Seq(Frame) /\ Len(stream') = Len(stream) + n
      /\ \A i \in 1..Len(stream) : stream'[i] = stream[i]
      /\ \A i \in 1..n : stream'[Len(stream) + i] = batch[i]
  <2>2. Len(stream) \in Nat /\ Len(batch) \in Nat /\ batch \in Seq(Frame) /\ stream \in Seq(Frame)
    BY <1>1, Shapes
  <2>1. \A i \in 1 .. n : batch[i] \in Frame
    BY <2>2, ElementOfSeq
  <2>3. /\ SubSeq(batch, 1, n) \in Seq(Frame) /\ Len(SubSeq(batch, 1, n)) = n
        /\ \A i \in 1..n : SubSeq(batch, 1, n)[i] = batch[i]
    BY <2>1, <2>2, SubSeqProperties
  <2> DEFINE w == SubSeq(batch, 1, n)
  <2>4. stream' = stream \o w
    BY DEF Write
  <2>5. /\ w \in Seq(Frame) /\ Len(w) = n /\ \A i \in 1..n : w[i] = batch[i]
    BY <2>3
  <2> HIDE DEF w
  <2>6. /\ stream \o w \in Seq(Frame) /\ Len(stream \o w) = Len(stream) + n
        /\ \A i \in 1 .. Len(stream) + n :
             (stream \o w)[i] = IF i <= Len(stream) THEN stream[i] ELSE w[i - Len(stream)]
    BY ZenonT(60), <2>2, <2>5, ConcatProperties
  <2>7. \A i \in 1..n : stream'[Len(stream) + i] = batch[i]
    <3> TAKE i \in 1..n
    <3>1. Len(stream) + i \in 1 .. Len(stream) + n /\ ~(Len(stream) + i <= Len(stream))
          /\ Len(stream) + i - Len(stream) = i
      BY <2>2
    <3> QED BY <2>4, <2>5, <2>6, <3>1
  <2> QED BY <2>2, <2>4, <2>6, <2>7
<1>0. Len(queue) \in Nat /\ Len(batch) \in Nat /\ Len(stream) \in Nat
  BY <1>1, Shapes
<1>4. ConnTypeOK'
  <2>1. Len(batch') <= MaxBatch
    BY <1>0, <1>2 DEF ConnInv, BatchBounded
  <2>2. writer' \in {"select", "drain", "flush", "fail", "last", "ends", "off"}
    OBVIOUS
  <2>3. batch' \in Seq([packet : OutPackets, stage : Nat]) /\ stream' \in Seq([packet : OutPackets, stage : Nat])
    BY <1>2, <1>3 DEF Frame
  <2> QED BY <1>1, <2>1, <2>2, <2>3 DEF ConnTypeOK, readVars, connVars
<1>5. Stages'
  <2>1. \A i \in 1..Len(stream') : stream'[i].stage = i - 1
    <3> TAKE i \in 1..Len(stream')
    <3>1. CASE i <= Len(stream)
      <4>1. stream'[i] = stream[i] /\ i \in 1..Len(stream)
        BY <1>0, <1>3, <3>1
      <4> QED
        BY <4>1 DEF ConnInv, Stages
    <3>2. CASE i > Len(stream)
      <4>1. i - Len(stream) \in 1..n /\ i = Len(stream) + (i - Len(stream))
        BY <1>0, <1>3, <3>2
      <4>2. stream'[i] = batch[i - Len(stream)]
        BY <4>1, <1>3
      <4> QED BY <1>0, <4>1, <4>2 DEF ConnInv, Stages
    <3> QED BY <1>0, <1>3, <3>1, <3>2
  <2>2. \A i \in 1..Len(batch') : batch'[i].stage = Len(stream') + i - 1
    <3> TAKE i \in 1..Len(batch')
    <3>1. n + i \in 1..Len(batch) /\ batch'[i] = batch[n + i]
      BY <1>0, <1>2
    <3> QED BY <1>0, <1>3, <3>1 DEF ConnInv, Stages
  <2> QED BY <1>0, <1>2, <1>3, <2>1, <2>2 DEF ConnInv, Stages
<1>6. KeyFirst'
  <2>1. Len(stream) = 0 /\ n > 0 => stream'[1] = batch[1]
    <3> SUFFICES ASSUME Len(stream) = 0, n > 0 PROVE stream'[1] = batch[1]
      OBVIOUS
    <3>1. 1 \in 1..n /\ Len(stream) + 1 = 1
      OBVIOUS
    <3> QED BY <3>1, <1>3
  <2>2. Len(stream) > 0 => stream'[1] = stream[1]
    BY <1>0, <1>3
  <2>3. n = 0 => Len(batch') = Len(batch) /\ (Len(batch) > 0 => batch'[1] = batch[1])
    BY <1>0, <1>2
  <2> QED BY <1>0, <1>2, <1>3, <2>1, <2>2, <2>3 DEF ConnInv, KeyFirst, connVars
<1>7. KeyStarts' /\ BatchBounded'
  BY <1>0, <1>2, <1>3 DEF ConnInv, KeyStarts, BatchBounded, NothingTaken, readVars, connVars
<1> QED BY <1>4, <1>5, <1>6, <1>7 DEF ConnInv

(* Neither a send nor a write: what is queued, framed and written stays. *)
LEMMA SameStream ==
  ASSUME ConnInv, UNCHANGED <<queue, batch, stream, stage, sent>>,
         ConnTypeOK', KeyStarts', BatchBounded'
  PROVE  ConnInv'
  BY DEF ConnInv, Stages, KeyFirst

LEMMA WriterStep == ConnInv /\ Writing => ConnInv'
<1> SUFFICES ASSUME ConnInv, Writing PROVE ConnInv'
  OBVIOUS
<1> USE ConnAssumption
<1>1. ConnTypeOK
  BY DEF ConnInv
<1>2. CASE Take
  BY <1>1, <1>2, Frames DEF Take, ConnInv, BatchBounded, ConnTypeOK
<1>3. CASE Drain
  BY <1>1, <1>3, Frames DEF Drain, BatchRoom, ConnTypeOK
<1>4. CASE Flush
  <2>1. CASE Write(Len(batch)) /\ writer' = "select"
    BY <1>1, <1>4, <2>1, Writes DEF Flush, ConnTypeOK
  <2>2. CASE writer' = "fail" /\ \E n \in 0..Len(batch) : Write(n)
    BY <1>4, <2>2, Writes DEF Flush
  <2> QED BY <1>4, <2>1, <2>2 DEF Flush
<1>5. CASE LastFlush
  BY <1>5, Writes DEF LastFlush
<1>6. CASE SeeDone \/ Drained \/ WriterCloses
  <2>1. UNCHANGED <<queue, batch, stream, stage, sent, socket, enable, handler, state, login>>
        /\ writer' \in {"last", "flush", "ends", "off"}
        /\ (UNCHANGED <<done, closing>> \/ BeginClose)
    BY <1>6 DEF SeeDone, Drained, WriterCloses, connVars, readVars
  <2>2. ConnTypeOK'
    BY <1>1, <2>1 DEF ConnTypeOK, BeginClose
  <2>3. KeyStarts' /\ BatchBounded'
    BY <2>1 DEF ConnInv, KeyStarts, NothingTaken, BatchBounded
  <2> QED BY <2>1, <2>2, <2>3, SameStream
<1> QED BY <1>2, <1>3, <1>4, <1>5, <1>6 DEF Writing

LEMMA ConnInvNext == ConnInv /\ [ConnNext]_clientVars => ConnInv'
<1> SUFFICES ASSUME ConnInv, [ConnNext]_clientVars PROVE ConnInv'
  OBVIOUS
<1> USE ConnAssumption
<1>1. ConnTypeOK
  BY DEF ConnInv
<1>2. ASSUME NEW s \in Senders, Send(s) PROVE ConnInv'
  <2>1. s \in All /\ s # "handler" /\ login
    BY <1>2 DEF Send, All
  <2>2. ~NothingTaken
    BY <2>1 DEF ConnInv, KeyStarts
  <2>3. handler' \in {"read", "off"} /\ handler' = handler
    BY <1>1, <1>2, <2>2 DEF Send, readVars, ConnTypeOK, ConnInv, KeyStarts
  <2>4. /\ ConnTypeOK' /\ Stages' /\ KeyFirst' /\ BatchBounded'
        /\ Len(queue) < QueueCap => Len(queue') = Len(queue) + 1
        /\ Len(queue) >= QueueCap => queue' = queue
    BY <1>2, <2>1, <2>2, <2>3, Enqueues DEF Send, readVars
  <2>5. KeyStarts'
    BY <1>1, <1>2, <2>2, <2>3, <2>4 DEF Send, ConnInv, KeyStarts, NothingTaken, readVars, writeVars, ConnTypeOK
  <2> QED BY <2>4, <2>5 DEF ConnInv
<1>3. CASE SendKey
  <2>1. "handler" \in All /\ sent["handler"] = 0 /\ NothingTaken /\ enable
    BY <1>3 DEF SendKey, All, ConnInv, KeyStarts
  <2>2. handler' = "read" /\ Len(queue) < QueueCap
    BY <1>3, <2>1 DEF SendKey, NothingTaken
  <2>4. /\ ConnTypeOK' /\ Stages' /\ KeyFirst' /\ BatchBounded'
        /\ Len(queue) < QueueCap => Len(queue') = Len(queue) + 1
    BY <1>3, <2>1, <2>2, Enqueues DEF SendKey
  <2>5. KeyStarts'
    BY <1>1, <1>3, <2>1, <2>2, <2>4 DEF SendKey, KeyStarts, NothingTaken, writeVars
  <2> QED BY <2>4, <2>5 DEF ConnInv
<1>4. CASE Reply
  <2>1. "handler" \in All /\ ~NothingTaken /\ enable /\ handler' = "read"
    BY <1>4 DEF Reply, All, ConnInv, KeyStarts, readVars
  <2>4. /\ ConnTypeOK' /\ Stages' /\ KeyFirst' /\ BatchBounded'
        /\ Len(queue) < QueueCap => Len(queue') = Len(queue) + 1
        /\ Len(queue) >= QueueCap => queue' = queue
    BY <1>4, <2>1, Enqueues DEF Reply, readVars
  <2>5. KeyStarts'
    BY <1>1, <1>4, <2>1, <2>4 DEF Reply, ConnInv, KeyStarts, NothingTaken, readVars, writeVars, ConnTypeOK
  <2> QED BY <2>4, <2>5 DEF ConnInv
<1>5. CASE CloseSocket \/ HandlerReturned \/ Hello \/ HandlerReadFails \/ UNCHANGED clientVars
  <2>1. UNCHANGED <<queue, batch, stream, stage, sent, writer, state, login>>
        /\ (UNCHANGED <<done, closing, socket>> \/ BeginClose \/ CloseSocket)
    BY <1>5 DEF CloseSocket, HandlerReturned, Hello, HandlerReadFails, connVars, readVars, writeVars, clientVars
  <2>2. \/ UNCHANGED <<enable, handler>>
        \/ handler \in {"hello", "read"} /\ handler' = "off" /\ enable' = enable
        \/ handler = "hello" /\ handler' = "key" /\ enable' = TRUE
    BY <1>5 DEF CloseSocket, HandlerReturned, Hello, HandlerReadFails, connVars, readVars, writeVars, clientVars
  <2>3. ConnTypeOK'
    <3>1. done' \in BOOLEAN /\ closing' \in BOOLEAN /\ socket' \in BOOLEAN
      BY <1>1, <1>5 DEF CloseSocket, HandlerReturned, Hello, HandlerReadFails, BeginClose, connVars, clientVars,
         ConnTypeOK
    <3>2. enable' \in BOOLEAN /\ handler' \in {"hello", "key", "read", "off"}
      BY <1>1, <2>2 DEF ConnTypeOK
    <3> QED BY <1>1, <2>1, <3>1, <3>2 DEF ConnTypeOK
  <2>4. KeyStarts' /\ BatchBounded'
    BY <2>1, <2>2 DEF ConnInv, KeyStarts, NothingTaken, BatchBounded
  <2> QED BY <2>1, <2>3, <2>4, SameStream
<1>6. ASSUME NEW kind \in Kinds, NEW ok \in BOOLEAN, Read(kind, ok) PROVE ConnInv'
  <2>1. ConnTypeOK' /\ KeyStarts' /\ BatchBounded' /\ UNCHANGED <<queue, batch, stream, stage, sent>>
    BY <1>1, <1>6 DEF Read, Transition, States, ConnInv, ConnTypeOK, KeyStarts, NothingTaken, BatchBounded,
       connVars, writeVars
  <2> QED BY <2>1, SameStream
<1> QED BY <1>2, <1>3, <1>4, <1>5, <1>6, WriterStep DEF ConnNext

(* For every sender, queue and batch size, whatever a client has been written can
   be decrypted, with the key packet first, and queue and batch stay within
   their bounds (conn.go, gamecrypt.go). *)
THEOREM ConnectionsAreSound == ConnSpec => []ConnSound
<1>1. ConnInv => ConnSound
  BY Shapes DEF ConnInv, ConnSound, Stages, KeyFirst, KeyPacket, StreamDecodes
<1> QED BY <1>1, ConnInvInit, ConnInvNext, PTL DEF ConnSpec

-----------------------------------------------------------------------------
(* ClientConn implements FifoChannel. *)

LEMMA PacketsAre ==
  ASSUME NEW s \in Seq(Frame)
  PROVE  /\ PacketsOf(s) \in Seq(OutPackets)
         /\ Len(PacketsOf(s)) = Len(s)
         /\ \A i \in 1..Len(s) : PacketsOf(s)[i] = s[i].packet
<1>1. Len(s) \in Nat /\ \A i \in 1..Len(s) : s[i] \in Frame
  BY LenProperties, ElementOfSeq
<1>2. \A i \in 1..Len(s) : s[i].packet \in OutPackets
  BY <1>1 DEF Frame
<1>3. PacketsOf(s) \in [1..Len(s) -> OutPackets]
  BY <1>2 DEF PacketsOf
<1>4. PacketsOf(s) \in Seq(OutPackets)
  BY <1>1, <1>3, SeqDef
<1>5. DOMAIN PacketsOf(s) = 1..Len(s)
  BY DEF PacketsOf
<1>6. Len(PacketsOf(s)) = Len(s)
  BY <1>1, <1>4, <1>5, LenProperties
<1> QED BY <1>4, <1>6 DEF PacketsOf

LEMMA PacketsConcat ==
  ASSUME NEW s \in Seq(Frame), NEW t \in Seq(Frame)
  PROVE  PacketsOf(s \o t) = PacketsOf(s) \o PacketsOf(t)
<1>1. /\ s \o t \in Seq(Frame) /\ Len(s \o t) = Len(s) + Len(t)
      /\ \A i \in 1 .. Len(s) + Len(t) :
           (s \o t)[i] = IF i <= Len(s) THEN s[i] ELSE t[i - Len(s)]
  BY ConcatProperties
<1>2. /\ PacketsOf(s) \in Seq(OutPackets) /\ PacketsOf(t) \in Seq(OutPackets)
      /\ Len(PacketsOf(s)) = Len(s) /\ Len(PacketsOf(t)) = Len(t)
      /\ Len(s) \in Nat /\ Len(t) \in Nat
  BY PacketsAre, LenProperties
<1> DEFINE a == PacketsOf(s)
           b == PacketsOf(t)
           u == PacketsOf(s \o t)
           v == a \o b
<1> HIDE DEF a, b
<1>3. u \in Seq(OutPackets) /\ Len(u) = Len(s) + Len(t)
  BY <1>1, PacketsAre
<1>4. /\ v \in Seq(OutPackets) /\ Len(v) = Len(s) + Len(t)
      /\ \A i \in 1 .. Len(s) + Len(t) :
           v[i] = IF i <= Len(s) THEN a[i] ELSE b[i - Len(s)]
  <2>1. a \in Seq(OutPackets) /\ b \in Seq(OutPackets) /\ Len(a) = Len(s) /\ Len(b) = Len(t)
    BY <1>2 DEF a, b
  <2>2. /\ v \in Seq(OutPackets) /\ Len(v) = Len(a) + Len(b)
        /\ \A i \in 1 .. Len(a) + Len(b) : v[i] = IF i <= Len(a) THEN a[i] ELSE b[i - Len(a)]
    BY <2>1, ConcatProperties
  <2> HIDE DEF v
  <2> QED BY <2>1, <2>2
<1>5. ASSUME NEW i \in 1..Len(u) PROVE u[i] = v[i]
  <2>1. i \in 1 .. Len(s) + Len(t) /\ u[i] = (s \o t)[i].packet
    BY <1>1, <1>3, PacketsAre
  <2>2. CASE i <= Len(s)
    <3>1. i \in 1..Len(s)
      BY <1>2, <2>2
    <3> QED BY <1>1, <1>4, <2>1, <2>2, <3>1, PacketsAre DEF a
  <2>3. CASE ~(i <= Len(s))
    <3>1. i - Len(s) \in 1..Len(t)
      BY <1>2, <2>1, <2>3
    <3> QED BY <1>1, <1>4, <2>1, <2>3, <3>1, PacketsAre DEF b
  <2> QED BY <2>2, <2>3
<1> HIDE DEF u, v
<1>6. u = v
  BY <1>3, <1>4, <1>5, SeqEqual
<1> QED BY <1>6 DEF u, v, a, b

(* What the channel holds in flight. *)
Underway == PacketsOf(batch) \o queue
ChannelNext == (Len(Underway') > 0 /\ Channel!Put) \/ Channel!Deliver \/ Channel!Close
ChannelVars == <<Underway, PacketsOf(stream), ~done>>

LEMMA EnqueueIsPut ==
  ASSUME ConnInv, NEW s \in All, sent[s] <= MaxSent, Enqueue(s), UNCHANGED writeVars
  PROVE  ChannelNext
<1>1. ConnTypeOK
  BY DEF ConnInv
<1>2. /\ queue \in Seq(OutPackets) /\ PacketsOf(batch) \in Seq(OutPackets)
      /\ <<s, sent[s]>> \in OutPackets
  <2>1. <<s, sent[s]>> \in OutPackets
    BY <1>1, ConnAssumption DEF ConnTypeOK, OutPackets
  <2> QED BY <1>1, <2>1, Shapes, PacketsAre
<1>3. CASE Len(queue) < QueueCap
  <2> DEFINE p == <<s, sent[s]>>
  <2>1. queue' = Append(queue, p) /\ batch' = batch /\ stream' = stream /\ done' = done
    BY <1>3 DEF Enqueue, writeVars
  <2>2. <<p>> \in Seq(OutPackets) /\ p \in OutPackets
    BY <1>2
  <2> HIDE DEF p
  <2>3. Underway' = Append(Underway, p)
    <3>1. Underway' = PacketsOf(batch) \o (queue \o <<p>>)
      BY <1>2, <2>1, <2>2, AppendIsConcat DEF Underway, PacketsOf
    <3>2. Underway' = Underway \o <<p>>
      BY <1>2, <2>2, <3>1, ConcatAssociative DEF Underway
    <3>3. Underway \in Seq(OutPackets)
      BY <1>2, ConcatProperties DEF Underway
    <3> QED BY <2>2, <3>2, <3>3, AppendIsConcat
  <2>4. Underway \in Seq(OutPackets)
    BY <1>2, ConcatProperties DEF Underway
  <2>5. Len(Underway') = Len(Underway) + 1 /\ Len(Underway) \in Nat
        /\ Underway'[Len(Underway) + 1] = p
    BY <2>2, <2>3, <2>4, AppendProperties, LenProperties
  <2>6. Channel!Last(Underway') = p /\ Len(Underway') > 0
    BY <2>5 DEF Channel!Last
  <2>7. UNCHANGED <<PacketsOf(stream), ~done>>
    BY <2>1 DEF PacketsOf
  <2> QED BY <2>3, <2>6, <2>7 DEF ChannelNext, Channel!Put, Underway
<1>4. CASE ~(Len(queue) < QueueCap)
  <2>1. UNCHANGED <<queue, batch, stream>> /\ done' = TRUE
    BY <1>4 DEF Enqueue, BeginClose, writeVars
  <2> QED BY <2>1 DEF ChannelNext, Channel!Close, PacketsOf
<1> QED BY <1>3, <1>4

(* The writer takes packets out of the queue into its batch, in order. *)
LEMMA FrameStutters ==
  ASSUME ConnInv, queue # <<>>, queue' = Tail(queue), batch' = Framed(Head(queue)),
         UNCHANGED <<done, stream>>
  PROVE  UNCHANGED ChannelVars
<1>1. ConnTypeOK /\ stage \in Nat
  BY DEF ConnInv, ConnTypeOK
<1>2. /\ queue \in Seq(OutPackets) /\ batch \in Seq(Frame)
      /\ PacketsOf(batch) \in Seq(OutPackets)
  BY <1>1, Shapes, PacketsAre
<1> DEFINE h == Head(queue)
           t == Tail(queue)
           r == [packet |-> h, stage |-> stage]
<1>3. /\ h \in OutPackets /\ t \in Seq(OutPackets) /\ Len(t) = Len(queue) - 1
      /\ \A i \in 1..Len(t) : t[i] = queue[i + 1]
  BY <1>2, HeadTailProperties
<1>4. r \in Frame /\ r.packet = h
  BY <1>1, <1>3 DEF Frame
<1>5. PacketsOf(<<r>>) = <<h>>
  BY <1>4 DEF PacketsOf
<1>6. batch' = batch \o <<r>>
  BY <1>2, <1>4, AppendIsConcat DEF Framed
<1>7. queue = <<h>> \o t
  <2>1. Len(queue) \in Nat \ {0} /\ queue[1] = h
    BY <1>2, EmptySeq
  <2>2. <<h>> \in Seq(OutPackets) /\ Len(<<h>>) = 1 /\ <<h>>[1] = h
    BY <1>3
  <2> DEFINE g == <<h>>
  <2>3. g \in Seq(OutPackets) /\ Len(g) = 1 /\ g[1] = h
    BY <2>2
  <2> HIDE DEF g, h, t
  <2>4. /\ g \o t \in Seq(OutPackets) /\ Len(g \o t) = Len(queue)
        /\ \A i \in 1..Len(queue) : (g \o t)[i] = IF i <= 1 THEN g[i] ELSE t[i - 1]
    BY SMTT(30), <1>3, <2>1, <2>3, ConcatProperties
  <2>5. \A i \in 1..Len(queue) : queue[i] = (g \o t)[i]
    <3> TAKE i \in 1..Len(queue)
    <3>1. CASE i = 1
      BY <2>1, <2>3, <2>4, <3>1
    <3>2. CASE i # 1
      <4>1. i - 1 \in 1..Len(t) /\ ~(i <= 1) /\ (i - 1) + 1 = i
        BY <1>3, <2>1, <3>2
      <4> QED BY <1>3, <2>4, <4>1
    <3> QED BY <3>1, <3>2
  <2>6. queue = g \o t
    BY <1>2, <2>4, <2>5, SeqEqual
  <2> QED BY <2>6 DEF g
<1>8. Underway' = Underway
  <2>1. <<r>> \in Seq(Frame) /\ <<h>> \in Seq(OutPackets)
    BY <1>3, <1>4
  <2>2. PacketsOf(batch') = PacketsOf(batch) \o <<h>>
    BY <1>2, <1>5, <1>6, <2>1, PacketsConcat
  <2>3. Underway' = (PacketsOf(batch) \o <<h>>) \o t
    BY <2>2 DEF Underway, PacketsOf
  <2>4. Underway' = PacketsOf(batch) \o (<<h>> \o t)
    BY <1>2, <1>3, <2>1, <2>3, ConcatAssociative
  <2> QED BY <1>7, <2>4 DEF Underway
<1> QED BY <1>8 DEF ChannelVars, PacketsOf

(* A write hands over the oldest of what is under way. *)
LEMMA WriteDelivers ==
  ASSUME ConnInv, NEW n \in 0..Len(batch), Write(n), UNCHANGED connVars
  PROVE  Channel!Deliver
<1>1. ConnTypeOK
  BY DEF ConnInv
<1>2. /\ queue \in Seq(OutPackets) /\ batch \in Seq(Frame) /\ stream \in Seq(Frame)
      /\ Len(batch) \in Nat
  BY <1>1, Shapes
<1> DEFINE w == SubSeq(batch, 1, n)
           b == SubSeq(batch, n + 1, Len(batch))
<1>3. w \in Seq(Frame) /\ b \in Seq(Frame)
  <2>1. \A i \in 1..Len(batch) : batch[i] \in Frame
    BY <1>2, ElementOfSeq
  <2>2. (\A i \in 1..n : batch[i] \in Frame) /\ (\A i \in n + 1 .. Len(batch) : batch[i] \in Frame)
    BY <1>2, <2>1
  <2> QED BY <1>2, <2>2, SubSeqProperties
<1>4. w \o b = batch
  <2>1. 1 \in 1 .. Len(batch) + 1 /\ n \in 1 - 1 .. Len(batch) /\ Len(batch) \in n .. Len(batch)
    BY <1>2
  <2>2. SubSeq(batch, 1, n) \o SubSeq(batch, n + 1, Len(batch)) = SubSeq(batch, 1, Len(batch))
    BY <1>2, <2>1, ConcatAdjacentSubSeq
  <2> QED BY <1>2, <2>2, SubSeqFull
<1>5. stream' = stream \o w /\ batch' = b /\ queue' = queue /\ done' = done
  BY DEF Write, connVars
<1> HIDE DEF w, b
<1> DEFINE D == PacketsOf(stream)
           W == PacketsOf(w)
           B == PacketsOf(b)
<1>6. D \in Seq(OutPackets) /\ W \in Seq(OutPackets) /\ B \in Seq(OutPackets)
  BY <1>2, <1>3, PacketsAre
<1>7. PacketsOf(stream') = D \o W /\ PacketsOf(batch') = B /\ PacketsOf(batch) = W \o B
  BY <1>2, <1>3, <1>4, <1>5, PacketsConcat
<1>8. PacketsOf(stream)' = D \o W /\ (PacketsOf(batch) \o queue)' = B \o queue
  BY <1>5, <1>7 DEF PacketsOf
<1> HIDE DEF D, W, B
<1>9. D \o ((W \o B) \o queue) = (D \o W) \o (B \o queue)
  <2>1. (W \o B) \o queue = W \o (B \o queue)
    BY SMTT(30), <1>2, <1>6, ConcatAssociative
  <2> DEFINE X == B \o queue
  <2>2. X \in Seq(OutPackets)
    BY <1>2, <1>6, ConcatProperties
  <2> HIDE DEF X
  <2>3. (D \o W) \o X = D \o (W \o X)
    BY SMTT(30), <1>6, <2>2, ConcatAssociative
  <2> QED BY <2>1, <2>3 DEF X
<1>10. Channel!IsPrefix(D, D \o W)
  <2>1. Len(D) \in Nat /\ Len(W) \in Nat /\ Len(D \o W) = Len(D) + Len(W)
    BY <1>6, LenProperties, ConcatProperties
  <2>2. CASE Len(D) = 0
    BY <2>1, <2>2, SubSeqEmpty DEF Channel!IsPrefix
  <2>3. CASE Len(D) > 0
    <3>1. 1 \in 1..Len(D) /\ Len(D) \in 1..Len(D)
      BY <2>1, <2>3
    <3>2. SubSeq(D \o W, 1, Len(D)) = SubSeq(D, 1, Len(D))
      BY <1>6, <3>1, SubSeqOfConcat1
    <3> QED BY <2>1, <3>2 DEF Channel!IsPrefix
  <2> QED BY <2>1, <2>2, <2>3
<1>11. /\ Channel!IsPrefix(PacketsOf(stream), PacketsOf(stream)')
       /\ PacketsOf(stream) \o (PacketsOf(batch) \o queue)
           = PacketsOf(stream)' \o (PacketsOf(batch) \o queue)'
  BY <1>7, <1>8, <1>9, <1>10 DEF D
<1>12. UNCHANGED (~done)
  BY <1>5
<1> QED BY <1>11, <1>12 DEF Channel!Deliver

LEMMA ConnStepsAreChannelSteps ==
  ConnInv /\ [ConnNext]_clientVars => [ChannelNext]_ChannelVars
<1> SUFFICES ASSUME ConnInv, [ConnNext]_clientVars PROVE [ChannelNext]_ChannelVars
  OBVIOUS
<1>1. ConnTypeOK
  BY DEF ConnInv
<1>2. ASSUME NEW s \in Senders, Send(s) PROVE ChannelNext
  BY <1>2, EnqueueIsPut DEF Send, All
<1>3. CASE SendKey
  <2>1. "handler" \in All /\ sent["handler"] <= MaxSent
    BY <1>3, ConnAssumption DEF SendKey, ConnInv, KeyStarts, All
  <2> QED BY <1>3, <2>1, EnqueueIsPut DEF SendKey
<1>4. CASE Reply
  BY <1>4, EnqueueIsPut DEF Reply, All
<1>5. CASE Take \/ Drain
  <2>1. UNCHANGED ChannelVars
    BY <1>5, FrameStutters DEF Take, Drain
  <2> QED BY <2>1
<1>6. CASE Flush
  <2>1. PICK n \in 0..Len(batch) : Write(n) /\ UNCHANGED connVars
    BY <1>1, <1>6, Shapes DEF Flush
  <2> QED BY <2>1, WriteDelivers DEF ChannelNext
<1>7. CASE LastFlush
  BY <1>7, WriteDelivers DEF LastFlush, ChannelNext
<1>8. CASE WriterCloses \/ HandlerReturned
  <2>1. UNCHANGED <<queue, batch, stream>> /\ done' = TRUE
    BY <1>8 DEF WriterCloses, HandlerReturned, BeginClose, writeVars
  <2> QED BY <2>1 DEF ChannelNext, Channel!Close, PacketsOf
<1>9. ASSUME UNCHANGED <<queue, done, batch, stream>> PROVE [ChannelNext]_ChannelVars
  BY <1>9 DEF ChannelVars, Underway, PacketsOf
<1>10. CASE SeeDone \/ Drained \/ CloseSocket \/ Hello \/ HandlerReadFails \/ UNCHANGED clientVars
  BY <1>9, <1>10 DEF SeeDone, Drained, CloseSocket, Hello, HandlerReadFails, clientVars, connVars, writeVars
<1>11. ASSUME NEW kind \in Kinds, NEW ok \in BOOLEAN, Read(kind, ok) PROVE [ChannelNext]_ChannelVars
  BY <1>9, <1>11 DEF Read, connVars, writeVars
<1> QED BY <1>2, <1>3, <1>4, <1>5, <1>6, <1>7, <1>8, <1>10, <1>11 DEF ConnNext, Writing

(* A connection is a first-in first-out channel, however many senders race, the
   writer batches and the connection fails: no packet is lost out of the middle,
   reordered or written twice (writeLoop, drainInto, flush). *)
THEOREM ConnectionsAreChannels == ConnSpec => FifoDelivery
<1>1. ConnInit => Channel!Init
  <2> SUFFICES ASSUME ConnInit PROVE Channel!Init
    OBVIOUS
  <2>1. PacketsOf(<<>>) = <<>>
    BY DEF PacketsOf
  <2>2. <<>> \o <<>> = <<>>
    BY EmptySeq, ConcatEmptySeq
  <2> QED BY <2>1, <2>2 DEF ConnInit, Channel!Init
<1>2. ConnInv /\ [ConnNext]_clientVars => [ChannelNext]_ChannelVars
  BY ConnStepsAreChannelSteps
<1> QED BY <1>1, <1>2, ConnInvInit, ConnInvNext, PTL
        DEF ConnSpec, FifoDelivery, Channel!Spec, ChannelNext, ChannelVars, Underway

-----------------------------------------------------------------------------
(* LoginLink: the link to the login server. *)

PacketsIn(s) == {s[i] : i \in 1..Len(s)}

LEMMA PacketsOfAppend ==
  ASSUME NEW S, NEW s \in Seq(S), NEW e \in S
  PROVE  PacketsIn(Append(s, e)) = PacketsIn(s) \cup {e}
<1> DEFINE t == Append(s, e)
<1>1. /\ Len(t) = Len(s) + 1 /\ Len(s) \in Nat
      /\ \A i \in 1..Len(s) : t[i] = s[i]
      /\ t[Len(s) + 1] = e
  BY AppendProperties, LenProperties
<1> HIDE DEF t
<1>2. \A i \in 1..Len(t) : i \in 1..Len(s) \/ i = Len(s) + 1
  BY <1>1
<1>3. Len(s) + 1 \in 1..Len(t) /\ \A i \in 1..Len(s) : i \in 1..Len(t)
  BY <1>1
<1>4. PacketsIn(t) = PacketsIn(s) \cup {e}
  BY <1>1, <1>2, <1>3 DEF PacketsIn
<1> QED BY <1>4 DEF t

LEMMA PacketsOfTail ==
  ASSUME NEW S, NEW s \in Seq(S), s # <<>>
  PROVE  /\ Head(s) \in PacketsIn(s) /\ Head(s) \in S
         /\ PacketsIn(Tail(s)) \subseteq PacketsIn(s)
<1>1. Len(s) \in Nat \ {0} /\ Head(s) = s[1]
  BY EmptySeq
<1> DEFINE t == Tail(s)
<1>2. Head(s) \in S /\ Len(t) = Len(s) - 1 /\ \A i \in 1..Len(t) : t[i] = s[i + 1]
  BY HeadTailProperties
<1> HIDE DEF t
<1>3. \A i \in 1..Len(t) : i + 1 \in 1..Len(s)
  BY <1>1, <1>2
<1>4. PacketsIn(t) \subseteq PacketsIn(s)
  BY <1>2, <1>3 DEF PacketsIn
<1>5. Head(s) \in PacketsIn(s)
  BY <1>1 DEF PacketsIn
<1> QED BY <1>2, <1>4, <1>5 DEF t

(* The inductive invariant, in the parts its argument has. *)
LinkTypes ==
  /\ LinkTypeOK
  /\ pc["startup"] = "dial" => attempts < MaxRetries
  /\ toLS \in [Conns -> Seq(Packets(ToLSKinds))]
  /\ toGS \in [Conns -> Seq(Packets(ToGSKinds))]

(* While the link is down, at most one goroutine is after it: a reader in the
   callback of a lost connection or a dialler; while it is up, none is. *)
AtWork  == {"told", "ask", "spawn"}
Dialing == {"wait", "dial"}
OneAtWork ==
  /\ \A c \in Conns : reader[c] \in AtWork => ~connected
  /\ \A d \in Dialers : pc[d] \in Dialing => ~connected
  /\ \A c \in Conns, d \in Dialers : ~(reader[c] \in AtWork /\ pc[d] \in Dialing)
  /\ \A c, e \in Conns : reader[c] \in AtWork /\ reader[e] \in AtWork => c = e
  /\ \A d, e \in Dialers : pc[d] \in Dialing /\ pc[e] \in Dialing => d = e

HandlerHolds ==
  /\ connected => conn \in 1..made
  /\ ~connected => conn = 0
  /\ OneReader

(* A connection not made yet is as it was at the start. *)
Unmade ==
  \A c \in Conns : c > made =>
    /\ reader[c] = "none" /\ gsKey[c] = "static" /\ lsKey[c] = "static" /\ ~lsAuthed[c]
    /\ toLS[c] = <<>> /\ toGS[c] = <<>>

(* A delayed AuthRequest is for the connection in use, if there is one, and on one
   whose key is not yet switched it cannot be sent. *)
TimersHeld ==
  /\ connected => authTimers \subseteq {conn}
  /\ \A d \in Dialers : pc[d] = "dial" => authTimers = {}
  /\ \A c \in authTimers : reader[c] = "switch" \/ gsKey[c] = "dynamic" \/ ~up[c]

(* AuthRequest travels under the dynamic key, so a login server that has
   authenticated the connection has both keys switched; only InitLS is static. *)
Authentic ==
  \A c \in Conns :
    /\ \A p \in PacketsIn(toLS[c]) :
         p.kind = "AuthRequest" => p.key = "dynamic" /\ gsKey[c] = "dynamic"
    /\ lsAuthed[c] => gsKey[c] = "dynamic" /\ lsKey[c] = "dynamic"
    /\ \A p \in PacketsIn(toGS[c]) : /\ p.kind = "InitLS" => p.key = "static"
                                     /\ p.kind = "AuthResponse" => lsAuthed[c]

(* What a reader finds is under its key: InitLS alone before the switch, nothing
   during it, dynamic packets after it. *)
KeysMeet ==
  \A c \in Conns :
    /\ gsKey[c] = "dynamic" => \A p \in PacketsIn(toGS[c]) : p.key = "dynamic"
    /\ reader[c] = "switch" => gsKey[c] = "static" /\ toGS[c] = <<>>
    /\ gsKey[c] = "static" /\ reader[c] \in {"loop", "recv"} =>
         toGS[c] = <<[kind |-> "InitLS", key |-> "static"]>>

LinkInv ==
  /\ LinkTypes /\ OneAtWork /\ HandlerHolds /\ Unmade /\ TimersHeld /\ Authentic /\ KeysMeet
  /\ AuthenticatedIsTrue /\ ReconnectingIsTrue

LEMMA LinkInvInit == LinkInit => LinkInv
<1> SUFFICES ASSUME LinkInit PROVE LinkInv
  OBVIOUS
<1> USE LinkAssumption DEF LinkInit
<1>1. \A S : <<>> \in Seq(S) /\ PacketsIn(<<>>) = {}
  BY EmptySeq DEF PacketsIn
<1>2. LinkTypes
  <2>1. /\ toLS \in [Conns -> Seq(Packets(ToLSKinds))]
        /\ toGS \in [Conns -> Seq(Packets(ToGSKinds))]
    BY <1>1
  <2>2. /\ reader \in [Conns -> {"none", "loop", "recv", "switch", "defer", "told", "ask", "spawn", "off"}]
        /\ gsKey \in [Conns -> Keys] /\ lsKey \in [Conns -> Keys]
        /\ up \in [Conns -> BOOLEAN] /\ lsAuthed \in [Conns -> BOOLEAN]
    BY DEF Keys
  <2>3. pc \in [Dialers -> {"wait", "dial", "flag", "settle", "off"}]
    OBVIOUS
  <2>4. connected \in BOOLEAN /\ conn \in 0..MaxConns /\ made \in 0..MaxConns /\ attempts \in 0..MaxRetries
    <3>1. connected = FALSE /\ conn = 0 /\ made = 0 /\ attempts = 0
      OBVIOUS
    <3>2. 0 \in 0..MaxConns /\ 0 \in 0..MaxRetries
      OBVIOUS
    <3> QED BY <3>1, <3>2
  <2>7. attempts < MaxRetries
    OBVIOUS
  <2>5. connectedToLS \in BOOLEAN /\ authenticatedLS \in BOOLEAN /\ isReconnecting \in BOOLEAN
    OBVIOUS
  <2>6. authTimers \subseteq Conns /\ listed \subseteq Conns
    OBVIOUS
  <2> QED BY <2>1, <2>2, <2>3, <2>4, <2>5, <2>6, <2>7 DEF LinkTypes, LinkTypeOK
<1>3. OneAtWork /\ HandlerHolds /\ TimersHeld
  BY DEF OneAtWork, HandlerHolds, OneReader, TimersHeld, AtWork, Dialing, Dialers
<1>4. Unmade /\ Authentic /\ KeysMeet
  BY <1>1 DEF Unmade, Authentic, KeysMeet
<1>5. AuthenticatedIsTrue /\ ReconnectingIsTrue
  BY DEF AuthenticatedIsTrue, ReconnectingIsTrue
<1> QED BY <1>2, <1>3, <1>4, <1>5 DEF LinkInv

LEMMA SendsTyped ==
  ASSUME LinkInv, NEW kind \in ToLSKinds, SendPacket(kind)
  PROVE  /\ toLS' \in [Conns -> Seq(Packets(ToLSKinds))]
         /\ \A c \in Conns :
              \/ toLS'[c] = toLS[c]
              \/ /\ c = conn /\ connected /\ up[c]
                 /\ PacketsIn(toLS'[c]) = PacketsIn(toLS[c]) \cup {[kind |-> kind, key |-> gsKey[c]]}
         /\ \A c \in Conns : c > made => toLS'[c] = toLS[c]
<1>1. LinkTypes /\ HandlerHolds
  BY DEF LinkInv
<1>2. CASE Sendable
  <2>1. conn \in Conns /\ connected /\ up[conn] /\ ~(conn > made)
    BY <1>1, <1>2 DEF HandlerHolds, Sendable, LinkTypes, LinkTypeOK, Conns
  <2> DEFINE p == [kind |-> kind, key |-> gsKey[conn]]
  <2>2. p \in Packets(ToLSKinds)
    BY <1>1, <2>1 DEF Packets, LinkTypes, LinkTypeOK
  <2>3. toLS' = [toLS EXCEPT ![conn] = Append(toLS[conn], p)]
    BY <1>2 DEF SendPacket
  <2> HIDE DEF p
  <2>4. toLS[conn] \in Seq(Packets(ToLSKinds))
    BY <1>1, <2>1 DEF LinkTypes
  <2>5. Append(toLS[conn], p) \in Seq(Packets(ToLSKinds))
        /\ PacketsIn(Append(toLS[conn], p)) = PacketsIn(toLS[conn]) \cup {p}
    BY <2>2, <2>4, AppendProperties, PacketsOfAppend
  <2>6. toLS' \in [Conns -> Seq(Packets(ToLSKinds))] /\ \A c \in Conns \ {conn} : toLS'[c] = toLS[c]
    BY <1>1, <2>3, <2>5 DEF LinkTypes
  <2>7. PacketsIn(toLS'[conn]) = PacketsIn(toLS[conn]) \cup {p}
    BY <1>1, <2>1, <2>3, <2>5 DEF LinkTypes
  <2> QED BY <2>1, <2>6, <2>7 DEF p
<1>3. CASE ~Sendable
  BY <1>1, <1>3 DEF SendPacket, LinkTypes
<1> QED BY <1>2, <1>3

LEMMA LSSendsTyped ==
  ASSUME LinkInv, NEW c \in Conns, NEW kind \in ToGSKinds, LSSends(c, kind)
  PROVE  /\ toGS' \in [Conns -> Seq(Packets(ToGSKinds))]
         /\ \A e \in Conns \ {c} : toGS'[e] = toGS[e]
         /\ PacketsIn(toGS'[c]) = PacketsIn(toGS[c]) \cup {[kind |-> kind, key |-> lsKey[c]]}
<1>1. LinkTypes
  BY DEF LinkInv
<1> DEFINE p == [kind |-> kind, key |-> lsKey[c]]
<1>2. p \in Packets(ToGSKinds) /\ toGS[c] \in Seq(Packets(ToGSKinds))
  BY <1>1 DEF Packets, LinkTypes, LinkTypeOK
<1>3. toGS' = [toGS EXCEPT ![c] = Append(toGS[c], p)]
  BY DEF LSSends
<1> HIDE DEF p
<1>4. /\ Append(toGS[c], p) \in Seq(Packets(ToGSKinds))
      /\ PacketsIn(Append(toGS[c], p)) = PacketsIn(toGS[c]) \cup {p}
  BY <1>2, AppendProperties, PacketsOfAppend
<1>5. toGS' \in [Conns -> Seq(Packets(ToGSKinds))] /\ \A e \in Conns \ {c} : toGS'[e] = toGS[e]
  BY <1>1, <1>3, <1>4 DEF LinkTypes
<1>6. toGS'[c] = Append(toGS[c], p)
  BY <1>1, <1>3 DEF LinkTypes
<1> QED BY <1>4, <1>5, <1>6 DEF p

(* What starting a reconnector does. *)
LEMMA Spawns ==
  ASSUME NEW pcs \in [Dialers -> {"wait", "dial", "flag", "settle", "off"}], Spawn(pcs)
  PROVE  /\ isReconnecting' = TRUE
         /\ pc' \in [Dialers -> {"wait", "dial", "flag", "settle", "off"}]
         /\ \E r \in Recons : /\ pcs[r] = "off" /\ pc'[r] = "wait"
                              /\ \A d \in Dialers \ {r} : pc'[d] = pcs[d]
  BY DEF Spawn, Dialers

(* The steps of diallers leave the keys and the streams alone, save for the one
   that makes a connection. *)
DialStep == \E d \in Dialers : DialFails(d) \/ Flag(d) \/ Settle(d) \/ (d \in Recons /\ Tick(d))

LEMMA DialStepPc ==
  ASSUME LinkInv, DialStep
  PROVE  /\ pc' \in [Dialers -> {"wait", "dial", "flag", "settle", "off"}]
         /\ attempts' \in 0..MaxRetries /\ (pc'["startup"] = "dial" => attempts' < MaxRetries)
         /\ isReconnecting' \in BOOLEAN /\ connectedToLS' \in BOOLEAN
         /\ \A d, e \in Dialers : pc'[d] \in Dialing /\ pc'[e] \in Dialing => d = e
         /\ \A d \in Dialers : pc'[d] \in Dialing => \E e \in Dialers : pc[e] \in Dialing
         /\ \A d \in Dialers : pc'[d] = "dial" => authTimers = {}
         /\ isReconnecting' => \E r \in Recons : pc'[r] # "off"
<1> USE LinkAssumption
<1>1. LinkTypes /\ OneAtWork /\ TimersHeld /\ ReconnectingIsTrue
  BY DEF LinkInv
<1>2. /\ pc \in [Dialers -> {"wait", "dial", "flag", "settle", "off"}] /\ attempts \in 0..MaxRetries
      /\ isReconnecting \in BOOLEAN /\ connectedToLS \in BOOLEAN
      /\ (pc["startup"] = "dial" => attempts < MaxRetries)
      /\ \A r \in Recons : r \in Dialers /\ r # "startup"
      /\ "startup" \in Dialers
  BY <1>1 DEF LinkTypes, LinkTypeOK, Dialers
<1>3. \A d, e \in Dialers : pc[d] \in Dialing /\ pc[e] \in Dialing => d = e
  BY <1>1 DEF OneAtWork
<1>4. \A d \in Dialers : pc[d] = "dial" => authTimers = {}
  BY <1>1 DEF TimersHeld
<1>5. isReconnecting => \E r \in Recons : pc[r] # "off"
  BY <1>1 DEF ReconnectingIsTrue
<1>6. ASSUME NEW d \in Dialers, DialFails(d), ~(d = "startup" /\ attempts' = MaxRetries)
      PROVE  /\ pc' = pc \/ (d # "startup" /\ pc' = [pc EXCEPT ![d] = "wait"])
             /\ attempts' \in 0..MaxRetries /\ (d = "startup" => attempts' < MaxRetries)
             /\ (d # "startup" => attempts' = attempts)
             /\ pc[d] = "dial" /\ isReconnecting' = isReconnecting /\ connectedToLS' = connectedToLS
  <2>1. CASE d = "startup"
    <3>1. attempts' = attempts + 1 /\ attempts < MaxRetries
      BY <1>2, <1>6, <2>1 DEF DialFails
    <3>2. attempts' \in 0..MaxRetries /\ attempts' < MaxRetries
      BY <1>2, <1>6, <2>1, <3>1
    <3> QED BY <1>6, <2>1, <3>2 DEF DialFails
  <2>2. CASE d # "startup"
    BY <1>2, <1>6, <2>2 DEF DialFails
  <2> QED BY <2>1, <2>2
<1>7. ASSUME NEW d \in Dialers, DialFails(d), d = "startup", attempts' = MaxRetries
      PROVE  /\ isReconnecting' = TRUE /\ connectedToLS' = connectedToLS /\ pc[d] = "dial"
             /\ attempts' \in 0..MaxRetries
             /\ \E r \in Recons \ {d} :
                  /\ pc[r] = "off" /\ pc'[d] = "off" /\ pc'[r] = "wait"
                  /\ pc' \in [Dialers -> {"wait", "dial", "flag", "settle", "off"}]
                  /\ \A e \in Dialers \ {d, r} : pc'[e] = pc[e]
  <2>1. Spawn([pc EXCEPT ![d] = "off"]) /\ connectedToLS' = connectedToLS /\ pc[d] = "dial"
    BY <1>7 DEF DialFails
  <2>2. PICK r \in Recons : /\ [pc EXCEPT ![d] = "off"][r] = "off"
                            /\ pc' = [[pc EXCEPT ![d] = "off"] EXCEPT ![r] = "wait"]
    BY <2>1 DEF Spawn
  <2>3. r # d /\ pc[r] = "off"
    BY <1>2, <1>7, <2>2
  <2>4. isReconnecting' = TRUE /\ attempts' \in 0..MaxRetries
    BY <1>7, <2>1 DEF Spawn
  <2>5. pc'[d] = "off" /\ pc'[r] = "wait" /\ r \in Recons \ {d}
        /\ pc' \in [Dialers -> {"wait", "dial", "flag", "settle", "off"}]
        /\ \A e \in Dialers \ {d, r} : pc'[e] = pc[e]
    BY <1>2, <2>2, <2>3
  <2> QED BY <2>1, <2>3, <2>4, <2>5
<1>8. ASSUME NEW d \in Dialers, Flag(d) \/ Settle(d) \/ (d \in Recons /\ Tick(d))
      PROVE  /\ \/ pc[d] = "flag" /\ pc' = [pc EXCEPT ![d] = "settle"] /\ UNCHANGED <<isReconnecting, attempts>>
                                  /\ connectedToLS' = TRUE
                \/ /\ pc[d] = "settle" /\ pc' = [pc EXCEPT ![d] = "off"] /\ isReconnecting' = FALSE
                   /\ attempts' = 0 /\ connectedToLS' = connectedToLS
                \/ /\ pc[d] = "wait" /\ authTimers = {} /\ d \in Recons
                   /\ pc' = [pc EXCEPT ![d] = "settle"] \/ pc' = [pc EXCEPT ![d] = "dial"]
                   /\ UNCHANGED <<isReconnecting, attempts, connectedToLS>>
  BY <1>8 DEF Flag, Settle, Tick
<1>9. PICK d \in Dialers : DialFails(d) \/ Flag(d) \/ Settle(d) \/ (d \in Recons /\ Tick(d))
  BY DEF DialStep
<1>10. CASE DialFails(d) /\ ~(d = "startup" /\ attempts' = MaxRetries)
  BY <1>2, <1>3, <1>4, <1>5, <1>6, <1>10 DEF Dialing
<1>11. CASE DialFails(d) /\ d = "startup" /\ attempts' = MaxRetries
  <2>1. PICK r \in Recons \ {d} :
             /\ pc[r] = "off" /\ pc'[d] = "off" /\ pc'[r] = "wait"
             /\ pc' \in [Dialers -> {"wait", "dial", "flag", "settle", "off"}]
             /\ \A e \in Dialers \ {d, r} : pc'[e] = pc[e]
    BY <1>7, <1>11
  <2>2. pc[d] = "dial" /\ isReconnecting' = TRUE /\ connectedToLS' = connectedToLS
        /\ attempts' \in 0..MaxRetries
    BY <1>7, <1>11
  <2>3. \A e \in Dialers : pc'[e] \in Dialing => e = r
    BY <1>2, <1>3, <2>1, <2>2 DEF Dialing
  <2> QED BY <1>2, <1>11, <2>1, <2>2, <2>3 DEF Dialing
<1>12. CASE Flag(d) \/ Settle(d) \/ (d \in Recons /\ Tick(d))
  <2>1. CASE pc[d] = "flag" /\ pc' = [pc EXCEPT ![d] = "settle"] /\ UNCHANGED <<isReconnecting, attempts>>
                /\ connectedToLS' = TRUE
    BY <1>2, <1>3, <1>4, <1>5, <2>1 DEF Dialing
  <2>2. CASE /\ pc[d] = "settle" /\ pc' = [pc EXCEPT ![d] = "off"] /\ isReconnecting' = FALSE
             /\ attempts' = 0 /\ connectedToLS' = connectedToLS
    <3>1. /\ pc' \in [Dialers -> {"wait", "dial", "flag", "settle", "off"}]
          /\ \A e \in Dialers : pc'[e] \in Dialing \/ pc'[e] = "dial" => pc[e] = pc'[e]
      BY <1>2, <2>2 DEF Dialing
    <3>2. attempts' \in 0..MaxRetries /\ attempts' < MaxRetries
      BY <2>2
    <3>3. isReconnecting' \in BOOLEAN /\ connectedToLS' \in BOOLEAN
      BY <1>2, <2>2
    <3> QED BY <1>2, <1>3, <1>4, <2>2, <3>1, <3>2, <3>3
  <2>3. CASE /\ pc[d] = "wait" /\ authTimers = {} /\ d \in Recons
             /\ pc' = [pc EXCEPT ![d] = "settle"] \/ pc' = [pc EXCEPT ![d] = "dial"]
             /\ UNCHANGED <<isReconnecting, attempts, connectedToLS>>
    <3>1. /\ pc' \in [Dialers -> {"wait", "dial", "flag", "settle", "off"}]
          /\ \A e \in Dialers \ {d} : pc'[e] = pc[e]
          /\ pc'[d] # "off"
      BY <1>2, <2>3
    <3>2. \A e \in Dialers : pc'[e] \in Dialing => pc[e] \in Dialing
      BY <2>3, <3>1 DEF Dialing
    <3>3. d # "startup" /\ pc'["startup"] = pc["startup"]
      BY <1>2, <2>3, <3>1
    <3> QED BY <1>2, <1>3, <1>5, <2>3, <3>1, <3>2, <3>3
  <2> QED BY <1>8, <1>12, <2>1, <2>2, <2>3
<1> QED BY <1>9, <1>10, <1>11, <1>12

LEMMA DiallingKeeps == LinkInv /\ DialStep => LinkInv'
<1> SUFFICES ASSUME LinkInv, DialStep PROVE LinkInv'
  OBVIOUS
<1>1. UNCHANGED <<connected, conn, made, reader, gsKey, authenticatedLS, authTimers, lsKey, lsAuthed, listed,
                  up, toLS, toGS>>
  BY DEF DialStep, DialFails, Flag, Settle, Tick, lsVars, lsConn, wire
<1>2. LinkTypes'
  BY <1>1, DialStepPc DEF LinkInv, LinkTypes, LinkTypeOK
<1>3. OneAtWork' /\ TimersHeld' /\ ReconnectingIsTrue'
  BY <1>1, DialStepPc DEF LinkInv, OneAtWork, TimersHeld, ReconnectingIsTrue
<1>4. HandlerHolds' /\ Unmade' /\ Authentic' /\ KeysMeet' /\ AuthenticatedIsTrue'
  BY <1>1 DEF LinkInv, HandlerHolds, OneReader, Unmade, Authentic, KeysMeet, AuthenticatedIsTrue
<1> QED BY <1>2, <1>3, <1>4 DEF LinkInv

LEMMA ConnectingKeeps == \A d \in Dialers : LinkInv /\ DialSucceeds(d) => LinkInv'
<1> SUFFICES ASSUME NEW d \in Dialers, LinkInv, DialSucceeds(d) PROVE LinkInv'
  OBVIOUS
<1> USE LinkAssumption
<1>1. LinkTypes /\ OneAtWork /\ HandlerHolds /\ Unmade /\ TimersHeld /\ Authentic /\ KeysMeet
      /\ AuthenticatedIsTrue /\ ReconnectingIsTrue
  BY DEF LinkInv
<1> DEFINE c == made + 1
           p == [kind |-> "InitLS", key |-> "static"]
<1>2. c \in Conns /\ c > made /\ c # 0 /\ made \in Nat
  BY <1>1 DEF DialSucceeds, LinkTypes, LinkTypeOK, Conns
<1>3. reader[c] = "none" /\ gsKey[c] = "static" /\ lsKey[c] = "static" /\ ~lsAuthed[c] /\ toLS[c] = <<>>
  BY <1>1, <1>2 DEF Unmade
<1>4. /\ pc[d] = "dial" /\ ~connected /\ made' = c /\ conn' = c /\ connected' = TRUE
      /\ reader' = [reader EXCEPT ![c] = "loop"] /\ up' = [up EXCEPT ![c] = TRUE]
      /\ listed' = listed \union {c} /\ toGS' = [toGS EXCEPT ![c] = <<p>>]
      /\ pc' = [pc EXCEPT ![d] = "flag"]
      /\ UNCHANGED <<gsKey, connectedToLS, authenticatedLS, isReconnecting, attempts,
                     authTimers, toLS, lsKey, lsAuthed>>
  BY <1>3 DEF DialSucceeds
<1>5. <<p>> \in Seq(Packets(ToGSKinds)) /\ PacketsIn(<<p>>) = {p}
  BY DEF Packets, ToGSKinds, Keys, PacketsIn
<1> HIDE DEF p, c
<1>6. /\ reader'[c] = "loop" /\ up'[c] = TRUE /\ toGS'[c] = <<p>> /\ pc'[d] = "flag"
      /\ \A e \in Conns \ {c} : reader'[e] = reader[e] /\ up'[e] = up[e] /\ toGS'[e] = toGS[e]
      /\ \A e \in Dialers \ {d} : pc'[e] = pc[e]
  BY <1>1, <1>2, <1>4 DEF LinkTypes, LinkTypeOK
<1>7. LinkTypes'
  <2>1. conn' \in 0..MaxConns /\ made' \in 0..MaxConns
    BY <1>2, <1>4 DEF Conns
  <2>2. toGS' \in [Conns -> Seq(Packets(ToGSKinds))]
    BY <1>1, <1>4, <1>5 DEF LinkTypes
  <2>3. /\ reader' \in [Conns -> {"none", "loop", "recv", "switch", "defer", "told", "ask", "spawn", "off"}]
        /\ up' \in [Conns -> BOOLEAN] /\ pc' \in [Dialers -> {"wait", "dial", "flag", "settle", "off"}]
    BY <1>1, <1>4 DEF LinkTypes, LinkTypeOK
  <2>4. listed' \subseteq Conns
    BY <1>1, <1>2, <1>4 DEF LinkTypes, LinkTypeOK
  <2>5. pc'["startup"] = "dial" => attempts' < MaxRetries
    BY <1>1, <1>4, <1>6 DEF LinkTypes, Dialers
  <2> QED BY <1>1, <1>4, <2>1, <2>2, <2>3, <2>4, <2>5 DEF LinkTypes, LinkTypeOK
<1>8. \A e \in Conns : reader[e] \notin AtWork /\ reader[e] \notin {"loop", "recv", "switch", "defer"}
  BY <1>1, <1>4 DEF OneAtWork, Dialing, HandlerHolds, OneReader
<1>9. OneAtWork'
  <2>1. \A e \in Dialers : pc'[e] \notin Dialing
    BY <1>1, <1>4, <1>6 DEF OneAtWork, Dialing
  <2>2. \A e \in Conns : reader'[e] \notin AtWork
    BY <1>6, <1>8 DEF AtWork
  <2> QED BY <2>1, <2>2 DEF OneAtWork
<1>10. HandlerHolds'
  <2>1. conn' \in 1..made'
    BY <1>2, <1>4 DEF Conns
  <2>2. OneReader'
    BY <1>4, <1>6, <1>8 DEF OneReader
  <2> QED BY <1>4, <2>1, <2>2 DEF HandlerHolds
<1>11. Unmade'
  <2>1. \A e \in Conns : e > made' => e > made /\ e # c
    BY <1>2, <1>4 DEF Conns
  <2> QED BY <1>1, <1>4, <1>6, <2>1 DEF Unmade
<1>12. authTimers = {}
  BY <1>1, <1>4 DEF TimersHeld
<1>13. TimersHeld'
  BY <1>1, <1>4, <1>6, <1>12 DEF TimersHeld
<1>14. Authentic'
  <2> SUFFICES ASSUME NEW e \in Conns
               PROVE  /\ \A q \in PacketsIn(toLS[e]) :
                           q.kind = "AuthRequest" => q.key = "dynamic" /\ gsKey[e] = "dynamic"
                      /\ lsAuthed[e] => gsKey[e] = "dynamic" /\ lsKey[e] = "dynamic"
                      /\ \A q \in PacketsIn(toGS'[e]) : /\ q.kind = "InitLS" => q.key = "static"
                                                        /\ q.kind = "AuthResponse" => lsAuthed[e]
    BY <1>4 DEF Authentic
  <2>1. CASE e = c
    <3>1. \A q \in PacketsIn(toGS'[e]) : q.kind = "InitLS" /\ q.key = "static"
      BY <1>5, <1>6, <2>1 DEF p
    <3> QED BY <1>1, <3>1 DEF Authentic
  <2>2. CASE e # c
    BY <1>1, <1>6, <2>2 DEF Authentic
  <2> QED BY <2>1, <2>2
<1>15. KeysMeet'
  <2>1. \A e \in Conns \ {c} : toGS'[e] = toGS[e] /\ reader'[e] = reader[e] /\ gsKey'[e] = gsKey[e]
    BY <1>4, <1>6
  <2>2. gsKey'[c] = "static" /\ reader'[c] = "loop" /\ toGS'[c] = <<[kind |-> "InitLS", key |-> "static"]>>
    BY <1>3, <1>4, <1>6 DEF p
  <2> QED BY <1>1, <2>1, <2>2 DEF KeysMeet
<1>16. AuthenticatedIsTrue' /\ ReconnectingIsTrue'
  <2>1. ~authenticatedLS
    BY <1>1, <1>4, <1>8 DEF AuthenticatedIsTrue, AtWork
  <2>2. \A e \in Dialers : pc[e] # "off" => pc'[e] # "off"
    BY <1>6
  <2> QED BY <1>1, <1>4, <2>1, <2>2 DEF AuthenticatedIsTrue, ReconnectingIsTrue, Dialers
<1> QED BY <1>7, <1>9, <1>10, <1>11, <1>13, <1>14, <1>15, <1>16 DEF LinkInv

(* A reader that goes on, with the link and the streams as they are. *)
LEMMA MovingKeeps ==
  ASSUME LinkInv, NEW c \in Conns,
         NEW where \in {"recv", "defer", "ask", "off"},
         \/ reader[c] = "loop" /\ (where = "recv" \/ where = "defer")
         \/ reader[c] = "recv" /\ where = "defer"
         \/ reader[c] = "told" /\ where = "ask" /\ authenticatedLS' = FALSE
         \/ reader[c] = "ask" /\ where = "off",
         reader' = [reader EXCEPT ![c] = where],
         reader[c] = "told" \/ UNCHANGED <<connectedToLS, authenticatedLS>>,
         connectedToLS' \in BOOLEAN,
         UNCHANGED <<connected, conn, made, gsKey, isReconnecting, attempts, pc, authTimers,
                     lsVars, wire>>
  PROVE  LinkInv'
<1> USE DEF lsVars, lsConn, wire
<1>1. LinkTypes /\ OneAtWork /\ HandlerHolds /\ Unmade /\ TimersHeld /\ Authentic /\ KeysMeet
      /\ AuthenticatedIsTrue /\ ReconnectingIsTrue
  BY DEF LinkInv
<1>2. reader'[c] = where /\ \A e \in Conns \ {c} : reader'[e] = reader[e]
  BY <1>1 DEF LinkTypes, LinkTypeOK
<1>3. LinkTypes'
  <2>1. reader' \in [Conns -> {"none", "loop", "recv", "switch", "defer", "told", "ask", "spawn", "off"}]
    BY <1>1 DEF LinkTypes, LinkTypeOK
  <2>2. authenticatedLS' \in BOOLEAN
    BY <1>1 DEF LinkTypes, LinkTypeOK
  <2> QED BY <1>1, <2>1, <2>2 DEF LinkTypes, LinkTypeOK
<1>4. OneAtWork'
  BY <1>1, <1>2 DEF OneAtWork, AtWork
<1>5. HandlerHolds' /\ TimersHeld'
  BY <1>1, <1>2 DEF HandlerHolds, OneReader, TimersHeld
<1>6. Unmade' /\ Authentic' /\ KeysMeet'
  BY <1>1, <1>2 DEF Unmade, Authentic, KeysMeet
<1>7. AuthenticatedIsTrue' /\ ReconnectingIsTrue'
  BY <1>1, <1>2 DEF AuthenticatedIsTrue, ReconnectingIsTrue
<1> QED BY <1>3, <1>4, <1>5, <1>6, <1>7 DEF LinkInv

LEMMA SpawningKeeps == \A c \in Conns : LinkInv /\ SpawnReconnector(c) => LinkInv'
<1> SUFFICES ASSUME NEW c \in Conns, LinkInv, SpawnReconnector(c) PROVE LinkInv'
  OBVIOUS
<1> USE LinkAssumption DEF lsVars, lsConn, wire
<1>1. LinkTypes /\ OneAtWork /\ HandlerHolds /\ Unmade /\ TimersHeld /\ Authentic /\ KeysMeet
      /\ AuthenticatedIsTrue /\ ReconnectingIsTrue
  BY DEF LinkInv
<1>2. /\ reader[c] = "spawn" /\ reader' = [reader EXCEPT ![c] = "off"] /\ Spawn(pc)
      /\ UNCHANGED <<connected, conn, made, gsKey, connectedToLS, authenticatedLS, attempts,
                     authTimers, lsVars, wire>>
  BY DEF SpawnReconnector, ReaderGoes
<1>3. reader'[c] = "off" /\ \A e \in Conns \ {c} : reader'[e] = reader[e]
  BY <1>1, <1>2 DEF LinkTypes, LinkTypeOK
<1>4. PICK r \in Recons : /\ pc[r] = "off" /\ pc'[r] = "wait"
                          /\ \A d \in Dialers \ {r} : pc'[d] = pc[d]
  BY <1>1, <1>2, Spawns DEF LinkTypes, LinkTypeOK
<1>5. r \in Dialers /\ r # "startup" /\ pc' \in [Dialers -> {"wait", "dial", "flag", "settle", "off"}]
      /\ isReconnecting' = TRUE
  BY <1>1, <1>2, Spawns DEF LinkTypes, LinkTypeOK, Dialers
<1>6. LinkTypes'
  <2>1. reader' \in [Conns -> {"none", "loop", "recv", "switch", "defer", "told", "ask", "spawn", "off"}]
    BY <1>1, <1>2 DEF LinkTypes, LinkTypeOK
  <2>2. pc'["startup"] = "dial" => attempts' < MaxRetries
    BY <1>1, <1>2, <1>4, <1>5 DEF LinkTypes, Dialers
  <2> QED BY <1>1, <1>2, <1>5, <2>1, <2>2 DEF LinkTypes, LinkTypeOK
<1>7. OneAtWork'
  <2>1. \A d \in Dialers : pc[d] \notin Dialing
    BY <1>1, <1>2 DEF OneAtWork, AtWork
  <2>2. \A d \in Dialers : pc'[d] \in Dialing => d = r
    BY <1>4, <2>1
  <2>3. \A e \in Conns : reader'[e] \notin AtWork
    BY <1>1, <1>2, <1>3 DEF OneAtWork, AtWork
  <2>4. ~connected'
    BY <1>1, <1>2 DEF OneAtWork, AtWork
  <2> QED BY <2>2, <2>3, <2>4 DEF OneAtWork
<1>8. TimersHeld' /\ ReconnectingIsTrue'
  BY <1>1, <1>2, <1>3, <1>4 DEF TimersHeld, ReconnectingIsTrue
<1>9. HandlerHolds' /\ Unmade' /\ Authentic' /\ KeysMeet' /\ AuthenticatedIsTrue'
  BY <1>1, <1>2, <1>3 DEF HandlerHolds, OneReader, Unmade, Authentic, KeysMeet, AuthenticatedIsTrue
<1> QED BY <1>6, <1>7, <1>8, <1>9 DEF LinkInv

LEMMA AskingKeeps == \A c \in Conns : LinkInv /\ AskReconnecting(c) => LinkInv'
<1> SUFFICES ASSUME NEW c \in Conns, LinkInv, AskReconnecting(c) PROVE LinkInv'
  OBVIOUS
<1>1. CASE isReconnecting
  BY <1>1, MovingKeeps DEF AskReconnecting, ReaderGoes, LinkInv, LinkTypes, LinkTypeOK
<1>2. CASE ~isReconnecting
  <2>1. LinkTypes /\ OneAtWork /\ HandlerHolds /\ Unmade /\ TimersHeld /\ Authentic /\ KeysMeet
        /\ AuthenticatedIsTrue /\ ReconnectingIsTrue
    BY DEF LinkInv
  <2>2. /\ reader[c] = "ask" /\ reader' = [reader EXCEPT ![c] = "spawn"]
        /\ UNCHANGED <<connected, conn, made, gsKey, flags, attempts, pc, authTimers, lsVars, wire>>
    BY <1>2 DEF AskReconnecting, ReaderGoes, flags
  <2>3. reader'[c] = "spawn" /\ \A e \in Conns \ {c} : reader'[e] = reader[e]
    BY <2>1, <2>2 DEF LinkTypes, LinkTypeOK
  <2>4. LinkTypes'
    BY <2>1, <2>2 DEF LinkTypes, LinkTypeOK, flags, lsVars, lsConn, wire
  <2>5. OneAtWork'
    BY <2>1, <2>2, <2>3 DEF OneAtWork, AtWork
  <2>6. HandlerHolds' /\ TimersHeld' /\ Unmade' /\ AuthenticatedIsTrue' /\ ReconnectingIsTrue'
    BY <2>1, <2>2, <2>3 DEF HandlerHolds, OneReader, TimersHeld, Unmade, AuthenticatedIsTrue,
       ReconnectingIsTrue, flags, lsVars, lsConn, wire
  <2>7. Authentic' /\ KeysMeet'
    BY <2>1, <2>2, <2>3 DEF Authentic, KeysMeet, lsVars, lsConn, wire
  <2> QED BY <2>4, <2>5, <2>6, <2>7 DEF LinkInv
<1> QED BY <1>1, <1>2

LEMMA DeferredKeeps == \A c \in Conns : LinkInv /\ Deferred(c) => LinkInv'
<1> SUFFICES ASSUME NEW c \in Conns, LinkInv, Deferred(c) PROVE LinkInv'
  OBVIOUS
<1> USE DEF lsVars, lsConn
<1>1. LinkTypes /\ OneAtWork /\ HandlerHolds /\ Unmade /\ TimersHeld /\ Authentic /\ KeysMeet
      /\ AuthenticatedIsTrue /\ ReconnectingIsTrue
  BY DEF LinkInv
<1>2. connected /\ conn = c /\ c # 0
  BY <1>1 DEF Deferred, HandlerHolds, OneReader, Conns
<1>3. /\ reader[c] = "defer" /\ connected' = FALSE /\ conn' = 0
      /\ up' = [up EXCEPT ![c] = FALSE] /\ reader' = [reader EXCEPT ![c] = "told"]
      /\ UNCHANGED <<made, gsKey, connectedToLS, authenticatedLS, isReconnecting, attempts,
                     pc, authTimers, toLS, toGS, lsVars>>
  BY <1>2 DEF Deferred, ReaderGoes
<1>4. reader'[c] = "told" /\ up'[c] = FALSE
      /\ \A e \in Conns \ {c} : reader'[e] = reader[e] /\ up'[e] = up[e]
  BY <1>1, <1>3 DEF LinkTypes, LinkTypeOK
<1>5. LinkTypes'
  <2>1. reader' \in [Conns -> {"none", "loop", "recv", "switch", "defer", "told", "ask", "spawn", "off"}]
        /\ up' \in [Conns -> BOOLEAN]
    BY <1>1, <1>3 DEF LinkTypes, LinkTypeOK
  <2>2. conn' \in 0..MaxConns /\ connected' \in BOOLEAN
    <3>1. 0 \in 0..MaxConns
      BY LinkAssumption
    <3> QED BY <1>3, <3>1
  <2> QED BY <1>1, <1>3, <2>1, <2>2 DEF LinkTypes, LinkTypeOK
<1>6. OneAtWork'
  BY <1>1, <1>2, <1>3, <1>4 DEF OneAtWork, AtWork
<1>7. HandlerHolds' /\ TimersHeld' /\ Unmade' /\ AuthenticatedIsTrue' /\ ReconnectingIsTrue'
  BY <1>1, <1>2, <1>3, <1>4 DEF HandlerHolds, OneReader, TimersHeld, Unmade, AuthenticatedIsTrue,
     ReconnectingIsTrue
<1>8. Authentic' /\ KeysMeet'
  BY <1>1, <1>3, <1>4 DEF Authentic, KeysMeet
<1> QED BY <1>5, <1>6, <1>7, <1>8 DEF LinkInv

LEMMA SwitchingKeeps == \A c \in Conns : LinkInv /\ SwitchKey(c) => LinkInv'
<1> SUFFICES ASSUME NEW c \in Conns, LinkInv, SwitchKey(c) PROVE LinkInv'
  OBVIOUS
<1> USE DEF lsVars, lsConn, wire
<1>1. LinkTypes /\ OneAtWork /\ HandlerHolds /\ Unmade /\ TimersHeld /\ Authentic /\ KeysMeet
      /\ AuthenticatedIsTrue /\ ReconnectingIsTrue
  BY DEF LinkInv
<1>2. /\ reader[c] = "switch" /\ gsKey' = [gsKey EXCEPT ![c] = "dynamic"]
      /\ reader' = [reader EXCEPT ![c] = "loop"]
      /\ UNCHANGED <<connected, conn, made, connectedToLS, authenticatedLS, isReconnecting,
                     attempts, pc, authTimers, lsVars, wire>>
  BY DEF SwitchKey, ReaderGoes
<1>3. reader'[c] = "loop" /\ gsKey'[c] = "dynamic"
      /\ \A e \in Conns \ {c} : reader'[e] = reader[e] /\ gsKey'[e] = gsKey[e]
  BY <1>1, <1>2 DEF LinkTypes, LinkTypeOK
<1>4. LinkTypes'
  <2>1. reader' \in [Conns -> {"none", "loop", "recv", "switch", "defer", "told", "ask", "spawn", "off"}]
        /\ gsKey' \in [Conns -> Keys]
    BY <1>1, <1>2 DEF LinkTypes, LinkTypeOK, Keys
  <2> QED BY <1>1, <1>2, <2>1 DEF LinkTypes, LinkTypeOK
<1>5. ~(c > made) /\ toGS[c] = <<>> /\ PacketsIn(toGS[c]) = {}
  BY <1>1, <1>2, EmptySeq DEF Unmade, KeysMeet, PacketsIn
<1>6. OneAtWork'
  BY <1>1, <1>2, <1>3 DEF OneAtWork, AtWork
<1>7. HandlerHolds' /\ TimersHeld' /\ Unmade' /\ AuthenticatedIsTrue' /\ ReconnectingIsTrue'
  BY <1>1, <1>2, <1>3, <1>5 DEF HandlerHolds, OneReader, TimersHeld, Unmade, AuthenticatedIsTrue,
     ReconnectingIsTrue
<1>8. Authentic' /\ KeysMeet'
  BY <1>1, <1>2, <1>3, <1>5 DEF Authentic, KeysMeet
<1> QED BY <1>4, <1>6, <1>7, <1>8 DEF LinkInv

(* What the game server sends: AuthRequest under the dynamic key. *)
LEMMA SendingKeeps ==
  ASSUME LinkInv, NEW kind \in ToLSKinds, SendPacket(kind),
         kind = "AuthRequest" /\ connected /\ up[conn] => gsKey[conn] = "dynamic",
         authTimers' \subseteq authTimers,
         UNCHANGED <<connected, conn, made, reader, gsKey, flags, attempts, pc, up, toGS, lsVars>>
  PROVE  LinkInv'
<1> USE DEF lsVars, lsConn, flags
<1>1. LinkTypes /\ OneAtWork /\ HandlerHolds /\ Unmade /\ TimersHeld /\ Authentic /\ KeysMeet
      /\ AuthenticatedIsTrue /\ ReconnectingIsTrue
  BY DEF LinkInv
<1>2. /\ toLS' \in [Conns -> Seq(Packets(ToLSKinds))]
      /\ \A c \in Conns :
           \/ toLS'[c] = toLS[c]
           \/ /\ c = conn /\ connected /\ up[c]
              /\ PacketsIn(toLS'[c]) = PacketsIn(toLS[c]) \cup {[kind |-> kind, key |-> gsKey[c]]}
      /\ \A c \in Conns : c > made => toLS'[c] = toLS[c]
  BY SendsTyped
<1>3. LinkTypes'
  <2>1. authTimers' \subseteq Conns
    BY <1>1 DEF LinkTypes, LinkTypeOK
  <2> QED BY <1>1, <1>2, <2>1 DEF LinkTypes, LinkTypeOK
<1>4. OneAtWork' /\ HandlerHolds' /\ TimersHeld' /\ KeysMeet' /\ AuthenticatedIsTrue' /\ ReconnectingIsTrue'
  BY <1>1 DEF OneAtWork, HandlerHolds, OneReader, TimersHeld, KeysMeet, AuthenticatedIsTrue, ReconnectingIsTrue
<1>5. Unmade'
  BY <1>1, <1>2 DEF Unmade
<1>6. Authentic'
  <2> SUFFICES ASSUME NEW c \in Conns, NEW p \in PacketsIn(toLS'[c]), p.kind = "AuthRequest"
               PROVE  p.key = "dynamic" /\ gsKey[c] = "dynamic"
    BY <1>1 DEF Authentic
  <2>1. CASE p \in PacketsIn(toLS[c])
    BY <1>1, <2>1 DEF Authentic
  <2>2. CASE p \notin PacketsIn(toLS[c])
    <3>1. c = conn /\ connected /\ up[c] /\ p = [kind |-> kind, key |-> gsKey[c]]
      BY <1>2, <2>2
    <3> QED BY <3>1
  <2> QED BY <2>1, <2>2
<1> QED BY <1>3, <1>4, <1>5, <1>6 DEF LinkInv

LEMMA SendsKeep ==
  ASSUME LinkInv, Heartbeat \/ ClientAuth \/ \E c \in Conns : SendAuthRequest(c)
  PROVE  LinkInv'
<1>1. CASE Heartbeat \/ ClientAuth
  BY <1>1, SendingKeeps DEF Heartbeat, ClientAuth, gsVars, flags, ToLSKinds
<1>2. ASSUME NEW c \in Conns, SendAuthRequest(c) PROVE LinkInv'
  <2>1. connected /\ up[conn] => gsKey[conn] = "dynamic"
    BY <1>2 DEF SendAuthRequest, LinkInv, TimersHeld
  <2> QED BY <1>2, <2>1, SendingKeeps DEF SendAuthRequest, flags, ToLSKinds
<1> QED BY <1>1, <1>2

(* What the reader does with a packet. *)
LEMMA ReceivingKeeps == \A c \in Conns : LinkInv /\ ReaderReceive(c) => LinkInv'
<1> SUFFICES ASSUME NEW c \in Conns, LinkInv, ReaderReceive(c) PROVE LinkInv'
  OBVIOUS
<1> USE DEF lsVars, lsConn
<1>1. LinkTypes /\ OneAtWork /\ HandlerHolds /\ Unmade /\ TimersHeld /\ Authentic /\ KeysMeet
      /\ AuthenticatedIsTrue /\ ReconnectingIsTrue
  BY DEF LinkInv
<1>2. reader[c] = "recv" /\ toGS[c] # <<>> /\ connected /\ conn = c /\ ~(c > made)
  BY <1>1 DEF ReaderReceive, HandlerHolds, OneReader, Unmade
<1> DEFINE p == Head(toGS[c])
<1>3. /\ p \in PacketsIn(toGS[c]) /\ p \in Packets(ToGSKinds)
      /\ Tail(toGS[c]) \in Seq(Packets(ToGSKinds))
      /\ PacketsIn(Tail(toGS[c])) \subseteq PacketsIn(toGS[c])
  BY <1>1, <1>2, PacketsOfTail, HeadTailProperties DEF LinkTypes
<1>4. /\ toGS' = [toGS EXCEPT ![c] = Tail(toGS[c])]
      /\ UNCHANGED <<connected, conn, made, gsKey, connectedToLS, isReconnecting, attempts,
                     pc, up, lsVars>>
  BY DEF ReaderReceive
<1>5. /\ toGS' \in [Conns -> Seq(Packets(ToGSKinds))] /\ toGS'[c] = Tail(toGS[c])
      /\ \A e \in Conns \ {c} : toGS'[e] = toGS[e]
  BY <1>1, <1>3, <1>4 DEF LinkTypes
<1>6. PICK where \in {"loop", "switch", "defer"} :
        /\ reader' = [reader EXCEPT ![c] = where]
        /\ \/ UNCHANGED <<authTimers, toLS>> /\ where # "switch"
           \/ UNCHANGED authTimers /\ SendPacket("ReplyCharacters") /\ where # "switch"
           \/ /\ p.kind = "InitLS" /\ p.key = gsKey[c] /\ authTimers' = authTimers \union {c}
              /\ SendPacket("BlowFishKey") /\ (where = "switch" <=> up[c]) /\ where # "loop"
        /\ authenticatedLS' = authenticatedLS \/ (authenticatedLS' = TRUE /\ p.kind = "AuthResponse")
        /\ where = "loop" => p.kind # "InitLS" /\ p.key = gsKey[c]
  <2>1. CASE p.key # gsKey[c] /\ ReaderGoes(c, "defer") /\ UNCHANGED <<authTimers, authenticatedLS, toLS>>
    BY <2>1 DEF ReaderGoes
  <2>2. CASE p.key = gsKey[c] /\ p.kind = "InitLS" /\ HandleInitLS(c)
    <3>1. CASE up[c]
      BY <1>2, <2>2, <3>1 DEF HandleInitLS, ReaderGoes, Sendable
    <3>2. CASE ~up[c]
      BY <1>2, <2>2, <3>2 DEF HandleInitLS, ReaderGoes, Sendable
    <3> QED BY <3>1, <3>2
  <2>3. CASE p.key = gsKey[c] /\ p.kind = "AuthResponse" /\ HandleAuthResponse(c)
    BY <2>3 DEF HandleAuthResponse, ReaderGoes
  <2>4. CASE p.key = gsKey[c] /\ p.kind = "PlayerAuthResponse" /\ HandlePlayerAuthResponse(c)
    BY <2>4 DEF HandlePlayerAuthResponse, ReaderGoes
  <2>5. CASE p.key = gsKey[c] /\ p.kind = "RequestCharacters" /\ HandleRequestCharacters(c)
    <3>1. CASE Sendable
      BY <2>5, <3>1 DEF HandleRequestCharacters, ReaderGoes
    <3>2. CASE ~Sendable
      BY <2>5, <3>2 DEF HandleRequestCharacters, ReaderGoes
    <3> QED BY <3>1, <3>2
  <2> QED BY <2>1, <2>2, <2>3, <2>4, <2>5 DEF ReaderReceive
<1>7. reader'[c] = where /\ \A e \in Conns \ {c} : reader'[e] = reader[e]
  BY <1>1, <1>6 DEF LinkTypes, LinkTypeOK
<1> HIDE DEF p
<1>8. /\ toLS' \in [Conns -> Seq(Packets(ToLSKinds))]
      /\ \A e \in Conns : \A q \in PacketsIn(toLS'[e]) : q \in PacketsIn(toLS[e]) \/ q.kind # "AuthRequest"
      /\ \A e \in Conns : e > made => toLS'[e] = toLS[e]
  <2>1. CASE toLS' = toLS
    BY <1>1, <2>1 DEF LinkTypes
  <2>2. ASSUME NEW kind \in {"ReplyCharacters", "BlowFishKey"}, SendPacket(kind)
        PROVE /\ toLS' \in [Conns -> Seq(Packets(ToLSKinds))]
              /\ \A e \in Conns : \A q \in PacketsIn(toLS'[e]) : q \in PacketsIn(toLS[e]) \/ q.kind # "AuthRequest"
              /\ \A e \in Conns : e > made => toLS'[e] = toLS[e]
    <3>1. kind \in ToLSKinds
      BY DEF ToLSKinds
    <3>2. /\ toLS' \in [Conns -> Seq(Packets(ToLSKinds))]
          /\ \A e \in Conns :
               \/ toLS'[e] = toLS[e]
               \/ /\ e = conn /\ connected /\ up[e]
                  /\ PacketsIn(toLS'[e]) = PacketsIn(toLS[e]) \cup {[kind |-> kind, key |-> gsKey[e]]}
          /\ \A e \in Conns : e > made => toLS'[e] = toLS[e]
      BY <2>2, <3>1, SendsTyped
    <3> QED BY <3>2
  <2> QED BY <1>6, <2>1, <2>2
<1>9. p.kind = "InitLS" /\ p.key = gsKey[c] => gsKey[c] = "static" /\ toGS'[c] = <<>>
  <2> SUFFICES ASSUME p.kind = "InitLS", p.key = gsKey[c]
               PROVE  gsKey[c] = "static" /\ toGS'[c] = <<>>
    OBVIOUS
  <2>1. gsKey[c] = "static"
    BY <1>1, <1>3 DEF Authentic
  <2>2. toGS[c] = <<[kind |-> "InitLS", key |-> "static"]>>
    BY <1>1, <1>2, <2>1 DEF KeysMeet
  <2> QED BY <1>5, <2>1, <2>2
<1>10. where = "loop" => gsKey[c] = "dynamic"
  <2>1. gsKey[c] \in {"static", "dynamic"}
    BY <1>1 DEF LinkTypes, LinkTypeOK, Keys
  <2>2. gsKey[c] = "static" => p.kind = "InitLS"
    BY <1>1, <1>2 DEF KeysMeet, p
  <2> QED BY <1>6, <2>1, <2>2
<1>11. LinkTypes'
  <2>1. reader' \in [Conns -> {"none", "loop", "recv", "switch", "defer", "told", "ask", "spawn", "off"}]
    BY <1>1, <1>6 DEF LinkTypes, LinkTypeOK
  <2>2. authTimers' \subseteq Conns /\ authenticatedLS' \in BOOLEAN
    BY <1>1, <1>6 DEF LinkTypes, LinkTypeOK
  <2> QED BY <1>1, <1>4, <1>5, <1>8, <2>1, <2>2 DEF LinkTypes, LinkTypeOK
<1>12. OneAtWork' /\ HandlerHolds'
  BY <1>1, <1>2, <1>4, <1>7 DEF OneAtWork, AtWork, HandlerHolds, OneReader
<1>13. Unmade'
  BY <1>1, <1>2, <1>4, <1>5, <1>7, <1>8 DEF Unmade
<1>14. TimersHeld'
  <2>1. \A d \in Dialers : pc[d] # "dial"
    BY <1>1, <1>2 DEF OneAtWork, Dialing
  <2>2. authTimers' \subseteq {c}
    BY <1>1, <1>2, <1>6 DEF TimersHeld
  <2>3. c \in authTimers' => where = "switch" \/ gsKey[c] = "dynamic" \/ ~up[c]
    BY <1>1, <1>2, <1>6 DEF TimersHeld
  <2> QED BY <1>2, <1>4, <1>7, <2>1, <2>2, <2>3 DEF TimersHeld
<1>15. Authentic'
  <2>1. \A e \in Conns : PacketsIn(toGS'[e]) \subseteq PacketsIn(toGS[e])
    BY <1>3, <1>5
  <2> QED BY <1>1, <1>4, <1>8, <2>1 DEF Authentic
<1>16. KeysMeet'
  <2>1. \A e \in Conns : PacketsIn(toGS'[e]) \subseteq PacketsIn(toGS[e])
    BY <1>3, <1>5
  <2>2. where = "switch" => gsKey[c] = "static" /\ toGS'[c] = <<>>
    BY <1>6, <1>9
  <2> QED BY <1>1, <1>4, <1>5, <1>7, <1>10, <2>1, <2>2 DEF KeysMeet
<1>17. AuthenticatedIsTrue' /\ ReconnectingIsTrue'
  <2>1. \A e \in Conns : reader[e] # "told"
    BY <1>1, <1>2 DEF OneAtWork, AtWork
  <2>2. authenticatedLS' => lsAuthed[c]
    BY <1>1, <1>2, <1>3, <1>6, <2>1 DEF AuthenticatedIsTrue, Authentic
  <2> QED BY <1>1, <1>2, <1>4, <2>2 DEF AuthenticatedIsTrue, ReconnectingIsTrue
<1> QED BY <1>11, <1>12, <1>13, <1>14, <1>15, <1>16, <1>17 DEF LinkInv

(* The login server's end: what it sends is under its key, and only on a
   connection it has authenticated. *)
LEMMA AnsweringKeeps ==
  ASSUME LinkInv, NEW c \in Conns, ~(c > made) \/ UNCHANGED <<toGS, lsKey, lsAuthed>>,
         NEW kind \in {"AuthResponse", "PlayerAuthResponse", "RequestCharacters"},
         \/ toGS' = toGS
         \/ LSSends(c, kind) /\ lsAuthed'[c] /\ gsKey[c] = "dynamic" /\ lsKey'[c] = "dynamic" /\ lsKey' = lsKey,
         toLS' \in [Conns -> Seq(Packets(ToLSKinds))],
         \A e \in Conns : PacketsIn(toLS'[e]) \subseteq PacketsIn(toLS[e]),
         \A e \in Conns : e > made => toLS'[e] = toLS[e],
         up' \in [Conns -> BOOLEAN], \A e \in Conns : up'[e] => up[e],
         listed' \subseteq listed,
         lsKey' = lsKey \/ lsKey' = [lsKey EXCEPT ![c] = "dynamic"],
         lsAuthed' = lsAuthed \/ (lsAuthed' = [lsAuthed EXCEPT ![c] = TRUE] /\ gsKey[c] = "dynamic"
                                  /\ lsKey[c] = "dynamic"),
         UNCHANGED gsVars
  PROVE  LinkInv'
<1> USE DEF gsVars, flags
<1>1. LinkTypes /\ OneAtWork /\ HandlerHolds /\ Unmade /\ TimersHeld /\ Authentic /\ KeysMeet
      /\ AuthenticatedIsTrue /\ ReconnectingIsTrue
  BY DEF LinkInv
<1>2. /\ lsKey' \in [Conns -> Keys] /\ lsAuthed' \in [Conns -> BOOLEAN]
      /\ \A e \in Conns \ {c} : lsKey'[e] = lsKey[e] /\ lsAuthed'[e] = lsAuthed[e]
      /\ (lsKey'[c] = lsKey[c] \/ lsKey'[c] = "dynamic")
      /\ (lsAuthed[c] => lsAuthed'[c])
      /\ (lsAuthed'[c] => lsAuthed[c] \/ (gsKey[c] = "dynamic" /\ lsKey[c] = "dynamic"))
  BY <1>1 DEF LinkTypes, LinkTypeOK, Keys
<1>3. /\ toGS' \in [Conns -> Seq(Packets(ToGSKinds))]
      /\ \A e \in Conns \ {c} : toGS'[e] = toGS[e]
      /\ \/ toGS'[c] = toGS[c]
         \/ /\ lsAuthed'[c] /\ gsKey[c] = "dynamic"
            /\ PacketsIn(toGS'[c]) = PacketsIn(toGS[c]) \cup {[kind |-> kind, key |-> "dynamic"]}
  <2>1. CASE toGS' = toGS
    BY <1>1, <2>1 DEF LinkTypes
  <2>2. CASE LSSends(c, kind) /\ lsAuthed'[c] /\ gsKey[c] = "dynamic" /\ lsKey'[c] = "dynamic" /\ lsKey' = lsKey
    <3>1. kind \in ToGSKinds
      BY DEF ToGSKinds
    <3> QED BY <2>2, <3>1, LSSendsTyped
  <2> QED BY <2>1, <2>2
<1>4. LinkTypes'
  <2>1. listed' \subseteq Conns
    BY <1>1 DEF LinkTypes, LinkTypeOK
  <2> QED BY <1>1, <1>2, <1>3, <2>1 DEF LinkTypes, LinkTypeOK
<1>5. OneAtWork' /\ HandlerHolds' /\ TimersHeld' /\ ReconnectingIsTrue'
  BY <1>1 DEF OneAtWork, HandlerHolds, OneReader, TimersHeld, LinkTypes, LinkTypeOK, ReconnectingIsTrue
<1>6. Unmade'
  BY <1>1, <1>2, <1>3 DEF Unmade
<1>7. Authentic'
  <2> SUFFICES ASSUME NEW e \in Conns
               PROVE  /\ lsAuthed'[e] => gsKey[e] = "dynamic" /\ lsKey'[e] = "dynamic"
                      /\ \A p \in PacketsIn(toGS'[e]) : /\ p.kind = "InitLS" => p.key = "static"
                                                        /\ p.kind = "AuthResponse" => lsAuthed'[e]
    BY <1>1 DEF Authentic
  <2>1. lsAuthed'[e] => gsKey[e] = "dynamic" /\ lsKey'[e] = "dynamic"
    BY <1>1, <1>2 DEF Authentic
  <2>2. ASSUME NEW p \in PacketsIn(toGS'[e])
        PROVE  /\ p.kind = "InitLS" => p.key = "static"
               /\ p.kind = "AuthResponse" => lsAuthed'[e]
    <3>1. CASE p \in PacketsIn(toGS[e])
      BY <1>1, <1>2, <3>1 DEF Authentic
    <3>2. CASE p \notin PacketsIn(toGS[e])
      BY <1>3, <2>2, <3>2
    <3> QED BY <3>1, <3>2
  <2> QED BY <2>1, <2>2
<1>8. KeysMeet'
  <2> SUFFICES ASSUME NEW e \in Conns
               PROVE  /\ gsKey[e] = "dynamic" => \A p \in PacketsIn(toGS'[e]) : p.key = "dynamic"
                      /\ reader[e] = "switch" => gsKey[e] = "static" /\ toGS'[e] = <<>>
                      /\ gsKey[e] = "static" /\ reader[e] \in {"loop", "recv"} =>
                           toGS'[e] = <<[kind |-> "InitLS", key |-> "static"]>>
    BY DEF KeysMeet
  <2>1. CASE toGS'[e] = toGS[e]
    BY <1>1, <2>1 DEF KeysMeet
  <2>2. CASE toGS'[e] # toGS[e]
    <3>1. e = c /\ gsKey[c] = "dynamic"
          /\ PacketsIn(toGS'[c]) = PacketsIn(toGS[c]) \cup {[kind |-> kind, key |-> "dynamic"]}
      BY <1>3, <2>2
    <3>2. \A p \in PacketsIn(toGS'[e]) : p.key = "dynamic"
      BY <1>1, <3>1 DEF KeysMeet
    <3>3. gsKey[e] # "static" /\ reader[e] # "switch"
      BY <1>1, <3>1 DEF KeysMeet
    <3> QED BY <3>2, <3>3
  <2> QED BY <2>1, <2>2
<1>9. AuthenticatedIsTrue'
  <2>1. connected => conn \in Conns
    BY <1>1 DEF HandlerHolds, LinkTypes, LinkTypeOK, Conns
  <2> QED BY <1>1, <1>2, <2>1 DEF AuthenticatedIsTrue
<1> QED BY <1>4, <1>5, <1>6, <1>7, <1>8, <1>9 DEF LinkInv

LEMMA LoginServerKeeps ==
  ASSUME LinkInv, NEW c \in Conns, LSReceive(c) \/ LSNotices(c) \/ RequestCharacters(c) \/ Lose(c)
  PROVE  LinkInv'
<1>1. LinkTypes /\ Unmade /\ Authentic
  BY DEF LinkInv
<1>2. /\ toLS \in [Conns -> Seq(Packets(ToLSKinds))] /\ up \in [Conns -> BOOLEAN]
      /\ \A e \in Conns : PacketsIn(toLS[e]) \subseteq PacketsIn(toLS[e])
  BY <1>1 DEF LinkTypes, LinkTypeOK
<1>3. up' = [up EXCEPT ![c] = FALSE] =>
        up' \in [Conns -> BOOLEAN] /\ \A e \in Conns : up'[e] => up[e]
  BY <1>2
<1>4. CASE LSNotices(c) \/ Lose(c)
  <2>1. UNCHANGED <<gsVars, toLS, toGS, lsKey, lsAuthed>> /\ listed' \subseteq listed
        /\ (up' = up \/ up' = [up EXCEPT ![c] = FALSE])
    <3>1. CASE LSNotices(c)
      BY <3>1 DEF LSNotices, wire, lsConn
    <3>2. CASE Lose(c)
      BY <3>2 DEF Lose, lsVars, lsConn
    <3> QED BY <1>4, <3>1, <3>2
  <2> QED BY <1>2, <1>3, <2>1, AnsweringKeeps
<1>5. CASE RequestCharacters(c)
  <2>1. lsAuthed[c] /\ gsKey[c] = "dynamic" /\ lsKey[c] = "dynamic" /\ ~(c > made)
    BY <1>1, <1>5 DEF RequestCharacters, Authentic, Unmade
  <2>2. UNCHANGED <<gsVars, lsKey, lsAuthed, listed, up, toLS>>
        /\ (toGS' = toGS \/ LSSends(c, "RequestCharacters"))
    BY <1>5 DEF RequestCharacters, lsVars, lsConn
  <2> QED BY <1>2, <2>1, <2>2, AnsweringKeeps
<1>6. CASE LSReceive(c)
  <2> DEFINE p == Head(toLS[c])
  <2>1. toLS[c] # <<>> /\ toLS' = [toLS EXCEPT ![c] = Tail(toLS[c])] /\ ~(c > made) /\ UNCHANGED gsVars
    BY <1>1, <1>6 DEF LSReceive, Unmade
  <2>2. p \in PacketsIn(toLS[c]) /\ Tail(toLS[c]) \in Seq(Packets(ToLSKinds))
        /\ PacketsIn(Tail(toLS[c])) \subseteq PacketsIn(toLS[c])
    BY <1>2, <2>1, PacketsOfTail, HeadTailProperties
  <2>3. /\ toLS' \in [Conns -> Seq(Packets(ToLSKinds))]
        /\ \A e \in Conns : PacketsIn(toLS'[e]) \subseteq PacketsIn(toLS[e])
        /\ \A e \in Conns : e > made => toLS'[e] = toLS[e]
    BY <1>2, <2>1, <2>2
  <2>4. CASE \/ p.key # lsKey[c] /\ LSCloses(c) /\ UNCHANGED <<lsKey, lsAuthed, toGS>>
             \/ LSOther(c, p.kind)
             \/ p.kind = "PlayerAuthRequest" /\ LSPlayerAuthRequest(c) /\ ~lsAuthed[c]
    <3>1. UNCHANGED <<lsKey, lsAuthed, toGS>> /\ (LSCloses(c) \/ UNCHANGED <<up, listed>>)
      BY <2>4 DEF LSOther, LSPlayerAuthRequest
    <3>2. up' \in [Conns -> BOOLEAN] /\ (\A e \in Conns : up'[e] => up[e]) /\ listed' \subseteq listed
      BY <1>2, <1>3, <3>1 DEF LSCloses
    <3> QED BY <2>1, <2>3, <3>1, <3>2, AnsweringKeeps
  <2>5. CASE p.kind = "BlowFishKey" /\ LSBlowFishKey(c)
    BY <1>2, <2>1, <2>3, <2>5, AnsweringKeeps DEF LSBlowFishKey
  <2>6. CASE p.key = lsKey[c] /\ p.kind = "AuthRequest" /\ LSAuthRequest(c)
    <3>1. gsKey[c] = "dynamic" /\ lsKey[c] = "dynamic"
      BY <1>1, <2>2, <2>6 DEF Authentic
    <3>2. lsAuthed'[c]
      BY <1>1, <2>6 DEF LSAuthRequest, LinkTypes, LinkTypeOK
    <3> QED BY <1>2, <2>1, <2>3, <2>6, <3>1, <3>2, AnsweringKeeps DEF LSAuthRequest
  <2>7. CASE p.kind = "PlayerAuthRequest" /\ LSPlayerAuthRequest(c) /\ lsAuthed[c]
    <3>1. gsKey[c] = "dynamic" /\ lsKey[c] = "dynamic"
      BY <1>1, <2>7 DEF Authentic
    <3> QED BY <1>2, <2>1, <2>3, <2>7, <3>1, AnsweringKeeps DEF LSPlayerAuthRequest
  <2> QED BY <1>6, <2>4, <2>5, <2>6, <2>7 DEF LSReceive
<1> QED BY <1>4, <1>5, <1>6

LEMMA LinkInvNext == LinkInv /\ [LinkNext]_linkVars => LinkInv'
<1> SUFFICES ASSUME LinkInv, [LinkNext]_linkVars PROVE LinkInv'
  OBVIOUS
<1>1. ASSUME NEW d \in Dialers, Dialling(d) PROVE LinkInv'
  BY <1>1, ConnectingKeeps, DiallingKeeps DEF Dialling, DialStep
<1>2. ASSUME NEW r \in Recons, Tick(r) PROVE LinkInv'
  BY <1>2, DiallingKeeps DEF DialStep, Dialers
<1>3. ASSUME NEW c \in Conns, Reading(c) PROVE LinkInv'
  <2>1. LinkTypeOK
    BY DEF LinkInv, LinkTypes
  <2>2. CASE Loop(c)
    <3>1. CASE connected
      BY <2>1, <2>2, <3>1, MovingKeeps DEF Loop, ReaderGoes, LinkTypeOK
    <3>2. CASE ~connected
      BY <2>1, <2>2, <3>2, MovingKeeps DEF Loop, ReaderGoes, LinkTypeOK
    <3> QED BY <3>1, <3>2
  <2>3. CASE ReadFails(c)
    BY <2>1, <2>3, MovingKeeps DEF ReadFails, ReaderGoes, LinkTypeOK
  <2>4. CASE ClearFlags(c)
    BY <2>4, MovingKeeps DEF ClearFlags, ReaderGoes
  <2> QED BY <1>3, <2>2, <2>3, <2>4, ReceivingKeeps, SwitchingKeeps, DeferredKeeps, AskingKeeps, SpawningKeeps
          DEF Reading
<1>4. ASSUME NEW c \in Conns, SendAuthRequest(c) \/ Answering(c) \/ RequestCharacters(c) \/ Lose(c)
      PROVE  LinkInv'
  BY <1>4, SendsKeep, LoginServerKeeps DEF Answering
<1>5. CASE Heartbeat \/ ClientAuth
  BY <1>5, SendsKeep
<1>6. CASE UNCHANGED linkVars
  BY <1>6 DEF linkVars, gsVars, flags, lsVars, lsConn, wire, LinkInv, LinkTypes, LinkTypeOK, OneAtWork, HandlerHolds,
     OneReader, Unmade, TimersHeld, Authentic, KeysMeet, AuthenticatedIsTrue, ReconnectingIsTrue
<1> QED BY <1>1, <1>2, <1>3, <1>4, <1>5, <1>6 DEF LinkNext

(* At most one goroutine reads from the login server, a set authenticatedLS means
   that it has authenticated the connection in use, and a set isReconnecting that
   a reconnector is at work, for any interleaving of diallers, the readers of old
   and new connections and their callbacks (service.go, OnLoginServerDisconnected). *)
THEOREM LinkIsSound == LinkSpec => []LinkSound
<1>1. LinkInv => LinkSound
  BY DEF LinkInv, LinkSound, LinkTypes, HandlerHolds
<1> QED BY <1>1, LinkInvInit, LinkInvNext, PTL DEF LinkSpec

(* Whatever the game server reads, it can decrypt, across the key switch and
   reconnections (handleInitLS, handleBlowFishKey, handleAuthRequest). *)
THEOREM GameServerDecodes == LinkSpec => []ServerDecodes
<1>1. LinkInv => ServerDecodes
  <2> SUFFICES ASSUME LinkInv, NEW c \in Conns, reader[c] = "recv", toGS[c] # <<>>
               PROVE  Head(toGS[c]).key = gsKey[c]
    BY DEF ServerDecodes
  <2>1. gsKey[c] \in {"static", "dynamic"} /\ toGS[c] \in Seq(Packets(ToGSKinds))
    BY DEF LinkInv, LinkTypes, LinkTypeOK, Keys
  <2>2. Head(toGS[c]) \in PacketsIn(toGS[c])
    BY <2>1, PacketsOfTail
  <2>3. CASE gsKey[c] = "dynamic"
    BY <2>2, <2>3 DEF LinkInv, KeysMeet
  <2>4. CASE gsKey[c] = "static"
    <3>1. toGS[c] = <<[kind |-> "InitLS", key |-> "static"]>>
      BY <2>4 DEF LinkInv, KeysMeet
    <3> QED BY <2>4, <3>1
  <2> QED BY <2>1, <2>3, <2>4
<1> QED BY <1>1, LinkInvInit, LinkInvNext, PTL DEF LinkSpec

-----------------------------------------------------------------------------
(* LoginServer: the registries of the login server stay consistent, a connection
   accepts a key once, and only the newest of an account is accepted. *)

(* What is done on behalf of a client, and on a connection of a game server. *)
ClientStep ==
  \/ \E c \in Clients : Accept(c) \/ Busy(c) \/ HangUp(c) \/ RemoveClient(c)
  \/ \E c \in Clients, a \in Accounts, right \in BOOLEAN : RequestAuthLogin(c, a, right)
KeyStep ==
  \/ \E c \in Clients, s \in Servers : RequestServerLogin(c, s)
  \/ \E g \in Links, a \in Accounts, k \in KeyIds : ValidateSessionKey(g, a, k)
  \/ \E g \in Links : RemoveSessionKey(g)
  \/ \E g \in Links, a \in Accounts : PlayerLogout(g, a)
  \/ \E a \in Accounts : KeyExpires(a)
LinkStep ==
  \/ \E g \in Links : Connect(g) \/ Authenticate(g) \/ LoseLink(g)
  \/ \E g \in Links, s \in Servers : AuthRequest(g, s)
  \/ \E g \in Links, a \in Accounts : ReplyCharacters(g, a)
  \/ \E s \in Servers, a \in Accounts : DeliverEvent(s, a) \/ CountExpires(a, s)

LEMMA ThreeKinds == Next => ClientStep \/ KeyStep \/ LinkStep
  BY DEF Next, ClientStep, KeyStep, LinkStep

-----------------------------------------------------------------------------
(* Types, by what the three kinds of steps write. A client that logs in has an
   account it tries, one that kicks another has somebody to kick; an authenticated
   game server has an id, one whose key is being consumed an account. *)
ClientsTyped ==
  /\ db \in [Accounts -> {"absent", "player", "banned"}]
  /\ clients \in [Clients -> Client]
  /\ online \subseteq Clients
  /\ accounts \in [Accounts -> Clients \union {None}]
  /\ \A c \in Clients :
       /\ clients[c].pc = "new" => clients[c].acct = None
       /\ clients[c].pc \in {"create", "known"} => clients[c].cand \in Accounts
       /\ clients[c].pc \in {"kick", "ask"} => clients[c].acct \in Accounts
       /\ clients[c].pc = "kick" => clients[c].old \in Clients

KeysTyped ==
  /\ keys \in [Accounts -> 0..MaxKeys]
  /\ expired \subseteq Accounts
  /\ issued \in [KeyIds -> Issue]
  /\ uses \in [Links -> [KeyIds -> 0..2]]

Link == [pc : {"new", "read", "named", "consume", "gone"}, authed : BOOLEAN,
         id : Servers \union {None}, next : Servers \union {None},
         acct : Accounts \union {None}]
LinksTyped ==
  /\ registry \subseteq Servers
  /\ links \in [Links -> Link]
  /\ counts \in [Accounts -> Counts]
  /\ asked \in [Links -> SUBSET Accounts]
  /\ \A g \in Links :
       /\ links[g].authed => links[g].id \in registry
       /\ links[g].pc = "named" => links[g].next \in registry
       /\ links[g].pc = "consume" => links[g].acct \in Accounts

EventsTyped == events \subseteq SendPacketEvent

Typed == ClientsTyped /\ KeysTyped /\ LinksTyped /\ EventsTyped

LEMMA TypedIsTypeOK == Typed => LoginTypeOK
  BY DEF Typed, ClientsTyped, KeysTyped, LinksTyped, EventsTyped, LoginTypeOK, Link

(* A client that changes its place and the account it tries, and a game server that
   changes its place and the player it authenticates, stay well typed. *)
LEMMA TriesTyped ==
  ASSUME ClientsTyped, NEW c \in Clients,
         NEW stop \in {"create", "known", "read"}, NEW cand \in Accounts \union {None},
         clients' = [clients EXCEPT ![c].pc = stop, ![c].cand = cand],
         stop # "read" => cand \in Accounts,
         UNCHANGED <<db, online, accounts>>
  PROVE  ClientsTyped'
<1>1. clients \in [Clients -> Client]
  BY DEF ClientsTyped
<1>2. clients' \in [Clients -> Client]
  BY ZenonT(60), <1>1 DEF Client
<1>3. clients'[c].pc = stop /\ clients'[c].cand = cand
  BY <1>1 DEF Client
<1>4. \A d \in Clients \ {c} : clients'[d] = clients[d]
  BY <1>1 DEF Client
<1>5. ASSUME NEW d \in Clients
      PROVE  /\ clients'[d].pc = "new" => clients'[d].acct = None
             /\ clients'[d].pc \in {"create", "known"} => clients'[d].cand \in Accounts
             /\ clients'[d].pc \in {"kick", "ask"} => clients'[d].acct \in Accounts
             /\ clients'[d].pc = "kick" => clients'[d].old \in Clients
  BY <1>3, <1>4 DEF ClientsTyped
<1> QED
  BY <1>2, <1>5 DEF ClientsTyped

LEMMA ConsumesTyped ==
  ASSUME LinksTyped, NEW g \in Links, NEW a \in Accounts,
         links' = [links EXCEPT ![g].pc = "consume", ![g].acct = a],
         UNCHANGED <<registry, counts, asked>>
  PROVE  LinksTyped'
<1>1. links \in [Links -> Link]
  BY DEF LinksTyped
<1>2. links' \in [Links -> Link]
  BY <1>1 DEF Link
<1>3. /\ links'[g].pc = "consume" /\ links'[g].acct = a
      /\ links'[g].authed = links[g].authed /\ links'[g].id = links[g].id
  BY <1>1 DEF Link
<1>4. \A d \in Links \ {g} : links'[d] = links[d]
  BY <1>1 DEF Link
<1>5. ASSUME NEW d \in Links
      PROVE  /\ links'[d].authed => links'[d].id \in registry'
             /\ links'[d].pc = "named" => links'[d].next \in registry'
             /\ links'[d].pc = "consume" => links'[d].acct \in Accounts
  BY <1>3, <1>4 DEF LinksTyped
<1> QED
  BY <1>2, <1>5 DEF LinksTyped

LEMMA ClientStepTyped == Typed /\ ClientStep => Typed'
<1> SUFFICES ASSUME Typed, ClientStep PROVE Typed'
  OBVIOUS
<1> USE DEF Typed, ClientsTyped
<1>1. ASSUME NEW c \in Clients, Accept(c) PROVE ClientsTyped'
  BY <1>1 DEF Accept, Goes, Client
<1>2. ASSUME NEW c \in Clients, NEW a \in Accounts, NEW right \in BOOLEAN,
             RequestAuthLogin(c, a, right)
      PROVE  ClientsTyped'
  <2>1. PICK stop \in {"create", "known", "read"}, cand \in Accounts \union {None} :
          /\ clients' = [clients EXCEPT ![c].pc = stop, ![c].cand = cand]
          /\ stop # "read" => cand \in Accounts
    <3>1. CASE db[a] = "absent"
      BY <1>2, <3>1 DEF RequestAuthLogin
    <3>2. CASE db[a] = "player" /\ right
      BY <1>2, <3>2 DEF RequestAuthLogin
    <3>3. CASE db[a] # "absent" /\ ~(db[a] = "player" /\ right)
      <4>1. clients' = [clients EXCEPT ![c].pc = "read", ![c].cand = clients[c].cand]
        BY <1>2, <3>3 DEF RequestAuthLogin
      <4> QED
        BY <4>1 DEF Client
    <3> QED
      BY <3>1, <3>2, <3>3
  <2>2. UNCHANGED <<db, online, accounts>>
    BY <1>2 DEF RequestAuthLogin
  <2> QED
    BY <2>1, <2>2, TriesTyped
<1>3. ASSUME NEW c \in Clients, CreateAccount(c) PROVE ClientsTyped'
  BY <1>3 DEF CreateAccount, Goes, Client
<1>4. ASSUME NEW c \in Clients, RegisterAccount(c) PROVE ClientsTyped'
  BY <1>4 DEF RegisterAccount, Client
<1>5. ASSUME NEW c \in Clients, KickOld(c) PROVE ClientsTyped'
  BY ZenonT(60), <1>5 DEF KickOld, Client
<1>6. ASSUME NEW c \in Clients, AskCounts(c) PROVE ClientsTyped' /\ EventsTyped'
  <2>1. ClientsTyped'
    BY <1>6 DEF AskCounts, Goes, Client
  <2>2. EventsTyped'
    BY <1>6 DEF AskCounts, EventsTyped, SendPacketEvent, LinksTyped
  <2> QED
    BY <2>1, <2>2
<1>7. ASSUME NEW c \in Clients, HangUp(c) PROVE ClientsTyped'
  BY <1>7 DEF HangUp
<1>8. ASSUME NEW c \in Clients, RemoveClient(c) PROVE ClientsTyped'
  BY <1>8 DEF RemoveClient, Goes, Dropped, Client
<1>9. ClientsTyped'
  BY <1>1, <1>2, <1>3, <1>4, <1>5, <1>6, <1>7, <1>8 DEF ClientStep, Busy
<1>10. UNCHANGED <<keyVars, serverVars>>
  BY DEF ClientStep, Busy, Accept, RequestAuthLogin, CreateAccount, RegisterAccount,
         KickOld, AskCounts, HangUp, RemoveClient
<1>11. UNCHANGED events \/ \E c \in Clients : AskCounts(c)
  BY DEF ClientStep, Busy, Accept, RequestAuthLogin, CreateAccount, RegisterAccount,
         KickOld, HangUp, RemoveClient
<1>12. EventsTyped'
  BY <1>6, <1>11 DEF EventsTyped
<1> QED
  BY <1>9, <1>10, <1>12 DEF KeysTyped, LinksTyped, keyVars, serverVars

LEMMA KeyStepTyped == Typed /\ KeyStep => Typed'
<1> SUFFICES ASSUME Typed, KeyStep PROVE Typed'
  OBVIOUS
<1> USE DEF Typed, KeysTyped
<1>1. ASSUME NEW c \in Clients, NEW s \in Servers, RequestServerLogin(c, s)
      PROVE  KeysTyped' /\ LinksTyped'
  <2>1. clients[c].acct \in Accounts
    BY <1>1 DEF RequestServerLogin, ClientsTyped, Client
  <2> QED
    BY <1>1, <2>1 DEF RequestServerLogin, NewKey, KeyIds, Issue, LinksTyped, serverVars
<1>2. ASSUME NEW g \in Links, NEW a \in Accounts, NEW k \in KeyIds, ValidateSessionKey(g, a, k)
      PROVE  KeysTyped' /\ LinksTyped'
  <2>1. KeysTyped'
    BY <1>2, LoginAssumption DEF ValidateSessionKey
  <2>2. UNCHANGED links \/ links' = [links EXCEPT ![g].pc = "consume", ![g].acct = a]
    BY <1>2 DEF ValidateSessionKey
  <2>3. UNCHANGED <<registry, counts, asked>>
    BY <1>2 DEF ValidateSessionKey
  <2>4. CASE UNCHANGED links
    BY <2>1, <2>3, <2>4 DEF LinksTyped
  <2>5. CASE links' = [links EXCEPT ![g].pc = "consume", ![g].acct = a]
    BY <2>1, <2>3, <2>5, ConsumesTyped
  <2> QED
    BY <2>2, <2>4, <2>5
<1>3. ASSUME NEW g \in Links, RemoveSessionKey(g) PROVE KeysTyped' /\ LinksTyped'
  <2>1. KeysTyped'
    BY <1>3, LoginAssumption DEF RemoveSessionKey, LinksTyped
  <2>2. LinksTyped'
    BY ZenonT(60), <1>3 DEF RemoveSessionKey, LinksTyped, Link
  <2> QED
    BY <2>1, <2>2
<1>4. ASSUME NEW g \in Links, NEW a \in Accounts, PlayerLogout(g, a)
      PROVE  KeysTyped' /\ LinksTyped'
  BY <1>4, LoginAssumption DEF PlayerLogout, LinksTyped, serverVars
<1>5. ASSUME NEW a \in Accounts, KeyExpires(a) PROVE KeysTyped' /\ LinksTyped'
  BY <1>5 DEF KeyExpires, LinksTyped, serverVars
<1>6. UNCHANGED <<sessionVars, events>>
  BY DEF KeyStep, RequestServerLogin, ValidateSessionKey, RemoveSessionKey, PlayerLogout, KeyExpires
<1> QED
  BY <1>1, <1>2, <1>3, <1>4, <1>5, <1>6 DEF KeyStep, ClientsTyped, EventsTyped, sessionVars

LEMMA LinkStepTyped == Typed /\ LinkStep => Typed'
<1> SUFFICES ASSUME Typed, LinkStep PROVE Typed'
  OBVIOUS
<1> USE DEF Typed, LinksTyped
<1>1. ASSUME NEW g \in Links, Connect(g) PROVE LinksTyped'
  BY <1>1 DEF Connect, Link
<1>2. ASSUME NEW g \in Links, Authenticate(g) PROVE LinksTyped'
  <2>1. links[g].next \in registry /\ registry \subseteq Servers
    BY <1>2 DEF Authenticate
  <2>2. links' \in [Links -> Link]
    <3> DEFINE named == [links[g] EXCEPT !.pc = "read", !.authed = TRUE,
                                         !.id = links[g].next, !.next = None]
    <3>1. links' = [links EXCEPT ![g] = named]
      BY <1>2 DEF Authenticate
    <3>2. links[g] \in Link
      OBVIOUS
    <3>3. named \in Link
      BY <2>1, <3>2 DEF Link
    <3> HIDE DEF named
    <3> QED
      BY <3>1, <3>3
  <2>3. /\ links'[g].pc = "read" /\ links'[g].id = links[g].next
        /\ \A d \in Links \ {g} : links'[d] = links[d]
    BY <1>2 DEF Authenticate, Link
  <2>4. UNCHANGED <<registry, counts, asked>>
    BY <1>2 DEF Authenticate
  <2>5. ASSUME NEW d \in Links
        PROVE  /\ links'[d].authed => links'[d].id \in registry'
               /\ links'[d].pc = "named" => links'[d].next \in registry'
               /\ links'[d].pc = "consume" => links'[d].acct \in Accounts
    BY <2>1, <2>3, <2>4
  <2> QED
    BY <2>2, <2>4, <2>5
<1>3. ASSUME NEW g \in Links, LoseLink(g) PROVE LinksTyped'
  BY <1>3 DEF LoseLink, Link
<1>4. ASSUME NEW g \in Links, NEW s \in Servers, AuthRequest(g, s) PROVE LinksTyped'
  BY <1>4 DEF AuthRequest, Link
<1>5. ASSUME NEW g \in Links, NEW a \in Accounts, ReplyCharacters(g, a) PROVE LinksTyped'
  BY <1>5 DEF ReplyCharacters, Serving, Counts
<1>6. ASSUME NEW s \in Servers, NEW a \in Accounts, DeliverEvent(s, a) PROVE LinksTyped'
  BY <1>6 DEF DeliverEvent
<1>7. ASSUME NEW s \in Servers, NEW a \in Accounts, CountExpires(a, s) PROVE LinksTyped'
  BY <1>7 DEF CountExpires, Counts
<1>8. UNCHANGED <<sessionVars, keyVars>> /\ EventsTyped'
  BY DEF LinkStep, Connect, Authenticate, LoseLink, AuthRequest, ReplyCharacters,
         DeliverEvent, CountExpires, EventsTyped
<1> QED
  BY <1>1, <1>2, <1>3, <1>4, <1>5, <1>6, <1>7, <1>8
     DEF LinkStep, ClientsTyped, KeysTyped, sessionVars, keyVars

LEMMA InitTyped == Init => Typed
  BY LoginAssumption
     DEF Init, Typed, ClientsTyped, KeysTyped, LinksTyped, EventsTyped, Client, KeyIds, Issue,
         Link, Counts

LEMMA StillTyped == Typed /\ UNCHANGED vars => Typed'
  BY DEF Typed, ClientsTyped, KeysTyped, LinksTyped, EventsTyped, vars, sessionVars, keyVars,
         serverVars

LEMMA AlwaysTyped == Spec => []Typed
<1>1. Typed /\ [Next]_vars => Typed'
  BY ThreeKinds, ClientStepTyped, KeyStepTyped, LinkStepTyped, StillTyped
<1> QED
  BY InitTyped, <1>1, PTL DEF Spec

-----------------------------------------------------------------------------
(* Clients and the account index. Only steps on behalf of clients write them. *)
ClientsSound == OneClientPerAccount /\ GoneIsUnregistered

LEMMA OthersKeepClients == KeyStep \/ LinkStep => UNCHANGED sessionVars
  BY DEF KeyStep, LinkStep, RequestServerLogin, ValidateSessionKey, RemoveSessionKey, PlayerLogout,
         KeyExpires, Connect, Authenticate, LoseLink, AuthRequest, ReplyCharacters,
         DeliverEvent, CountExpires

(* What a step may do to the clients without disturbing their registration. *)
LEMMA StaysRegistered ==
  ASSUME Typed, ClientsSound, UNCHANGED accounts,
         \A d \in Clients :
           /\ clients'[d].acct = clients[d].acct
           /\ clients'[d].pc = "gone" <=> clients[d].pc = "gone"
           /\ d \in online' /\ clients[d].acct # None => d \in online
           /\ clients[d].pc = "kick" =>
                \/ clients'[d].pc = "kick" /\ clients'[d].old = clients[d].old
                \/ clients[d].old \notin online'
  PROVE  ClientsSound'
  BY LoginAssumption DEF ClientsSound, OneClientPerAccount, GoneIsUnregistered

LEMMA ClientStepSound == Typed /\ ClientsSound /\ ClientStep => ClientsSound'
<1> SUFFICES ASSUME Typed, ClientsSound, ClientStep PROVE ClientsSound'
  OBVIOUS
<1>0. ClientsTyped /\ clients \in [Clients -> Client]
  BY DEF Typed, ClientsTyped
<1>1. ASSUME NEW c \in Clients, Accept(c) PROVE ClientsSound'
  BY <1>0, <1>1, StaysRegistered DEF Accept, Goes, ClientsTyped, Client
<1>2. ASSUME NEW c \in Clients, NEW a \in Accounts, NEW right \in BOOLEAN,
             RequestAuthLogin(c, a, right)
      PROVE  ClientsSound'
  BY <1>0, <1>2, StaysRegistered DEF RequestAuthLogin, Client
<1>3. ASSUME NEW c \in Clients, CreateAccount(c) PROVE ClientsSound'
  BY <1>0, <1>3, StaysRegistered DEF CreateAccount, Goes, Client
<1>4. ASSUME NEW c \in Clients, RegisterAccount(c) PROVE ClientsSound'
  <2> DEFINE a == clients[c].cand
  <2>1. a \in Accounts /\ accounts \in [Accounts -> Clients \union {None}]
    BY <1>0, <1>4 DEF RegisterAccount, ClientsTyped
  <2>2. /\ accounts'[a] = c /\ UNCHANGED online
        /\ \A b \in Accounts \ {a} : accounts'[b] = accounts[b]
    BY <1>4, <2>1 DEF RegisterAccount
  <2>3. /\ clients'[c].acct = a /\ clients'[c].pc \in {"kick", "ask"}
        /\ accounts[a] \notin {None, c} =>
             clients'[c].pc = "kick" /\ clients'[c].old = accounts[a]
        /\ \A d \in Clients \ {c} : clients'[d] = clients[d]
    BY <1>0, <1>4 DEF RegisterAccount, Client
  <2>4. clients[c].pc = "known"
    BY <1>4 DEF RegisterAccount
  <2> HIDE DEF a
  <2>5. OneClientPerAccount'
    <3> SUFFICES ASSUME NEW d \in Clients, NEW b \in Accounts, clients'[d].acct = b,
                        clients'[d].pc # "gone", accounts'[b] # d, d \in online'
                 PROVE  \E e \in Clients : clients'[e].pc = "kick" /\ clients'[e].old = d
      BY DEF OneClientPerAccount
    <3>1. d # c
      BY <2>2, <2>3
    <3>2. CASE b = a /\ accounts[a] = d
      BY <2>3, <3>1, <3>2, LoginAssumption
    <3>3. CASE ~(b = a /\ accounts[a] = d)
      <4>1. PICK e \in Clients : clients[e].pc = "kick" /\ clients[e].old = d
        BY <2>2, <2>3, <3>1, <3>3 DEF ClientsSound, OneClientPerAccount
      <4> QED
        BY <2>3, <2>4, <4>1
    <3> QED
      BY <3>2, <3>3
  <2>6. GoneIsUnregistered'
    <3> SUFFICES ASSUME NEW d \in Clients, clients'[d].pc = "gone", clients'[d].acct # None
                 PROVE  accounts'[clients'[d].acct] # d
      BY DEF GoneIsUnregistered
    <3>1. d # c /\ clients[d].acct \in Accounts
      BY <1>0, <2>3 DEF Client
    <3> QED
      BY <2>2, <2>3, <3>1 DEF ClientsSound, GoneIsUnregistered
  <2> QED
    BY <2>5, <2>6 DEF ClientsSound
<1>5. ASSUME NEW c \in Clients, KickOld(c) PROVE ClientsSound'
  BY <1>0, <1>5, StaysRegistered DEF KickOld, Client
<1>6. ASSUME NEW c \in Clients, AskCounts(c) PROVE ClientsSound'
  BY <1>0, <1>6, StaysRegistered DEF AskCounts, Goes, Client
<1>7. ASSUME NEW c \in Clients, HangUp(c) PROVE ClientsSound'
  BY <1>0, <1>7, StaysRegistered DEF HangUp
<1>8. ASSUME NEW c \in Clients, RemoveClient(c) PROVE ClientsSound'
  <2>1. /\ clients'[c].pc = "gone" /\ clients'[c].acct = clients[c].acct
        /\ \A d \in Clients \ {c} : clients'[d] = clients[d]
        /\ UNCHANGED online /\ clients[c].pc = "read"
    BY <1>0, <1>8 DEF RemoveClient, Goes, Client
  <2>2. \A b \in Accounts : accounts'[b] = IF clients[c].acct = b /\ accounts[b] = c
                                            THEN None ELSE accounts[b]
    BY <1>0, <1>8, LoginAssumption DEF RemoveClient, Dropped, ClientsTyped
  <2>3. \A d \in Clients : clients[d].acct \in Accounts \union {None}
    BY <1>0 DEF Client
  <2>4. OneClientPerAccount'
    BY <2>1, <2>2 DEF ClientsSound, OneClientPerAccount
  <2>5. GoneIsUnregistered'
    BY <2>1, <2>2, <2>3, LoginAssumption DEF ClientsSound, GoneIsUnregistered
  <2> QED
    BY <2>4, <2>5 DEF ClientsSound
<1> QED
  BY <1>1, <1>2, <1>3, <1>4, <1>5, <1>6, <1>7, <1>8 DEF ClientStep, Busy

LEMMA ClientsStaySound == Typed /\ ClientsSound /\ [Next]_vars => ClientsSound'
<1>1. ASSUME ClientsSound, UNCHANGED sessionVars PROVE ClientsSound'
  BY <1>1 DEF ClientsSound, OneClientPerAccount, GoneIsUnregistered, sessionVars
<1> QED
  BY <1>1, ThreeKinds, ClientStepSound, OthersKeepClients DEF vars

-----------------------------------------------------------------------------
(* Session keys. They are issued in order and stored for their account, under
   which nothing newer exists; one that a connection has accepted is gone, or
   about to be removed by that connection before it reads on. *)
IssuedInOrder ==
  \A j, k \in KeyIds : issued[k].account # None /\ j < k => issued[j].account # None
StoredIsNewest ==
  \A a \in Accounts : keys[a] # 0 =>
    /\ issued[keys[a]].account = a
    /\ \A j \in KeyIds : issued[j].account = a => j <= keys[a]
AcceptedIsConsumed ==
  \A g \in Links, k \in KeyIds : uses[g][k] # 0 =>
    /\ issued[k].account \in Accounts
    /\ keys[issued[k].account] = k =>
         links[g].pc = "consume" /\ links[g].acct = issued[k].account

KeysSound == IssuedInOrder /\ StoredIsNewest /\ AcceptedIsConsumed /\ AcceptedOncePerLink

(* Removing keys, and moving connections that are not consuming one. *)
LEMMA ForgettingKeys ==
  ASSUME Typed, KeysSound, UNCHANGED <<issued, uses>>,
         \A a \in Accounts : keys'[a] \in {keys[a], 0},
         \A g \in Links :
           \/ (links'[g].pc = links[g].pc /\ links'[g].acct = links[g].acct)
           \/ links[g].pc # "consume"
           \/ keys'[links[g].acct] = 0
  PROVE  KeysSound'
<1>1. IssuedInOrder' /\ AcceptedOncePerLink'
  BY DEF KeysSound, IssuedInOrder, AcceptedOncePerLink
<1>2. StoredIsNewest'
  BY DEF KeysSound, StoredIsNewest
<1>3. AcceptedIsConsumed'
  <2> SUFFICES ASSUME NEW g \in Links, NEW k \in KeyIds, uses[g][k] # 0,
                      keys'[issued[k].account] = k
               PROVE  links'[g].pc = "consume" /\ links'[g].acct = issued[k].account
    BY DEF KeysSound, AcceptedIsConsumed
  <2>1. k # 0 /\ issued[k].account \in Accounts
    BY LoginAssumption DEF KeysSound, AcceptedIsConsumed, KeyIds
  <2>2. keys[issued[k].account] = k
    BY <2>1
  <2>3. links[g].pc = "consume" /\ links[g].acct = issued[k].account
    BY <2>2 DEF KeysSound, AcceptedIsConsumed
  <2> QED
    BY <2>1, <2>3
<1> QED
  BY <1>1, <1>2, <1>3 DEF KeysSound

LEMMA ValidationSound ==
  ASSUME Typed, KeysSound, NEW g \in Links, NEW a \in Accounts, NEW k \in KeyIds,
         ValidateSessionKey(g, a, k)
  PROVE  /\ KeysSound'
         /\ \A f \in Links, j \in KeyIds : uses'[f][j] > uses[f][j] =>
              f = g /\ j = k /\ links'[g].acct = a /\ keys[a] = k
<1>1. /\ keys \in [Accounts -> 0..MaxKeys] /\ links \in [Links -> Link]
      /\ uses \in [Links -> [KeyIds -> 0..2]] /\ k # 0 /\ None \notin Accounts
  BY LoginAssumption DEF Typed, KeysTyped, LinksTyped, KeyIds
<1>2. CASE keys[a] # 0 /\ a \notin expired /\ SameKey(keys[a], k)
  <2>1. /\ keys[a] = k /\ UNCHANGED <<keys, issued>>
        /\ links' = [links EXCEPT ![g].pc = "consume", ![g].acct = a]
        /\ uses' = [uses EXCEPT ![g][k] = IF @ < 2 THEN @ + 1 ELSE @]
    BY <1>2 DEF ValidateSessionKey, SameKey
  <2>2. links[g].pc = "read" /\ links'[g].pc = "consume" /\ links'[g].acct = a
    BY <1>1, <2>1 DEF ValidateSessionKey, Serving, Link
  <2>3. \A f \in Links \ {g} : links'[f] = links[f]
    BY <1>1, <2>1
  <2>4. issued[k].account = a
    BY <1>1, <2>1 DEF KeysSound, StoredIsNewest
  <2>5. uses[g][k] = 0
    BY <2>1, <2>2, <2>4 DEF KeysSound, AcceptedIsConsumed
  <2>6. /\ uses'[g][k] = 1
        /\ \A f \in Links, j \in KeyIds : f # g \/ j # k => uses'[f][j] = uses[f][j]
    BY <1>1, <2>1, <2>5
  <2>7. AcceptedOncePerLink'
    BY <2>6 DEF KeysSound, AcceptedOncePerLink
  <2>8. AcceptedIsConsumed'
    <3> SUFFICES ASSUME NEW f \in Links, NEW j \in KeyIds, uses'[f][j] # 0
                 PROVE  /\ issued[j].account \in Accounts
                        /\ keys[issued[j].account] = j =>
                             links'[f].pc = "consume" /\ links'[f].acct = issued[j].account
      <4>1. UNCHANGED <<keys, issued>>
        BY <2>1
      <4> QED
        BY <4>1 DEF AcceptedIsConsumed
    <3>1. CASE f = g /\ j = k
      BY <2>2, <2>4, <3>1
    <3>2. CASE ~(f = g /\ j = k)
      <4>1. uses[f][j] # 0
        BY <2>6, <3>2
      <4>2. f # g \/ keys[issued[j].account] # j
        BY <2>2, <4>1 DEF KeysSound, AcceptedIsConsumed
      <4> QED
        BY <2>3, <4>1, <4>2 DEF KeysSound, AcceptedIsConsumed
    <3> QED
      BY <3>1, <3>2
  <2>9. IssuedInOrder' /\ StoredIsNewest'
    BY <2>1 DEF KeysSound, IssuedInOrder, StoredIsNewest
  <2>10. \A f \in Links, j \in KeyIds : uses'[f][j] > uses[f][j] => f = g /\ j = k
    <3> SUFFICES ASSUME NEW f \in Links, NEW j \in KeyIds, f # g \/ j # k
                 PROVE  ~(uses'[f][j] > uses[f][j])
      OBVIOUS
    <3>1. uses'[f][j] = uses[f][j] /\ uses[f][j] \in 0..2
      BY <1>1, <2>6
    <3> QED
      BY <3>1
  <2> QED
    BY <2>1, <2>2, <2>7, <2>8, <2>9, <2>10 DEF KeysSound
<1>3. CASE ~(keys[a] # 0 /\ a \notin expired /\ SameKey(keys[a], k))
  <2>1. /\ UNCHANGED <<issued, links, uses>>
        /\ keys' = IF a \in expired THEN [keys EXCEPT ![a] = 0] ELSE keys
    BY <1>3 DEF ValidateSessionKey
  <2>2. \A b \in Accounts : keys'[b] \in {keys[b], 0}
    BY <1>1, <2>1
  <2>3. KeysSound'
    BY <2>1, <2>2, ForgettingKeys
  <2>4. \A f \in Links, j \in KeyIds : ~(uses'[f][j] > uses[f][j])
    <3> SUFFICES ASSUME NEW f \in Links, NEW j \in KeyIds PROVE ~(uses'[f][j] > uses[f][j])
      OBVIOUS
    <3>1. uses'[f][j] = uses[f][j] /\ uses[f][j] \in 0..2
      BY <1>1, <2>1
    <3> QED
      BY <3>1
  <2> QED
    BY <2>3, <2>4
<1> QED
  BY <1>2, <1>3

LEMMA NewKeySound ==
  ASSUME Typed, KeysSound, NEW c \in Clients, NEW s \in Servers, RequestServerLogin(c, s)
  PROVE  KeysSound'
<1> DEFINE a == clients[c].acct
<1>1. PICK k \in KeyIds :
        /\ issued[k].account = None /\ \A j \in 1..(k - 1) : issued[j].account # None
        /\ NewKey(a, s, k)
  BY DEF RequestServerLogin
<1>2. /\ a \in Accounts /\ None \notin Accounts
      /\ keys \in [Accounts -> 0..MaxKeys] /\ issued \in [KeyIds -> Issue] /\ MaxKeys \in Nat
      /\ UNCHANGED <<uses, links>>
  BY LoginAssumption
     DEF RequestServerLogin, Typed, ClientsTyped, KeysTyped, Client, serverVars
<1>3. /\ keys'[a] = k /\ \A b \in Accounts \ {a} : keys'[b] = keys[b]
      /\ issued'[k].account = a /\ \A j \in KeyIds \ {k} : issued'[j] = issued[j]
  BY <1>1, <1>2 DEF NewKey
<1> HIDE DEF a
<1>4. \A j \in KeyIds : j < k => issued[j].account # None
  BY <1>1, <1>2 DEF KeyIds
<1>5. \A j \in KeyIds : issued[j].account # None => j < k
  BY <1>1, <1>2 DEF KeysSound, IssuedInOrder, KeyIds
<1>6. IssuedInOrder'
  BY <1>2, <1>3, <1>4, <1>5 DEF IssuedInOrder, KeyIds
<1>7. StoredIsNewest'
  <2> SUFFICES ASSUME NEW b \in Accounts, keys'[b] # 0
               PROVE  /\ issued'[keys'[b]].account = b
                      /\ \A j \in KeyIds : issued'[j].account = b => j <= keys'[b]
    BY DEF StoredIsNewest
  <2>1. CASE b = a
    BY <1>2, <1>3, <1>5, <2>1 DEF KeyIds
  <2>2. CASE b # a
    <3>0. keys'[b] = keys[b] /\ keys[b] \in 0..MaxKeys /\ keys[b] # 0
      BY <1>2, <1>3, <2>2
    <3>1. keys[b] \in KeyIds /\ keys'[b] = keys[b] /\ issued[keys[b]].account = b
      <4>1. keys[b] \in KeyIds
        BY <1>2, <3>0 DEF KeyIds
      <4> QED
        BY <3>0, <4>1 DEF KeysSound, StoredIsNewest
    <3>2. keys[b] # k
      BY <1>1, <1>2, <3>1
    <3> QED
      BY <1>3, <2>2, <3>1, <3>2 DEF KeysSound, StoredIsNewest
  <2> QED
    BY <2>1, <2>2
<1>8. AcceptedIsConsumed'
  <2> SUFFICES ASSUME NEW g \in Links, NEW j \in KeyIds, uses[g][j] # 0
               PROVE  /\ issued'[j].account \in Accounts
                      /\ keys'[issued'[j].account] = j =>
                           links[g].pc = "consume" /\ links[g].acct = issued'[j].account
    BY <1>2 DEF AcceptedIsConsumed
  <2>1. issued[j].account \in Accounts
    BY DEF KeysSound, AcceptedIsConsumed
  <2>2. j # k
    BY <1>1, <1>2, <2>1
  <2> QED
    BY <1>3, <2>1, <2>2 DEF KeysSound, AcceptedIsConsumed
<1>9. AcceptedOncePerLink'
  BY <1>2 DEF KeysSound, AcceptedOncePerLink
<1> QED
  BY <1>6, <1>7, <1>8, <1>9 DEF KeysSound

(* The steps that leave the keys alone leave what is being consumed alone, too. *)
LEMMA LinkStepKeepsKeys ==
  Typed /\ LinkStep =>
    /\ UNCHANGED keyVars
    /\ \A g \in Links : (links'[g].pc = links[g].pc /\ links'[g].acct = links[g].acct)
                         \/ links[g].pc # "consume"
<1> SUFFICES ASSUME Typed, LinkStep
             PROVE  /\ UNCHANGED keyVars
                    /\ \A g \in Links :
                         (links'[g].pc = links[g].pc /\ links'[g].acct = links[g].acct)
                         \/ links[g].pc # "consume"
  OBVIOUS
<1>1. links \in [Links -> Link]
  BY DEF Typed, LinksTyped
<1>2. UNCHANGED keyVars
  BY DEF LinkStep, Connect, Authenticate, LoseLink, AuthRequest, ReplyCharacters, DeliverEvent,
         CountExpires
<1>3. UNCHANGED links \/ \E g \in Links : /\ links[g].pc # "consume"
                                        /\ \A f \in Links \ {g} : links'[f] = links[f]
  BY <1>1 DEF LinkStep, Connect, Authenticate, LoseLink, AuthRequest, ReplyCharacters,
              DeliverEvent, CountExpires
<1> QED
  BY <1>2, <1>3

LEMMA ClientStepKeepsKeys == ClientStep => UNCHANGED <<keyVars, serverVars>>
  BY DEF ClientStep, Busy, Accept, RequestAuthLogin, CreateAccount, RegisterAccount,
         KickOld, AskCounts, HangUp, RemoveClient

LEMMA KeyStepSound == Typed /\ KeysSound /\ KeyStep => KeysSound'
<1> SUFFICES ASSUME Typed, KeysSound, KeyStep PROVE KeysSound'
  OBVIOUS
<1>0. keys \in [Accounts -> 0..MaxKeys] /\ links \in [Links -> Link]
  BY DEF Typed, KeysTyped, LinksTyped
<1>1. ASSUME NEW g \in Links, RemoveSessionKey(g) PROVE KeysSound'
  <2>1. links[g].acct \in Accounts
    BY <1>1 DEF RemoveSessionKey, Typed, LinksTyped
  <2>2. /\ keys' = [keys EXCEPT ![links[g].acct] = 0] /\ UNCHANGED <<issued, uses>>
        /\ \A f \in Links \ {g} : links'[f] = links[f]
    BY <1>0, <1>1 DEF RemoveSessionKey
  <2>3. keys'[links[g].acct] = 0 /\ \A a \in Accounts : keys'[a] \in {keys[a], 0}
    BY <1>0, <2>1, <2>2
  <2> QED
    BY <2>2, <2>3, ForgettingKeys
<1>2. ASSUME NEW g \in Links, NEW a \in Accounts, PlayerLogout(g, a) PROVE KeysSound'
  <2>1. keys' = [keys EXCEPT ![a] = 0] /\ UNCHANGED <<issued, uses, links>>
    BY <1>2 DEF PlayerLogout, serverVars
  <2>2. \A b \in Accounts : keys'[b] \in {keys[b], 0}
    BY <1>0, <2>1
  <2> QED
    BY <2>1, <2>2, ForgettingKeys
<1>3. ASSUME NEW a \in Accounts, KeyExpires(a) PROVE KeysSound'
  <2>1. UNCHANGED <<keys, issued, uses, links>>
    BY <1>3 DEF KeyExpires, serverVars
  <2> QED
    BY <2>1, ForgettingKeys
<1> QED
  BY <1>1, <1>2, <1>3, NewKeySound, ValidationSound DEF KeyStep

LEMMA KeysStaySound == Typed /\ KeysSound /\ [Next]_vars => KeysSound'
<1> SUFFICES ASSUME Typed, KeysSound, [Next]_vars PROVE KeysSound'
  OBVIOUS
<1>1. CASE KeyStep
  BY <1>1, KeyStepSound
<1>2. CASE ~KeyStep
  <2>1. /\ UNCHANGED <<keys, issued, uses>>
        /\ \A g \in Links : (links'[g].pc = links[g].pc /\ links'[g].acct = links[g].acct)
                             \/ links[g].pc # "consume"
    BY <1>2, ThreeKinds, LinkStepKeepsKeys, ClientStepKeepsKeys DEF vars, keyVars, serverVars
  <2> QED
    BY <2>1, ForgettingKeys
<1> QED
  BY <1>1, <1>2

-----------------------------------------------------------------------------
(* Counts are stored under the id of a connection that is registered, and nothing
   is ever taken out of the registry. *)
LEMMA CountsStayListed == Typed /\ CountsOfListed /\ [Next]_vars => CountsOfListed'
<1> SUFFICES ASSUME Typed, CountsOfListed, [Next]_vars PROVE CountsOfListed'
  OBVIOUS
<1>0. counts \in [Accounts -> Counts] /\ \A g \in Links : links[g].authed => links[g].id \in registry
  BY DEF Typed, LinksTyped
<1>1. registry \subseteq registry'
  BY ThreeKinds, ClientStepKeepsKeys
     DEF KeyStep, RequestServerLogin, ValidateSessionKey, RemoveSessionKey, PlayerLogout,
         KeyExpires, LinkStep, Connect, Authenticate, LoseLink, AuthRequest, ReplyCharacters,
         DeliverEvent, CountExpires, vars, serverVars
<1>2. \/ UNCHANGED counts
      \/ \E g \in Links, a \in Accounts : ReplyCharacters(g, a)
      \/ \E s \in Servers, a \in Accounts : CountExpires(a, s)
  BY ThreeKinds, ClientStepKeepsKeys
     DEF KeyStep, RequestServerLogin, ValidateSessionKey, RemoveSessionKey, PlayerLogout,
         KeyExpires, LinkStep, Connect, Authenticate, LoseLink, AuthRequest,
         DeliverEvent, vars, serverVars
<1>3. \A a \in Accounts, s \in Servers :
        counts'[a][s] = "fresh" => counts[a][s] = "fresh" \/ s \in registry
  <2>1. CASE UNCHANGED counts
    BY <2>1
  <2>2. ASSUME NEW g \in Links, NEW a \in Accounts, ReplyCharacters(g, a)
        PROVE  \A b \in Accounts, s \in Servers :
                 counts'[b][s] = "fresh" => counts[b][s] = "fresh" \/ s \in registry
    BY <1>0, <2>2 DEF ReplyCharacters, Serving, Counts
  <2>3. ASSUME NEW t \in Servers, NEW a \in Accounts, CountExpires(a, t)
        PROVE  \A b \in Accounts, s \in Servers :
                 counts'[b][s] = "fresh" => counts[b][s] = "fresh" \/ s \in registry
    BY <1>0, <2>3 DEF CountExpires, Counts
  <2> QED
    BY <1>2, <2>1, <2>2, <2>3
<1> QED
  BY <1>1, <1>3 DEF CountsOfListed, CountsShown, VisibleServers

-----------------------------------------------------------------------------
LEMMA InitSound == Init => ClientsSound /\ KeysSound /\ CountsOfListed
<1> SUFFICES ASSUME Init PROVE ClientsSound /\ KeysSound /\ CountsOfListed
  OBVIOUS
<1>1. ClientsSound
  BY LoginAssumption DEF Init, ClientsSound, OneClientPerAccount, GoneIsUnregistered
<1>2. KeysSound
  BY LoginAssumption
     DEF Init, KeysSound, IssuedInOrder, StoredIsNewest, AcceptedIsConsumed, AcceptedOncePerLink,
         KeyIds
<1>3. CountsOfListed
  BY DEF Init, CountsOfListed, CountsShown
<1> QED
  BY <1>1, <1>2, <1>3

LEMMA AlwaysSound == Spec => [](Typed /\ ClientsSound /\ KeysSound /\ CountsOfListed)
<1> DEFINE Sound == ClientsSound /\ KeysSound /\ CountsOfListed
<1>1. Typed /\ Sound /\ [Next]_vars => Sound'
  BY ClientsStaySound, KeysStaySound, CountsStayListed
<1>2. Init => Sound
  BY InitSound
<1> HIDE DEF Sound
<1>3. Spec => []Sound
  BY <1>1, <1>2, AlwaysTyped, PTL DEF Spec
<1>4. Sound => ClientsSound /\ KeysSound /\ CountsOfListed
  BY DEF Sound
<1> QED
  BY <1>3, <1>4, AlwaysTyped, PTL

(* Whatever clients and game servers do, all but one client of an account are
   closed or about to be, who has gone is not registered, and counts are shown
   for listed servers only (registerAccount, removeClient, SetCharacterCount). *)
THEOREM RegistriesStaySound == Spec => []RegistriesSound
<1>1. Typed /\ ClientsSound /\ KeysSound /\ CountsOfListed => RegistriesSound
  BY TypedIsTypeOK DEF RegistriesSound, ClientsSound
<1> QED
  BY <1>1, AlwaysSound, PTL

(* A connection accepts a key once (ValidateSessionKey and RemoveSessionKey take
   the lock of the keys one after the other). *)
THEOREM AcceptedAtMostOnce == Spec => []AcceptedOncePerLink
<1>1. Typed /\ ClientsSound /\ KeysSound /\ CountsOfListed => AcceptedOncePerLink
  BY DEF KeysSound
<1> QED
  BY <1>1, AlwaysSound, PTL

(* Only the newest key of an account is accepted, for that account
   (CreateSessionKey, SessionKey.Equals). *)
THEOREM OnlyNewestAccepted == Spec => AcceptsNewest
<1> DEFINE Newest == \A g \in Links, k \in KeyIds : uses'[g][k] > uses[g][k] =>
             /\ links'[g].acct = issued[k].account
             /\ \A j \in KeyIds : issued[j].account = issued[k].account => j <= k
<1>1. ASSUME Typed, KeysSound, [Next]_vars PROVE Newest \/ UNCHANGED vars
  <2>1. ASSUME NEW g \in Links, NEW a \in Accounts, NEW k \in KeyIds, ValidateSessionKey(g, a, k)
        PROVE  Newest
    <3>1. k # 0
      BY LoginAssumption DEF KeyIds
    <3>2. keys[a] = k => issued[k].account = a /\ \A j \in KeyIds : issued[j].account = a => j <= k
      BY <3>1, <1>1 DEF KeysSound, StoredIsNewest
    <3> QED
      BY <1>1, <2>1, <3>2, ValidationSound
  <2>2. CASE ~\E g \in Links, a \in Accounts, k \in KeyIds : ValidateSessionKey(g, a, k)
    <3>1. UNCHANGED uses
      BY <1>1, <2>2, ThreeKinds, ClientStepKeepsKeys, LinkStepKeepsKeys
         DEF KeyStep, RequestServerLogin, RemoveSessionKey, PlayerLogout, KeyExpires, vars, keyVars
    <3>2. \A g \in Links, k \in KeyIds : uses[g][k] \in 0..2
      BY <1>1 DEF Typed, KeysTyped
    <3>3. ASSUME NEW g \in Links, NEW k \in KeyIds PROVE ~(uses'[g][k] > uses[g][k])
      <4>1. uses'[g][k] = uses[g][k] /\ uses[g][k] \in 0..2
        BY <3>1, <3>2
      <4> QED
        BY <4>1
    <3> QED
      BY <3>3
  <2> QED
    BY <2>1, <2>2
<1>2. Typed /\ KeysSound /\ [Next]_vars => [Newest]_vars
  BY <1>1
<1>3. Spec => [][Newest]_vars
  <2> HIDE DEF Newest
  <2> QED
    BY <1>2, AlwaysSound, PTL DEF Spec
<1> QED
  BY <1>3 DEF AcceptsNewest
=============================================================================
