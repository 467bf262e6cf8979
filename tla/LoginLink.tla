----------------------------- MODULE LoginLink -----------------------------
(* The connection of the game server to the login server: the dialling at
   startup, the background reconnectors and the callback of a lost connection
   (internal/gameserver/service.go), the reader goroutine of a connection and
   the sends (handlers/loginserver, transport/loginserver.go), and the login
   server's end of it (loginserver/handlers/gameserver,
   loginserver/transport/gameserver.go).

   A packet is its kind and the Blowfish key it was encrypted with: "static" is
   the key compiled into both programs, "dynamic" the one the game server draws
   for the connection. A packet decrypted with the other key fails its checksum.
   Timers are not measured, save for two comparisons: the 100 ms before
   AuthRequest outlast the two assignments that follow in handleInitLS, and the
   30 s of a reconnector outlast those 100 ms. The stop of the server is not
   part of it. *)
EXTENDS Naturals, Sequences

CONSTANTS
  Recons,      \* identities of background reconnection goroutines
  MaxConns,    \* bound: connections ever made
  MaxRetries,  \* attempts at startup before the background takes over
  MaxInFlight  \* bound: packets under way in one direction

ASSUME LinkAssumption ==
  /\ MaxConns \in Nat \ {0} /\ MaxRetries \in Nat \ {0} /\ MaxInFlight \in Nat \ {0}
  /\ "startup" \notin Recons

VARIABLES
  connected,   \* handler.connected
  conn,        \* handler.conn: the connection, 0 for nil
  made,        \* connections made so far, 1..made
  reader,      \* per connection, where its reader goroutine is
  gsKey,       \* per connection, the key the game server sends and reads with
  connectedToLS, authenticatedLS, isReconnecting,  \* status flags of the service
  attempts,    \* failed attempts of the startup loop
  pc,          \* per dialling goroutine, where it is
  authTimers,  \* connections whose delayed AuthRequest is still to be sent
  up,          \* per connection, whether the socket is open
  toLS, toGS,  \* per connection, the packets under way
  lsKey,       \* per connection, the key the login server sends and reads with
  lsAuthed,    \* per connection, GameServer.Authenticated
  listed       \* the login server's gameServers map

flags    == <<connectedToLS, authenticatedLS, isReconnecting>>
gsVars   == <<connected, conn, made, reader, gsKey, flags, attempts, pc, authTimers>>
lsConn   == <<lsKey, lsAuthed>>
lsVars   == <<lsConn, listed>>
wire     == <<up, toLS, toGS>>
linkVars == <<gsVars, lsVars, wire>>

Conns   == 1..MaxConns
Dialers == Recons \union {"startup"}
\* The two keys of either end of a connection.
Keys    == {"static", "dynamic"}

ToLSKinds == {"BlowFishKey", "AuthRequest", "PlayerAuthRequest", "ServerStatus", "ReplyCharacters"}
ToGSKinds == {"InitLS", "AuthResponse", "PlayerAuthResponse", "RequestCharacters"}
Packets(kinds) == [kind : kinds, key : Keys]

LinkTypeOK ==
  /\ connected \in BOOLEAN /\ conn \in 0..MaxConns /\ made \in 0..MaxConns
  /\ reader \in [Conns -> {"none", "loop", "recv", "switch", "defer", "told", "ask", "spawn", "off"}]
  /\ gsKey \in [Conns -> Keys] /\ lsKey \in [Conns -> Keys]
  /\ connectedToLS \in BOOLEAN /\ authenticatedLS \in BOOLEAN /\ isReconnecting \in BOOLEAN
  /\ attempts \in 0..MaxRetries
  /\ pc \in [Dialers -> {"wait", "dial", "flag", "settle", "off"}]
  /\ authTimers \subseteq Conns /\ listed \subseteq Conns
  /\ up \in [Conns -> BOOLEAN] /\ lsAuthed \in [Conns -> BOOLEAN]
  /\ \A c \in Conns : /\ toLS[c] \in Seq(Packets(ToLSKinds))
                      /\ toGS[c] \in Seq(Packets(ToGSKinds))

LinkInit ==
  /\ connected = FALSE /\ conn = 0 /\ made = 0 /\ attempts = 0
  /\ reader = [c \in Conns |-> "none"]
  /\ connectedToLS = FALSE /\ authenticatedLS = FALSE /\ isReconnecting = FALSE
  /\ pc = [d \in Dialers |-> IF d = "startup" THEN "dial" ELSE "off"]
  /\ authTimers = {} /\ listed = {}
  /\ gsKey = [c \in Conns |-> "static"] /\ lsKey = [c \in Conns |-> "static"]
  /\ up = [c \in Conns |-> FALSE] /\ lsAuthed = [c \in Conns |-> FALSE]
  /\ toLS = [c \in Conns |-> <<>>] /\ toGS = [c \in Conns |-> <<>>]

-----------------------------------------------------------------------------
(* Dialling. *)

\* startBackgroundReconnection: the flag, and one more goroutine.
Spawn(pcs) ==
  /\ isReconnecting' = TRUE
  /\ \E r \in Recons : /\ pcs[r] = "off"
                       /\ pc' = [pcs EXCEPT ![r] = "wait"]
\* connectToLoginServer succeeds: the connection and its reader exist, and the
\* login server has accepted it and sent InitLS; the flag is set later.
DialSucceeds(d) ==
  /\ pc[d] = "dial" /\ ~connected /\ made < MaxConns
  /\ LET c == made + 1 IN
     /\ made' = c /\ conn' = c /\ connected' = TRUE
     /\ reader' = [reader EXCEPT ![c] = "loop"]
     /\ up' = [up EXCEPT ![c] = TRUE]
     /\ listed' = listed \union {c}
     /\ toGS' = [toGS EXCEPT ![c] = <<[kind |-> "InitLS", key |-> lsKey[c]]>>]
  /\ pc' = [pc EXCEPT ![d] = "flag"]
  /\ UNCHANGED <<gsKey, connectedToLS, authenticatedLS, isReconnecting, attempts,
                 authTimers, toLS, lsKey, lsAuthed>>

\* Mutant: a reconnector returns after a failed attempt.
DialFailsGivesUp(d) ==
  /\ pc[d] = "dial"
  /\ IF d = "startup"
       THEN /\ attempts' = attempts + 1
            /\ IF attempts' = MaxRetries
                 THEN Spawn([pc EXCEPT ![d] = "off"])
                 ELSE UNCHANGED <<pc, isReconnecting>>
       ELSE /\ pc' = [pc EXCEPT ![d] = "off"]
            /\ UNCHANGED <<attempts, isReconnecting>>
  /\ UNCHANGED <<connected, conn, made, reader, gsKey, connectedToLS, authenticatedLS,
                 authTimers, lsVars, wire>>

\* It fails: the login server refuses, or the handler is connected already. The
\* startup loop gives up after MaxRetries attempts, a reconnector never.
DialFails(d) ==
  /\ pc[d] = "dial"
  /\ IF d = "startup"
       THEN /\ attempts' = attempts + 1
            /\ IF attempts' = MaxRetries
                 THEN Spawn([pc EXCEPT ![d] = "off"])
                 ELSE UNCHANGED <<pc, isReconnecting>>
       ELSE /\ pc' = [pc EXCEPT ![d] = "wait"]
            /\ UNCHANGED <<attempts, isReconnecting>>
  /\ UNCHANGED <<connected, conn, made, reader, gsKey, connectedToLS, authenticatedLS,
                 authTimers, lsVars, wire>>

Flag(d) ==
  /\ pc[d] = "flag"
  /\ connectedToLS' = TRUE
  /\ pc' = [pc EXCEPT ![d] = "settle"]
  /\ UNCHANGED <<connected, conn, made, reader, gsKey, authenticatedLS, isReconnecting,
                 attempts, authTimers, lsVars, wire>>

Settle(d) ==
  /\ pc[d] = "settle"
  /\ isReconnecting' = FALSE
  /\ pc' = [pc EXCEPT ![d] = "off"]
  /\ attempts' = 0
  /\ UNCHANGED <<connected, conn, made, reader, gsKey, connectedToLS, authenticatedLS,
                 authTimers, lsVars, wire>>

\* A tick of a reconnector, 30 s after the last: it stops when the flag says
\* connected.
Tick(r) ==
  /\ pc[r] = "wait" /\ authTimers = {}
  /\ pc' = [pc EXCEPT ![r] = IF connectedToLS THEN "settle" ELSE "dial"]
  /\ UNCHANGED <<connected, conn, made, reader, gsKey, connectedToLS, authenticatedLS,
                 isReconnecting, attempts, authTimers, lsVars, wire>>

-----------------------------------------------------------------------------
(* Sends of the game server: under the handler's lock, on the connection it
   holds, with the key that connection has at that moment. *)

Sendable == connected /\ up[conn]
SendPacket(kind) ==
  toLS' = IF Sendable
            THEN [toLS EXCEPT ![conn] = Append(@, [kind |-> kind, key |-> gsKey[conn]])]
            ELSE toLS
Room == conn # 0 => Len(toLS[conn]) < MaxInFlight

\* The goroutine HandleInitLS started, 100 ms later.
SendAuthRequest(c) ==
  /\ c \in authTimers /\ reader[c] # "switch" /\ Room
  /\ authTimers' = authTimers \ {c}
  /\ SendPacket("AuthRequest")
  /\ UNCHANGED <<connected, conn, made, reader, gsKey, connectedToLS, authenticatedLS,
                 isReconnecting, attempts, pc, up, toGS, lsVars>>

\* startHeartbeat: only when both flags are set.
Heartbeat ==
  /\ connectedToLS /\ authenticatedLS /\ Sendable /\ Room
  /\ SendPacket("ServerStatus")
  /\ UNCHANGED <<gsVars, up, toGS, lsVars>>

\* A client's AuthLogin asks for its session key to be checked, whatever the
\* state of the link, on the client's goroutine.
ClientAuth ==
  /\ Sendable /\ Room
  /\ SendPacket("PlayerAuthRequest")
  /\ UNCHANGED <<gsVars, up, toGS, lsVars>>

-----------------------------------------------------------------------------
(* The reader goroutine of a connection. *)

ReaderGoes(c, where) == reader' = [reader EXCEPT ![c] = where]

Loop(c) ==
  /\ reader[c] = "loop"
  /\ ReaderGoes(c, IF connected THEN "recv" ELSE "defer")
  /\ UNCHANGED <<connected, conn, made, gsKey, connectedToLS, authenticatedLS,
                 isReconnecting, attempts, pc, authTimers, lsVars, wire>>

\* InitLS: the delayed AuthRequest is started, BlowFishKey is sent under the key
\* in use, and only then is the key switched (SwitchKey).
HandleInitLS(c) ==
  /\ authTimers' = authTimers \union {c}
  /\ SendPacket("BlowFishKey")
  /\ ReaderGoes(c, IF Sendable THEN "switch" ELSE "defer")
  /\ UNCHANGED authenticatedLS

HandleAuthResponse(c) ==
  /\ authenticatedLS' = TRUE
  /\ ReaderGoes(c, "loop")
  /\ UNCHANGED <<authTimers, toLS>>

\* A refused player is not disconnected: DisconnectPlayer does nothing.
HandlePlayerAuthResponse(c) ==
  /\ ReaderGoes(c, "loop")
  /\ UNCHANGED <<authTimers, authenticatedLS, toLS>>

HandleRequestCharacters(c) ==
  /\ Room
  /\ SendPacket("ReplyCharacters")
  /\ ReaderGoes(c, IF Sendable THEN "loop" ELSE "defer")
  /\ UNCHANGED <<authTimers, authenticatedLS>>

ReaderReceive(c) ==
  /\ reader[c] = "recv" /\ toGS[c] # <<>>
  /\ toGS' = [toGS EXCEPT ![c] = Tail(@)]
  /\ LET p == Head(toGS[c]) IN
     \/ /\ p.key # gsKey[c]
        /\ ReaderGoes(c, "defer")
        /\ UNCHANGED <<authTimers, authenticatedLS, toLS>>
     \/ p.key = gsKey[c] /\ p.kind = "InitLS" /\ HandleInitLS(c)
     \/ p.key = gsKey[c] /\ p.kind = "AuthResponse" /\ HandleAuthResponse(c)
     \/ p.key = gsKey[c] /\ p.kind = "PlayerAuthResponse" /\ HandlePlayerAuthResponse(c)
     \/ p.key = gsKey[c] /\ p.kind = "RequestCharacters" /\ HandleRequestCharacters(c)
  /\ UNCHANGED <<connected, conn, made, gsKey, connectedToLS, isReconnecting, attempts,
                 pc, up, lsVars>>

SwitchKey(c) ==
  /\ reader[c] = "switch"
  /\ gsKey' = [gsKey EXCEPT ![c] = "dynamic"]
  /\ ReaderGoes(c, "loop")
  /\ UNCHANGED <<connected, conn, made, connectedToLS, authenticatedLS, isReconnecting,
                 attempts, pc, authTimers, lsVars, wire>>

\* Mutant: the handler is marked disconnected as soon as the read fails.
ReadFailsUnlocked(c) ==
  /\ reader[c] = "recv" /\ ~up[c]
  /\ ReaderGoes(c, "defer")
  /\ connected' = FALSE
  /\ UNCHANGED <<conn, made, gsKey, connectedToLS, authenticatedLS,
                 isReconnecting, attempts, pc, authTimers, lsVars, wire>>

\* The socket is closed: the read fails, with or without what was under way.
ReadFails(c) ==
  /\ reader[c] = "recv" /\ ~up[c]
  /\ ReaderGoes(c, "defer")
  /\ UNCHANGED <<connected, conn, made, gsKey, connectedToLS, authenticatedLS,
                 isReconnecting, attempts, pc, authTimers, lsVars, wire>>

\* The deferred function, under the lock: it closes whatever connection the
\* handler holds by then.
Deferred(c) ==
  /\ reader[c] = "defer"
  /\ connected' = FALSE /\ conn' = 0
  /\ up' = IF conn = 0 THEN up ELSE [up EXCEPT ![conn] = FALSE]
  /\ ReaderGoes(c, IF connected THEN "told" ELSE "off")
  /\ UNCHANGED <<made, gsKey, connectedToLS, authenticatedLS, isReconnecting, attempts,
                 pc, authTimers, toLS, toGS, lsVars>>

\* OnLoginServerDisconnected, outside the lock: both flags are cleared, ...
ClearFlags(c) ==
  /\ reader[c] = "told"
  /\ connectedToLS' = FALSE /\ authenticatedLS' = FALSE
  /\ ReaderGoes(c, "ask")
  /\ UNCHANGED <<connected, conn, made, gsKey, isReconnecting, attempts, pc, authTimers,
                 lsVars, wire>>

\* ... isReconnecting is read, ...
AskReconnecting(c) ==
  /\ reader[c] = "ask"
  /\ ReaderGoes(c, IF isReconnecting THEN "off" ELSE "spawn")
  /\ UNCHANGED <<connected, conn, made, gsKey, connectedToLS, authenticatedLS,
                 isReconnecting, attempts, pc, authTimers, lsVars, wire>>

\* ... and a reconnector is started.
SpawnReconnector(c) ==
  /\ reader[c] = "spawn"
  /\ Spawn(pc)
  /\ ReaderGoes(c, "off")
  /\ UNCHANGED <<connected, conn, made, gsKey, connectedToLS, authenticatedLS, attempts,
                 authTimers, lsVars, wire>>

-----------------------------------------------------------------------------
(* The login server's end, and the network. *)

\* Mutant: the login server goes on encrypting with the static key.
LSSendsStatic(c, kind) == toGS' = [toGS EXCEPT ![c] = Append(@, [kind |-> kind, key |-> "static"])]
LSSends(c, kind) == toGS' = [toGS EXCEPT ![c] = Append(@, [kind |-> kind, key |-> lsKey[c]])]
LSCloses(c) ==
  /\ up' = [up EXCEPT ![c] = FALSE]
  /\ listed' = listed \ {c}

\* handleBlowFishKey.
LSBlowFishKey(c) ==
  /\ lsKey' = [lsKey EXCEPT ![c] = "dynamic"]
  /\ UNCHANGED <<lsAuthed, listed, up, toGS>>

\* handleAuthRequest: authenticated first, the answer after.
LSAuthRequest(c) ==
  /\ lsAuthed' = [lsAuthed EXCEPT ![c] = TRUE]
  /\ LSSends(c, "AuthResponse")
  /\ UNCHANGED <<lsKey, listed, up>>

\* handlePlayerAuthRequest: a game server that is not authenticated is cut off.
LSPlayerAuthRequest(c) ==
  /\ IF lsAuthed[c]
       THEN LSSends(c, "PlayerAuthResponse") /\ UNCHANGED <<up, listed>>
       ELSE LSCloses(c) /\ UNCHANGED toGS
  /\ UNCHANGED <<lsKey, lsAuthed>>

\* ServerStatus and ReplyCharacters change nothing of the link; a game server
\* that is not authenticated is cut off by the latter.
LSOther(c, kind) ==
  /\ IF kind = "ReplyCharacters" /\ ~lsAuthed[c]
       THEN LSCloses(c)
       ELSE UNCHANGED <<up, listed>>
  /\ UNCHANGED <<lsKey, lsAuthed, toGS>>

LSReceive(c) ==
  /\ c \in listed /\ up[c] /\ toLS[c] # <<>> /\ Len(toGS[c]) < MaxInFlight
  /\ toLS' = [toLS EXCEPT ![c] = Tail(@)]
  /\ LET p == Head(toLS[c]) IN
     \/ p.key # lsKey[c] /\ LSCloses(c) /\ UNCHANGED <<lsKey, lsAuthed, toGS>>
     \/ p.key = lsKey[c] /\ p.kind = "BlowFishKey" /\ LSBlowFishKey(c)
     \/ p.key = lsKey[c] /\ p.kind = "AuthRequest" /\ LSAuthRequest(c)
     \/ p.key = lsKey[c] /\ p.kind = "PlayerAuthRequest" /\ LSPlayerAuthRequest(c)
     \/ /\ p.key = lsKey[c] /\ p.kind \in {"ServerStatus", "ReplyCharacters"}
        /\ LSOther(c, p.kind)
  /\ UNCHANGED gsVars

\* The login server notices a closed socket.
LSNotices(c) ==
  /\ c \in listed /\ ~up[c]
  /\ listed' = listed \ {c}
  /\ UNCHANGED <<gsVars, wire, lsConn>>

\* SendToServer: the first authenticated connection of the server in the map,
\* which may be one whose socket is closed.
RequestCharacters(c) ==
  /\ c \in listed /\ lsAuthed[c] /\ Len(toGS[c]) < MaxInFlight
  /\ IF up[c] THEN LSSends(c, "RequestCharacters") ELSE UNCHANGED toGS
  /\ UNCHANGED <<gsVars, lsVars, up, toLS>>

\* The network loses a connection (bound: never the last one allowed).
Lose(c) ==
  /\ up[c] /\ made < MaxConns
  /\ up' = [up EXCEPT ![c] = FALSE]
  /\ UNCHANGED <<gsVars, lsVars, toLS, toGS>>

-----------------------------------------------------------------------------
Dialling(d)  == DialSucceeds(d) \/ DialFails(d) \/ Flag(d) \/ Settle(d)
Reading(c)   == \/ Loop(c) \/ ReaderReceive(c) \/ SwitchKey(c) \/ ReadFails(c)
                \/ Deferred(c) \/ ClearFlags(c) \/ AskReconnecting(c) \/ SpawnReconnector(c)
Answering(c) == LSReceive(c) \/ LSNotices(c)

LinkNext ==
  \/ \E d \in Dialers : Dialling(d)
  \/ \E r \in Recons : Tick(r)
  \/ \E c \in Conns : Reading(c) \/ SendAuthRequest(c) \/ Answering(c)
  \/ \E c \in Conns : RequestCharacters(c) \/ Lose(c)
  \/ Heartbeat \/ ClientAuth

LinkSpec == LinkInit /\ [][LinkNext]_linkVars

\* Goroutines run, tickers tick, the network delivers, and a login server that
\* is dialled again and again accepts in the end.
LinkFairness ==
  /\ \A d \in Dialers : WF_linkVars(Dialling(d)) /\ SF_linkVars(DialSucceeds(d))
  /\ \A r \in Recons : WF_linkVars(Tick(r))
  /\ \A c \in Conns : WF_linkVars(Reading(c)) /\ WF_linkVars(SendAuthRequest(c)) /\ WF_linkVars(Answering(c))

-----------------------------------------------------------------------------
(* Properties. *)

\* At most one goroutine reads from the login server, and it reads the
\* connection that the handler sends on: ConnectToLoginServer refuses while
\* connected, and only the reader's own deferred function takes that back.
OneReader ==
  \A c \in Conns :
    reader[c] \in {"loop", "recv", "switch", "defer"} => connected /\ conn = c

\* The game server never fails to decrypt what the login server sends: whatever
\* is at the head of the stream when it reads has the key it reads with, across
\* the key switch (handleInitLS, handleBlowFishKey, handleAuthRequest).
ServerDecodes ==
  \A c \in Conns : reader[c] = "recv" /\ toGS[c] # <<>> => Head(toGS[c]).key = gsKey[c]

\* Once the callback of the last loss has run, authenticatedLS is the truth: the
\* login server has authenticated the connection in use.
AuthenticatedIsTrue ==
  authenticatedLS /\ (\A c \in Conns : reader[c] # "told") =>
    connected /\ lsAuthed[conn]

\* isReconnecting, which keeps a lost connection from starting a reconnector, is
\* set only while a reconnector is at work.
ReconnectingIsTrue == isReconnecting => \E r \in Recons : pc[r] # "off"

\* Were no connection lost before its dialler is done, the game server would
\* always come back: a link that is down is up again, ...
LinkRestored == ~connected ~> connected
\* ... and a link that is up is authenticated.
LinkAuthenticated == connected ~> (authenticatedLS \/ ~connected)

\* The state of the link tells the truth: every variable has its type, at most one
\* goroutine reads, and the flags the callbacks set and clear in their own time
\* mean what their readers take them for (service.go, OnLoginServerDisconnected).
LinkSound == LinkTypeOK /\ OneReader /\ AuthenticatedIsTrue /\ ReconnectingIsTrue
=============================================================================
