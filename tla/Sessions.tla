------------------------------ MODULE Sessions ------------------------------
(***************************************************************************)
(* The sessions of one account and the saving of its characters             *)
(* (src/internal/gameserver: handlers/client, usecase/logout.go,            *)
(* registry/connections.go, gameloop/persist.go, service.go).               *)
(*                                                                          *)
(* A goroutine per connection reads packets and runs their handlers; a new  *)
(* login kicks the connection registered for its account. Each step here is *)
(* what a handler does between two locks or database calls: the goroutines, *)
(* the loop, the saver and the shutdown interleave between them.            *)
(*                                                                          *)
(* Of a character only its progress is kept: a number that grows with the   *)
(* EXP the loop awards.                                                     *)
(***************************************************************************)
EXTENDS Naturals, Sequences, FiniteSets, SequencesExt

CONSTANTS
  Conns,        \* the connections clients will open for the account
  Chars,        \* the characters of the account
  None,         \* no connection, no character
  SaveCapacity, \* the snapshots the saver is behind at most, 256
  MaxProgress   \* bound: the progress a character may reach

ASSUME NoneAssumption == None \notin Conns \cup Chars
ASSUME CharsAssumption == IsFiniteSet(Chars)
ASSUME BoundsAssumption == SaveCapacity \in Nat /\ MaxProgress \in Nat

VARIABLES
  at,          \* where the goroutine of a connection is
  state,       \* its ConnState
  task,        \* on whose behalf it runs PerformLogout or PerformRestart
  char,        \* the character its handler works on
  copy,        \* the progress its handler has read
  victim,      \* the connection its login is kicking
  open,        \* the connections whose socket is open
  sessions,    \* DOMAIN Handler.sessions
  registered,  \* ConnectionRegistry: the connection of the account
  world,       \* the characters in the world registry
  live,        \* progress of the Character in memory, the last one of those gone
  inCombat,    \* the characters in combat stance
  row,         \* progress in the characters table
  saves,       \* saveCh: the snapshots the saver has not written yet
  final,       \* the snapshots the shutdown has not written yet
  phase        \* the server is "running", "stopping", "saving" or "down"

handler == <<state, task, char, copy>>
network == <<open, sessions, registered>>
game    == <<world, live, inCombat>>
store   == <<row, saves, final, phase>>
vars    == <<at, handler, victim, network, game, store>>

Tasks  == {"kick", "logout", "restart", "cleanup"}
Steps  ==
  {"idle", "select", "lobby", "validate", "load", "write", "remove"}                    \cup
  {"detach", "kickFind", "kickRemove", "unregister", "kickClose", "session", "register"} \cup
  {"cleanup", "unregisterIf", "find", "pull", "forget", "done"}
Snapshot == [char: Chars, progress: 0..MaxProgress]

Up == phase # "down"

Go(c, step) == at[c] # step /\ at' = [at EXCEPT ![c] = step]
At(c, step) == at[c] = step /\ Up

(* The next packet of a client whose connection is in one of states S. *)
Receives(c, S) == At(c, "idle") /\ c \in open /\ state[c] \in S

-----------------------------------------------------------------------------
(* handleAuthLogin with kickExistingSession. *)

AuthLogin(c) ==
  /\ Receives(c, {"connected"})
  /\ IF registered \in {None, c} THEN Go(c, "session") /\ UNCHANGED victim
     ELSE Go(c, "detach") /\ victim' = [victim EXCEPT ![c] = registered]
  /\ UNCHANGED <<handler, network, game, store>>

(* The link to the login server is down: no session, but the packet is handled. *)
AuthFails(c) ==
  /\ Receives(c, {"connected"})
  /\ state' = [state EXCEPT ![c] = "authed"]
  /\ UNCHANGED <<at, task, char, copy, victim, network, game, store>>

Detach(c) ==
  /\ At(c, "detach")
  /\ sessions' = sessions \ {victim[c]}
  /\ Go(c, "kickFind")
  /\ UNCHANGED <<handler, victim, open, registered, game, store>>

(* GetPlayerByAccount walks a map: any character of the account. *)
KickFind(c) ==
  /\ At(c, "kickFind")
  /\ \/ world = {} /\ Go(c, "unregister") /\ UNCHANGED char
     \/ \E ch \in world : char' = [char EXCEPT ![c] = ch] /\ Go(c, "kickRemove")
  /\ UNCHANGED <<state, task, copy, victim, network, game, store>>

KickRemove(c) ==
  /\ At(c, "kickRemove")
  /\ world' = world \ {char[c]}
  /\ task' = [task EXCEPT ![c] = "kick"]
  /\ Go(c, "validate")
  /\ UNCHANGED <<state, char, copy, victim, network, live, inCombat, store>>

Unregister(c) ==
  /\ At(c, "unregister")
  /\ registered' = None
  /\ Go(c, "kickClose")
  /\ UNCHANGED <<handler, victim, open, sessions, game, store>>

KickClose(c) ==
  /\ At(c, "kickClose")
  /\ open' = open \ {victim[c]}
  /\ victim' = [victim EXCEPT ![c] = None]
  /\ Go(c, "session")
  /\ UNCHANGED <<handler, sessions, registered, game, store>>

(* setSession, a lock for each of the two maps. *)
SetSession(c) ==
  /\ At(c, "session")
  /\ sessions' = sessions \cup {c}
  /\ Go(c, "register")
  /\ UNCHANGED <<handler, victim, open, registered, game, store>>

Register(c) ==
  /\ At(c, "register")
  /\ registered' = c
  /\ state' = [state EXCEPT ![c] = "authed"]
  /\ Go(c, "idle")
  /\ UNCHANGED <<task, char, copy, victim, open, sessions, game, store>>

-----------------------------------------------------------------------------
(* The character screen. A handler without a session does nothing. *)

(* handleCharacterSelect: SelectCharacter reads the row, AddPlayer puts it into
   the world, over what may be there. *)
CharacterSelect(c, ch) ==
  /\ Receives(c, {"authed"}) /\ c \in sessions
  /\ char' = [char EXCEPT ![c] = ch]
  /\ copy' = [copy EXCEPT ![c] = row[ch]]
  /\ Go(c, "select")
  /\ UNCHANGED <<state, task, victim, network, game, store>>

AddPlayer(c) ==
  /\ At(c, "select")
  /\ world' = world \cup {char[c]}
  /\ live' = [live EXCEPT ![char[c]] = copy[c]]
  /\ inCombat' = inCombat \ {char[c]}
  /\ Go(c, "idle")
  /\ UNCHANGED <<handler, victim, network, store>>

(* The packet makes the connection "ingame" even when no player is found. *)
EnterWorld(c) ==
  /\ Receives(c, {"authed"})
  /\ state' = [state EXCEPT ![c] = "ingame"]
  /\ UNCHANGED <<at, task, char, copy, victim, network, game, store>>

RequestGotoLobby(c) ==
  /\ Receives(c, {"authed"}) /\ c \in sessions
  /\ \E ch \in world : char' = [char EXCEPT ![c] = ch]
  /\ Go(c, "lobby")
  /\ UNCHANGED <<state, task, copy, victim, network, game, store>>

LobbyRemove(c) ==
  /\ At(c, "lobby")
  /\ world' = world \ {char[c]}
  /\ Go(c, "idle")
  /\ UNCHANGED <<handler, victim, network, live, inCombat, store>>

-----------------------------------------------------------------------------
(* Logout and restart. Without a player in the world nothing is saved. *)

Logout(c) ==
  /\ Receives(c, {"authed", "ingame"}) /\ c \in sessions
  /\ \/ /\ world = {}
        /\ open' = open \ {c}
        /\ UNCHANGED <<at, task, char>>
     \/ \E ch \in world \ inCombat :
          /\ char' = [char EXCEPT ![c] = ch]
          /\ task' = [task EXCEPT ![c] = "logout"]
          /\ Go(c, "validate")
          /\ UNCHANGED open
  /\ UNCHANGED <<state, copy, victim, sessions, registered, game, store>>

RequestRestart(c) ==
  /\ Receives(c, {"authed", "ingame"}) /\ c \in sessions
  /\ \/ /\ world = {}
        /\ state' = [state EXCEPT ![c] = "authed"]
        /\ UNCHANGED <<at, task, char>>
     \/ \E ch \in world :
          /\ char' = [char EXCEPT ![c] = ch]
          /\ task' = [task EXCEPT ![c] = "restart"]
          /\ Go(c, "validate")
          /\ UNCHANGED state
  /\ UNCHANGED <<copy, victim, network, game, store>>

-----------------------------------------------------------------------------
(* PerformLogout and PerformRestart, for the task at hand. *)

(* What the caller does next; ok when the use case succeeded. Fault: a kick
   gives up when the use case refuses, a cleanup returns there and then. *)
ReturnGivesUp(c, ok) ==
  /\ Go(c, IF task[c] = "cleanup" THEN "forget"
           ELSE IF task[c] = "kick" /\ ok THEN "unregister" ELSE "idle")
  /\ UNCHANGED <<open, state>>
ReturnEarly(c, ok) ==
  /\ Go(c, IF task[c] = "cleanup" THEN (IF ok THEN "forget" ELSE "done")
           ELSE IF task[c] = "kick" THEN "unregister" ELSE "idle")
  /\ UNCHANGED <<open, state>>
Return(c, ok) ==
  /\ Go(c, IF task[c] = "cleanup" THEN "forget"
           ELSE IF task[c] = "kick" THEN "unregister" ELSE "idle")
  /\ open' = IF task[c] = "logout" THEN open \ {c} ELSE open
  /\ state' = IF task[c] = "restart" /\ ok THEN [state EXCEPT ![c] = "authed"] ELSE state

Validate(c) ==
  /\ At(c, "validate")
  /\ IF char[c] \in world \cap inCombat THEN Return(c, FALSE)
     ELSE Go(c, "load") /\ UNCHANGED <<open, state>>
  /\ UNCHANGED <<task, char, copy, victim, sessions, registered, game, store>>

(* saveCharacterData takes the character in the world, or else the row. Fault: it
   reloads the row. *)
Reloaded(ch) == row[ch]
Freshest(ch) == IF ch \in world THEN live[ch] ELSE row[ch]
Load(c) ==
  /\ At(c, "load")
  /\ copy' = [copy EXCEPT ![c] = Freshest(char[c])]
  /\ Go(c, "write")
  /\ UNCHANGED <<state, task, char, victim, network, game, store>>

Write(c) ==
  /\ At(c, "write")
  /\ row' = [row EXCEPT ![char[c]] = copy[c]]
  /\ Go(c, "remove")
  /\ UNCHANGED <<handler, victim, network, game, saves, final, phase>>

RemoveFromWorld(c) ==
  /\ At(c, "remove")
  /\ world' = world \ {char[c]}
  /\ Return(c, TRUE)
  /\ UNCHANGED <<task, char, copy, victim, sessions, registered, live, inCombat, store>>

-----------------------------------------------------------------------------
(* The end of a connection: removeSession. *)

(* The client vanishes. *)
Drop(c) ==
  /\ Up
  /\ c \in open
  /\ open' = open \ {c}
  /\ UNCHANGED <<at, handler, victim, sessions, registered, game, store>>

(* Receive fails, or the context turns out to be cancelled after a packet. *)
Leave(c) ==
  /\ At(c, "idle")
  /\ c \notin open \/ phase # "running"
  /\ Go(c, "cleanup")
  /\ UNCHANGED <<handler, victim, network, game, store>>

ReadSession(c) ==
  /\ At(c, "cleanup")
  /\ Go(c, IF c \in sessions THEN "unregisterIf" ELSE "forget")
  /\ UNCHANGED <<handler, victim, network, game, store>>

(* Fault: a cleanup that leaves the connection registered. *)
Kept(c) == registered' = registered
Dropped(c) == registered' = IF registered = c THEN None ELSE registered
UnregisterIf(c) ==
  /\ At(c, "unregisterIf")
  /\ Dropped(c)
  /\ Go(c, "find")
  /\ UNCHANGED <<handler, victim, open, sessions, game, store>>

FindPlayer(c) ==
  /\ At(c, "find")
  /\ \/ world = {} /\ Go(c, "forget") /\ UNCHANGED char
     \/ \E ch \in world : char' = [char EXCEPT ![c] = ch] /\ Go(c, "pull")
  /\ UNCHANGED <<state, task, copy, victim, network, game, store>>

(* The player leaves the world before PerformLogout looks for it there. *)
PullPlayer(c) ==
  /\ At(c, "pull")
  /\ world' = world \ {char[c]}
  /\ task' = [task EXCEPT ![c] = "cleanup"]
  /\ Go(c, "validate")
  /\ UNCHANGED <<state, char, copy, victim, network, live, inCombat, store>>

(* The session goes, and the listener closes the socket. *)
Forget(c) ==
  /\ At(c, "forget")
  /\ sessions' = sessions \ {c}
  /\ open' = open \ {c}
  /\ Go(c, "done")
  /\ UNCHANGED <<handler, victim, registered, game, store>>

-----------------------------------------------------------------------------
(* The loop and the saver. *)

(* What persistPlayer leaves in the channel: a snapshot too many is dropped. *)
Enqueued(snaps) ==
  LET all == saves \o snaps
  IN IF Len(all) =< SaveCapacity THEN all ELSE SubSeq(all, 1, SaveCapacity)
Snap(ch, p) == [char |-> ch, progress |-> p]

(* EXP of a kill; a level-up is saved at once. *)
AwardExp(ch, levelUp) ==
  /\ phase = "running"
  /\ ch \in world
  /\ live[ch] < MaxProgress
  /\ live' = [live EXCEPT ![ch] = @ + 1]
  /\ saves' = IF levelUp THEN Enqueued(<<Snap(ch, live[ch] + 1)>>) ELSE saves
  /\ UNCHANGED <<at, handler, victim, network, world, inCombat, row, final, phase>>

SetCombatState(ch) ==
  /\ phase = "running"
  /\ ch \in world
  /\ inCombat' = IF ch \in inCombat THEN inCombat \ {ch} ELSE inCombat \cup {ch}
  /\ UNCHANGED <<at, handler, victim, network, world, live, store>>

Autosave ==
  /\ phase = "running"
  /\ world # {}
  /\ saves' = Enqueued(SetToSeq({Snap(ch, live[ch]) : ch \in world}))
  /\ UNCHANGED <<at, handler, victim, network, game, row, final, phase>>

Saver ==
  /\ Up
  /\ saves # <<>>
  /\ row' = [row EXCEPT ![Head(saves).char] = Head(saves).progress]
  /\ saves' = Tail(saves)
  /\ UNCHANGED <<at, handler, victim, network, game, final, phase>>

-----------------------------------------------------------------------------
(* Shutdown: the loop and the listener stop, connections go on. *)

Stop ==
  /\ phase = "running"
  /\ phase' = "stopping"
  /\ UNCHANGED <<at, handler, victim, network, game, row, saves, final>>

(* Fault: the snapshots still queued are not waited for. *)
Undrained == TRUE
Drained == saves = <<>>

(* saveOnlinePlayersOnShutdown: a snapshot of everyone online, then a write
   for each. *)
SnapshotOnline ==
  /\ phase = "stopping"
  /\ Drained
  /\ phase' = "saving"
  /\ final' = {Snap(ch, live[ch]) : ch \in world}
  /\ UNCHANGED <<at, handler, victim, network, game, row, saves>>

SaveOnline ==
  /\ phase = "saving"
  /\ \E s \in final :
       /\ row' = [row EXCEPT ![s.char] = s.progress]
       /\ final' = final \ {s}
  /\ UNCHANGED <<at, handler, victim, network, game, saves, phase>>

CloseDatabase ==
  /\ phase = "saving"
  /\ final = {} /\ saves = <<>>
  /\ phase' = "down"
  /\ UNCHANGED <<at, handler, victim, network, game, row, saves, final>>

-----------------------------------------------------------------------------
Init ==
  /\ at = [c \in Conns |-> "idle"]
  /\ state = [c \in Conns |-> "connected"]
  /\ task = [c \in Conns |-> "cleanup"]
  /\ char = [c \in Conns |-> None]
  /\ copy = [c \in Conns |-> 0]
  /\ victim = [c \in Conns |-> None]
  /\ open = Conns
  /\ sessions = {}
  /\ registered = None
  /\ world = {}
  /\ live = [ch \in Chars |-> 0]
  /\ inCombat = {}
  /\ row = [ch \in Chars |-> 0]
  /\ saves = <<>>
  /\ final = {}
  /\ phase = "running"

Login(c) ==
  \/ AuthLogin(c)  \/ AuthFails(c)  \/ Detach(c)    \/ KickFind(c) \/ KickRemove(c)
  \/ Unregister(c) \/ KickClose(c)  \/ SetSession(c) \/ Register(c)

Play(c) ==
  \/ \E ch \in Chars : CharacterSelect(c, ch)
  \/ AddPlayer(c) \/ EnterWorld(c) \/ RequestGotoLobby(c) \/ LobbyRemove(c)

Depart(c) == Logout(c) \/ RequestRestart(c)

LogoutUseCase(c) == Validate(c) \/ Load(c) \/ Write(c) \/ RemoveFromWorld(c)

Cleanup(c) ==
  \/ Leave(c) \/ ReadSession(c) \/ UnregisterIf(c)
  \/ FindPlayer(c) \/ PullPlayer(c) \/ Forget(c)

Loop ==
  \/ \E ch \in Chars : SetCombatState(ch) \/ \E up \in BOOLEAN : AwardExp(ch, up)
  \/ Autosave

Shutdown == Stop \/ SnapshotOnline \/ SaveOnline \/ CloseDatabase

Next ==
  \/ \E c \in Conns : Login(c) \/ Play(c) \/ Depart(c) \/ LogoutUseCase(c) \/ Cleanup(c) \/ Drop(c)
  \/ Loop \/ Saver \/ Shutdown

Spec == Init /\ [][Next]_vars

(* Go schedules every goroutine: a handler under way goes on, a read on a closed
   socket fails. Nobody is obliged to send a packet, drop a connection or stop
   the server. *)
Handler(c) ==
  \/ Detach(c) \/ KickFind(c) \/ KickRemove(c) \/ Unregister(c) \/ KickClose(c)
  \/ SetSession(c) \/ Register(c) \/ AddPlayer(c) \/ LobbyRemove(c)
  \/ LogoutUseCase(c) \/ Cleanup(c)
Fairness == \A c \in Conns : WF_vars(Handler(c))
FairSpec == Spec /\ Fairness

-----------------------------------------------------------------------------
(* Properties. *)

(* Every variable holds values of its kind, and the saver's channel no more than
   it can. *)
TypeOK ==
  /\ at \in [Conns -> Steps]
  /\ state \in [Conns -> {"connected", "authed", "ingame"}]
  /\ task \in [Conns -> Tasks]
  /\ char \in [Conns -> Chars \cup {None}]
  /\ copy \in [Conns -> 0..MaxProgress]
  /\ victim \in [Conns -> Conns \cup {None}]
  /\ open \subseteq Conns /\ sessions \subseteq Conns
  /\ registered \in Conns \cup {None}
  /\ world \subseteq Chars /\ inCombat \subseteq Chars
  /\ live \in [Chars -> 0..MaxProgress]
  /\ row \in [Chars -> 0..MaxProgress]
  /\ saves \in Seq(Snapshot) /\ Len(saves) =< SaveCapacity
  /\ final \subseteq Snapshot
  /\ phase \in {"running", "stopping", "saving", "down"}

(* The connection registered for the account has a session, unless a login is
   kicking it: whatever logins, kicks and disconnects interleave, broadcasts
   never go on to a connection that is gone (setSession, removeSession,
   kickExistingSession). *)
RegisteredIsServed ==
  registered # None =>
    registered \in sessions \/ \E c \in Conns : victim[c] = registered

(* The variables are well typed, the saver's channel within its capacity, and the
   registered connection is served. *)
ServiceSound == TypeOK /\ RegisteredIsServed

(* A login that kicks a connection goes through with it, also when the use case
   refuses the logout of a player in combat. *)
KickedIsClosed ==
  \A c \in Conns : victim[c] # None ~> (victim[c] = None /\ at[c] = "session") \/ ~Up

(* A connection whose socket is closed is cleaned up after. *)
ClosedIsForgotten ==
  \A c \in Conns : c \notin open ~> (at[c] = "done" /\ c \notin sessions) \/ ~Up

(* service.go:983-984, "close the saver so the authoritative shutdown save below
   wins over any stale queued copy": a character that stays online through the
   shutdown has all its progress in the database. *)
OnlineIsSaved ==
  phase = "down" => \A ch \in world : row[ch] = live[ch]

(* No save of any character under way or queued. *)
NothingToSave ==
  saves = <<>> /\ \A c \in Conns : at[c] \in {"idle", "done"}

(* logout.go:204-206, "Reloading from the DB here would discard all that
   progress": a character that has left the world left its progress in the
   database. *)
LeavingSaves ==
  NothingToSave => \A ch \in Chars \ world : row[ch] = live[ch]

(* service.go:997-998, "a graceful stop never loses session progress". *)
StopSaves ==
  phase = "down" => \A ch \in Chars : row[ch] = live[ch]

(* handler.go:283-286, the kick "prevents two live sessions [...] for one
   account". *)
LiveSessions == {c \in sessions \cap open : at[c] = "idle"}
OneSession == \A c, d \in LiveSessions : c = d

(* handler.go:223, removeSession "cleans up player from world": the account has
   no player left in the world once its connections are gone. *)
NoGhosts == (\A c \in Conns : at[c] = "done") => world = {}
=============================================================================
