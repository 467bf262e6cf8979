--------------------------- MODULE SessionsProofs ---------------------------
(* What TLAPS proves of Sessions, for any connections, characters, channel
   capacity and progress. *)
EXTENDS Saving, FiniteSetTheorems, TLAPS

-----------------------------------------------------------------------------
(* Type correctness. *)

UseCase == {"validate", "load", "write", "remove"}

(* A handler that works on a character has one. *)
HasCharacter ==
  \A c \in Conns : at[c] \in {"select", "lobby", "kickRemove", "pull"} \cup UseCase => char[c] \in Chars

(* The snapshots of an autosave form a sequence. *)
LEMMA AutosaveSequence ==
  ASSUME TypeOK
  PROVE  SetToSeq({Snap(ch, live[ch]) : ch \in world}) \in Seq(Snapshot)
<1> DEFINE S == {Snap(ch, live[ch]) : ch \in world}
           f == [ch \in world |-> Snap(ch, live[ch])]
<1>1. S \subseteq Snapshot
  BY DEF TypeOK, Snap, Snapshot
<1>2. IsFiniteSet(world)
  BY CharsAssumption, FS_Subset DEF TypeOK
<1>3. f \in Surjection(world, S)
  BY DEF Surjection
<1>4. IsFiniteSet(S)
  BY <1>2, <1>3, FS_Surjection
<1> HIDE DEF S
<1>5. Cardinality(S) \in Nat /\ ExistsBijection(1..Cardinality(S), S)
  BY <1>4, FS_CardinalityType
<1>6. \E g \in [1..Cardinality(S) -> S] : IsInjective(g)
  BY <1>5 DEF ExistsBijection, Bijection, Injection, IsInjective
<1>7. SetToSeq(S) \in [1..Cardinality(S) -> S]
  BY <1>6 DEF SetToSeq
<1>8. SetToSeq(S) \in Seq(S)
  BY <1>5, <1>7
<1> QED BY <1>1, <1>8 DEF S

(* The channel never holds more than its capacity. *)
LEMMA EnqueuedFits ==
  ASSUME TypeOK, NEW snaps \in Seq(Snapshot)
  PROVE  Enqueued(snaps) \in Seq(Snapshot) /\ Len(Enqueued(snaps)) =< SaveCapacity
<1> DEFINE all == saves \o snaps
<1>1. all \in Seq(Snapshot) /\ SaveCapacity \in Nat
  BY BoundsAssumption DEF TypeOK
<1> HIDE DEF all
<1>2. Enqueued(snaps) = IF Len(all) =< SaveCapacity THEN all ELSE SubSeq(all, 1, SaveCapacity)
  BY DEF Enqueued, all
<1> QED BY <1>1, <1>2

(* The use case returns to one of the handlers. *)
LEMMA ReturnTypes ==
  ASSUME TypeOK, HasCharacter, NEW c \in Conns, NEW ok \in BOOLEAN, Return(c, ok)
  PROVE  /\ \E s \in {"forget", "unregister", "idle"} : at' = [at EXCEPT ![c] = s]
         /\ state' \in [Conns -> {"connected", "authed", "ingame"}]
         /\ open' \subseteq Conns
<1> DEFINE step == IF task[c] = "cleanup" THEN "forget"
                   ELSE IF task[c] = "kick" THEN "unregister" ELSE "idle"
<1>1. at' = [at EXCEPT ![c] = step]
  BY DEF Return, Go
<1>2. step \in {"forget", "unregister", "idle"}
  OBVIOUS
<1>3. state' \in [Conns -> {"connected", "authed", "ingame"}] /\ open' \subseteq Conns
  BY DEF Return, TypeOK
<1> QED BY <1>1, <1>2, <1>3

(* Logins. *)
LEMMA LoginTypes ==
  ASSUME TypeOK, HasCharacter, NEW c \in Conns, Login(c)
  PROVE  TypeOK' /\ HasCharacter'
<1> USE NoneAssumption DEF TypeOK, HasCharacter, UseCase, Steps, Tasks, Go, At, Receives, handler, network, game, store
<1>1. CASE AuthLogin(c)
  <2>1. CASE registered \in {None, c}
    BY <1>1, <2>1 DEF AuthLogin
  <2>2. CASE registered \notin {None, c}
    <3>1. at' = [at EXCEPT ![c] = "detach"] /\ UNCHANGED <<char, open, sessions, registered>>
      BY <1>1, <2>2 DEF AuthLogin
    <3>2. victim' = [victim EXCEPT ![c] = registered]
      BY <1>1, <2>2 DEF AuthLogin
    <3> QED BY <1>1, <3>1, <3>2 DEF AuthLogin
  <2> QED BY <2>1, <2>2
<1>2. CASE AuthFails(c)
  BY <1>2 DEF AuthFails
<1>3. CASE Detach(c)
  BY <1>3 DEF Detach
<1>4. CASE KickFind(c)
  <2>1. CASE world = {}
    <3>1. /\ at' = [at EXCEPT ![c] = "unregister"]
          /\ UNCHANGED <<state, char, task, copy, victim, network, game, store>>
      BY <1>4, <2>1 DEF KickFind
    <3>2. at' \in [Conns -> Steps]
      BY <3>1
    <3> QED BY <3>1, <3>2
  <2>2. CASE world # {}
    <3>1. PICK ch \in Chars : char' = [char EXCEPT ![c] = ch] /\ Go(c, "kickRemove")
      BY <1>4, <2>2 DEF KickFind
    <3> QED BY <1>4, <3>1 DEF KickFind
  <2> QED BY <2>1, <2>2
<1>5. CASE KickRemove(c)
  BY <1>5 DEF KickRemove
<1>6. CASE Unregister(c)
  BY <1>6 DEF Unregister
<1>7. CASE KickClose(c)
  BY <1>7 DEF KickClose
<1>8. CASE SetSession(c)
  BY <1>8 DEF SetSession
<1>9. CASE Register(c)
  BY <1>9 DEF Register
<1> QED BY <1>1, <1>2, <1>3, <1>4, <1>5, <1>6, <1>7, <1>8, <1>9 DEF Login

(* The character screen. *)
LEMMA PlayTypes ==
  ASSUME TypeOK, HasCharacter, NEW c \in Conns, Play(c)
  PROVE  TypeOK' /\ HasCharacter'
<1> USE NoneAssumption DEF TypeOK, HasCharacter, UseCase, Steps, Tasks, Go, At, Receives, handler, network, game, store
<1>1. CASE \E ch \in Chars : CharacterSelect(c, ch)
  BY <1>1 DEF CharacterSelect
<1>2. CASE AddPlayer(c)
  BY <1>2 DEF AddPlayer
<1>3. CASE EnterWorld(c)
  BY <1>3 DEF EnterWorld
<1>4. CASE RequestGotoLobby(c)
  BY <1>4 DEF RequestGotoLobby
<1>5. CASE LobbyRemove(c)
  BY <1>5 DEF LobbyRemove
<1> QED BY <1>1, <1>2, <1>3, <1>4, <1>5 DEF Play

(* Logout and restart. *)
LEMMA DepartTypes ==
  ASSUME TypeOK, HasCharacter, NEW c \in Conns, Depart(c)
  PROVE  TypeOK' /\ HasCharacter'
<1> USE NoneAssumption DEF TypeOK, HasCharacter, UseCase, Steps, Tasks, Go, At, Receives, handler, network, game, store
<1>1. CASE Logout(c)
  <2>1. CASE \E ch \in world \ inCombat : /\ char' = [char EXCEPT ![c] = ch]
                                      /\ task' = [task EXCEPT ![c] = "logout"] /\ Go(c, "validate")
    <3>1. PICK ch \in Chars : char' = [char EXCEPT ![c] = ch]
      BY <2>1
    <3>2. at' = [at EXCEPT ![c] = "validate"] /\ task' = [task EXCEPT ![c] = "logout"]
      BY <2>1
    <3>3. char' \in [Conns -> Chars \cup {None}] /\ HasCharacter'
      BY <3>1, <3>2
    <3>4. open' \subseteq Conns /\ UNCHANGED state
      BY <1>1 DEF Logout
    <3> QED BY <1>1, <3>2, <3>3, <3>4 DEF Logout
  <2>2. CASE world = {} /\ UNCHANGED <<at, task, char>>
    BY <1>1, <2>2 DEF Logout
  <2> QED BY <1>1, <2>1, <2>2 DEF Logout
<1>2. CASE RequestRestart(c)
  <2>1. CASE \E ch \in world : /\ char' = [char EXCEPT ![c] = ch]
                                      /\ task' = [task EXCEPT ![c] = "restart"] /\ Go(c, "validate")
    <3>1. PICK ch \in Chars : char' = [char EXCEPT ![c] = ch]
      BY <2>1
    <3>2. at' = [at EXCEPT ![c] = "validate"] /\ task' = [task EXCEPT ![c] = "restart"]
      BY <2>1
    <3>3. char' \in [Conns -> Chars \cup {None}] /\ HasCharacter'
      BY <3>1, <3>2
    <3>4. state' \in [Conns -> {"connected", "authed", "ingame"}] /\ UNCHANGED open
      BY <1>2 DEF RequestRestart
    <3> QED BY <1>2, <3>2, <3>3, <3>4 DEF RequestRestart
  <2>2. CASE world = {} /\ UNCHANGED <<at, task, char>>
    BY <1>2, <2>2 DEF RequestRestart
  <2> QED BY <1>2, <2>1, <2>2 DEF RequestRestart
<1> QED BY <1>1, <1>2 DEF Depart

(* The use case. *)
LEMMA UseCaseTypes ==
  ASSUME TypeOK, HasCharacter, NEW c \in Conns, LogoutUseCase(c)
  PROVE  TypeOK' /\ HasCharacter'
<1> USE NoneAssumption DEF TypeOK, HasCharacter, UseCase, Steps, Tasks, Go, At, Receives, handler, network, game, store
<1>1. CASE Validate(c)
  <2>1. CASE char[c] \in world \cap inCombat
    <3>1. Return(c, FALSE)
      BY <1>1, <2>1 DEF Validate
    <3>2. PICK s \in {"forget", "unregister", "idle"} : at' = [at EXCEPT ![c] = s]
      BY <3>1, ReturnTypes
    <3>3. state' \in [Conns -> {"connected", "authed", "ingame"}] /\ open' \subseteq Conns
      BY <3>1, ReturnTypes
    <3>4. TypeOK'
      BY <1>1, <2>1, <3>2, <3>3 DEF Validate
    <3>5. HasCharacter'
      BY <1>1, <2>1, <3>2 DEF Validate
    <3> QED BY <3>4, <3>5
  <2>2. CASE char[c] \notin world \cap inCombat
    BY <1>1, <2>2 DEF Validate
  <2> QED BY <2>1, <2>2
<1>2. CASE Load(c)
  BY <1>2 DEF Load, Freshest
<1>3. CASE Write(c)
  BY <1>3 DEF Write
<1>4. CASE RemoveFromWorld(c)
  <2>1. Return(c, TRUE)
    BY <1>4 DEF RemoveFromWorld
  <2>2. PICK s \in {"forget", "unregister", "idle"} : at' = [at EXCEPT ![c] = s]
    BY <2>1, ReturnTypes
  <2>3. at' \in [Conns -> Steps] /\ HasCharacter'
    BY <1>4, <2>2 DEF RemoveFromWorld
  <2>4. state' \in [Conns -> {"connected", "authed", "ingame"}] /\ open' \subseteq Conns
    BY <2>1, ReturnTypes
  <2> QED BY <1>4, <2>3, <2>4 DEF RemoveFromWorld
<1> QED BY <1>1, <1>2, <1>3, <1>4 DEF LogoutUseCase

(* The end of a connection. *)
LEMMA CleanupTypes ==
  ASSUME TypeOK, HasCharacter, NEW c \in Conns, Cleanup(c)
  PROVE  TypeOK' /\ HasCharacter'
<1> USE NoneAssumption DEF TypeOK, HasCharacter, UseCase, Steps, Tasks, Go, At, Receives, handler, network, game, store
<1>1. CASE Leave(c)
  BY <1>1 DEF Leave
<1>2. CASE ReadSession(c)
  BY <1>2 DEF ReadSession
<1>3. CASE UnregisterIf(c)
  BY <1>3 DEF UnregisterIf, Dropped
<1>4. CASE FindPlayer(c)
  <2>1. CASE world = {}
    <3>1. /\ at' = [at EXCEPT ![c] = "forget"]
          /\ UNCHANGED <<state, char, task, copy, victim, network, game, store>>
      BY <1>4, <2>1 DEF FindPlayer
    <3>2. at' \in [Conns -> Steps]
      BY <3>1
    <3> QED BY <3>1, <3>2
  <2>2. CASE world # {}
    <3>1. PICK ch \in Chars : char' = [char EXCEPT ![c] = ch] /\ Go(c, "pull")
      BY <1>4, <2>2 DEF FindPlayer
    <3> QED BY <1>4, <3>1 DEF FindPlayer
  <2> QED BY <2>1, <2>2
<1>5. CASE PullPlayer(c)
  BY <1>5 DEF PullPlayer
<1>6. CASE Forget(c)
  BY <1>6 DEF Forget
<1> QED BY <1>1, <1>2, <1>3, <1>4, <1>5, <1>6 DEF Cleanup

(* The initial state is well typed. *)
LEMMA InitialTypes == Init => TypeOK /\ HasCharacter
  BY BoundsAssumption, NoneAssumption DEF Init, TypeOK, HasCharacter, UseCase, Steps, Tasks, Snapshot

(* A step keeps the types. *)
LEMMA StepTypes == TypeOK /\ HasCharacter /\ [Next]_vars => TypeOK' /\ HasCharacter'
<1> SUFFICES ASSUME TypeOK, HasCharacter, [Next]_vars PROVE TypeOK' /\ HasCharacter'
  OBVIOUS
<1> USE DEF handler, network, game, store
<1>1. ASSUME NEW c \in Conns, Login(c) \/ Play(c) \/ Depart(c) \/ LogoutUseCase(c) \/ Cleanup(c)
      PROVE  TypeOK' /\ HasCharacter'
  BY <1>1, LoginTypes, PlayTypes, DepartTypes, UseCaseTypes, CleanupTypes
<1>2. ASSUME NEW c \in Conns, Drop(c) PROVE TypeOK' /\ HasCharacter'
  BY <1>2 DEF Drop, TypeOK, HasCharacter
<1>3. ASSUME NEW ch \in Chars, SetCombatState(ch) PROVE TypeOK' /\ HasCharacter'
  BY <1>3 DEF SetCombatState, TypeOK, HasCharacter
<1>4. ASSUME NEW ch \in Chars, NEW up \in BOOLEAN, AwardExp(ch, up) PROVE TypeOK' /\ HasCharacter'
  <2>1. live[ch] + 1 \in 0..MaxProgress /\ <<Snap(ch, live[ch] + 1)>> \in Seq(Snapshot)
    BY <1>4, BoundsAssumption DEF AwardExp, TypeOK, HasCharacter, Snap, Snapshot
  <2>2. saves' \in Seq(Snapshot) /\ Len(saves') =< SaveCapacity
    BY <1>4, <2>1, EnqueuedFits DEF AwardExp, TypeOK, HasCharacter
  <2> QED BY <1>4, <2>1, <2>2 DEF AwardExp, TypeOK, HasCharacter
<1>5. CASE Autosave
  BY <1>5, AutosaveSequence, EnqueuedFits DEF Autosave, TypeOK, HasCharacter
<1>6. CASE Saver
  <2>1. Head(saves) \in Snapshot /\ Tail(saves) \in Seq(Snapshot) /\ Len(Tail(saves)) =< SaveCapacity
    BY <1>6, BoundsAssumption DEF Saver, TypeOK, HasCharacter
  <2>2. row' \in [Chars -> 0..MaxProgress]
    BY <1>6, <2>1 DEF Saver, TypeOK, HasCharacter, Snapshot
  <2> QED BY <1>6, <2>1, <2>2 DEF Saver, TypeOK, HasCharacter
<1>7. CASE Stop
  BY <1>7 DEF Stop, TypeOK, HasCharacter
<1>8. CASE SnapshotOnline
  BY <1>8 DEF SnapshotOnline, TypeOK, HasCharacter, Snap, Snapshot
<1>9. CASE SaveOnline
  BY <1>9 DEF SaveOnline, TypeOK, HasCharacter, Snapshot
<1>10. CASE CloseDatabase
  BY <1>10 DEF CloseDatabase, TypeOK, HasCharacter
<1>11. CASE UNCHANGED vars
  BY <1>11 DEF vars, TypeOK, HasCharacter
<1> QED BY <1>1, <1>2, <1>3, <1>4, <1>5, <1>6, <1>7, <1>8, <1>9, <1>10, <1>11
        DEF Next, Loop, Shutdown

(* Every variable holds values of its kind in every state. *)
THEOREM TypeCorrect == Spec => []TypeOK
<1> QED BY InitialTypes, StepTypes, PTL DEF Spec

-----------------------------------------------------------------------------
(* The registered connection is served. *)

LoginSteps ==
  {"detach", "kickFind", "kickRemove", "unregister", "kickClose", "session", "register"}
KickSteps  == LoginSteps \ {"session", "register"}
LeaveSteps == {"find", "pull", "forget", "done"}

LoggingIn(c) == at[c] \in LoginSteps \/ (at[c] \in UseCase /\ task[c] = "kick")
Kicking(c)   == at[c] \in KickSteps  \/ (at[c] \in UseCase /\ task[c] = "kick")
Leaving(c)   == at[c] \in LeaveSteps \/ (at[c] \in UseCase /\ task[c] = "cleanup")
Kicked(c)    == \E k \in Conns : victim[k] = c

(* A connection logs in once: whoever is registered or being kicked has done so,
   and whoever is at it has not. *)
LoginOnce ==
  /\ \A c \in Conns : LoggingIn(c) => state[c] = "connected"
  /\ \A c \in Conns : victim[c] \in Conns => state[victim[c]] # "connected"
  /\ registered \in Conns => state[registered] # "connected"

(* A login that kicks has a victim, and one about to register has a session. *)
LoginKeeps ==
  /\ \A c \in Conns : Kicking(c) => victim[c] # None
  /\ \A c \in Conns : at[c] = "register" => c \in sessions

(* Neither the victim a kick is about to close nor a connection that is leaving
   is registered, unless somebody is kicking it. *)
Unregistered ==
  /\ \A c \in Conns : at[c] = "kickClose" => registered # victim[c]
  /\ \A c \in Conns : Leaving(c) /\ registered = c => Kicked(c)

Served ==
  /\ TypeOK /\ HasCharacter
  /\ LoginOnce /\ LoginKeeps /\ Unregistered
  /\ RegisteredIsServed

(* Steps that touch neither the login nor the registry. *)
LEMMA Unconcerned ==
  ASSUME Served, TypeOK', HasCharacter', UNCHANGED <<at, task, state, victim, sessions, registered>>
  PROVE  Served'
  BY DEF Served, LoginOnce, LoginKeeps, Unregistered, RegisteredIsServed,
         LoggingIn, Kicking, Leaving, Kicked

(* A step of one connection between packets and use cases that is no login and
   no kick: it goes on with its packet or back to the next one. *)
LEMMA OwnBusiness ==
  ASSUME Served, TypeOK', HasCharacter', NEW c \in Conns,
         UNCHANGED <<victim, sessions, registered>>,
         \A d \in Conns \ {c} : UNCHANGED <<at[d], task[d], state[d]>>,
         state'[c] = "connected" => state[c] = "connected",
         ~LoggingIn(c)', Leaving(c)' => Leaving(c)
  PROVE  Served'
<1> USE DEF Served, LoggingIn, Kicking, Leaving, Kicked, LoginSteps, KickSteps
<1>1. LoginOnce'
  BY DEF LoginOnce, TypeOK
<1>2. LoginKeeps'
  BY DEF LoginKeeps
<1>3. Unregistered'
  BY DEF Unregistered
<1> QED BY <1>1, <1>2, <1>3 DEF RegisteredIsServed

(* A login with its kick. *)
LEMMA LoginServes ==
  ASSUME Served, TypeOK', HasCharacter', NEW c \in Conns, Login(c)
  PROVE  Served'
<1> USE NoneAssumption
    DEF Served, LoginOnce, LoginKeeps, Unregistered, RegisteredIsServed, LoggingIn, Kicking, Leaving,
        Kicked, LoginSteps, KickSteps, LeaveSteps, UseCase, TypeOK, Go, At, Receives,
        handler, network, game, store
<1>1. CASE AuthLogin(c)
  <2>1. state[c] = "connected" /\ at[c] = "idle"
    BY <1>1 DEF AuthLogin
  <2>2. CASE registered \in {None, c}
    <3>1. at' = [at EXCEPT ![c] = "session"] /\ UNCHANGED <<state, task, victim, sessions, registered>>
      BY <1>1, <2>2 DEF AuthLogin
    <3> QED BY <2>1, <3>1
  <2>3. CASE registered \notin {None, c}
    <3>1. at' = [at EXCEPT ![c] = "detach"] /\ victim' = [victim EXCEPT ![c] = registered]
      BY <1>1, <2>3 DEF AuthLogin
    <3>2. UNCHANGED <<state, task, sessions, registered>>
      BY <1>1, <2>3 DEF AuthLogin
    <3>3. LoginOnce' /\ LoginKeeps'
      BY <2>1, <2>3, <3>1, <3>2
    <3>4. \A d \in Conns : registered = d => Kicked(d)'
      BY <3>1, <3>2
    <3>5. Unregistered' /\ RegisteredIsServed'
      BY <2>1, <2>3, <3>1, <3>2, <3>4
    <3> QED BY <3>3, <3>5
  <2> QED BY <2>2, <2>3
<1>2. CASE AuthFails(c)
  BY <1>2 DEF AuthFails
<1>3. CASE Detach(c)
  BY <1>3 DEF Detach
<1>4. CASE KickFind(c)
  <2>1. \E step \in {"unregister", "kickRemove"} : at' = [at EXCEPT ![c] = step]
    BY <1>4 DEF KickFind
  <2> QED BY <1>4, <2>1 DEF KickFind
<1>5. CASE KickRemove(c)
  BY <1>5 DEF KickRemove
<1>6. CASE Unregister(c)
  BY <1>6 DEF Unregister
<1>7. CASE KickClose(c)
  BY <1>7 DEF KickClose
<1>8. CASE SetSession(c)
  BY <1>8 DEF SetSession
<1>9. CASE Register(c)
  BY <1>9 DEF Register
<1> QED BY <1>1, <1>2, <1>3, <1>4, <1>5, <1>6, <1>7, <1>8, <1>9 DEF Login

(* The character screen. *)
LEMMA PlayServes ==
  ASSUME Served, TypeOK', HasCharacter', NEW c \in Conns, Play(c)
  PROVE  Served'
<1> USE NoneAssumption
    DEF Served, LoginOnce, LoginKeeps, Unregistered, RegisteredIsServed, LoggingIn, Kicking, Leaving,
        Kicked, LoginSteps, KickSteps, LeaveSteps, UseCase, TypeOK, Go, At, Receives,
        handler, network, game, store
<1>1. CASE \E ch \in Chars : CharacterSelect(c, ch)
  BY <1>1 DEF CharacterSelect
<1>2. CASE AddPlayer(c)
  BY <1>2 DEF AddPlayer
<1>3. CASE EnterWorld(c)
  BY <1>3 DEF EnterWorld
<1>4. CASE RequestGotoLobby(c)
  BY <1>4 DEF RequestGotoLobby
<1>5. CASE LobbyRemove(c)
  BY <1>5 DEF LobbyRemove
<1> QED BY <1>1, <1>2, <1>3, <1>4, <1>5 DEF Play

(* Logout and restart. *)
LEMMA DepartServes ==
  ASSUME Served, TypeOK', HasCharacter', NEW c \in Conns, Depart(c)
  PROVE  Served'
<1> USE NoneAssumption
    DEF Served, LoginOnce, LoginKeeps, Unregistered, RegisteredIsServed, LoggingIn, Kicking, Leaving,
        Kicked, LoginSteps, KickSteps, LeaveSteps, UseCase, TypeOK, Go, At, Receives,
        handler, network, game, store
<1>1. CASE Logout(c)
  <2>1. \/ at' = [at EXCEPT ![c] = "validate"] /\ task' = [task EXCEPT ![c] = "logout"]
        \/ UNCHANGED <<at, task>>
    BY <1>1 DEF Logout
  <2>2. at[c] = "idle" /\ UNCHANGED <<state, victim, sessions, registered>>
    BY <1>1 DEF Logout
  <2>3. CASE UNCHANGED <<at, task>>
    BY <2>2, <2>3, OwnBusiness
  <2>4. CASE at' = [at EXCEPT ![c] = "validate"] /\ task' = [task EXCEPT ![c] = "logout"]
    BY <2>2, <2>4, OwnBusiness
  <2> QED BY <2>1, <2>3, <2>4
<1>2. CASE RequestRestart(c)
  BY <1>2 DEF RequestRestart
<1> QED BY <1>1, <1>2 DEF Depart

(* The use case returns. *)
LEMMA ReturnServes ==
  ASSUME Served, TypeOK', HasCharacter', NEW c \in Conns, NEW ok \in BOOLEAN, Return(c, ok),
         at[c] \in UseCase, UNCHANGED <<task, victim, sessions, registered>>
  PROVE  Served'
<1> USE NoneAssumption
    DEF Served, LoginOnce, LoginKeeps, Unregistered, RegisteredIsServed, LoggingIn, Kicking, Leaving,
        Kicked, LoginSteps, KickSteps, LeaveSteps, UseCase, TypeOK
<1>1. CASE task[c] = "kick"
  <2>1. at' = [at EXCEPT ![c] = "unregister"] /\ UNCHANGED state
    BY <1>1 DEF Return, Go
  <2> QED BY <1>1, <2>1
<1>2. CASE task[c] = "cleanup"
  <2>1. at' = [at EXCEPT ![c] = "forget"] /\ UNCHANGED state
    BY <1>2 DEF Return, Go
  <2> QED BY <1>2, <2>1
<1>3. CASE task[c] \notin {"kick", "cleanup"}
  <2>1. at' = [at EXCEPT ![c] = "idle"]
    BY <1>3 DEF Return, Go
  <2>2. state' \in {state, [state EXCEPT ![c] = "authed"]}
    BY <1>3 DEF Return
  <2>3. CASE UNCHANGED state
    BY <1>3, <2>1, <2>3, OwnBusiness
  <2>4. CASE state' = [state EXCEPT ![c] = "authed"]
    BY <1>3, <2>1, <2>4, OwnBusiness
  <2> QED BY <2>2, <2>3, <2>4
<1> QED BY <1>1, <1>2, <1>3

(* The use case, for a kick as for its other callers. *)
LEMMA UseCaseServes ==
  ASSUME Served, TypeOK', HasCharacter', NEW c \in Conns, LogoutUseCase(c)
  PROVE  Served'
<1> USE NoneAssumption
    DEF Served, LoginOnce, LoginKeeps, Unregistered, RegisteredIsServed, LoggingIn, Kicking, Leaving,
        Kicked, LoginSteps, KickSteps, LeaveSteps, UseCase, TypeOK, Go, At, Receives,
        handler, network, game, store
<1>1. CASE Validate(c)
  <2>1. CASE char[c] \in world \cap inCombat
    <3>1. Return(c, FALSE) /\ at[c] = "validate" /\ UNCHANGED <<task, victim, sessions, registered>>
      BY <1>1, <2>1 DEF Validate
    <3> QED BY <3>1, ReturnServes
  <2>2. CASE char[c] \notin world \cap inCombat
    <3>1. at[c] = "validate" /\ UNCHANGED <<task, state, victim, sessions, registered>>
      BY <1>1, <2>2 DEF Validate
    <3>2. at' = [at EXCEPT ![c] = "load"]
      BY <1>1, <2>2 DEF Validate
    <3> QED BY <3>1, <3>2
  <2> QED BY <2>1, <2>2
<1>2. CASE Load(c)
  BY <1>2 DEF Load
<1>3. CASE Write(c)
  BY <1>3 DEF Write
<1>4. CASE RemoveFromWorld(c)
  <2>1. Return(c, TRUE) /\ at[c] = "remove" /\ UNCHANGED <<task, victim, sessions, registered>>
    BY <1>4 DEF RemoveFromWorld
  <2> QED BY <2>1, ReturnServes
<1> QED BY <1>1, <1>2, <1>3, <1>4 DEF LogoutUseCase

(* The end of a connection. *)
LEMMA CleanupServes ==
  ASSUME Served, TypeOK', HasCharacter', NEW c \in Conns, Cleanup(c)
  PROVE  Served'
<1> USE NoneAssumption
    DEF Served, LoginOnce, LoginKeeps, Unregistered, RegisteredIsServed, LoggingIn, Kicking, Leaving,
        Kicked, LoginSteps, KickSteps, LeaveSteps, UseCase, TypeOK, Go, At, Receives,
        handler, network, game, store
<1>1. CASE Leave(c)
  BY <1>1 DEF Leave
<1>2. CASE ReadSession(c)
  <2>1. at[c] = "cleanup" /\ UNCHANGED <<task, state, victim, sessions, registered>>
    BY <1>2 DEF ReadSession
  <2>2. CASE c \in sessions
    <3>1. at' = [at EXCEPT ![c] = "unregisterIf"]
      BY <1>2, <2>2 DEF ReadSession
    <3> QED BY <2>1, <3>1
  <2>3. CASE c \notin sessions
    <3>1. at' = [at EXCEPT ![c] = "forget"]
      BY <1>2, <2>3 DEF ReadSession
    <3> QED BY <2>1, <2>3, <3>1
  <2> QED BY <2>2, <2>3
<1>3. CASE UnregisterIf(c)
  <2>1. at[c] = "unregisterIf" /\ UNCHANGED <<task, state, victim, sessions>>
    BY <1>3 DEF UnregisterIf
  <2>2. registered' = (IF registered = c THEN None ELSE registered) /\ at' = [at EXCEPT ![c] = "find"]
    BY <1>3 DEF UnregisterIf, Dropped
  <2>3. CASE registered = c
    <3>1. registered' = None
      BY <2>2, <2>3
    <3>2. LoginOnce'
      BY <2>1, <2>2, <3>1
    <3>3. LoginKeeps'
      BY <2>1, <2>2
    <3>4. Unregistered'
      <4>1. \A d \in Conns : registered' # d /\ (at'[d] = "kickClose" => at[d] = "kickClose")
        BY <2>1, <2>2, <3>1
      <4>2. \A d \in Conns : at[d] = "kickClose" => victim[d] # None
        OBVIOUS
      <4> QED BY <2>1, <3>1, <4>1, <4>2
    <3>5. RegisteredIsServed'
      BY <3>1
    <3> QED BY <3>2, <3>3, <3>4, <3>5
  <2>4. CASE registered # c
    <3>1. UNCHANGED registered
      BY <2>2, <2>4
    <3> QED BY <2>1, <2>2, <2>4, <3>1
  <2> QED BY <2>3, <2>4
<1>4. CASE FindPlayer(c)
  <2>1. at[c] = "find" /\ UNCHANGED <<task, state, victim, sessions, registered>>
    BY <1>4 DEF FindPlayer
  <2>2. PICK step \in {"forget", "pull"} : at' = [at EXCEPT ![c] = step]
    BY <1>4 DEF FindPlayer
  <2> QED BY <2>1, <2>2
<1>5. CASE PullPlayer(c)
  BY <1>5 DEF PullPlayer
<1>6. CASE Forget(c)
  BY <1>6 DEF Forget
<1> QED BY <1>1, <1>2, <1>3, <1>4, <1>5, <1>6 DEF Cleanup

(* The connection registered for the account always has a session, or the login
   that will close it is at work. *)
THEOREM RegisteredHasSession == Spec => []ServiceSound
<1>1. Init => Served
  <2> SUFFICES ASSUME Init PROVE Served
    OBVIOUS
  <2>1. TypeOK /\ HasCharacter
    BY InitialTypes
  <2> QED BY <2>1, NoneAssumption
      DEF Init, Served, LoginOnce, LoginKeeps, Unregistered, RegisteredIsServed, LoggingIn, Kicking,
          Leaving, LoginSteps, KickSteps, LeaveSteps, UseCase
<1>2. Served /\ [Next]_vars => Served'
  <2> SUFFICES ASSUME Served, [Next]_vars PROVE Served'
    OBVIOUS
  <2>1. TypeOK' /\ HasCharacter'
    BY StepTypes DEF Served
  <2>2. ASSUME NEW c \in Conns, Login(c) \/ Play(c) \/ Depart(c) \/ LogoutUseCase(c) \/ Cleanup(c)
        PROVE  Served'
    BY <2>1, <2>2, LoginServes, PlayServes, DepartServes, UseCaseServes, CleanupServes
  <2>3. CASE (\E c \in Conns : Drop(c)) \/ Loop \/ Saver \/ Shutdown \/ UNCHANGED vars
    <3>1. UNCHANGED <<at, task, state, victim, sessions, registered>>
      BY <2>3 DEF Drop, Loop, SetCombatState, AwardExp, Autosave, Saver, Shutdown, Stop, SnapshotOnline,
                  SaveOnline, CloseDatabase, vars, handler, network, game, store
    <3> QED BY <2>1, <3>1, Unconcerned
  <2> QED BY <2>2, <2>3 DEF Next
<1>3. Served => ServiceSound
  BY DEF Served, ServiceSound
<1> QED BY <1>1, <1>2, <1>3, PTL DEF Spec

-----------------------------------------------------------------------------
(* Quiet: from the stop on the clients are silent. *)

(* What the shutdown has still to write is what it wrote down of those online. *)
Written ==
  phase \in {"saving", "down"} =>
    /\ saves = <<>>
    /\ \A s \in final : s.progress = live[s.char]
    /\ \A ch \in world : row[ch] = live[ch] \/ Snap(ch, live[ch]) \in final
    /\ phase = "down" => final = {}
QuietInv == scenario = "quiet" => Written

LEMMA SavingIsSessions == SavingNext => [Next]_vars
<1> SUFFICES ASSUME SavingNext PROVE [Next]_vars
  OBVIOUS
<1>1. CASE CalmNext
  BY <1>1 DEF CalmNext, Next, Play, Loop
<1>2. CASE QuietNext
  BY <1>2 DEF QuietNext, Next
<1> QED BY <1>1, <1>2 DEF SavingNext

(* The types hold in both settings. *)
SavingTyped == TypeOK /\ HasCharacter /\ scenario \in {"calm", "quiet"}

LEMMA SavingStarts == SavingInit => SavingTyped
<1> QED BY InitialTypes DEF SavingInit, SavingTyped

LEMMA SavingTypes == SavingTyped /\ [SavingNext]_savingVars => SavingTyped'
<1> SUFFICES ASSUME SavingTyped, [SavingNext]_savingVars PROVE SavingTyped'
  OBVIOUS
<1>1. [Next]_vars /\ scenario' = scenario
  BY SavingIsSessions DEF SavingNext, savingVars
<1> QED BY <1>1, StepTypes DEF SavingTyped

LEMMA QuietSteps == SavingTyped /\ QuietInv /\ [SavingNext]_savingVars => QuietInv'
<1> SUFFICES ASSUME SavingTyped, QuietInv, [SavingNext]_savingVars, scenario = "quiet"
             PROVE  Written'
  BY DEF SavingNext, savingVars, QuietInv
<1> USE DEF SavingTyped
<1>1. Written
  BY DEF QuietInv
<1>2. ASSUME phase = "running",
             \E c \in Conns : Login(c) \/ Play(c) \/ Depart(c) \/ LogoutUseCase(c) \/ Cleanup(c) \/ Drop(c)
      PROVE  Written'
  <2>1. phase' = phase
    BY <1>2 DEF Login, AuthLogin, AuthFails, Detach, KickFind, KickRemove, Unregister, KickClose, SetSession,
                Register, Play, CharacterSelect, AddPlayer, EnterWorld, RequestGotoLobby, LobbyRemove,
                Depart, Logout, RequestRestart, LogoutUseCase, Validate, Load, Write, RemoveFromWorld,
                Cleanup, Leave, ReadSession, UnregisterIf, FindPlayer, PullPlayer, Forget, Drop, store
  <2> QED BY <1>2, <2>1 DEF Written
<1>3. CASE Loop \/ Stop
  <2>1. phase' \in {"running", "stopping"}
    BY <1>3 DEF Loop, SetCombatState, AwardExp, Autosave, Stop, store
  <2> QED BY <2>1 DEF Written
<1>4. CASE Saver
  BY <1>1, <1>4 DEF Saver, Written, Up
<1>5. CASE SnapshotOnline
  <2>1. /\ saves' = <<>> /\ phase' = "saving" /\ final' = {Snap(ch, live[ch]) : ch \in world}
        /\ UNCHANGED <<world, live, row>>
    BY <1>5 DEF SnapshotOnline, Drained, game
  <2>2. \A s \in final' : s.progress = live[s.char]
    BY <2>1 DEF Snap
  <2> QED BY <2>1, <2>2 DEF Written
<1>6. CASE SaveOnline
  <2>1. PICK s \in final : row' = [row EXCEPT ![s.char] = s.progress] /\ final' = final \ {s}
    BY <1>6 DEF SaveOnline
  <2>2. phase = "saving" /\ UNCHANGED <<world, live, saves, phase>>
    BY <1>6 DEF SaveOnline, game
  <2>3. s.progress = live[s.char]
    BY <1>1, <2>2 DEF Written
  <2>4. \A ch \in world : row'[ch] = live[ch] \/ Snap(ch, live[ch]) \in final'
    <3> TAKE ch \in world
    <3>1. ch \in Chars /\ row \in [Chars -> 0..MaxProgress] /\ (row[ch] = live[ch] \/ Snap(ch, live[ch]) \in final)
      BY <1>1, <2>2 DEF Written, TypeOK
    <3>2. CASE ch = s.char
      BY <2>1, <2>3, <3>1, <3>2
    <3>3. CASE ch # s.char
      <4>1. Snap(ch, live[ch]) # s
        BY <3>3 DEF Snap
      <4> QED BY <2>1, <3>1, <3>3, <4>1
    <3> QED BY <3>2, <3>3
  <2> QED BY <1>1, <2>1, <2>2, <2>4 DEF Written
<1>7. CASE CloseDatabase
  BY <1>1, <1>7 DEF CloseDatabase, Written, game
<1>8. CASE UNCHANGED savingVars
  BY <1>1, <1>8 DEF savingVars, vars, store, game, Written
<1> QED BY <1>2, <1>3, <1>4, <1>5, <1>6, <1>7, <1>8 DEF SavingNext, QuietNext, Shutdown

(* A graceful stop saves everybody who stays online through it, with what the
   loop, the saver and the clients did before in any order (service.go: the saver
   is drained before saveOnlinePlayersOnShutdown). *)
THEOREM StopSavesOnline == SavingSpec => []QuietIsSaved
<1>1. SavingInit => SavingTyped /\ QuietInv
  BY SavingStarts DEF SavingInit, Init, QuietInv, Written
<1>2. SavingTyped /\ QuietInv => QuietIsSaved
  BY DEF QuietInv, Written, QuietIsSaved, OnlineIsSaved
<1> QED BY <1>1, <1>2, SavingTypes, QuietSteps, PTL DEF SavingSpec

-----------------------------------------------------------------------------
(* Calm: the clients come one after the other. *)

(* A connection nobody uses yet, or nobody uses any more. *)
Settled(c) ==
  \/ at[c] = "idle" /\ state[c] = "connected" /\ c \in open
  \/ at[c] = "done" /\ c \notin open

(* What is known of the one connection in use: where it stands with its login,
   its socket, its character and the progress of that. *)
InUse(c) ==
  /\ at[c] \notin {"detach", "kickFind", "kickRemove", "unregister", "kickClose", "pull"}
  /\ state[c] = "connected" <=> at[c] \in {"session", "register"}
  /\ at[c] \in {"session", "register"} => world = {} /\ c \in open
  /\ at[c] = "register" => c \in sessions
  /\ registered = c => c \in sessions /\ at[c] \notin {"find", "forget"}
  /\ at[c] \in {"cleanup", "unregisterIf", "find", "forget"} => c \notin open
  /\ c \notin open => world = {}
  /\ at[c] \in {"select", "lobby"} => state[c] = "authed" /\ c \in open
  /\ at[c] = "select" => copy[c] = row[char[c]] /\ world \subseteq {char[c]}
  /\ at[c] = "lobby" => char[c] \in world
  /\ at[c] \in UseCase => char[c] \in world /\ task[c] \in {"logout", "restart"}
  /\ at[c] = "validate" /\ task[c] = "logout" => char[c] \notin inCombat
  /\ at[c] = "write" => copy[c] = live[char[c]]
  /\ at[c] = "remove" => row[char[c]] = live[char[c]]

Using(c) == ~Resting(c) /\ InUse(c) /\ (state[c] = "authed" => \A ch \in Chars : row[ch] = live[ch])

(* One character at most is in the world, and those outside have their progress
   in the database. *)
Stored ==
  /\ saves = <<>> /\ final = {} /\ phase = "running"
  /\ \A ch, d \in world : ch = d
  /\ \A ch \in Chars \ world : row[ch] = live[ch]

Orderly ==
  /\ Stored
  /\ \A c \in Conns : Settled(c) \/ Using(c)
  /\ \A c, d \in Conns : Using(c) /\ Using(d) => c = d
  /\ world # {} => \E c \in Conns : Using(c)
  /\ registered # None => Using(registered)
CalmInv == scenario = "calm" => Orderly

LEMMA SettledRests == \A c \in Conns : (Settled(c) => Resting(c)) /\ (Using(c) => ~Resting(c))
  BY DEF Settled, Resting, Using

(* A connection acts alone: either nobody has used the account's characters, or it
   is the one in use. *)
LEMMA ActsAlone ==
  ASSUME SavingTyped, Orderly, NEW c \in Conns, Alone(c)
  PROVE  /\ \A d \in Conns \ {c} : Settled(d)
         /\ registered \in {None, c}
         /\ Settled(c) \/ Using(c)
         /\ Settled(c) => world = {} /\ registered = None
<1>1. \A d \in Conns \ {c} : Settled(d) /\ ~Using(d)
  BY SettledRests DEF Orderly, Alone
<1>2. registered # None => registered \in Conns /\ Using(registered)
  BY DEF Orderly, SavingTyped, TypeOK
<1> QED BY <1>1, <1>2, SettledRests DEF Orderly

(* What a step of that connection has to see to. *)
LEMMA CalmStep ==
  ASSUME SavingTyped, Orderly, NEW c \in Conns, Alone(c),
         \A d \in Conns \ {c} : at'[d] = at[d] /\ state'[d] = state[d] /\ (d \in open' <=> d \in open),
         Stored', registered' \in {None, c},
         (Settled(c)' /\ world' = {} /\ registered' = None) \/ Using(c)'
  PROVE  Orderly'
<1>1. \A d \in Conns \ {c} : Settled(d)' /\ ~Using(d)'
  <2> TAKE d \in Conns \ {c}
  <2>1. Settled(d)
    BY ActsAlone
  <2>2. Settled(d)' /\ Resting(d)'
    BY <2>1 DEF Settled, Resting
  <2> QED BY <2>2 DEF Using
<1>2. Settled(c)' => ~Using(c)'
  BY DEF Settled, Using, Resting
<1> QED BY <1>1, <1>2 DEF Orderly

(* Logins: there is nobody to kick. *)
LEMMA CalmLogin ==
  ASSUME SavingTyped, Orderly, SavingTyped', NEW c \in Conns, Alone(c), Login(c)
  PROVE  Orderly'
<1>1. /\ registered \in {None, c} /\ (Settled(c) \/ Using(c))
      /\ (Settled(c) => world = {} /\ registered = None) /\ Stored
  BY ActsAlone DEF Orderly
<1>2. /\ UNCHANGED <<game, store>> /\ Stored'
      /\ at[c] \in {"idle", "session", "register"}
  BY <1>1 DEF Login, AuthLogin, AuthFails, Detach, KickFind, KickRemove, Unregister, KickClose, SetSession,
              Register, Receives, At, Settled, Using, InUse, Stored, game, store
<1>3. CASE AuthLogin(c)
  <2>1. at[c] = "idle" /\ state[c] = "connected" /\ c \in open
    BY <1>3 DEF AuthLogin, Receives, At
  <2>2. world = {} /\ registered = None
    BY <1>1, <2>1 DEF Using, Resting
  <2>3. at' = [at EXCEPT ![c] = "session"] /\ UNCHANGED <<state, open, sessions, registered, world, task>>
    BY <1>3, <2>2 DEF AuthLogin, Go, handler, network, game
  <2>4. at'[c] = "session"
    BY <2>3 DEF SavingTyped, TypeOK
  <2>5. Using(c)'
    BY <2>1, <2>2, <2>3, <2>4, NoneAssumption DEF Using, Resting, InUse, UseCase
  <2> QED BY <1>2, <2>2, <2>3, <2>5, CalmStep
<1>4. CASE AuthFails(c)
  <2>1. at[c] = "idle" /\ state[c] = "connected" /\ c \in open
    BY <1>4 DEF AuthFails, Receives, At
  <2>2. world = {} /\ registered = None
    BY <1>1, <2>1 DEF Using, Resting
  <2>3. state' = [state EXCEPT ![c] = "authed"] /\ UNCHANGED <<at, open, sessions, registered, game, store, task>>
    BY <1>4 DEF AuthFails, network
  <2>4. state'[c] = "authed"
    BY <2>3 DEF SavingTyped, TypeOK
  <2>5. \A ch \in Chars : row'[ch] = live'[ch]
    BY <1>1, <2>2, <2>3 DEF Stored, game, store
  <2>6. Using(c)'
    BY <2>1, <2>2, <2>3, <2>4, <2>5, NoneAssumption DEF Using, Resting, InUse, UseCase
  <2> QED BY <1>2, <2>2, <2>3, <2>6, CalmStep
<1>5. CASE SetSession(c)
  <2>1. at[c] = "session"
    BY <1>5 DEF SetSession, At
  <2>2. Using(c)
    BY <1>1, <2>1 DEF Settled
  <2>3. /\ at' = [at EXCEPT ![c] = "register"] /\ sessions' = sessions \cup {c}
        /\ UNCHANGED <<state, open, registered, world>>
    BY <1>5 DEF SetSession, Go, handler, game
  <2>4. at'[c] = "register"
    BY <2>3 DEF SavingTyped, TypeOK
  <2>5. Using(c)'
    BY <2>1, <2>2, <2>3, <2>4 DEF Using, Resting, InUse, UseCase
  <2> QED BY <1>1, <1>2, <2>3, <2>5, CalmStep
<1>6. CASE Register(c)
  <2>1. at[c] = "register"
    BY <1>6 DEF Register, At
  <2>2. Using(c)
    BY <1>1, <2>1 DEF Settled
  <2>3. /\ at' = [at EXCEPT ![c] = "idle"] /\ state' = [state EXCEPT ![c] = "authed"] /\ registered' = c
        /\ UNCHANGED <<open, sessions, game, store>>
    BY <1>6 DEF Register, Go
  <2>4. at'[c] = "idle" /\ state'[c] = "authed"
    BY <2>3 DEF SavingTyped, TypeOK
  <2>5. world = {} /\ c \in sessions /\ c \in open
    BY <2>1, <2>2 DEF Using, InUse
  <2>6. \A ch \in Chars : row'[ch] = live'[ch]
    BY <1>1, <2>3, <2>5 DEF Stored, game, store
  <2>7. Using(c)'
    BY <2>3, <2>4, <2>5, <2>6 DEF Using, Resting, InUse, UseCase
  <2> QED BY <1>2, <2>3, <2>7, CalmStep
<1> QED BY <1>2, <1>3, <1>4, <1>5, <1>6
        DEF Login, Detach, KickFind, KickRemove, Unregister, KickClose, At

(* The character screen: one character at a time. *)
LEMMA CalmPlay ==
  ASSUME SavingTyped, Orderly, SavingTyped', NEW c \in Conns, Alone(c),
         \/ \E ch \in Chars : CharacterSelect(c, ch) /\ world \subseteq {ch}
         \/ AddPlayer(c) \/ EnterWorld(c) \/ RequestGotoLobby(c) \/ LobbyRemove(c)
  PROVE  Orderly'
<1>1. /\ registered \in {None, c} /\ (Settled(c) \/ Using(c)) /\ Stored
  BY ActsAlone DEF Orderly
<1> USE DEF SavingTyped, TypeOK
<1>2. ASSUME NEW ch \in Chars, CharacterSelect(c, ch), world \subseteq {ch} PROVE Orderly'
  <2>1. at[c] = "idle" /\ state[c] = "authed" /\ c \in open /\ Using(c)
    BY <1>1, <1>2 DEF CharacterSelect, Receives, At, Settled
  <2>2. /\ at' = [at EXCEPT ![c] = "select"] /\ char' = [char EXCEPT ![c] = ch] /\ copy' = [copy EXCEPT ![c] = row[ch]]
        /\ UNCHANGED <<state, open, sessions, registered, world, live, inCombat, row, saves, final, phase>>
    BY <1>2 DEF CharacterSelect, Go, network, game, store
  <2>3. at'[c] = "select" /\ char'[c] = ch /\ copy'[c] = row[ch]
    BY <2>2
  <2>4. Using(c)'
    BY <1>2, <2>1, <2>2, <2>3 DEF Using, Resting, InUse, UseCase
  <2> QED BY <1>1, <2>2, <2>4, CalmStep DEF Stored
<1>3. CASE AddPlayer(c)
  <2>1. at[c] = "select" /\ Using(c) /\ char[c] \in Chars
    BY <1>1, <1>3 DEF AddPlayer, At, Settled, HasCharacter
  <2>2. /\ at' = [at EXCEPT ![c] = "idle"] /\ world' = world \cup {char[c]}
        /\ live' = [live EXCEPT ![char[c]] = copy[c]]
        /\ UNCHANGED <<state, open, sessions, registered, row, saves, final, phase>>
    BY <1>3 DEF AddPlayer, Go, handler, network, store
  <2>3. state[c] = "authed" /\ world \subseteq {char[c]} /\ copy[c] = row[char[c]] /\ world' = {char[c]}
    BY <2>1, <2>2 DEF Using, InUse
  <2>4. \A ch \in Chars : row'[ch] = live'[ch]
    BY <2>1, <2>2, <2>3 DEF Using
  <2>5. c \in open
    BY <2>1 DEF Using, InUse
  <2>6. Using(c)' /\ Stored'
    BY <1>1, <2>1, <2>2, <2>3, <2>4, <2>5 DEF Using, Resting, InUse, UseCase, Stored
  <2> QED BY <1>1, <2>2, <2>6, CalmStep
<1>4. CASE EnterWorld(c)
  <2>1. at[c] = "idle" /\ state[c] = "authed" /\ Using(c)
    BY <1>1, <1>4 DEF EnterWorld, Receives, At, Settled
  <2>2. /\ state' = [state EXCEPT ![c] = "ingame"]
        /\ UNCHANGED <<at, open, sessions, registered, world, live, row, saves, final, phase>>
    BY <1>4 DEF EnterWorld, network, game, store
  <2>3. state'[c] = "ingame"
    BY <2>2
  <2>4. Using(c)'
    BY <2>1, <2>2, <2>3 DEF Using, Resting, InUse, UseCase
  <2> QED BY <1>1, <2>2, <2>4, CalmStep DEF Stored
<1>5. CASE RequestGotoLobby(c)
  <2>1. at[c] = "idle" /\ state[c] = "authed" /\ c \in open /\ Using(c)
    BY <1>1, <1>5 DEF RequestGotoLobby, Receives, At, Settled
  <2>2. PICK ch \in world : char' = [char EXCEPT ![c] = ch]
    BY <1>5 DEF RequestGotoLobby
  <2>3. /\ at' = [at EXCEPT ![c] = "lobby"]
        /\ UNCHANGED <<state, open, sessions, registered, world, live, inCombat, row, saves, final, phase>>
    BY <1>5 DEF RequestGotoLobby, Go, network, game, store
  <2>4. at'[c] = "lobby" /\ char'[c] = ch
    BY <2>2, <2>3
  <2>5. Using(c)'
    BY <2>1, <2>3, <2>4 DEF Using, Resting, InUse, UseCase
  <2> QED BY <1>1, <2>3, <2>5, CalmStep DEF Stored
<1>6. CASE LobbyRemove(c)
  <2>1. at[c] = "lobby" /\ Using(c)
    BY <1>1, <1>6 DEF LobbyRemove, At, Settled
  <2>2. /\ at' = [at EXCEPT ![c] = "idle"] /\ world' = world \ {char[c]}
        /\ UNCHANGED <<state, open, sessions, registered, live, inCombat, row, saves, final, phase>>
    BY <1>6 DEF LobbyRemove, Go, handler, network, store
  <2>3. state[c] = "authed" /\ \A ch \in Chars : row[ch] = live[ch]
    BY <2>1 DEF Using, InUse
  <2>4. at'[c] = "idle" /\ state'[c] = "authed"
    BY <2>2, <2>3
  <2>5. Using(c)' /\ Stored'
    BY <1>1, <2>1, <2>2, <2>3, <2>4 DEF Using, Resting, InUse, UseCase, Stored
  <2> QED BY <1>1, <2>2, <2>5, CalmStep
<1> QED BY <1>2, <1>3, <1>4, <1>5, <1>6

(* Logout and restart. *)
LEMMA CalmDepart ==
  ASSUME SavingTyped, Orderly, SavingTyped', NEW c \in Conns, Alone(c), Depart(c)
  PROVE  Orderly'
<1>1. /\ registered \in {None, c} /\ (Settled(c) \/ Using(c)) /\ Stored
  BY ActsAlone DEF Orderly
<1> USE DEF SavingTyped, TypeOK
<1>2. /\ at[c] = "idle" /\ state[c] \in {"authed", "ingame"} /\ Using(c) /\ c \in sessions
      /\ UNCHANGED <<sessions, registered, world, live, inCombat, row, saves, final, phase>>
    BY <1>1 DEF Depart, Logout, RequestRestart, Receives, At, Settled, network, game, store
<1>3. Stored'
  BY <1>1, <1>2 DEF Stored
<1>4. ASSUME NEW ch \in world, NEW t \in {"logout", "restart"}, t = "logout" => ch \notin inCombat,
             char' = [char EXCEPT ![c] = ch], task' = [task EXCEPT ![c] = t], Go(c, "validate"),
             UNCHANGED <<state, open>>
      PROVE  Orderly'
  <2>1. at'[c] = "validate" /\ char'[c] = ch /\ task'[c] = t /\ \A d \in Conns \ {c} : at'[d] = at[d]
    BY <1>4 DEF Go
  <2>2. Using(c)'
    BY <1>2, <1>4, <2>1 DEF Using, Resting, InUse, UseCase
  <2> QED BY <1>1, <1>2, <1>3, <1>4, <2>1, <2>2, CalmStep
<1>5. CASE Logout(c)
  <2>1. CASE world = {} /\ open' = open \ {c} /\ UNCHANGED <<at, task, char, state>>
    <3>1. Using(c)'
      BY <1>2, <2>1 DEF Using, Resting, InUse, UseCase
    <3> QED BY <1>1, <1>2, <1>3, <2>1, <3>1, CalmStep
  <2>2. CASE \E ch \in world \ inCombat : /\ char' = [char EXCEPT ![c] = ch]
                                          /\ task' = [task EXCEPT ![c] = "logout"] /\ Go(c, "validate")
                                          /\ UNCHANGED <<open, state>>
    BY <1>4, <2>2
  <2> QED BY <1>5, <2>1, <2>2 DEF Logout
<1>6. CASE RequestRestart(c)
  <2>1. CASE world = {} /\ state' = [state EXCEPT ![c] = "authed"] /\ UNCHANGED <<at, task, char, open>>
    <3>1. \A ch \in Chars : row'[ch] = live'[ch]
      BY <1>1, <1>2, <2>1 DEF Stored
    <3>2. state'[c] = "authed" /\ at'[c] = "idle"
      BY <1>2, <2>1
    <3>3. Using(c)'
      BY <1>2, <2>1, <3>1, <3>2 DEF Using, Resting, InUse, UseCase
    <3> QED BY <1>1, <1>2, <1>3, <2>1, <3>3, CalmStep
  <2>2. CASE \E ch \in world : /\ char' = [char EXCEPT ![c] = ch]
                               /\ task' = [task EXCEPT ![c] = "restart"] /\ Go(c, "validate")
                               /\ UNCHANGED <<open, state>>
    BY <1>4, <2>2
  <2> QED BY <1>6, <2>1, <2>2 DEF RequestRestart, network
<1> QED BY <1>5, <1>6 DEF Depart

(* The use case: load, write and only then remove. *)
LEMMA CalmUseCase ==
  ASSUME SavingTyped, Orderly, SavingTyped', NEW c \in Conns, Alone(c), LogoutUseCase(c)
  PROVE  Orderly'
<1>1. /\ registered \in {None, c} /\ (Settled(c) \/ Using(c)) /\ Stored
  BY ActsAlone DEF Orderly
<1> USE DEF SavingTyped, TypeOK
<1>2. /\ at[c] \in UseCase /\ Using(c)
      /\ UNCHANGED <<task, char, sessions, registered, live, inCombat, saves, final, phase>>
  BY <1>1 DEF LogoutUseCase, Validate, Load, Write, RemoveFromWorld, At, Settled, UseCase, network, game, store, handler
<1>3. /\ char[c] \in world /\ char[c] \in Chars /\ task[c] \in {"logout", "restart"} /\ world = {char[c]} /\ c \in open
      /\ state[c] \in {"authed", "ingame"}
  <2>1. char[c] \in world /\ task[c] \in {"logout", "restart"}
    BY <1>2 DEF Using, InUse
  <2>2. world = {char[c]}
    BY <1>1, <2>1 DEF Stored
  <2>3. c \in open /\ state[c] \in {"authed", "ingame"}
    BY <1>2, <2>1 DEF Using, InUse, UseCase
  <2> QED BY <2>1, <2>2, <2>3
<1>4. CASE Validate(c)
  <2>1. at[c] = "validate" /\ UNCHANGED <<copy, world, row>>
    BY <1>4 DEF Validate, At, game, store
  <2>2. CASE char[c] \in inCombat
    <3>1. task[c] = "restart"
      BY <1>2, <1>3, <2>1, <2>2 DEF Using, InUse
    <3>2. at' = [at EXCEPT ![c] = "idle"] /\ UNCHANGED <<open, state>>
      BY <1>3, <1>4, <2>2, <3>1 DEF Validate, Return, Go
    <3>3. Using(c)'
      BY <1>2, <1>3, <2>1, <3>2 DEF Using, Resting, InUse, UseCase
    <3> QED BY <1>1, <1>2, <2>1, <3>2, <3>3, CalmStep DEF Stored
  <2>3. CASE char[c] \notin inCombat
    <3>1. at' = [at EXCEPT ![c] = "load"] /\ UNCHANGED <<open, state>>
      BY <1>4, <2>3 DEF Validate, Go
    <3>2. Using(c)'
      BY <1>2, <1>3, <2>1, <3>1 DEF Using, Resting, InUse, UseCase
    <3> QED BY <1>1, <1>2, <2>1, <3>1, <3>2, CalmStep DEF Stored
  <2> QED BY <2>2, <2>3
<1>5. CASE Load(c)
  <2>1. /\ at' = [at EXCEPT ![c] = "write"] /\ copy' = [copy EXCEPT ![c] = live[char[c]]]
        /\ UNCHANGED <<state, open, world, row>>
    BY <1>3, <1>5 DEF Load, Freshest, Go, network, game, store
  <2>2. at'[c] = "write" /\ copy'[c] = live[char[c]]
    BY <2>1
  <2>3. Using(c)'
    BY <1>2, <1>3, <2>1, <2>2 DEF Using, Resting, InUse, UseCase
  <2> QED BY <1>1, <1>2, <2>1, <2>3, CalmStep DEF Stored
<1>6. CASE Write(c)
  <2>1. /\ at[c] = "write" /\ at' = [at EXCEPT ![c] = "remove"] /\ row' = [row EXCEPT ![char[c]] = copy[c]]
        /\ UNCHANGED <<state, open, copy, world>>
    BY <1>6 DEF Write, At, Go, handler, network, game
  <2>2. copy[c] = live[char[c]]
    BY <1>2, <2>1 DEF Using, InUse
  <2>3. at'[c] = "remove" /\ row'[char[c]] = live[char[c]] /\ \A ch \in Chars : row'[ch] = row[ch] \/ ch = char[c]
    BY <1>3, <2>1, <2>2
  <2>4. Using(c)' /\ Stored'
    BY <1>1, <1>2, <1>3, <2>1, <2>3 DEF Using, Resting, InUse, UseCase, Stored
  <2> QED BY <1>1, <1>2, <2>1, <2>4, CalmStep
<1>7. CASE RemoveFromWorld(c)
  <2>1. at[c] = "remove" /\ world' = {} /\ Return(c, TRUE) /\ UNCHANGED <<copy, row>>
    BY <1>3, <1>7 DEF RemoveFromWorld, At, store
  <2>2. row[char[c]] = live[char[c]]
    BY <1>2, <2>1 DEF Using, InUse
  <2>3. \A ch \in Chars : row'[ch] = live'[ch]
    BY <1>1, <1>2, <1>3, <2>1, <2>2 DEF Stored
  <2>4. at' = [at EXCEPT ![c] = "idle"] /\ at'[c] = "idle"
    BY <1>3, <2>1 DEF Return, Go
  <2>5. Stored'
    BY <1>1, <1>2, <2>1, <2>3 DEF Stored
  <2>6. /\ \A d \in Conns \ {c} : state'[d] = state[d] /\ (d \in open' <=> d \in open)
        /\ state'[c] \in {"authed", "ingame"}
    BY <1>3, <2>1 DEF Return
  <2>7. Using(c)'
    BY <1>2, <2>1, <2>3, <2>4, <2>6 DEF Using, Resting, InUse, UseCase
  <2> QED BY <1>1, <1>2, <2>4, <2>5, <2>6, <2>7, CalmStep
<1> QED BY <1>4, <1>5, <1>6, <1>7 DEF LogoutUseCase

(* The end of a connection: its character has left the world before. *)
LEMMA CalmCleanup ==
  ASSUME SavingTyped, Orderly, SavingTyped', NEW c \in Conns, Alone(c), Cleanup(c)
  PROVE  Orderly'
<1>1. /\ registered \in {None, c} /\ (Settled(c) \/ Using(c)) /\ Stored
  BY ActsAlone DEF Orderly
<1> USE DEF SavingTyped, TypeOK
<1>2. Using(c) /\ c \notin open /\ world = {}
  BY <1>1 DEF Cleanup, Leave, ReadSession, UnregisterIf, FindPlayer, PullPlayer, Forget, At, Settled, Using, InUse,
              Stored
<1>3. /\ UNCHANGED <<state, world, live, row, saves, final, phase, copy>> /\ Stored'
  <2>1. ~PullPlayer(c)
    BY <1>2 DEF PullPlayer, At, Using, InUse
  <2>2. UNCHANGED <<state, world, live, row, saves, final, phase, copy>>
    BY <2>1 DEF Cleanup, Leave, ReadSession, UnregisterIf, FindPlayer, Forget, handler, game, store
  <2> QED BY <1>1, <2>2 DEF Stored
<1>4. CASE Leave(c)
  <2>1. at[c] = "idle" /\ at' = [at EXCEPT ![c] = "cleanup"] /\ UNCHANGED <<open, sessions, registered>>
    BY <1>4 DEF Leave, At, Go, network
  <2>2. Using(c)'
    BY <1>2, <1>3, <2>1 DEF Using, Resting, InUse, UseCase
  <2> QED BY <1>1, <1>3, <2>1, <2>2, CalmStep
<1>5. CASE ReadSession(c)
  <2>1. /\ at[c] = "cleanup" /\ UNCHANGED <<open, sessions, registered>>
        /\ at' = [at EXCEPT ![c] = IF c \in sessions THEN "unregisterIf" ELSE "forget"]
    BY <1>5 DEF ReadSession, At, Go, network
  <2>2. at'[c] = IF c \in sessions THEN "unregisterIf" ELSE "forget"
    BY <2>1
  <2>3. Using(c)'
    BY <1>2, <1>3, <2>1, <2>2 DEF Using, Resting, InUse, UseCase
  <2>4. \A d \in Conns \ {c} : at'[d] = at[d]
    BY <2>1
  <2> QED BY <1>1, <1>3, <2>1, <2>3, <2>4, CalmStep
<1>6. CASE UnregisterIf(c)
  <2>1. at[c] = "unregisterIf" /\ at' = [at EXCEPT ![c] = "find"] /\ UNCHANGED <<open, sessions>>
    BY <1>6 DEF UnregisterIf, At, Go
  <2>2. registered' = None
    BY <1>1, <1>6 DEF UnregisterIf, Dropped
  <2>3. Using(c)'
    BY <1>2, <1>3, <2>1, <2>2, NoneAssumption DEF Using, Resting, InUse, UseCase
  <2> QED BY <1>3, <2>1, <2>2, <2>3, CalmStep
<1>7. CASE FindPlayer(c)
  <2>1. at[c] = "find" /\ at' = [at EXCEPT ![c] = "forget"] /\ UNCHANGED <<open, sessions, registered>>
    BY <1>2, <1>7 DEF FindPlayer, At, Go, network
  <2>2. Using(c)'
    BY <1>2, <1>3, <2>1 DEF Using, Resting, InUse, UseCase
  <2> QED BY <1>1, <1>3, <2>1, <2>2, CalmStep
<1>8. CASE Forget(c)
  <2>1. /\ at[c] = "forget" /\ at' = [at EXCEPT ![c] = "done"] /\ open' = open \ {c} /\ UNCHANGED registered
    BY <1>8 DEF Forget, At, Go
  <2>2. registered = None
    BY <1>1, <1>2, <2>1 DEF Using, InUse
  <2>3. Settled(c)'
    BY <2>1 DEF Settled
  <2> QED BY <1>2, <1>3, <2>1, <2>2, <2>3, CalmStep
<1>9. ~PullPlayer(c)
  BY <1>2 DEF PullPlayer, At, Using, InUse
<1> QED BY <1>4, <1>5, <1>6, <1>7, <1>8, <1>9 DEF Cleanup

(* Between packets: combat begins and ends, and who has entered makes progress. *)
LEMMA CalmGame ==
  ASSUME SavingTyped, Orderly, SavingTyped', NEW ch \in Chars, BetweenPackets,
         SetCombatState(ch) \/ (Entered /\ AwardExp(ch, FALSE))
  PROVE  Orderly'
<1> USE DEF SavingTyped, TypeOK
<1>1. UNCHANGED <<at, state, task, char, copy, open, sessions, registered, world, row, saves, final, phase>>
  BY DEF SetCombatState, AwardExp, handler, network, store
<1>2. /\ \A x \in Chars : x # ch => live'[x] = live[x]
      /\ ch \in world
  BY DEF SetCombatState, AwardExp
<1>3. Stored'
  BY <1>1, <1>2 DEF Orderly, Stored
<1>4. \A c \in Conns : Settled(c) => Settled(c)'
  BY <1>1 DEF Settled
<1>5. ASSUME NEW c \in Conns, Using(c) PROVE Using(c)'
  <2>1. at[c] = "idle"
    BY <1>5 DEF BetweenPackets, Using, Resting
  <2>2. state[c] = "authed" => \A x \in Chars : row'[x] = live'[x]
    <3>1. CASE SetCombatState(ch)
      BY <1>1, <1>5, <3>1 DEF SetCombatState, Using
    <3>2. CASE Entered
      <4>1. PICK e \in open : state[e] = "ingame"
        BY <3>2 DEF Entered
      <4>2. Using(e)
        BY <4>1 DEF Orderly, Settled
      <4> QED BY <1>5, <4>1, <4>2 DEF Orderly
    <3> QED BY <3>1, <3>2
  <2> QED BY <1>1, <1>5, <2>1, <2>2 DEF Using, Resting, InUse, UseCase
<1>6. \A c \in Conns : Using(c)' => Using(c)
  BY <1>1, <1>4, SettledRests DEF Orderly, Using, Resting
<1> QED BY <1>1, <1>3, <1>4, <1>5, <1>6 DEF Orderly

LEMMA CalmSteps == SavingTyped /\ CalmInv /\ [SavingNext]_savingVars => CalmInv'
<1> SUFFICES ASSUME SavingTyped, CalmInv, [SavingNext]_savingVars, scenario = "calm" PROVE Orderly'
  BY DEF SavingNext, savingVars, CalmInv
<1>1. SavingTyped' /\ Orderly
  BY SavingTypes DEF CalmInv
<1>2. CASE CalmNext
  BY <1>1, <1>2, CalmLogin, CalmPlay, CalmDepart, CalmUseCase, CalmCleanup, CalmGame DEF CalmNext
<1>3. CASE UNCHANGED savingVars
  <2>1. UNCHANGED <<at, state, task, char, copy, open, sessions, registered, world, live, inCombat, row, saves, final, phase>>
    BY <1>3 DEF savingVars, vars, handler, network, game, store
  <2> QED BY <1>1, <2>1 DEF Orderly, Stored, Settled, Using, Resting, InUse
<1> QED BY <1>2, <1>3 DEF SavingNext

(* Whoever left the world in order has all progress in the database, whatever was
   gained, refused or begun anew before, for any number of characters and clients
   one after the other (usecase/logout.go: the character is saved from the world
   before it leaves it). *)
THEOREM LeavingInOrderSaves == SavingSpec => []CalmSaves
<1>1. SavingInit => SavingTyped /\ CalmInv
  <2> SUFFICES ASSUME SavingInit PROVE CalmInv
    BY SavingStarts
  <2>1. \A c \in Conns : Settled(c) /\ ~Using(c)
    BY DEF SavingInit, Init, Settled, Using, Resting
  <2> QED BY <2>1 DEF SavingInit, Init, CalmInv, Orderly, Stored
<1>2. SavingTyped /\ CalmInv => CalmSaves
  BY DEF CalmInv, Orderly, Stored, CalmSaves, LeavingSaves
<1> QED BY <1>1, <1>2, SavingTypes, CalmSteps, PTL DEF SavingSpec
=============================================================================
