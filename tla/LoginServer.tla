---------------------------- MODULE LoginServer ----------------------------
(* The login server (internal/loginserver): clients that log in, are kicked by a
   later login of their account and ask for a game server; the session keys
   issued to them and consumed by the game servers; the registry of game servers
   and the character counts they report on request. Every client and every game
   server connection has a goroutine of its own, every published event another.

   A session key is a number, larger for a later one. Passwords, addresses and
   server attributes are left out: a login gives the right password or not. Two
   identical events under way count as one. *)
EXTENDS Naturals

CONSTANTS
  Clients,   \* client connections, each made once
  Links,     \* game server connections, each made once
  Accounts,
  Servers,   \* server ids a client or a game server may name
  MaxKeys,   \* bound: session keys ever issued
  None

ASSUME LoginAssumption == MaxKeys \in Nat /\ None \notin Clients \union Accounts \union Servers

VARIABLES
  db,        \* the accounts table
  clients,   \* per client: where its goroutine is, client.Account, the account of
             \* the login in progress, and the client it has to kick
  online,    \* clients whose socket is open
  accounts,  \* handler.accounts: the client registered for an account
  keys,      \* sessionKeys: the key stored for an account, 0 if none
  expired,   \* accounts whose stored key is older than five minutes
  issued,    \* keys ever issued, with their account and server
  registry,  \* ids of the registered game servers
  links,     \* per game server connection: where it is, its id and the id it will
             \* have, the player being authenticated
  counts,    \* character counts: per account and server "none", "fresh", "old"
  events,    \* published SendPacketEvents whose goroutine has not run
  asked,     \* per link, the accounts RequestCharacters was sent for
  uses       \* history: how often a link accepted a key

sessionVars == <<db, clients, online, accounts>>
keyVars    == <<keys, expired, issued, uses>>
serverVars == <<registry, links, counts, asked>>
vars == <<sessionVars, keyVars, serverVars, events>>

KeyIds == 1..MaxKeys
\* What a session key was issued for.
Issue  == [account : Accounts \union {None}, server : Servers \union {None}]

\* The record of one client connection.
Client == [pc : {"new", "read", "create", "known", "kick", "ask", "gone"},
           acct : Accounts \union {None}, cand : Accounts \union {None},
           old : Clients \union {None}]
\* Per server, what is stored of an account's characters.
Counts == [Servers -> {"none", "fresh", "old"}]
\* The events published on the bus.
SendPacketEvent == Servers \X Accounts

LoginTypeOK ==
  /\ db \in [Accounts -> {"absent", "player", "banned"}]
  /\ clients \in [Clients -> Client]
  /\ online \subseteq Clients /\ expired \subseteq Accounts
  /\ accounts \in [Accounts -> Clients \union {None}]
  /\ keys \in [Accounts -> 0..MaxKeys]
  /\ issued \in [KeyIds -> Issue]
  /\ registry \subseteq Servers
  /\ links \in [Links -> [pc : {"new", "read", "named", "consume", "gone"}, authed : BOOLEAN,
                          id : Servers \union {None}, next : Servers \union {None},
                          acct : Accounts \union {None}]]
  /\ counts \in [Accounts -> Counts]
  /\ events \subseteq SendPacketEvent
  /\ asked \in [Links -> SUBSET Accounts]
  /\ uses \in [Links -> [KeyIds -> 0..2]]

Init ==
  /\ db \in [Accounts -> {"absent", "player", "banned"}]
  /\ clients = [c \in Clients |-> [pc |-> "new", acct |-> None, cand |-> None, old |-> None]]
  /\ online = {} /\ expired = {} /\ registry = {} /\ events = {}
  /\ accounts = [a \in Accounts |-> None]
  /\ keys = [a \in Accounts |-> 0]
  /\ issued = [k \in KeyIds |-> [account |-> None, server |-> None]]
  /\ links = [g \in Links |-> [pc |-> "new", authed |-> FALSE,
                            id |-> None, next |-> None, acct |-> None]]
  /\ counts = [a \in Accounts |-> [s \in Servers |-> "none"]]
  /\ asked = [g \in Links |-> {}]
  /\ uses = [g \in Links |-> [k \in KeyIds |-> 0]]

Goes(c, where) == clients' = [clients EXCEPT ![c].pc = where]

-----------------------------------------------------------------------------
(* Clients. *)

Accept(c) ==
  /\ clients[c].pc = "new"
  /\ online' = online \union {c}
  /\ Goes(c, "read")
  /\ UNCHANGED <<db, accounts, keyVars, serverVars, events>>

\* RequestAuthLogin: the account is looked up; banned accounts and wrong
\* passwords are answered with LoginFail, and the client stays.
RequestAuthLogin(c, a, right) ==
  /\ clients[c].pc = "read" /\ c \in online
  /\ clients' = [clients EXCEPT
       ![c].pc = CASE db[a] = "absent" -> "create"
                   [] db[a] = "player" /\ right -> "known"
                   [] OTHER -> "read",
       ![c].cand = IF db[a] = "absent" \/ (db[a] = "player" /\ right) THEN a ELSE @]
  /\ UNCHANGED <<db, online, accounts, keyVars, serverVars, events>>

\* autoCreate: the insert fails if another client has created it meanwhile.
CreateAccount(c) ==
  /\ clients[c].pc = "create"
  /\ LET a == clients[c].cand IN
     IF db[a] = "absent"
       THEN db' = [db EXCEPT ![a] = "player"] /\ Goes(c, "known")
       ELSE UNCHANGED db /\ Goes(c, "read")
  /\ UNCHANGED <<online, accounts, keyVars, serverVars, events>>

\* client.Account is set and registerAccount returns the client it displaces.
RegisterAccount(c) ==
  /\ clients[c].pc = "known"
  /\ LET a   == clients[c].cand
         old == accounts[a]
         hit == old \notin {None, c}
     IN  /\ accounts' = [accounts EXCEPT ![a] = c]
         /\ clients' = [clients EXCEPT ![c].acct = a,
                                       ![c].pc = IF hit THEN "kick" ELSE "ask",
                                       ![c].old = IF hit THEN old ELSE None]
  /\ UNCHANGED <<db, online, keyVars, serverVars, events>>

\* Mutant: the displaced client is told but its socket stays open.
KickOldKeeps(c) ==
  /\ clients[c].pc = "kick"
  /\ clients' = [clients EXCEPT ![c].pc = "ask", ![c].old = None]
  /\ UNCHANGED <<db, online, accounts, keyVars, serverVars, events>>

\* The displaced client is told AccountInUse and its socket is closed.
KickOld(c) ==
  /\ clients[c].pc = "kick"
  /\ online' = online \ {clients[c].old}
  /\ clients' = [clients EXCEPT ![c].pc = "ask", ![c].old = None]
  /\ UNCHANGED <<db, accounts, keyVars, serverVars, events>>

\* RequestCharacterCountsFromAllServers: an event per registered server.
AskCounts(c) ==
  /\ clients[c].pc = "ask"
  /\ events' = events \union (registry \X {clients[c].acct})
  /\ Goes(c, "read")
  /\ UNCHANGED <<db, online, accounts, keyVars, serverVars>>

\* RequestServerLogin, for whatever server the client names: a new key takes the
\* place of the account's key.
NewKey(a, s, k) ==
  /\ keys' = [keys EXCEPT ![a] = k]
  /\ expired' = expired \ {a}
  /\ issued' = [issued EXCEPT ![k] = [account |-> a, server |-> s]]

RequestServerLogin(c, s) ==
  /\ clients[c].pc = "read" /\ c \in online /\ clients[c].acct # None
  /\ \E k \in KeyIds :
       /\ issued[k].account = None /\ \A j \in 1..(k - 1) : issued[j].account # None
       /\ NewKey(clients[c].acct, s, k)
  /\ UNCHANGED <<sessionVars, uses, serverVars, events>>

HangUp(c) ==
  /\ c \in online
  /\ online' = online \ {c}
  /\ UNCHANGED <<db, clients, accounts, keyVars, serverVars, events>>

\* Mutant: the index is cleared whoever it names.
DroppedAnyway(c) ==
  IF clients[c].acct = None THEN accounts ELSE [accounts EXCEPT ![clients[c].acct] = None]

\* The read fails and removeClient runs: the account index is cleared only if it
\* still names this client, and only for the account the client has now.
Dropped(c) ==
  LET a == clients[c].acct IN
  IF a # None /\ accounts[a] = c THEN [accounts EXCEPT ![a] = None] ELSE accounts

RemoveClient(c) ==
  /\ clients[c].pc = "read" /\ c \notin online
  /\ accounts' = Dropped(c)
  /\ Goes(c, "gone")
  /\ UNCHANGED <<db, online, keyVars, serverVars, events>>

-----------------------------------------------------------------------------
(* Game servers. *)

Connect(g) ==
  /\ links[g].pc = "new"
  /\ links' = [links EXCEPT ![g].pc = "read"]
  /\ UNCHANGED <<sessionVars, keyVars, registry, counts, asked, events>>

\* AuthRequest: registered, whatever the id, in place of an earlier entry. A
\* connection may send it again and with another id; until its own record is
\* written, events still find it under the id it had ...
AuthRequest(g, s) ==
  /\ links[g].pc = "read"
  /\ registry' = registry \union {s}
  /\ links' = [links EXCEPT ![g].pc = "named", ![g].next = s]
  /\ UNCHANGED <<sessionVars, keyVars, counts, asked, events>>

\* ... and then it takes the id and is marked authenticated.
Authenticate(g) ==
  /\ links[g].pc = "named"
  /\ links' = [links EXCEPT ![g].pc = "read", ![g].authed = TRUE,
                            ![g].id = links[g].next, ![g].next = None]
  /\ UNCHANGED <<sessionVars, keyVars, registry, counts, asked, events>>

Serving(g) == links[g].pc = "read" /\ links[g].authed

\* Mutant: only the login halves are compared, equal for all keys of a client.
SameLoginHalf(stored, k) == TRUE

\* SessionKey.Equals, on the login and play halves: different keys differ.
SameKey(stored, k) == stored = k

\* PlayerAuthRequest, ValidateSessionKey: an expired key is deleted, another key
\* is refused, ...
ValidateSessionKey(g, a, k) ==
  /\ Serving(g)
  /\ IF keys[a] # 0 /\ a \notin expired /\ SameKey(keys[a], k)
       THEN /\ links' = [links EXCEPT ![g].pc = "consume", ![g].acct = a]
            /\ uses' = [uses EXCEPT ![g][k] = IF @ < 2 THEN @ + 1 ELSE @]
            /\ UNCHANGED <<keys, expired>>
       ELSE /\ keys' = IF a \in expired THEN [keys EXCEPT ![a] = 0] ELSE keys
            /\ expired' = expired \ {a}
            /\ UNCHANGED <<links, uses>>
  /\ UNCHANGED <<sessionVars, issued, registry, counts, asked, events>>

\* Mutant: an accepted key is not consumed.
RemoveSessionKeyNot(g) ==
  /\ links[g].pc = "consume"
  /\ links' = [links EXCEPT ![g].pc = "read", ![g].acct = None]
  /\ UNCHANGED <<sessionVars, keyVars, registry, counts, asked, events>>

\* ... and an accepted one is removed under another lock: whatever key the
\* account has by then.
RemoveSessionKey(g) ==
  /\ links[g].pc = "consume"
  /\ keys' = [keys EXCEPT ![links[g].acct] = 0]
  /\ expired' = expired \ {links[g].acct}
  /\ links' = [links EXCEPT ![g].pc = "read", ![g].acct = None]
  /\ UNCHANGED <<sessionVars, issued, uses, registry, counts, asked, events>>

PlayerLogout(g, a) ==
  /\ Serving(g)
  /\ keys' = [keys EXCEPT ![a] = 0]
  /\ expired' = expired \ {a}
  /\ UNCHANGED <<sessionVars, issued, uses, serverVars, events>>

\* The goroutine of an event: the packet goes to one authenticated connection
\* with the id, or nowhere.
DeliverEvent(s, a) ==
  /\ <<s, a>> \in events
  /\ events' = events \ {<<s, a>>}
  /\ LET able == {g \in Links : links[g].authed /\ links[g].id = s /\ links[g].pc # "gone"} IN
     IF able = {}
       THEN UNCHANGED asked
       ELSE \E g \in able : asked' = [asked EXCEPT ![g] = @ \union {a}]
  /\ UNCHANGED <<sessionVars, keyVars, registry, links, counts>>

\* The game server answers, and the count is stored under the connection's id.
ReplyCharacters(g, a) ==
  /\ Serving(g) /\ a \in asked[g]
  /\ asked' = [asked EXCEPT ![g] = @ \ {a}]
  /\ counts' = [counts EXCEPT ![a][links[g].id] = "fresh"]
  /\ UNCHANGED <<sessionVars, keyVars, registry, links, events>>

\* A connection ends: it leaves the map, its registration stays.
LoseLink(g) ==
  /\ links[g].pc = "read"
  /\ links' = [links EXCEPT ![g].pc = "gone"]
  /\ asked' = [asked EXCEPT ![g] = {}]
  /\ UNCHANGED <<sessionVars, keyVars, registry, counts, events>>

\* Five minutes pass.
KeyExpires(a) ==
  /\ keys[a] # 0 /\ a \notin expired
  /\ expired' = expired \union {a}
  /\ UNCHANGED <<sessionVars, keys, issued, uses, serverVars, events>>
CountExpires(a, s) ==
  /\ counts[a][s] = "fresh"
  /\ counts' = [counts EXCEPT ![a][s] = "old"]
  /\ UNCHANGED <<sessionVars, keyVars, registry, links, asked, events>>

-----------------------------------------------------------------------------
Busy(c) == CreateAccount(c) \/ RegisterAccount(c) \/ KickOld(c) \/ AskCounts(c)

Next ==
  \/ \E c \in Clients : Accept(c) \/ Busy(c) \/ HangUp(c) \/ RemoveClient(c)
  \/ \E c \in Clients, a \in Accounts, right \in BOOLEAN : RequestAuthLogin(c, a, right)
  \/ \E c \in Clients, s \in Servers : RequestServerLogin(c, s)
  \/ \E g \in Links : Connect(g) \/ Authenticate(g) \/ RemoveSessionKey(g) \/ LoseLink(g)
  \/ \E g \in Links, s \in Servers : AuthRequest(g, s)
  \/ \E g \in Links, a \in Accounts : PlayerLogout(g, a) \/ ReplyCharacters(g, a)
  \/ \E g \in Links, a \in Accounts, k \in KeyIds : ValidateSessionKey(g, a, k)
  \/ \E s \in Servers, a \in Accounts : DeliverEvent(s, a) \/ CountExpires(a, s)
  \/ \E a \in Accounts : KeyExpires(a)

Fairness == \A c \in Clients : WF_vars(Busy(c)) /\ WF_vars(RemoveClient(c))
Spec == Init /\ [][Next]_vars /\ Fairness

-----------------------------------------------------------------------------
(* What a client is shown. *)

\* GetVisibleServers: every registered server is online.
VisibleServers == registry
\* GetCharacterCounts: the counts that are not older than five minutes.
CountsShown(a) == {s \in Servers : counts[a][s] = "fresh"}

-----------------------------------------------------------------------------
(* Properties. *)

\* Of the clients logged in to an account, all but the registered one are
\* closed, or some goroutine is about to close them (registerAccount and the
\* kick that follows it outside the lock).
OneClientPerAccount ==
  \A c \in Clients : \A a \in Accounts :
    clients[c].acct = a /\ clients[c].pc # "gone" /\ accounts[a] # c =>
      c \notin online \/ \E d \in Clients : clients[d].pc = "kick" /\ clients[d].old = c

\* A client that has gone is not registered for the last account it had.
GoneIsUnregistered ==
  \A c \in Clients : clients[c].pc = "gone" /\ clients[c].acct # None =>
    accounts[clients[c].acct] # c

\* A game server connection accepts a session key at most once, although the key
\* is checked and removed under two locks.
AcceptedOncePerLink == \A g \in Links, k \in KeyIds : uses[g][k] <= 1

\* A key that is accepted is the newest its account was given (CreateSessionKey
\* replaces, ValidateSessionKey compares).
AcceptsNewest ==
  [][\A g \in Links, k \in KeyIds : uses'[g][k] > uses[g][k] =>
       /\ links'[g].acct = issued[k].account
       /\ \A j \in KeyIds : issued[j].account = issued[k].account => j <= k]_vars

\* The counts in a server list belong to servers in the list.
CountsOfListed == \A a \in Accounts : CountsShown(a) \subseteq VisibleServers

\* A client displaced by another login of its account is gone in the end.
DisplacedGoes ==
  \A c \in Clients : \A a \in Accounts :
    (clients[c].acct = a /\ accounts[a] \notin {c, None}) ~>
      (clients[c].pc = "gone" \/ accounts[a] = c)

\* What the README of the login server says of RequestServerLogin: the server
\* the client names is checked to exist.
KeysForKnownServers == \A k \in KeyIds : issued[k].server \in registry \union {None}

\* The registries agree with the clients and with each other: every variable has
\* its type, an account keeps one client, none that has gone is registered for the
\* last account it had, and counts are shown of listed servers only
\* (registerAccount, removeClient, SetCharacterCount).
RegistriesSound == LoginTypeOK /\ OneClientPerAccount /\ GoneIsUnregistered /\ CountsOfListed
=============================================================================
