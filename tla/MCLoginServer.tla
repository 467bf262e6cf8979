--------------------------- MODULE MCLoginServer ---------------------------
(* LoginServer for TLC, in two scenarios of one run: "logins" has every client
   log in to every account and no game server, "keys" has one client of one
   account and two game server connections. Both connections and the client name
   FirstServer; one connection authenticates a second time, as another server. *)
EXTENDS LoginServer

CONSTANTS KeysAccount, KeysClient, FirstServer, TwiceLink

VARIABLE scenario
allVars == <<vars, scenario>>

LoginsOnly == scenario = "logins" /\ UNCHANGED scenario
KeysOnly   == scenario = "keys" /\ UNCHANGED scenario
\* The ids a connection names: another one only when it is known by the first.
Named(g)   == IF ~links[g].authed THEN {FirstServer}
              ELSE IF g = TwiceLink /\ links[g].id = FirstServer THEN Servers \ {FirstServer} ELSE {}
Played     == IF scenario = "keys" THEN {KeysAccount} ELSE Accounts

ScenarioInit ==
  /\ Init /\ scenario \in {"logins", "keys"}
  /\ scenario = "keys" => \A a \in Accounts : db[a] = "player"
ScenarioNext ==
  \/ \E c \in Clients : /\ Accept(c) /\ (scenario = "keys" => c = KeysClient)
                        /\ UNCHANGED scenario
  \/ \E c \in Clients : Busy(c) /\ UNCHANGED scenario
  \/ \E c \in Clients : RemoveClient(c) /\ UNCHANGED scenario
  \/ \E c \in Clients, a \in Played, right \in BOOLEAN : RequestAuthLogin(c, a, right) /\ UNCHANGED scenario
  \/ LoginsOnly /\ \E c \in Clients : HangUp(c)
  \/ KeysOnly /\ \E c \in Clients, s \in Servers : s = FirstServer /\ RequestServerLogin(c, s)
  \/ KeysOnly /\ \E g \in Links : (Connect(g) \/ Authenticate(g) \/ RemoveSessionKey(g) \/ LoseLink(g))
  \/ KeysOnly /\ \E g \in Links, s \in Servers : s \in Named(g) /\ AuthRequest(g, s)
  \/ KeysOnly /\ \E g \in Links, a \in Played : (PlayerLogout(g, a) \/ ReplyCharacters(g, a))
  \/ KeysOnly /\ \E g \in Links, a \in Played, k \in KeyIds : ValidateSessionKey(g, a, k)
  \/ KeysOnly /\ \E s \in Servers, a \in Played : (DeliverEvent(s, a) \/ CountExpires(a, s))
  \/ KeysOnly /\ \E a \in Played : KeyExpires(a)

ScenarioSpec ==
  /\ ScenarioInit /\ [][ScenarioNext]_allVars
  /\ \A c \in Clients : /\ WF_allVars(Busy(c) /\ UNCHANGED scenario)
                        /\ WF_allVars(RemoveClient(c) /\ UNCHANGED scenario)

\* DisplacedGoes, among the clients of the first scenario.
LoginsDisplacedGoes == scenario = "logins" => DisplacedGoes
=============================================================================
