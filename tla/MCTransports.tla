---------------------------- MODULE MCTransports ----------------------------
(* The two transports of the game server for TLC, in three scenarios of one run.
   "client" is ClientConn. The others are LoginLink: in "any" everything may
   happen at any time; in "settled" a connection breaks, or a client asks on it,
   only when its dialler has set its flags and the key switch is over, the
   condition under which the link always comes back. *)
EXTENDS LoginLink, ClientConn

VARIABLE scenario
allVars == <<linkVars, clientVars, scenario>>

Settled ==
  /\ \A d \in Dialers : pc[d] \in {"off", "wait"}
  /\ \A c \in Conns : reader[c] \in {"none", "loop", "recv", "off"}

OnLink      == scenario \in {"any", "settled"} /\ UNCHANGED <<clientVars, scenario>>
AnyTime     == scenario = "any" /\ UNCHANGED <<clientVars, scenario>>
OnClient    == scenario = "client" /\ UNCHANGED <<linkVars, scenario>>
WhenSettled == scenario = "settled" => Settled

ScenarioInit == LinkInit /\ ConnInit /\ scenario \in {"any", "settled", "client"}
ScenarioNext ==
  \/ \E d \in Dialers : Dialling(d) /\ OnLink
  \/ \E r \in Recons : Tick(r) /\ OnLink
  \/ \E c \in Conns : (Reading(c) \/ SendAuthRequest(c) \/ Answering(c)) /\ OnLink
  \/ \E c \in Conns : Lose(c) /\ WhenSettled /\ OnLink
  \/ ClientAuth /\ WhenSettled /\ (scenario = "settled" => made < MaxConns) /\ OnLink
  \/ \E c \in Conns : RequestCharacters(c) /\ AnyTime
  \/ Heartbeat /\ AnyTime
  \/ ConnNext /\ OnClient

\* The fairness of LoginLink and of ClientConn, each in its scenarios.
ScenarioSpec ==
  /\ ScenarioInit /\ [][ScenarioNext]_allVars
  /\ \A d \in Dialers : WF_allVars(Dialling(d) /\ OnLink)
  /\ \A d \in Dialers : SF_allVars(DialSucceeds(d) /\ OnLink)
  /\ \A r \in Recons : WF_allVars(Tick(r) /\ OnLink)
  /\ \A c \in Conns : /\ WF_allVars(Reading(c) /\ OnLink)
                      /\ WF_allVars(SendAuthRequest(c) /\ OnLink)
                      /\ WF_allVars(Answering(c) /\ OnLink)
  /\ WF_allVars(Writing /\ OnClient) /\ WF_allVars(CloseSocket /\ OnClient)
  /\ WF_allVars(HandlerReturned /\ OnClient) /\ WF_allVars(SendKey /\ OnClient)
  /\ WF_allVars(~socket /\ HandlerReadFails /\ OnClient)

\* In the settled scenario a link that is down is always up again, and one that
\* is up is authenticated (connectToLoginServerWithRetry,
\* startBackgroundReconnection, OnLoginServerDisconnected).
SettledRecovers == scenario = "settled" => LinkRestored /\ LinkAuthenticated
=============================================================================
