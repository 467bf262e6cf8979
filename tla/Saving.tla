------------------------------- MODULE Saving -------------------------------
(* Sessions in the two settings where nothing that is saved gets lost. In "calm"
   the clients of the account come one after the other; each chooses one
   character, enters, and logs out, restarts or goes back to the lobby in order;
   progress is made and combat begins and ends between packets, and nothing is
   queued for the saver. In "quiet" everything happens while the server runs, and
   the clients are silent, and stay connected, from the stop on. *)
EXTENDS Sessions

VARIABLE scenario
savingVars == <<vars, scenario>>

Resting(c)     == at[c] = "done" \/ (at[c] = "idle" /\ state[c] = "connected")
Alone(c)       == \A d \in Conns \ {c} : Resting(d)
BetweenPackets == \A c \in Conns : at[c] \in {"idle", "done"}
Entered        == \E c \in open : state[c] = "ingame"

SavingInit == Init /\ scenario \in {"calm", "quiet"}

CalmNext ==
  \/ \E c \in Conns :
       /\ Alone(c)
       /\ \/ Login(c) \/ Depart(c) \/ LogoutUseCase(c) \/ Cleanup(c)
          \/ \E ch \in Chars : CharacterSelect(c, ch) /\ world \subseteq {ch}
          \/ AddPlayer(c) \/ EnterWorld(c) \/ RequestGotoLobby(c) \/ LobbyRemove(c)
  \/ \E ch \in Chars : BetweenPackets /\ (SetCombatState(ch) \/ (Entered /\ AwardExp(ch, FALSE)))

QuietNext ==
  \/ /\ phase = "running"
     /\ \E c \in Conns : Login(c) \/ Play(c) \/ Depart(c) \/ LogoutUseCase(c) \/ Cleanup(c) \/ Drop(c)
  \/ Loop \/ Saver \/ Shutdown

SavingNext ==
  /\ \/ scenario = "calm" /\ CalmNext
     \/ scenario = "quiet" /\ QuietNext
  /\ UNCHANGED scenario
SavingSpec == SavingInit /\ [][SavingNext]_savingVars

(* Whoever left the world in order left all progress in the database
   (logout.go: saveCharacterData before RemovePlayer). *)
CalmSaves    == scenario = "calm" => LeavingSaves

(* A graceful stop saves everybody who stays online through it (service.go:
   the saver is drained before saveOnlinePlayersOnShutdown). *)
QuietIsSaved == scenario = "quiet" => OnlineIsSaved
=============================================================================
