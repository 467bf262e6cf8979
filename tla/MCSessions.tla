----------------------------- MODULE MCSessions -----------------------------
(* Sessions for TLC: while the server runs, and with clients that vanish. *)
EXTENDS Sessions, TLC

ConnSymmetry == Permutations(Conns)

(* The server is not stopped, and no progress is made. *)
RunningNext ==
  \/ \E c \in Conns : Login(c) \/ Play(c) \/ Depart(c) \/ LogoutUseCase(c) \/ Cleanup(c) \/ Drop(c)
  \/ \E ch \in Chars : SetCombatState(ch)
  \/ Autosave
RunningSpec == Init /\ [][RunningNext]_vars /\ Fairness

(* EXP goes to a character whose client has entered the world. *)
Gain(levelUp) ==
  /\ \E c \in Conns : state[c] = "ingame"
  /\ \E ch \in Chars : AwardExp(ch, levelUp)

(* Clients never go back to the lobby or log out: they vanish. The loop saves
   nothing. *)
VanishNext ==
  \/ \E c \in Conns : Login(c) \/ LogoutUseCase(c) \/ Cleanup(c) \/ Drop(c)
  \/ \E c \in Conns : AddPlayer(c) \/ EnterWorld(c) \/ \E ch \in Chars : CharacterSelect(c, ch)
  \/ Gain(FALSE)
VanishSpec == Init /\ [][VanishNext]_vars
=============================================================================
