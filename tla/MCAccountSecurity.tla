------------------------- MODULE MCAccountSecurity -------------------------
(* Small instances of AccountSecurity for TLC. *)
EXTENDS GuessHistory, TLC

CONSTANT RightsChange   \* whether rights change after the setup

MCProjectOf == [b \in Branch |-> CHOOSE p \in Project : TRUE]

\* Users are interchangeable; this one becomes the administrator.
FirstUser == CHOOSE u \in User : TRUE

\* The database starts with an administrator, a second user and, if there are
\* groups, a group.
Setup ==
    CASE lastEvent.sequence = 0 -> account'[FirstUser] # "none"
      [] lastEvent.sequence = 1 -> account' # account
      [] lastEvent.sequence = 2 -> Group # {} => catalog' \cap Group # {}
      [] OTHER -> RightsChange \/ UNCHANGED <<members, grants, assignments>>

MCSpec == GuessInit /\ [][GuessNext /\ Setup]_guessVars

\* Sessions, tokens, passwords and calls are interchangeable.
MCSymmetry ==
    Permutations(Session) \cup Permutations(Token)
        \cup Permutations(Password) \cup Permutations(Caller)
=============================================================================
