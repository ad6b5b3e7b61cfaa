---------------------------- MODULE GuessHistory ----------------------------
(***************************************************************************)
(* AccountSecurity with a history variable: the times at which wrong       *)
(* passwords for a user were counted since somebody was last entitled to   *)
(* the account.                                                            *)
(***************************************************************************)
EXTENDS AccountSecurity, Sequences

VARIABLE wrongGuesses

guessVars == <<securityVars, wrongGuesses>>

GuessInit == Init /\ wrongGuesses = [u \in User |-> <<>>]

GuessNext ==
    \/ OtherOperation /\ UNCHANGED wrongGuesses
    \/ \E u \in User :
          \/ WrongGuess(u) /\ wrongGuesses' = [wrongGuesses EXCEPT ![u] = Append(@, clock)]
          \/ Entitled(u)   /\ wrongGuesses' = [wrongGuesses EXCEPT ![u] = <<>>]

GuessSpec == GuessInit /\ [][GuessNext]_guessVars

\* An account is locked exactly while the last wrong password was one of every
\* FailureLimit in a row and LockoutTime has not passed since, whichever calls
\* they came from and however many were hashing at the same time
\* (password_credentials.cpp:436 and :259).
LockoutFollowsGuesses ==
    \A u \in User :
        LET guesses == wrongGuesses[u] IN
        lockedUntil[u] > clock <=>
            /\ guesses # <<>>
            /\ Len(guesses) % FailureLimit = 0
            /\ clock < guesses[Len(guesses)] + LockoutTime
=============================================================================
