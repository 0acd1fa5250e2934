----------------------------- MODULE MCCommandIO -----------------------------
(* Small instances of CommandIO for TLC.                                   *)
EXTENDS CommandIO

CONSTANTS good, bad

Passwords == {good, bad}

Call(sudo, tty, timeout, prompts, cached, pressed) ==
  [sudo |-> sudo, tty |-> tty, timeout |-> timeout, prompts |-> prompts, cached |-> cached,
   keys |-> pressed]

\* run() on two streams with a timeout, and on a terminal with env.prompts; sudo()
\* with a wrong password on a terminal, and with none on stderr.
Calls ==
  {Call(FALSE, FALSE, TRUE, FALSE, None, 0),
   Call(FALSE, TRUE, FALSE, TRUE, None, 1), Call(TRUE, TRUE, FALSE, FALSE, bad, 1),
   Call(TRUE, FALSE, FALSE, FALSE, None, 0)}
=============================================================================
