-------------------------- MODULE MCTerminalSession --------------------------
EXTENDS TerminalSession, TLC

\* Sockets are interchangeable; for safety runs only.
ConnSymmetry == Permutations(Conns)
=============================================================================
