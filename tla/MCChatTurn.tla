----------------------------- MODULE MCChatTurn -----------------------------
(* ChatTurn on a few sends and steer dispatches.  The sends are alike, so   *)
(* the safety runs identify states that differ by a permutation of them.   *)
EXTENDS ChatTurn, TLC

SendSymmetry == Permutations(Msgs)
=============================================================================
