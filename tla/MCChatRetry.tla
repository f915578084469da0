----------------------------- MODULE MCChatRetry -----------------------------
(* ChatRetry with two automatic kinds and small caps.                      *)
EXTENDS ChatRetry, TLC

MCCap == [k \in AutoKinds |-> IF k = "quota" THEN 2 ELSE 1]

TaskSymmetry == Permutations(Tasks)
=============================================================================
