------------------------- MODULE MCReceiptJournal -------------------------
(* ReceiptJournal with a file of a few bytes.                              *)
EXTENDS ReceiptJournal, TLC

KeySymmetry == Permutations(Keys)
=============================================================================
