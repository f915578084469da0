---------------------------- MODULE MCScheduleRow ----------------------------
EXTENDS ScheduleRow, TLC

\* Dispatch ids are interchangeable; for safety runs only.
IdSymmetry == Permutations(Ids)
=============================================================================
