--------------------------- MODULE MCFileMirror ---------------------------
(* Instances of FileMirror for TLC.                                        *)
EXTENDS FileMirror, TLC

CONSTANTS serve, backfill, m1, m2, f1, f2

OneWorker  == {serve}
TwoWorkers == {serve, backfill}

TwoMessages == {m1, m2}
OneFile  == {f1}
TwoFiles == {f1, f2}

AllFaults == FaultKinds

\* No definition names a particular message or file.
MessagesAndFiles == Permutations(TwoMessages) \cup Permutations(TwoFiles)
=============================================================================
