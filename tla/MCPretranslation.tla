-------------------------- MODULE MCPretranslation --------------------------
(* Instances of Pretranslation for TLC. *)
EXTENDS Pretranslation

CONSTANTS r1, r2, f1, f2, f3

\* Two runs that meet on a file.
TwoRuns == [r \in {r1, r2} |-> IF r = r1 THEN {f1, f2} ELSE {f1}]

\* Two runs of one file.
OneFile == [r \in {r1, r2} |-> {f1}]

\* One run of two files.
TwoFiles == [r \in {r1} |-> {f1, f2}]

\* One run with enough files to converge two and lose one.
OneRun == [r \in {r1} |-> {f1, f2, f3}]
=============================================================================
