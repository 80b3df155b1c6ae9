----------------------------- MODULE MCFileRelay -----------------------------
(* Instances of FileRelay with two or three clients of which one or two    *)
(* send.                                                                   *)
EXTENDS FileRelay, TLC

CONSTANTS c1, c2, c3, a1, a2

(* The two senders are alike.                                            *)
MCSenders == Permutations({c1, c2})

OneAccount == [c \in Client |-> a1]
MCAccountOf == [c \in Client |-> IF c = c3 THEN a2 ELSE a1]
=============================================================================
