----------------------- MODULE MCProcessCoordinator -----------------------
(* TLC instances of ProcessCoordinator: three import threads (the one being
   opened and two superseded ones still unwinding).                         *)
EXTENDS ProcessCoordinator, TLC

CONSTANTS s1, s2, s3
TwoSessions == {s1, s2}
ThreeSessions == {s1, s2, s3}

\* Sessions are interchangeable; used only by runs without liveness.
SessionSymmetry == Permutations(Sessions)
=============================================================================
