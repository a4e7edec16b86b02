------------------------- MODULE MCThumbnailProvider -------------------------
(* Model values of ThumbnailProvider for TLC. *)
EXTENDS ThumbnailProvider, TLC

\* Two whole requests do not fit under the limit of the configurations.
SmallParts == [part \in Parts |-> CASE part = "backing" -> 2
                                    [] part = "working" -> 3
                                    [] OTHER            -> 1]

\* One apartment lives to see a second request of the same object.
CONSTANTS p1, p2, step, other
FewUses == (p1 :> 3) @@ (p2 :> 2)
=============================================================================
