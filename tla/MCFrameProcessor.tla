-------------------------- MODULE MCFrameProcessor --------------------------
(* Small instances of FrameProcessor: one frame of each kind.              *)
EXTENDS FrameProcessor, TLC

CONSTANTS s1, i1, c1, y1, d1, u1

\* Kinds of the frames the configurations choose from.
AllKinds ==
    (s1 :> "start") @@ (i1 :> "interruption") @@ (c1 :> "cancel")
    @@ (y1 :> "system") @@ (d1 :> "data") @@ (u1 :> "uninterruptible")

MCKind == [f \in Frame |-> AllKinds[f]]

=============================================================================
