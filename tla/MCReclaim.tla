----------------------------- MODULE MCReclaim -----------------------------
(* Instances of Reclaim for TLC.                                            *)
EXTENDS Reclaim, TLC

CONSTANTS d1, d2, p1, p2, r1, r2

\* One device with one process, or with two; two devices.
Alone == p1 :> d1
SameDevice == (p1 :> d1) @@ (p2 :> d1)
TwoDevices == (p1 :> d1) @@ (p2 :> d2)

\* Every record remembered on the first device, or one on each.
AllOnOne == (r1 :> d1) @@ (r2 :> d1)
OneOnEach == (r1 :> d1) @@ (r2 :> d2)

Everything == {"forget", "reclaim", "repack", "orphans", "unreadable",
               "hydrate", "recover", "takeOwnership", "releaseAll"}

\* The commands two devices are given side by side.
SideBySide == {"forget", "reclaim", "releaseAll", "repack", "unreadable", "hydrate"}

SlabSymmetry == Permutations(Slab)
=============================================================================
