----------------------------- MODULE MCStateFile -----------------------------
(* A small instance of StateFile whose two writers share a body.           *)
EXTENDS StateFile, TLC

CONSTANTS w1, w2, b1, b2

MCWriters == {w1, w2}
MCBodies == {b1, b2}
MCSharedBodies == w1 :> {b1} @@ w2 :> {b1}
=============================================================================
