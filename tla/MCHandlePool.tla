---------------------------- MODULE MCHandlePool ----------------------------
(* HandlePool with three threads of different habits.                      *)
EXTENDS HandlePool, TLC

CONSTANTS t1, t2, t3

MCThread == {t1, t2, t3}

MCMayCall ==
    t1 :> {"flowOut", "purge"} @@
    t2 :> {"flowOut", "canOpen", "close"} @@
    t3 :> {"blockade", "close"}

=============================================================================
