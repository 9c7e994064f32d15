--------------------------- MODULE SlidingBlocks ---------------------------
(***************************************************************************)
(* The puzzle itself, as klotski.md tells it: rectangular blocks on a grid *)
(* of squares, of which one slides a square at a time and never across or  *)
(* onto another.  It knows no board array and no cell codes; Level, which  *)
(* keeps both, implements it.                                              *)
(***************************************************************************)
EXTENDS Integers

CONSTANTS Block, Width, Height, Start, Grid

VARIABLE at      \* Block -> the upper left square of the block, <<column, row>>

\* The squares block b covers when its upper left one is s.
Covers(b, s) ==
    (s[1] .. (s[1] + Width[b] - 1)) \X (s[2] .. (s[2] + Height[b] - 1))

Neighbours(s) ==
    {<<s[1] + 1, s[2]>>, <<s[1] - 1, s[2]>>, <<s[1], s[2] + 1>>, <<s[1], s[2] - 1>>}

\* Block b may stand at s: on the grid and clear of every other block.
Free(b, s) ==
    /\ Covers(b, s) \subseteq Grid
    /\ \A o \in Block \ {b} : Covers(b, s) \cap Covers(o, at[o]) = {}

Init == at = Start

SlideTo(b, s) ==
    /\ s \in Neighbours(at[b])
    /\ Free(b, s)
    /\ at' = [at EXCEPT ![b] = s]

StartOver == at' = Start

Next == \/ \E b \in Block : \E s \in Neighbours(at[b]) : SlideTo(b, s)
        \/ StartOver

Spec == Init /\ [][Next]_at

=============================================================================
