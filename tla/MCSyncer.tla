------------------------------ MODULE MCSyncer ------------------------------
(***************************************************************************)
(* The surroundings Syncer is checked in.  A unit is two symbols of 15 kHz *)
(* numerology, 1/7 ms: a chunk of 8 ms has 56, the 20 ms between two       *)
(* blocks 140.  The offset of the blocks in their chunks is therefore the  *)
(* phase modulo 56, and moves on by 28 from one block to the next.         *)
(***************************************************************************)
EXTENDS SyncerInv, TLC

Cell(n1, n2) == [nid1 |-> n1, nid2 |-> n2]

With(around, indices, receptions, failures) ==
  [phase : around, nid_2 : indices, lossy : receptions, faults : failures]

\* One cell: its block clear of the boundaries of its chunk, or not: in a slot that
\* starts with its chunk, before it, in the middle, at the end.
Inner == {Cell(1, 1) :> ph : ph \in {p \in 0 .. 55 \cup {66, 100, 122, 136} : Clear(p)}}
Corner == {Cell(1, 1) :> ph : ph \in {0, 26, 28, 54, 55}}

\* Cells that differ in the PSS, or only in the SSS; one whose group needs nine bits,
\* alone and with one that has the same group modulo 256.
Neighbours ==
  {Cell(1, 1) :> 10 @@ Cell(2, 2) :> ph : ph \in {10, 34, 90}}
    \cup {Cell(1, 1) :> 10 @@ Cell(2, 1) :> 90}
    \cup {Cell(300, 1) :> 10, Cell(300, 1) :> 10 @@ Cell(44, 2) :> 34}

\* Mostly any PSS is looked for, by default; also that of one cell, or of none.
Everything ==
  With(Inner \cup Corner \cup Neighbours, {4}, BOOLEAN, {{}})
    \cup With({Cell(1, 1) :> 10, Cell(1, 1) :> 10 @@ Cell(2, 2) :> 34}, 0 .. 2, BOOLEAN, {{}})
    \cup With(Corner \cup {Cell(1, 1) :> 10}, {4}, BOOLEAN, {{"decoder"}})
    \cup With({Cell(1, 1) :> 10, Cell(1, 1) :> 10 @@ Cell(2, 2) :> 34}, {4}, {FALSE}, {{"overflow"}})

\* One cell, its block anywhere in a period, nothing missed.
AnyPhase == With({Cell(1, 1) :> ph : ph \in 0 .. Period - 1}, {4}, {FALSE}, {{}})

Endings == {0, 4, 30}
Overflows == {35}
=============================================================================
