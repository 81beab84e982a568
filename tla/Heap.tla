-------------------------------- MODULE Heap --------------------------------
(* The memory manager of lib/misc/BootLibrary.c.  Memory is cut into cells  *)
(* of 16 KB and a table has one byte per cell: zero for a free cell, else a *)
(* mark from which free works out how long the block is.                    *)
(*                                                                          *)
(* Sizes are counted in units of 256 bytes, to which malloc rounds.  It     *)
(* runs with interrupts masked, so that an operation is one step.           *)
EXTENDS Integers

CONSTANTS
  Cells,      \* cells in which a block may start: 0x400
  CellUnits,  \* units in a cell: 64
  MaxBig,     \* cells of the largest size served: 320
  Sizes       \* bound: the sizes asked for

ASSUME HeapAssumption ==
  /\ Cells \in Nat /\ Cells >= 2 /\ CellUnits \in Nat /\ CellUnits >= 2
  /\ MaxBig \in Nat /\ MaxBig >= 5 /\ Sizes \subseteq Nat

VARIABLES
  mem,         \* the table, memsmall
  live,        \* the blocks the callers hold
  stuck,       \* the blocks of five cells they gave back
  interrupts   \* whether interrupts are enabled

heapVars == <<mem, live, stuck, interrupts>>

Free == "00"
Marks == {Free, "AA", "FE", "DC", "BA", "B8", "BB", "CC", "FF"}

\* The bytes the table may use; the initialisation clears as many.
Table == 0..Cells + MaxBig

\* What malloc asks of t_malloc: room for its header and for alignment.
Rounded(size) == size + 2

\* Mutant: no largest size.
CellsForAny(units) ==
  IF units <= CellUnits THEN 1
  ELSE IF units <= 4 * CellUnits THEN 4
  ELSE (units \div CellUnits) + 1

\* The cells of a block, 0 for a size that is never served.
CellsFor(units) ==
  IF units <= CellUnits THEN 1
  ELSE IF units <= 4 * CellUnits THEN 4
  ELSE IF units <= MaxBig * CellUnits THEN (units \div CellUnits) + 1
  ELSE 0

\* The mark of the i-th cell of a block of n.
Mark(n, i) ==
  IF n = 1 THEN "AA"
  ELSE IF n = 4 THEN <<"FE", "DC", "BA", "B8">>[i + 1]
  ELSE IF i = 0 \/ i = n - 1 THEN "BB"
  ELSE IF i = 1 \/ i = n - 2 THEN "CC"
  ELSE "FF"

\* Mutant: the last cell is not looked at.
FitsShort(c, n) == \A i \in 0..n - 2 : mem[c + i] = Free

\* The table shows n free cells from c on; the test may pass the last cell in
\* which a block may start.
Fits(c, n) == \A i \in 0..n - 1 : mem[c + i] = Free

Starts(n) == {c \in 1..Cells - 1 : Fits(c, n)}

Extent(b) == b.start..b.start + b.n - 1

t_malloc(size, n, c) ==
  /\ c \in Starts(n) /\ \A e \in Starts(n) : c <= e
  /\ mem' = [k \in Table |-> IF k \in c..c + n - 1 THEN Mark(n, k - c) ELSE mem[k]]
  /\ live' = live \cup {[start |-> c, n |-> n, size |-> size]}

malloc(size) ==
  LET n == CellsFor(Rounded(size))
  IN  /\ \/ n # 0 /\ \E c \in Starts(n) : t_malloc(size, n, c)
         \/ (n = 0 \/ Starts(n) = {}) /\ UNCHANGED <<mem, live>>
      /\ interrupts' = TRUE
      /\ UNCHANGED stuck

\* The four marks from c on.
MarksAt(c) == <<mem[c], mem[c + 1], mem[c + 2], mem[c + 3]>>

\* Where the search for the end of a large block stops.
Ends(c) == {k \in c..Cells - 1 : mem[k] = "CC" /\ mem[k + 1] = "BB"}

\* Mutant: the closing mark stays.
ClearedShort(c) ==
  IF mem[c] = "AA" THEN {c}
  ELSE IF MarksAt(c) = <<"FE", "DC", "BA", "B8">> THEN c..c + 3
  ELSE IF MarksAt(c) = <<"BB", "CC", "FF", "FF">>
  THEN {k \in Table : k >= c /\ k < Cells /\ \A e \in Ends(c) : k <= e}
  ELSE {}

\* The cells that t_free clears for a block that starts at c.
Cleared(c) ==
  IF mem[c] = "AA" THEN {c}
  ELSE IF MarksAt(c) = <<"FE", "DC", "BA", "B8">> THEN c..c + 3
  ELSE IF MarksAt(c) = <<"BB", "CC", "FF", "FF">>
  THEN {k \in Table : k >= c /\ (k < Cells \/ k - 1 \in Ends(c)) /\ \A e \in Ends(c) : k <= e + 1}
  ELSE {}

\* A caller gives back a block it holds.
free(b) ==
  /\ b \in live
  /\ mem' = [k \in Table |-> IF k \in Cleared(b.start) THEN Free ELSE mem[k]]
  /\ live' = live \ {b}
  /\ stuck' = IF b.n = 5 THEN stuck \cup {b} ELSE stuck
  /\ interrupts' = TRUE

\* free(NULL) returns after it has masked the interrupts.
freeNull ==
  /\ interrupts' = FALSE
  /\ UNCHANGED <<mem, live, stuck>>

MemoryManagementInitialization ==
  /\ mem = [k \in Table |-> IF k = 0 THEN "FF" ELSE Free]
  /\ live = {} /\ stuck = {}
  /\ interrupts = TRUE

HeapNext ==
  \/ \E size \in Sizes : malloc(size)
  \/ \E b \in live : free(b)
  \/ freeNull

HeapSpec == MemoryManagementInitialization /\ [][HeapNext]_heapVars

(****************************************************************************)
(* Properties.                                                              *)

BlockTypes ==
  {b \in [start : 1..Cells - 1, n : 1..MaxBig + 1, size : Sizes] : b.n = CellsFor(Rounded(b.size))}

\* The table holds only the marks of t_malloc, and every block is one of those
\* that CellsFor makes of a size.
HeapTypeOK ==
  /\ mem \in [Table -> Marks]
  /\ live \subseteq BlockTypes /\ stuck \subseteq BlockTypes
  /\ interrupts \in BOOLEAN

\* Whatever was allocated and freed before, no two blocks that callers hold
\* share a cell, and each has room for the size asked for: t_free works out
\* the length of a block from marks alone and never clears a cell of another.
BlocksApart ==
  /\ \A b, d \in live : b # d => Extent(b) \cap Extent(d) = {}
  /\ \A b \in live : b.n * CellUnits >= Rounded(b.size)

\* What is freed is free again: a cell in which a block may start is taken
\* only by a block a caller holds, or by one of five cells, whose marks
\* t_free does not recognise.
NothingElseTaken ==
  \A k \in 1..Cells - 1 :
    mem[k] # Free => \E b \in live \cup stuck : k \in Extent(b)
=============================================================================
