---------------------------- MODULE ReplayWindow ----------------------------
(***************************************************************************)
(* The DTLS anti-replay window (meshcop-dtls/src/replay.rs) as a value:    *)
(* the newest sequence number marked, and the bitmap of the Width numbers  *)
(* up to it, written as the set of its one bits (bit b stands for the      *)
(* sequence number newest - b).  The code's Width is 64.                   *)
(***************************************************************************)
EXTENDS Integers

CONSTANT Width      \* u64::BITS

ASSUME WidthAssumption == Width \in Nat \ {0}

NothingYet == -1
Windows == [newest : Nat \cup {NothingYet}, seen : SUBSET (0..(Width - 1))]

EmptyWindow == [newest |-> NothingYet, seen |-> {}]

HasSeen(w, s) ==
    /\ w.newest # NothingYet
    /\ s <= w.newest
    /\ w.newest - s >= Width \/ (w.newest - s) \in w.seen

\* The bits that stay in the bitmap when it is shifted left.
Shifted(bits, shift) == {b \in 0..(Width - 1) : b - shift \in bits}

\* Mutant of MarkSeen: a newer record starts the bitmap afresh.
MarkSeenForgetting(w, s) ==
    IF w.newest = NothingYet \/ s > w.newest
    THEN [newest |-> s, seen |-> {0}]
    ELSE [w EXCEPT !.seen = IF w.newest - s < Width THEN @ \cup {w.newest - s} ELSE @]

MarkSeen(w, s) ==
    IF w.newest = NothingYet
    THEN [newest |-> s, seen |-> {0}]
    ELSE IF s > w.newest
    THEN [newest |-> s,
          seen |-> IF s - w.newest >= Width
                   THEN {0} ELSE Shifted(w.seen, s - w.newest) \cup {0}]
    ELSE [newest |-> w.newest,
          seen |-> IF w.newest - s < Width
                   THEN w.seen \cup {w.newest - s} ELSE w.seen]
=============================================================================
