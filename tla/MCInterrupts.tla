---------------------------- MODULE MCInterrupts ----------------------------
(* Interrupts with the timer, the keyboard and a masked line 7, a clock    *)
(* that wraps after a few ticks, and three blocks of memory, so that a     *)
(* lost answer can be asked for again.                                     *)
EXTENDS Interrupts

MCLines == {0, 1, 7}
MCTimer == {0}
MCExceptions == {14}
MCNone == {}
MCFunctions == {"sleep", "system", "malloc", "realloc", "free", "sync"}
MCSleep == {"sleep"}
MCHeap == {"malloc", "realloc", "free"}
MCNumbers == {0, 1}
MCPointers == {64, 96, 128}
=============================================================================
