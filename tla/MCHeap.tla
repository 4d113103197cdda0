------------------------------- MODULE MCHeap -------------------------------
(* Heap on a small machine: "kilobytes" of a few dozen bytes, the 16-byte  *)
(* headers of the code and requests that make every branch of kmalloc      *)
(* happen.  It extends HeapProofs to check the assumptions of the proofs.  *)
EXTENDS HeapProofs, HeapStats

CONSTANTS v1, v2

MCHimemSizes == {1, 2}
MCRequests == {3, 20}
MCContents == {v1, v2}
=============================================================================
