-------------------------- MODULE MCHeapAllocator --------------------------
(***************************************************************************)
(* HeapAllocator on a heap of a few bytes, for TLC.  In MCHeapAllocator.cfg*)
(* no request wraps around, as NoWrap says; MCHeapWrap.cfg asks for nearly *)
(* the whole address space.                                                *)
(***************************************************************************)
EXTENDS HeapAllocator
=============================================================================
