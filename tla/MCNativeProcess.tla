-------------------------- MODULE MCNativeProcess --------------------------
(* Every list of up to two ranges of three CPUs, in order or not.          *)
EXTENDS NativeProcess

CONSTANT LastCpu

Ranges == [first : 0..LastCpu, last : 0..LastCpu]

MCLists == BoundedSeq(Ranges, 2)
=============================================================================
