---------------------------- MODULE MCTlbShootdown --------------------------
(* Instances of TlbShootdown for TLC: which calls are made on which CPU.    *)
EXTENDS TlbShootdown

AllCalls == {"munmap", "mprotect", "fork"} \X {0, 1}
MixedCalls == {<<"munmap", 0>>, <<"mprotect", 1>>}
ThreeCalls == {<<"mprotect", 0>>, <<"mprotect", 1>>, <<"munmap", 2>>}
=============================================================================
