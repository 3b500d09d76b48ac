----------------------------- MODULE MCRxChannel ----------------------------
(***************************************************************************)
(* The instance of RxChannel that TLC checks: what set_num_transfers() is  *)
(* called with.                                                            *)
(***************************************************************************)
EXTENDS RxChannel

\* A negative number, no number, fewer transfers than buffers, as many, and
\* more, so that the ring wraps twice.
RingNumbers == {-1, 0, 2, 3, 7}

=============================================================================
