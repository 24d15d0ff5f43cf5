----------------------------- MODULE MCSemQueue -----------------------------
(***************************************************************************)
(* Instances of SemQueue for TLC.  Sizes are in units of payload.  Payload *)
(* values are only ever copied and compared, so they are interchangeable.  *)
(***************************************************************************)
EXTENDS SemQueue, TLC

ByteSymmetry == Permutations(Byte)
=============================================================================
