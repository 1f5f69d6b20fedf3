-------------------------- MODULE MCAliyunRegister --------------------------
(* Three threads, so that two can register at the same time. *)
EXTENDS AliyunRegister

CONSTANTS t1, t2, t3, main, callback

ThreeThreads == {t1, t2, t3}

=============================================================================
