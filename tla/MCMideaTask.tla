---------------------------- MODULE MCMideaTask ----------------------------
(* Instances of MideaTask.  Three requests instead of 850 keep both parities *)
(* of the count and the limit, and NoMore is odd as 0xFFFF is.               *)
EXTENDS MideaTask

AllFrames    == {"SN", "AIR", "SELF_TEST", "SWITCH", "RESTART", "OTHER"}
AnswerFrames == {"SN"}

=============================================================================
