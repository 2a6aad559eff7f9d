----------------------------- MODULE MCSemaphore -----------------------------
(* Four threads on one semaphore of include/Utils.h.                       *)
EXTENDS Semaphore, TLC

CONSTANTS t1, t2, t3, t4

MCThreads == {t1, t2, t3, t4}
MCSymmetry == Permutations(MCThreads)
==============================================================================
