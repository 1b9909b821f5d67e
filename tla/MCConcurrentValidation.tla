----------------------- MODULE MCConcurrentValidation -----------------------
EXTENDS ConcurrentValidation, TLC

CONSTANTS t1, t2, c1, e1, e2

(* Two validating threads, one contract, two senders. *)
MCThreads == {t1, t2}
MCContracts == {c1}
MCEOAs == {e1, e2}
MCWidth == 2
MCInitBalances == {0, 1}
MCValues == {0, 1}

(* One thread: validations one after another. *)
MCOneThread == {t1}

(* The threads are interchangeable, and so are the senders. *)
MCSymmetry == Permutations(MCThreads) \cup Permutations(MCEOAs)
=============================================================================
