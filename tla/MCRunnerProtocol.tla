-------------------------- MODULE MCRunnerProtocol --------------------------
(* Two attempts, a request of one data frame and the Eof frame, a response *)
(* of one chunk.                                                           *)
EXTENDS RunnerProtocol

(* The goroutines an attempt leaves behind touch nothing of the next one;   *)
(* a second attempt is followed once those of the first have ended.         *)
Settled ==
  \A a \in Attempts : a + 1 \in Attempts /\ try[a + 1] # "idle" =>
    /\ recv[a] \in {"off", "done"}
    /\ r[a] \in {NoHandle, Gone}
=============================================================================
