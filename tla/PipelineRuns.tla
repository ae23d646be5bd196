----------------------------- MODULE PipelineRuns -----------------------------
(***************************************************************************)
(* What a generation promises, with neither workers, broker, crashes nor   *)
(* retries: every run saves, one agent after the other and in the order of *)
(* the pipeline, the context its agents build.  A run may stop anywhere,   *)
(* and with the work of an agent it may save that it was asked to.         *)
(***************************************************************************)
EXTENDS PipelineContext

CONSTANT Runs

VARIABLE saved  \* the context each run has saved

Init == saved = [r \in Runs |-> EmptyContext]

\* The note of the request to stop.
Note(c, noted) == [c EXCEPT !.failed = @ \/ noted]

Advance(r) ==
    \E a \in Agents :
        /\ NextAgent(saved[r], a)
        /\ \E low, noted \in BOOLEAN :
              saved' = [saved EXCEPT ![r] = Note(RunAgent(@, a, low), noted)]

Next == \E r \in Runs : Advance(r)

Spec == Init /\ [][Next]_saved

===============================================================================
