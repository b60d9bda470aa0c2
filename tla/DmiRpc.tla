------------------------------- MODULE DmiRpc -------------------------------
(***************************************************************************)
(* What the debug transport promises to a debugger: a remote procedure     *)
(* call.  A request that was accepted is executed once by the debug        *)
(* module, its answer comes back once, and only then is another request    *)
(* accepted.                                                               *)
(***************************************************************************)
CONSTANTS Data, Zero

VARIABLES call,    \* the request that was accepted and not yet executed
          done,    \* the request that was executed and not yet answered
          answer   \* the last answer (each request is its own answer)

vars == <<call, done, answer>>

Init == call = Zero /\ done = Zero /\ answer = Zero

Call(d) == /\ call = Zero /\ done = Zero
           /\ call' = d
           /\ UNCHANGED <<done, answer>>

Execute == /\ call # Zero /\ done = Zero
           /\ done' = call /\ call' = Zero
           /\ UNCHANGED answer

Return == /\ done # Zero
          /\ answer' = done /\ done' = Zero
          /\ UNCHANGED call

Next == (\E d \in Data \ {Zero} : Call(d)) \/ Execute \/ Return

Spec == Init /\ [][Next]_vars

(* Every accepted request is executed and answered.                        *)
FairSpec == Spec /\ WF_vars(Execute) /\ WF_vars(Return)
=============================================================================
