------------------------------ MODULE Channel ------------------------------
(***************************************************************************)
(* What a full handshake promises to its two clients: a channel with room  *)
(* for one word.  A word accepted while the sender was told "idle" is      *)
(* handed to the receiver exactly once, unchanged, for one receiver clock, *)
(* and the sender is told "idle" again only after that.                    *)
(***************************************************************************)
CONSTANTS Data, Zero

VARIABLES idle,   \* what the sender is told
          full,   \* a word was accepted and not yet handed over
          word,   \* that word (Zero when there is none)
          rdy,    \* the receiver is being handed a word
          got     \* the word handed over (Zero when there is none)

vars == <<idle, full, word, rdy, got>>

Init == /\ idle = TRUE
        /\ full = FALSE
        /\ word = Zero
        /\ rdy = FALSE
        /\ got = Zero

Send(d) == /\ idle
           /\ idle' = FALSE
           /\ full' = TRUE
           /\ word' = d
           /\ UNCHANGED <<rdy, got>>

HandOver == /\ full
            /\ full' = FALSE
            /\ word' = Zero
            /\ rdy' = TRUE
            /\ got' = word
            /\ UNCHANGED idle

(* The receiver's pulse ends.                                              *)
EndPulse == /\ rdy
            /\ rdy' = FALSE
            /\ got' = Zero
            /\ UNCHANGED <<idle, full, word>>

(* The sender learns that it may send again.                               *)
Free == /\ ~idle
        /\ ~full
        /\ ~rdy
        /\ idle' = TRUE
        /\ UNCHANGED <<full, word, rdy, got>>

Next == (\E d \in Data : Send(d)) \/ HandOver \/ EndPulse \/ Free

Spec == Init /\ [][Next]_vars

(* Every accepted word is handed over, and the sender is freed again.      *)
FairSpec == Spec /\ WF_vars(HandOver) /\ WF_vars(EndPulse) /\ WF_vars(Free)
=============================================================================
