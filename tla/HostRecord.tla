------------------------------ MODULE HostRecord ------------------------------
(***************************************************************************)
(* What one invocation of the web-form module promises the host's          *)
(* credential iterator and result log: it walks the pairs in order, it     *)
(* records a verdict only for the pair it is at and at most once per pair, *)
(* and it records nothing once initModule has returned.                    *)
(***************************************************************************)
EXTENDS Naturals

CONSTANT NPairs

VARIABLES
    rec,   \* per pair: "NONE" or the verdict setPassResult recorded
    pos,   \* the pair psCredSet holds
    done   \* initModule has returned

avars == <<rec, pos, done>>

RecVerdicts == {"SUCCESS", "FAIL", "UNKNOWN"}

\* Nothing is recorded yet; with no pair to test initModule returns at once.
Init ==
    /\ rec = [p \in 1..NPairs |-> "NONE"]
    /\ pos = 1
    /\ done \in BOOLEAN
    /\ NPairs = 0 => done

\* One step of the module while it runs: maybe record a verdict for the
\* current pair, which must not have one yet; then maybe move to the next
\* pair, and maybe return.
Progress ==
    /\ ~done
    /\ \/ rec' = rec
       \/ \E v \in RecVerdicts :
             /\ rec[pos] = "NONE"
             /\ rec' = [rec EXCEPT ![pos] = v]
    /\ pos' \in {pos} \cup ({pos + 1} \cap 1..NPairs)
    /\ done' \in BOOLEAN

Spec == Init /\ [][Progress]_avars

=============================================================================
