------------------------------ MODULE FifoLock ------------------------------
(***************************************************************************)
(* What lib/repo-lock.js promises: for one repository the wrapped          *)
(* functions run strictly one at a time in call order, and different       *)
(* repositories never wait for each other.  Each repository has a line;    *)
(* only its head may enter, and it leaves the line when it is done.        *)
(***************************************************************************)
EXTENDS Sequences

CONSTANTS Tasks, Keys

VARIABLES
    line,   \* line[k]: the tasks of repository k, in call order
    stage   \* what each task is doing

lockVars == <<line, stage>>

Init ==
    /\ line = [k \in Keys |-> <<>>]
    /\ stage = [t \in Tasks |-> "idle"]

Request(t, k) ==
    /\ stage[t] = "idle"
    /\ stage' = [stage EXCEPT ![t] = "waiting"]
    /\ line' = [line EXCEPT ![k] = Append(@, t)]

Enter(t, k) ==
    /\ stage[t] = "waiting"
    /\ line[k] # <<>> /\ Head(line[k]) = t
    /\ stage' = [stage EXCEPT ![t] = "inside"]
    /\ UNCHANGED line

Leave(t, k) ==
    /\ stage[t] = "inside"
    /\ line[k] # <<>> /\ Head(line[k]) = t
    /\ stage' = [stage EXCEPT ![t] = "idle"]
    /\ line' = [line EXCEPT ![k] = Tail(@)]

Next ==
    \E t \in Tasks, k \in Keys : Request(t, k) \/ Enter(t, k) \/ Leave(t, k)

Spec == Init /\ [][Next]_lockVars

=============================================================================
