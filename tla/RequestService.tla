--------------------------- MODULE RequestService ---------------------------
(***************************************************************************)
(* What a ModbusClient promises its owner, with no line, byte or timer:    *)
(* requests are served in the order they were accepted and one at a time.  *)
(* Every try ends in a success or a failure.  A failed try of an important *)
(* request is followed by another, at most MaxRetries times; otherwise the *)
(* request is over when its owner takes the result.                        *)
(***************************************************************************)
EXTENDS Integers, Sequences

CONSTANT MaxRetries

VARIABLES
    accepted,   \* number of requests accepted
    pending,    \* requests not over yet, in the order they are served
    phase,      \* what happens to the first of them
    tries       \* how often the first of them was tried

serviceVars == << accepted, pending, phase, tries >>

Submit(important) ==
    /\ accepted' = accepted + 1
    /\ pending' = Append(pending, [id |-> accepted', important |-> important])
    /\ UNCHANGED << phase, tries >>

Try ==
    /\ pending # << >> /\ phase = "waiting"
    /\ phase' = "trying" /\ tries' = tries + 1
    /\ UNCHANGED << accepted, pending >>

Finish ==
    /\ phase = "trying"
    /\ phase' \in {"done", "failed"}
    /\ UNCHANGED << accepted, pending, tries >>

TryAgain ==
    /\ phase = "failed" /\ Head(pending).important /\ tries <= MaxRetries
    /\ phase' = "waiting"
    /\ UNCHANGED << accepted, pending, tries >>

HandOver ==
    /\ \/ phase = "done"
       \/ phase = "failed" /\ (~Head(pending).important \/ tries > MaxRetries)
    /\ pending' = Tail(pending)
    /\ phase' = "waiting" /\ tries' = 0
    /\ UNCHANGED accepted

DropAll ==
    /\ pending' = << >> /\ phase' = "waiting" /\ tries' = 0
    /\ UNCHANGED accepted

Init == accepted = 0 /\ pending = << >> /\ phase = "waiting" /\ tries = 0

Next == \/ \E important \in BOOLEAN : Submit(important)
        \/ Try \/ Finish \/ TryAgain \/ HandOver \/ DropAll

Spec == Init /\ [][Next]_serviceVars
=============================================================================
