---------------------------- MODULE MessageQueue ----------------------------
(***************************************************************************)
(* message_queue.h: the list of transactions, the active one at its front. *)
(* Methods that change the list are operators that return the new list.    *)
(***************************************************************************)
EXTENDS Transaction

\* Mutant: a new request overtakes those that wait.
enqueue_InFront(q, t) == << [t EXCEPT !.state = "queued"] >> \o q

enqueue(q, t) == Append(q, [t EXCEPT !.state = "queued"])

\* Mutants: the retry goes to the end; the retry is not marked queued.
insert_next_AtEnd(q, t) == Append(q, [t EXCEPT !.state = "queued"])
insert_next_Unmarked(q, t) ==
    IF q = << >> THEN << t >> ELSE << Head(q), t >> \o Tail(q)

\* insert behind the front, where the retry of the front's transaction goes
insert_next(q, t) ==
    IF q = << >> THEN << [t EXCEPT !.state = "queued"] >>
    ELSE << Head(q), [t EXCEPT !.state = "queued"] >> \o Tail(q)

get_active_transaction(q) == Head(q)

is_response_ready(q) == q # << >> /\ Head(q).state = "ready_to_process"

available_to_send(q) == q # << >> /\ Head(q).state = "queued"

\* what writing through the pointer get_active_transaction returns does
WithActive(q, t) == << t >> \o Tail(q)
=============================================================================
