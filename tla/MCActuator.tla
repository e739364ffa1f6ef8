----------------------------- MODULE MCActuator -----------------------------
(* Small instances of Actuator for TLC. *)
EXTENDS Actuator

MCAnswerLength == [f \in FunctionCode |-> 3]
MCCalls == {[function |-> "read", important |-> TRUE],
            [function |-> "write", important |-> FALSE]}
MCRequests == {StreamRequest} \cup
                  {RequestFor(c.function, c.important) : c \in MCCalls}
MCKinds == {"data", "exception", "garbled"}
\* a frame cut short already is an invalid reception
MCTwoKinds == {"data", "exception"}
=============================================================================
