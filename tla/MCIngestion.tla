---------------------------- MODULE MCIngestion ----------------------------
(***************************************************************************)
(* A single call with every short input, or three calls with readers: two  *)
(* of one process, and one of another process with the same id.            *)
(***************************************************************************)
EXTENDS Ingestion

CONSTANTS x, y, z, here, there

MCCalls == {x, y, z}
MCProcesses == {here, there}
MCProcessOf == [c \in MCCalls |-> IF c = z THEN there ELSE here]
MCPid == [process \in MCProcesses |-> 1]

Ask(entry, input, hint, maxInput, maxSpool) ==
    [entry |-> entry, input |-> input, hint |-> hint,
     maxInput |-> maxInput, maxSpool |-> maxSpool]

Inputs == UNION {[1 .. n -> Boxes] : n \in 0 .. 3}

Alone ==
    {[c \in {x} |-> Ask(entry, input, hint, maxInput, Unlimited)] :
        entry \in {"bytes", "file"}, input \in Inputs,
        hint \in {"avif", NoFamily}, maxInput \in {2, Unlimited}}
    \cup {[c \in {x} |-> Ask("reader", input, NoFamily, 2, Unlimited)] :
        input \in {<<"heif", "meta">>, <<"heif", "meta", "mdat">>}}

Together ==
    {[c \in MCCalls |->
        Ask("reader", <<"heif", "meta">>, NoFamily, Unlimited,
            IF c = x THEN limit ELSE Unlimited)] : limit \in {1, 2}}

MCScenarios == Alone \cup Together
=============================================================================
