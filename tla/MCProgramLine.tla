---------------------------- MODULE MCProgramLine ----------------------------
(* Small instances of ProgramLine for TLC. *)
EXTENDS ProgramLine

MCByte  == {"0", "S", "T", "c", ":", "D"}
MCStart == <<"S", "T">>
MCStop  == <<":", "D">>

(* The second has the beginning of a stop in it, the third with its stop    *)
(* sequence what the test takes for a stop.                                 *)
MCProgs == {<<"c">>, <<"c", ":", "c">>, <<"c", ":">>}

MCMemory == {[k \in 0 .. buflen - 1 |-> "D"]}
==============================================================================
