-------------------------- MODULE MC_SynthCommands --------------------------
(* Two synths, alone or together, and rewards of both kinds that are paid in *)
(* them.                                                                     *)
EXTENDS SynthCommands

MCSynth == <<"zBTC", "zETH">>
MCLists == {<<"zBTC">>, <<"zBTC", "zETH">>}
MCShorting == <<"short">>
MCStaking == <<"stake">>
MCSuspensions == {{}, {"zBTC"}}
MCToken == [r \in {"short", "stake"} |-> "zETH"]
=============================================================================
