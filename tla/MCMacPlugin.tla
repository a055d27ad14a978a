---------------------------- MODULE MCMacPlugin ----------------------------
EXTENDS MacPlugin

MCChordOf == [k \in Keys |-> "command"]
MCMaxCalls == [caps |-> 6, shortcuts |-> 2]
MCUserMaps == {{}, {"plain"}, {"caps_f20"}, {"plain", "other_f20"}}
=============================================================================
