---- MODULE MCPlanner ----
(* A small catalog for the planner: slug 1 makes pdf, 2 turns pdf into     *)
(* json, 3 turns json back into pdf or sends it, 4 turns pdf into json.    *)
EXTENDS Planner

Cap(ins, outs, tags, effect, declared) ==
    [ins |-> ins, outs |-> outs, tags |-> tags, effect |-> effect, declared |-> declared]

Source    == {Cap({}, {"pdf"}, {}, "none", TRUE)}
NetSource == {Cap({}, {"pdf"}, {}, "network", FALSE)}
Extract   == {Cap({"pdf"}, {"json"}, {"extract"}, "none", TRUE)}
Wipe      == {Cap({"pdf"}, {"json"}, {"extract"}, "destructive", TRUE)}
TwoRows   == {Cap({"pdf"}, {"json"}, {"send"}, "writes-fs", TRUE), Cap({"pdf"}, {"pdf"}, {}, "none", FALSE)}
Hidden    == {Cap({"pdf"}, {"json"}, {"extract"}, "network", TRUE), Cap({"pdf"}, {"pdf"}, {}, "writes-fs", FALSE)}
Back      == {Cap({"json"}, {"pdf"}, {"extract"}, "none", TRUE)}
Send      == {Cap({"json"}, {"json"}, {"send"}, "network", FALSE)}
SendTwice == {Cap({"json"}, {}, {"send", "persist"}, "network", TRUE)}

MCFleets == {
    <<Source, Extract, Back, Extract>>,
    <<Source, Extract, Send, TwoRows>>,
    <<NetSource, Extract, Send, Wipe>>,
    <<Source, Wipe, Back, TwoRows>>,
    <<Source, Hidden, Send, Extract>>,
    <<Source, Extract, {}, {}>>,
    <<Source, Extract, SendTwice, {}>>}

Ask(ins, outs, allow, actions, terms) ==
    [ins |-> ins, outs |-> outs, allow |-> allow, actions |-> actions, terms |-> terms]

MCGoals == {
    Ask({"pdf"}, {"json"}, {}, <<>>, {}),
    Ask({"pdf"}, {"json"}, {"destructive"}, <<>>, {"t"}),
    Ask({}, {"json"}, {}, <<>>, {}),
    Ask({}, {"json"}, {"network"}, <<>>, {"t"}),
    Ask({"pdf"}, {"json"}, {}, <<>>, {"t"}),
    Ask({"json"}, {"pdf"}, {}, <<>>, {}),
    Ask({}, {"json"}, {"unknown"}, <<"email">>, {}),
    Ask({}, {"pdf"}, {"network"}, <<"email">>, {"t"}),
    Ask({"json"}, {}, {}, <<"email">>, {}),
    Ask({}, {}, {}, <<"email", "notify">>, {}),
    Ask({}, {}, {}, <<"fax">>, {})}

MCMatches == {<<"t", 4>>}
====
