---- MODULE MCRemediation ----
(* Two CLIs whose notes name a mapped import, one that lies next to the     *)
(* script, or nothing; Hermes proposes a package, a variable, or a target   *)
(* that is not text.                                                        *)
EXTENDS Remediation, TLC

CONSTANTS a, b, r1, r2

mcSlugs   == {a, b}
mcRuns    == {r1, r2}
mcModules == {"yaml", "helper"}
mcVars    == {"API_KEY"}
mcMapped  == [m \in {"yaml"} |-> "pyyaml"]
mcLocal   == {<<a, "helper">>}
mcNoModuleMode == {}

Blank   == [syntax |-> FALSE, missing |-> None, key |-> None, words |-> FALSE, nofile |-> FALSE]
Yaml    == [Blank EXCEPT !.missing = "yaml"]
Helper  == [Blank EXCEPT !.missing = "helper"]
mcNotes == {Blank, Yaml, Helper}
mcReplies == {[class |-> "pip-3rd-party", target |-> "pyyaml"], [class |-> "code-bug", target |-> None]}

mcCommandLines == {
    [file |-> TRUE,  armed |-> TRUE,  calls |-> 1],
    [file |-> TRUE,  armed |-> FALSE, calls |-> 0],
    [file |-> FALSE, armed |-> FALSE, calls |-> 1]}
Fleet(n, m) == (a :> n) @@ (b :> m)
mcFleets == {Fleet(Blank, None), Fleet(Yaml, Blank), Fleet(Helper, Helper)}
====
