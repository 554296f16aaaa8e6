---- MODULE MCBackfill ----
(* One CLI is registered at first, a Python script that writes a PDF and    *)
(* declares no arguments.  One of three others may join it: a script that    *)
(* is read completely, a CLI that is not Python, a script whose file is gone. *)
EXTENDS Backfill, TLC

CONSTANTS a, b, c, d, r1, r2

mcSlugs  == {a, b, c, d}
mcPython == {a, b, d}
mcRegistered == {a}
mcRuns   == {r1, r2}
mcSymmetry == Permutations(mcRuns)

Wrote(name, attr, port) == [name |-> name, attr |-> attr, port |-> port]
Given(attr) == [style |-> "argparse", parser |-> "p", attr |-> attr, declared |-> None, hinted |-> "path"]
(* prints and saves a canvas; converts one file into another *)
mcSource ==
    (a :> [text |-> "parsed", args |-> {}, imports |-> {},
           calls |-> {Wrote("canvas save", None, None), Wrote("print", None, None)}]) @@
    (b :> [text |-> "parsed", args |-> {Given("in"), Given("out")}, imports |-> {},
           calls |-> {Wrote("open w", "out", None)}]) @@
    (d :> [text |-> "blank", args |-> {}, imports |-> {}, calls |-> {}])
mcReplies == {[ins |-> {}, outs |-> {"path"}, effect |-> "unknown"]}

mcEarlier == {(c :> [text |-> "none", cap |-> None]) @@
              (b :> [text |-> "none", cap |-> Extracted(mcSource[b])])}
====
