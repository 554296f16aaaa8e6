---- MODULE Extractor ----
(***************************************************************************)
(* tools/capability_extractor.py: what the static extractor reads off one   *)
(* CLI's source.  A source is reduced to what the extractor looks at: its   *)
(* declared arguments, its imports and its calls.  Lists without duplicates *)
(* are sets; names and regular expressions are applied before.              *)
(***************************************************************************)
EXTENDS Naturals, FiniteSets

CONSTANTS
    FilePorts,      \* file:<ext> ports
    Attrs,          \* argparse destinations: args.<attr>
    Parsers,        \* parser variables: the top-level one, subcommands, each unnamed call
    None

ASSUME ExtractorAssumption == "file:pdf" \in FilePorts  \* a saved canvas is one

ArgTypes == {"path", "int", "float", "str", "json"}
Effects  == {"none", "writes-fs", "network", "destructive", "unknown"}
Ports    == ArgTypes \cup {"text"} \cup FilePorts

(* declared: the type the declaration gives; hinted: what its name suggests *)
(* (argparse and click only).                                               *)
Arg == [style : {"argparse", "click", "typer"}, parser : Parsers, attr : Attrs,
        declared : ArgTypes \cup {None}, hinted : ArgTypes \cup {None}]

(* attr: the call writes to args.<attr>; port: its destination is a literal *)
(* path with this extension.                                                *)
CallName == {"open w", "open x", "write_text", "write_bytes", "save", "canvas save",
             "shutil copy", "x.y.replace", "json.dump", "print", "print dumps",
             "execute", "serve_forever"}
Call == [name : CallName, attr : Attrs \cup {None}, port : FilePorts \cup {None}]

Program == [text : {"blank", "broken", "parsed"}, args : SUBSET Arg,
            imports : SUBSET {"client", "server"}, calls : SUBSET Call]

Parsed(p)  == p.text = "parsed"
Calls(p, names) == {c \in p.calls : c.name \in names}
----
(* extract_inputs *)
ArgType(a) ==
    IF a.declared # None THEN a.declared
    ELSE IF a.style # "typer" /\ a.hinted # None THEN a.hinted
    ELSE "str"

Inputs(p) == IF Parsed(p) THEN {ArgType(a) : a \in p.args} ELSE {}

(* typed_file_outputs: a writer with a literal destination, or a ReportLab  *)
(* canvas made and saved in one scope.                                      *)
FileOutputs(p) ==
    IF ~Parsed(p) THEN {}
    ELSE {c.port : c \in {w \in Calls(p, {"open w", "open x", "write_text", "write_bytes", "save"}) :
                             w.port # None}}
         \cup (IF Calls(p, {"canvas save"}) # {} THEN {"file:pdf"} ELSE {})

(* Defect variant of WithFileOutputs: an answer of the LLM stands alone.    *)
WithFileOutputsStatic(cap, p) ==
    IF cap.owner = "llm" THEN cap ELSE [cap EXCEPT !.outs = cap.outs \cup FileOutputs(p)]

(* with_typed_outputs *)
WithFileOutputs(cap, p) == [cap EXCEPT !.outs = cap.outs \cup FileOutputs(p)]

(* extract_outputs: "text" is what a program that only prints puts out.     *)
Written(p) ==
    (IF Calls(p, {"write_text", "shutil copy", "x.y.replace", "json.dump", "save", "canvas save",
                  "open w"}) # {} \/ FileOutputs(p) # {} THEN {"path"} ELSE {})
    \cup (IF Calls(p, {"json.dump"}) # {} THEN {"json"} ELSE {})
    \cup FileOutputs(p)

Outputs(p) ==
    IF ~Parsed(p) THEN {}
    ELSE IF Calls(p, {"print dumps"}) # {} THEN Written(p) \cup {"json"}
    ELSE IF Calls(p, {"print"}) # {} /\ Written(p) = {} THEN {"text"}
    ELSE Written(p)
----
(* Side effects: by the number of arguments a parser declares, never their  *)
(* names.                                                                   *)
Declared(p, g) == {a.attr : a \in {d \in p.args : d.style = "argparse" /\ d.parser = g}}

(* _writes_same_path_as_input: a parser's only argument is opened to write. *)
InPlace(p) ==
    \E g \in Parsers : \E c \in Calls(p, {"open w"}) : Declared(p, g) = {c.attr}

(* _declared_output_eligible_attrs *)
OutputAttrs(p) == UNION {Declared(p, g) : g \in {h \in Parsers : Cardinality(Declared(p, h)) >= 2}}

(* _writes_new_file_or_db *)
WritesNew(p) ==
    \/ Calls(p, {"execute"}) # {}
    \/ \E c \in Calls(p, {"open w", "write_text", "write_bytes"}) : c.attr \notin OutputAttrs(p)

Serves(p) == "server" \in p.imports \/ Calls(p, {"serve_forever"}) # {}

(* infer_side_effect: nothing is read off an empty source, and so "none".   *)
SideEffect(p) ==
    CASE p.text = "blank"  -> "none"
      [] p.text = "broken" -> "unknown"
      [] Parsed(p) -> IF "client" \in p.imports \/ Serves(p) THEN "network"
                      ELSE IF InPlace(p) \/ WritesNew(p) THEN "writes-fs"
                      ELSE "none"

(* extract_capability, but for its intent tags *)
Extracted(p) ==
    [owner |-> "static", ins |-> Inputs(p), outs |-> Outputs(p), effect |-> SideEffect(p)]
====
