-------------------------- MODULE MCPipelineTests ---------------------------
(* PipelineTests with one or two suites of up to three cases and up to   *)
(* two commands that fail: packages of each type, names that packages      *)
(* provide, and packages that are taken for another.                       *)
EXTENDS PipelineTests

P(files) == [files |-> files, suffix |-> "none", desc |-> "plain",
             deps |-> FALSE, provides |-> {}]
MCDB == [n \in {"base", "doc", "dev", "dbg", "lib", "meta", "prov", "alias-x"} |->
  CASE n = "base" -> P({"sbom", "tool"})
    [] n = "doc" -> P({"sbom", "man", "mandb"})
    [] n = "dev" -> [P({"sbom", "header"}) EXCEPT !.suffix = "dev"]
    [] n = "dbg" -> [P({"debug"}) EXCEPT !.suffix = "dbg"]
    [] n = "lib" -> P({"sbom", "static"})
    [] n = "meta" -> [P({"spdx"}) EXCEPT !.desc = "meta", !.deps = TRUE]
    [] n = "prov" -> [P({"sbom", "badman"}) EXCEPT !.provides = {"name", "lib", "by"}]
    [] n = "alias-x" -> [P({}) EXCEPT !.provides = {"alias"}]]

Step(check) == [check |-> check, names |-> <<>>, files |-> {}]
Virtual(names) == [Step("virtual") EXCEPT !.names = names]
Files(files) == [Step("contains") EXCEPT !.files = files]
C(package, steps, expect) ==
  [package |-> package, steps |-> steps, expect |-> expect, deps |-> {}, valid |-> TRUE]
Suite(name, cases) == [name |-> name, parses |-> TRUE, cases |-> cases]

Cases == {C(p, <<Step(t)>>, e) : p \in {"doc", "dev", "meta"},
                                 t \in {"docs", "dev", "meta"}, e \in BOOLEAN} \cup
         {C("lib", <<Step("static"), Files({"tool"})>>, TRUE),
          C("dbg", <<Step("debug"), Step("empty")>>, FALSE),
          C("by", <<Step("byproduct")>>, TRUE), C("alias", <<Step("byproduct")>>, FALSE),
          C("nowhere", <<Step("docs")>>, FALSE)} \cup
         {C("prov", <<Virtual(n)>>, e) : n \in {<<>>, <<"name">>, <<"lib", "name">>},
                                         e \in BOOLEAN}

Twice == C("doc", <<Step("docs")>>, TRUE)
Both == C("doc", <<Step("dev")>>, FALSE)
WithLib == [C("prov", <<Virtual(<<"lib", "name">>)>>, TRUE) EXCEPT !.deps = {"lib"}]
Bad == [Suite("a b", <<Twice>>) EXCEPT !.parses = FALSE]
Invalid == Suite("c", <<[Twice EXCEPT !.valid = FALSE]>>)

MCBeside == {<<"alias", "alias-x">>}
MCSanitize == [n \in {"a b", "a/b", "c"} |-> IF n = "c" THEN "c" ELSE "a-b"]
MCBase == "base"
MCExtra == {"base"}
MCSuites ==
  {<<Suite("c", <<c, d>>)>> : c, d \in Cases} \cup
  {<<Suite("a b", <<Both, Twice>>), f>> :
     f \in {Bad, Invalid, Suite("a/b", <<Twice, WithLib>>), Suite("", <<Both>>),
            Suite("c", <<>>)}}
MCMaxFaults == 2
=============================================================================
