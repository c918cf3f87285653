---------------------------- MODULE MCShellDeps ----------------------------
(* ShellDeps with two directories, and two families of files: scripts of   *)
(* two calls with the functions f and g, and files of every other kind.    *)
EXTENDS ShellDeps

W(t) == [text |-> t, exp |-> "none"]
All == [text |-> "", exp |-> "all"]
Var == [text |-> "", exp |-> "var"]
VarPath == [text |-> "/tool", exp |-> "var"]

Names == {"sort", "tool"}
MCBuiltins == {"exec", "shift", "alias", "echo"}
MCAbsolute == {"/tool", "/bin/sort"}
MCRelative == [t \in {"./tool"} |-> "tool"]
MCPatterned == {"./t*"}
MCAliasName == [t \in {"tool=sort"} |-> "tool"]
MCBaseName == [t \in MCAbsolute |-> IF t = "/tool" THEN "tool" ELSE "sort"]
MCPlace == [t \in {"/bin/sort"} |-> [dir |-> 2, name |-> "sort"]]
MCGnuFlags == [t \in {"sort"} |-> {"-h", "--human"}]
MCFlagValue == {<<"--human=1", "--human">>}
MCClusters == {<<"-rh", "-h">>, <<"-kh", "-h">>}
MCMeans == {<<"-h", "-h">>, <<"-rh", "-h">>, <<"--human=1", "--human">>,
            <<"--hum", "--human">>}
MCDirs == 2
MCMaxDepth == 4

Top == {<<W("sort"), W("-h")>>, <<W("sort"), W("-rh")>>, <<W("sort"), W("-kh")>>,
        <<W("sort"), W("--hum")>>, <<W("/bin/sort"), W("--human=1")>>,
        <<W("f"), W("tool")>>, <<W("f"), W("sort"), W("-h")>>, <<W("./tool")>>,
        <<W("g"), W("tool"), W("sort")>>, <<W("g")>>, <<VarPath>>, <<Var, W("tool")>>,
        <<W("./t*")>>, <<W("exec"), W("tool")>>}
Alias == <<<<W("alias"), W("tool=sort")>>>>
Inner == {<<>>, <<<<All>>>>, <<<<W("echo"), All>>, <<All>>>>,
          <<<<W("shift")>>, <<All>>>>, <<<<W("sort"), W("-h")>>>>}
Outer == {<<>>, <<<<W("f"), All>>>>, <<<<W("f"), W("sort"), All>>>>,
          <<<<All>>>>, <<<<All, W("tool")>>>>, <<<<W("f"), All, W("tool")>>>>}

Script(calls, inner, outer) ==
  [calls |-> calls, funs |-> [f \in {"f", "g"} |-> IF f = "f" THEN inner ELSE outer]]
File(opens, shebang, parses, script) ==
  [opens |-> opens, shebang |-> shebang, parses |-> parses, script |-> script,
   glob |-> TRUE, exec |-> opens \in {"absent", "dirlink"}, matched |-> shebang = "long"]
Plain == Script(<<<<W("sort"), W("-h")>>>>, <<>>, <<>>)

Kinds == {File("yes", sb, TRUE, Plain) : sb \in Shebangs} \cup
         {File(o, "sh", FALSE, Plain) : o \in {"denied", "absent", "dir", "yes"}} \cup
         {File(o, "long", FALSE, Plain) : o \in {"denied", "dirlink"}} \cup
         {[File("yes", "sh", TRUE, Plain) EXCEPT !.glob = FALSE]}
ShellFile(c, last, i, o) == File("yes", "sh", TRUE, Script(<<c>> \o last, i, o))
Scripts ==
  {ShellFile(c, <<>>, i, o) : c \in {d \in Top : d[1].text \in {"f", "g"}},
                          i \in Inner, o \in Outer} \cup
  {ShellFile(c, l, i, <<>>) : c \in Top, l \in {<<>>, Alias}, i \in {<<<<W("sort"), W("-h")>>>>}}

MCGivens == {<<f>> : f \in Scripts} \cup
            {<<f, g>> : f \in Kinds, g \in {k \in Kinds : k.shebang \in {"sh", "long"}}}
Entry(n, k, l) == [d \in 1 .. 2 |-> [m \in Names |->
                     IF m = n THEN IF d = 1 THEN k ELSE l
                     ELSE IF d = 1 THEN "none" ELSE "file"]]
MCTrees == {Entry("sort", k, l) : k \in Entries, l \in {"busybox"}} \cup
           {Entry("tool", k, "none") : k \in {"none", "other", "dir", "stale", "locked"}}
MCApkOutputs ==
  {<<"failed">>, <<"so", "busybox">>, <<"busybox", "coreutils">>,
   <<"busybox", "blank", "coreutils">>, <<"versioned", "header", "busybox">>}
=============================================================================
