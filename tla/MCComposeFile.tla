----------------------------- MODULE MCComposeFile -----------------------------
(* The compose files TLC reads: three services, one unknown name. *)
EXTENDS ComposeFile

MCByName == <<"a", "b", "c">>

MCFileOrders == {MCByName, <<"c", "a", "b">>}

MCKeys == {{}, Scalars \cup {"ports"}}

\* What a service may extend: nothing, a service of this file or an unknown
\* one, a service of the other file or one that is not there.
MCExtends(names, others) ==
  {{}} \cup {{[service |-> n, file |-> FALSE]} : n \in names}
      \cup {{[service |-> n, file |-> TRUE]} : n \in others}

MCDeploy == [a |-> 1, b |-> 2, c |-> 0]

\* One file per choice of what is extended, needed and said.
MCFiles(ext, needs, keys) ==
  {[s \in Service |-> [extends |-> e[s], gives |-> g[s], depends |-> d[s], text |-> {},
                       called |-> <<s, 0>>,
                       deploy |-> IF g[s] = {} THEN {} ELSE {MCDeploy[s]}]] :
     e \in [Service -> ext], d \in [Service -> needs], g \in [Service -> keys]}

MCFilesExtends == MCFiles(MCExtends(Name, {"a", "u"}), {{}}, MCKeys)
MCFilesDepends == MCFiles({{}}, SUBSET Service, {{"ports"}})
MCFilesBoth    == MCFiles(MCExtends(Service, {}), {{}, {"a"}, {"c"}}, {{"image", "ports"}})

\* A file in which b extends what eb says and c what ec says.
MCFile(ea, eb, ec, gives, depends, text, called, deploy) ==
  [s \in Service |-> [extends |-> CASE s = "a" -> ea [] s = "b" -> eb [] s = "c" -> ec,
                      gives |-> gives[s], depends |-> depends[s], text |-> text[s],
                      called |-> called[s], deploy |-> deploy[s]]]

MCNone    == [s \in Service |-> {}]
MCWords   == [s \in Service |-> <<s, 0>>]
MCHere(s) == {[service |-> s, file |-> FALSE]}

\* Lists written as strings, by one service of a chain or the other.
MCFilesText ==
  {MCFile(ea, eb, ec, g, [s \in Service |-> IF g[s] = {} THEN {} ELSE {"c"}], t, MCWords, MCNone) :
     ea \in {{}, {[service |-> "a", file |-> TRUE]}},
     eb \in {{}, MCHere("a")}, ec \in {{}, MCHere("a"), MCHere("b")},
     g \in [Service -> {{}, {"ports"}}], t \in [Service -> {{}, Lists}]}

\* Containers that are called like each other; a and what extends it have two.
MCFilesNames ==
  {MCFile({}, eb, {}, g, MCNone, MCNone, c, [MCNone EXCEPT !["a"] = {2}]) :
     eb \in {{}, MCHere("a")}, g \in [Service -> {{}, {"container_name"}}],
     c \in [Service -> {<<"a", 2>>, <<"b", 1>>, <<"c", 0>>}]}

MCFileSet ==
  MCFilesExtends \cup MCFilesDepends \cup MCFilesBoth \cup MCFilesText \cup MCFilesNames
================================================================================
