--------------------------- MODULE MCComposeService ---------------------------
(* A database and what needs it. *)
EXTENDS ComposeService

MCContainer(name, service, needs, health) ==
  [name |-> name, service |-> service, needs |-> needs, build |-> FALSE,
   local |-> FALSE, health |-> health, shares |-> service]

MCStack == << MCContainer("db1", "db", {}, "list"), MCContainer("web1", "web", {"db"}, "string") >>

\* ... and a service whose image is built here.
MCBuildStack ==
  << MCContainer("db1", "db", {}, "none"),
     [MCContainer("web1", "web", {"db"}, "none") EXCEPT !.build = TRUE, !.local = TRUE] >>

MCUp(services, detach, recreate) ==
  [cmd |-> "up", services |-> services, detach |-> detach, no_build |-> FALSE, build |-> FALSE,
   force_recreate |-> recreate, no_start |-> FALSE, abort |-> FALSE]

MCCommands ==
  {MCUp({}, TRUE, FALSE), MCUp({"db"}, TRUE, TRUE), MCUp({}, FALSE, FALSE),
   [MCUp({}, TRUE, FALSE) EXCEPT !.no_start = TRUE],
   [cmd |-> "down", services |-> {}], [cmd |-> "down", services |-> {"db"}],
   [cmd |-> "stop", services |-> {"db"}], [cmd |-> "restart", services |-> {"db"}],
   [cmd |-> "run", services |-> {"web"}, detach |-> FALSE, no_deps |-> FALSE],
   [cmd |-> "run", services |-> {"db"}, detach |-> TRUE, no_deps |-> FALSE]}
================================================================================
