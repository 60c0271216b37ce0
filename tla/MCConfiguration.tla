---------------------------- MODULE MCConfiguration ----------------------------
(***************************************************************************)
(* Addresses of a node, behind a path, behind one that has the segments    *)
(* that the code looks for, and without a scheme.                          *)
(***************************************************************************)
EXTENDS Configuration

MCSegments == {"api", "debug", "v3", "icon"}

MCEndpoints ==
  {[scheme |-> TRUE, path |-> path] :
     path \in {<< >>, <<"icon">>, <<"v3">>, <<"icon", "debug">>, <<"api">>, <<"api", "v3">>}}
  \cup {[scheme |-> FALSE, path |-> << >>]}

MCPorts == {0, 8080}
===============================================================================
