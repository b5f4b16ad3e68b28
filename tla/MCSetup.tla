------------------------------- MODULE MCSetup -------------------------------
EXTENDS Setup

(* The command lines of test.sh, with which the operands are found, others *)
(* in which getopt stops too early or too late for main, and short ones.   *)
MCCommands ==
  {<<"host", "port">>, <<"-f", "file", "host", "port">>,
   <<"-ffile", "-ffile", "host", "port">>, <<"-f", "-f", "host", "port">>,
   <<"-ffile", "host", "port">>, <<"host", "port", "-f", "file">>,
   <<"-f", "file", "-ffile", "host", "port">>, <<"host", "port", "-x">>,
   << >>, <<"host">>, <<"-f">>, <<"-x">>, <<"-f", "file">>}

MCPorts == {-1, 1341, 66877}

\* Usually all standard descriptors are open.
MCInherited == {0 .. 2, 1 .. 2, {0, 2}}
==============================================================================
