------------------------------ MODULE MCStartup ------------------------------
(* Three launches of an installed program, on POSIX in the two orders that  *)
(* matter and on Windows; two launches of one that has no configuration.    *)
EXTENDS Startup

Installed(programs) == [programs |-> programs, installed |-> TRUE, overrides |-> 0]
Fresh(programs) == [programs |-> programs, installed |-> FALSE, overrides |-> 2]

MCHistories ==
  {Installed(k) : k \in { <<"console", "console", "window">>, <<"window", "console", "console">>,
                          <<"win32", "win32", "win32">> }}
  \cup {Fresh(k) : k \in { <<"console", "window", "none">>, <<"win32", "win32", "none">> }}
=============================================================================
