------------------------- MODULE MCContainerLogger -------------------------
(* Values of the constants of ContainerLogger for TLC: two containers of an *)
(* executor, one of them nested, with IDs that are called "slaves", or a    *)
(* standalone one.                                                          *)
EXTENDS ContainerLogger

CONSTANTS c1, n1, s1, d1

Run == <<"var", "lib", "mesos", "slaves", "S0", "frameworks", "F",
         "executors", "slaves", "runs", "R">>

MCDirectory == [c \in Containers |->
    CASE c = s1 -> <<"var", "lib", "mesos", "containers", "slaves">>
      [] c = n1 -> Run \o <<"containers", "slaves">>
      [] OTHER  -> Run]

MCAgent == [c \in Containers |-> IF c = s1 THEN None ELSE "S0"]

ASSUME PathsAssumption == \A c \in Containers : SandboxPath(c)

=============================================================================
