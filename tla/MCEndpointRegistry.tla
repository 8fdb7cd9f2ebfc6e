------------------------- MODULE MCEndpointRegistry -------------------------
(* The instance of EndpointRegistry for TLC. *)
EXTENDS EndpointRegistry

CONSTANTS e1, e2

TwoEndpoints == {e1, e2}

\* A configured endpoint, so that probes run, and a container.
ConfigAndDocker == [e \in {e1, e2} |-> IF e = e1 THEN "config" ELSE "docker"]

\* The configured endpoint has no tag that a scanner looks for, or the tag of
\* a container, or that of the service of a port.
SomeTags == {{}, {"docker"}, {"auto-discovered"}}
=============================================================================
