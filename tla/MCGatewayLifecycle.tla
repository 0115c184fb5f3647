-------------------------- MODULE MCGatewayLifecycle --------------------------
(* GatewayLifecycle on small instances.                                     *)
EXTENDS GatewayLifecycle, TLC

CONSTANTS r1, r2, r3, c1

ThreeRunners == {r1, r2, r3}
TwoRunners == {r1, r2}
OneClient == {c1}

S(tcp, udp) == [tcp |-> tcp, udp |-> udp]

\* On Windows: the real card, a DLL path that does not load; TCP with UDP
\* and without, or no server at all.  A launch without a settings file has the
\* mock and both servers.
WindowsDlls == {"good", "bad"}
SomeServers == {S(TRUE, TRUE), S(TRUE, FALSE), S(FALSE, FALSE)}

\* Elsewhere only the mock works.
MockDll == {"mock"}
AnyServers == {S(TRUE, TRUE), S(TRUE, FALSE), S(FALSE, TRUE)}
=============================================================================
