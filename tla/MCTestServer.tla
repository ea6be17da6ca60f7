---------------------------- MODULE MCTestServer ----------------------------
(***************************************************************************)
(* Instance of TestServer for TLC: two clients of one server, and a second    *)
(* call of a Start method, of the same kind or of another one.               *)
(***************************************************************************)
EXTENDS TestServer, TLC

CONSTANTS s1, s2, c1, c2

MCCalls == {s1, s2}
MCClients == {c1, c2}
=============================================================================
