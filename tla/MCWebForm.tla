------------------------------ MODULE MCWebForm ------------------------------
(* A small instance of WebForm for TLC: three pairs, so that a redirect can  *)
(* follow a verdict of an earlier pair; three paths, one relative target,   *)
(* one URI, one cookie value and two descriptors.                           *)
EXTENDS WebForm

CONSTANTS root, p1, p2, r1, u1, c1, host, null

MCPaths == {root, p1, p2}

\* resolvePath is not part of web-form.c: a relative target resolves to a
\* path that depends on the base.
MCResolvePath(b, t) == IF b = root THEN p1 ELSE p2

=============================================================================
