-------------------------- MODULE MCResourceWatch --------------------------
(***************************************************************************)
(* Two objects in two container namespaces, one of them selected.          *)
(***************************************************************************)
EXTENDS ResourceWatch
CONSTANTS o1, o2, n1, n2
MCObjs == {o1, o2}
MCNamespaces == {n1, n2}
MCNsOf == [o \in MCObjs |-> IF o = o1 THEN n1 ELSE n2]
=============================================================================
