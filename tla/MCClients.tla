----------------------------- MODULE MCClients -----------------------------
(* A small instance of Clients for TLC. *)
EXTENDS Clients

CONSTANTS a, b

\* All at once, one, two in either order, and one that is named twice.
FewLists == {<<All>>, <<a>>, <<a, b>>, <<b, a>>, <<a, a>>}
=============================================================================
