------------------------------ MODULE MCPurge -------------------------------
(***************************************************************************)
(* Two system namespaces with an object in one of them, a cluster-scoped   *)
(* object of the API server, a namespace of a tenant and an object in it.  *)
(* The last three reuse the name of a system namespace where they may.     *)
(***************************************************************************)
EXTENDS Purge

Namespaces == {"default", "kube-system"}

Role == [prefix |-> <<"clusterroles">>, ns |-> NoNamespace, name |-> "default"]
Widget == [prefix |-> <<"example.com", "widgets">>, ns |-> "default", name |-> "w"]
Team == NamespaceObject("team")
Account == [prefix |-> <<"serviceaccounts">>, ns |-> "team", name |-> "default"]

BootObjects == {NamespaceObject(ns) : ns \in Namespaces} \cup {Role, Widget}
AllObjects == BootObjects \cup {Team, Account}

CacheRow(k, o) == [id |-> k, obj |-> o, by |-> "system", deleted |-> FALSE]
CacheRows ==
    {CacheRow(1, NamespaceObject("default")), CacheRow(2, NamespaceObject("kube-system")),
     CacheRow(3, Role)}

=============================================================================
