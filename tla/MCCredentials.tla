--------------------------- MODULE MCCredentials ---------------------------
(***************************************************************************)
(* Small releases and clusters for TLC.                                    *)
(***************************************************************************)
EXTENDS Credentials, TLC

CONSTANTS master, ha, slave, short, long, cut, h, int1, int2, ext, host

Symmetric == Permutations(Bindings)

\* A port has a node port, but in a ClusterIP service.
Service(name, type, ports) ==
  [name |-> name, type |-> type, ports |-> ports,
   node |-> [p \in ports |-> IF type \in {"NodePort", "LoadBalancer"} THEN 30000 + p ELSE None],
   externalIP |-> None]

CutAddresses == [a \in {long} |-> cut]

Masters == {Service(n, t, ps) : n \in {master, ha}, t \in Types, ps \in {{80}, {80, 443}}}

Slaves == {Service(slave, t, {80}) : t \in {"ClusterIP", "NodePort", "LoadBalancer"}}

\* One service, or two in either order, or none.
SmallReleases ==
  {<<>>} \cup {<<m>> : m \in Masters} \cup {<<m, s>> : m \in Masters, s \in Slaves}
  \cup {<<s, m>> : m \in Masters, s \in Slaves}

At(type, address) == [type |-> type, address |-> address]

\* Private nodes, a public one among them, and a cluster without addresses.
SmallClusters ==
  {<<<<At("Hostname", h), At("InternalIP", int1)>>, <<At("InternalIP", int2)>>>>,
   <<<<At("InternalIP", int1)>>, <<At("InternalIP", int2), At("ExternalIP", ext)>>>>,
   <<<<At("Hostname", h)>>>>}
=============================================================================
