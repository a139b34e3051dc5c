------------------------------- MODULE Routing -------------------------------
(***************************************************************************)
(* What Viscous finds out about the network: the usable interfaces with    *)
(* their gateways (SearchMac) and the interface a packet for an address    *)
(* leaves by (InterfaceMonitor).  The files of /tmp/viscous_ifconf are a   *)
(* function from file names, which readdir's set keeps in order, to        *)
(* records; /proc/net/route is a sequence of entries, read from the top;   *)
(* the answers of ARP are the set of addresses that have a MAC address     *)
(* in /proc/net/arp at the latest after getMacR has pinged them.           *)
(***************************************************************************)
EXTENDS Naturals, Sequences, FiniteSets, FiniteSetsExt, SequencesExt

CONSTANTS Bits,        \* width of an address (32)
          Null         \* what a file does not say

RoutingAssumption == Bits \in Nat /\ Null \notin Nat
ASSUME RoutingAssumption

-----------------------------------------------------------------------------
\* getAllGatewayAndIfaceUsingIfHack: address -> interface and gateway.  A file
\* that lacks one of the three is skipped, a later file with the same address
\* replaces an earlier one.
Complete(f) == f.ip # Null /\ f.gw # Null /\ f.iface # Null

GatewaysUsingIfHack(files) ==
  LET good    == {n \in DOMAIN files : Complete(files[n])}
      last(a) == files[Max({n \in good : files[n].ip = a})]
  IN [a \in {files[n].ip : n \in good} |-> [iface |-> last(a).iface, gw |-> last(a).gw]]

\* getAllGatewayAndIface: interface -> gateway of its last default route.
Defaults(table) == {i \in DOMAIN table : table[i].destination = 0}

AllGatewayAndIface(table) ==
  [f \in {table[i].iface : i \in Defaults(table)} |->
     table[Max({i \in Defaults(table) : table[i].iface = f})].gateway]

\* getGatewayAndIface: the first default route, Null where the code returns -1.
GatewayAndIface(table, iface) ==
  LET own == {i \in Defaults(table) : table[i].iface = iface}
  IN IF own = {} THEN Null ELSE table[Min(own)].gateway

\* getIpMatrixUsingHack, getIpMatrixUsingRoute: the interfaces whose gateway has a
\* MAC address.  addrs is what getAllIp returns, one address per interface.
IpMatrixUsingHack(files, answers) ==
  LET map == GatewaysUsingIfHack(files)
  IN {[ip |-> a, iface |-> map[a].iface, gw |-> map[a].gw] :
        a \in {x \in DOMAIN map : map[x].gw \in answers}}

IpMatrixUsingRoute(table, addrs, answers) ==
  LET gws == AllGatewayAndIface(table)
  IN {[ip |-> addrs[f], iface |-> f, gw |-> gws[f]] :
        f \in {x \in DOMAIN gws \cap DOMAIN addrs : gws[x] \in answers}}

\* getIpMatrix falls back on the routes when no file is of use.
GetIpMatrix(files, table, addrs, answers) ==
  LET list == IpMatrixUsingHack(files, answers)
  IN IF list # {} THEN list ELSE IpMatrixUsingRoute(table, addrs, answers)

-----------------------------------------------------------------------------
\* ip & mask, the mask being the number of its leading ones.  As integers masks
\* are ordered like these numbers, also in the byte order of the code.
Masked(ip, mask) == (ip \div 2 ^ (Bits - mask)) * 2 ^ (Bits - mask)

Matches(e, ip) == e.destination = Masked(ip, e.mask)

\* getSuitableInterfaceId.  iface[i] is the interface of sender i, Null where
\* there is no sender; 0 is no interface, and what the code returns for none.
\* Mutant of Better: the last match of a mask replaces the first.
BetterOrEqual(best, e) == best.mask <= e.mask
Better(best, e) == best.mask < e.mask \/ (best.mask = 0 /\ e.mask = 0)

Consider(best, e, ip, iface) ==
  LET ids == {i \in DOMAIN iface : iface[i] = e.iface}
  IN IF Matches(e, ip) /\ Better(best, e) /\ ids # {}
       THEN [mask |-> e.mask, id |-> Min(ids)] ELSE best

GetSuitableInterfaceId(table, iface, ip) ==
  LET best[n \in 0 .. Len(table)] ==   \* after the first n lines
        IF n = 0 THEN [mask |-> 0, id |-> 0] ELSE Consider(best[n - 1], table[n], ip, iface)
  IN best[Len(table)].id

\* isReachable: some route of the sender's own interface leads there.
IsReachable(table, own, ip) ==
  own # Null /\ \E i \in DOMAIN table : table[i].iface = own /\ Matches(table[i], ip)

\* getPrimaryInterfaceId
GetPrimaryInterfaceId(iface) ==
  LET used == {i \in DOMAIN iface : iface[i] # Null}
  IN IF used = {} THEN 0 ELSE Min(used)

-----------------------------------------------------------------------------
\* The loop above picks what a routing table means: the interface of a longest
\* matching prefix among those a packet can be sent through, and of several
\* default routes the last; 0 only if there is none.
LongestPrefix(table, iface, ip) ==
  LET usable == {i \in DOMAIN table : /\ Matches(table[i], ip)
                                      /\ \E s \in DOMAIN iface : iface[s] = table[i].iface}
      longest == {i \in usable : \A j \in usable : table[j].mask <= table[i].mask}
      pick == IF \E i \in longest : table[i].mask = 0 THEN Max(longest) ELSE Min(longest)
      id == GetSuitableInterfaceId(table, iface, ip)
  IN IF usable = {} THEN id = 0
     ELSE /\ iface[id] = table[pick].iface
          /\ IsReachable(table, iface[id], ip)

\* getAllGatewayAndIface and getGatewayAndIface read the same gateway of an
\* interface with one default route, and of more the last and the first.
GatewaysAgree(table) ==
  LET all == AllGatewayAndIface(table)
      own(f) == {i \in Defaults(table) : table[i].iface = f}
  IN /\ \A f \in {table[i].iface : i \in DOMAIN table} :
          GatewayAndIface(table, f) = Null <=> f \notin DOMAIN all
     /\ \A f \in DOMAIN all : Cardinality(own(f)) = 1 => GatewayAndIface(table, f) = all[f]
=============================================================================
