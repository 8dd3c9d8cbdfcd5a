------------------------------- MODULE Addresses -------------------------------
(***************************************************************************)
(* Which of the machine's addresses the server advertises, and which one   *)
(* it answers a client with: EnumerateNetworkEndpoints and                 *)
(* SelectBestEndpoint, on both platforms.  Pure: a list of unicast         *)
(* addresses in, positions of that list out.                               *)
(***************************************************************************)
EXTENDS Integers, Sequences, FiniteSets

LOCAL Nics == {1, 2}
\* Link-local addresses (fe80::/10, and APIPA for IPv4) match one prefix on every adapter.
Unicasts(subnets) ==
  [nic : Nics, family : {"v4", "v6"}, local : {FALSE}, subnet : subnets]
    \cup [nic : Nics, family : {"v4", "v6"}, local : {TRUE}, subnet : {"link"}]

\* What decides about adapters: names that look virtual, the allow list (is there one, and whose
\* name contains an item of it), the default route: an adapter's gateway on Windows, elsewhere
\* the address the kernel would send from, per family (0: none).
ShouldUseUnlistedInterface(virtual, gateway) == virtual => gateway
InterfaceAllowListPermits(policy, nic, gateway) ==
  IF policy.listed THEN nic \in policy.named
  ELSE ShouldUseUnlistedInterface(nic \in policy.virtual, gateway)

DetectDefaultRouteSourceAddress(list, family) ==
  {0} \cup {i \in DOMAIN list : list[i].family = family /\ ~list[i].local}

ShouldDropLinkLocalEndpoint(list, taken) ==
  {i \in taken : list[i].local => \A j \in taken : list[j].local}

SameSlot(a, b) == a.nic = b.nic /\ a.family = b.family
IsIPv4Apipa(a) == a.family = "v4" /\ a.local

\* POSIX: the first address of each adapter and family, of those that are permitted.
CandidatesPosix(list, policy) ==
  {i \in DOMAIN list :
     /\ InterfaceAllowListPermits(policy, list[i].nic, policy.route[list[i].family] = i)
     /\ ~IsIPv4Apipa(list[i])}
EndpointsPosix(list, policy) ==
  LET C == CandidatesPosix(list, policy)
      first == {i \in C : ~\E j \in C : j < i /\ SameSlot(list[j], list[i])}
  IN ShouldDropLinkLocalEndpoint(list, first)

\* Windows: per adapter the first IPv4 address and the best IPv6 address.
IPv6Rank(a) == IF a.local THEN 1 ELSE 2
Better(list, j, i) == IPv6Rank(list[j]) > IPv6Rank(list[i]) \/ (IPv6Rank(list[j]) = IPv6Rank(list[i]) /\ j < i)
CandidatesWin(list, policy) ==
  {i \in DOMAIN list :
     /\ InterfaceAllowListPermits(policy, list[i].nic, list[i].nic \in policy.gateways)
     /\ ~IsIPv4Apipa(list[i])}
EndpointsWin(list, policy) ==
  LET C == CandidatesWin(list, policy)
      best == {i \in C : ~\E j \in C : SameSlot(list[j], list[i]) /\ Better(list, j, i)}
  IN ShouldDropLinkLocalEndpoint(list, best)

\* The endpoint a client is answered with: the first of the highest score.
PrefixMatchBits(e, remote) == e.subnet = remote.subnet
Score(e, remote) ==
  (IF PrefixMatchBits(e, remote) THEN 100 ELSE 0)
    + (IF e.family = "v6" /\ e.local /\ remote.zone = e.nic THEN 50 ELSE 0)
    + (IF e.local THEN 0 ELSE 10)
SelectBestEndpoint(found, remote) ==
  LET ofFamily == {i \in DOMAIN found : found[i].family = remote.family}
      score(i) == Score(found[i], remote)
      best == {i \in ofFamily : \A j \in ofFamily : score(j) < score(i) \/ (score(j) = score(i) /\ i <= j)}
  IN IF best # {} THEN found[CHOOSE i \in best : TRUE] ELSE found[1]

-----------------------------------------------------------------------------
UpTo3(S) == UNION {[1..n -> S] : n \in 0..3}
Policies(list) ==
  [listed : BOOLEAN, named : {{}, {1}}, virtual : SUBSET Nics, gateways : SUBSET Nics,
   route : {[v4 |-> f, v6 |-> s] : f \in DetectDefaultRouteSourceAddress(list, "v4"),
                                   s \in DetectDefaultRouteSourceAddress(list, "v6")}]

\* Whatever the machine has: at most one address per adapter and family, link-local ones only
\* when there is nothing else, and a permitted adapter is kept for each family it has a routable
\* address of.  POSIX does not rank: a link-local address listed first hides the routable ones.
Chosen(list, candidates, found, hides) ==
  /\ \A i, j \in found : SameSlot(list[i], list[j]) => i = j
  /\ \A i, j \in found : list[i].local = list[j].local
  /\ \A i \in candidates : ~list[i].local =>
       \/ \E j \in found : SameSlot(list[i], list[j])
       \/ hides /\ \E j \in candidates : j < i /\ list[j].local /\ SameSlot(list[i], list[j])
  /\ found = {} <=> candidates = {}
EndpointsAreChosen ==
  \A list \in UpTo3(Unicasts({"far"})) : \A p \in Policies(list) :
    /\ p.gateways = {} => Chosen(list, CandidatesPosix(list, p), EndpointsPosix(list, p), TRUE)
    /\ p.route = [v4 |-> 0, v6 |-> 0] =>
         Chosen(list, CandidatesWin(list, p), EndpointsWin(list, p), FALSE)

Remotes ==
  [family : {"v4", "v6"}, subnet : {"near", "far"}, zone : {0}]
    \cup [family : {"v6"}, subnet : {"link"}, zone : {0} \cup Nics]

\* A client is answered with an address of its own family, of its own subnet, and of the adapter
\* its zone names, whenever there is one.
AnswerIsNear ==
  \A found \in UpTo3({a \in Unicasts({"near", "far"}) : ~IsIPv4Apipa(a)}) \ {<<>>}, r \in Remotes :
    LET answer == SelectBestEndpoint(found, r)
        some(P(_)) == \E i \in DOMAIN found : found[i].family = r.family /\ P(found[i])
        near(e) == e.subnet = r.subnet
        zoned(e) == e.local /\ near(e) /\ e.nic = r.zone
    IN /\ some(LAMBDA e : TRUE) => answer.family = r.family
       /\ some(near) => near(answer)
       /\ some(zoned) => zoned(answer)
       /\ ~some(near) /\ some(LAMBDA e : ~e.local) => ~answer.local

\* What is advertised, and what a client is answered with, can be reached by it.
EndpointsReach == EndpointsAreChosen /\ AnswerIsNear
=============================================================================
