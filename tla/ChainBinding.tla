---------------------------- MODULE ChainBinding ----------------------------
(***************************************************************************)
(* The naming half of RSServerCommunication: two threads that turn domain  *)
(* names into local addresses without taking a lock.                       *)
(*                                                                         *)
(* The DNS thread receives a query, looks its domain up in binded_chains   *)
(* and replies at once on a hit.  On a miss it sends a getChainsRequest to *)
(* the RouteServer and only then appends the query to dns_requests.  The   *)
(* device thread receives the getChainsResponse, takes the next local      *)
(* address for the domain, appends the binding to binded_chains, and       *)
(* replies to the first query of dns_requests that waits for the domain.   *)
(* The threads that deliver data packets also look domains up, for the     *)
(* return address of a packet, and ask for the ones they do not find.      *)
(*                                                                         *)
(* The RouteServer and the network are external: datagrams may be lost and *)
(* duplicated when Lossy, and are received in any order.  An operation on  *)
(* one vector (a scan, a push_back, an erase) is one step.                 *)
(***************************************************************************)
EXTENDS ChainAddress, SequencesExt

CONSTANTS Domains,    \* the names programs ask for
          NoDomain,
          Queries,    \* DNS query datagrams, retransmissions included
          Crc,        \* get_crc() of each domain
          OK, ERR,    \* RS_GETCHAINS_RESPONSE_OK and _ERR
          Statuses,   \* the statuses the RouteServer answers with
          Lossy,      \* may the network lose and duplicate datagrams?
          MaxBound,   \* bound: bindings made
          MaxFlight   \* bound: datagrams of one kind and domain, when the
                      \* network is lossy or a packet is delivered

ASSUME DomainAssumption == NoDomain \notin Domains
ASSUME CrcAssumption == Crc \in [Domains -> Nat]
ASSUME StatusAssumption == Statuses \subseteq {OK, ERR} /\ OK # ERR
ASSUME BoundAssumption ==
  /\ MaxBound \in Nat /\ MaxFlight \in Nat /\ Lossy \in BOOLEAN
  /\ AddressValue(FirstAddress) + MaxBound <= AddressValue(LastInSubnet)

VARIABLES
  bindedIp,      \* binded_ip: the address given out last
  bindedChains,  \* binded_chains: a local address for a domain, by position
  dnsRequests,   \* dns_requests: the queries that wait for a response
  dnsPc, dnsReq, \* DNS thread: its place in onDNSRequest() and new_request
  devPc, devMsg, \* device thread: its place in receiver(), response at hand
  requests,      \* getChainsRequests on their way to the RouteServer
  responses,     \* getChainsResponses on their way back
  queried,       \* the domain each query named, NoDomain before it arrives
  answers        \* the DNS responses sent to each query

dnsVars == <<dnsRequests, dnsPc, dnsReq>>
devVars == <<bindedIp, bindedChains, devPc, devMsg>>
netVars == <<requests, responses>>
vars == <<dnsVars, devVars, netVars, queried, answers>>

NoAddress == << >>  \* sendDNSResponse(rt, NULL): a response with no answer
NoRequest == [id |-> NoDomain, dom |-> NoDomain]    \* no local in scope
NoMessage == [addr |-> NoAddress, dom |-> NoDomain]
Binding == [addr : Address, dom : Domains]
Request == [id : Queries, dom : Domains]
Message == [addr : Address \cup {NoAddress}, dom : Domains]

\* Mutation: addresses are taken for equal by their checksum alone.
SameAddressByCrc(x, y) == Crc[x] = Crc[y]

(* The prefilter by checksum and the comparison of the addresses proper.   *)
SameAddress(x, y) == Crc[x] = Crc[y] /\ x = y

\* Mutation: the scan does not stop at the first match.
LastFor(seq, d) == SelectLastInSeq(seq, LAMBDA e : SameAddress(e.dom, d))

(* The scan of a vector for an address: the first position that matches,   *)
(* 0 when none does.                                                       *)
FirstFor(seq, d) == SelectInSeq(seq, LAMBDA e : SameAddress(e.dom, d))

BindingOf(d) == FirstFor(bindedChains, d)  \* getBindedChainByAddress()
Bound(d) == BindingOf(d) # 0
WaiterFor(d) == FirstFor(dnsRequests, d)   \* receiver()

Init ==
  /\ bindedIp = FirstAddress
  /\ bindedChains = << >>
  /\ dnsRequests = << >>
  /\ dnsPc = "recv" /\ dnsReq = NoRequest
  /\ devPc = "recv" /\ devMsg = NoMessage
  /\ requests = [d \in Domains |-> 0]
  /\ responses = [d \in Domains |-> [s \in Statuses |-> 0]]
  /\ queried = [q \in Queries |-> NoDomain]
  /\ answers = [q \in Queries |-> << >>]

Answer(q, a) == answers' = [answers EXCEPT ![q] = Append(@, a)]

(* sendToRouteServer(): sendto() is called with MSG_DONTWAIT and its       *)
(* result is ignored.  A response lost on the way back is, for this        *)
(* device, a request lost on the way there.                                *)
SendGetChains(d) ==
  /\ \/ /\ Lossy => requests[d] < MaxFlight
        /\ requests' = [requests EXCEPT ![d] = @ + 1]
     \/ Lossy /\ UNCHANGED requests
  /\ UNCHANGED responses

-----------------------------------------------------------------------------
(* The DNS thread: onDNSRequest() for queries of type A and ANY; it        *)
(* returns without effect for any other type.                              *)

DnsHit(q, d) ==
  /\ dnsPc = "recv" /\ queried[q] = NoDomain
  /\ queried' = [queried EXCEPT ![q] = d]
  /\ Bound(d)
  /\ Answer(q, bindedChains[BindingOf(d)].addr)
  /\ UNCHANGED <<dnsVars, devVars, netVars>>

\* Mutation: the query is queued and nobody is asked.
DnsMissSilent(q, d) ==
  /\ dnsPc = "recv" /\ queried[q] = NoDomain
  /\ queried' = [queried EXCEPT ![q] = d]
  /\ ~Bound(d)
  /\ dnsReq' = [id |-> q, dom |-> d]
  /\ dnsPc' = "push"
  /\ UNCHANGED <<dnsRequests, devVars, netVars, answers>>

DnsMiss(q, d) ==
  /\ dnsPc = "recv" /\ queried[q] = NoDomain
  /\ queried' = [queried EXCEPT ![q] = d]
  /\ ~Bound(d)
  /\ dnsReq' = [id |-> q, dom |-> d]
  /\ dnsPc' = "send"
  /\ UNCHANGED <<dnsRequests, devVars, netVars, answers>>

\* Mutation: a domain another query waits for is not asked for again.
DnsSendOnce ==
  /\ dnsPc = "send"
  /\ IF WaiterFor(dnsReq.dom) = 0 THEN SendGetChains(dnsReq.dom) ELSE UNCHANGED netVars
  /\ dnsPc' = "push"
  /\ UNCHANGED <<dnsRequests, dnsReq, devVars, queried, answers>>

DnsSend ==
  /\ dnsPc = "send"
  /\ SendGetChains(dnsReq.dom)
  /\ dnsPc' = "push"
  /\ UNCHANGED <<dnsRequests, dnsReq, devVars, queried, answers>>

DnsPush ==
  /\ dnsPc = "push"
  /\ dnsRequests' = Append(dnsRequests, dnsReq)
  /\ dnsPc' = "recv" /\ dnsReq' = NoRequest
  /\ UNCHANGED <<devVars, netVars, queried, answers>>

-----------------------------------------------------------------------------
(* The device thread: receiver().                                          *)

(* A getChainsResponse arrives; status OK binds the domain, whether or not *)
(* it is bound already and whether or not anyone waits for it.             *)
DevReceive(d, s) ==
  /\ devPc = "recv"
  /\ responses[d][s] > 0
  /\ \/ responses' = [responses EXCEPT ![d][s] = @ - 1]
     \/ Lossy /\ UNCHANGED responses  \* a duplicate is still under way
  /\ IF s = OK
     THEN /\ Len(bindedChains) < MaxBound
          /\ bindedIp' = IncBinded(bindedIp)
          /\ bindedChains' = Append(bindedChains, [addr |-> bindedIp', dom |-> d])
          /\ devMsg' = [addr |-> bindedIp', dom |-> d]
     ELSE /\ devMsg' = [addr |-> NoAddress, dom |-> d]
          /\ UNCHANGED <<bindedIp, bindedChains>>
  /\ devPc' = "answer"
  /\ UNCHANGED <<dnsVars, requests, queried, answers>>

\* Mutation: the query replied to is not erased.
DevAnswerKeeps ==
  /\ devPc = "answer"
  /\ LET i == WaiterFor(devMsg.dom) IN
       IF i # 0 THEN Answer(dnsRequests[i].id, devMsg.addr) ELSE UNCHANGED answers
  /\ devPc' = "recv" /\ devMsg' = NoMessage
  /\ UNCHANGED <<bindedIp, bindedChains, dnsVars, netVars, queried>>

(* The loop over dns_requests: at most one waiting query is replied to and *)
(* erased.                                                                 *)
DevAnswer ==
  /\ devPc = "answer"
  /\ LET i == WaiterFor(devMsg.dom) IN
       IF i # 0
       THEN /\ Answer(dnsRequests[i].id, devMsg.addr)
            /\ dnsRequests' = RemoveAt(dnsRequests, i)
       ELSE UNCHANGED <<answers, dnsRequests>>
  /\ devPc' = "recv" /\ devMsg' = NoMessage
  /\ UNCHANGED <<bindedIp, bindedChains, dnsPc, dnsReq, netVars, queried>>

(* A data packet for a local client is delivered, by the device thread or, *)
(* from another local client, by the tunnel thread, whose return address   *)
(* is not bound: it is dropped and the domain is asked for.                *)
Resolve(d) ==
  /\ ~Bound(d)
  /\ requests[d] < MaxFlight /\ \A s \in Statuses : responses[d][s] < MaxFlight
  /\ SendGetChains(d)
  /\ UNCHANGED <<dnsVars, devVars, queried, answers>>

-----------------------------------------------------------------------------
(* External: the RouteServer and the network.                              *)

ServerReply(d, s) ==
  /\ requests[d] > 0
  /\ Lossy => responses[d][s] < MaxFlight
  /\ requests' = [requests EXCEPT ![d] = @ - 1]
  /\ responses' = [responses EXCEPT ![d][s] = @ + 1]
  /\ UNCHANGED <<dnsVars, devVars, queried, answers>>

-----------------------------------------------------------------------------
Next ==
  \/ \E q \in Queries, d \in Domains : DnsHit(q, d) \/ DnsMiss(q, d)
  \/ DnsSend
  \/ DnsPush
  \/ \E d \in Domains, s \in Statuses : DevReceive(d, s)
  \/ DevAnswer
  \/ \E d \in Domains : Resolve(d)
  \/ \E d \in Domains, s \in Statuses : ServerReply(d, s)

Spec == Init /\ [][Next]_vars

(* Each thread keeps running, the RouteServer answers every request it     *)
(* receives, and the receive queue of the socket is first in, first out,   *)
(* so that no datagram in it is passed over for ever.                      *)
Fairness ==
  /\ WF_vars(DnsSend)
  /\ WF_vars(DnsPush)
  /\ WF_vars(DevAnswer)
  /\ \A d \in Domains : /\ WF_vars(\E s \in Statuses : ServerReply(d, s))
                        /\ SF_vars(\E s \in Statuses : DevReceive(d, s))

FairSpec == Spec /\ Fairness

-----------------------------------------------------------------------------
(* What must hold.                                                         *)

(* The variables have the types of the C++ objects they stand for.         *)
TypeOK ==
  /\ bindedIp \in Address
  /\ bindedChains \in Seq(Binding)
  /\ dnsRequests \in Seq(Request)
  /\ dnsPc \in {"recv", "send", "push"}
  /\ dnsPc # "recv" => dnsReq \in Request
  /\ devPc \in {"recv", "answer"}
  /\ devPc = "answer" => devMsg \in Message
  /\ requests \in [Domains -> Nat]
  /\ responses \in [Domains -> [Statuses -> Nat]]
  /\ queried \in [Queries -> Domains \cup {NoDomain}]
  /\ answers \in [Queries -> Seq(Address \cup {NoAddress})]

(* Every address a DNS response carries is bound to the domain its query   *)
(* named.  The address travels from the binding through a local of the     *)
(* device thread to a query found by position in a vector the DNS thread   *)
(* appends to meanwhile (sendDNSResponse() from receiver() and from        *)
(* onDNSRequest()).                                                        *)
AnswerSound ==
  \A q \in Queries : \A k \in DOMAIN answers[q] :
    answers[q][k] # NoAddress =>
      \E i \in DOMAIN bindedChains :
        bindedChains[i] = [addr |-> answers[q][k], dom |-> queried[q]]

(* Each query is replied to at most once, whatever responses are           *)
(* duplicated, and a query replied to no longer waits (erase() and         *)
(* free_dns_requests_t() in receiver()).                                   *)
AnsweredOnce ==
  /\ \A q \in Queries : Len(answers[q]) <= 1
  /\ \A i \in DOMAIN dnsRequests : answers[dnsRequests[i].id] = << >>
  /\ \A i, j \in DOMAIN dnsRequests :
       dnsRequests[i].id = dnsRequests[j].id => i = j

(* The tunnel thread finds the binding an address was made for, by         *)
(* arithmetic alone, as long as the address does not end in a zero byte;   *)
(* for one that does it computes an index ByteBase too large.  (inc_binded *)
(* against the index arithmetic of tunnel_thread_function().)              *)
RouteBack ==
  \A i \in DOMAIN bindedChains :
    LET a == bindedChains[i].addr IN
      /\ a[1] = ChainsMajor
      /\ ChainId(a) = (i - 1) + (IF a[4] = 0 THEN ByteBase ELSE 0)

(* What the comment beside binded_chains says of it, that it takes an      *)
(* address to its chain: for every address, the index the tunnel thread    *)
(* computes is the position of the binding made for it.                    *)
AddressMapsToChain ==
  \A i \in DOMAIN bindedChains : ChainId(bindedChains[i].addr) = i - 1

(* Once a domain is bound, every later lookup finds the same binding, even *)
(* when late or duplicate responses bind the domain again: the source      *)
(* address its packets are given (apply_and_route_rss_packet()) does not   *)
(* change under a running connection.                                      *)
LookupStable ==
  [][\A d \in Domains : Bound(d) =>
       /\ BindingOf(d)' = BindingOf(d)
       /\ bindedChains'[BindingOf(d)] = bindedChains[BindingOf(d)]]_vars

(* Without loss and refusals: while a waiting query's domain is not bound, *)
(* a request or a response for it is under way.  The request is sent       *)
(* before the query is appended, so only a response that overtakes the     *)
(* append can leave a query waiting, and then the domain is bound.         *)
Waiting(d) ==
  \/ \E i \in DOMAIN dnsRequests : dnsRequests[i].dom = d
  \/ dnsPc # "recv" /\ dnsReq.dom = d

UnderWay(d) ==
  \/ dnsPc = "send" /\ dnsReq.dom = d
  \/ requests[d] > 0
  \/ \E s \in Statuses : responses[d][s] > 0

WaiterHasTraffic ==
  \A d \in Domains : Waiting(d) /\ ~Bound(d) => UnderWay(d)

(* Without loss and refusals: a query that misses is answered in the end,  *)
(* though each response replies to one waiting query only, the first for   *)
(* its domain.  Left out are the queries a response has overtaken: it was  *)
(* received, and its loop over dns_requests is still to run, between the   *)
(* request a query sends and the append that makes it wait.                *)
Overtaken(q) ==
  dnsPc = "push" /\ dnsReq.id = q /\ devPc = "answer" /\ devMsg.dom = dnsReq.dom

AskedIsAnswered ==
  \A q \in Queries :
    dnsPc = "send" /\ dnsReq.id = q ~> answers[q] # << >> \/ Overtaken(q)

-----------------------------------------------------------------------------
(* The promise to the programs behind the device, implemented: an address  *)
(* belongs to the domain of its binding.                                   *)
BoundAddresses == {bindedChains[i].addr : i \in DOMAIN bindedChains}

Owner ==
  [a \in BoundAddresses |->
     bindedChains[CHOOSE i \in DOMAIN bindedChains : bindedChains[i].addr = a].dom]

Promise == INSTANCE NameBinding
             WITH owner <- Owner, asked <- queried, reply <- answers

(* Every step of the two threads is a step of NameBinding or changes       *)
(* nothing in it: no address is given to two domains, no query is replied  *)
(* to twice or with an address its domain does not own.                    *)
ImplementsNameBinding == Promise!Spec
=============================================================================
