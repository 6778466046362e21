# Labyrinthus in TLA+

Labyrinthus is a device daemon. Programs behind the device see a DNS server and
a tunnel interface. A name they resolve becomes a local IPv4 address; packets
they send to that address are wrapped into a *chain* of other devices and sent
over one UDP socket, and a central *RouteServer* tells who is reached how. This
directory holds its specifications, the TLC runs that check them and the proofs
that TLAPS checks.

`src/apps/RSServerCommunication.cpp` includes the other files of `src/apps` and
holds `main()`. It starts three threads that share every global and take no
lock; nothing is persisted, so that a restart is a new process that the programs
know old addresses of.

## Inventory

| component | state | operations | interacts with |
|---|---|---|---|
| naming (`RSDNSServer.cpp`, `RSServerCommunication.cpp`) | `dns_requests`, `binded_chains`, `binded_ip` | `onDNSRequest`, `getBindedChainByAddress`, `sendDNSResponse`, `inc_binded`, the `getChainsResponse` branch of `receiver` | DNS thread and device thread share the vectors; `getChainsRequest` / `getChainsResponse` with the RouteServer |
| registration (`RSServerCommunication.cpp`) | `registred_clients`, `my_address`, `devices` | `getClientInfoById`, `make_and_append_chain`, `onDeviceConnect`, three branches of `receiver` | tunnel thread and device thread share all of it; `setChains`, `onDeviceConnect` and `getDevices` messages |
| socket (`rs_socket.cpp`) | `sin_tmp`, `send_sin_tmp`, `rso_data`, `buffer` | `sendToRouteServer`, `sendToIPAddress`, `receivePacket`, `isLastPackedFromRouteServer`, `getLastPackedDataAsType` | all three threads call one object |
| objects (`rssobject.cpp`, `rs_defines.cpp`) | fields of an object | `encode`, `parse`, `compare`, `assign`, `copy` | every message, binding and client record is one |
| routing (`RSRouter.cpp`) | none of its own | `apply_and_route_rss_packet`, `tunnel_thread_function` | reads `binded_chains` and `registred_clients`, sends to devices |
| DNS wire format (`RSDNSServer.cpp`) | a datagram | the label loop, the bytes of a response | feeds `onDNSRequest`, carries its answers to the programs |
| checksums (`get_crc.cpp`, `ip.cpp`) | none | `get_crc`, `ip_sum` | bindings are prefiltered by `get_crc`; the header of a delivered packet is summed by `ip_sum` |
| encryption | none | stubs that return true or copy | |
| interface and raw sockets (`tun.cpp`, `udpsocket.cpp`) | descriptors | run once at the start | |
| fragments (`RSTunnelServer.cpp`, `RSConfig.cpp`) | locals of the tunnel thread; nothing | | |

What is hard in this code, and where it is covered:

* *Threads without locks.* The DNS thread asks before it queues; the device
  thread frees `my_address` and `devices` under the tunnel thread; the two
  buffers of the socket are written by all. (`ChainBinding`, `ClientRegistry`,
  `RouteSocket`)
* *A network that loses, duplicates and reorders*, with no retry and no
  matching of responses to requests but by domain. (`ChainBinding`,
  `ClientRegistry`)
* *Arithmetic*: addresses count with a carry one way and without a borrow the
  other (`ChainAddress`), `rand()%(devices.size()-1)` (`ClientRegistry`),
  lengths kept beside pointers (`RSSCodec`, `DNSWire`), carries folded early
  (`Checksum`).
* *A way over several devices* that know of a packet only its next row, through
  sockets that may send it astray, to a receiver that may not know its sender.
  (`PacketRouting`)
* *Partial and cut data*: messages that end early (`RSSCodec`); queries that are
  cut or carry more than a question (`DNSWire`).
* *A restart*, after which addresses are counted from the start while responses
  to the old process still arrive and programs still use its addresses. The
  socket has a fixed port and nothing in a response tells whose request it
  answers. (`Edge`; for the registration, `ClientRegistry`)

`PROJECT.json` lists every hazard at its line with the properties that cover it,
or with the reason why none does. Of the hazards this code does run into, that
is so for these: a query that its own response overtakes waits for good; 2^24
bindings leave the subnet; a client the RouteServer refused is registered; a
lost `setChains`, `onDeviceConnect` or `getDevices` datagram is never sent
again; a datagram is lost, or goes to another device, when a second thread
writes its address buffer. The models contain each of them but the second, and
the properties name them as exemptions: what the runs show is that nothing else
has the same effect.

## Modules

| module | models |
|---|---|
| `ChainAddress` | `inc_binded`, and the arithmetic by which the tunnel thread turns an address into a position in `binded_chains` |
| `NameBinding` | abstract: what the naming service promises |
| `ChainBinding` | the DNS thread and the naming half of the device thread; implements `NameBinding` |
| `ClientRegistry` | the registration of clients by the tunnel thread, the device thread's half of it, and the loading of addresses and devices |
| `RouteSocket` | the address buffers of `RSSUDPSocket` |
| `PacketRouting` | a packet's way along its chain: the tunnel thread, `apply_and_route_rss_packet()` in every device it passes, its delivery |
| `DomainPipe` | abstract: what the chain network promises two programs that talk to each other; `PacketRouting` implements it |
| `DNSWire` | the loop that takes the name out of a DNS query, and the bytes of the response |
| `Checksum` | `ip_sum` |
| `Edge` | a device as its programs see it: `ChainBinding`, `DNSWire`, `ChainAddress` and `Checksum` composed, with the checks of the tunnel thread, the header of a delivered packet and a restart |
| `RSSCodec` | `RSSObject` and the way of a message through `packet_t`, a datagram and back |
| `MC...` | instances for TLC |
| `..._proofs` | theorems about the module of that name |
| `SearchTheorems` | a lemma on searches of a vector that two of them share |

Definitions keep the names of the source where TLA+ allows it; `PROJECT.json`
maps each to its lines. Definitions whose comment says *Mutation* are not used
by any specification. Each is a plausible bug of the definition after it, and
with it in the place of that definition TLC finds the property `PROJECT.json`
names violated: the evidence that the property depends on the code.

### What a step is

An operation on one shared object is one step: a scan of a vector, a
`push_back`, an `erase`, one system call, the assignment of a pointer. Between
two steps of one thread any other thread may run. Refinements and
abstractions of this rule:

* `RouteSocket` goes below it: clearing a buffer, writing its address and
  writing its port are steps of their own.
* A data race *inside* a vector operation (a `push_back` that moves the elements
  while another thread scans) is outside the models: C++ gives it no meaning.
* The parse of a query, and the making and summing of a header, work on locals
  of their thread. In `Edge` no other thread's step comes between theirs.
* In `ChainBinding` a delivered packet that asks for its return address
  (`Resolve`) scans and sends in one step. If a response came in between, its
  request would be answered for a domain that is bound by then: a late response,
  which two lookups of one domain give as well.
* `DevAnswer` of `ChainBinding` is the scan of `dns_requests`, the reply and the
  `erase` in one step. The DNS thread only appends, behind the place found, and
  the reply is seen by the program alone.
* In `RouteSocket` the device thread starts in `receiver()`: the one send of
  `onDeviceConnect()` before is a send like those from inside `receiver()`,
  which start with the same buffers.

### ChainAddress and ChainBinding

`dnsPc` and `dnsReq` are the place and the local `new_request` of
`onDNSRequest()`; `devPc` and `devMsg` those of `receiver()` between the binding
and the loop over `dns_requests`. `DnsHit`, `DnsMiss`, `DnsSend` and `DnsPush`
are `onDNSRequest()`; `DevReceive` and `DevAnswer` are the `getChainsResponse`
branch; `Resolve` is the lookup in `apply_and_route_rss_packet()`. `requests`
and `responses` count the datagrams under way for each domain: a bag, from which
any may be received next, and, when the network is lossy, stay for a duplicate.
`ServerReply` is external. `queried` and `answers` are what the program that
asks can see.

A domain stands for its `address_t` object, and equality of domains for
`RSSObject::compare`. `Crc` is any function of domains; the runs give both
domains one value, so that only the comparison tells them apart. The encodings
that `compare` and `assign` go through are the subject of `RSSCodec`.

Bytes have `ByteBase` values. With 256 a carry needs 256 bindings, with 2 the
second binding carries; the arithmetic is the same and the proofs hold for
every base.

### ClientRegistry

`TunAllocate` to `TunAnnounce` are `getClientInfoById()` and, for each chain,
`make_and_append_chain()`: the pointer to `my_address` is taken (`TunEntry`),
then two to devices (`TunHop`), and only then are the addresses read
(`TunSeal`). `DevConnected`, `DevAssign`, `DevAsk` are the response to
`onDeviceConnect`; `DevList`, `DevClear`, `DevFill`, `DevFilled` the loading of
a device list, with the deleted pointers still in the vector until it is
cleared; `DevRegister` is the `setChainsResponse` branch. That branch looks at
no status, and neither does the action.

What matters of an object on the heap is whether it is alive: `myAddress` and
the elements of `devices` are the number of the load they come from, `route`
holds such numbers, and `Good` says whether all three are alive when they are
read. Reading a freed object is undefined: `TunSeal` goes on with a chain that
is marked bad, `TunSealFails` ends the process. `TunHopFails` is
`rand()%(devices.size()-1)` for one device (division by zero) and for none (an
index out of bounds). `crashed` ends every behaviour.

`net` is a set, with `Duplicates` a datagram may be received again at any later
time. The client in a `ChainsSet` is not in the datagram: it keeps apart the
responses to two clients that drew one domain. `announced` is a history
variable.

A process that is started again begins as the first did, except for the network:
`Old` are the responses to requests of the process before that are under way.
Like the client of a `ChainsSet`, the mark `old` of a list is not in the
datagram and no action of the device thread but the history variable `inherited`
depends on it: `DevList` and `DevRegister` take an old response for a new one.
The invariants name what comes of that. Without their exemptions TLC finds a
chain begun with `my_address` still NULL, and the process dead of it.

### RouteSocket

Each thread is in a send or, for the device thread, in `receiver()`. What they
send and when is left open, but for what the code fixes: the DNS thread and the
first branch of `receiver()` send to the RouteServer only. `dest`, `source`,
`disturbed` and `last` are history variables: where each thread meant to send,
where the packet at hand came from, whose buffer was written under it, and what
the last send did. `sendto()` with port zero fails.

### PacketRouting

Several devices, each with its bindings. A chain is the sequence of the
addresses of its rows, outermost first: the encoded row inside a row is the rest
of the sequence, and `Peeled` what `chain_from_param->parse()` leaves
(`RSSCodec` has `parse` itself). `Publish` and `Confirm` are what is left of
`ClientRegistry`, `Ask`, `Bind` and `Refuse` of `ChainBinding`: enough to have
chains and bindings in any order relative to the packets. `Confirm` asks for no
announcement, since `receiver()` looks at no status: a client the RouteServer
refused believes it is registered and sends; its chains are published later only
if another client of the device has its domain, whose response it was.
`TunnelSend` is the tunnel thread with a packet for the `k`-th binding (how an
address becomes `k` is in `ChainAddress`); it peels the first row itself, as
every later device does in `Relay`. `Deliver`, `DropUnreturnable` and
`DropStranger` are the second branch of `apply_and_route_rss_packet()`: the
address of the sender's domain is bound, is not bound and asked for, or the
innermost row is no client's here.

`Relays` are the devices a hop may be: all of the RouteServer's list but its
last, since the code takes `rand()%(devices.size()-1)`. They may include the
client's own device, and one device twice. With `Astray` a datagram may go to
any device: what `RouteSocket` shows can happen. Identifiers of clients are
taken to be unique; they are random strings of the process. `to` in a packet
and `delivered` are history. A row that names a device and a row that names a
client differ by their type, hence `Devices \cap Clients = {}`.

`DomainPipe` is what all this is for: a packet that a client sends to a domain
is lost or delivered, once or more, to a client of that domain, under an address
that is the sender's domain. It knows no device, no chain and no binding.
`Pipe` maps the packets under way to the sender and domain they keep, and the
last delivery to the domain its return address is bound to: were that binding
ever to change, `got` would change without a `Deliver`.

### DNSWire, Checksum and Edge

A datagram in `DNSWire` is its bytes from the first question on, as many as have
arrived, and the records behind it (`after`). `question` and `marks` are what
the program meant: the bytes of the whole question, of which a datagram may hold
the first only, and the places of its length bytes, the last of them the zero
that ends the name. They are history, by which `AsAsked` states what the loop
must find (`Spelled`); the loop reads bytes and knows no marks. `at` is the
pointer `d`, `max` the count beside it; each step is a turn of the loop
(`TakeLabel`) or an end of it (`NoLabel`, `LabelCut`). The response is the query
with the answer behind all that was in it, which is what `sendDNSResponse()`
does; `Learned` is what a resolver makes of it: nothing when a record stands
where it looks for the answer. The remaining length `max` is that of the
question; the code's counts the bytes of the records behind it as well, which
only a name without an end would make use of.

`Checksum` is `ip_sum()` with a word of `ByteBase` times `ByteBase` values.
`total` is the sum without any folding, kept to say what a receiver checks.
`FoldAt` stands for the bit 31 at which the code folds early. (A header is too
short to get there; the run sets `FoldAt` low enough that it happens.)

`Edge` joins them to `ChainBinding`, whose variables and actions it takes as
they are. `Query`, `Parse`, `OnDNSRequest` and `IgnoreQuery` are the DNS
thread's turn with one datagram. `TunnelSend` is a packet that a program sends
to an address it knows: `FromClient` are the checks on it, `ClientId` and
`ChainId` the arithmetic. `Deliver` looks the sender's domain up and begins the
header, `Sum` sums it, `Write` writes it to the interface; `Drop` asks for the
domain. `Known` is what the programs know: what they were answered with
(through the resolver), the source of the last packet, and all they remember
from before a restart. `Restart` puts every variable of the process back to what
`main()` makes of it, leaves the network as it is, and makes programs remember.
`crossed` is the packet that crossed the interface last.

What `Edge` states is limited by two things the code does, which the invariants
name: an address that ends in zero (finding 1) and one learned before a restart
may lead elsewhere. Without the second exemption TLC finds, in a few steps, a
program that sends to a domain it has never asked for.

### RSSCodec

An object is the sequence of the values of its fields, its type an entry of
`structs`. Every loop of `encode()` and `parse()` is a sequence of steps, a
field each: `Encode`, `Parse`, `EncodeCopy`. `todo` holds the fields still to
come. The fields of a nested object stand in its place, and when the size of an
array is known, those of its elements do (`Rest`). The order in which the code
goes depth first through an object is thus a flat one; that is right because no
nested type has an int (`parse()` of a nested object counts the bytes left for
itself, and with an int in it the caller would go on with another count), and
because none begins with an array (`parse()` asks for a byte before each
element, its first field asks again).

`parse()` keeps the number of bytes it believes are left apart from its place in
the data; so does `parser`. Nothing but that number tells `parse()` where the
data end: it reads on in the memory behind them, which may hold anything
(`behind`, from `Beyond`, anew at each turn), and returns an object made of
that. `Overrun` says that it has gone there. A behaviour is the way of one
message: encoded into a `packet_t` (`Send`), received (`ReceivePacket`),
unpacked into a fresh object (`Unpack`), and copied as often as one likes, for
`copy` and `assign` (`Keep`) or, a chain, into the object it was found in, as
the router does (`Peel`), whose string holds anything. `SendShort` is a peer
whose message ends early, anywhere; an object that is partly made of other
memory is not followed further. `message` and `script` are history: the values
sent, and for each of them the fields that were to come and its place on the
wire. `payload` is what was put into the `packet_t`. The receive buffer has
65535 bytes, more than UDP carries, so that `recvfrom()` cuts no datagram: what
is too long `sendto()` refuses (`MaxDatagram`), and nobody asks it.

## Runs

| run | shows |
|---|---|
| `binding` | with two domains of one checksum and a network that loses, duplicates and reorders: answers are sound (`AnswerSound`) and sent once (`AnsweredOnce`), addresses lead back to their bindings (`RouteBack`), lookups are stable (`LookupStable`), and `ChainBinding` implements `NameBinding`, refusals included |
| `binding_live` | on a reliable network a waiting query has something under way for it until its domain is bound (`WaiterHasTraffic`), and every query that misses is answered in the end, unless its response overtook it (`AskedIsAnswered`) |
| `binding_carry` | violation: `AddressMapsToChain` fails at the binding whose address ends in zero |
| `registry` | what registered clients, their announcements and their chains rest on, with two loads of the address and of the devices, lists of one and of two devices, loss and duplication, and a late list the process before asked for |
| `registry_live` | on a reliable network every client is registered or shadowed by an earlier one of its name (`RegisteredOrShadowed`), and the list of devices is loaded by the one exchange that asks for it (`DevicesLoad`); with a late `setChainsResponse` to the process before, who is registered was announced or drew that response's name (`RegisteredWasAnnounced`) |
| `socket` | no datagram for the RouteServer reaches a device, a datagram goes astray only if its buffer was written during its send, and only packets of the RouteServer are taken for its packets |
| `socket_branch` | violation: a packet of the RouteServer is taken for a device's |
| `routing` | over sockets that send astray and a network that loses and duplicates: a packet is always on the rest of a chain bound to its destination (`OnRoute`), reaches clients of its domain only (`DeliveredToAddressee`), and is delivered under an address that leads back to its sender's domain for good (`ReplyReachesSender`); together, the devices implement `DomainPipe` |
| `routing_live` | on a reliable network, a packet is also at the device its last row named, and after a packet a device of its domain can name its sender in the end, unless the RouteServer refused the sender (`PacketTeaches`) |
| `edge` | the label loop stays in its datagram (`InDatagram`); what is looked up is what was asked, and nothing when the query is cut or of another type (`AsAsked`); headers verify (`SumVerifies`); a packet goes to the name its address was learned for (`SentToName`) |
| `codec` | for every message type: a message that arrives whole is the one sent (`ArrivesAsSent`); a short one is refused unless `parse()` has gone past its end, which only happens after an int that is not the last field (`ShortIsRefused`), and by four bytes at most (`OverrunIsBounded`) |
| `codec_short` | violation: a short `getDevicesResponse` becomes an object, made of what lies behind its end (`NullOrObject`) |

### Bounds

* `binding`: two domains (one that waits while the other is served, and a
  checksum to share), two queries (for one domain, or for two), three bindings
  (one more than domains, so that a domain is bound twice; the second address
  ends in a zero byte), both statuses, one datagram of a kind and domain in
  flight (more of them differ only in how often the same response is late, which
  duplication covers). `binding_live` and `binding_carry` have a reliable
  network and room for every binding that can be made.
* `registry`: two clients and two names, so that they may share one; two chains
  of the code's five, so that a load may fall between them; lists of one device
  (the modulo fails) and of two; one late list; two loads (the first replaces
  nothing, the second frees). `registry_live` has three clients for two names,
  so that one is always shadowed or equal, one load of each, a list of three
  devices, and a late response for one of the names.
* `socket` has two devices and needs no bound.
* `routing`: two devices with one client each, so that a chain passes its own
  device, goes back and forth and ends where it began; two bindings each (its
  own domain and the other's, or one twice); one packet under way when another
  is sent, duplicates aside. Packets do not act on each other but through what
  devices have asked for. `routing_live` lets both devices be relays, which
  gives every client four chains.
* `edge`: bytes of three values, of which one is a letter and one the dot, so
  that every byte is also a length; two names, `1.1` and `11`, which the dot
  alone tells apart; datagrams whole and cut in a label, behind the name and in
  the type, with and without an additional record, of type A, ANY and another;
  one query at a time of each process, three bindings (the third address ends in
  zero), one restart; a sum that is folded early.
* `codec`: bytes of four values, so that an int has both signs and a count
  exceeds a byte with small numbers; arrays of up to two; datagrams of up to 45
  bytes, room for all but the longest messages; behind the data eight bytes,
  all zero as the end of a string is, or others.

Deadlock is not checked where the programs have a last state: when all queries
are made and all bounds used up (in `registry`, also when the process has died),
and at the end of one message. `socket` runs for ever and checks it.

### Fairness

Weak fairness of the steps inside a handler says that the threads are scheduled;
none of them waits for another. `ServerReply` is fair because the runs that use
it assume a RouteServer that answers. `DevReceive` is strongly fair for each
domain: the socket's receive queue is first in, first out, so that a datagram
cannot be passed over for ever, while the model's bag may receive another first.
In `PacketRouting`, `Receive` is fair for the packets of one sender to one
domain that have the same number of rows left (a device takes the packets of its
queue in turn), and `Bind` for each device and domain (the RouteServer answers).
Arrivals (DNS queries, packets of clients) are not fair: nobody has to ask. No
fairness is assumed where the network may lose.

## Findings

Three statements of the code's comments fail; `PROJECT.json` has each with its
run, its line and the line it contradicts.

1. `RSRouter.cpp:118` decrements the last byte of an address without a borrow:
   each address that ends in zero, from the 256th binding on, leads 256
   positions too far.
2. `rs_socket.cpp:85` builds the destination of a send in the buffer that holds
   the source of the packet at hand.
3. `rssobject.cpp:357-362` does not count an int against the bytes left, so that
   a `getDevicesResponse` that ends up to four bytes early is read past its end
   and becomes an object, where a comment promises NULL.

## Proofs

TLC checks the small instances, TLAPS the same statements for every value of the
constants that satisfies their assumptions. The assumptions a reader should
know: a byte has at least two values (`ByteBaseAssumption`); the bindings fit
into the subnet (`BoundAssumption`: the code has no such check, and 2^24
bindings are needed to break it); a client, a chain and a name exist
(`ClientAssumption`, `NameAssumption`); the RouteServer's address is no device's
(`AddressAssumption` of `RouteSocket`); the dot is a byte and no zero, and a
query carries no answers (`DatagramAssumption`); a question leads from length to
length to the only zero of its name (`QuestionAssumption`); fields hold values
that fit into their bytes, no string is longer than an int can say and no
datagram either (`ValueAssumption`); behind the data there is memory for four
bytes (`BeyondAssumption`); what is under way for the process before are
responses (`OldAssumption`); there are fewer clients than values of a byte
(`EdgeAssumption`); every client is behind one device and no address is a
device's and a client's (`HomeAssumption` of `PacketRouting`).

*ChainAddress.* Read as a number, `IncBinded` adds one (`IncAddsOne`) and stays
in the subnet (`FirstByteFixed`); `ChainIdValue` gives the index computed from
an address, with the error of `ByteBase` where it ends in zero.

*ChainBinding.* `Inv` is `TypeOK` with three parts that the properties need and
do not say. `AddrInv`: the i-th binding has the i-th address after the first,
and `bindedIp` is the last. It gives `RouteBack` and the distinctness of the
addresses. `QueryInv`: a query is in one place, unasked, in `dnsReq`, in
`dnsRequests` or answered, which makes `AnsweredOnce` inductive. `SoundInv`: the
address at hand in the device thread is bound to the domain at hand, which
carries `AnswerSound` from the binding to the answer. `LookupStable` follows
since `FirstForFinds` gives the first match and bindings are only appended.
`NameBindingImplemented` maps each step to `Ask`, `Claim`, `Reply` or a stutter.
`WaiterHasTrafficCorrect` has the assumption that nothing is lost and nothing
refused.

*ClientRegistry.* `Inv` joins `ClientInv` (what `state`, `domain`, `chains` and
`announced` of one client have to do with each other), `TunnelInv` (the client
the tunnel thread is at), `NetInv` (what the datagrams under way say of their
clients, if they are not in `Old`, which may be any responses), `LoadInv`
(devices are loaded after the address, in the order of `devPc`, unless a list
was `inherited`), `RouteInv` (a route is a prefix of an address, or NULL with an
inherited list, and two devices of loads up to now) and `ListInv` (the list
being loaded). `StaleOnlyAfterReload` and `CrashOnlyWhileLoading` rest on a
monotone condition, `Reloading`, that a first load does not meet. Two theorems
of this module go beyond the runs' properties, for a network that loses nothing
(duplicates are allowed): `WaiterIsExpectedCorrect`, a client in `WAIT_RESPONSE`
is being announced, or its announcement or the response is under way, or a
client in front of it has its name, in which case it waits for good; and
`ListIsComingCorrect`, a device that knows its address has had a device list, or
is about to ask, or the question or the answer is under way. They are what
`RegisteredOrShadowed` and `DevicesLoad` add fairness to.

*RouteSocket.* `PlaceInv` ties the place of a thread to its destination,
`BufferInv` says that a thread in a send that nobody disturbed finds in its
buffer what it has put there, `SourceInv` that a buffer that says RouteServer
while a packet is at hand got it from that packet.

*PacketRouting.* `PublishedInv` and `BindingsInv`: every chain that is announced
or bound has the shape `make_and_append_chain()` gives it and ends in a client
of its domain. `ChainRows` and `RemainderRows` say what its rows are and what
peeling one leaves. `OnRoute` is inductive with them: a packet is at row n of a
chain, a row that names a device is not the last, so that one more may be peeled
(`ForwardKeeps`), and bindings only grow (`PlacedStays`). At a client n can only
be three, which gives `DeliveredToAddressee` (`DeliverKeeps`) whatever devices
the packet has been to. `PipeImplemented` uses the same invariant: a forwarded
packet keeps its sender and domain, so that it is a stutter of `DomainPipe` or a
loss; a delivery is a `Deliver` by `DeliveredToAddressee` and
`ReplyReachesSender`; and no later `Bind` changes the `reply` of what has been
delivered. `NoPacketVanishesCorrect` and `QuestionsStandCorrect` are the steps
`PacketTeaches` is made of: while nothing is lost or sent astray, a packet that
is handled is one row further, or delivered by a device that can name its
sender, or a device of its domain asks for the sender's domain; and a question
is there until its domain is bound or nobody has it. That no packet ends at a
device that does not know its addressee is `ChainEnds`, from `OnRoute`.

*Edge.* Five invariants, each for one part. `Inv` of `ChainBinding` is kept by
its own steps and by `Restart`, which gives `RestartKeepsPromises`: the new
process starts like the first, whatever responses are still under way.
`WireInv` says that `at` and `max` add up to the datagram at every turn.
`SumInv` says that the words added so far exceed `sum` by a multiple of
2^16 - 1 (`Congruent`), which a fold keeps.
`ProgramInv` says that an address in a header being summed, or in a packet that
came in last, is bound to the domain it is known by; with `AnswerSound` for the
answers and `ChainIdValue` for the arithmetic it gives `SentToName`.

`AskInv` carries `AsAsked`: while the loop is at a
label, what it has collected is the question up to there with the dots put in
(`UptoBytes`, `JoinedIsUpto`), and an end it meets is the question's end
(`ZeroIsLast`) or the cut (`CutIgnored`). No induction over the labels is
needed: `Upto` says byte by byte what any beginning of a question spells.

*RSSCodec.* The lemmas on numbers (`ReadBack`, `SignIsLost`) are arithmetic with
a byte of any number of values. `ParsedField` is one turn of `parse()`: where a
field has been encoded it is taken whole, or refused when the data end in it,
and the count of bytes left stays exact unless the field is an int; `FieldAny`
says what a turn does wherever it is: how far it goes is bounded by that count.
`CodecInv` says that the loops keep step with the first one. `Scripted`: the
values stand on the wire at the places `script` says, each encoded as the field
that was to come. `Parsing`: as long as it is in the data, `parse()` is at the
place where `encode()` was when it wrote the next value, has the same fields
before it, and has read all values before it right; if no field follows an int,
the count of bytes left is exact. `Reaching`: wherever it is, place and count
together come to the end of the data, or four bytes behind it once the int is
parsed, whatever was found in the memory there: `OverrunIsBounded`. `Leaving`:
it leaves the data only when they end early, for a type that goes on after its
int. `Copying`: the same as `Parsing` of the `encode()` of a copy, where the
sign of an int makes no difference. The script ends where no field is to come
(`ScriptEnd`), which is why a `parse()` that comes to its end in the data has
read the whole wire, and with it the whole payload: `ArrivesAsSent` and
`ShortIsRefused`. `UnframedFrame` says of the `packet_t` around a message that
what was put in is taken out, by two turns of `parse()`. The types of messages
enter the proof only in `StructsAreFields`; the arrays have any size.

Every invariant that a run checks is proved, and so are the action properties
and the two refinements. Only model-checked: the liveness properties
`AskedIsAnswered`, `RegisteredOrShadowed`, `DevicesLoad` and `PacketTeaches`,
which need fairness and ENABLED (what each of them rests on that is safety is
proved: `WaiterHasTraffic`, `WaiterIsExpected`, `ListIsComing`,
`NoPacketVanishes` and `QuestionsStand`); and the statements of comments that
are refuted.

## Not modelled

* The payload of a packet. The router passes it on as it is, although a TCP or
  UDP checksum in it covers the addresses, which are new; and it forgets the
  fragment offset of the packet it came in.
* The TTL and the other fixed bytes of a DNS response. In `Edge` programs
  remember addresses for good.
* System calls that fail for other reasons than a full buffer or port zero: a
  `recvfrom` that fails ends its thread.
* A packet whose length field is below that of a header: the kernel, which is
  at the other end of the interface, makes none.
* `lastActivityTime` of a client, which is set and never read.
* Encryption: the code has stubs.
* The IPv6 branches of the socket and the router: no caller, or empty.
* A RouteServer: it is not in the repository. It answers, or not, with any of
  the responses the protocol has.
* `time()`, `rand()` and the unique identifier of a client: values are chosen
  freely.

## Plan

Done: naming, registration, the socket, the messages and
routing, each with its abstract promise where it has one; the wire of DNS, the
checksum and the device's edge that joins them.

What the proofs have left: the ENABLED conditions under the four liveness
properties, which are out of the prover's reach, and the step from
`SentToName` and `ImplementsPipe`, proved apart, to one theorem about a packet
from program to program (item 1).

What would be next, should the code grow:

1. `PacketRouting` composed with `Edge` in two devices. Today their meeting
   point is the binding: `SentToName` carries a packet to a binding of the right
   domain, `ImplementsPipe` from a binding of that domain to its client.
2. A retry of `onDeviceConnect`, `getDevices` and `setChains`, with the liveness
   properties stated over a network that loses.
3. The payload, once the router mends its checksum.
