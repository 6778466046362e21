----------------------------- MODULE RouteSocket -----------------------------
(***************************************************************************)
(* RSSUDPSocket, the one UDP socket of the process, as its three threads   *)
(* use it.                                                                 *)
(*                                                                         *)
(* The object has two address buffers.  sendToRouteServer() builds its     *)
(* destination in send_sin_tmp.  sendToIPAddress() clears send_sin_tmp but *)
(* builds the destination in sin_tmp, where receivePacket() has put the    *)
(* source of the last packet and isLastPackedFromRouteServer() reads it.   *)
(* No lock protects either: every write of a field is a step, the system   *)
(* call reads a buffer in one step.  What the threads send, and when, is   *)
(* left open.                                                              *)
(***************************************************************************)
CONSTANTS Devices,  \* IPv4 addresses of other devices
          Server,   \* server_inaddr, the RouteServer
          NoAddr    \* the address 0.0.0.0 of a cleared buffer

ASSUME AddressAssumption == Server \notin Devices /\ NoAddr \notin Devices \cup {Server}

Threads == {"dns", "tunnel", "device"}
Peers == Devices \cup {Server}
Places == {"idle", "recv", "classify", "server", "else", "addr", "port", "sendto"}

VARIABLES
  sinTmp,   \* sin_tmp: an address
  sendTmp,  \* send_sin_tmp: an address, and whether its port is set
  pc,       \* the place of each thread in a send, or in receiver()
  dest,     \* the destination each thread was called with
  source,   \* history: where the packet at hand really came from
  disturbed, \* history: threads in a send whose buffer another has written
  last      \* history: the last send, where it was meant to go and went

vars == <<sinTmp, sendTmp, pc, dest, source, disturbed, last>>

Cleared == [addr |-> NoAddr, port |-> FALSE]

Init ==
  /\ sinTmp = NoAddr
  /\ sendTmp = Cleared
  /\ pc = [t \in Threads |-> IF t = "device" THEN "recv" ELSE "idle"]
  /\ dest = [t \in Threads |-> NoAddr]
  /\ source = NoAddr
  /\ disturbed = {}
  /\ last = [meant |-> NoAddr, to |-> NoAddr, disturbed |-> FALSE]

Goto(t, label) == pc' = [pc EXCEPT ![t] = label]

ServerSenders == {t \in Threads : dest[t] = Server}
DeviceSenders == {t \in Threads : dest[t] \in Devices}

-----------------------------------------------------------------------------
(* sendToRouteServer(), by any thread, and sendToIPAddress(), by the two   *)
(* that route packets; receiver() sends from either branch, packets to     *)
(* devices only from the second.  Both functions begin by clearing         *)
(* send_sin_tmp.                                                           *)
Clear(t, d) ==
  /\ pc[t] \in {"idle", "server", "else"}
  /\ t = "dns" \/ pc[t] = "server" => d = Server
  /\ sendTmp' = Cleared
  /\ dest' = [dest EXCEPT ![t] = d]
  /\ disturbed' = (disturbed \cup ServerSenders) \ {t}
  /\ Goto(t, "addr")
  /\ UNCHANGED <<sinTmp, source, last>>

\* Mutation: the port is left at zero.
FillServerNoPort(t) ==
  /\ pc[t] = "addr" /\ dest[t] = Server
  /\ sendTmp' = [sendTmp EXCEPT !.addr = Server]
  /\ Goto(t, "sendto")
  /\ UNCHANGED <<sinTmp, dest, source, disturbed, last>>

FillServer(t) ==
  /\ pc[t] = "addr" /\ dest[t] = Server
  /\ sendTmp' = [sendTmp EXCEPT !.addr = Server]
  /\ Goto(t, "port")
  /\ UNCHANGED <<sinTmp, dest, source, disturbed, last>>

\* Mutation: the address is built in the other buffer.
FillDeviceSend(t) ==
  /\ pc[t] = "addr" /\ dest[t] \in Devices
  /\ sendTmp' = [sendTmp EXCEPT !.addr = dest[t]]
  /\ disturbed' = disturbed \cup (DeviceSenders \ {t})
  /\ Goto(t, "sendto")
  /\ UNCHANGED <<sinTmp, dest, source, last>>

\* The family and port of sin_tmp are not modelled: a datagram that goes to
\* the wrong address is wrong already.
FillDevice(t) ==
  /\ pc[t] = "addr" /\ dest[t] \in Devices
  /\ sinTmp' = dest[t]
  /\ disturbed' = disturbed \cup (DeviceSenders \ {t})
  /\ Goto(t, "sendto")
  /\ UNCHANGED <<sendTmp, dest, source, last>>

FillPort(t) ==
  /\ pc[t] = "port"
  /\ sendTmp' = [sendTmp EXCEPT !.port = TRUE]
  /\ Goto(t, "sendto")
  /\ UNCHANGED <<sinTmp, dest, source, disturbed, last>>

\* sendToSockAddr(): sendto() fails when the port is zero, and nobody looks
\* at its result.  receiver() goes on to the next packet.
SendTo(t) ==
  /\ pc[t] = "sendto"
  /\ last' = [meant |-> dest[t],
              to |-> IF dest[t] \in Devices THEN sinTmp
                     ELSE IF sendTmp.port THEN sendTmp.addr ELSE NoAddr,
              disturbed |-> t \in disturbed]
  /\ dest' = [dest EXCEPT ![t] = NoAddr]
  /\ disturbed' = disturbed \ {t}
  /\ Goto(t, IF t = "device" THEN "recv" ELSE "idle")
  /\ UNCHANGED <<sinTmp, sendTmp, source>>

-----------------------------------------------------------------------------
(* The device thread: receivePacket(), then the branch of receiver() that  *)
(* isLastPackedFromRouteServer() selects.                                  *)
ReceivePacket(p) ==
  /\ pc["device"] = "recv"
  /\ sinTmp' = p
  /\ source' = p
  /\ disturbed' = disturbed \cup DeviceSenders
  /\ Goto("device", "classify")
  /\ UNCHANGED <<sendTmp, dest, last>>

\* Mutation: the address family is looked at, not the address.
ClassifyByFamily ==
  /\ pc["device"] = "classify"
  /\ Goto("device", IF sinTmp # NoAddr THEN "server" ELSE "else")
  /\ UNCHANGED <<sinTmp, sendTmp, dest, source, disturbed, last>>

Classify ==
  /\ pc["device"] = "classify"
  /\ Goto("device", IF sinTmp = Server THEN "server" ELSE "else")
  /\ UNCHANGED <<sinTmp, sendTmp, dest, source, disturbed, last>>

\* The packet calls for no datagram.
NoReply ==
  /\ pc["device"] \in {"server", "else"}
  /\ Goto("device", "recv")
  /\ UNCHANGED <<sinTmp, sendTmp, dest, source, disturbed, last>>

Next ==
  \/ \E t \in Threads : \/ \E d \in Peers : Clear(t, d)
                        \/ FillServer(t) \/ FillDevice(t) \/ FillPort(t)
                        \/ SendTo(t)
  \/ \E p \in Peers : ReceivePacket(p)
  \/ Classify
  \/ NoReply

Spec == Init /\ [][Next]_vars

-----------------------------------------------------------------------------
(* What must hold.                                                         *)

(* The variables have the types of the objects they stand for.             *)
TypeOK ==
  /\ sinTmp \in Peers \cup {NoAddr}
  /\ sendTmp \in [addr : {Server, NoAddr}, port : BOOLEAN]
  /\ pc \in [Threads -> Places]
  /\ dest \in [Threads -> Peers \cup {NoAddr}]
  /\ source \in Peers \cup {NoAddr}
  /\ disturbed \subseteq Threads
  /\ last \in [meant : Peers \cup {NoAddr}, to : Peers \cup {NoAddr},
               disturbed : BOOLEAN]

(* A datagram for the RouteServer never goes to a device: with three       *)
(* threads writing send_sin_tmp at once, one that does not reach the       *)
(* RouteServer reaches nobody else (sendToRouteServer(), and the memset of *)
(* send_sin_tmp in sendToIPAddress()).                                     *)
RouteServerOnly == last.meant = Server => last.to \notin Devices

(* A datagram that goes astray does so because another thread wrote the    *)
(* buffer it was addressed through after its send began: alone, both send  *)
(* functions deliver where they are told, whatever was sent or received    *)
(* before.                                                                 *)
AstrayOnlyWhenDisturbed == last.to # last.meant => last.disturbed

(* A packet is taken for the RouteServer's only when it is: another thread *)
(* that overwrites the source address in sin_tmp writes the address of a   *)
(* device (isLastPackedFromRouteServer()).                                 *)
TrustedFromServer == pc["device"] = "server" => source = Server

(* What the comments of receiver() say of its other branch, that it        *)
(* handles the packets that come from devices.                             *)
ElseFromDevices == pc["device"] = "else" => source \in Devices
=============================================================================
