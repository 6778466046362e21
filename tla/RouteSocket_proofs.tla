-------------------------- MODULE RouteSocket_proofs --------------------------
(***************************************************************************)
(* Proofs about RouteSocket, for any set of devices.                       *)
(***************************************************************************)
EXTENDS RouteSocket, TLAPS

Sending == {"addr", "port", "sendto"}

(* The place of a thread tells what it sends: an address only while it     *)
(* sends, the RouteServer's when it is about to set the port.              *)
PlaceInv ==
  \A t \in Threads :
    /\ pc[t] \in Sending <=> dest[t] # NoAddr
    /\ pc[t] = "port" => dest[t] = Server

(* What a sender has written is still there, or it is disturbed.           *)
BufferInv ==
  \A t \in Threads \ disturbed :
    /\ dest[t] = Server /\ pc[t] \in {"port", "sendto"} => sendTmp.addr = Server
    /\ dest[t] = Server /\ pc[t] = "sendto" => sendTmp.port
    /\ dest[t] \in Devices /\ pc[t] = "sendto" => sinTmp = dest[t]

SendInv == PlaceInv /\ BufferInv

(* Nobody writes the RouteServer's address over that of a device.          *)
SourceInv ==
  /\ pc["device"] = "classify" /\ sinTmp = Server => source = Server
  /\ pc["device"] = "server" => source = Server

LEMMA TypeInit == Init => TypeOK
BY DEF Init, TypeOK, Threads, Places, Cleared

LEMMA TypeStep == TypeOK /\ [Next]_vars => TypeOK'
<1> SUFFICES ASSUME TypeOK, [Next]_vars PROVE TypeOK'
  OBVIOUS
<1> USE DEF TypeOK, Peers, Threads, Places, Goto
<1>1. ASSUME NEW t \in Threads, NEW d \in Peers, Clear(t, d) PROVE TypeOK'
  BY <1>1 DEF Clear, Cleared, ServerSenders
<1>2. ASSUME NEW t \in Threads, FillServer(t) PROVE TypeOK'
  BY <1>2 DEF FillServer
<1>3. ASSUME NEW t \in Threads, FillDevice(t) PROVE TypeOK'
  BY <1>3 DEF FillDevice, DeviceSenders
<1>4. ASSUME NEW t \in Threads, FillPort(t) PROVE TypeOK'
  BY <1>4 DEF FillPort
<1>5. ASSUME NEW t \in Threads, SendTo(t) PROVE TypeOK'
  BY <1>5 DEF SendTo
<1>6. ASSUME NEW p \in Peers, ReceivePacket(p) PROVE TypeOK'
  BY <1>6 DEF ReceivePacket, DeviceSenders
<1>7. CASE Classify
  BY <1>7 DEF Classify
<1>8. CASE NoReply
  BY <1>8 DEF NoReply
<1>9. CASE UNCHANGED vars
  BY <1>9 DEF vars
<1> QED
  BY <1>1, <1>2, <1>3, <1>4, <1>5, <1>6, <1>7, <1>8, <1>9 DEF Next

(* The buffers hold addresses, the port flag is a flag, and every thread   *)
(* is at a place of its own code (sockaddr_in and the three threads).      *)
THEOREM TypeCorrect == Spec => []TypeOK
BY TypeInit, TypeStep, PTL DEF Spec

-----------------------------------------------------------------------------
(* A datagram for the RouteServer never goes to a device                   *)
(* (sendToRouteServer() writes send_sin_tmp only, and nobody writes a      *)
(* device's address there).                                                *)
THEOREM RouteServerOnlyCorrect == Spec => []RouteServerOnly
<1>1. Init => RouteServerOnly
  BY AddressAssumption DEF Init, RouteServerOnly, Peers
<1>2. TypeOK /\ RouteServerOnly /\ [Next]_vars => RouteServerOnly'
  <2> SUFFICES ASSUME TypeOK, RouteServerOnly, [Next]_vars PROVE RouteServerOnly'
    OBVIOUS
  <2> USE DEF RouteServerOnly
  <2>1. ASSUME NEW t \in Threads, SendTo(t) PROVE RouteServerOnly'
    BY <2>1, AddressAssumption DEF SendTo, TypeOK, Peers
  <2>2. ASSUME UNCHANGED last PROVE RouteServerOnly'
    BY <2>2
  <2> QED
    BY <2>1, <2>2 DEF Next, Clear, FillServer, FillDevice, FillPort, ReceivePacket,
                      Classify, NoReply, vars
<1> QED
  BY <1>1, <1>2, TypeCorrect, PTL DEF Spec

-----------------------------------------------------------------------------
LEMMA PlaceInit == Init => PlaceInv
BY DEF Init, PlaceInv, Threads, Sending

LEMMA PlaceStep == TypeOK /\ PlaceInv /\ [Next]_vars => PlaceInv'
<1> SUFFICES ASSUME TypeOK, PlaceInv, [Next]_vars, NEW u \in Threads
             PROVE /\ (pc[u] \in Sending)' <=> (dest[u] # NoAddr)'
                   /\ (pc[u] = "port")' => (dest[u] = Server)'
  BY DEF PlaceInv
<1>a. /\ pc[u] \in Sending <=> dest[u] # NoAddr
      /\ pc[u] = "port" => dest[u] = Server
      /\ pc \in [Threads -> Places] /\ dest \in [Threads -> Peers \cup {NoAddr}]
  BY DEF PlaceInv, TypeOK
<1>b. NoAddr \notin Peers /\ "device" \in Threads
  BY AddressAssumption DEF Peers, Threads
<1> USE <1>a, <1>b DEF Sending, Goto
<1>1. ASSUME NEW t \in Threads, NEW d \in Peers, Clear(t, d)
      PROVE /\ pc'[u] \in Sending <=> dest'[u] # NoAddr
            /\ pc'[u] = "port" => dest'[u] = Server
  BY <1>1 DEF Clear
<1>2. ASSUME NEW t \in Threads, FillServer(t) \/ FillDevice(t) \/ FillPort(t)
      PROVE /\ pc'[u] \in Sending <=> dest'[u] # NoAddr
            /\ pc'[u] = "port" => dest'[u] = Server
  BY <1>2 DEF FillServer, FillDevice, FillPort
<1>3. ASSUME NEW t \in Threads, SendTo(t)
      PROVE /\ pc'[u] \in Sending <=> dest'[u] # NoAddr
            /\ pc'[u] = "port" => dest'[u] = Server
  BY <1>3 DEF SendTo
<1>4. ASSUME NEW p \in Peers, ReceivePacket(p)
      PROVE /\ pc'[u] \in Sending <=> dest'[u] # NoAddr
            /\ pc'[u] = "port" => dest'[u] = Server
  BY <1>4 DEF ReceivePacket
<1>5. CASE Classify \/ NoReply
  BY <1>5 DEF Classify, NoReply
<1>6. CASE UNCHANGED vars
  BY <1>6 DEF vars
<1> QED
  BY <1>1, <1>2, <1>3, <1>4, <1>5, <1>6 DEF Next

LEMMA BufferInit == Init => BufferInv
BY DEF Init, BufferInv, Threads

LEMMA BufferStep == TypeOK /\ PlaceInv /\ BufferInv /\ [Next]_vars => BufferInv'
<1> DEFINE Kept(u) ==
      /\ dest[u] = Server /\ pc[u] \in {"port", "sendto"} => sendTmp.addr = Server
      /\ dest[u] = Server /\ pc[u] = "sendto" => sendTmp.port
      /\ dest[u] \in Devices /\ pc[u] = "sendto" => sinTmp = dest[u]
<1> SUFFICES ASSUME TypeOK, PlaceInv, BufferInv, [Next]_vars,
                    NEW u \in Threads, u \notin disturbed'
             PROVE Kept(u)'
  BY DEF BufferInv
<1>a. u \notin disturbed => Kept(u)
  BY DEF BufferInv
<1>b. /\ pc \in [Threads -> Places] /\ dest \in [Threads -> Peers \cup {NoAddr}]
      /\ sendTmp \in [addr : {Server, NoAddr}, port : BOOLEAN]
  BY DEF TypeOK
<1>c. Server \notin Devices /\ Server # NoAddr /\ NoAddr \notin Devices
      /\ "device" \in Threads
  BY AddressAssumption DEF Threads
<1>d. pc[u] \in Sending <=> dest[u] # NoAddr
  BY DEF PlaceInv
<1> USE <1>b, <1>c DEF Goto
<1>1. ASSUME NEW t \in Threads, NEW d \in Peers, Clear(t, d) PROVE Kept(u)'
  <2>1. CASE u = t
    BY <1>1, <2>1 DEF Clear
  <2>2. CASE u # t
    <3>1. u \notin disturbed /\ u \notin ServerSenders
      BY <1>1, <2>2 DEF Clear
    <3>2. dest[u] # Server /\ dest'[u] = dest[u] /\ pc'[u] = pc[u] /\ sinTmp' = sinTmp
      BY <1>1, <2>2, <3>1 DEF Clear, ServerSenders
    <3> QED
      BY <3>1, <3>2, <1>a
  <2> QED
    BY <2>1, <2>2
<1>2. ASSUME NEW t \in Threads, FillServer(t) PROVE Kept(u)'
  <2>1. u \notin disturbed
    BY <1>2 DEF FillServer
  <2>2. sendTmp'.addr = Server /\ sendTmp'.port = sendTmp.port
    BY <1>2 DEF FillServer
  <2> QED
    BY <1>2, <1>a, <2>1, <2>2 DEF FillServer
<1>3. ASSUME NEW t \in Threads, FillDevice(t) PROVE Kept(u)'
  <2>1. CASE u = t
    BY <1>3, <2>1 DEF FillDevice
  <2>2. CASE u # t
    BY <1>3, <2>2, <1>a DEF FillDevice, DeviceSenders
  <2> QED
    BY <2>1, <2>2
<1>4. ASSUME NEW t \in Threads, FillPort(t) PROVE Kept(u)'
  <2>1. u \notin disturbed
    BY <1>4 DEF FillPort
  <2>2. sendTmp'.addr = sendTmp.addr /\ sendTmp'.port = TRUE
    BY <1>4 DEF FillPort
  <2>3. CASE u = t
    <3>1. dest[u] = Server
      BY <1>4, <2>3 DEF FillPort, PlaceInv
    <3> QED
      BY <1>4, <1>a, <2>1, <2>2, <2>3, <3>1 DEF FillPort
  <2>4. CASE u # t
    BY <1>4, <1>a, <2>1, <2>2, <2>4 DEF FillPort
  <2> QED
    BY <2>3, <2>4
<1>5. ASSUME NEW t \in Threads, SendTo(t) PROVE Kept(u)'
  <2>1. CASE u = t
    BY <1>5, <2>1 DEF SendTo
  <2>2. CASE u # t
    BY <1>5, <2>2, <1>a DEF SendTo
  <2> QED
    BY <2>1, <2>2
<1>6. ASSUME NEW p \in Peers, ReceivePacket(p) PROVE Kept(u)'
  <2>1. u \notin disturbed /\ dest[u] \notin Devices /\ dest' = dest /\ sendTmp' = sendTmp
    BY <1>6 DEF ReceivePacket, DeviceSenders
  <2>2. pc'[u] # pc[u] => dest[u] = NoAddr
    BY <1>6, <1>d DEF ReceivePacket, Sending
  <2> QED
    BY <2>1, <2>2, <1>a
<1>7. CASE Classify \/ NoReply
  <2>1. u \notin disturbed /\ dest' = dest /\ sendTmp' = sendTmp /\ sinTmp' = sinTmp
    BY <1>7 DEF Classify, NoReply
  <2>2. pc'[u] # pc[u] => dest[u] = NoAddr
    BY <1>7, <1>d DEF Classify, NoReply, Sending
  <2> QED
    BY <2>1, <2>2, <1>a
<1>8. CASE UNCHANGED vars
  BY <1>8, <1>a DEF vars
<1> QED
  BY <1>1, <1>2, <1>3, <1>4, <1>5, <1>6, <1>7, <1>8 DEF Next

(* A datagram goes astray only when another thread wrote the buffer it is  *)
(* addressed through while it was being sent: without that both            *)
(* sendToRouteServer() and sendToIPAddress() deliver where they are told.  *)
THEOREM AstrayCorrect == Spec => []AstrayOnlyWhenDisturbed
<1>1. Init => AstrayOnlyWhenDisturbed
  BY DEF Init, AstrayOnlyWhenDisturbed
<1>2. TypeOK /\ SendInv /\ AstrayOnlyWhenDisturbed /\ [Next]_vars
        => AstrayOnlyWhenDisturbed'
  <2> SUFFICES ASSUME TypeOK, SendInv, AstrayOnlyWhenDisturbed, [Next]_vars
               PROVE AstrayOnlyWhenDisturbed'
    OBVIOUS
  <2> USE DEF AstrayOnlyWhenDisturbed
  <2>1. ASSUME NEW t \in Threads, SendTo(t) PROVE AstrayOnlyWhenDisturbed'
    <3>1. dest[t] \in Devices \cup {Server}
      BY <2>1 DEF SendTo, SendInv, PlaceInv, Sending, TypeOK, Peers
    <3>2. CASE t \in disturbed
      BY <2>1, <3>2 DEF SendTo
    <3>3. CASE t \notin disturbed
      BY <2>1, <3>1, <3>3, AddressAssumption DEF SendTo, SendInv, BufferInv
    <3> QED
      BY <3>2, <3>3
  <2>2. ASSUME UNCHANGED last PROVE AstrayOnlyWhenDisturbed'
    BY <2>2
  <2> QED
    BY <2>1, <2>2 DEF Next, Clear, FillServer, FillDevice, FillPort, ReceivePacket,
                      Classify, NoReply, vars
<1>3. Spec => []SendInv
  BY PlaceInit, PlaceStep, BufferInit, BufferStep, TypeCorrect, PTL DEF Spec, SendInv
<1> QED
  BY <1>1, <1>2, <1>3, TypeCorrect, PTL DEF Spec

-----------------------------------------------------------------------------
(* receiver() takes a packet for the RouteServer's only when it is: what   *)
(* other threads write over the source address is never the RouteServer's. *)
THEOREM TrustedCorrect == Spec => []TrustedFromServer
<1>1. Init => SourceInv
  BY DEF Init, SourceInv, Threads
<1>2. TypeOK /\ SourceInv /\ [Next]_vars => SourceInv'
  <2> SUFFICES ASSUME TypeOK, SourceInv, [Next]_vars PROVE SourceInv'
    OBVIOUS
  <2>a. "device" \in Threads /\ pc \in [Threads -> Places]
    BY DEF TypeOK, Threads
  <2> USE <2>a DEF SourceInv, Goto
  <2>1. ASSUME NEW t \in Threads, NEW d \in Peers, Clear(t, d) PROVE SourceInv'
    BY <2>1 DEF Clear
  <2>2. ASSUME NEW t \in Threads, FillServer(t) \/ FillPort(t) \/ SendTo(t)
        PROVE SourceInv'
    BY <2>2 DEF FillServer, FillPort, SendTo
  <2>3. ASSUME NEW t \in Threads, FillDevice(t) PROVE SourceInv'
    BY <2>3, AddressAssumption DEF FillDevice
  <2>4. ASSUME NEW p \in Peers, ReceivePacket(p) PROVE SourceInv'
    BY <2>4 DEF ReceivePacket
  <2>5. CASE Classify \/ NoReply
    BY <2>5 DEF Classify, NoReply
  <2>6. CASE UNCHANGED vars
    BY <2>6 DEF vars
  <2> QED
    BY <2>1, <2>2, <2>3, <2>4, <2>5, <2>6 DEF Next
<1>3. SourceInv => TrustedFromServer
  BY DEF SourceInv, TrustedFromServer
<1> QED
  BY <1>1, <1>2, <1>3, TypeCorrect, PTL DEF Spec
=============================================================================
