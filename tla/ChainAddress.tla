---------------------------- MODULE ChainAddress ----------------------------
(***************************************************************************)
(* The arithmetic on local IPv4 addresses that ties a binding to the       *)
(* position it has in the vector binded_chains, and a client to its slot   *)
(* of registred_clients.                                                   *)
(*                                                                         *)
(* The device thread hands out addresses by counting: inc_binded() adds    *)
(* one, with carry, to the four bytes binded_ip.  The tunnel thread goes   *)
(* the other way: it overwrites the subnet bytes of an address with zero,  *)
(* decrements the last BYTE and reads the rest as a vector index.  Bytes   *)
(* have ByteBase values (256 in the code), so that small bases let TLC     *)
(* reach a carry after a few bindings.                                     *)
(***************************************************************************)
EXTENDS Integers

CONSTANTS ByteBase,     \* number of values of a byte: 256 in the code
          ChainsMajor   \* CHAINS_SUBNET_MAJOR, first byte of a chain address

ASSUME ByteBaseAssumption == ByteBase \in Nat \ {0, 1}
ASSUME ChainsMajorAssumption == ChainsMajor \in 0 .. ByteBase - 1

Byte == 0 .. ByteBase - 1
TopByte == ByteBase - 1
Address == [1 .. 4 -> Byte]

(* binded_ip after main() has initialised it. *)
FirstAddress == <<ChainsMajor, 0, 0, 0>>

(* Mutations of inc_binded(): the carry is lost, or the wrap of byte 4.    *)
IncBindedNoCarry(ip) == [ip EXCEPT ![4] = IF @ = TopByte THEN 0 ELSE @ + 1]
IncBindedNoWrap(ip) == [ip EXCEPT ![4] = @ + 1]

(* inc_binded(): a byte moves when every byte to its right is about to     *)
(* wrap; byte 1 wraps silently.                                            *)
IncBinded(ip) ==
  [k \in 1 .. 4 |->
     IF \A m \in 1 .. 4 : m > k => ip[m] = TopByte
     THEN IF ip[k] = TopByte THEN 0 ELSE ip[k] + 1
     ELSE ip[k]]

(* The decrement of byte [3] alone: zero becomes the top byte and nothing  *)
(* is borrowed from the byte to the left.                                  *)
DecByte(b) == IF b = 0 THEN TopByte ELSE b - 1

(* Mutation: the last byte is not decremented.                             *)
ChainIdNotDecremented(dst) == (dst[2] * ByteBase + dst[3]) * ByteBase + dst[4]

(* tunnel_thread_function(): index into binded_chains that a destination   *)
(* address selects, its first byte being zeroed.                           *)
ChainId(dst) == (dst[2] * ByteBase + dst[3]) * ByteBase + DecByte(dst[4])

(* The same for a source address, whose first two bytes are zeroed: the    *)
(* slot of registred_clients.                                              *)
ClientId(src) == src[3] * ByteBase + DecByte(src[4])

-----------------------------------------------------------------------------
(* An address read as a number, first byte most significant: what the      *)
(* theorems and invariants count with.                                     *)
AddressValue(ip) ==
  ((ip[1] * ByteBase + ip[2]) * ByteBase + ip[3]) * ByteBase + ip[4]

LastAddress == [k \in 1 .. 4 |-> TopByte]

(* The last address of the subnet the tunnel thread routes into chains.    *)
LastInSubnet == <<ChainsMajor, TopByte, TopByte, TopByte>>
=============================================================================
