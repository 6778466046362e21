------------------------- MODULE ChainAddress_proofs -------------------------
EXTENDS ChainAddress, TLAPS

USE DEF Byte, TopByte, Address

LEMMA FirstIsAddress == FirstAddress \in Address
BY ByteBaseAssumption, ChainsMajorAssumption DEF FirstAddress

LEMMA IncIsAddress ==
  ASSUME NEW ip \in Address
  PROVE  IncBinded(ip) \in Address
BY ByteBaseAssumption DEF IncBinded

LEMMA ValueIsNat ==
  ASSUME NEW ip \in Address
  PROVE  AddressValue(ip) \in Nat
BY ByteBaseAssumption DEF AddressValue

LEMMA IncAddsOne ==
  ASSUME NEW ip \in Address, ip # LastAddress
  PROVE  AddressValue(IncBinded(ip)) = AddressValue(ip) + 1
<1> DEFINE B == ByteBase
           next == IncBinded(ip)
<1>1. B \in Nat /\ ip[1] \in Int /\ ip[2] \in Int /\ ip[3] \in Int /\ ip[4] \in Int
  BY ByteBaseAssumption
<1>2. CASE ip[4] # TopByte
  <2>1. /\ next[1] = ip[1] /\ next[2] = ip[2] 
        /\ next[3] = ip[3] /\ next[4] = ip[4] + 1
    BY <1>2 DEF IncBinded
  <2> QED BY <2>1, <1>1 DEF AddressValue
<1>3. CASE ip[4] = TopByte /\ ip[3] # TopByte
  <2>1. /\ next[1] = ip[1] /\ next[2] = ip[2] 
        /\ next[3] = ip[3] + 1 /\ next[4] = 0
    BY <1>3 DEF IncBinded
  <2> QED BY <2>1, <1>1, <1>3 DEF AddressValue
<1>4. CASE ip[4] = TopByte /\ ip[3] = TopByte /\ ip[2] # TopByte
  <2>1. /\ next[1] = ip[1] /\ next[2] = ip[2] + 1 
        /\ next[3] = 0 /\ next[4] = 0
    BY <1>4 DEF IncBinded
  <2> QED BY <2>1, <1>1, <1>4 DEF AddressValue
<1>5. CASE ip[4] = TopByte /\ ip[3] = TopByte /\ ip[2] = TopByte
  <2>1. ip[1] # TopByte
    BY <1>5 DEF LastAddress
  <2>2. /\ next[1] = ip[1] + 1 /\ next[2] = 0 
        /\ next[3] = 0 /\ next[4] = 0
    BY <1>5, <2>1 DEF IncBinded
  <2> QED BY <2>2, <1>1, <1>5 DEF AddressValue
<1> QED BY <1>2, <1>3, <1>4, <1>5

(* Multiplication by a base keeps the order of two leading digits, with    *)
(* room for one digit below.                                               *)
LEMMA ScaleLess ==
  ASSUME NEW b \in Nat, NEW x \in Int, NEW y \in Int, NEW r \in 0 .. b - 1, x < y
  PROVE  x * b + r < y * b
<1>1. (x + 1) * b <= y * b
  OBVIOUS
<1> QED BY <1>1

LEMMA FirstByteFixed ==
  ASSUME NEW ip \in Address,
         AddressValue(FirstAddress) <= AddressValue(ip),
         AddressValue(ip) <= AddressValue(LastInSubnet)
  PROVE  ip[1] = ChainsMajor
<1> DEFINE B == ByteBase
           M == ChainsMajor
<1>1. /\ B \in Nat /\ M \in Int
      /\ \A k \in 1 .. 4 : ip[k] \in 0 .. B - 1
  BY ByteBaseAssumption, ChainsMajorAssumption
<1>2. ASSUME ip[1] < M PROVE FALSE
  <2>1. ip[1] * B + ip[2] < M * B
    BY <1>1, <1>2, ScaleLess
  <2>2. (ip[1] * B + ip[2]) * B + ip[3] < (M * B) * B
    BY <1>1, <2>1, ScaleLess
  <2>3. ((ip[1] * B + ip[2]) * B + ip[3]) * B + ip[4] < ((M * B) * B) * B
    BY <1>1, <2>2, ScaleLess
  <2> QED BY <2>3, <1>1 DEF AddressValue, FirstAddress
<1>3. ASSUME M < ip[1] PROVE FALSE
  <2>1. M * B + (B - 1) < ip[1] * B + ip[2]
    BY <1>1, <1>3, ScaleLess, ByteBaseAssumption
  <2>2. (M * B + (B - 1)) * B + (B - 1) < (ip[1] * B + ip[2]) * B + ip[3]
    BY <1>1, <2>1, ScaleLess, ByteBaseAssumption
  <2>3. ((M * B + (B - 1)) * B + (B - 1)) * B + (B - 1)
          < ((ip[1] * B + ip[2]) * B + ip[3]) * B + ip[4]
    BY <1>1, <2>2, ScaleLess, ByteBaseAssumption
  <2> QED BY <2>3, <1>1 DEF AddressValue, LastInSubnet
<1> QED BY <1>1, <1>2, <1>3

(* What the tunnel thread's index arithmetic computes for an address of    *)
(* the chain subnet: its distance from the first address, less one, except *)
(* that an address ending in a zero byte lands a whole byte range too far. *)
LEMMA ChainIdValue ==
  ASSUME NEW ip \in Address, ip[1] = ChainsMajor
  PROVE  ChainId(ip) = AddressValue(ip) - AddressValue(FirstAddress) - 1
                         + (IF ip[4] = 0 THEN ByteBase ELSE 0)
<1>1. /\ ByteBase \in Nat /\ ChainsMajor \in Int
      /\ ip[2] \in Int /\ ip[3] \in Int /\ ip[4] \in Int
  BY ByteBaseAssumption, ChainsMajorAssumption
<1>2. CASE ip[4] = 0
  BY <1>1, <1>2 DEF ChainId, DecByte, AddressValue, FirstAddress
<1>3. CASE ip[4] # 0
  BY <1>1, <1>3 DEF ChainId, DecByte, AddressValue, FirstAddress
<1> QED BY <1>2, <1>3
=============================================================================
