------------------------------- MODULE Packetizer -------------------------------
(***************************************************************************)
(* Packets over the network on chip (noc/simulation/packetizer): at each   *)
(* source a DePacketizer cuts a packet into flits, at the destination a    *)
(* Packetizer joins the flits of every source again.  The network in       *)
(* between keeps the order of a source's flits and interleaves those of    *)
(* different sources (NocSimulator, DeliveredInOrder).                     *)
(***************************************************************************)
EXTENDS Naturals, Sequences

CONSTANTS
  Sources,                    \* source indices, numbers as in the code
  Sizes,                      \* bit counts of the packets sent
  flit_payload_bit_count, source_index_bit_count, max_packet_bit_count,
  max_outstanding_packets,
  MaxPackets,                 \* bound: the packets a source sends
  None

Stores == 0..max_outstanding_packets - 1

VARIABLES
  sent,                       \* history: the bit counts of the packets each source sent
  bits_left_to_send,          \* of each source's DePacketizer
  network,                    \* the flits of each source on their way
  partial_packets,            \* the bits received so far, by store
  partial_packet_index_map,   \* the store of each source, or None
  received_packets,           \* [source, data]
  status

vars ==
  <<sent, bits_left_to_send, network, partial_packets, partial_packet_index_map,
    received_packets, status>>

(***************************************************************************)
(* The bits of the nth packet of a source, each one different.             *)
(***************************************************************************)
PacketBits(s, n) == [b \in 1..sent[s][n] |-> <<s, n, b>>]

Init ==
  /\ sent = [s \in Sources |-> <<>>]
  /\ bits_left_to_send = [s \in Sources |-> 0]
  /\ network = [s \in Sources |-> <<>>]
  /\ partial_packets = [i \in Stores |-> <<>>]
  /\ partial_packet_index_map = [s \in Sources |-> None]
  /\ received_packets = <<>>
  /\ status = "Ok"

AcceptNewPacket(s, bit_count) ==
  /\ bits_left_to_send[s] = 0 /\ Len(sent[s]) < MaxPackets
  /\ sent' = [sent EXCEPT ![s] = Append(@, bit_count)]
  /\ bits_left_to_send' = [bits_left_to_send EXCEPT ![s] = bit_count]
  /\ UNCHANGED <<network, partial_packets, partial_packet_index_map, received_packets, status>>

GetReservedFlitPayloadBitCount ==
  IF flit_payload_bit_count >= max_packet_bit_count THEN 0 ELSE source_index_bit_count

(***************************************************************************)
(* Least significant bits first; the last flit of a packet is its tail,    *)
(* also when it is the only one.                                           *)
(***************************************************************************)
ComputeNextFlit(s) ==
  LET left == bits_left_to_send[s]
      max_bits_to_send == flit_payload_bit_count - GetReservedFlitPayloadBitCount
      n == Len(sent[s])
      bits_already_sent == sent[s][n] - left
      count == IF left <= max_bits_to_send THEN left ELSE max_bits_to_send
      type == IF left <= max_bits_to_send THEN "kTail"
              ELSE IF bits_already_sent = 0 THEN "kHead" ELSE "kBody"
      data == SubSeq(PacketBits(s, n), bits_already_sent + 1, bits_already_sent + count)
  IN  /\ left # 0
      /\ bits_left_to_send' = [bits_left_to_send EXCEPT ![s] = left - count]
      /\ network' = [network EXCEPT ![s] = Append(@, [type |-> type, data |-> data])]
      /\ UNCHANGED <<sent, partial_packets, partial_packet_index_map, received_packets, status>>

FreeStores == {i \in Stores : partial_packets[i] = <<>>}

(***************************************************************************)
(* The entry erased is the one whose key is the index of the store.        *)
(***************************************************************************)
DeallocatePartialPacketStore(map, i) ==
  [s \in Sources |-> IF s = i THEN None ELSE map[s]]

AcceptNewFlit(s) ==
  /\ status = "Ok" /\ network[s] # <<>>
  /\ network' = [network EXCEPT ![s] = Tail(@)]
  /\ \/ /\ partial_packet_index_map[s] = None /\ FreeStores = {}
        /\ status' = "InternalError"
        /\ UNCHANGED <<partial_packets, partial_packet_index_map, received_packets>>
     \/ \E i \in Stores :
          /\ \/ i = partial_packet_index_map[s]
             \/ /\ partial_packet_index_map[s] = None
                /\ i \in FreeStores /\ \A j \in FreeStores : i <= j
          /\ LET flit == Head(network[s])
                 data == partial_packets[i] \o flit.data
                 map == [partial_packet_index_map EXCEPT ![s] = i]
             IN  IF flit.type = "kTail"
                 THEN /\ partial_packets' = [partial_packets EXCEPT ![i] = <<>>]
                      /\ partial_packet_index_map' = DeallocatePartialPacketStore(map, i)
                      /\ received_packets' =
                           Append(received_packets, [source |-> s, data |-> data])
                 ELSE /\ partial_packets' = [partial_packets EXCEPT ![i] = data]
                      /\ partial_packet_index_map' = map
                      /\ UNCHANGED received_packets
          /\ UNCHANGED status
  /\ UNCHANGED <<sent, bits_left_to_send>>

Next ==
  \E s \in Sources :
    \/ \E n \in Sizes : AcceptNewPacket(s, n)
    \/ ComputeNextFlit(s)
    \/ AcceptNewFlit(s)

Spec == Init /\ [][Next]_vars

--------------------------------------------------------------------------------
(***************************************************************************)
(* What the comment on partial_packet_index_map_ promises: the flits of a  *)
(* source are collected in a store of its own, so that the packets         *)
(* received from a source are the packets it sent, one by one.             *)
(***************************************************************************)
PacketsIntact ==
  \A s \in Sources :
    LET FromS(p) == p.source = s
        got == SelectSeq(received_packets, FromS)
    IN  \A n \in DOMAIN got : n <= Len(sent[s]) /\ got[n].data = PacketBits(s, n)

================================================================================
