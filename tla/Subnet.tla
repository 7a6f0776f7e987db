------------------------------- MODULE Subnet -------------------------------
(***************************************************************************)
(* Which address a client binds its socket to, and whether the two sides   *)
(* of a transfer send past the routing table (udpcli.c main, udpserv.c     *)
(* mydg_echo and the bit arithmetic both have).                            *)
(*                                                                         *)
(* An address is a number of Width bits, 32 in the code; an interface has  *)
(* an address and a network mask.                                          *)
(***************************************************************************)
EXTENDS Integers, Sequences, FiniteSets

CONSTANTS Width, Loopback,
          MaxInterfaces \* bound: interfaces of a host, FD_SETSIZE in the code

ASSUME SubnetAssumption ==
  /\ Width \in Nat \ {0} /\ MaxInterfaces \in Nat
  /\ Loopback \in 0..(2^Width - 1)

Uninitialized == -1

get_bit(n, j) == (n \div 2^(Width - 1 - j)) % 2

\* How many leading bits two addresses share.
getLongest(left, right) ==
  CHOOSE i \in 0..Width :
    /\ \A j \in 0..(i - 1) : get_bit(left, j) = get_bit(right, j)
    /\ i < Width => get_bit(left, i) # get_bit(right, i)

getNetworkMaskNum(mask) == Cardinality({j \in 0..(Width - 1) : get_bit(mask, j) = 1})

\* Mutant: the test on the mask is forgotten.
MutMatch(best, itf, addr) ==
  LET tmpLong == getLongest(itf.address, addr)
  IN IF tmpLong > best.longest
       THEN [longest |-> tmpLong, address |-> itf.address] ELSE best

\* One turn of the loop over interfaceArray.
Match(best, itf, addr) ==
  LET tmpLong == getLongest(itf.address, addr)
  IN IF tmpLong >= getNetworkMaskNum(itf.networkMask) /\ tmpLong > best.longest
       THEN [longest |-> tmpLong, address |-> itf.address] ELSE best

NoMatch == [longest |-> -1, address |-> Uninitialized]

\* The loop over interfaceArray, turn by turn.
MatchLoop(interfaceArray, addr) ==
  LET best[w \in 0..Len(interfaceArray)] ==
        IF w = 0 THEN NoMatch ELSE Match(best[w - 1], interfaceArray[w], addr)
  IN best

\* What the client binds to, the server's address it connects to, and whether
\* SO_DONTROUTE is set.
ClientChoice(interfaceArray, servAddr) ==
  LET best == MatchLoop(interfaceArray, servAddr)[Len(interfaceArray)]
      others == SelectSeq(interfaceArray, LAMBDA itf : itf.address # Loopback)
  IN IF servAddr = Loopback \/ best.longest = Width
       THEN [client |-> Loopback, server |-> Loopback, dontroute |-> FALSE]
     ELSE IF best.longest # -1
       THEN [client |-> best.address, server |-> servAddr, dontroute |-> TRUE]
     ELSE [client |-> IF others = <<>> THEN Uninitialized ELSE Head(others).address,
           server |-> servAddr, dontroute |-> FALSE]

\* Whether the server sets SO_DONTROUTE for a client whose filename came in on
\* connectionAddress: only the interface with that address is looked at.
ServerDontRoute(interfaceArray, connectionAddress, clientIP) ==
  /\ connectionAddress # Loopback
  /\ \E w \in 1..Len(interfaceArray) :
       /\ interfaceArray[w].address = connectionAddress
       /\ Match(NoMatch, interfaceArray[w], clientIP) # NoMatch

-----------------------------------------------------------------------------
(* The hosts, and what a subnet is, without a look at bits. *)

Addresses == 0..(2^Width - 1)
Masks == {2^Width - 2^k : k \in 0..Width}
Interfaces == [address : Addresses, networkMask : Masks]

\* What the array of a host's interfaces may hold.
Hosts == UNION {[1..n -> Interfaces] : n \in 0..MaxInterfaces}

InSubnet(itf, addr) ==
  LET hosts == 2^Width - itf.networkMask
  IN itf.address \div hosts = addr \div hosts
=============================================================================
