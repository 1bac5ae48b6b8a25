---------------------------- MODULE AddressBook ----------------------------
(***************************************************************************)
(* What clients and the rest of the network may rely on about tunnel       *)
(* addresses: an identity, once it has an address, has it for ever, and an *)
(* address, once it belongs to an identity, belongs to nobody else.        *)
(***************************************************************************)
CONSTANTS Clients, Addresses

VARIABLE book       \* the pairs <<identity, address>> ever assigned

Init == book = {}

Assign(c, a) ==
  /\ \A entry \in book : entry[1] # c /\ entry[2] # a
  /\ book' = book \cup {<<c, a>>}

Next == \E c \in Clients, a \in Addresses : Assign(c, a)

Spec == Init /\ [][Next]_book
============================================================================
