--------------------------- MODULE ContractAddress ---------------------------
(***************************************************************************)
(* The address ContractManager gives a new contract                        *)
(* (ContractManager::deriveContractAddress, src/src/contract/              *)
(* contractmanager.cpp), and the registry the creation inserts it into.   *)
(* In place of the sender's nonce the code uses contracts.size(), the      *)
(* number of contracts deployed so far, and writes it as                   *)
(*   rlpSize ++ caller ++ nonceByte,                                       *)
(* hashed with sha3; the last 20 bytes are the address.  sha3 is taken as *)
(* injective, so an address is the byte string it is hashed from.          *)
(* The creation itself (createNewContract, in a header not under src/) is *)
(* modelled from spec.md 4.5: derive the address, construct the contract, *)
(* insert it into the registry.                                            *)
(***************************************************************************)
EXTENDS Naturals, FiniteSets

CONSTANTS
  Callers,       \* addresses that deploy contracts
  MaxContracts   \* bound on the number of creations

VARIABLES
  contracts,     \* ContractManager::contracts: the registered addresses
  created        \* number of contracts created so far

vars == <<contracts, created>>

(* Utils::bytesRequired(n): bytes needed to write n big-endian, at least 1 *)
RECURSIVE BytesRequired(_)
BytesRequired(n) == IF n < 256 THEN 1 ELSE 1 + BytesRequired(n \div 256)

(* Plausible-bug variant: the count byte written as 0x80 + bytesRequired  *)
(* for every count, the < 0x80 branch dropped.                            *)
NonceByteNoShortForm(n) == (128 + BytesRequired(n)) % 256

(* The byte written for the count: the count itself below 0x80, else      *)
(* (char)0x80 + bytesRequired -- the length prefix only, the count's own  *)
(* bytes never follow it.                                                  *)
NonceByte(n) == IF n < 128 THEN n ELSE (128 + BytesRequired(n)) % 256

(* uint8_t rlpSize = 0xc0 + caller.size() + 1 (+ bytesRequired) *)
RlpSize(n) ==
  (192 + 20 + (IF n < 128 THEN 1 ELSE 1 + BytesRequired(n))) % 256

(* deriveContractAddress: sha3(rlpSize ++ caller ++ nonceByte)[12..] *)
DeriveContractAddress(caller, n) == <<RlpSize(n), caller, NonceByte(n)>>

(* A creation by `caller`: the address is derived from the current count *)
(* and the new contract inserted under it.                                *)
CreateContract(caller) ==
  /\ created < MaxContracts
  /\ contracts' = contracts \cup {DeriveContractAddress(caller, Cardinality(contracts))}
  /\ created' = created + 1

Init ==
  /\ contracts = {}
  /\ created = 0

Next == \E caller \in Callers : CreateContract(caller)

(* The system may stop once MaxContracts contracts exist. *)
Spec == Init /\ [][Next]_vars

-----------------------------------------------------------------------------
(* Every creation gets an address no contract already has (spec.md 4.5:   *)
(* the address comes from the sender and its nonce, which never repeats): *)
(* as many addresses are registered as contracts were created.            *)
EveryContractHasItsOwnAddress ==
  Cardinality(contracts) = created
=============================================================================
