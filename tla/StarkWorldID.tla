---------------------------- MODULE StarkWorldID ----------------------------
(***************************************************************************)
(* The Starknet contract StarkWorldID: the storage of its two components,   *)
(* CrossDomainOwnable (which L1 bridge is obeyed) and WorldID (the roots     *)
(* received and when), its three L1 handlers and its views.                  *)
(*                                                                          *)
(* A handler is a transaction of its own: it runs to the end, or panics and  *)
(* changes nothing, so each is one action whose guard is every assert on     *)
(* its way.  from_address is supplied by the Starknet OS.                    *)
(***************************************************************************)
EXTENDS Integers

CONSTANTS
  EthAddress,    \* L1 addresses a message may come from or name
  ZeroAddress,   \* the address 0
  Root,          \* u256 values a root may have
  ZeroRoot,      \* the u256 0: what a slot nobody has written reads as
  ExpiryTime,    \* felt252 values the owner may set as expiry
  ONE_WEEK,      \* the expiry the constructor sets
  TreeDepth,     \* u8 values the constructor may be given
  StartTime,     \* the timestamp of the block that deploys the contract
  MaxTime        \* bound on the clock

\* A live chain's block timestamps are not 0.  The unit tests run at timestamp
\* 0, where a stamped root is indistinguishable from an unknown one.
ASSUME StarkWorldIDAssumption ==
  /\ ZeroAddress \in EthAddress
  /\ ZeroRoot \in Root
  /\ ExpiryTime \subseteq Nat
  /\ ONE_WEEK \in Nat
  /\ TreeDepth \subseteq Nat
  /\ StartTime \in Nat \ {0}
  /\ MaxTime \in Nat

VARIABLES
  l1_owner,             \* CrossDomainOwnable: the L1 bridge that is obeyed
  tree_depth,
  root_history_expiry,
  latest_root,
  root_history,         \* root -> timestamp of its receipt, 0 if never
  now                   \* get_block_timestamp()

worldIdVars == <<tree_depth, root_history_expiry, latest_root, root_history>>
contractVars == <<l1_owner, worldIdVars>>
vars == <<contractVars, now>>

NULL_ROOT_TIME == 0

-----------------------------------------------------------------------------
(* CrossDomainOwnable *)

\* Mutant: the check for the zero caller is left out.
only_cross_domain_owner_zero_unchecked(from_address) == from_address = l1_owner

\* Mutant: any sender but address 0 passes.
only_cross_domain_owner_any(from_address) == from_address # ZeroAddress

only_cross_domain_owner(from_address) ==
  /\ from_address # ZeroAddress
  /\ from_address = l1_owner

transfer_ownership(from_address, new_owner) ==
  /\ new_owner # ZeroAddress
  /\ only_cross_domain_owner(from_address)
  /\ l1_owner' = new_owner

-----------------------------------------------------------------------------
(* WorldID: the internal functions and the views *)

\* Mutant: off by one at the upper end.
validate_off_by_one(depth) == 16 <= depth /\ depth < 34

validate(depth) == 16 <= depth /\ depth <= 32

\* What require_valid_root answers: it returns, or panics with the error named.
require_valid_root(root) ==
  IF root = latest_root THEN "ok"
  ELSE IF root_history[root] = NULL_ROOT_TIME THEN "NON_EXISTENT_ROOT"
  ELSE IF now - root_history[root] <= root_history_expiry THEN "ok"
  ELSE "EXPIRED_ROOT"

\* Mutant: stamps the root being replaced instead of the new one.
_receive_root_stamps_previous(new_root) ==
  /\ root_history[new_root] = NULL_ROOT_TIME
  /\ latest_root' = new_root
  /\ root_history' = [root_history EXCEPT ![latest_root] = now]

\* Mutant: overwrites the stamp of a root it already has.
_receive_root_overwrites(new_root) ==
  /\ latest_root' = new_root
  /\ root_history' = [root_history EXCEPT ![new_root] = now]

\* Mutant: refuses only the root that is the latest now.
_receive_root_refuses_latest_only(new_root) ==
  /\ new_root # latest_root
  /\ latest_root' = new_root
  /\ root_history' = [root_history EXCEPT ![new_root] =
                        IF @ = NULL_ROOT_TIME THEN now ELSE @]

\* Mutant: lets a root in again once it has expired.
_receive_root_readmits_expired(new_root) ==
  /\ require_valid_root(new_root) # "ok"
  /\ latest_root' = new_root
  /\ root_history' = [root_history EXCEPT ![new_root] = now]

\* Mutant: the latest root is set once and never moved on.
_receive_root_keeps_first(new_root) ==
  /\ root_history[new_root] = NULL_ROOT_TIME
  /\ latest_root' = IF latest_root = ZeroRoot THEN new_root ELSE latest_root
  /\ root_history' = [root_history EXCEPT ![new_root] = now]

_receive_root(new_root) ==
  /\ root_history[new_root] = NULL_ROOT_TIME
  /\ latest_root' = new_root
  /\ root_history' = [root_history EXCEPT ![new_root] = now]

\* The view latest_root(): the slot's value, or NO_ROOTS_SEEN when it reads 0.
latest_root_view ==
  IF latest_root = ZeroRoot THEN "NO_ROOTS_SEEN" ELSE latest_root

-----------------------------------------------------------------------------
(* The contract: constructor and L1 handlers *)

\* The constructor accepts any owner, the zero address too.
Init ==
  /\ l1_owner \in EthAddress
  /\ tree_depth \in {d \in TreeDepth : validate(d)}
  /\ root_history_expiry = ONE_WEEK
  /\ latest_root = ZeroRoot
  /\ root_history = [r \in Root |-> NULL_ROOT_TIME]
  /\ now = StartTime

receive_root(from_address, new_root) ==
  /\ only_cross_domain_owner(from_address)
  /\ _receive_root(new_root)
  /\ UNCHANGED <<l1_owner, tree_depth, root_history_expiry, now>>

\* Mutant: the handler does not check its sender.
set_root_history_expiry_unguarded(from_address, expiry_time) ==
  /\ root_history_expiry' = expiry_time
  /\ UNCHANGED <<l1_owner, tree_depth, latest_root, root_history, now>>

set_root_history_expiry(from_address, expiry_time) ==
  /\ only_cross_domain_owner(from_address)
  /\ root_history_expiry' = expiry_time
  /\ UNCHANGED <<l1_owner, tree_depth, latest_root, root_history, now>>

change_l1_state_bridge_address(from_address, new_owner) ==
  /\ only_cross_domain_owner(from_address)
  /\ transfer_ownership(from_address, new_owner)
  /\ UNCHANGED <<worldIdVars, now>>

\* A later block.  Several transactions may share a block and its timestamp.
NextBlock ==
  /\ now < MaxTime
  /\ now' = now + 1
  /\ UNCHANGED contractVars

Next ==
  \/ \E from \in EthAddress, r \in Root : receive_root(from, r)
  \/ \E from \in EthAddress, e \in ExpiryTime : set_root_history_expiry(from, e)
  \/ \E from, owner \in EthAddress : change_l1_state_bridge_address(from, owner)
  \/ NextBlock

Spec == Init /\ [][Next]_vars

-----------------------------------------------------------------------------
(* Properties *)

Received(r) == root_history[r] # NULL_ROOT_TIME
Superseded(r) == Received(r) /\ r # latest_root

TypeOK ==
  /\ l1_owner \in EthAddress
  /\ tree_depth \in 16..32
  /\ root_history_expiry \in ExpiryTime \cup {ONE_WEEK}
  /\ latest_root \in Root
  /\ root_history \in [Root -> Nat]
  /\ now \in Nat /\ now >= StartTime

\* The root that is always accepted is one that was received, no root was
\* received later than it, and no stamp lies in the future: the subtraction in
\* require_valid_root cannot underflow and make it panic.
LatestIsNewest ==
  \/ latest_root = ZeroRoot /\ \A r \in Root : ~Received(r)
  \/ /\ Received(latest_root)
     /\ \A r \in Root : root_history[r] <= root_history[latest_root]
     /\ root_history[latest_root] <= now

\* A stamp, once written, is never changed nor erased: receiving a root again
\* cannot prolong its validity (CANNOT_OVERWRITE_ROOT).
HistoryAppendOnly ==
  [][\A r \in Root : Received(r) => root_history'[r] = root_history[r]]_vars

\* A root that a newer one has replaced never becomes the latest again, so the
\* mirror cannot be moved back to an old identity tree.
SupersededForever ==
  [][\A r \in Root : Superseded(r) => Superseded(r)']_vars

\* An expired root stays expired for as long as the owner does not lengthen
\* the expiry: neither time nor any message revives it.
ExpiredStaysExpired ==
  [][root_history_expiry' <= root_history_expiry =>
       \A r \in Root : require_valid_root(r) = "EXPIRED_ROOT" =>
                          require_valid_root(r)' = "EXPIRED_ROOT"]_vars

\* The owner is zero only if the constructor made it so, and then no message
\* ever changes the contract again.
ZeroOwnerIsFinal ==
  [][/\ l1_owner # ZeroAddress => l1_owner' # ZeroAddress
     /\ l1_owner = ZeroAddress => UNCHANGED contractVars]_vars

\* What the documentation of require_valid_root promises: a root that is not in
\* the history is refused.
OnlyReceivedRootsAreValid ==
  \A r \in Root : require_valid_root(r) = "ok" => Received(r)
=============================================================================
