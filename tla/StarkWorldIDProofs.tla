------------------------- MODULE StarkWorldIDProofs -------------------------
(* Theorems about StarkWorldID, for every set of addresses, roots, expiries    *)
(* and depths, and for every bound on the clock.                               *)
EXTENDS StarkWorldID, TLAPS

(* The inductive invariant: the type invariant, which makes the stamps numbers, *)
(* and the order of the stamps.                                                *)
IInv == TypeOK /\ LatestIsNewest

\* The constructor's state satisfies the inductive invariant.
LEMMA InitIInv == Init => IInv
  BY StarkWorldIDAssumption
     DEF Init, IInv, TypeOK, LatestIsNewest, Received, NULL_ROOT_TIME, validate

\* A root that is received was unknown, so it takes no other root's stamp; its
\* own stamp is the block's.
LEMMA ReceiveRootIInv ==
  ASSUME IInv, NEW from \in EthAddress, NEW r \in Root, receive_root(from, r)
  PROVE  IInv'
<1>1. TypeOK'
  BY StarkWorldIDAssumption DEF IInv, TypeOK, receive_root, _receive_root
<1>2. root_history' = [root_history EXCEPT ![r] = now] /\ latest_root' = r /\ now' = now
  BY DEF receive_root, _receive_root
<1>3. \A s \in Root : root_history[s] <= now
  BY DEF IInv, TypeOK, LatestIsNewest, Received, NULL_ROOT_TIME
<1>4. root_history'[r] = now /\ now # 0 /\ now \in Nat
  BY <1>2, StarkWorldIDAssumption DEF IInv, TypeOK
<1>5. \A s \in Root : root_history'[s] <= root_history'[latest_root']
  BY <1>2, <1>3, <1>4 DEF IInv, TypeOK
<1>6. LatestIsNewest'
  BY <1>2, <1>4, <1>5 DEF LatestIsNewest, Received, NULL_ROOT_TIME
<1>. QED  BY <1>1, <1>6 DEF IInv

\* Every step of the contract, and every new block, keeps the invariant.
LEMMA NextIInv == IInv /\ [Next]_vars => IInv'
<1>. SUFFICES ASSUME IInv, [Next]_vars PROVE IInv'
  OBVIOUS
<1>1. ASSUME NEW from \in EthAddress, NEW r \in Root, receive_root(from, r)
      PROVE  IInv'
  BY <1>1, ReceiveRootIInv
<1>2. ASSUME NEW from \in EthAddress, NEW e \in ExpiryTime,
             set_root_history_expiry(from, e)
      PROVE  IInv'
  BY <1>2 DEF IInv, TypeOK, LatestIsNewest, Received, set_root_history_expiry
<1>3. ASSUME NEW from \in EthAddress, NEW owner \in EthAddress,
             change_l1_state_bridge_address(from, owner)
      PROVE  IInv'
  BY <1>3 DEF IInv, TypeOK, LatestIsNewest, Received,
              change_l1_state_bridge_address, transfer_ownership, worldIdVars
<1>4. ASSUME NextBlock PROVE IInv'
  BY <1>4, StarkWorldIDAssumption
     DEF IInv, TypeOK, LatestIsNewest, Received, NextBlock, contractVars, worldIdVars
<1>5. CASE UNCHANGED vars
  BY <1>5 DEF IInv, TypeOK, LatestIsNewest, Received, vars, contractVars, worldIdVars
<1>. QED  BY <1>1, <1>2, <1>3, <1>4, <1>5 DEF Next

\* The contract's storage keeps its types and the deployed depth is supported.
THEOREM TypeCorrect == Spec => []TypeOK
<1>. IInv => TypeOK  BY DEF IInv
<1>. QED  BY InitIInv, NextIInv, PTL DEF Spec

\* The latest root is always one that was received, the newest one, and no stamp
\* lies in the future.
THEOREM LatestIsNewestCorrect == Spec => []LatestIsNewest
<1>. IInv => LatestIsNewest  BY DEF IInv
<1>. QED  BY InitIInv, NextIInv, PTL DEF Spec

(* What one step does to the stamp of a root that has one. *)
LEMMA StampKept ==
  ASSUME IInv, [Next]_vars, NEW r \in Root, Received(r)
  PROVE  /\ root_history'[r] = root_history[r]
         /\ latest_root' # latest_root => latest_root' # r
<1>1. ASSUME NEW from \in EthAddress, NEW s \in Root, receive_root(from, s)
      PROVE  /\ root_history'[r] = root_history[r]
             /\ latest_root' # latest_root => latest_root' # r
  BY <1>1 DEF IInv, TypeOK, Received, receive_root, _receive_root
<1>2. ASSUME UNCHANGED worldIdVars \/ UNCHANGED <<latest_root, root_history>>
      PROVE  /\ root_history'[r] = root_history[r]
             /\ latest_root' # latest_root => latest_root' # r
  BY <1>2 DEF worldIdVars
<1>. QED
  BY <1>1, <1>2 DEF Next, NextBlock, set_root_history_expiry, vars, contractVars,
                    change_l1_state_bridge_address, worldIdVars

\* No stamp is ever rewritten or erased.
THEOREM HistoryAppendOnlyCorrect == Spec => HistoryAppendOnly
<1>1. IInv /\ [Next]_vars
        => [\A r \in Root : Received(r) => root_history'[r] = root_history[r]]_vars
  BY StampKept
<1>. QED  BY <1>1, InitIInv, NextIInv, PTL DEF Spec, HistoryAppendOnly

\* A superseded root never becomes the latest again.
THEOREM SupersededForeverCorrect == Spec => SupersededForever
<1>1. IInv /\ [Next]_vars
        => [\A r \in Root : Superseded(r) => Superseded(r)']_vars
  <2>. SUFFICES ASSUME IInv, [Next]_vars, NEW r \in Root, Superseded(r)
                PROVE  Superseded(r)'
    OBVIOUS
  <2>1. root_history'[r] = root_history[r] /\ (latest_root' # latest_root => latest_root' # r)
    BY StampKept DEF Superseded
  <2>. QED  BY <2>1 DEF Superseded, Received
<1>. QED  BY <1>1, InitIInv, NextIInv, PTL DEF Spec, SupersededForever

\* The clock never runs backwards.
LEMMA ClockMonotone == IInv /\ [Next]_vars => now' >= now
  BY DEF IInv, TypeOK, Next, NextBlock, receive_root, set_root_history_expiry,
         change_l1_state_bridge_address, vars

\* Only the owner lengthening the expiry can make an expired root valid again.
THEOREM ExpiredStaysExpiredCorrect == Spec => ExpiredStaysExpired
<1>1. IInv /\ [Next]_vars
        => [root_history_expiry' <= root_history_expiry =>
              \A r \in Root : require_valid_root(r) = "EXPIRED_ROOT" =>
                                 require_valid_root(r)' = "EXPIRED_ROOT"]_vars
  <2>. SUFFICES ASSUME IInv, [Next]_vars, root_history_expiry' <= root_history_expiry,
                       NEW r \in Root, require_valid_root(r) = "EXPIRED_ROOT"
                PROVE  require_valid_root(r)' = "EXPIRED_ROOT"
    OBVIOUS
  <2>1. /\ r # latest_root /\ Received(r)
        /\ ~(now - root_history[r] <= root_history_expiry)
    BY DEF require_valid_root, Received
  <2>2. r # latest_root' /\ root_history'[r] = root_history[r] /\ now' >= now
    BY <2>1, StampKept, ClockMonotone
  <2>3. /\ now \in Nat /\ now' \in Nat /\ root_history[r] \in Nat
        /\ root_history_expiry \in Nat /\ root_history_expiry' \in Nat
    BY NextIInv, StarkWorldIDAssumption DEF IInv, TypeOK
  <2>4. ~(now' - root_history'[r] <= root_history_expiry')
    BY <2>1, <2>2, <2>3
  <2>. QED  BY <2>1, <2>2, <2>4 DEF require_valid_root, Received
<1>. QED  BY <1>1, InitIInv, NextIInv, PTL DEF Spec, ExpiredStaysExpired

\* A contract deployed with owner zero never changes; any other never gets there.
THEOREM ZeroOwnerIsFinalCorrect == Spec => ZeroOwnerIsFinal
<1>1. [Next]_vars
        => [/\ l1_owner # ZeroAddress => l1_owner' # ZeroAddress
            /\ l1_owner = ZeroAddress => UNCHANGED contractVars]_vars
  BY DEF Next, receive_root, set_root_history_expiry, change_l1_state_bridge_address,
         transfer_ownership, only_cross_domain_owner, NextBlock, vars, contractVars
<1>. QED  BY <1>1, PTL DEF Spec, ZeroOwnerIsFinal
=============================================================================
