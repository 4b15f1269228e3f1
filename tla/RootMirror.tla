----------------------------- MODULE RootMirror -----------------------------
(***************************************************************************)
(* What the bridge promises, without contracts, messages or owners: the     *)
(* mirror on Starknet holds roots that were published on Ethereum, takes     *)
(* each of them at most once, never forgets one, and its latest root is the  *)
(* one it took last.                                                         *)
(***************************************************************************)
CONSTANTS Root, ZeroRoot

VARIABLES
  published,   \* roots the identity manager has had as its latest
  mirrored,    \* roots the mirror has taken
  latest       \* the one it took last, ZeroRoot before the first

vars == <<published, mirrored, latest>>

Init ==
  /\ published \subseteq Root
  /\ mirrored = {}
  /\ latest = ZeroRoot

Publish ==
  /\ published \subseteq published' /\ published' \subseteq Root
  /\ UNCHANGED <<mirrored, latest>>

Mirror ==
  \E r \in published \ mirrored :
    /\ mirrored' = mirrored \cup {r}
    /\ latest' = r
    /\ UNCHANGED published

Next == Publish \/ Mirror

Spec == Init /\ [][Next]_vars
=============================================================================
