---------------------------- MODULE ReleaseSlot ----------------------------
(* What publishing promises, whoever asks and whatever stops in between:    *)
(* the production slot is claimed by one request at a time, a request key   *)
(* claims it at most once, and what is live changes only when a claim       *)
(* succeeds, to exactly what was offered when the slot was claimed; and a   *)
(* claim succeeds only when its release was built.                          *)
CONSTANTS Keys, Releases, NoRelease, None

VARIABLES
  claim,    \* the key that holds the slot
  offer,    \* the release it will make live
  used,     \* the keys that have claimed it
  built,    \* the keys whose release was built with success
  live      \* the release that is live

vars == <<claim, offer, used, built, live>>

Init == claim = None /\ offer = NoRelease /\ used = {} /\ built = {} /\ live = NoRelease

Claim(key) ==
  /\ claim = None /\ key \notin used
  /\ claim' = key /\ used' = used \cup {key}
  /\ offer' \in Releases
  /\ UNCHANGED <<built, live>>

Build ==
  /\ built \subseteq built'
  /\ UNCHANGED <<claim, offer, used, live>>

Succeed ==
  /\ claim \in built
  /\ live' = offer
  /\ claim' = None /\ offer' = NoRelease
  /\ UNCHANGED <<used, built>>

Fail ==
  /\ claim # None
  /\ claim' = None /\ offer' = NoRelease
  /\ UNCHANGED <<used, built, live>>

Next == (\E key \in Keys : Claim(key)) \/ Build \/ Succeed \/ Fail

Spec == Init /\ [][Next]_vars
============================================================================
