--------------------------------- MODULE LRU ---------------------------------
(***************************************************************************)
(* lruTier of internal/platform/auth/cache.go.  The list is kept as the    *)
(* place of each key in it: 1 is the front, the most recently used, and 0  *)
(* means that the key is not there.                                        *)
(***************************************************************************)
EXTENDS Naturals

CONSTANTS
  Key,          \* what entries are filed under
  NoEntry       \* what a key that is not there maps to

EmptyTier ==
  [place |-> [k \in Key |-> 0], entry |-> [k \in Key |-> NoEntry]]

Present(tier, k) == tier.place[k] > 0

\* MoveToFront of a key that is there, PushFront of one that is not: the keys
\* that were ahead of it are one place further back.
FrontPlace(place, k) ==
  [j \in Key |->
     IF j = k THEN 1
     ELSE IF place[j] > 0 /\ (place[k] = 0 \/ place[j] < place[k]) THEN place[j] + 1
     ELSE place[j]]

\* Mutation of Touch: a read does not count as a use.
NoTouch(tier, k) == tier

\* get of a key: a read counts as a use.
Touch(tier, k) ==
  IF Present(tier, k) THEN [tier EXCEPT !.place = FrontPlace(@, k)] ELSE tier

\* remove: the keys behind it come one place forward.
Remove(tier, k) ==
  IF Present(tier, k)
  THEN [place |-> [j \in Key |-> IF j = k THEN 0
                                 ELSE IF tier.place[j] > tier.place[k]
                                      THEN tier.place[j] - 1 ELSE tier.place[j]],
        entry |-> [tier.entry EXCEPT ![k] = NoEntry]]
  ELSE tier

\* evict: whatever is past the capacity goes, the oldest first.
Evict(tier, max) ==
  [place |-> [j \in Key |-> IF tier.place[j] > max THEN 0 ELSE tier.place[j]],
   entry |-> [j \in Key |-> IF tier.place[j] > max THEN NoEntry ELSE tier.entry[j]]]

\* Mutation of Put: the capacity is not kept.
PutAll(tier, k, e, max) ==
  [place |-> FrontPlace(tier.place, k), entry |-> [tier.entry EXCEPT ![k] = e]]

\* set
Put(tier, k, e, max) ==
  Evict([place |-> FrontPlace(tier.place, k), entry |-> [tier.entry EXCEPT ![k] = e]],
        max)
=============================================================================
