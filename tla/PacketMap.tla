------------------------------ MODULE PacketMap ------------------------------
(***************************************************************************)
(* What the bandwidth sampler wants of its connectionStateMap: a map from  *)
(* packet numbers to entries, filled in increasing order.                  *)
(***************************************************************************)
EXTENDS Integers

CONSTANTS PacketNumbers, EntryValues

VARIABLES
    pmap,   \* the entries that are present
    plast   \* the last number inserted since the map was empty, or -1

Without(S) == [ n \in DOMAIN pmap \ S |-> pmap[n] ]
Keep(f) == pmap' = f /\ plast' = IF DOMAIN f = {} THEN -1 ELSE plast

PMInit == pmap = << >> /\ plast = -1

PMInsert(n, v) ==
    /\ n > plast
    /\ pmap' = [ k \in DOMAIN pmap \cup {n} |-> IF k = n THEN v ELSE pmap[k] ]
    /\ plast' = n

PMRemove(n) == n \in DOMAIN pmap /\ Keep(Without({n}))

PMRemoveUpTo(n) == Keep(Without({ k \in DOMAIN pmap : k < n }))

PMNext ==
    \E n \in PacketNumbers :
      \/ \E v \in EntryValues : PMInsert(n, v)
      \/ PMRemove(n) \/ PMRemoveUpTo(n)

PMSpec == PMInit /\ [][PMNext]_<<pmap, plast>>
=============================================================================
