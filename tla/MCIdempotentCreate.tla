------------------------ MODULE MCIdempotentCreate --------------------------
(***************************************************************************)
(* IdempotentCreate on small instances.  Rows of the two scopes never meet *)
(* (every key holds its scope), so a behaviour is followed in one of them. *)
(***************************************************************************)
EXTENDS IdempotentCreate, TLC

CallSymmetry == Permutations(Calls)

TouchedScopes ==
  {k[1] : k \in {l \in Keys : claim[l].status # "none"}}
    \cup {intents[i][1] : i \in DOMAIN intents}
    \cup {objects[o].key[1] : o \in DOMAIN objects}
    \cup {call[c].key[1] : c \in {d \in Calls : call[d].pc # "idle"}}

OneScope == \E s \in Scopes : TouchedScopes \subseteq {s}
=============================================================================
