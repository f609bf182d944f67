----------------------------- MODULE MCMessaging -----------------------------
(* Two components that share no state.  What one does says nothing about the  *)
(* other, so each behaviour is of one of them, and the other one stands still. *)
EXTENDS Conversations, Assistant, TLC

CONSTANTS c1, c2, h1, h2, g1, g2

VARIABLE part
vars == <<convVars, aiVars, part>>

Init == ConvInit /\ AiInit /\ part \in {"conversations", "assistant"}
Next == /\ \/ part = "conversations" /\ ConvNext /\ UNCHANGED aiVars
           \/ part = "assistant" /\ AiNext /\ UNCHANGED convVars
        /\ UNCHANGED part
Spec == Init /\ [][Next]_vars

Shop(place, offers, active, rating, distance) ==
  [place |-> place, offers |-> offers, active |-> active, rating |-> rating, distance |-> distance]

Towns     == {"Hue", "Vinh"}
Wishes    == {"nails", "hair"}
SomeShops == {Shop("Hue", {"nails"}, TRUE, 5, 3), Shop("Hue", {"hair"}, FALSE, 4, 1),
              Shop("Vinh", {"hair"}, TRUE, 3, 2), Shop("Vinh", {"nails", "hair"}, TRUE, 2, 4),
              Shop("Vinh", {"nails"}, TRUE, 1, 5)}

\* The two searches do not meet, so one wish stands for both; a position matters nearby.
SomeTags ==
  {[kws |-> w, stores |-> w, topRated |-> b, place |-> p, located |-> l] :
      w \in SUBSET Wishes, b \in BOOLEAN, p \in Towns \cup {"none"}, l \in {FALSE}}
  \cup {[kws |-> w, stores |-> w, topRated |-> b, place |-> "near", located |-> l] :
      w \in SUBSET Wishes, b \in BOOLEAN, l \in BOOLEAN}

Alike == Permutations({c1, c2}) \cup Permutations({h1, h2}) \cup Permutations({g1, g2})
=============================================================================
