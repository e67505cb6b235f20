----------------------------- MODULE MCCatalog -----------------------------
(***************************************************************************)
(* An instance of Catalog for TLC.                                         *)
(***************************************************************************)
EXTENDS Catalog, TLC

\* Whether anything of an area has ever been touched.
Touched(area) ==
    \/ area \in raced
    \/ \E r \in Request : memory[r].area = area
    \/ CASE area = "currencies" -> plan # [p \in Plan |-> {}] \/ There(Currency) # Standard \cap Currency
                                   \/ \E d \in Currency \cap Standard : ~entry[d].on \/ ~entry[d].default
         [] area = "providers"  -> \E d \in Gateway \cup Mailer :
                                      entry[d] # [there |-> d \in Standard, on |-> d \in Standard,
                                                  default |-> d \in Standard]
         [] area = "themes"     -> \/ theme \notin Standard
                                   \/ \E o \in Override : override[o] # NoOverride
                                   \/ \E d \in Theme : entry[d] # [there |-> d \in Standard,
                                          on |-> d \in Standard, default |-> d \in Standard]
         [] area = "image"      -> image # {}
         [] OTHER               -> open.public \/ open.guests

Symmetry == Permutations(Request) \cup Permutations(Override) \cup Permutations(Date)

\* The areas share nothing but the requests: one at a time shows as much as their product.
Apart == \E area \in Areas : \A other \in Areas \ {area} : ~Touched(other)

\* After a race nothing is claimed of the uses of a theme, and the default does not depend on them.
Claimed == "themes" \in raced => override = [o \in Override |-> NoOverride]

Interesting == Apart /\ Claimed
=============================================================================
