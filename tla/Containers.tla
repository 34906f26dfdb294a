----------------------------- MODULE Containers -----------------------------
(***************************************************************************)
(* Conversions and collections to outputs they may share.                  *)
(***************************************************************************)
EXTENDS Conversion, Collection

vars == <<run, out, damage, convertVars, collectVars>>

Init == InitPublication /\ InitConversion /\ InitCollection

Next ==
    \/ (\E p \in Converters : Convert(p)) /\ UNCHANGED collectVars
    \/ (\E p \in Collectors : Collect(p)) /\ UNCHANGED convertVars
    \/ DamageImage /\ UNCHANGED collectVars
    \/ DamageCollection /\ UNCHANGED convertVars

Spec == Init /\ [][Next]_vars
=============================================================================
