-------------------------------- MODULE Lists --------------------------------
(***************************************************************************)
(* What several screens do with the lists they show.  SequencesExt has     *)
(* these operators too, but a screen is an instance in Console: each would *)
(* bring a copy of SequencesExt, and of all it extends, into the context   *)
(* of every step that is proved about any of them.                         *)
(***************************************************************************)
EXTENDS Integers, Sequences

Elements(list) == {list[i] : i \in DOMAIN list}

\* The list without its i-th element.
TakeOut(list, i) == SubSeq(list, 1, i - 1) \o SubSeq(list, i + 1, Len(list))

\* The list without an element that it has once at most.
Without(list, e) ==
  IF e \in Elements(list) THEN TakeOut(list, CHOOSE i \in DOMAIN list : list[i] = e) ELSE list
=============================================================================
