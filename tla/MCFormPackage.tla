---------------------------- MODULE MCFormPackage ----------------------------
(* FormPackage on small packages.                                          *)
EXTENDS FormPackage

Op(op, open, prompt, store) ==
  [op |-> op, open |-> open, prompt |-> prompt, store |-> store]

(* Two questions with known prompts, one of them a scope of its own, a     *)
(* store, a scope that is not a form, and a form set.                      *)
MCOpcodes ==
  {Op("FormSet", TRUE, 0, 0), Op("Suppress", TRUE, 0, 0),
   Op("VarStore", FALSE, 0, 1), Op("Numeric", FALSE, 1, 1),
   Op("OneOf", TRUE, 2, 1), Op("End", FALSE, 0, 0)}

(* The first string package lacks the second string.                       *)
MCStrings == <<[i \in {1} |-> "one"], [i \in {1, 2} |-> IF i = 1 THEN "uno" ELSE "two"]>>

=============================================================================
