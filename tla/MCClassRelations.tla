-------------------------- MODULE MCClassRelations --------------------------
(* Object, Cloneable (which also stands for Serializable: the code treats  *)
(* them alike) and up to three more classes or interfaces, in every        *)
(* hierarchy they can form.                                                *)
EXTENDS ClassRelations
=============================================================================
