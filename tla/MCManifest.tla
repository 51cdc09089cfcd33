------------------------------ MODULE MCManifest ------------------------------
(* A small instance of Manifest for TLC: a and b differ in the folder of the *)
(* mission file only, so their directory names differ in the index only.     *)
EXTENDS Manifest, TLC

CONSTANTS a, b, c

Stems == a :> "s" @@ b :> "s" @@ c :> "t"
Base == <<a>>
Appended == {<<b, a>>, <<b, a, c>>}
===============================================================================
