-------------------------------- MODULE MCUnity ---------------------------------
(***************************************************************************)
(* What Unity prints and asserts, on small domains of inputs: one kind of   *)
(* input is tried at a time, the others stay at their first.                *)
(***************************************************************************)
EXTENDS MCUnityPrint, MCUnityPrintFloat, MCUnityNumbers, MCUnityStrings, MCUnityFloats

Init == PrintInit /\ PrintFloatInit /\ NumbersInit /\ StringsInit /\ FloatsInit

Next ==
  \/ /\ PrintFloatInit /\ NumbersInit /\ StringsInit /\ FloatsInit
     /\ PrintNext
     /\ UNCHANGED <<printFloatVars, numbersVars, stringsVars, floatsVars>>
  \/ /\ PrintInit /\ NumbersInit /\ StringsInit /\ FloatsInit
     /\ PrintFloatNext
     /\ UNCHANGED <<printVars, numbersVars, stringsVars, floatsVars>>
  \/ /\ PrintInit /\ PrintFloatInit /\ StringsInit /\ FloatsInit
     /\ NumbersNext
     /\ UNCHANGED <<printVars, printFloatVars, stringsVars, floatsVars>>
  \/ /\ PrintInit /\ PrintFloatInit /\ NumbersInit /\ FloatsInit
     /\ StringsNext
     /\ UNCHANGED <<printVars, printFloatVars, numbersVars, floatsVars>>
  \/ /\ PrintInit /\ PrintFloatInit /\ NumbersInit /\ StringsInit
     /\ FloatsNext
     /\ UNCHANGED <<printVars, printFloatVars, numbersVars, stringsVars>>

Spec == Init /\ [][Next]_<<printVars, printFloatVars, numbersVars, stringsVars, floatsVars>>
================================================================================
