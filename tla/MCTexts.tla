------------------------------- MODULE MCTexts -------------------------------
(***************************************************************************)
(* What is read and what is written: the documents of MCJsonReaders, and   *)
(* beside the empty one the texts of MCRendering, which have nothing to do *)
(* with it.                                                                *)
(***************************************************************************)
EXTENDS MCJsonReaders, MCRendering

textVars == <<subject, drawn>>

MCInit == Init /\ RenderingInit
MCNext ==
  \/ Next /\ UNCHANGED textVars
  \/ reader = "config" /\ doc = << >> /\ outcome = "ok" /\ Draw /\ UNCHANGED vars

MCSpec == MCInit /\ [][MCNext]_<<vars, textVars>>
==============================================================================
