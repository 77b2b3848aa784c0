--------------------------- MODULE PropertyLibrary ---------------------------
(***************************************************************************)
(* Property objects as clients mirror them, and the values that properties *)
(* and signals have as they are converted.  The two share no state: a      *)
(* behaviour follows one of them and the other stands still.               *)
(***************************************************************************)
EXTENDS SampleValues, MCPropertyMirror

VARIABLE part

FirstObject == CHOOSE o \in Objects_ : TRUE

Init ==
  /\ part \in {"properties", "convert"}
  /\ PropertyMirrorInit /\ (part = "convert" => object = FirstObject /\ ~frozen)
  /\ IF part = "convert" THEN ConvertInit
     ELSE /\ sample = <<Nil, "">> /\ how = "base" /\ direct = FALSE
          /\ sent = {} /\ got = {} /\ stage = "write"

Next ==
  /\ UNCHANGED part
  /\ \/ part = "properties" /\ PropertyMirrorNext /\ UNCHANGED convertVars
     \/ part = "convert" /\ ConvertNext /\ UNCHANGED mirrorVars

Spec == Init /\ [][Next]_<<mirrorVars, convertVars, part>>

-----------------------------------------------------------------------------
\* A value that is carried over arrives, or is refused where its target has no
\* room for it.
SamplesArrive == WrittenIsRead /\ IntegerThatFitsArrives /\ SelectionArrives
=============================================================================
