------------------------------ MODULE AfsCodec ------------------------------
(***************************************************************************)
(* The two encodings a request may carry in encoding_type: the AONT package *)
(* over the Reed-Solomon code, or Shamir's shares.  The engine calls one or *)
(* the other for a block that is written and for a block that is read.      *)
(***************************************************************************)
EXTENDS AontPackage, Shamir

VARIABLE encoding_type
vars == <<encoding_type, aontVars, shVars>>

Init ==
    /\ encoding_type \in {"SHAMIR", "AONT_RS"}
    /\ AontInit
    /\ ShamirInit

StepShamir ==
    /\ encoding_type = "SHAMIR"
    /\ ShamirNext
    /\ UNCHANGED <<encoding_type, aontVars>>

StepAont ==
    /\ encoding_type = "AONT_RS"
    /\ AontNext
    /\ UNCHANGED <<encoding_type, shVars>>

Next == StepShamir \/ StepAont
Spec == Init /\ [][Next]_vars
=============================================================================
