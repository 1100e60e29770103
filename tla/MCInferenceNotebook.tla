-------------------------- MODULE MCInferenceNotebook --------------------------
(***************************************************************************)
(* A pilot and a candidate bundle; the preset that stores inference and        *)
(* reviews it, and a custom one for candidates offline with portable review.    *)
(***************************************************************************)
EXTENDS InferenceNotebook

CONSTANTS pilot, candidate

Preset(experimental, persist, review) ==
    [experimental |-> experimental, persist |-> persist, review |-> review]
MCConfigs == {Preset(FALSE, TRUE, TRUE), Preset(TRUE, FALSE, TRUE)}
=============================================================================
