------------------------- MODULE CompositeKeyErrors -------------------------
(***************************************************************************)
(* CompositeKey with a history variable: the set of <<code, category>>     *)
(* pairs of every error a call has returned, where the category is what    *)
(* spec section 7 requires the caller to be able to tell apart: malformed  *)
(* input or misuse, versus an internal gap of this build.                  *)
(***************************************************************************)
EXTENDS CompositeKey

VARIABLE errs

(* The category of an error by its cause: a curve the size tables lack (a *)
(* build gap, cpp 87), an allocation failure or a failure the provider     *)
(* reports is internal; everything else is input.                          *)
Category(cause) ==
  IF cause \in {"unsupported_curve", "alloc", "provider"} THEN "internal" ELSE "input"

ErrInit == Init /\ errs = {}

ErrNext ==
  /\ Next
  /\ errs' = IF last'.code = "SUCCESS" THEN errs
             ELSE errs \cup {<<last'.code, Category(last'.cause)>>}

ErrSpec == ErrInit /\ [][ErrNext]_<<vars, errs>>

(* Spec section 7: the error code a call returns tells a malformed input   *)
(* apart from an internal failure; no code is returned for errors of both  *)
(* categories.  The code throws RNP_ERROR_BAD_PARAMETERS for a length      *)
(* mismatch (cpp 272) and an unknown algorithm (input) as well as for the  *)
(* curve the size tables lack (cpp 87, internal).                          *)
ErrorKindsDistinct ==
  \A e1, e2 \in errs : e1[1] = e2[1] => e1[2] = e2[2]

=============================================================================
