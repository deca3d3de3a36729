----------------------------- MODULE MCOracleRuns -----------------------------
(***************************************************************************)
(* The instance TLC checks OracleRuns on.  The values proposed are only    *)
(* compared for equality, so they are interchangeable.                     *)
(***************************************************************************)
EXTENDS OracleRuns, TLC

\* Other owners propose for the first deployment.
MCOthersCalls == [{1} -> Values]

MCSymmetry == Permutations(Values)
=============================================================================
