----------------------------- MODULE MCStorage -----------------------------
(***************************************************************************)
(* Small instances of Storage for TLC: keys of two characters.             *)
(***************************************************************************)
EXTENDS Storage

CONSTANTS a, b, t1, t2

\* The keys a fresh UUID may give this device.
MCOwnKey == {<<a, a>>}
\* A key cut short and two whole ones.
MCTyped == {<<a>>, <<b, a>>, <<b, b>>}

\* Transfers are interchangeable.
MCSymmetry == Permutations({t1, t2})
=============================================================================
