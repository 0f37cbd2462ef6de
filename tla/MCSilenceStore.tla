---------------------------- MODULE MCSilenceStore ----------------------------
EXTENDS SilenceStore, TLC

CONSTANTS n1, n2, padded

MCNames == {n1, n2}
\* padded is n1 with outer blanks; Blank stands for itself and for "  ".
MCRaw == {n1, n2, padded, Blank}
MCNormalize == n1 :> n1 @@ n2 :> n2 @@ padded :> n1 @@ Blank :> Blank
=============================================================================
