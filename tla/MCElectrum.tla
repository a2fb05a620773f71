----------------------------- MODULE MCElectrum -----------------------------
(* Instances of Electrum: two calls for one batch, or for two, beside a     *)
(* call for something else, and three for one batch.  With them go all      *)
(* scans of wallets of up to six addresses in a series.                     *)
EXTENDS Electrum, WalletScan, TLC

CONSTANTS c1, c2, c3, b1, b2

Asking(i, j, k) == c1 :> i @@ c2 :> j @@ c3 :> k
MCAsks == {Asking(b1, b1, c3), Asking(b1, b2, c3), Asking(b1, b1, b1)}
Used == SUBSET (0..5)
ASSUME AllScansAreExact ==
    \A used \in Used : \A series \in [used -> 0..2], change \in BOOLEAN : ScanIsExact(series, change)
=============================================================================
