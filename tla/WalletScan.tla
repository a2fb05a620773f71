----------------------------- MODULE WalletScan -----------------------------
(***************************************************************************)
(* How the used addresses of a wallet are found through a bitcoin service: *)
(* one by one, in the series of receiving and in that of change addresses, *)
(* until a gap of unused ones.  A series is a function from its used       *)
(* addresses to their balances.  The chain stands still meanwhile, and     *)
(* every call is answered.  The constants stand for gaps of 20 and 10.     *)
(***************************************************************************)
EXTENDS Naturals, Functions

CONSTANTS ReceiveGap, ChangeGap

ASSUME GapsAssumption == ReceiveGap \in Nat \ {0} /\ ChangeGap \in Nat \ {0}

MaxEmpty(change) == IF change THEN ChangeGap ELSE ReceiveGap

\* The loop at address i: how many addresses it asks for, and their balance.
RECURSIVE Loop(_, _, _, _, _)
Loop(series, maxEmpty, i, zeroTxAddresses, balance) ==
    IF zeroTxAddresses = maxEmpty THEN [asked |-> i, balance |-> balance]
    ELSE IF i \in DOMAIN series
         THEN Loop(series, maxEmpty, i + 1, 0, balance + series[i])
         ELSE Loop(series, maxEmpty, i + 1, zeroTxAddresses + 1, balance)

Scan(series, change) == Loop(series, MaxEmpty(change), 0, 0, 0)

\* getWalletBalance; the addresses getAddressesForType lists, and those that
\* getSignedAddresses signs for.
WalletBalance(received, change) == Scan(received, FALSE).balance + Scan(change, TRUE).balance
Addresses(series, change) == 0..(Scan(series, change).asked - 1)
Signed(series, change) ==
    {i \in Addresses(series, change) : i \in DOMAIN series /\ series[i] # 0}
-----------------------------------------------------------------------------
\* What is to be found: the used addresses with no gap before them.
Reached(series, change) ==
    {i \in DOMAIN series :
        \A j \in 0..i : j + MaxEmpty(change) <= i =>
            \E k \in DOMAIN series : j <= k /\ k < j + MaxEmpty(change)}

\* The scan counts each used address before the first gap and no other, signs
\* for those of them with a balance, and asks for no address beyond the gap.
ScanIsExact(series, change) ==
    LET found == Reached(series, change)
    IN /\ Scan(series, change).balance = FoldFunctionOnSet(+, 0, series, found)
       /\ Signed(series, change) = {i \in found : series[i] # 0}
       /\ Scan(series, change).asked = MaxEmpty(change)
              + (IF found = {} THEN 0 ELSE 1 + CHOOSE i \in found : \A j \in found : j <= i)
=============================================================================
