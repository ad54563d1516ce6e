----------------------------- MODULE Portfolios -----------------------------
(***************************************************************************)
(* One row of public.portfolios, keyed by (institution, asset), and what   *)
(* each stored procedure does to it.  A procedure is one transaction that  *)
(* takes the row FOR UPDATE, so each is one operator on the row's value.   *)
(* Amounts are naturals: numeric(40,8) is exact decimal arithmetic, and    *)
(* the properties only compare, add and subtract amounts.                  *)
(***************************************************************************)
EXTENDS Integers

\* A row the table's CHECK constraints accept.
PortfolioRow == [balance : Nat, locked : Nat]
RowOK(row) == row \in PortfolioRow /\ row.locked <= row.balance

Greatest(a, b) == IF a >= b THEN a ELSE b
Least(a, b) == IF a <= b THEN a ELSE b

Available(row) == row.balance - row.locked

-----------------------------------------------------------------------------
\* portfolio_lock_balance: refused unless balance - locked covers the amount.
\* (Variant: the check forgets what is already locked.)
CanLockOnBalance(row, amount) == row.balance >= amount
CanLock(row, amount) == Available(row) >= amount

LockRow(row, amount) == [row EXCEPT !.locked = @ + amount]

\* portfolio_release_balance: clamped at zero, and nothing says whose amount
\* it was.
\* (Variants: the whole lock is given back; a release that exceeds the lock is
\* refused instead of clamped; it is not clamped at all.)
ReleaseWholeRow(row, amount) == [row EXCEPT !.locked = 0]
ReleaseRowUnclamped(row, amount) ==
  [row EXCEPT !.locked = IF @ >= amount THEN @ - amount ELSE @]
ReleaseRowNegative(row, amount) == [row EXCEPT !.locked = @ - amount]
ReleaseRow(row, amount) == [row EXCEPT !.locked = Greatest(@ - amount, 0)]

\* portfolio_sync_balance: the balance becomes the custody snapshot's, and the
\* locks shrink to fit.
SyncRow(row, balance) ==
  [balance |-> Greatest(balance, 0),
   locked  |-> Least(row.locked, Greatest(balance, 0))]

-----------------------------------------------------------------------------
\* The legs of persist_completed_settlement.
\* (Variant: the payment leaves the payer's lock in place.)
PayLegKeepingLock(row, amount, lockedAmount) ==
  [row EXCEPT !.balance = @ - amount]

PayLeg(row, amount, lockedAmount) ==
  [balance |-> row.balance - amount,
   locked  |-> Greatest(row.locked - lockedAmount, 0)]

ReceiveLeg(row, amount) ==
  [balance |-> row.balance + amount,
   locked  |-> Least(row.locked, row.balance + amount)]
=============================================================================
