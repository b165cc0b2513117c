------------------------------- MODULE Zeny -------------------------------
(***************************************************************************)
(* The zeny value object (economy/domain/zeny.go): a balance is a uint32   *)
(* that the code keeps converting to int32 and back.  Half stands for      *)
(* 2^31, so int32 holds -Half .. Half-1 and uint32 holds 0 .. 2*Half-1;    *)
(* the arithmetic is the same for every Half, and TLC takes a small one.   *)
(***************************************************************************)
EXTENDS Integers

CONSTANT Half

ASSUME HalfAssumption == Half \in Nat \ {0}

\* Every value the code can leave in the char.zeny column: Credit lets the
\* balance reach 2^31 itself, one past the largest int32.
Balances == 0 .. Half

\* Mutant of Int32: the conversion is forgotten and the uint32 is used as it is.
Int32Unwrapped(u) == u

\* The Go conversion int32(u) of a uint32: values from 2^31 up turn negative.
Int32(u) == IF u < Half THEN u ELSE u - 2 * Half

\* NewZeny succeeds: the stored balance, read as an int32, is not negative.
NewZenyOk(u) == Int32(u) >= 0

\* Mutant of DeductOk: the affordability check is dropped.
DeductUnchecked(u, cost) == cost >= 0

\* (Zeny).Deduct succeeds.
DeductOk(u, cost) == cost >= 0 /\ Int32(u) >= cost

\* (Zeny).Credit succeeds: next > 1<<31 is refused, next = 1<<31 is not.
CreditOk(u, gain) == gain >= 0 /\ u + gain <= Half

\* The validation DeductZenyFor and CreditZenyFor make between loading the row
\* and touching the ledger.
MoveOk(kind, u, amount) ==
    /\ NewZenyOk(u)
    /\ kind = "deduct" => DeductOk(u, amount)
    /\ kind = "credit" => CreditOk(u, amount)

\* The signed amount the movement adds to the balance and logs in the ledger.
Delta(kind, amount) == IF kind = "deduct" THEN -amount ELSE amount

=============================================================================
