------------------------------ MODULE BinIndex ------------------------------
(***************************************************************************)
(* The availability bitmap of talc at the level of machine words          *)
(* (lib.rs 131-157 set_avails and clear_avails, 319-344 next_bin).         *)
(*                                                                         *)
(* Talc.tla keeps the two bitmap words as sets of bit indices and uses one *)
(* constant for both numbers the code splits the bins by.  The code has    *)
(* two: BIN_COUNT and the first test of next_bin use usize::BITS, while    *)
(* set_avails, clear_avails, the high branch of next_bin and               *)
(* scan_for_errors use the literal 64.  Here WORD_BITS is usize::BITS and  *)
(* SPLIT is that literal, and each word is a number below 2^WORD_BITS,     *)
(* changed by XOR with a shifted 1 exactly as the code does it.            *)
(*                                                                         *)
(* usize arithmetic is that of a build without overflow checks: a shift    *)
(* by s >= WORD_BITS shifts by s mod WORD_BITS and a subtraction below     *)
(* zero wraps.  Where a debug build would panic instead (the overflow, or  *)
(* a failed debug_assert!), the history flag debug_panic is set.           *)
(***************************************************************************)
EXTENDS Integers, Bitwise

CONSTANTS
  WORD_BITS,  \* usize::BITS
  SPLIT       \* the literal 64 of set_avails, clear_avails and next_bin

ASSUME WORD_BITS \in Nat \ {0} /\ SPLIT \in Nat \ {0}

NONE == -1

BIN_COUNT == 2 * WORD_BITS          \* usize::BITS as usize * 2 (lib.rs 61)
BinIds == 0 .. BIN_COUNT - 1
Modulus == 2^WORD_BITS

\* a - b on usize, and whether it underflows.
SubW(a, b) == [v |-> (a - b) % Modulus, ovf |-> a < b]

\* 1 << s and x >> s on usize, and whether the shift overflows.
Shl1(s) == [v |-> 2^(s % WORD_BITS), ovf |-> s >= WORD_BITS]
ShrW(x, s) == [v |-> shiftR(x, s % WORD_BITS), ovf |-> s >= WORD_BITS]

\* usize::trailing_zeros of a non-zero word.
RECURSIVE TrailingZeros(_)
TrailingZeros(x) == IF x % 2 = 1 THEN 0 ELSE 1 + TrailingZeros(x \div 2)

\* low and high: availability_low and availability_high.  nonempty: the bins
\* whose list is non-empty, which the bitmap is meant to mirror.
VARIABLES low, high, nonempty, debug_panic

vars == <<low, high, nonempty, debug_panic>>

\* `word ^= bit` after debug_assert!(word & bit == 0) (set) or followed by
\* debug_assert!(word & bit == 0) (clear); d is the shift amount's
\* computation, bit the shifted 1.
Flip(word, d, bit, set) ==
  /\ word' = word ^^ bit.v
  /\ debug_panic' = (debug_panic \/ d.ovf \/ bit.ovf
                     \/ (IF set THEN word & bit.v ELSE (word ^^ bit.v) & bit.v) # 0)

\* set_avails and clear_avails: the bit of bin b, in the low word below 64
\* and in the high word at b - 64 otherwise.
ToggleAvails(b, set) ==
  IF b < SPLIT
  THEN Flip(low, [v |-> b, ovf |-> FALSE], Shl1(b), set) /\ UNCHANGED high
  ELSE Flip(high, SubW(b, SPLIT), Shl1(SubW(b, SPLIT).v), set) /\ UNCHANGED low

SetAvails(b) == ToggleAvails(b, TRUE)

ClearAvails(b) == ToggleAvails(b, FALSE)

Init == low = 0 /\ high = 0 /\ nonempty = {} /\ debug_panic = FALSE

\* Seeded bug: register calls set_avails whether or not the bin was empty.
Register_Always(b) ==
  /\ SetAvails(b)
  /\ nonempty' = nonempty \cup {b}

\* register (161-182) into bin b finds the bin empty and calls set_avails;
\* into a non-empty bin it leaves the bitmap alone, which is no step here.
Register(b) ==
  /\ b \notin nonempty
  /\ SetAvails(b)
  /\ nonempty' = nonempty \cup {b}

\* deregister (186-194) removes bin b's last node and calls clear_avails;
\* removing any other node leaves the bitmap alone.
Deregister(b) ==
  /\ b \in nonempty
  /\ ClearAvails(b)
  /\ nonempty' = nonempty \ {b}

Next == \E b \in BinIds : Register(b) \/ Deregister(b)

Spec == Init /\ [][Next]_vars

\* Seeded bug: the fallback to the high word forgets to add 64.
LowAnswer_NoOffset(bin, s) ==
  IF s # 0 THEN bin + TrailingZeros(s)
  ELSE IF high # 0 THEN TrailingZeros(high)
  ELSE NONE

\* next_bin's answer for the shifted low word s: a set bit of s, else the
\* first bin of the high word, else None.
LowAnswer(bin, s) ==
  IF s # 0 THEN bin + TrailingZeros(s)
  ELSE IF high # 0 THEN TrailingZeros(high) + SPLIT
  ELSE NONE

HighAnswer(bin, s) == IF s # 0 THEN bin + TrailingZeros(s) ELSE NONE

\* next_bin (319-344).
NextBin(bin) ==
  IF bin < WORD_BITS THEN LowAnswer(bin, ShrW(low, bin).v)
  ELSE IF bin < BIN_COUNT THEN HighAnswer(bin, ShrW(high, SubW(bin, SPLIT).v).v)
  ELSE NONE

\* Whether next_bin(bin) overflows in its shift or subtraction.
NextBinOverflows(bin) ==
  WORD_BITS <= bin /\ bin < BIN_COUNT
  /\ (SubW(bin, SPLIT).ovf \/ ShrW(high, SubW(bin, SPLIT).v).ovf)

\* The reference: the least non-empty bin at or above bin, or None.
RefNextBin(bin) ==
  LET above == {x \in nonempty : x >= bin}
  IN  IF above = {} THEN NONE ELSE CHOOSE x \in above : \A y \in above : x <= y

(***************************************************************************)
(* Properties.                                                             *)
(***************************************************************************)

\* get_sufficient_chunk starts its search at next_bin(bin_of_size(..)) and
\* moves on with next_bin(bin + 1): after any sequence of registers and
\* deregisters, next_bin(bin) is the least non-empty bin >= bin, for every
\* bin from 0 to BIN_COUNT.
NextBinFindsLeast == \A bin \in 0 .. BIN_COUNT : NextBin(bin) = RefNextBin(bin)

\* No shift or subtraction in set_avails, clear_avails or next_bin
\* overflows, and no debug_assert! of set_avails or clear_avails fails: a
\* debug build never panics in the bitmap code.
NoDebugPanic == ~debug_panic /\ \A bin \in 0 .. BIN_COUNT : ~NextBinOverflows(bin)

====
