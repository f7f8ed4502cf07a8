---------------------------- MODULE MCOperators ----------------------------
(***************************************************************************)
(* The kiosk's pure conversions checked against reference definitions,    *)
(* each over a bounded set of inputs that covers its edge cases.           *)
(*                                                                         *)
(* parseMachineStatus, against the documented precedence, over every flag  *)
(* set the server's MachineStatus can hold: all 128 subsets of the seven   *)
(* flags.                                                                  *)
(*                                                                         *)
(* The job panel's percentage: ui_update sets the bar to the job's         *)
(* percentageComplete (LVGL clamps it to the bar's 0..100 range) and the   *)
(* label to snprintf's "%d%%" in an 8-byte buffer.  The percentage is a    *)
(* 32-bit int copied from the server without a range check.  The label is *)
(* read back with a reference definition of decimal text (a sign for      *)
(* negatives, then digits without a leading zero, then '%') and compared  *)
(* with the bar's value.                                                   *)
(*                                                                         *)
(* The dev-mode stats label: snprintf into a 40-byte buffer of two heap    *)
(* figures in KiB and the loop time, each uint32_t.                        *)
(*                                                                         *)
(* The state is one input of one conversion; a step moves to another.     *)
(***************************************************************************)
EXTENDS UiManager, FiniteSets

CONSTANT Inputs     \* percentages the server may report

ASSUME Inputs \subseteq -2147483647..2147483647

\* One input of one of the conversions; a step moves to any other input.
VARIABLE input

Flags == ToSet(StatusFlags)

\* Every percentage from -1 to 110, and the values at the edges of what
\* fits in pctBuf and of a 32-bit int.
MCInputs == {-2147483647, -100000, -99999, 999999, 1000000, 2147483647} \cup -1..110

\* Heap sizes in bytes whose KiB figure has 1, 3, 4 and 7 digits (7 is the
\* most a uint32_t / 1024 has); TLC's integers stop at 2^31 - 1, which has
\* as many KiB digits as 2^32 - 1.
HeapInputs == {0, 1023, 1024, 327680, 1023999, 1024000, 2147483647}

\* Loop times in ms around the 6/7-digit edge, and one with 10 digits, as
\* many as a uint32_t has.
LoopInputs == {0, 5, 999999, 1000000, 2147483647}

Cases ==
    [kind: {"status"}, flags: SUBSET Flags]
    \cup [kind: {"percent"}, pct: Inputs]
    \cup [kind: {"devStats"}, free: HeapInputs, total: HeapInputs, loop: LoopInputs]

Init == input \in Cases
Next == input' \in Cases
Spec == Init /\ [][Next]_input

-----------------------------------------------------------------------------

(***************************************************************************)
(* For every combination of flags the server serialises, the kiosk's       *)
(* classifier picks the most active one in the documented precedence       *)
(* (e.g. "Printing, Paused" is Printing, "Paused, Canceled" is Paused),    *)
(* and an empty string is Unknown.                                         *)
(***************************************************************************)
ClassifierMatchesPrecedence ==
    input.kind = "status" =>
        ParseMachineStatus(SerializeStatus(input.flags)) = MostActiveStatus(input.flags)

DigitValue(c) == CHOOSE i \in 0..9 : DigitChar[i + 1] = c

\* Reference: digits with no leading zero, and their value.
Canonical(d) ==
    /\ d # <<>>
    /\ \A i \in 1..Len(d) : d[i] \in ToSet(DigitChar)
    /\ d[1] = "0" => Len(d) = 1

ValueOf(d) == FoldLeft(LAMBDA acc, c : acc * 10 + DigitValue(c), 0, d)

\* Text t reads as v followed by a percent sign.
ReadsAs(t, v) ==
    /\ Len(t) >= 2 /\ Last(t) = "%"
    /\ LET num == Front(t)
       IN  IF v < 0 THEN num[1] = "-" /\ Canonical(Tail(num)) /\ ValueOf(Tail(num)) = -v
           ELSE Canonical(num) /\ ValueOf(num) = v

(***************************************************************************)
(* The bar and the label of the job panel show the same percentage.        *)
(***************************************************************************)
LabelMatchesBar ==
    input.kind = "percent" => ReadsAs(PercentText(input.pct), BarValue(input.pct))

\* Reference decimal text of v >= 0, digit by digit from its width.
Width(v) ==
    CHOOSE w \in 1..10 : (w = 1 \/ v >= 10 ^ (w - 1)) /\ (w = 10 \/ v < 10 ^ w)

RefDigits(v) == [i \in 1..Width(v) |-> DigitChar[((v \div 10 ^ (Width(v) - i)) % 10) + 1]]

(***************************************************************************)
(* The dev-mode stats label never loses a heap figure, and shows the loop  *)
(* time whole whenever it is under 10^6 ms: buf[40] of ui_update_dev_stats *)
(* holds the longest heap text with a 6-digit loop time, and nothing more. *)
(***************************************************************************)
DevStatsShowsHeap ==
    input.kind = "devStats" =>
        LET t == DevStatsText(input.free, input.total, input.loop)
            heap == HeapLabel \o RefDigits(input.free \div 1024) \o KSlash
                      \o RefDigits(input.total \div 1024) \o LoopLabel
        IN  /\ IsPrefix(heap, t)
            /\ input.loop < 1000000 => t = heap \o RefDigits(input.loop) \o MsLabel
=============================================================================
