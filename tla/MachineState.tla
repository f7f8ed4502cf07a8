--------------------------- MODULE MachineState ---------------------------
(***************************************************************************)
(* The data model of the OD-1 kiosk (machine_state.h): the MachineStatus   *)
(* enumeration, the PrintJobState and MachineState structs with their      *)
(* default member initialisers, the status-string classifier and the       *)
(* display-label mapping.                                                  *)
(*                                                                         *)
(* Strings.  A wire string that the code only copies (a nickname, a job    *)
(* name, a duration) is a TLA+ string drawn from a small constant set; an  *)
(* absent or JSON-null value is the model value Null, and the Arduino      *)
(* String the code stores for it is "".  A status string is the .NET       *)
(* [Flags] serialisation, the flag names joined by ", "; it is a sequence  *)
(* of tokens (flag names and the separator).  No flag name contains        *)
(* another as a substring and the separator contains no letter, so         *)
(* strstr(s, kw) finds kw exactly when kw is one of the tokens of s.       *)
(***************************************************************************)
EXTENDS Integers, Sequences, SequencesExt

CONSTANT Null      \* a JSON value that is absent or null (a NULL const char*)

\* enum class MachineStatus (machine_state.h:10-19)
MachineStatus ==
    {"Unknown", "Disconnected", "Connecting", "Idle",
     "Printing", "Printed", "Paused", "Canceled"}

\* The flags of the server's MachineStatus [Flags] enum that the kiosk
\* mirrors, in declaration order (every member but Unknown).
StatusFlags ==
    <<"Disconnected", "Connecting", "Idle", "Printing", "Printed",
      "Paused", "Canceled">>

\* JsonStringEnumConverter writes a flag set as its names joined by ", ".
Separator == ", "

SerializeStatus(F) ==
    LET names == SelectSeq(StatusFlags, LAMBDA f : f \in F)
    IN  IF names = <<>> THEN <<>>
        ELSE FoldLeft(LAMBDA acc, f : acc \o <<Separator, f>>,
                      <<Head(names)>>, Tail(names))

\* strstr(s, kw) /= NULL, at token granularity (see the header comment).
StrStr(s, kw) == Contains(s, kw)

\* A faulty variant that stores the pointer without the NULL check.
OrEmptyUnchecked(p) == p

\* The string value the code stores for a const char* that may be NULL:
\*   x = p ? p : "";
OrEmpty(p) == IF p = Null THEN "" ELSE p

\* struct PrintJobState with its default member initialisers.
PrintJobState ==
    [name: STRING, percentageComplete: Int, remainingTime: STRING,
     totalTime: STRING, subStage: STRING]

DefaultJob ==
    [name |-> "", percentageComplete |-> 0, remainingTime |-> "",
     totalTime |-> "", subStage |-> ""]

\* struct MachineState with its default member initialisers.
DefaultMachineState ==
    [wsConnected |-> FALSE, status |-> "Disconnected", nickname |-> "",
     hasJob |-> FALSE, job |-> DefaultJob]

\* A faulty variant that tests Printed before Paused.
ParseMachineStatusPrintedFirst(s) ==
    CASE s = Null \/ s = <<>>       -> "Unknown"
      [] StrStr(s, "Printing")      -> "Printing"
      [] StrStr(s, "Printed")       -> "Printed"
      [] StrStr(s, "Paused")        -> "Paused"
      [] StrStr(s, "Canceled")      -> "Canceled"
      [] StrStr(s, "Idle")          -> "Idle"
      [] StrStr(s, "Connecting")    -> "Connecting"
      [] StrStr(s, "Disconnected")  -> "Disconnected"
      [] OTHER                      -> "Unknown"

(***************************************************************************)
(* parseMachineStatus: the first keyword found, in the order the code      *)
(* tests them, wins; a NULL or empty string is Unknown.                    *)
(***************************************************************************)
ParseMachineStatus(s) ==
    CASE s = Null \/ s = <<>>       -> "Unknown"
      [] StrStr(s, "Printing")      -> "Printing"
      [] StrStr(s, "Paused")        -> "Paused"
      [] StrStr(s, "Printed")       -> "Printed"
      [] StrStr(s, "Canceled")      -> "Canceled"
      [] StrStr(s, "Idle")          -> "Idle"
      [] StrStr(s, "Connecting")    -> "Connecting"
      [] StrStr(s, "Disconnected")  -> "Disconnected"
      [] OTHER                      -> "Unknown"

\* machineStatusLabel: the text of the status bar.
MachineStatusLabel(st) ==
    CASE st = "Connecting" -> "Connecting..."
      [] st = "Printed"    -> "Print Complete"
      [] st \in {"Disconnected", "Idle", "Printing", "Paused", "Canceled"}
                           -> st
      [] OTHER             -> "Unknown"

-----------------------------------------------------------------------------
(***************************************************************************)
(* Reference definition of the classifier, from the precedence the design  *)
(* documents: Printing > Paused > Printed > Canceled > Idle > Connecting > *)
(* Disconnected, and Unknown when no flag is set.                          *)
(***************************************************************************)
StatusPrecedence ==
    <<"Printing", "Paused", "Printed", "Canceled", "Idle", "Connecting",
      "Disconnected">>

MostActiveStatus(F) ==
    IF F = {} THEN "Unknown"
    ELSE LET firstSet == CHOOSE i \in DOMAIN StatusPrecedence :
                            /\ StatusPrecedence[i] \in F
                            /\ \A k \in 1..(i - 1) : StatusPrecedence[k] \notin F
         IN  StatusPrecedence[firstSet]
=============================================================================
