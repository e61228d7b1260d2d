------------------------------ MODULE LogUnit ------------------------------
(***************************************************************************)
(* When class LogUnit logs a message, and when it cannot: formatString()   *)
(* breaks a text into lines by inserting at every multiple of lineSize up  *)
(* to a size it has computed before, which may lie beyond the text's end;  *)
(* string::insert() then throws std::out_of_range.                         *)
(***************************************************************************)
EXTENDS Integers

LINESIZE == 80

(* A log level is the set of its bits: input, output and info, or one that *)
(* no global level has.                                                    *)
Level == SUBSET {1, 2, 4, 8}

(* info.logLevel == (info.logLevel & globalLogLevel)                       *)
Logged(level, globalLevel) == level \subseteq globalLevel

(* setGlobalLogLevel() takes any level: its test for the five valid ones   *)
(* is a disjunction of inequalities, of which one always holds.            *)
SetGlobalLogLevel(level) == level

(* What is inserted for each line: the break and the prefix's width.       *)
Inserted(offset) == 1 + offset

(* Up to where formatString() breaks lines, for a message of len           *)
(* characters and a prefix of offset.                                      *)
BreaksUpTo(len, offset, lineSize) ==
  (len \div (lineSize - offset)) * (lineSize + offset)

(* The break at k*lineSize lies beyond what the text has grown to by then. *)
FormatThrows(len, offset, lineSize) ==
  \E k \in 1 .. BreaksUpTo(len, offset, lineSize) \div lineSize :
    k * lineSize > len + offset + (k - 1) * Inserted(offset)

(* log(info, msg): with printf() as its method it formats, with syslog()   *)
(* it does not.                                                            *)
CannotLog(len, level, offset, method, globalLevel) ==
  /\ Logged(level, globalLevel)
  /\ method = "printf"
  /\ FormatThrows(len, offset, LINESIZE)
=============================================================================
