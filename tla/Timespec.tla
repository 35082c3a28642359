------------------------------- MODULE Timespec -------------------------------
(***************************************************************************)
(* How ls -t compares two files: timespec_cmp of lib/timespec.h, as it was *)
(* and as lab4.diff makes it, and cmp_mtime of ls.c on top of it.  The     *)
(* seconds are as wide as needed; an int is not.                           *)
(***************************************************************************)
EXTENDS Integers

CONSTANTS
  Half,     (* an int is one of -Half .. Half - 1                           *)
  Nanos,    (* the nanoseconds of a second                                  *)
  Seconds,  (* what a file's time can be                                    *)
  FileNames (* numbered as strcmp orders them                               *)

ASSUME WidthAssumption ==
  /\ Half \in Nat \ {0}
  /\ Nanos \in 0..Half
  /\ Seconds \subseteq Int
  /\ FileNames \subseteq 0..(Half - 1)

VARIABLES a, b

pair == <<a, b>>

Files == [sec : Seconds, nsec : 0..(Nanos - 1), name : FileNames]

(* What an int keeps of n                                                   *)
ToInt(n) == ((n + Half) % (2 * Half)) - Half

SecondsOnly(x, y) == ToInt(x.sec - y.sec)
timespec_cmp_was(x, y) ==
  LET diff == ToInt(x.sec - y.sec)
  IN  IF diff # 0 THEN diff ELSE ToInt(x.nsec - y.nsec)

UnequalSeconds(x, y) ==
  IF x.sec - y.sec < 0 THEN -1 ELSE IF x.sec - y.sec > 0 THEN 1 ELSE 0
timespec_cmp(x, y) ==
  IF x.sec - y.sec < 0 THEN -1
  ELSE IF x.sec - y.sec > 0 THEN 1
  ELSE IF x.nsec - y.nsec < 0 THEN -1
  ELSE IF x.nsec - y.nsec > 0 THEN 1
  ELSE 0

(* The later file comes first; of two as late, the one whose name does.     *)
cmp_mtime_was(x, y) ==
  LET diff == timespec_cmp_was(y, x)
  IN  IF diff # 0 THEN diff ELSE x.name - y.name
cmp_mtime(x, y) ==
  LET diff == timespec_cmp(y, x)
  IN  IF diff # 0 THEN diff ELSE x.name - y.name

(* The sort compares any two files, in either order.                        *)
AnyTwo == a \in Files /\ b \in Files
Swap == a' = b /\ b' = a
Comparisons == AnyTwo /\ [][Swap]_pair
------------------------------------------------------------------------------
(* Both are files.                                                          *)
AreFiles == a \in Files /\ b \in Files

Later(x, y) == x.sec > y.sec \/ (x.sec = y.sec /\ x.nsec > y.nsec)
ComesFirst(x, y) ==
  Later(x, y) \/ (x.sec = y.sec /\ x.nsec = y.nsec /\ x.name < y.name)

(***************************************************************************)
(* The corrected comparison puts the newest file first and then goes by    *)
(* name: a total order, which is what the sort needs.                      *)
(***************************************************************************)
SortsByTime ==
  /\ cmp_mtime(a, b) < 0 <=> ComesFirst(a, b)
  /\ cmp_mtime(a, b) > 0 <=> ComesFirst(b, a)

(* So did the old one for files less than Half seconds apart.               *)
SortedNearTimes ==
  a.sec - b.sec \in (1 - Half)..(Half - 1) =>
    /\ cmp_mtime_was(a, b) < 0 <=> ComesFirst(a, b)
    /\ cmp_mtime_was(a, b) > 0 <=> ComesFirst(b, a)
==============================================================================
