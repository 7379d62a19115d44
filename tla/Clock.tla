--------------------------------- MODULE Clock ---------------------------------
(***************************************************************************)
(* The time menu of the command handler and the real-time clock behind it: *)
(* get_time, set_time, get_date and set_date of kernel/user_commands.c.    *)
(* The clock goes on ticking while a command goes from register to         *)
(* register; the program never asks it to hold.  The clock itself is       *)
(* hardware: it runs in BCD, in 24 hours, and what it does with a register *)
(* that is out of its range is left open.                                  *)
(***************************************************************************)
EXTENDS Integers, Sequences

CONSTANTS
  Starts,        \* the readings of the clock a session may begin with
  Inputs,        \* the numbers atoi makes of the four characters a line has at most
  MaxTicks,      \* bound: the seconds that pass
  MaxCommands    \* bound: the commands given

ASSUME InputsAssumption == Inputs \subseteq -999..9999
ASSUME BoundsAssumption == MaxTicks \in Nat /\ MaxCommands \in Nat

Registers == {"sec", "min", "hour", "day", "month", "year"}
Bytes == 0..255

ASSUME StartsAssumption == Starts \subseteq [Registers -> 0..99]

-----------------------------------------------------------------------------
ToBcdWide(n) == (16 * (n \div 10)) + (n % 10)   \* mutant: more than the low byte

ToBcdUnshifted(n) == ((n \div 10) + (n % 10)) % 256   \* mutant: the tens are not shifted

(***************************************************************************)
(* ((n / 10) << 4) | (n % 10), of which outb sends the low byte.  In C the *)
(* quotient is truncated and the remainder has the sign of n: one below 0  *)
(* has every bit above its low four set, and the tens do not matter.       *)
(***************************************************************************)
ToBcd(n) ==
  (IF n >= 0 THEN (16 * (n \div 10)) + (n % 10)
   ELSE IF (-n) % 10 = 0 THEN -(16 * ((-n) \div 10)) ELSE -((-n) % 10)) % 256

\* The ones and the tens of a register.
FromBcd(b) == (b % 16) + (10 * (b \div 16))

(***************************************************************************)
(* The first two characters itoa leaves in a buffer.  Nul ends a text; for *)
(* 0 nothing is stored but the Nul (str[i++] = '\0' replaces the digit) and*)
(* the second character is whatever was on the stack.                      *)
(***************************************************************************)
Nul == 10
Stack == 11
Separator == 12

Itoa(n) ==
  IF n = 0 THEN <<Nul, Stack>>
  ELSE IF n < 10 THEN <<n, Nul>>
  ELSE IF n < 100 THEN <<n \div 10, n % 10>> ELSE <<n \div 100, (n \div 10) % 10>>

\* `time` and `date`: nine characters.
Text(a, b, c) ==
  LET p == Itoa(a)  q == Itoa(b)  r == Itoa(c)
  IN  <<p[1], p[2], Separator, q[1], q[2], Separator, r[1], r[2], Nul>>

SentFromFirst(text) ==   \* mutant: the second character is looked at before it is sent
  LET ends == {k \in 1..Len(text) : k = Len(text) \/ text[k + 1] = Nul}
  IN  SubSeq(text, 1, CHOOSE k \in ends : \A j \in ends : k <= j)

(***************************************************************************)
(* What the driver sends of it: serial_write the first character, the      *)
(* output interrupt the second and then the others, up to a Nul.           *)
(***************************************************************************)
Sent(text) ==
  LET ends == {k \in 2..Len(text) : k = Len(text) \/ text[k + 1] = Nul}
  IN  SubSeq(text, 1, CHOOSE k \in ends : \A j \in ends : k <= j)

-----------------------------------------------------------------------------
VARIABLES
  rtc,        \* the registers of the clock
  command,    \* the command in progress, or "menu"
  access,     \* the register it accesses next, 4 when it has accessed all
  line,       \* the number in the buffer the commands read into
  seen,       \* the numbers get_* has read
  taken,      \* the numbers set_* has taken from it
  ahead,      \* whether a character was typed while nobody read, into the ring
  shown,      \* what reached the terminal
  ticks, commands,
  began       \* history: the registers and ticks when the command began

clock_vars ==
  <<rtc, command, access, line, seen, taken, ahead, shown, ticks, commands, began>>

ReadsHourFirst ==   \* mutant: the hours are read first
  [get_time |-> <<"hour", "min", "sec">>, get_date |-> <<"day", "month", "year">>]

\* The order in which a command accesses the registers.
Reads == [get_time |-> <<"sec", "min", "hour">>, get_date |-> <<"day", "month", "year">>]

WritesSecFirst ==   \* mutant: the seconds are written first
  [set_time |-> <<"sec", "min", "hour">>, set_date |-> <<"day", "month", "year">>]

Writes == [set_time |-> <<"hour", "min", "sec">>, set_date |-> <<"day", "month", "year">>]

ClockInit ==
  /\ \E s \in Starts : rtc = [r \in Registers |-> ToBcd(s[r])]
  /\ command = "menu" /\ access = 1
  /\ line = 0
  /\ seen = <<>> /\ taken = <<>> /\ shown = <<>> /\ ahead = FALSE
  /\ ticks = 0 /\ commands = 0
  /\ began = [rtc |-> rtc, ticks |-> 0]

-----------------------------------------------------------------------------
\* Time passes.
DaysIn(month, year) ==
  IF month = 2 THEN IF year % 4 = 0 THEN 29 ELSE 28
  ELSE IF month \in {4, 6, 9, 11} THEN 30 ELSE 31

First(r) == IF r \in {"day", "month"} THEN 1 ELSE 0

Last(r) ==
  CASE r \in {"sec", "min"} -> 59
    [] r = "hour" -> 23
    [] r = "day" -> DaysIn(FromBcd(rtc["month"]), FromBcd(rtc["year"]))
    [] r = "month" -> 12
    [] r = "year" -> 99

AtLast(r) == FromBcd(rtc[r]) = Last(r)

\* The registers whose turnover advances r.
Below(r) ==
  CASE r = "sec" -> {}
    [] r = "min" -> {"sec"}
    [] r = "hour" -> {"sec", "min"}
    [] r = "day" -> {"sec", "min", "hour"}
    [] r = "month" -> {"sec", "min", "hour", "day"}
    [] r = "year" -> {"sec", "min", "hour", "day", "month"}

Advanced(r, resets) ==
  LET n == FromBcd(rtc[r])
  IN  IF n < Last(r) THEN ToBcd(n + 1)
      ELSE IF n = Last(r) \/ resets THEN ToBcd(First(r))
      ELSE rtc[r]

Tick ==
  /\ ticks < MaxTicks
  /\ ticks' = ticks + 1
  /\ \E resets \in BOOLEAN :
       rtc' = [r \in Registers |-> IF \A b \in Below(r) : AtLast(b)
                                   THEN Advanced(r, resets) ELSE rtc[r]]
  /\ UNCHANGED <<command, access, line, seen, taken, ahead, shown, commands, began>>

-----------------------------------------------------------------------------
\* time_menu: the user picks a command.
TimeMenu(c) ==
  /\ command = "menu" /\ commands < MaxCommands
  /\ command' = c /\ access' = 1 /\ commands' = commands + 1
  /\ seen' = <<>> /\ taken' = <<>> /\ shown' = <<>>
  /\ began' = [rtc |-> rtc, ticks |-> ticks]
  /\ UNCHANGED <<rtc, line, ahead, ticks>>

\* get_time and get_date: one register after the other.
ReadRegister(c) ==
  /\ command = c /\ access <= 3
  /\ seen' = Append(seen, FromBcd(rtc[Reads[c][access]]))
  /\ access' = access + 1
  /\ UNCHANGED <<rtc, command, line, taken, ahead, shown, ticks, commands, began>>

ShowText(c, text) ==
  /\ command = c /\ access = 4
  /\ shown' = Sent(text)
  /\ command' = "menu"
  /\ UNCHANGED <<rtc, access, line, seen, taken, ahead, ticks, commands, began>>

GetTime == ReadRegister("get_time") \/ ShowText("get_time", Text(seen[3], seen[2], seen[1]))
GetDate == ReadRegister("get_date") \/ ShowText("get_date", Text(seen[1], seen[2], seen[3]))

(***************************************************************************)
(* set_time and set_date ask for a number and write it to a register.  It  *)
(* is seldom the number that is typed: serial_read polls for the line and  *)
(* read_from_ring then copies its first characters over, from slots that   *)
(* hold zeros until somebody types ahead, and atoi makes 0 of them.  After *)
(* that they may hold anything, and an Enter there leaves the line typed.  *)
(* A request that meets an event is not performed and leaves the line of   *)
(* the one before: the empty strings the commands read into are one object.*)
(* Only the hours are refused when they are out of range; of any other     *)
(* number the error message is all that comes of it.                       *)
(***************************************************************************)
LinesAsTyped == Inputs \union {line}   \* mutant: nothing is copied over the line

Lines == {line, 0} \union (IF ahead THEN Inputs ELSE {})

TypeAhead ==
  /\ ~ahead /\ ahead' = TRUE
  /\ UNCHANGED <<rtc, command, access, line, seen, taken, shown, ticks, commands, began>>

WriteRegister(c, n) ==
  /\ command = c /\ access <= 3
  /\ line' = n
  /\ rtc' = [rtc EXCEPT ![Writes[c][access]] = ToBcd(n)]
  /\ taken' = Append(taken, n)
  /\ access' = access + 1
  /\ UNCHANGED <<command, seen, ahead, shown, ticks, commands, began>>

IsHour(n) == n > 0 /\ n <= 24

RefuseHour(n) ==
  /\ command = "set_time" /\ access = 1
  /\ line' = n /\ ~IsHour(n)
  /\ command' = "menu"
  /\ UNCHANGED <<rtc, access, seen, taken, ahead, shown, ticks, commands, began>>

\* The confirmation.
Confirm(c) ==
  /\ command = c /\ access = 4
  /\ command' = "menu"
  /\ UNCHANGED <<rtc, access, line, seen, taken, ahead, shown, ticks, commands, began>>

SetTime == \/ \E n \in Lines :
                \/ (access = 1 => IsHour(n)) /\ WriteRegister("set_time", n)
                \/ RefuseHour(n)
           \/ Confirm("set_time")

SetDate == \/ \E n \in Lines : WriteRegister("set_date", n)
           \/ Confirm("set_date")

Commands == {"get_time", "get_date", "set_time", "set_date"}

ClockNext == \/ Tick
             \/ \E c \in Commands : TimeMenu(c)
             \/ TypeAhead
             \/ GetTime \/ GetDate \/ SetTime \/ SetDate

ClockSpec == ClockInit /\ [][ClockNext]_clock_vars

-----------------------------------------------------------------------------
ClockTypeOK ==
  /\ rtc \in [Registers -> Bytes]
  /\ command \in Commands \union {"menu"} /\ access \in 1..4
  /\ line \in Inputs \union {0}
  /\ seen \in Seq(0..165) /\ taken \in Seq(Inputs \union {0})
  /\ (command \in {"get_time", "get_date"} => Len(seen) = access - 1)
  /\ (command \in {"set_time", "set_date"} => Len(taken) = access - 1)
  /\ ticks \in Nat /\ commands \in Nat /\ ahead \in BOOLEAN
  /\ began \in [rtc : [Registers -> Bytes], ticks : Nat]

\* Times of a day in seconds, and dates as numbers in order, of the registers regs.
InRange(regs) ==
  /\ \A r \in {"sec", "min"} : FromBcd(regs[r]) \in 0..59
  /\ FromBcd(regs["hour"]) \in 0..23
  /\ FromBcd(regs["month"]) \in 1..12 /\ FromBcd(regs["year"]) \in 0..99
  /\ FromBcd(regs["day"]) \in 1..DaysIn(FromBcd(regs["month"]), FromBcd(regs["year"]))

Day == 24 * 3600
Seconds(h, m, s) == (3600 * h) + (60 * m) + s
TimeOf(regs) == Seconds(FromBcd(regs["hour"]), FromBcd(regs["min"]), FromBcd(regs["sec"]))

Century == 100 * 12 * 31
Date(d, m, y) == (31 * ((12 * y) + m - 1)) + d - 1
DateOf(regs) == Date(FromBcd(regs["day"]), FromBcd(regs["month"]), FromBcd(regs["year"]))

\* get_time and get_date read a clock that goes on ticking (user_commands.c:99,
\* 269).  What they show can be torn, but is never before the time the command
\* began at, and less than an hour, or a year, after the time it ends at, if it
\* takes less than a day.
ReadNotBehind ==
  InRange(began.rtc) /\ access = 4 /\ ticks - began.ticks < Day =>
    /\ command = "get_time" =>
         (Seconds(seen[3], seen[2], seen[1]) - TimeOf(began.rtc)) % Day
           < ((TimeOf(rtc) - TimeOf(began.rtc)) % Day) + 3600
    /\ command = "get_date" =>
         (Date(seen[1], seen[2], seen[3]) - DateOf(began.rtc)) % Century
           < ((DateOf(rtc) - DateOf(began.rtc)) % Century) + (12 * 31)

\* set_time writes a clock that goes on ticking (user_commands.c:190-258).  A time
\* of day that it takes from its buffer takes effect: the clock is never before
\* it, and after it by less than an hour, besides the seconds that have passed.
SetNotBehind ==
  command = "set_time" /\ access = 4 /\ InRange(began.rtc)
    /\ taken[1] <= 23 /\ taken[2] \in 0..59 /\ taken[3] \in 0..59 =>
      (TimeOf(rtc) - Seconds(taken[1], taken[2], taken[3])) % Day
        <= 3599 + (ticks - began.ticks)

\* When no second passes, a number of two digits that set_time or set_date takes
\* from its buffer (seldom the one typed, see Lines) is what get_time or get_date
\* would read (user_commands.c:113, 187).
SetIsExact ==
  \A c \in {"set_time", "set_date"} :
    command = c /\ ticks = began.ticks =>
      \A k \in 1..(access - 1) : taken[k] \in 0..99 => FromBcd(rtc[Writes[c][k]]) = taken[k]

\* Until somebody types ahead, every number a user gives is lost: set_date takes
\* zeros only, and set_time, whose hour they are, never writes a register at all
\* (serial.c:376, user_commands.c:179).
TypedIsLost ==
  ~ahead => /\ \A k \in 1..Len(taken) : taken[k] = 0
            /\ command = "set_time" => access = 1

\* The text of a time or a date is sent up to its last number, the seconds or the
\* year, unless the number before is below 10: itoa ends that one with a Nul
\* (user_commands.c:135, 304; serial.c:568).
ShownWhole ==
  shown # <<>> /\ (\A k \in 1..3 : seen[k] < 100) => (Len(shown) >= 6 <=> seen[2] >= 10)
=============================================================================
