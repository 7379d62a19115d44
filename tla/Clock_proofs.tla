------------------------------ MODULE Clock_proofs ------------------------------
(***************************************************************************)
(* The commands of the time menu for any readings of the clock to begin    *)
(* with, any lines typed, and any number of ticks and commands.          *)
(***************************************************************************)
EXTENDS Clock, WellFoundedInduction, TLAPS

-----------------------------------------------------------------------------
\* set_* and get_* agree on the registers: a number of two digits comes back.
LEMMA BcdRoundTrip == \A n \in 0..99 : FromBcd(ToBcd(n)) = n
BY DEF FromBcd, ToBcd

LEMMA BcdIsByte == \A n \in Int : ToBcd(n) \in Bytes
BY DEF ToBcd, Bytes

LEMMA ByteDecodes == \A b \in Bytes : FromBcd(b) \in 0..165
BY DEF FromBcd, Bytes

\* A tick leaves bytes in the registers, in or out of their ranges.
LEMMA TickKeepsBytes ==
  ASSUME rtc \in [Registers -> Bytes], Tick
  PROVE  rtc' \in [Registers -> Bytes]
<1>1. PICK resets \in BOOLEAN :
        rtc' = [r \in Registers |-> IF \A b \in Below(r) : AtLast(b)
                                   THEN Advanced(r, resets) ELSE rtc[r]]
  BY DEF Tick
<1>2. ASSUME NEW r \in Registers PROVE Advanced(r, resets) \in Bytes
  <2>1. FromBcd(rtc[r]) + 1 \in Int /\ First(r) \in Int /\ rtc[r] \in Bytes
    BY ByteDecodes DEF First
  <2>2. ToBcd(FromBcd(rtc[r]) + 1) \in Bytes /\ ToBcd(First(r)) \in Bytes
    BY <2>1, BcdIsByte
  <2> HIDE DEF Bytes
  <2> QED BY <2>1, <2>2 DEF Advanced
<1> QED BY <1>1, <1>2

-----------------------------------------------------------------------------
\* ClockTypeOK, and SetIsExact with what keeps it from a tick: a command has
\* begun before now.
ClockInv == ClockTypeOK /\ began.ticks <= ticks /\ SetIsExact

LEMMA InitEstablishes == ClockInit => ClockInv
<1> SUFFICES ASSUME ClockInit PROVE ClockInv
  OBVIOUS
<1>1. rtc \in [Registers -> Bytes]
  <2>1. PICK s \in Starts : rtc = [r \in Registers |-> ToBcd(s[r])]
    BY DEF ClockInit
  <2>2. \A r \in Registers : s[r] \in Int
    BY StartsAssumption
  <2> QED BY <2>1, <2>2, BcdIsByte
<1>2. ClockTypeOK
  <2>1. began = [rtc |-> rtc, ticks |-> 0] /\ ahead \in BOOLEAN
    BY DEF ClockInit
  <2>2. began \in [rtc : [Registers -> Bytes], ticks : Nat]
    BY <1>1, <2>1
  <2> QED BY <1>1, <2>1, <2>2 DEF ClockInit, ClockTypeOK, Commands
<1> QED BY <1>2 DEF ClockInit, ClockInv, SetIsExact

LEMMA TickKeeps == ClockInv /\ Tick => ClockInv'
<1> SUFFICES ASSUME ClockInv, Tick PROVE ClockInv'
  OBVIOUS
<1>1. /\ ticks' = ticks + 1
      /\ UNCHANGED <<command, access, line, seen, taken, ahead, shown, commands, began>>
  BY DEF Tick
<1>2. rtc' \in [Registers -> Bytes]
  BY TickKeepsBytes DEF ClockInv, ClockTypeOK
<1>3. ClockTypeOK'
  BY <1>1, <1>2 DEF ClockInv, ClockTypeOK
<1>4. began'.ticks < ticks'
  BY <1>1 DEF ClockInv, ClockTypeOK
<1> QED BY <1>1, <1>3, <1>4 DEF ClockInv, ClockTypeOK, SetIsExact

LEMMA MenuKeeps == ASSUME NEW c \in Commands PROVE ClockInv /\ TimeMenu(c) => ClockInv'
<1> SUFFICES ASSUME ClockInv, TimeMenu(c) PROVE ClockInv'
  OBVIOUS
<1>1. ClockTypeOK' /\ began'.ticks <= ticks'
  BY DEF ClockInv, ClockTypeOK, TimeMenu
<1>2. SetIsExact'
  BY DEF SetIsExact, TimeMenu
<1> QED BY <1>1, <1>2 DEF ClockInv

LEMMA ReadKeeps ==
  ASSUME NEW c \in {"get_time", "get_date"}
  PROVE  ClockInv /\ ReadRegister(c) => ClockInv'
<1> SUFFICES ASSUME ClockInv, ReadRegister(c) PROVE ClockInv'
  OBVIOUS
<1>1. command = c /\ access \in 1..3 /\ access' = access + 1
      /\ seen' = Append(seen, FromBcd(rtc[Reads[c][access]]))
      /\ UNCHANGED <<rtc, command, line, taken, ahead, shown, ticks, commands, began>>
  BY DEF ReadRegister, ClockInv, ClockTypeOK
<1>2. FromBcd(rtc[Reads[c][access]]) \in 0..165
  <2>1. Reads[c][access] \in Registers
    BY <1>1 DEF Reads, Registers
  <2> QED BY <2>1, ByteDecodes DEF ClockInv, ClockTypeOK
<1>3. seen' \in Seq(0..165) /\ Len(seen') = access' - 1
  BY <1>1, <1>2 DEF ClockInv, ClockTypeOK
<1>4. ClockTypeOK'
  BY <1>1, <1>3 DEF ClockInv, ClockTypeOK
<1>5. SetIsExact'
  BY <1>1 DEF SetIsExact
<1> QED BY <1>1, <1>4, <1>5 DEF ClockInv

LEMMA ReturnKeeps ==
  ASSUME ClockInv, command' = "menu", line' \in Inputs \union {0},
         UNCHANGED <<rtc, access, seen, taken, ahead, ticks, commands, began>>
  PROVE  ClockInv'
BY DEF ClockInv, ClockTypeOK, SetIsExact

\* Whatever is on a line is a number that can be typed, or 0.
LEMMA LinesAreInputs == ClockTypeOK => Lines \subseteq Inputs \union {0}
BY DEF ClockTypeOK, Lines

LEMMA WriteKeeps ==
  ASSUME NEW c \in {"set_time", "set_date"}, NEW n \in Lines
  PROVE  ClockInv /\ WriteRegister(c, n) => ClockInv'
<1> SUFFICES ASSUME ClockInv, WriteRegister(c, n) PROVE ClockInv'
  OBVIOUS
<1> DEFINE r == Writes[c][access]
<1>1. /\ command = c /\ access \in 1..3 /\ access' = access + 1 /\ line' = n
      /\ rtc' = [rtc EXCEPT ![r] = ToBcd(n)] /\ taken' = Append(taken, n)
      /\ UNCHANGED <<command, seen, ahead, shown, ticks, commands, began>>
  BY DEF WriteRegister, ClockInv, ClockTypeOK
<1>2. n \in Inputs \union {0} /\ n \in Int
  <2>1. n \in Inputs \union {0}
    BY LinesAreInputs DEF ClockInv
  <2> QED BY <2>1, InputsAssumption
<1>3. r \in Registers
  BY <1>1 DEF Writes, Registers
<1>4. /\ taken' \in Seq(Inputs \union {0}) /\ Len(taken') = access' - 1
      /\ taken'[access] = n
      /\ \A k \in 1..(access - 1) : taken'[k] = taken[k]
  BY <1>1, <1>2 DEF ClockInv, ClockTypeOK
<1>5. ToBcd(n) \in Bytes
  BY <1>2, BcdIsByte
<1>6. rtc' \in [Registers -> Bytes]
  BY <1>1, <1>3, <1>5 DEF ClockInv, ClockTypeOK
<1>7. ClockTypeOK'
  BY <1>1, <1>2, <1>4, <1>6 DEF ClockInv, ClockTypeOK
<1>8. ASSUME ticks = began.ticks, NEW k \in 1..access, taken'[k] \in 0..99
      PROVE  FromBcd(rtc'[Writes[c][k]]) = taken'[k]
  <2>1. CASE k = access
    <3>1. rtc'[r] = ToBcd(n)
      BY <1>1, <1>3 DEF ClockInv, ClockTypeOK
    <3>2. FromBcd(ToBcd(n)) = n
      BY <1>4, <1>8, <2>1, BcdRoundTrip
    <3> QED BY <1>4, <2>1, <3>1, <3>2
  <2>2. CASE k \in 1..(access - 1)
    <3>1. Writes[c][k] # r
      BY <1>1, <2>2 DEF Writes
    <3>2. rtc'[Writes[c][k]] = rtc[Writes[c][k]]
      <4>1. Writes[c][k] \in Registers
        BY <1>1, <2>2 DEF Writes, Registers
      <4> QED BY <1>1, <3>1, <4>1 DEF ClockInv, ClockTypeOK
    <3>3. taken[k] \in 0..99 => FromBcd(rtc[Writes[c][k]]) = taken[k]
      BY <1>1, <1>8, <2>2 DEF ClockInv, SetIsExact
    <3> QED BY <1>4, <1>8, <2>2, <3>2, <3>3
  <2>3. access \in 1..3
    BY <1>1
  <2>4. k = access \/ k \in 1..(access - 1)
    BY <2>3
  <2> QED BY <2>1, <2>2, <2>4
<1>9. SetIsExact'
  <2> SUFFICES ASSUME NEW d \in {"set_time", "set_date"}, command' = d, ticks' = began'.ticks,
                      NEW k \in 1..(access' - 1), taken'[k] \in 0..99
               PROVE  FromBcd(rtc'[Writes[d][k]]) = taken'[k]
    BY DEF SetIsExact
  <2> HIDE DEF r
  <2>1. d = c /\ ticks = began.ticks /\ k \in 1..access
    <3>1. command' = c /\ ticks' = ticks /\ began' = began
      BY <1>1
    <3>2. access' - 1 = access
      BY <1>1
    <3> QED BY <3>1, <3>2
  <2> QED BY <2>1, <1>8
<1> QED BY <1>1, <1>7, <1>9 DEF ClockInv

LEMMA ClockNextKeeps == ClockInv /\ [ClockNext]_clock_vars => ClockInv'
<1> SUFFICES ASSUME ClockInv, [ClockNext]_clock_vars PROVE ClockInv'
  OBVIOUS
<1>1. CASE Tick
  BY <1>1, TickKeeps
<1>2. CASE \E c \in Commands : TimeMenu(c)
  BY <1>2, MenuKeeps
<1>3. CASE GetTime \/ GetDate
  <2>1. ASSUME NEW c \in Commands, NEW text, ShowText(c, text) PROVE ClockInv'
    BY <2>1, ReturnKeeps DEF ShowText, ClockInv, ClockTypeOK
  <2> QED BY <1>3, <2>1, ReadKeeps DEF GetTime, GetDate, Commands
<1>4. CASE SetTime \/ SetDate
  <2>1. ASSUME NEW c \in Commands, Confirm(c) PROVE ClockInv'
    BY <2>1, ReturnKeeps DEF Confirm, ClockInv, ClockTypeOK
  <2>2. ASSUME NEW n \in Lines, RefuseHour(n) PROVE ClockInv'
    BY <2>2, ReturnKeeps, LinesAreInputs DEF RefuseHour, ClockInv
  <2> QED BY <1>4, <2>1, <2>2, WriteKeeps DEF SetTime, SetDate, Commands
<1>5. CASE TypeAhead \/ UNCHANGED clock_vars
  BY <1>5 DEF TypeAhead, clock_vars, ClockInv, ClockTypeOK, SetIsExact
<1> QED BY <1>1, <1>2, <1>3, <1>4, <1>5 DEF ClockNext

LEMMA ClockInvariance == ClockSpec => []ClockInv
BY InitEstablishes, ClockNextKeeps, PTL DEF ClockSpec

\* Whatever the four characters of a line make, up to -999 and 9999, the registers
\* hold bytes (outb sends the low byte), and a number read from them is at most 165.
THEOREM ClockTypeCorrect == ClockSpec => []ClockTypeOK
BY ClockInvariance, PTL DEF ClockInv

\* A number of two digits that is taken from the buffer is what would be read,
\* when no second passes.
THEOREM SetIsExactAlways == ClockSpec => []SetIsExact
BY ClockInvariance, PTL DEF ClockInv

-----------------------------------------------------------------------------
\* TypedIsLost, with the line left in the buffer.
LostInv == TypedIsLost /\ (~ahead => line = 0)

LEMMA LostNext == ClockInv /\ LostInv /\ [ClockNext]_clock_vars => LostInv'
<1> SUFFICES ASSUME ClockInv, LostInv, [ClockNext]_clock_vars, ~ahead' PROVE LostInv'
  BY DEF LostInv, TypedIsLost
<1>1. CASE ahead
  BY <1>1 DEF ClockNext, Tick, TimeMenu, TypeAhead, GetTime, GetDate, SetTime, SetDate,
              ReadRegister, ShowText, WriteRegister, RefuseHour, Confirm, clock_vars
<1> SUFFICES ASSUME ~ahead PROVE LostInv'
  BY <1>1
<1>2. /\ line = 0 /\ Lines = {0}
      /\ \A k \in 1..Len(taken) : taken[k] = 0
      /\ command = "set_time" => access = 1
  BY DEF LostInv, TypedIsLost, Lines
<1>3. ASSUME line' = 0, taken' = taken \/ taken' = <<>>,
             command' = "set_time" => access' = 1
      PROVE  LostInv'
  BY <1>2, <1>3 DEF LostInv, TypedIsLost
<1>4. CASE Tick \/ TypeAhead \/ UNCHANGED clock_vars
  BY <1>2, <1>3, <1>4 DEF Tick, TypeAhead, clock_vars
<1>5. CASE \E c \in Commands : TimeMenu(c)
  BY <1>2, <1>3, <1>5 DEF TimeMenu
<1>6. CASE GetTime \/ GetDate
  BY <1>2, <1>3, <1>6 DEF GetTime, GetDate, ReadRegister, ShowText
<1>7. CASE SetTime
  <2>1. PICK n \in Lines : \/ (access = 1 => IsHour(n)) /\ WriteRegister("set_time", n)
                           \/ RefuseHour(n) \/ Confirm("set_time")
    BY <1>2, <1>7 DEF SetTime
  <2>2. n = 0 /\ ~IsHour(n)
    BY <1>2 DEF IsHour
  <2>3. RefuseHour(n) \/ Confirm("set_time")
    BY <1>2, <2>1, <2>2 DEF WriteRegister
  <2> QED BY <1>2, <1>3, <2>2, <2>3 DEF RefuseHour, Confirm
<1>8. CASE SetDate
  <2>1. CASE Confirm("set_date")
    BY <1>2, <1>3, <2>1 DEF Confirm
  <2>2. ASSUME NEW n \in Lines, WriteRegister("set_date", n) PROVE LostInv'
    <3>1. n = 0 /\ line' = 0 /\ command' = "set_date" /\ taken' = Append(taken, 0)
      BY <1>2, <2>2 DEF WriteRegister
    <3>2. taken \in Seq(Inputs \union {0})
      BY DEF ClockInv, ClockTypeOK
    <3>3. \A k \in 1..Len(taken') : taken'[k] = 0
      BY <1>2, <3>1, <3>2
    <3> QED BY <3>1, <3>3 DEF LostInv, TypedIsLost
  <2> QED BY <1>8, <2>1, <2>2 DEF SetDate
<1> QED BY <1>4, <1>5, <1>6, <1>7, <1>8 DEF ClockNext

\* Until a character is typed ahead the zeros of the ring replace every number a
\* user types, and set_time never writes a register (serial.c:376).
THEOREM TypedIsAlwaysLost == ClockSpec => []TypedIsLost
<1>1. ClockInit => LostInv
  BY DEF ClockInit, LostInv, TypedIsLost
<1>2. LostInv => TypedIsLost
  BY DEF LostInv
<1> QED BY <1>1, <1>2, LostNext, ClockInvariance, PTL DEF ClockSpec

-----------------------------------------------------------------------------
\* The clock of a day, as the registers read.
Reading(regs, r) == FromBcd(regs[r])

Sixtieths == 0..59
Hours == 0..23

TimeInRange(regs) ==
  /\ Reading(regs, "sec") \in Sixtieths /\ Reading(regs, "min") \in Sixtieths
  /\ Reading(regs, "hour") \in Hours

DateInRange(regs) ==
  /\ Reading(regs, "month") \in 1..12 /\ Reading(regs, "year") \in 0..99
  /\ Reading(regs, "day") \in 1..DaysIn(Reading(regs, "month"), Reading(regs, "year"))

LEMMA RangeSplits == \A regs : InRange(regs) <=> TimeInRange(regs) /\ DateInRange(regs)
BY DEF InRange, TimeInRange, Sixtieths, Hours, DateInRange, Reading

LEMMA DaysOfMonth == \A m, y \in Int : DaysIn(m, y) \in 28..31
BY DEF DaysIn

\* The fields of the date after that of regs.
NextDate(regs, r) ==
  LET n == Reading(regs, r)
      lastDay == Reading(regs, "day") = DaysIn(Reading(regs, "month"), Reading(regs, "year"))
      lastMonth == lastDay /\ Reading(regs, "month") = 12
  IN  CASE r = "day" -> IF lastDay THEN 1 ELSE n + 1
        [] r = "month" -> IF lastMonth THEN 1 ELSE IF lastDay THEN n + 1 ELSE n
        [] r = "year" -> IF ~lastMonth THEN n ELSE IF n = 99 THEN 0 ELSE n + 1

LEMMA TickReadings ==
  ASSUME rtc \in [Registers -> Bytes], Tick, NEW r \in Registers,
         Last(r) \in 0..99, Reading(rtc, r) \in First(r)..Last(r)
  PROVE  Reading(rtc', r) = IF \A b \in Below(r) : AtLast(b)
                            THEN IF AtLast(r) THEN First(r) ELSE Reading(rtc, r) + 1
                            ELSE Reading(rtc, r)
<1>1. PICK resets \in BOOLEAN :
        rtc'[r] = IF \A b \in Below(r) : AtLast(b) THEN Advanced(r, resets) ELSE rtc[r]
  BY DEF Tick
<1> DEFINE n == FromBcd(rtc[r])
<1>2. First(r) \in 0..99 /\ n \in First(r)..Last(r)
  BY DEF First, Reading
<1>3. CASE ~\A b \in Below(r) : AtLast(b)
  BY <1>1, <1>3 DEF Reading
<1>4. CASE (\A b \in Below(r) : AtLast(b)) /\ n = Last(r)
  <2>1. rtc'[r] = ToBcd(First(r))
    BY <1>1, <1>2, <1>4 DEF Advanced
  <2>2. FromBcd(ToBcd(First(r))) = First(r)
    BY <1>2, BcdRoundTrip
  <2> QED BY <1>4, <2>1, <2>2 DEF Reading, AtLast
<1>5. CASE (\A b \in Below(r) : AtLast(b)) /\ n # Last(r)
  <2>1. n < Last(r) /\ n + 1 \in 0..99
    BY <1>2, <1>5
  <2>2. rtc'[r] = ToBcd(n + 1)
    BY <1>1, <1>5, <2>1 DEF Advanced
  <2>3. FromBcd(ToBcd(n + 1)) = n + 1
    BY <2>1, BcdRoundTrip
  <2> QED BY <1>5, <2>2, <2>3 DEF Reading, AtLast
<1> QED BY <1>3, <1>4, <1>5

\* A second of a clock in its range.
LEMMA TickTime ==
  ASSUME rtc \in [Registers -> Bytes], Tick, TimeInRange(rtc)
  PROVE  TimeInRange(rtc') /\ TimeOf(rtc') = (TimeOf(rtc) + 1) % Day
<1> DEFINE s == Reading(rtc, "sec")
           m == Reading(rtc, "min")
           h == Reading(rtc, "hour")
<1>1. s \in 0..59 /\ m \in 0..59 /\ h \in 0..23
  BY DEF TimeInRange, Sixtieths, Hours
<1>2. Last("sec") = 59 /\ Last("min") = 59 /\ Last("hour") = 23
  BY DEF Last
<1>3. First("sec") = 0 /\ First("min") = 0 /\ First("hour") = 0
  BY DEF First
<1>4. Below("sec") = {} /\ Below("min") = {"sec"} /\ Below("hour") = {"sec", "min"}
  BY DEF Below
<1>5. (AtLast("sec") <=> s = 59) /\ (AtLast("min") <=> m = 59) /\ (AtLast("hour") <=> h = 23)
  BY <1>2 DEF AtLast, Reading
<1>6. Reading(rtc', "sec") = IF s = 59 THEN 0 ELSE s + 1
  BY <1>1, <1>2, <1>3, <1>4, <1>5, TickReadings DEF Registers
<1>7. Reading(rtc', "min") = IF s = 59 THEN IF m = 59 THEN 0 ELSE m + 1 ELSE m
  BY <1>1, <1>2, <1>3, <1>4, <1>5, TickReadings DEF Registers
<1>8. Reading(rtc', "hour") = IF s = 59 /\ m = 59 THEN IF h = 23 THEN 0 ELSE h + 1 ELSE h
  BY <1>1, <1>2, <1>3, <1>4, <1>5, TickReadings DEF Registers
<1>9. TimeOf(rtc) = (3600 * h) + (60 * m) + s
  BY DEF TimeOf, Seconds, Reading
<1>10. TimeOf(rtc') = (3600 * Reading(rtc', "hour")) + (60 * Reading(rtc', "min"))
                        + Reading(rtc', "sec")
  BY DEF TimeOf, Seconds, Reading
<1>11. TimeInRange(rtc')
  BY <1>1, <1>6, <1>7, <1>8 DEF TimeInRange, Sixtieths, Hours
<1> HIDE DEF s, m, h
<1> QED BY <1>1, <1>6, <1>7, <1>8, <1>9, <1>10, <1>11 DEF Day

\* Its date changes in the last second of the day, to the next.
LEMMA TickDate ==
  ASSUME rtc \in [Registers -> Bytes], Tick, TimeInRange(rtc), DateInRange(rtc)
  PROVE  /\ DateInRange(rtc')
         /\ \A r \in {"day", "month", "year"} :
              Reading(rtc', r) = IF TimeOf(rtc) = Day - 1 THEN NextDate(rtc, r)
                                 ELSE Reading(rtc, r)
<1> DEFINE d == Reading(rtc, "day")
           m == Reading(rtc, "month")
           y == Reading(rtc, "year")
           midnight == TimeOf(rtc) = Day - 1
<1>1. m \in 1..12 /\ y \in 0..99 /\ d \in 1..DaysIn(m, y) /\ DaysIn(m, y) \in 28..31
  BY DaysOfMonth DEF DateInRange
<1>2. Last("day") = DaysIn(m, y) /\ Last("month") = 12 /\ Last("year") = 99
  BY DEF Last, Reading
<1>3. First("day") = 1 /\ First("month") = 1 /\ First("year") = 0
  BY DEF First
<1>4. /\ Below("day") = {"sec", "min", "hour"}
      /\ Below("month") = {"sec", "min", "hour", "day"}
      /\ Below("year") = {"sec", "min", "hour", "day", "month"}
  BY DEF Below
<1>5. (AtLast("sec") /\ AtLast("min") /\ AtLast("hour")) <=> midnight
  <2> DEFINE sec == Reading(rtc, "sec")
             min == Reading(rtc, "min")
             hour == Reading(rtc, "hour")
  <2>1. Last("sec") = 59 /\ Last("min") = 59 /\ Last("hour") = 23
    BY DEF Last
  <2>2. TimeOf(rtc) = (3600 * hour) + (60 * min) + sec
    BY DEF TimeOf, Seconds, Reading
  <2>3. sec \in 0..59 /\ min \in 0..59 /\ hour \in 0..23
    BY DEF TimeInRange, Sixtieths, Hours
  <2>4. (AtLast("sec") /\ AtLast("min") /\ AtLast("hour"))
          <=> (sec = 59 /\ min = 59 /\ hour = 23)
    BY <2>1 DEF AtLast, Reading
  <2> HIDE DEF sec, min, hour
  <2>5. midnight <=> (sec = 59 /\ min = 59 /\ hour = 23)
    BY <2>2, <2>3 DEF Day
  <2> QED BY <2>4, <2>5
<1>6. (AtLast("day") <=> d = DaysIn(m, y)) /\ (AtLast("month") <=> m = 12)
        /\ (AtLast("year") <=> y = 99)
  BY <1>2 DEF AtLast, Reading
<1> DEFINE lastDay == d = DaysIn(m, y)
           lastMonth == lastDay /\ m = 12
<1>7. Reading(rtc', "day") = IF midnight THEN IF lastDay THEN 1 ELSE d + 1 ELSE d
  BY <1>1, <1>2, <1>3, <1>4, <1>5, <1>6, TickReadings DEF Registers
<1>8. Reading(rtc', "month") = IF midnight /\ lastDay THEN IF m = 12 THEN 1 ELSE m + 1 ELSE m
  <2>1. (\A b \in Below("month") : AtLast(b)) <=> midnight /\ lastDay
    BY <1>4, <1>5, <1>6
  <2> QED BY <1>1, <1>2, <1>3, <1>6, <2>1, TickReadings DEF Registers
<1>9. Reading(rtc', "year") = IF midnight /\ lastMonth THEN IF y = 99 THEN 0 ELSE y + 1 ELSE y
  <2>1. (\A b \in Below("year") : AtLast(b)) <=> midnight /\ lastMonth
    BY <1>4, <1>5, <1>6
  <2> QED BY <1>1, <1>2, <1>3, <1>6, <2>1, TickReadings DEF Registers
<1>10. \A r \in {"day", "month", "year"} :
         Reading(rtc', r) = IF midnight THEN NextDate(rtc, r) ELSE Reading(rtc, r)
  BY <1>7, <1>8, <1>9 DEF NextDate
<1>11. DateInRange(rtc')
  <2>1. Reading(rtc', "month") \in 1..12 /\ Reading(rtc', "year") \in 0..99
    BY <1>1, <1>8, <1>9
  <2>2. DaysIn(Reading(rtc', "month"), Reading(rtc', "year")) \in 28..31
    BY <2>1, DaysOfMonth
  <2>3. CASE midnight /\ lastDay
    BY <1>7, <2>1, <2>2, <2>3 DEF DateInRange
  <2>4. CASE ~(midnight /\ lastDay)
    <3>1. Reading(rtc', "month") = m /\ Reading(rtc', "year") = y
      BY <1>8, <1>9, <2>4
    <3>2. Reading(rtc', "day") \in 1..DaysIn(m, y)
      BY <1>1, <1>7, <2>4
    <3> QED BY <2>1, <3>1, <3>2 DEF DateInRange
  <2> QED BY <2>3, <2>4
<1> QED BY <1>10, <1>11

-----------------------------------------------------------------------------
\* The seconds since the midnight before the command in progress.
Now == TimeOf(began.rtc) + (ticks - began.ticks)

Dates == {"day", "month", "year"}

\* A second that has what get_time has read, of the same second, minute or hour
\* as one before now.
TimeSeen(u) ==
  /\ u \in Nat /\ TimeOf(began.rtc) <= u
  /\ u % 60 = seen[1]
  /\ access = 2 => u <= Now
  /\ access > 2 => (u \div 60) % 60 = seen[2]
  /\ access = 3 => u \div 60 <= Now \div 60
  /\ access > 3 => (u \div 3600) % 24 = seen[3]
  /\ access = 4 => u \div 3600 <= Now \div 3600

\* get_date has read c numbers before midnight and the others after it.
DateSeen(c) ==
  /\ c \in 0..(access - 1)
  /\ Now < Day => c = access - 1
  /\ \A k \in 1..(access - 1) :
       LET r == Reads["get_date"][k]
       IN  seen[k] = IF k <= c THEN Reading(began.rtc, r) ELSE NextDate(began.rtc, r)

ClockFollows ==
  /\ TimeInRange(rtc) /\ DateInRange(rtc)
  /\ TimeOf(rtc) = Now % Day
  /\ \A r \in Dates : Reading(rtc, r) = IF Now < Day THEN Reading(began.rtc, r)
                                        ELSE NextDate(began.rtc, r)

\* What a command that reads has seen, in less than a day.
ReadInv ==
  InRange(began.rtc) /\ ticks - began.ticks < Day /\ command \in {"get_time", "get_date"} =>
    /\ ClockFollows
    /\ command = "get_time" /\ access > 1 => \E u \in Nat : TimeSeen(u)
    /\ command = "get_date" => \E c \in 0..3 : DateSeen(c)

LEMMA SecondsRange ==
  ASSUME NEW h \in 0..23, NEW m \in 0..59, NEW s \in 0..59
  PROVE  Seconds(h, m, s) \in Nat /\ Seconds(h, m, s) < Day
BY DEF Seconds, Day

LEMMA TimeOfRange ==
  ASSUME NEW regs, TimeInRange(regs)
  PROVE  TimeOf(regs) \in Nat /\ TimeOf(regs) < Day
BY SecondsRange DEF TimeInRange, Sixtieths, Hours, TimeOf, Reading

\* The readings of a clock that stands at n.
LEMMA ReadingsOf ==
  ASSUME NEW n \in Nat, NEW regs, TimeInRange(regs), TimeOf(regs) = n % Day
  PROVE  /\ Reading(regs, "sec") = n % 60
         /\ Reading(regs, "min") = (n \div 60) % 60
         /\ Reading(regs, "hour") = (n \div 3600) % 24
<1>1. PICK s \in 0..59, m \in 0..59, h \in 0..23 :
        s = Reading(regs, "sec") /\ m = Reading(regs, "min") /\ h = Reading(regs, "hour")
  BY DEF TimeInRange, Sixtieths, Hours
<1>2. (3600 * h) + (60 * m) + s = n % Day
  BY <1>1 DEF TimeOf, Seconds, Reading
<1>3. PICK q \in Nat : n = (Day * q) + (n % Day)
  BY DEF Day
<1>4. n = (86400 * q) + (3600 * h) + (60 * m) + s
  BY <1>2, <1>3 DEF Day
<1>5. n % 60 = s /\ n \div 60 = (1440 * q) + (60 * h) + m
  BY <1>4
<1>6. n \div 3600 = (24 * q) + h
  BY <1>4
<1>7. ((1440 * q) + (60 * h) + m) % 60 = m
  OBVIOUS
<1>8. ((24 * q) + h) % 24 = h
  OBVIOUS
<1> QED BY <1>1, <1>5, <1>6, <1>7, <1>8

\* Reading the minutes, and then the hours, after the seconds.
LEMMA MinuteRead ==
  ASSUME NEW u \in Nat, NEW n \in Nat, u <= n
  PROVE  \E v \in Nat : /\ u <= v /\ v % 60 = u % 60
                        /\ v \div 60 = n \div 60
<1> DEFINE v == (60 * (n \div 60)) + (u % 60)
<1>1. v \in Nat /\ v % 60 = u % 60 /\ v \div 60 = n \div 60
  OBVIOUS
<1>2. u <= v
  OBVIOUS
<1> QED BY <1>1, <1>2

LEMMA HourRead ==
  ASSUME NEW u \in Nat, NEW n \in Nat, u \div 60 <= n \div 60
  PROVE  \E v \in Nat : /\ u <= v /\ v % 60 = u % 60
                        /\ (v \div 60) % 60 = (u \div 60) % 60
                        /\ v \div 3600 = n \div 3600
<1> DEFINE a == u \div 3600
           b == (u \div 60) % 60
           c == u % 60
           e == n \div 3600
           v == (3600 * e) + (60 * b) + c
<1>1. a \in Nat /\ b \in 0..59 /\ c \in 0..59 /\ e \in Nat
  OBVIOUS
<1>2. u = (3600 * a) + (60 * b) + c
  OBVIOUS
<1>3. a <= e
  OBVIOUS
<1> HIDE DEF a, b, c, e
<1>4. v \in Nat /\ u <= v
  BY <1>1, <1>2, <1>3
<1>5. v % 60 = c /\ v \div 60 = (60 * e) + b /\ v \div 3600 = e
  BY <1>1
<1>6. (v \div 60) % 60 = b
  BY <1>1, <1>5
<1> QED BY <1>4, <1>5, <1>6 DEF b, c, e

\* What was read is as far behind as the clock has run, or ahead by an hour.
LEMMA SeenAhead ==
  ASSUME NEW b \in Nat, b < Day, NEW n \in Nat, b <= n, n < b + Day,
         NEW u \in Nat, b <= u, u \div 3600 <= n \div 3600
  PROVE  ((u % Day) - b) % Day < (((n % Day) - b) % Day) + 3600
<1>1. u <= n + 3599
  OBVIOUS
<1>2. ((n % Day) - b) % Day = n - b
  BY DEF Day
<1>3. ((u % Day) - b) % Day <= u - b
  BY DEF Day
<1> QED BY <1>1, <1>2, <1>3 DEF Day

LEMMA ReadMenu ==
  ASSUME ClockInv, NEW c \in Commands, TimeMenu(c) PROVE ReadInv'
<1> SUFFICES ASSUME InRange(began'.rtc), command' \in {"get_time", "get_date"}
             PROVE  /\ ClockFollows' /\ access' = 1
                    /\ command' = "get_date" => DateSeen(0)'
  BY DEF ReadInv
<1>1. rtc' = rtc /\ ticks' = ticks /\ began' = [rtc |-> rtc, ticks |-> ticks] /\ access' = 1
  BY DEF TimeMenu
<1>2. TimeInRange(rtc) /\ DateInRange(rtc) /\ began'.rtc = rtc
  BY <1>1, RangeSplits
<1>3. Now' = TimeOf(rtc) /\ TimeOf(rtc) \in Nat /\ TimeOf(rtc) < Day
  <2>1. Now' = TimeOf(rtc) + (ticks - ticks)
    BY <1>1 DEF Now
  <2> QED BY <1>2, <2>1, TimeOfRange DEF ClockInv, ClockTypeOK
<1>4. TimeOf(rtc) = Now' % Day
  BY <1>3 DEF Day
<1>5. ClockFollows'
  BY <1>1, <1>2, <1>3, <1>4 DEF ClockFollows
<1>6. DateSeen(0)'
  BY <1>1 DEF DateSeen
<1> QED BY <1>1, <1>5, <1>6

LEMMA NowRange ==
  ASSUME ClockInv, InRange(began.rtc), ticks - began.ticks < Day
  PROVE  /\ TimeOf(began.rtc) \in Nat /\ TimeOf(began.rtc) < Day
         /\ Now \in Nat /\ TimeOf(began.rtc) <= Now /\ Now < TimeOf(began.rtc) + Day
<1>1. TimeOf(began.rtc) \in Nat /\ TimeOf(began.rtc) < Day
  BY RangeSplits, TimeOfRange
<1>2. ticks \in Nat /\ began.ticks \in Nat /\ began.ticks <= ticks
  BY DEF ClockInv, ClockTypeOK
<1>3. Day \in Nat
  BY DEF Day
<1> QED BY <1>1, <1>2, <1>3 DEF Now

LEMMA ReadTick ==
  ASSUME ClockInv, ReadInv, Tick PROVE ReadInv'
<1> SUFFICES ASSUME InRange(began'.rtc), ticks' - began'.ticks < Day,
                    command' \in {"get_time", "get_date"}
             PROVE  /\ ClockFollows'
                    /\ command' = "get_time" /\ access' > 1 => \E u \in Nat : TimeSeen(u)'
                    /\ command' = "get_date" => \E c \in 0..3 : DateSeen(c)'
  BY DEF ReadInv
<1> DEFINE B == TimeOf(began.rtc)
<1>1. ticks' = ticks + 1 /\ UNCHANGED <<command, access, line, seen, taken, ahead, shown, commands, began>>
  BY DEF Tick
<1>2. /\ ticks \in Nat /\ began.ticks \in Nat /\ began.ticks <= ticks
      /\ rtc \in [Registers -> Bytes] /\ Day \in Nat
  BY DEF ClockInv, ClockTypeOK, Day
<1>3. InRange(began.rtc) /\ ticks - began.ticks < Day /\ ticks - began.ticks < Day - 1
  BY <1>1, <1>2
<1>4. /\ ClockFollows
      /\ command = "get_time" /\ access > 1 => \E u \in Nat : TimeSeen(u)
      /\ command = "get_date" => \E c \in 0..3 : DateSeen(c)
  BY <1>1, <1>3 DEF ReadInv
<1>5. B \in Nat /\ B < Day /\ Now \in Nat /\ B <= Now /\ Now < B + Day
  BY <1>3, NowRange
<1>6. Now' = Now + 1 /\ Now + 1 < B + Day /\ TimeOf(began'.rtc) = B
  <2>1. Now' = B + ((ticks + 1) - began.ticks) /\ Now = B + (ticks - began.ticks)
    BY <1>1 DEF Now
  <2> HIDE DEF B
  <2>2. TimeOf(began'.rtc) = B
    BY <1>1 DEF B
  <2> QED BY <1>2, <1>3, <1>5, <2>1, <2>2
<1> HIDE DEF B
<1>7. TimeInRange(rtc') /\ TimeOf(rtc') = Now' % Day
  <2>1. TimeInRange(rtc') /\ TimeOf(rtc') = ((Now % Day) + 1) % Day
    BY <1>2, <1>4, TickTime DEF ClockFollows
  <2>2. ((Now % Day) + 1) % Day = (Now + 1) % Day
    BY <1>5 DEF Day
  <2> QED BY <1>6, <2>1, <2>2
<1>8. /\ DateInRange(rtc')
      /\ \A r \in Dates : Reading(rtc', r) = IF Now' < Day THEN Reading(began.rtc, r)
                                             ELSE NextDate(began.rtc, r)
  <2>1. /\ DateInRange(rtc')
        /\ \A r \in Dates : Reading(rtc', r) = IF Now % Day = Day - 1 THEN NextDate(rtc, r)
                                               ELSE Reading(rtc, r)
    BY <1>2, <1>4, TickDate DEF ClockFollows, Dates
  <2>2. Now % Day = Day - 1 <=> Now = Day - 1
    BY <1>5, <1>6 DEF Day
  <2>3. CASE Now = Day - 1
    <3>1. \A r \in Dates : Reading(rtc, r) = Reading(began.rtc, r)
      BY <1>2, <1>4, <2>3 DEF ClockFollows
    <3>2. \A r \in Dates : NextDate(rtc, r) = NextDate(began.rtc, r)
      BY <3>1 DEF NextDate, Dates
    <3>3. ~(Now' < Day)
      BY <1>2, <1>6, <2>3
    <3> QED BY <2>1, <2>2, <2>3, <3>2, <3>3
  <2>4. CASE Now # Day - 1
    <3>1. Now' < Day <=> Now < Day
      BY <1>2, <1>5, <1>6, <2>4
    <3> QED BY <1>4, <2>1, <2>2, <2>4, <3>1 DEF ClockFollows
  <2> QED BY <2>3, <2>4
<1>9. ClockFollows'
  BY <1>1, <1>7, <1>8 DEF ClockFollows
<1>10. ASSUME NEW u \in Nat, TimeSeen(u) PROVE TimeSeen(u)'
  <2>1. Now \div 60 <= (Now + 1) \div 60 /\ Now \div 3600 <= (Now + 1) \div 3600
    BY <1>5
  <2>2. \A w \in Nat : (w <= Now => w <= Now + 1)
                       /\ (w <= Now \div 60 => w <= (Now + 1) \div 60)
                       /\ (w <= Now \div 3600 => w <= (Now + 1) \div 3600)
    BY <1>5
  <2>3. u \div 60 \in Nat /\ u \div 3600 \in Nat
    OBVIOUS
  <2> QED BY <1>1, <1>6, <1>10, <2>2, <2>3 DEF TimeSeen, B
<1>11. ASSUME NEW c \in 0..3, DateSeen(c) PROVE DateSeen(c)'
  <2>1. Now' < Day => Now < Day
    BY <1>2, <1>5, <1>6
  <2> QED BY <1>1, <1>11, <2>1 DEF DateSeen
<1> QED BY <1>1, <1>4, <1>9, <1>10, <1>11

LEMMA ReadStep ==
  ASSUME ClockInv, ReadInv, InRange(began.rtc), ticks - began.ticks < Day,
         NEW c \in {"get_time", "get_date"}, ReadRegister(c)
  PROVE  /\ ClockFollows /\ ClockFollows'
         /\ Now \in Nat /\ TimeOf(began.rtc) \in Nat /\ TimeOf(began.rtc) <= Now /\ Now' = Now
         /\ command = c /\ command' = c /\ access \in 1..3 /\ access' = access + 1
         /\ began' = began
         /\ Len(seen) = access - 1 /\ Len(seen') = access
         /\ seen'[access] = Reading(rtc, Reads[c][access])
         /\ \A k \in 1..(access - 1) : seen'[k] = seen[k]
<1>1. /\ command = c /\ access \in 1..3 /\ access' = access + 1
      /\ seen' = Append(seen, FromBcd(rtc[Reads[c][access]]))
      /\ UNCHANGED <<rtc, command, ticks, began>>
  BY DEF ReadRegister, ClockInv, ClockTypeOK
<1>2. seen \in Seq(0..165) /\ Len(seen) = access - 1
  BY <1>1 DEF ClockInv, ClockTypeOK
<1>3. /\ Len(seen') = access /\ seen'[access] = Reading(rtc, Reads[c][access])
      /\ \A k \in 1..(access - 1) : seen'[k] = seen[k]
  BY <1>1, <1>2 DEF Reading
<1>4. ClockFollows
  BY <1>1 DEF ReadInv
<1>5. Now' = Now
  BY <1>1 DEF Now
<1>6. ClockFollows'
  BY <1>1, <1>4, <1>5 DEF ClockFollows
<1> QED BY <1>1, <1>2, <1>3, <1>4, <1>5, <1>6, NowRange

LEMMA TimeRead ==
  ASSUME ClockInv, ReadInv, ReadRegister("get_time") PROVE ReadInv'
<1> SUFFICES ASSUME InRange(began'.rtc), ticks' - began'.ticks < Day
             PROVE  /\ ClockFollows' /\ command' = "get_time"
                    /\ access' > 1 => \E u \in Nat : TimeSeen(u)'
  BY DEF ReadInv
<1> DEFINE B == TimeOf(began.rtc)
           s == Reading(rtc, "sec")
           m == Reading(rtc, "min")
           h == Reading(rtc, "hour")
<1>0. InRange(began.rtc) /\ ticks - began.ticks < Day
  BY DEF ReadRegister
<1>1. /\ ClockFollows /\ ClockFollows'
      /\ Now \in Nat /\ B \in Nat /\ B <= Now /\ Now' = Now
      /\ command = "get_time" /\ command' = "get_time"
      /\ access \in 1..3 /\ access' = access + 1 /\ began' = began
      /\ seen'[access] = Reading(rtc, Reads["get_time"][access])
      /\ \A k \in 1..(access - 1) : seen'[k] = seen[k]
  BY <1>0, ReadStep
<1>2. s = Now % 60 /\ m = (Now \div 60) % 60 /\ h = (Now \div 3600) % 24
  BY <1>1, ReadingsOf DEF ClockFollows
<1>3. TimeOf(began'.rtc) = B
  BY <1>1
<1> HIDE DEF B
<1>4. CASE access = 1
  <2>1. seen'[1] = s
    BY <1>1, <1>4 DEF Reads
  <2>2. TimeSeen(Now)'
    BY <1>1, <1>2, <1>3, <1>4, <2>1 DEF TimeSeen
  <2> QED BY <1>1, <2>2
<1>5. CASE access = 2
  <2>1. PICK u \in Nat : TimeSeen(u)
    BY <1>0, <1>1, <1>5 DEF ReadInv
  <2>2. B <= u /\ u % 60 = seen[1] /\ u <= Now
    BY <1>5, <2>1 DEF TimeSeen, B
  <2>3. PICK v \in Nat : u <= v /\ v % 60 = u % 60 /\ v \div 60 = Now \div 60
    BY <1>1, <2>2, MinuteRead
  <2>4. seen'[2] = m /\ seen'[1] = seen[1]
    BY <1>1, <1>5 DEF Reads
  <2>5. B <= v
    BY <1>1, <2>2, <2>3
  <2>6. v % 60 = seen'[1] /\ (v \div 60) % 60 = seen'[2] /\ v \div 60 <= Now \div 60
    BY <1>1, <1>2, <2>2, <2>3, <2>4
  <2>7. TimeSeen(v)'
    BY <1>1, <1>3, <1>5, <2>5, <2>6 DEF TimeSeen
  <2> QED BY <1>1, <2>7
<1>6. CASE access = 3
  <2>1. PICK u \in Nat : TimeSeen(u)
    BY <1>0, <1>1, <1>6 DEF ReadInv
  <2>2. B <= u /\ u % 60 = seen[1] /\ (u \div 60) % 60 = seen[2] /\ u \div 60 <= Now \div 60
    BY <1>6, <2>1 DEF TimeSeen, B
  <2>3. PICK v \in Nat : /\ u <= v /\ v % 60 = u % 60
                         /\ (v \div 60) % 60 = (u \div 60) % 60
                         /\ v \div 3600 = Now \div 3600
    BY <1>1, <2>2, HourRead
  <2>4. seen'[3] = h /\ seen'[1] = seen[1] /\ seen'[2] = seen[2]
    BY <1>1, <1>6 DEF Reads
  <2>5. B <= v
    BY <1>1, <2>2, <2>3
  <2>6. /\ v % 60 = seen'[1] /\ (v \div 60) % 60 = seen'[2]
        /\ (v \div 3600) % 24 = seen'[3] /\ v \div 3600 <= Now \div 3600
    BY <1>1, <1>2, <2>2, <2>3, <2>4
  <2>7. TimeSeen(v)'
    BY <1>1, <1>3, <1>6, <2>5, <2>6 DEF TimeSeen
  <2> QED BY <1>1, <2>7
<1> QED BY <1>1, <1>4, <1>5, <1>6

LEMMA DateRead ==
  ASSUME ClockInv, ReadInv, ReadRegister("get_date") PROVE ReadInv'
<1> SUFFICES ASSUME InRange(began'.rtc), ticks' - began'.ticks < Day
             PROVE  /\ ClockFollows' /\ command' = "get_date"
                    /\ \E c \in 0..3 : DateSeen(c)'
  BY DEF ReadInv
<1>0. InRange(began.rtc) /\ ticks - began.ticks < Day
  BY DEF ReadRegister
<1> DEFINE r == Reads["get_date"][access]
<1>1. /\ ClockFollows /\ ClockFollows' /\ Now' = Now
      /\ command = "get_date" /\ command' = "get_date"
      /\ access \in 1..3 /\ access' = access + 1 /\ began' = began
      /\ seen'[access] = Reading(rtc, r)
      /\ \A k \in 1..(access - 1) : seen'[k] = seen[k]
  BY <1>0, ReadStep
<1>2. PICK c \in 0..3 : DateSeen(c)
  BY <1>0, <1>1 DEF ReadInv
<1>3. r \in Dates
  BY <1>1 DEF Reads, Dates
<1>4. /\ c \in 0..(access - 1)
      /\ Now < Day => c = access - 1
      /\ \A k \in 1..(access - 1) :
           seen[k] = IF k <= c THEN Reading(began.rtc, Reads["get_date"][k])
                     ELSE NextDate(began.rtc, Reads["get_date"][k])
  BY <1>2 DEF DateSeen
<1>5. \A k \in 1..access : k = access \/ k \in 1..(access - 1)
  BY <1>1
<1>6. CASE Now < Day
  <2>0. PICK n \in 1..3 : n = access
    BY <1>1
  <2>1. seen'[access] = Reading(began.rtc, r)
    BY <1>1, <1>3, <1>6 DEF ClockFollows
  <2>2. DateSeen(n)'
    BY <2>0, <1>1, <1>4, <1>5, <1>6, <2>1 DEF DateSeen
  <2> QED BY <1>1, <2>2
<1>7. CASE ~(Now < Day)
  <2>1. seen'[access] = NextDate(began.rtc, r)
    BY <1>1, <1>3, <1>7 DEF ClockFollows
  <2>2. DateSeen(c)'
    BY <1>1, <1>4, <1>5, <1>7, <2>1 DEF DateSeen
  <2> QED BY <1>1, <2>2
<1> QED BY <1>6, <1>7

LEMMA ReadNext == ClockInv /\ ReadInv /\ [ClockNext]_clock_vars => ReadInv'
<1> SUFFICES ASSUME ClockInv, ReadInv, [ClockNext]_clock_vars PROVE ReadInv'
  OBVIOUS
<1>1. CASE Tick
  BY <1>1, ReadTick
<1>2. CASE \E c \in Commands : TimeMenu(c)
  BY <1>2, ReadMenu
<1>3. CASE GetTime \/ GetDate
  <2>1. ASSUME NEW c, NEW text, ShowText(c, text) PROVE ReadInv'
    BY <2>1 DEF ShowText, ReadInv
  <2> QED BY <1>3, <2>1, TimeRead, DateRead DEF GetTime, GetDate
<1>4. CASE SetTime \/ SetDate
  <2>1. command' \notin {"get_time", "get_date"}
    BY <1>4 DEF SetTime, SetDate, WriteRegister, RefuseHour, Confirm
  <2> QED BY <2>1 DEF ReadInv
<1>5. CASE TypeAhead \/ UNCHANGED clock_vars
  BY <1>5 DEF TypeAhead, clock_vars, ReadInv, ClockFollows, TimeSeen, DateSeen, Now
<1> QED BY <1>1, <1>2, <1>3, <1>4, <1>5 DEF ClockNext

LEMMA Composed ==
  ASSUME NEW u \in Nat
  PROVE  Seconds((u \div 3600) % 24, (u \div 60) % 60, u % 60) = u % Day
<1> DEFINE a == u \div 3600
           b == (u \div 60) % 60
           c == u % 60
<1>1. a \in Nat /\ b \in 0..59 /\ c \in 0..59 /\ u = (3600 * a) + (60 * b) + c
  OBVIOUS
<1>2. Seconds(a % 24, b, c) = (3600 * (a % 24)) + (60 * b) + c
  BY DEF Seconds
<1> HIDE DEF a, b, c
<1>3. u % 86400 = (3600 * (a % 24)) + (60 * b) + c
  <2>1. PICK e \in Nat, f \in 0..23 : a = (24 * e) + f /\ f = a % 24
    <3>1. a \div 24 \in Nat /\ a % 24 \in 0..23 /\ a = (24 * (a \div 24)) + (a % 24)
      BY <1>1
    <3> QED BY <3>1
  <2>2. PICK g \in Nat : g = (3600 * f) + (60 * b) + c /\ g < 86400
    BY <1>1
  <2>3. u = (86400 * e) + g
    BY <1>1, <2>1, <2>2
  <2>4. g < 86400
    BY <2>2
  <2>5. u % 86400 = g
    BY <2>3, <2>4
  <2> QED BY <2>1, <2>2, <2>5
<1> QED BY <1>2, <1>3 DEF Day, a, b, c

\* What is read on both sides of midnight.
LEMMA DateAhead ==
  ASSUME NEW regs, DateInRange(regs), NEW c \in 0..3,
         NEW d, NEW m, NEW y,
         d = IF 1 <= c THEN Reading(regs, "day") ELSE NextDate(regs, "day"),
         m = IF 2 <= c THEN Reading(regs, "month") ELSE NextDate(regs, "month"),
         y = IF 3 <= c THEN Reading(regs, "year") ELSE NextDate(regs, "year"),
         NEW now,
         now = Date(NextDate(regs, "day"), NextDate(regs, "month"), NextDate(regs, "year"))
  PROVE  (Date(d, m, y) - DateOf(regs)) % Century
           < ((now - DateOf(regs)) % Century) + (12 * 31)
<1>1. PICK m0 \in 1..12, y0 \in 0..99 :
        m0 = Reading(regs, "month") /\ y0 = Reading(regs, "year")
  BY DEF DateInRange
<1>l. PICK last \in 28..31 : last = DaysIn(m0, y0)
  BY DaysOfMonth
<1>d. PICK d0 \in 1..last : d0 = Reading(regs, "day")
  BY <1>1, <1>l DEF DateInRange
<1>2. PICK d1 \in 1..31 : d1 = IF d0 = last THEN 1 ELSE d0 + 1
  <2>1. (IF d0 = last THEN 1 ELSE d0 + 1) \in 1..31
    OBVIOUS
  <2> QED BY <2>1
<1>m. PICK m1 \in 1..12 : m1 = IF d0 = last THEN IF m0 = 12 THEN 1 ELSE m0 + 1 ELSE m0
  <2>1. (IF d0 = last THEN IF m0 = 12 THEN 1 ELSE m0 + 1 ELSE m0) \in 1..12
    OBVIOUS
  <2> QED BY <2>1
<1>y. PICK y1 \in 0..99 : y1 = IF d0 = last /\ m0 = 12 THEN IF y0 = 99 THEN 0 ELSE y0 + 1 ELSE y0
  <2>1. (IF d0 = last /\ m0 = 12 THEN IF y0 = 99 THEN 0 ELSE y0 + 1 ELSE y0) \in 0..99
    OBVIOUS
  <2> QED BY <2>1
<1>3. d1 = NextDate(regs, "day") /\ m1 = NextDate(regs, "month") /\ y1 = NextDate(regs, "year")
  BY <1>1, <1>l, <1>d, <1>2, <1>m, <1>y DEF NextDate
<1>4. PICK D0 \in Nat : D0 = (372 * y0) + (31 * (m0 - 1)) + d0 - 1
  OBVIOUS
<1>5. PICK D1 \in Nat : D1 = (372 * y1) + (31 * (m1 - 1)) + d1 - 1
  OBVIOUS
<1>e. \A a, b, e \in Int : Date(a, b, e) = (372 * e) + (31 * (b - 1)) + a - 1
                             /\ Date(a, b, e) \in Int
  BY DEF Date
<1>6. PICK D \in Int : /\ D = Date(d, m, y)
                       /\ c = 0 => D = D1
                       /\ c = 1 => D = (372 * y1) + (31 * (m1 - 1)) + d0 - 1
                       /\ c = 2 => D = (372 * y1) + (31 * (m0 - 1)) + d0 - 1
                       /\ c = 3 => D = D0
  <2>1. CASE c = 0
    <3>1. d = d1 /\ m = m1 /\ y = y1
      BY <1>3, <2>1
    <3> QED BY <1>5, <1>e, <2>1, <3>1
  <2>2. CASE c = 1
    <3>1. d = d0 /\ m = m1 /\ y = y1
      BY <1>d, <1>3, <2>2
    <3> QED BY <1>e, <2>2, <3>1
  <2>3. CASE c = 2
    <3>1. d = d0 /\ m = m0 /\ y = y1
      BY <1>1, <1>d, <1>3, <2>3
    <3> QED BY <1>e, <2>3, <3>1
  <2>4. CASE c = 3
    <3>1. d = d0 /\ m = m0 /\ y = y0
      BY <1>1, <1>d, <2>4
    <3> QED BY <1>4, <1>e, <2>4, <3>1
  <2> QED BY <2>1, <2>2, <2>3, <2>4
<1>7. DateOf(regs) = D0 /\ now = D1 /\ Century = 37200
  <2>1. DateOf(regs) = Date(d0, m0, y0)
    BY <1>1, <1>d DEF DateOf, Reading
  <2>2. now = Date(d1, m1, y1)
    BY <1>3
  <2>3. DateOf(regs) = D0
    <3>1. Date(d0, m0, y0) = (372 * y0) + (31 * (m0 - 1)) + d0 - 1
      BY <1>e
    <3> QED BY <1>4, <2>1, <3>1
  <2>4. now = D1
    <3>1. Date(d1, m1, y1) = (372 * y1) + (31 * (m1 - 1)) + d1 - 1
      BY <1>e
    <3> QED BY <1>5, <2>2, <3>1
  <2> QED BY <2>3, <2>4 DEF Century
<1>8. (D - D0) % 37200 < ((D1 - D0) % 37200) + 372
  <2>1. (D1 - D0) % 37200 >= 0
    OBVIOUS
  <2>2. CASE d0 # last
    BY <1>2, <1>m, <1>y, <1>4, <1>5, <1>6, <2>1, <2>2
  <2>3. CASE d0 = last /\ m0 # 12
    BY <1>2, <1>m, <1>y, <1>4, <1>5, <1>6, <2>1, <2>3
  <2>4. CASE d0 = last /\ m0 = 12 /\ y0 # 99
    BY <1>2, <1>m, <1>y, <1>4, <1>5, <1>6, <2>1, <2>4
  <2>5. CASE d0 = last /\ m0 = 12 /\ y0 = 99
    BY <1>2, <1>m, <1>y, <1>4, <1>5, <1>6, <2>1, <2>5
  <2> QED BY <2>2, <2>3, <2>4, <2>5
<1> QED BY <1>6, <1>7, <1>8

LEMMA ReadIsNotBehind == ClockInv /\ ReadInv => ReadNotBehind
<1> SUFFICES ASSUME ClockInv, ReadInv, InRange(began.rtc), access = 4,
                    ticks - began.ticks < Day
             PROVE  /\ command = "get_time" =>
                         (Seconds(seen[3], seen[2], seen[1]) - TimeOf(began.rtc)) % Day
                           < ((TimeOf(rtc) - TimeOf(began.rtc)) % Day) + 3600
                    /\ command = "get_date" =>
                         (Date(seen[1], seen[2], seen[3]) - DateOf(began.rtc)) % Century
                           < ((DateOf(rtc) - DateOf(began.rtc)) % Century) + (12 * 31)
  BY DEF ReadNotBehind
<1>1. CASE command = "get_time"
  <2>1. PICK u \in Nat : TimeSeen(u) /\ ClockFollows
    BY <1>1 DEF ReadInv
  <2>2. /\ TimeOf(began.rtc) <= u /\ u \div 3600 <= Now \div 3600
        /\ Seconds(seen[3], seen[2], seen[1]) = u % Day
    BY <2>1, Composed DEF TimeSeen
  <2>3. TimeOf(rtc) = Now % Day
    BY <2>1 DEF ClockFollows
  <2> QED BY <1>1, <2>2, <2>3, NowRange, SeenAhead
<1>2. CASE command = "get_date"
  <2>1. PICK c \in 0..3 : DateSeen(c) /\ ClockFollows
    BY <1>2 DEF ReadInv
  <2>2. DateInRange(began.rtc)
    BY RangeSplits
  <2> DEFINE old(r) == Reading(began.rtc, r)
             new(r) == NextDate(began.rtc, r)
  <2>3. /\ seen[1] = IF 1 <= c THEN old("day") ELSE new("day")
        /\ seen[2] = IF 2 <= c THEN old("month") ELSE new("month")
        /\ seen[3] = IF 3 <= c THEN old("year") ELSE new("year")
    BY <2>1 DEF DateSeen, Reads
  <2>4. CASE Now < Day
    <3>1. DateOf(rtc) = DateOf(began.rtc)
      BY <2>1, <2>4 DEF ClockFollows, DateOf, Reading, Dates
    <3>2. Date(seen[1], seen[2], seen[3]) = DateOf(began.rtc) /\ DateOf(began.rtc) \in Int
      <4>1. c = 3
        BY <2>1, <2>4 DEF DateSeen
      <4>2. seen[1] = old("day") /\ seen[2] = old("month") /\ seen[3] = old("year")
        BY <2>3, <4>1
      <4>3. old("day") \in Int /\ old("month") \in Int /\ old("year") \in Int
        BY <2>2, DaysOfMonth DEF DateInRange
      <4> QED BY <4>2, <4>3 DEF DateOf, Date, Reading
    <3> QED BY <1>2, <3>1, <3>2 DEF Century
  <2>5. CASE ~(Now < Day)
    <3>1. DateOf(rtc) = Date(new("day"), new("month"), new("year"))
      BY <2>1, <2>5 DEF ClockFollows, DateOf, Reading, Dates
    <3> QED BY <1>2, <2>2, <2>3, <3>1, DateAhead
  <2> QED BY <2>4, <2>5
<1> QED BY <1>1, <1>2

\* What get_time and get_date show is never before the time the command began
\* at, nor ahead by an hour or a year, for any clock, any prompts in between and
\* any moments of the reads (user_commands.c:99, 269), in less than a day.
THEOREM ReadIsRecent == ClockSpec => []ReadNotBehind
<1>1. ClockInit => ReadInv
  BY DEF ClockInit, ReadInv
<1>2. ClockInv /\ ReadInv /\ ClockInv' /\ [ClockNext]_clock_vars => ReadInv'
  BY ReadNext
<1> QED BY <1>1, <1>2, ClockInvariance, ReadIsNotBehind, PTL DEF ClockSpec

-----------------------------------------------------------------------------
\* The time of day set_time has set so far, the rest 0.
SetSoFar == Seconds(taken[1], IF access > 2 THEN taken[2] ELSE 0,
                              IF access > 3 THEN taken[3] ELSE 0)

TakenInRange == /\ access > 1 => taken[1] \in Hours
                /\ access > 2 => taken[2] \in Sixtieths
                /\ access > 3 => taken[3] \in Sixtieths

(***************************************************************************)
(* The clock is ahead of what was set by the minutes and seconds it had    *)
(* when the hour was written and by the seconds that have passed.          *)
(***************************************************************************)
SetInv ==
  command = "set_time" /\ InRange(began.rtc) /\ TakenInRange =>
    /\ TimeInRange(rtc)
    /\ access > 1 => (TimeOf(rtc) - SetSoFar) % Day <= 3599 + (ticks - began.ticks)

LEMMA SetTick == ASSUME ClockInv, SetInv, Tick PROVE SetInv'
<1> SUFFICES ASSUME command' = "set_time", InRange(began'.rtc), TakenInRange' PROVE
      /\ TimeInRange(rtc')
      /\ access' > 1 => (TimeOf(rtc') - SetSoFar') % Day <= 3599 + (ticks' - began'.ticks)
  BY DEF SetInv
<1>1. ticks' = ticks + 1 /\ UNCHANGED <<command, access, taken, began>>
  BY DEF Tick
<1>2. TakenInRange /\ SetSoFar' = SetSoFar
  BY <1>1 DEF TakenInRange, SetSoFar
<1>3. /\ TimeInRange(rtc)
      /\ access > 1 => (TimeOf(rtc) - SetSoFar) % Day <= 3599 + (ticks - began.ticks)
  BY <1>1, <1>2 DEF SetInv
<1>4. /\ rtc \in [Registers -> Bytes] /\ ticks \in Nat /\ began.ticks \in Nat
      /\ access \in 1..4
  BY DEF ClockInv, ClockTypeOK
<1>5. TimeInRange(rtc') /\ TimeOf(rtc') = (TimeOf(rtc) + 1) % Day
  BY <1>3, <1>4, TickTime
<1>6. ASSUME access > 1
      PROVE  (TimeOf(rtc') - SetSoFar) % Day <= ((TimeOf(rtc) - SetSoFar) % Day) + 1
  <2>1. PICK t \in Nat : t = TimeOf(rtc)
    BY <1>3, TimeOfRange
  <2>2. PICK w \in Int : w = SetSoFar
    <3>1. taken[1] \in Int /\ (access > 2 => taken[2] \in Int) /\ (access > 3 => taken[3] \in Int)
      BY <1>2, <1>6 DEF TakenInRange, Hours, Sixtieths
    <3>2. SetSoFar \in Int
      BY <3>1 DEF SetSoFar, Seconds
    <3> QED BY <3>2
  <2>3. (((t + 1) % Day) - w) % Day <= ((t - w) % Day) + 1
    BY DEF Day
  <2> QED BY <1>5, <2>1, <2>2, <2>3
<1>7. ASSUME access > 1
      PROVE  (TimeOf(rtc) - SetSoFar) % Day \in Int /\ (TimeOf(rtc') - SetSoFar) % Day \in Int
  <2>1. TimeOf(rtc) \in Int /\ TimeOf(rtc') \in Int
    BY <1>3, <1>5, TimeOfRange
  <2>2. taken[1] \in Int /\ (access > 2 => taken[2] \in Int) /\ (access > 3 => taken[3] \in Int)
    BY <1>2, <1>7 DEF TakenInRange, Hours, Sixtieths
  <2>3. SetSoFar \in Int
    BY <2>2 DEF SetSoFar, Seconds
  <2> QED BY <2>1, <2>3 DEF Day
<1> QED BY <1>1, <1>2, <1>3, <1>4, <1>5, <1>6, <1>7

LEMMA HourSet ==
  ASSUME NEW t \in Hours, NEW m \in Sixtieths, NEW s \in Sixtieths
  PROVE  (Seconds(t, m, s) - Seconds(t, 0, 0)) % Day <= 3599
<1>1. Seconds(t, m, s) - Seconds(t, 0, 0) = (60 * m) + s
  BY DEF Seconds, Hours, Sixtieths
<1>2. ((60 * m) + s) % 86400 = (60 * m) + s
  BY DEF Hours, Sixtieths
<1> QED BY <1>1, <1>2 DEF Day, Hours, Sixtieths

LEMMA MinuteSet ==
  ASSUME NEW h \in Hours, NEW m \in Sixtieths, NEW s \in Sixtieths,
         NEW t \in Hours, NEW n \in Sixtieths
  PROVE  (Seconds(h, n, s) - Seconds(t, n, 0)) % Day
           <= (Seconds(h, m, s) - Seconds(t, 0, 0)) % Day
<1> DEFINE d == (h - t) % 24
<1>1. d \in 0..23
  BY DEF Hours, Sixtieths
<1>2. Seconds(h, m, s) - Seconds(t, 0, 0) = (3600 * (h - t)) + (60 * m) + s
  BY DEF Seconds, Hours, Sixtieths
<1>3. Seconds(h, n, s) - Seconds(t, n, 0) = (3600 * (h - t)) + s
  BY DEF Seconds, Hours, Sixtieths
<1>4. ((3600 * (h - t)) + (60 * m) + s) % 86400 = (3600 * d) + (60 * m) + s
  BY DEF Hours, Sixtieths
<1>5. ((3600 * (h - t)) + s) % 86400 = (3600 * d) + s
  BY DEF Hours, Sixtieths
<1> HIDE DEF d
<1>6. (3600 * d) + s <= (3600 * d) + (60 * m) + s
  BY <1>1 DEF Hours, Sixtieths
<1> QED BY <1>1, <1>2, <1>3, <1>4, <1>5, <1>6 DEF Day, Hours, Sixtieths

LEMMA SecondSet ==
  ASSUME NEW h \in Hours, NEW m \in Sixtieths, NEW s \in Sixtieths,
         NEW t \in Hours, NEW n \in Sixtieths, NEW w \in Sixtieths
  PROVE  (Seconds(h, m, w) - Seconds(t, n, w)) % Day
           <= (Seconds(h, m, s) - Seconds(t, n, 0)) % Day
<1>1. PICK d \in Int : d = (60 * (h - t)) + (m - n)
  BY DEF Hours, Sixtieths
<1>2. Seconds(h, m, s) - Seconds(t, n, 0) = (60 * d) + s
  BY <1>1 DEF Seconds, Hours, Sixtieths
<1>3. Seconds(h, m, w) - Seconds(t, n, w) = 60 * d
  BY <1>1 DEF Seconds, Hours, Sixtieths
<1>4. (60 * d) % 86400 <= ((60 * d) + s) % 86400
  BY DEF Hours, Sixtieths
<1> QED BY <1>2, <1>3, <1>4 DEF Day, Hours, Sixtieths

LEMMA SetWrite ==
  ASSUME ClockInv, SetInv, NEW n \in Lines, WriteRegister("set_time", n)
  PROVE  SetInv'
<1> SUFFICES ASSUME InRange(began'.rtc), TakenInRange' PROVE
      /\ TimeInRange(rtc')
      /\ access' > 1 => (TimeOf(rtc') - SetSoFar') % Day <= 3599 + (ticks' - began'.ticks)
  BY DEF SetInv
<1> DEFINE r == Writes["set_time"][access]
<1>1. /\ command = "set_time" /\ access \in 1..3 /\ access' = access + 1
      /\ rtc' = [rtc EXCEPT ![r] = ToBcd(n)] /\ taken' = Append(taken, n)
      /\ UNCHANGED <<command, ticks, began>>
  BY DEF WriteRegister, ClockInv, ClockTypeOK
<1>2. /\ rtc \in [Registers -> Bytes] /\ taken \in Seq(Inputs \union {0})
      /\ Len(taken) = access - 1
  BY <1>1 DEF ClockInv, ClockTypeOK
<1>a. access \in 1..3 /\ access' = access + 1
  BY <1>1
<1>3. taken'[access] = n /\ \A k \in 1..(access - 1) : taken'[k] = taken[k]
  BY <1>1, <1>2
<1>4. TakenInRange
  <2>0. (access > 1 => 1 \in 1..(access - 1)) /\ (access > 2 => 2 \in 1..(access - 1))
    BY <1>1
  <2>1. access > 1 => taken'[1] = taken[1]
    BY <1>3, <2>0
  <2>2. access > 2 => taken'[2] = taken[2]
    BY <1>3, <2>0
  <2>3. ~(access > 3) /\ access' > 1 /\ (access > 1 => access' > 2)
          /\ (access > 2 => access > 1)
    BY <1>a
  <2> QED BY <2>1, <2>2, <2>3 DEF TakenInRange
<1>5. /\ TimeInRange(rtc)
      /\ access > 1 => (TimeOf(rtc) - SetSoFar) % Day <= 3599 + (ticks - began.ticks)
  BY <1>1, <1>4 DEF SetInv
<1>6. PICK e \in Nat : e = ticks - began.ticks
  BY DEF ClockInv, ClockTypeOK
<1>7. PICK h \in Hours, m \in Sixtieths, s \in Sixtieths :
        /\ h = Reading(rtc, "hour") /\ m = Reading(rtc, "min") /\ s = Reading(rtc, "sec")
        /\ TimeOf(rtc) = Seconds(h, m, s)
  <2>1. PICK h \in Hours, m \in Sixtieths, s \in Sixtieths :
          h = Reading(rtc, "hour") /\ m = Reading(rtc, "min") /\ s = Reading(rtc, "sec")
    BY <1>5 DEF TimeInRange
  <2>2. TimeOf(rtc) = Seconds(h, m, s)
    BY <2>1 DEF TimeOf, Reading
  <2> QED BY <2>1, <2>2
<1>8. ASSUME n \in 0..99 PROVE Reading(rtc', r) = n
  <2>1. r \in Registers
    BY <1>1 DEF Writes, Registers
  <2> QED BY <1>1, <1>2, <1>8, <2>1, BcdRoundTrip DEF Reading
<1>9. \A q \in Registers \ {r} : Reading(rtc', q) = Reading(rtc, q)
  BY <1>1, <1>2 DEF Reading
<1>10. TimeOf(rtc') = Seconds(Reading(rtc', "hour"), Reading(rtc', "min"), Reading(rtc', "sec"))
  BY DEF TimeOf, Reading
<1> HIDE DEF r
<1>11. CASE access = 1
  <2>0. taken'[1] = n /\ access' > 1 /\ r = "hour"
    BY <1>a, <1>3, <1>11 DEF Writes, r
  <2>1. PICK t \in Hours : t = n /\ t = taken'[1] /\ r = "hour"
    BY <2>0 DEF TakenInRange
  <2>2. Reading(rtc', "hour") = t /\ Reading(rtc', "min") = m /\ Reading(rtc', "sec") = s
    BY <1>7, <1>8, <1>9, <2>1 DEF Registers, Hours, Sixtieths
  <2>3. SetSoFar' = Seconds(t, 0, 0)
    BY <1>1, <1>11, <2>1 DEF SetSoFar
  <2>4. (Seconds(t, m, s) - Seconds(t, 0, 0)) % Day <= 3599
    BY HourSet
  <2>5. TimeInRange(rtc') /\ TimeOf(rtc') = Seconds(t, m, s)
    BY <1>10, <2>2 DEF TimeInRange
  <2>6. (Seconds(t, m, s) - Seconds(t, 0, 0)) % Day <= 3599 + e
    <3>1. (Seconds(t, m, s) - Seconds(t, 0, 0)) % Day \in Int
      BY DEF Seconds, Day, Hours, Sixtieths
    <3> QED BY <2>4, <3>1
  <2> QED BY <1>1, <1>6, <2>3, <2>5, <2>6
<1>12. CASE access = 2
  <2>0. taken'[2] = n /\ access' > 2 /\ r = "min" /\ taken'[1] = taken[1]
    <3>1. 1 \in 1..(access - 1)
      BY <1>12
    <3> QED BY <1>a, <1>3, <1>12, <3>1 DEF Writes, r
  <2>1. PICK w \in Sixtieths : w = n /\ w = taken'[2] /\ r = "min" /\ taken'[1] = taken[1]
    BY <2>0 DEF TakenInRange
  <2>2. PICK t \in Hours : t = taken[1]
    BY <1>4, <1>12 DEF TakenInRange
  <2>3. Reading(rtc', "hour") = h /\ Reading(rtc', "min") = w /\ Reading(rtc', "sec") = s
    BY <1>7, <1>8, <1>9, <2>1 DEF Registers, Hours, Sixtieths
  <2>4. SetSoFar = Seconds(t, 0, 0) /\ SetSoFar' = Seconds(t, w, 0)
    BY <1>a, <1>12, <2>1, <2>2 DEF SetSoFar
  <2>5. (Seconds(h, m, s) - Seconds(t, 0, 0)) % Day <= 3599 + e
    BY <1>5, <1>6, <1>7, <1>12, <2>4
  <2>6. (Seconds(h, w, s) - Seconds(t, w, 0)) % Day
          <= (Seconds(h, m, s) - Seconds(t, 0, 0)) % Day
    BY MinuteSet
  <2>7. TimeInRange(rtc') /\ TimeOf(rtc') = Seconds(h, w, s)
    BY <1>10, <2>3 DEF TimeInRange
  <2>8. (TimeOf(rtc') - SetSoFar') % Day <= 3599 + e
    BY <2>4, <2>5, <2>6, <2>7 DEF Seconds, Day, Hours, Sixtieths
  <2> QED BY <1>1, <1>6, <2>7, <2>8
<1>13. CASE access = 3
  <2>0. /\ taken'[3] = n /\ access' > 3 /\ r = "sec"
        /\ taken'[1] = taken[1] /\ taken'[2] = taken[2]
    <3>1. 1 \in 1..(access - 1) /\ 2 \in 1..(access - 1)
      BY <1>13
    <3> QED BY <1>a, <1>3, <1>13, <3>1 DEF Writes, r
  <2>1. PICK w \in Sixtieths : /\ w = n /\ w = taken'[3] /\ r = "sec"
                            /\ taken'[1] = taken[1] /\ taken'[2] = taken[2]
    BY <2>0 DEF TakenInRange
  <2>2. PICK t \in Hours, q \in Sixtieths : t = taken[1] /\ q = taken[2]
    BY <1>4, <1>13 DEF TakenInRange
  <2>3. Reading(rtc', "hour") = h /\ Reading(rtc', "min") = m /\ Reading(rtc', "sec") = w
    BY <1>7, <1>8, <1>9, <2>1 DEF Registers, Hours, Sixtieths
  <2>4. SetSoFar = Seconds(t, q, 0) /\ SetSoFar' = Seconds(t, q, w)
    BY <1>a, <1>13, <2>1, <2>2 DEF SetSoFar
  <2>5. (Seconds(h, m, s) - Seconds(t, q, 0)) % Day <= 3599 + e
    BY <1>5, <1>6, <1>7, <1>13, <2>4
  <2>6. (Seconds(h, m, w) - Seconds(t, q, w)) % Day
          <= (Seconds(h, m, s) - Seconds(t, q, 0)) % Day
    BY SecondSet
  <2>7. TimeInRange(rtc') /\ TimeOf(rtc') = Seconds(h, m, w)
    BY <1>10, <2>3 DEF TimeInRange
  <2>8. (TimeOf(rtc') - SetSoFar') % Day <= 3599 + e
    BY <2>4, <2>5, <2>6, <2>7 DEF Seconds, Day, Hours, Sixtieths
  <2> QED BY <1>1, <1>6, <2>7, <2>8
<1> QED BY <1>1, <1>11, <1>12, <1>13

LEMMA SetNext == ClockInv /\ SetInv /\ [ClockNext]_clock_vars => SetInv'
<1> SUFFICES ASSUME ClockInv, SetInv, [ClockNext]_clock_vars PROVE SetInv'
  OBVIOUS
<1>1. CASE Tick
  BY <1>1, SetTick
<1>2. CASE \E c \in Commands : TimeMenu(c)
  <2>1. rtc' = rtc /\ began'.rtc = rtc /\ access' = 1
    BY <1>2 DEF TimeMenu
  <2>2. InRange(began'.rtc) => TimeInRange(rtc')
    BY <2>1, RangeSplits
  <2> QED BY <2>1, <2>2 DEF SetInv
<1>3. CASE GetTime \/ GetDate
  <2>1. command' # "set_time"
    BY <1>3 DEF GetTime, GetDate, ReadRegister, ShowText
  <2> QED BY <2>1 DEF SetInv
<1>4. CASE SetTime
  <2>1. ASSUME NEW n \in Lines, WriteRegister("set_time", n) PROVE SetInv'
    BY <2>1, SetWrite
  <2>2. ASSUME command' = "menu" PROVE SetInv'
    BY <2>2 DEF SetInv
  <2> QED BY <1>4, <2>1, <2>2 DEF SetTime, RefuseHour, Confirm
<1>5. CASE SetDate
  <2>1. command' # "set_time"
    BY <1>5 DEF SetDate, WriteRegister, Confirm
  <2> QED BY <2>1 DEF SetInv
<1>6. CASE TypeAhead \/ UNCHANGED clock_vars
  BY <1>6 DEF TypeAhead, clock_vars, SetInv, SetSoFar, TakenInRange
<1> QED BY <1>1, <1>2, <1>3, <1>4, <1>5, <1>6 DEF ClockNext

\* The hour, the only number that is refused.
HourTaken == command = "set_time" /\ access > 1 => IsHour(taken[1]) /\ taken[1] \in Int

LEMMA HourTakenNext == ClockInv /\ HourTaken /\ [ClockNext]_clock_vars => HourTaken'
<1> SUFFICES ASSUME ClockInv, HourTaken, [ClockNext]_clock_vars PROVE HourTaken'
  OBVIOUS
<1>1. CASE SetTime
  <2>1. ASSUME NEW n \in Lines, access = 1 => IsHour(n),
               WriteRegister("set_time", n)
        PROVE  HourTaken'
    <3>a. n \in Int
      <4>1. n \in Inputs \union {0}
        BY LinesAreInputs DEF ClockInv
      <4> QED BY <4>1, InputsAssumption
    <3>b. command = "set_time" /\ access <= 3 /\ taken' = Append(taken, n)
      BY <2>1 DEF WriteRegister
    <3>c. /\ access \in 1..4 /\ taken \in Seq(Inputs \union {0})
          /\ command = "set_time" => Len(taken) = access - 1
      BY DEF ClockInv, ClockTypeOK
    <3>1. /\ command = "set_time" /\ access \in 1..3 /\ taken' = Append(taken, n)
          /\ taken \in Seq(Inputs \union {0}) /\ Len(taken) = access - 1 /\ n \in Int
      BY <3>a, <3>b, <3>c
    <3>2. CASE access = 1
      BY <2>1, <3>1, <3>2 DEF HourTaken
    <3>3. CASE access # 1
      <4>1. access > 1 /\ taken'[1] = taken[1]
        BY <3>1, <3>3
      <4> QED BY <3>1, <4>1 DEF HourTaken
    <3> QED BY <3>2, <3>3
  <2>2. ASSUME command' = "menu" PROVE HourTaken'
    BY <2>2 DEF HourTaken
  <2> QED BY <1>1, <2>1, <2>2 DEF SetTime, RefuseHour, Confirm
<1>2. CASE ~SetTime
  <2>1. ASSUME command' = command, UNCHANGED <<access, taken>> PROVE HourTaken'
    BY <2>1 DEF HourTaken
  <2>2. ASSUME command' # "set_time" PROVE HourTaken'
    BY <2>2 DEF HourTaken
  <2>3. ASSUME access' = 1 PROVE HourTaken'
    BY <2>3 DEF HourTaken
  <2>4. CASE Tick \/ TypeAhead \/ UNCHANGED clock_vars
    BY <2>1, <2>4 DEF Tick, TypeAhead, clock_vars
  <2>5. CASE GetTime \/ GetDate \/ SetDate
    BY <2>2, <2>5 DEF GetTime, GetDate, SetDate, ReadRegister, ShowText, WriteRegister, Confirm
  <2>6. CASE \E c \in Commands : TimeMenu(c)
    BY <2>3, <2>6 DEF TimeMenu
  <2> QED BY <1>2, <2>4, <2>5, <2>6 DEF ClockNext
<1> QED BY <1>1, <1>2

LEMMA SetIsNotBehind == SetInv /\ HourTaken => SetNotBehind
<1> SUFFICES ASSUME SetInv, HourTaken, command = "set_time", access = 4, InRange(began.rtc),
                    taken[1] <= 23, taken[2] \in 0..59, taken[3] \in 0..59
             PROVE  (TimeOf(rtc) - Seconds(taken[1], taken[2], taken[3])) % Day
                      <= 3599 + (ticks - began.ticks)
  BY DEF SetNotBehind
<1>1. taken[1] \in 0..23
  BY DEF HourTaken, IsHour
<1>2. TakenInRange
  BY <1>1 DEF TakenInRange, Hours, Sixtieths
<1>3. SetSoFar = Seconds(taken[1], taken[2], taken[3])
  BY DEF SetSoFar
<1> QED BY <1>2, <1>3 DEF SetInv

\* A time of day that is taken takes effect, for any clock and any time taken at
\* the prompts: the clock is never before it (user_commands.c:190-258).
THEOREM SetTakesEffect == ClockSpec => []SetNotBehind
<1>1. ClockInit => SetInv /\ HourTaken
  BY DEF ClockInit, SetInv, HourTaken
<1>2. ClockInv /\ SetInv /\ HourTaken /\ [ClockNext]_clock_vars => SetInv' /\ HourTaken'
  BY SetNext, HourTakenNext
<1> QED BY <1>1, <1>2, ClockInvariance, SetIsNotBehind, PTL DEF ClockSpec

-----------------------------------------------------------------------------
LEMMA Pair ==
  ASSUME NEW x \in Int, NEW y \in Int
  PROVE  <<x, y>> \in Seq(Int) /\ Len(<<x, y>>) = 2 /\ <<x, y>>[1] = x /\ <<x, y>>[2] = y
OBVIOUS

\* 10 is the Nul, 12 the separator.
LEMMA ItoaIs ==
  ASSUME NEW n \in 0..99
  PROVE  /\ Itoa(n) \in Seq(Int) /\ Len(Itoa(n)) = 2
         /\ n = 0 => Itoa(n)[1] = 10
         /\ n \in 1..9 => Itoa(n)[2] = 10
         /\ n # 0 => Itoa(n)[1] \in 0..9
         /\ n >= 10 => Itoa(n)[2] \in 0..9
<1>1. CASE n = 0
  <2>1. Itoa(n) = <<10, 11>>
    BY <1>1 DEF Itoa, Nul, Stack
  <2>2. Itoa(n) \in Seq(Int) /\ Len(Itoa(n)) = 2 /\ Itoa(n)[1] = 10
    BY <2>1
  <2> QED BY <1>1, <2>2
<1>2. CASE n \in 1..9
  <2>1. Itoa(n) = <<n, 10>> /\ n \in 0..9
    BY <1>2 DEF Itoa, Nul
  <2> QED BY <1>2, <2>1, Pair
<1>3. CASE n \in 10..99
  <2>1. Itoa(n) = <<n \div 10, n % 10>>
    BY <1>3 DEF Itoa
  <2>2. n \div 10 \in 0..9 /\ n % 10 \in 0..9
    BY <1>3
  <2> QED BY <1>3, <2>1, <2>2, Pair
<1> QED BY <1>1, <1>2, <1>3

\* The characters around the second number of a time or a date.
LEMMA TextAt ==
  ASSUME NEW a \in 0..99, NEW b \in 0..99, NEW c \in 0..99
  PROVE  /\ Text(a, b, c) \in Seq(Int) /\ Len(Text(a, b, c)) = 9
         /\ Text(a, b, c)[3] = 12 /\ Text(a, b, c)[6] = 12
         /\ Text(a, b, c)[4] = Itoa(b)[1] /\ Text(a, b, c)[5] = Itoa(b)[2]
<1>1. ASSUME NEW n \in 0..99 PROVE Itoa(n)[1] \in Int /\ Itoa(n)[2] \in Int
  <2>1. Itoa(n) \in Seq(Int) /\ Len(Itoa(n)) = 2
    BY ItoaIs
  <2>2. \A s \in Seq(Int) : \A i \in 1..Len(s) : s[i] \in Int
    OBVIOUS
  <2>3. 1 \in 1..Len(Itoa(n)) /\ 2 \in 1..Len(Itoa(n))
    BY <2>1
  <2> QED BY <2>1, <2>2, <2>3
<1>2. PICK p1 \in Int, p2 \in Int : p1 = Itoa(a)[1] /\ p2 = Itoa(a)[2]
  BY <1>1
<1>3. PICK q1 \in Int, q2 \in Int : q1 = Itoa(b)[1] /\ q2 = Itoa(b)[2]
  BY <1>1
<1>4. PICK r1 \in Int, r2 \in Int : r1 = Itoa(c)[1] /\ r2 = Itoa(c)[2]
  BY <1>1
<1>5. Text(a, b, c) = <<p1, p2, 12, q1, q2, 12, r1, r2, 10>>
  BY <1>2, <1>3, <1>4 DEF Text, Separator, Nul
<1> QED BY <1>3, <1>5

\* A text is sent up to the first Nul behind its second character.
LEMMA SentLength ==
  ASSUME NEW text \in Seq(Int), Len(text) = 9
  PROVE  \E n \in 2..9 : /\ Len(Sent(text)) = n
                         /\ n = 9 \/ text[n + 1] = 10
                         /\ \A k \in 2..8 : text[k + 1] = 10 => n <= k
<1> DEFINE ends == {k \in 2..Len(text) : k = Len(text) \/ text[k + 1] = Nul}
           n == CHOOSE k \in ends : \A j \in ends : k <= j
<1>1. \A k : k \in ends <=> k \in 2..9 /\ (k = 9 \/ text[k + 1] = 10)
  BY DEF Nul
<1>2. Sent(text) = SubSeq(text, 1, n)
  BY DEF Sent
<1> HIDE DEF ends
<1>3. \E k \in ends : \A j \in ends : k <= j
  <2>1. ends \subseteq 2..9 /\ 9 \in ends
    BY <1>1
  <2> DEFINE R == {p \in Nat \X Nat : p[1] < p[2]}
  <2>2. IsWellFoundedOn(R, Nat)
    BY NatLessThanWellFounded DEF OpToRel
  <2>3. ends \subseteq Nat /\ ends # {}
    BY <2>1
  <2>4. \A k, m \in Nat : k < m => <<k, m>> \in R
    OBVIOUS
  <2> HIDE DEF R
  <2>5. PICK k \in ends : \A j \in ends : ~(<<j, k>> \in R)
    BY <2>2, <2>3, WFMin
  <2>6. \A j \in ends : k <= j
    <3> SUFFICES ASSUME NEW j \in ends, j < k PROVE FALSE
      BY <2>3
    <3> QED BY <2>3, <2>4, <2>5
  <2> QED BY <2>6
<1>4. n \in ends /\ \A k \in ends : n <= k
  BY <1>3
<1> HIDE DEF n
<1>5. /\ n \in 2..9 /\ (n = 9 \/ text[n + 1] = 10)
      /\ \A k \in 2..8 : text[k + 1] = 10 => n <= k
  <2>1. \A k \in 2..8 : k \in 2..9
    OBVIOUS
  <2> QED BY <1>1, <1>4, <2>1
<1>6. Len(SubSeq(text, 1, n)) = n
  BY <1>5
<1> QED BY <1>2, <1>5, <1>6

LEMMA SentWhole ==
  ASSUME NEW a \in 0..99, NEW b \in 0..99, NEW c \in 0..99
  PROVE  Len(Sent(Text(a, b, c))) >= 6 <=> b >= 10
<1>1. PICK text \in Seq(Int) :
        /\ text = Text(a, b, c) /\ Len(text) = 9 /\ text[3] = 12 /\ text[6] = 12
        /\ text[4] = Itoa(b)[1] /\ text[5] = Itoa(b)[2]
  BY TextAt
<1>2. PICK n \in 2..9 : /\ Len(Sent(text)) = n
                        /\ n = 9 \/ text[n + 1] = 10
                        /\ \A k \in 2..8 : text[k + 1] = 10 => n <= k
  BY <1>1, SentLength
<1>3. CASE b = 0
  <2>1. Itoa(b)[1] = 10
    BY <1>3, ItoaIs
  <2>2. text[4] = 10
    BY <1>1, <2>1
  <2>3. n <= 3
    BY <1>2, <2>2
  <2> QED BY <1>1, <1>2, <1>3, <2>3
<1>4. CASE b \in 1..9
  <2>1. Itoa(b)[2] = 10
    BY <1>4, ItoaIs
  <2>2. text[5] = 10
    BY <1>1, <2>1
  <2>3. n <= 4
    BY <1>2, <2>2
  <2> QED BY <1>1, <1>2, <1>4, <2>3
<1>5. CASE b >= 10
  <2>0. Itoa(b)[1] \in 0..9 /\ Itoa(b)[2] \in 0..9
    <3>1. b # 0
      BY <1>5
    <3> QED BY <1>5, <3>1, ItoaIs
  <2>1. text[4] # 10 /\ text[5] # 10
    BY <1>1, <2>0
  <2>2. n # 2 /\ n # 3 /\ n # 4 /\ n # 5
    BY <1>1, <1>2, <2>1
  <2> QED BY <1>1, <1>2, <1>5, <2>2
<1> QED BY <1>3, <1>4, <1>5

\* What is on the terminal is what the command that is over has read.
ShownInv == (shown # <<>> => command = "menu") /\ ShownWhole

LEMMA ShowShows ==
  ASSUME ClockInv, NEW c \in {"get_time", "get_date"}, NEW i \in 1..3, NEW k \in 1..3,
         ShowText(c, Text(seen[i], seen[2], seen[k]))
  PROVE  ShownInv'
<1> SUFFICES ASSUME \A j \in 1..3 : seen[j] < 100
             PROVE  Len(shown') >= 6 <=> seen[2] >= 10
  BY DEF ShowText, ShownInv, ShownWhole
<1>1. command = c /\ access = 4 /\ shown' = Sent(Text(seen[i], seen[2], seen[k]))
  BY DEF ShowText
<1>2. seen \in Seq(0..165) /\ Len(seen) = 3
  BY <1>1 DEF ClockInv, ClockTypeOK
<1>3. ASSUME NEW j \in 1..3 PROVE seen[j] \in 0..99
  <2>1. j \in 1..Len(seen)
    BY <1>2
  <2>2. seen[j] \in 0..165
    <3> DEFINE S == 0..165
    <3>1. seen \in Seq(S)
      BY <1>2
    <3> HIDE DEF S
    <3>2. seen[j] \in S
      BY <2>1, <3>1
    <3> QED BY <3>2 DEF S
  <2>3. seen[j] < 100
    OBVIOUS
  <2> QED BY <2>2, <2>3
<1>4. seen[i] \in 0..99 /\ seen[2] \in 0..99 /\ seen[k] \in 0..99
  BY <1>3
<1>5. Len(Sent(Text(seen[i], seen[2], seen[k]))) >= 6 <=> seen[2] >= 10
  BY <1>4, SentWhole
<1> QED BY <1>1, <1>5

LEMMA ShownNext == ClockInv /\ ShownInv /\ [ClockNext]_clock_vars => ShownInv'
<1> SUFFICES ASSUME ClockInv, ShownInv, [ClockNext]_clock_vars PROVE ShownInv'
  OBVIOUS
<1>1. ASSUME shown' = <<>> PROVE ShownInv'
  BY <1>1 DEF ShownInv, ShownWhole
<1>2. ASSUME UNCHANGED <<seen, shown>>, command' \in {command, "menu"} PROVE ShownInv'
  BY <1>2 DEF ShownInv, ShownWhole
<1>3. CASE \E c \in Commands : TimeMenu(c)
  BY <1>1, <1>3 DEF TimeMenu
<1>4. CASE GetTime
  <2>1. CASE ReadRegister("get_time")
    BY <1>1, <2>1 DEF ReadRegister, ShownInv
  <2> QED BY <1>4, <2>1, ShowShows DEF GetTime
<1>5. CASE GetDate
  <2>1. CASE ReadRegister("get_date")
    BY <1>1, <2>1 DEF ReadRegister, ShownInv
  <2> QED BY <1>5, <2>1, ShowShows DEF GetDate
<1>6. CASE Tick \/ TypeAhead \/ SetTime \/ SetDate \/ UNCHANGED clock_vars
  BY <1>2, <1>6 DEF Tick, TypeAhead, SetTime, SetDate, WriteRegister, RefuseHour, Confirm, clock_vars
<1> QED BY <1>3, <1>4, <1>5, <1>6 DEF ClockNext

\* The last number of a time or a date reaches the terminal exactly when the
\* number before it has two digits, whatever is read and whatever is left on the
\* stack behind a 0 (user_commands.c:135, 304).
THEOREM ShownUpToNul == ClockSpec => []ShownWhole
<1>1. ClockInit => ShownInv
  BY DEF ClockInit, ShownInv, ShownWhole
<1>2. ClockInv /\ ShownInv /\ [ClockNext]_clock_vars => ShownInv'
  BY ShownNext
<1>3. ShownInv => ShownWhole
  BY DEF ShownInv
<1> QED BY <1>1, <1>2, <1>3, ClockInvariance, PTL DEF ClockSpec
=============================================================================
