------------------------------ MODULE LcdQueue ------------------------------
(* The LCD of the modchip: lib/LPCMod/BootLCD.c queues operations in the    *)
(* ring of lib/LPCMod/LCDRingBuffer.c, from which every turn of             *)
(* cromwellLoop hands at most one nibble to the display.                    *)
(*                                                                          *)
(* An operation is a byte for the display, its RS line and the time the     *)
(* display needs for it; it takes four bytes of the ring.  Texts are        *)
(* reduced to the line they belong to, and nibbles to what the display      *)
(* tells apart: 2 and 3 start a change of its data length, "x" is any       *)
(* other.  Time is counted in units of one microsecond.                     *)
EXTENDS Integers, Sequences

CONSTANTS
  Slots,       \* operations the ring holds: 256
  nbLines,     \* lines of the display: 4
  LineSize,    \* characters in a line: 20
  TimingCMD, TimingData, TimingReset,   \* 1700, 50 and 4100 microseconds
  ClockWrap,   \* getUS starts again at 0 after ClockWrap - 1
  UintMax,     \* UINT_MAX
  Grain,       \* getUS is rounded to a multiple of Grain: a float has 24 bits
  MaxPrints    \* bound: prints

ringBufSize == 4 * Slots

Lines == 1..nbLines

\* What WriteLCDInit sends: 0x33 and 0x32 change the data length, "set" is
\* DISP_FUNCTION_SET, "cmd" any other command, "pos" the cursor command of a
\* line, "chr" a character of a line.
Bytes ==
  [is : {"33", "32", "set", "cmd"}, line : {0}] \cup [is : {"pos", "chr"}, line : Lines]

Delays == {0, TimingCMD, TimingData, TimingReset}

Ops == [data : Bytes, rs : BOOLEAN, delay : Delays]

ASSUME SlotsAssumption == Slots \in Nat /\ Slots >= 4

ASSUME TextAssumption == LineSize \in Nat \ {0} /\ nbLines \in Nat \ {0} /\ MaxPrints \in Nat

ASSUME DelayAssumption ==
  \A delay \in Delays : delay \in Nat /\ delay < 65536

ASSUME ClockAssumption ==
  /\ ClockWrap \in Nat \ {0} /\ Grain \in Nat \ {0} /\ UintMax \in Nat
  /\ \A delay \in Delays : UintMax >= ClockWrap + Grain + delay

VARIABLES
  ringBuf, inPos, outPos, rollOver,   \* the ring
  internalOp,                         \* ready, high or low: which nibble comes next
  currentOp,                          \* the operation taken from the ring
  systickStartValue,                  \* getUS at the last nibble
  lcdEnable,                          \* xLCD.enable
  isPureXBlast,                       \* whether EN_5V switches the display's power
  putting,                            \* operations the running print has still to queue
  clock,                              \* microseconds, modulo ClockWrap
  display,                            \* what the display makes of the nibbles
  prints,                             \* prints so far
  since, owed,                        \* time since the last nibble, and its delay
  forgot,                             \* since then the clock wrapped or the queue was reset
  dropped                             \* a reset took operations from a display left on

ringVars == <<ringBuf, inPos, outPos, rollOver>>
driverVars == <<internalOp, currentOp, systickStartValue>>
timeVars == <<clock, since, owed, forgot>>
lcdVars == <<ringVars, driverVars, lcdEnable, isPureXBlast, putting, timeVars, display, prints, dropped>>

(****************************************************************************)
(* The ring.                                                                *)

\* An operation as the four bytes of a DataOperation_t, and back.
ToBytes(op) == <<op.data, op.rs, op.delay % 256, op.delay \div 256>>

FromBytes(b) == [data |-> b[1], rs |-> b[2], delay |-> b[3] + 256 * b[4]]

\* Mutant: no restart.
AfterUnwrapped(pos, n) == pos + n

\* A position after n more bytes: it restarts at 0 at the end of the ring.
After(pos, n) == IF pos + n >= ringBufSize THEN pos + n - ringBufSize ELSE pos + n

\* putInBuf finds no space left: the operation is dropped.
NoSpace ==
  LET projectedEnd == inPos + 4
  IN  \/ rollOver /\ projectedEnd > outPos
      \/ ~rollOver /\ projectedEnd % ringBufSize < projectedEnd
                   /\ projectedEnd % ringBufSize > outPos

putInBuf(op) ==
  \/ NoSpace /\ UNCHANGED ringVars
  \/ /\ ~NoSpace
     /\ ringBuf' = [p \in 0..ringBufSize - 1 |->
          IF \E k \in 0..3 : p = After(inPos, k)
          THEN ToBytes(op)[(CHOOSE k \in 0..3 : p = After(inPos, k)) + 1]
          ELSE ringBuf[p]]
     /\ inPos' = After(inPos, 4)
     /\ rollOver' = (rollOver \/ inPos + 4 >= ringBufSize)
     /\ UNCHANGED outPos

\* Mutant: only putInBuf touches rollOver.
getFromBufKeepsRollOver ==
  /\ currentOp' = FromBytes([k \in 1..4 |-> ringBuf[After(outPos, k - 1)]])
  /\ outPos' = After(outPos, 4)
  /\ UNCHANGED <<ringBuf, inPos, rollOver>>

getFromBuf ==
  /\ currentOp' = FromBytes([k \in 1..4 |-> ringBuf[After(outPos, k - 1)]])
  /\ outPos' = After(outPos, 4)
  /\ rollOver' = (rollOver /\ outPos + 4 < ringBufSize)
  /\ UNCHANGED <<ringBuf, inPos>>

Holds == outPos # inPos \/ rollOver

LCDRingBufferInit ==
  /\ inPos' = 0 /\ outPos' = 0 /\ rollOver' = FALSE
  /\ internalOp' = "ready"
  /\ systickStartValue' = 0
  /\ currentOp' = [currentOp EXCEPT !.delay = 0]
  /\ UNCHANGED ringBuf

(****************************************************************************)
(* Time.                                                                    *)

getUS == Grain * ((clock + Grain \div 2) \div Grain)

\* Mutant: a signed difference.
ElapsedSigned(start) == getUS - start

getElapseMicroSecondsSince(start) ==
  IF start > getUS THEN getUS + (UintMax - start) ELSE getUS - start

\* No delay is longer: time beyond it is not told apart.
Longest == CHOOSE d \in Delays : \A e \in Delays : d >= e

Tick ==
  /\ clock' = IF clock + 1 = ClockWrap THEN 0 ELSE clock + 1
  /\ forgot' = (forgot \/ clock + 1 = ClockWrap)
  /\ since' = IF since < Longest THEN since + 1 ELSE since
  /\ UNCHANGED <<ringVars, driverVars, lcdEnable, isPureXBlast, putting, display, prints, dropped, owed>>

(****************************************************************************)
(* The display (HD44780 and its kin).  After power-on it takes every nibble *)
(* for a command; told so by 0x2., it pairs nibbles into bytes.             *)

Nibbles == {"2", "3", "x"}
None == "none"

PowerOn == [bits |-> 8, half |-> None, line |-> 0]

Nibble(data, part) ==
  IF data.is = "33" \/ (data.is = "32" /\ part = "high") \/ data.is = "chr" THEN "3"
  ELSE IF (data.is = "32" /\ part = "low") \/ (data.is = "set" /\ part = "high") THEN "2"
  ELSE "x"

\* The display reads a nibble; of a byte it has put together it keeps whether
\* the data length changes and, of a cursor command, the line.
Receive(data, rs, part) ==
  LET n == Nibble(data, part)
      first == IF display.bits = 8 THEN n ELSE display.half
      cursor == IF data.is = "pos" /\ ~rs THEN data.line ELSE display.line
  IN  display' =
        IF display.bits = 4 /\ display.half = None
        THEN [display EXCEPT !.half = n]
        ELSE [bits |-> IF rs THEN display.bits
                       ELSE IF first = "3" THEN 8
                       ELSE IF first = "2" THEN 4 ELSE display.bits,
              half |-> None,
              line |-> cursor]

(****************************************************************************)
(* The driver.                                                              *)

Due == getElapseMicroSecondsSince(systickStartValue) >= currentOp.delay

\* A turn of cromwellLoop, which finds no print under way.
Turn == putting = <<>> /\ lcdEnable

\* Mutant: the next operation is taken before the last one is done.
ReadyNotDue ==
  /\ Turn
  /\ internalOp = "ready" /\ Holds
  /\ getFromBuf
  /\ internalOp' = "high"
  /\ UNCHANGED <<systickStartValue, lcdEnable, isPureXBlast, putting, timeVars, display, prints, dropped>>

ReadyForNewOp ==
  /\ Turn /\ Due
  /\ internalOp = "ready" /\ Holds
  /\ getFromBuf
  /\ internalOp' = "high"
  /\ UNCHANGED <<systickStartValue, lcdEnable, isPureXBlast, putting, timeVars, display, prints, dropped>>

WriteNibble(part, next) ==
  /\ Turn /\ Due
  /\ internalOp = part
  /\ Receive(currentOp.data, currentOp.rs, part)
  /\ systickStartValue' = getUS
  /\ internalOp' = next
  /\ since' = 0 /\ forgot' = FALSE /\ owed' = currentOp.delay
  /\ UNCHANGED <<ringVars, currentOp, lcdEnable, isPureXBlast, putting, clock, prints, dropped>>

WriteHighNibble == WriteNibble("high", "low")

WriteLowNibble == WriteNibble("low", "ready")

updateLCDRingBuffer == ReadyForNewOp \/ WriteHighNibble \/ WriteLowNibble

(****************************************************************************)
(* The printing side.                                                       *)

Command(is) == [data |-> [is |-> is, line |-> 0], rs |-> FALSE, delay |-> TimingCMD]

WriteLCDInit ==
  << [data |-> [is |-> "33", line |-> 0], rs |-> FALSE, delay |-> TimingReset],
     [data |-> [is |-> "32", line |-> 0], rs |-> FALSE, delay |-> TimingData],
     Command("set"), Command("cmd") >>

WriteLCDSetPos(line) ==
  [data |-> [is |-> "pos", line |-> line], rs |-> FALSE, delay |-> TimingCMD]

Character(line) ==
  [data |-> [is |-> "chr", line |-> line], rs |-> TRUE, delay |-> TimingData]

\* Mutant: the cursor command comes last.
WriteLCDLineLatePos(line) == [i \in 1..LineSize |-> Character(line)] \o <<WriteLCDSetPos(line)>>

WriteLCDLine(line) == <<WriteLCDSetPos(line)>> \o [i \in 1..LineSize |-> Character(line)]

\* The custom text takes every line, the other one the first.
initialLCDPrint(customTextBoot) ==
  IF customTextBoot
  THEN [i \in 1..nbLines * (LineSize + 1) |->
          WriteLCDLine(((i - 1) \div (LineSize + 1)) + 1)[((i - 1) % (LineSize + 1)) + 1]]
  ELSE <<Command("cmd")>> \o WriteLCDLine(1)

\* A caller prints or clears a line, or sends a command of its own.
PrintLine(line) ==
  /\ putting = <<>> /\ lcdEnable /\ prints < MaxPrints
  /\ putting' = WriteLCDLine(line)
  /\ prints' = prints + 1
  /\ UNCHANGED <<ringVars, driverVars, lcdEnable, isPureXBlast, timeVars, display, dropped>>

WriteLCDCommand ==
  /\ putting = <<>> /\ lcdEnable /\ prints < MaxPrints
  /\ putting' = <<Command("cmd")>>
  /\ prints' = prints + 1
  /\ UNCHANGED <<ringVars, driverVars, lcdEnable, isPureXBlast, timeVars, display, dropped>>

\* The running print queues its next operation.
putInLCDRingBuffer ==
  /\ putting # <<>>
  /\ putInBuf(Head(putting))
  /\ putting' = Tail(putting)
  /\ UNCHANGED <<driverVars, lcdEnable, isPureXBlast, timeVars, display, prints, dropped>>

\* The setting enable5V becomes on (menu, script or configuration file) and
\* assertInitLCD acts on it.  The wait of 10 ms for the power to settle
\* outlasts every delay.
assertInitLCD(on, customTextBoot) ==
  /\ putting = <<>>
  /\ LCDRingBufferInit
  /\ lcdEnable' = on
  /\ putting' = IF on /\ ~lcdEnable THEN WriteLCDInit \o initialLCDPrint(customTextBoot) ELSE <<>>
  /\ display' = IF isPureXBlast /\ on # lcdEnable THEN PowerOn ELSE display
  /\ dropped' = (on /\ lcdEnable /\ (dropped \/ Holds \/ internalOp # "ready"))
  /\ forgot' = (on /\ lcdEnable)
  /\ owed' = IF on /\ lcdEnable THEN owed ELSE 0
  /\ UNCHANGED <<isPureXBlast, clock, since, prints>>

\* What zeroed memory holds.
ZeroOp == [data |-> [is |-> "cmd", line |-> 0], rs |-> FALSE, delay |-> 0]

LcdInit ==
  /\ ringBuf = [p \in 0..ringBufSize - 1 |-> ToBytes(ZeroOp)[(p % 4) + 1]]
  /\ inPos = 0 /\ outPos = 0 /\ rollOver = FALSE
  /\ internalOp = "ready" /\ systickStartValue = 0
  /\ currentOp = ZeroOp
  /\ lcdEnable = FALSE /\ isPureXBlast \in BOOLEAN
  /\ putting = <<>> /\ prints = 0
  /\ display = PowerOn
  /\ clock = 0 /\ since = 0 /\ forgot = FALSE /\ owed = 0 /\ dropped = FALSE

LcdNext ==
  \/ updateLCDRingBuffer
  \/ putInLCDRingBuffer
  \/ Tick
  \/ \E line \in Lines : PrintLine(line)
  \/ WriteLCDCommand
  \/ \E on, customTextBoot \in BOOLEAN : assertInitLCD(on, customTextBoot)

LcdSpec == LcdInit /\ [][LcdNext]_lcdVars

\* A print returns and time goes on.  cromwellLoop turns many times between
\* two wraps of the clock, so some turn falls when an operation is due.
LcdFairness == SF_lcdVars(updateLCDRingBuffer) /\ WF_lcdVars(putInLCDRingBuffer) /\ WF_lcdVars(Tick)

LcdFairSpec == LcdSpec /\ LcdFairness

(****************************************************************************)
(* Properties.                                                              *)

\* The operations in the ring, the oldest first.
Count == (inPos - outPos + IF rollOver THEN ringBufSize ELSE 0) \div 4

OpAt(i) == FromBytes([k \in 1..4 |-> ringBuf[After(outPos, 4 * (i - 1) + k - 1)]])

Queued == [i \in 1..Count |-> OpAt(i)]

Fifo == INSTANCE LcdFifo WITH fifo <- Queued, taken <- currentOp, input <- putting

\* The ring with its two positions and its flag is a queue of Slots
\* operations: it drops an operation only when it is full, and loses,
\* repeats and mixes up none.
ImplementsFifo == Fifo!FifoSpec

\* The positions stay inside the ring, and every byte of the ring is a byte of
\* an operation at its place: positions move by whole operations.
LcdTypeOK ==
  /\ DOMAIN ringBuf = 0..ringBufSize - 1
  /\ \A p \in 0..ringBufSize - 1 : ringBuf[p] \in <<Bytes, BOOLEAN, 0..255, 0..255>>[(p % 4) + 1]
  /\ inPos \in 0..ringBufSize - 1 /\ outPos \in 0..ringBufSize - 1 /\ rollOver \in BOOLEAN
  /\ internalOp \in {"ready", "high", "low"} /\ currentOp \in Ops
  /\ systickStartValue \in Nat /\ clock \in 0..ClockWrap - 1
  /\ lcdEnable \in BOOLEAN /\ isPureXBlast \in BOOLEAN
  /\ putting \in Seq(Ops) /\ prints \in 0..MaxPrints
  /\ display \in [bits : {4, 8}, half : Nibbles \cup {None}, line : Lines \cup {0}]
  /\ since \in 0..Longest /\ owed \in Delays /\ forgot \in BOOLEAN /\ dropped \in BOOLEAN

\* A character reaches the display as the second half of a byte, while the
\* cursor stands on the line the character was printed for: whatever was
\* dropped from a full ring, WriteLCDLine never loses its cursor command and
\* keeps its text, and the two calls of 0x33 and 0x32 have put the display
\* in step.
CharactersOnTheirLine ==
  [][WriteLowNibble /\ currentOp.data.is = "chr" /\ ~dropped
       => display.bits = 4 /\ display.half # None /\ display.line = currentOp.data.line]_lcdVars

\* Between two nibbles the display gets the time its last operation needs, up
\* to the rounding of getUS, unless the clock wrapped or the ring was reset.
DelaysKept ==
  [][WriteHighNibble \/ WriteLowNibble => since + Grain > owed \/ forgot]_lcdVars

\* The ring empties: no reading of the clock keeps an operation waiting for ever.
QueueDrains == Holds ~> ~Holds
=============================================================================
