--------------------------- MODULE MoveToLocation ---------------------------
(***************************************************************************)
(* The drive of a replacement to the place of a dead node on a real        *)
(* iRobot: moveToLocation of pyDara.py as the commands it gives the robot  *)
(* (irobot_create.py), and what they do to it.                             *)
(*                                                                         *)
(* Places are counted in half tiles, as in DaraTable.  Time is counted in  *)
(* eightieths of a second, which makes all times of the program whole.     *)
(***************************************************************************)
EXTENDS DaraTable

CONSTANT Moves  \* the drives, as pairs of a source and a destination

ASSUME MovesAssumption ==
  \A m \in Moves : \A i \in 1 .. 2 : m[i] \in Int \X Int

Second == 80
Time == [open |-> 160, spin |-> 84, front |-> 126, half |-> 63, close |-> 160]
Rest == 40  \* after every movement

\* East, where the robot looks before and after, and on clockwise.
Heading == <<<<1, 0>>, <<0, -1>>, <<-1, 0>>, <<0, 1>>>>

Repeat(n, command) == [i \in 1 .. n |-> command]

Straight(d) == Repeat(d \div 2, "front") \o Repeat(d % 2, "half")

\* Mutant: turns as far to the south as to the north.
DriveY_SameTurns(d) ==
  CASE d = 0 -> <<>>
    [] d > 0 -> Repeat(3, "spin") \o Straight(d) \o Repeat(1, "spin")
    [] d < 0 -> Repeat(3, "spin") \o Straight(-d) \o Repeat(1, "spin")

DriveX(d) ==
  CASE d >= 0 -> Straight(d)
    [] d < 0 -> Repeat(2, "spin") \o Straight(-d) \o Repeat(2, "spin")

DriveY(d) ==
  CASE d = 0 -> <<>>
    [] d > 0 -> Repeat(3, "spin") \o Straight(d) \o Repeat(1, "spin")
    [] d < 0 -> Repeat(1, "spin") \o Straight(-d) \o Repeat(3, "spin")

Commands(source, destination) ==
  <<"open">> \o DriveX(destination[1] - source[1])
             \o DriveY(destination[2] - source[2]) \o <<"close">>

VARIABLES
  move,          \* the source and the destination
  place, facing, \* of the robot
  commands,      \* those to come
  elapsed

vars == <<move, place, facing, commands, elapsed>>

Init ==
  /\ move \in Moves
  /\ place = move[1] /\ facing = 1
  /\ commands = Commands(move[1], move[2])
  /\ elapsed = 0

-----------------------------------------------------------------------------
Advance(n) == place' = <<place[1] + n * Heading[facing][1], place[2] + n * Heading[facing][2]>>

Do(command, rest) ==
  /\ commands # <<>> /\ Head(commands) = command
  /\ commands' = Tail(commands)
  /\ elapsed' = elapsed + Time[command] + rest
  /\ UNCHANGED move

Open  == Do("open", 0)  /\ UNCHANGED <<place, facing>>
Tile  == Do("front", Rest) /\ Advance(2) /\ UNCHANGED facing
HalfTile == Do("half", Rest) /\ Advance(1) /\ UNCHANGED facing
Spin  == Do("spin", Rest) /\ facing' = (facing % 4) + 1 /\ UNCHANGED place
Close == Do("close", 0) /\ UNCHANGED <<place, facing>>

Next == Open \/ Tile \/ HalfTile \/ Spin \/ Close

Spec == Init /\ [][Next]_vars

-----------------------------------------------------------------------------
Done == commands = <<>>

\* The time that all nodes reckon with for this drive.
Calculated == Second * CalcTimeToWaitForReplacement(move[2], move[1])

\* The robot ends where the dead node was and looks east, for the next drive
\* to start from.
ArrivesLookingEast == Done => place = move[2] /\ facing = 1

\* The other nodes, which wait "2*t for BC to send an update message that he
\* reached" (pyDara.py, lines 233-239), still wait when the robot arrives.
WaitOutlastsDrive == Done => elapsed < 2 * Calculated

\* The drives with this length in half tiles and these turns are driven in less
\* time than the others wait, and no other: to the north west the robot turns
\* twice as often as they think, and to the east nobody thinks of the two
\* seconds in which it opens and those in which it closes.
LongEnough(m) ==
  LET tiles == Gap(m[1][1], m[2][1]) + Gap(m[1][2], m[2][2])
      across == m[2][1] - m[1][1]
      up == m[2][2] - m[1][2]
  IN CASE across < 0 /\ up < 0 -> TRUE
       [] across < 0 /\ up > 0 -> tiles >= 9
       [] across >= 0 /\ up = 0 -> tiles >= 5
       [] OTHER -> tiles >= 3
==============================================================================
