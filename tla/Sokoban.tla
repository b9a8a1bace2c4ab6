------------------------------ MODULE Sokoban ------------------------------
(***************************************************************************)
(* The box game of the shell, src/src/skout-sokoban.c: a task of its own   *)
(* that the shell joins.  A map is an array of characters: walls, boxes,   *)
(* targets and nothing; the player is kept apart from it.  A move looks at *)
(* the map as it is (stage) and, for a target behind a box, at the map it  *)
(* was copied from (StageData).                                            *)
(***************************************************************************)
EXTENDS Integers, FiniteSets

CONSTANTS
    Rows, Cols, \* the size of a map; its last column is not looked at
    MaxStage,   \* MAXSTAGE, how many maps there are
    StageData   \* the maps, by their number

Cells == (0 .. Rows - 1) \X (0 .. Cols - 1)

\* The columns the loops look at
Scanned == (0 .. Rows - 1) \X (0 .. Cols - 2)

Edge == {c \in Cells : c[1] \in {0, Rows - 1} \/ c[2] \in {0, Cols - 1}}

Wall == "#"
Box == "O"
Target == "."
Floor == " "
Man == "@"

ASSUME MapsAssumption ==
    /\ Rows \in Nat /\ Cols \in Nat /\ MaxStage \in Nat \ {0}
    /\ StageData \in [0 .. MaxStage - 1 -> [Cells -> {Wall, Box, Target, Floor, Man}]]

\* A map with a wall all around it, and one player, as all of the source's are
Closed(map) ==
    /\ \A c \in Edge : map[c] = Wall
    /\ \E c \in Cells : map[c] = Man
    /\ \A c, d \in Cells : map[c] = Man /\ map[d] = Man => c = d

ASSUME ClosedAssumption == \A n \in 0 .. MaxStage - 1 : Closed(StageData[n])

VARIABLES
    game,     \* "off", "loading", "playing", or "cleared": waiting for enter
    stage,    \* the map as it is
    player,   \* <<Roundy, Roundx>>
    RoundNum, \* the number of the map
    merged    \* a box was pushed onto another since the map was copied

sokobanVars == <<game, stage, player, RoundNum, merged>>

Delta == [up |-> <<-1, 0>>, down |-> <<1, 0>>, left |-> <<0, -1>>, right |-> <<0, 1>>]
NumPad == [numup |-> "up", numdown |-> "down", numleft |-> "left", numright |-> "right"]
GameKeys == DOMAIN Delta \cup DOMAIN NumPad \cup {"esc", "r", "other"}

\* The two calls of getch for a key: 0xe0 for a key without a character, and
\* then the key, an arrow for one of the number pad.
Getch(k) == IF k \in DOMAIN NumPad THEN NumPad[k] ELSE k

\* The cell n steps from c in direction d
Step(c, d, n) == <<c[1] + n * Delta[d][1], c[2] + n * Delta[d][2]>>

Targets(n) == {c \in Cells : StageData[n][c] = Target}
Boxes == {c \in Cells : stage[c] = Box}
StartBoxes(n) == {c \in Cells : StageData[n][c] = Box}

-----------------------------------------------------------------------------
(* Moves. *)

\* Mutant: only another box behind a box stops it.
Takes_NotBox(c) == stage[c] # Box

\* The cell behind a box takes it: empty now, or a target of the map, even one
\* that holds a box.
Takes(c) == stage[c] = Floor \/ StageData[RoundNum][c] = Target

\* An arrow pushes a box, or is stopped by a wall, right ahead or behind a box.
Pushes(d) == stage[Step(player, d, 1)] = Box /\ Takes(Step(player, d, 2))
Stopped(d) ==
    \/ stage[Step(player, d, 1)] = Wall
    \/ stage[Step(player, d, 1)] = Box /\ ~Pushes(d) /\ stage[Step(player, d, 2)] = Wall

\* PlayerMoveAction for an arrow: a box that is neither pushed nor stopped by a
\* wall, with another behind it, is walked onto.
Move(d) ==
    IF Stopped(d) THEN UNCHANGED <<stage, player, merged>>
    ELSE LET next == Step(player, d, 1)
             behind == Step(player, d, 2)
         IN  /\ player' = next
             /\ stage' = IF Pushes(d) THEN [stage EXCEPT ![next] = Floor, ![behind] = Box] ELSE stage
             /\ merged' = (merged \/ (Pushes(d) /\ stage[behind] = Box))

\* Mutant: looks for the targets the map still shows.
Solved_Shown == \A c \in Scanned : stage[c] # Target

\* TestStageClear
Solved == \A c \in Scanned : StageData[RoundNum][c] = Target => stage[c] = Box

\* A map is copied, and the player taken off it.
Copy(n) ==
    LET man == CHOOSE c \in Cells : StageData[n][c] = Man IN
    /\ stage' = [StageData[n] EXCEPT ![man] = Floor]
    /\ player' = man
    /\ RoundNum' = n /\ merged' = FALSE

SokobanInit ==
    /\ game = "off" /\ RoundNum = 0 /\ merged = FALSE
    /\ stage = [StageData[0] EXCEPT ![CHOOSE c \in Cells : StageData[0][c] = Man] = Floor]
    /\ player = CHOOSE c \in Cells : StageData[0][c] = Man

\* ckCoshellCmdSkoutSokoban: the task is created, and the shell waits for its end.
StartGame == game = "off" /\ game' = "loading" /\ UNCHANGED <<stage, player, RoundNum, merged>>

\* LoadingStage, and the first map.
LoadingStage == game = "loading" /\ game' = "playing" /\ Copy(0)

\* One turn of the loop in SokobanMain, with the key k.
Turn(k) ==
    LET key == Getch(k) IN
    /\ game = "playing"
    /\ CASE key = "esc" -> game' = "off" /\ UNCHANGED <<stage, player, RoundNum, merged>>
         [] key = "r" -> Copy(RoundNum) /\ UNCHANGED game
         [] OTHER ->
              /\ IF key \in DOMAIN Delta THEN Move(key) ELSE UNCHANGED <<stage, player, merged>>
              /\ UNCHANGED RoundNum
              /\ game' = IF Solved' THEN "cleared" ELSE "playing"

\* Enter, after a map was solved: the next one, or the end.
NextStage ==
    /\ game = "cleared"
    /\ IF RoundNum < MaxStage - 1 THEN Copy(RoundNum + 1) /\ game' = "playing"
       ELSE game' = "off" /\ UNCHANGED <<stage, player, RoundNum, merged>>

SokobanNext == StartGame \/ LoadingStage \/ (\E k \in GameKeys : Turn(k)) \/ NextStage

SokobanSpec == SokobanInit /\ [][SokobanNext]_sokobanVars

-----------------------------------------------------------------------------
(* Properties. *)

\* The player and the boxes never get into a wall or past the edge of the map,
\* so that no move reads or writes outside stage, which the code never tests:
\* the cell ahead of the player, and the one behind a box ahead, are in the map.
InsideWalls ==
    /\ \A c \in Cells : (stage[c] = Wall) = (StageData[RoundNum][c] = Wall)
    /\ stage[player] # Wall
    /\ \A d \in DOMAIN Delta :
          /\ Step(player, d, 1) \in Cells
          /\ stage[Step(player, d, 1)] = Box => Step(player, d, 2) \in Cells

\* No box is lost, except when one is pushed onto another that lies on a target:
\* the code looks at the map as it was.  So a map with a box for every target is
\* cleared only with all of its boxes on targets, and after such a loss it can not
\* be cleared before it is restarted.
ClearedFairly ==
    /\ merged \/ Cardinality(Boxes) = Cardinality(StartBoxes(RoundNum))
    /\ game = "cleared" /\ Cardinality(StartBoxes(RoundNum)) = Cardinality(Targets(RoundNum)) =>
         ~merged /\ Boxes = Targets(RoundNum)
=============================================================================
