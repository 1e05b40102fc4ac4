------------------------------ MODULE MouseSim ------------------------------
(***************************************************************************)
(* The demonstration of src/os/mouse_sim.c: mice, one thread each, that    *)
(* carry cheese from a map to its entry, and a thread that creates a mouse *)
(* for every token of the semaphore SemMouse.                              *)
(*                                                                         *)
(* The kernel is cooperative and nothing between sos_ksema_down(&SemMap)   *)
(* and the next sleep gives the CPU away, so a turn of a thread is one     *)
(* action.  Where a mouse goes when several places are free depends on     *)
(* random() and on its last direction: any of them here.                   *)
(***************************************************************************)
EXTENDS Integers, FiniteSets, Sequences, FiniteSetsExt

CONSTANTS
  Mouse,           \* the blocks sos_kmalloc() can give to mice
  MAP_X, MAP_Y,
  Tokens           \* the initial value of SemMouse, 2 in the code

Thing == {"nothing", "cheese", "obstacle", "input", "output"}

(* A cell holds a thing or points to the block of a mouse. *)
ASSUME MapAssumption ==
  /\ MAP_X \in Nat \ {0, 1} /\ MAP_Y \in Nat \ {0} /\ Tokens \in Nat
  /\ Mouse \cap Thing = {}

Cell == (0 .. MAP_X - 1) \X (0 .. MAP_Y - 1)
Entry == <<0, MAP_Y \div 2>>
Exit == <<MAP_X - 1, MAP_Y \div 2>>

VARIABLES
  pMap,        \* what is in each cell
  full,        \* mice with MOUSE_FULL; the other live mice have MOUSE_EMPTY
  place,       \* pMouse->P of the live mice
  MouseCount, CheeseCount,
  semMouse,    \* value of SemMouse
  behind,      \* mice that cannot run before MouseCreator() does
  created,     \* history: mice created so far
  delivered    \* history: harvests brought to the entry so far

mouse_vars == <<pMap, full, place, MouseCount, CheeseCount, semMouse, behind,
                created, delivered>>

Live == DOMAIN place
CellsWith(m, x) == {c \in Cell : m[c] = x}

MouseTypeOK ==
  /\ pMap \in [Cell -> Thing \union Mouse]
  /\ Live \subseteq Mouse /\ place \in [Live -> Cell]
  /\ full \subseteq Live /\ behind \subseteq Mouse
  /\ {MouseCount, CheeseCount, semMouse, created, delivered} \subseteq Nat

(* CreateMap(): cheese and obstacles at random. *)
MouseInit ==
  /\ \E stuff \in [Cell \ {Entry, Exit} -> {"nothing", "cheese", "obstacle"}] :
       pMap = [c \in Cell |-> IF c = Entry THEN "input"
                              ELSE IF c = Exit THEN "output" ELSE stuff[c]]
  /\ CheeseCount = Cardinality(CellsWith(pMap, "cheese"))
  /\ full = {} /\ place = <<>>
  /\ MouseCount = 0 /\ semMouse = Tokens /\ behind = {}
  /\ created = 0 /\ delivered = 0

-----------------------------------------------------------------------------
(* The eight directions, in the order of the loops of the code *)
Direction == <<<<0, 1>>, <<1, 1>>, <<1, 0>>, <<1, -1>>, <<0, -1>>,
               <<-1, -1>>, <<-1, 0>>, <<-1, 1>>>>

Around(c, i) == <<c[1] + Direction[i][1], c[2] + Direction[i][2]>>
Ways(c) == {i \in 1 .. 8 : Around(c, i) \in Cell}   \* inside the map

-----------------------------------------------------------------------------
(* CreateMouse(): the first free place around the entry. *)
FreeAround(c) == {i \in Ways(c) : pMap[Around(c, i)] = "nothing"}

NewMouse(m) ==
  LET c == Around(Entry, Min(FreeAround(Entry)))
  IN /\ m \notin Live
     /\ pMap' = [pMap EXCEPT ![c] = m]
     /\ place' = [x \in Live \union {m} |-> IF x = m THEN c ELSE place[x]]
     /\ MouseCount' = MouseCount + 1
     /\ created' = created + 1
     /\ UNCHANGED full

(* One turn of MouseCreator().  CreateMouse() fails when there is no free  *)
(* place or no memory, which is not tested: the token is consumed.         *)
(* It goes on without giving the CPU away while there are tokens.          *)
CreatorTurn ==
  /\ semMouse > 0
  /\ semMouse' = semMouse - 1
  /\ behind' = IF semMouse' > 0 THEN Mouse ELSE {}
  /\ IF FreeAround(Entry) # {} /\ Live # Mouse
     THEN \E m \in Mouse : NewMouse(m)
     ELSE UNCHANGED <<pMap, place, MouseCount, created, full>>
  /\ UNCHANGED <<CheeseCount, delivered>>

-----------------------------------------------------------------------------
(* EvaluatePositions() and IsCollision(), for a mouse at c.  A full mouse  *)
(* that finds the entry empties itself and goes on looking around.         *)
EntryWays(c) == {i \in Ways(c) : pMap[Around(c, i)] = "input"}

Unloads_Always(m) ==       \* mutant: MOUSE_EMPTY is not tested
  EntryWays(place[m]) # {}

Unloads(m) == m \in full /\ EntryWays(place[m]) # {}

CheeseWays(m) ==
  {i \in Ways(place[m]) :
     /\ pMap[Around(place[m], i)] = "cheese"
     /\ m \in full => \E e \in EntryWays(place[m]) : e < i}

OpenWays(m) ==
  {i \in Ways(place[m]) : pMap[Around(place[m], i)] \in {"nothing", "output"}}

(* MouseMove(): cheese first, otherwise one of the open places. *)
Targets(m) ==
  IF CheeseWays(m) # {} THEN {Around(place[m], Min(CheeseWays(m)))}
  ELSE {Around(place[m], i) : i \in OpenWays(m)}

(* AffectMovement() and the end of MouseMove(), when the mouse goes to c.  *)
MoveTo_LeaveTrace(m, c) ==   \* mutant: the old place is not cleared
  /\ pMap' = [pMap EXCEPT ![c] = m]
  /\ place' = [place EXCEPT ![m] = c]
  /\ CheeseCount' = IF pMap[c] = "cheese" THEN CheeseCount - 1 ELSE CheeseCount
  /\ UNCHANGED MouseCount

MoveTo_CountAlways(m, c) ==  \* mutant: a free place counts as cheese
  /\ pMap' = [pMap EXCEPT ![place[m]] = "nothing", ![c] = m]
  /\ place' = [place EXCEPT ![m] = c]
  /\ CheeseCount' = CheeseCount - 1
  /\ UNCHANGED MouseCount

MoveTo(m, c) ==
  /\ pMap' = [pMap EXCEPT ![place[m]] = "nothing", ![c] = m]
  /\ place' = [place EXCEPT ![m] = c]
  /\ CheeseCount' = IF pMap[c] = "cheese" THEN CheeseCount - 1 ELSE CheeseCount
  /\ UNCHANGED MouseCount

(* ... when it takes the way out: its thread frees its block and ends.     *)
Leave(m) ==
  /\ pMap' = [pMap EXCEPT ![place[m]] = "nothing"]
  /\ place' = [x \in Live \ {m} |-> place[x]]
  /\ MouseCount' = MouseCount - 1
  /\ UNCHANGED CheeseCount

Stay == UNCHANGED <<pMap, place, MouseCount, CheeseCount>>

(* One turn of Mouse(), between two sleeps.  A token makes MouseCreator()  *)
(* READY: the mice that are READY already go first, and the others, which  *)
(* sleep for 4 ms or more, go after it.                                    *)
MouseTurn(m) ==
  /\ m \in Live \ behind
  /\ semMouse' = IF Unloads(m) THEN semMouse + 1 ELSE semMouse
  /\ behind' = IF semMouse' > 0 THEN behind \union {m} ELSE {}
  /\ delivered' = IF Unloads(m) THEN delivered + 1 ELSE delivered
  /\ UNCHANGED created
  /\ LET kept == IF Unloads(m) THEN full \ {m} ELSE full
     IN \/ /\ Targets(m) = {}
           /\ Stay
           /\ full' = kept
        \/ \E c \in Targets(m) :
             IF c = Exit THEN Leave(m) /\ full' = kept \ {m}
             ELSE /\ MoveTo(m, c)
                  /\ full' = IF pMap[c] = "cheese" THEN kept \union {m} ELSE kept

MouseNext == CreatorTurn \/ \E m \in Mouse : MouseTurn(m)

MouseSpec == MouseInit /\ [][MouseNext]_mouse_vars

-----------------------------------------------------------------------------
(* PROPERTIES                                                              *)

CountersMatchMap ==
  /\ MouseCount = Cardinality(Live)
  /\ CheeseCount = Cardinality(CellsWith(pMap, "cheese"))

(* The map, the coordinates the mice remember, the threads and the two     *)
(* counters that are displayed agree: a live mouse is in the cell it       *)
(* believes it is in and in no other one, so that MouseMove() never takes  *)
(* something else for itself, and the map holds no pointer to the freed    *)
(* block of an eliminated mouse.                                           *)
MapMatchesMice ==
  /\ \A m \in Live : CellsWith(pMap, m) = {place[m]}
  /\ \A m \in Mouse \ Live : CellsWith(pMap, m) = {}
  /\ CountersMatchMap

(* No mouse is created for nothing: the initial tokens and one for each    *)
(* harvest; and a harvest is cheese that has left the map.                 *)
MiceComeFromHarvests ==
  /\ created + semMouse <= Tokens + delivered
  /\ delivered + Cardinality(full) + CheeseCount <= Cardinality(Cell) - 2

=============================================================================
