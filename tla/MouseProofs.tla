---------------------------- MODULE MouseProofs ----------------------------
(***************************************************************************)
(* The map of the demonstration, the mice and their harvests, for any size *)
(* of the map, any set of blocks and any number of tokens.                 *)
(***************************************************************************)
EXTENDS MouseSim, SequenceLemmas, FiniteSetTheorems

-----------------------------------------------------------------------------
(* THE MAP                                                                 *)

(* A mouse is no thing of the map. *)
LEMMA MouseIsNoThing ==
  ASSUME NEW m \in Mouse
  PROVE  m # "nothing" /\ m # "cheese" /\ m # "input" /\ m # "output"
  BY MapAssumption DEF Thing

(* The entry and the exit are two cells of the map. *)
LEMMA TwoDoors == Entry \in Cell /\ Exit \in Cell /\ Entry # Exit
  <1>1. MAP_Y \div 2 \in 0 .. MAP_Y - 1
    BY MapAssumption
  <1>2. 0 \in 0 .. MAP_X - 1 /\ MAP_X - 1 \in 0 .. MAP_X - 1 /\ 0 # MAP_X - 1
    BY MapAssumption
  <1> QED  BY <1>1, <1>2 DEF Cell, Entry, Exit

(* The map is finite. *)
LEMMA FiniteCell == IsFiniteSet(Cell) /\ Cardinality(Cell) \in Nat
  <1>1. IsFiniteSet(0 .. MAP_X - 1) /\ IsFiniteSet(0 .. MAP_Y - 1)
    BY MapAssumption, FS_Interval
  <1>2. IsFiniteSet(Cell)
    BY <1>1, FS_Product DEF Cell
  <1> QED  BY <1>2, FS_CardinalityType

(* So are the cells that hold the same thing. *)
LEMMA CellsWithFinite ==
  ASSUME NEW STATE map, NEW x
  PROVE  /\ IsFiniteSet(CellsWith(map, x)) /\ Cardinality(CellsWith(map, x)) \in Nat
         /\ CellsWith(map, x) \subseteq Cell
  <1>1. CellsWith(map, x) \subseteq Cell
    BY DEF CellsWith
  <1> QED  BY <1>1, FiniteCell, FS_Subset, FS_CardinalityType

(* The mouse and the cell of the map that holds it designate each other. *)
MapPointsToMice ==
  /\ \A m \in Live : pMap[place[m]] = m
  /\ \A c \in Cell : pMap[c] \in Mouse => pMap[c] \in Live /\ place[pMap[c]] = c

(* Nothing ever takes the place of the two doors, nor looks like one. *)
DoorsInPlace ==
  \A c \in Cell : /\ pMap[c] = "input" <=> c = Entry
                  /\ pMap[c] = "output" <=> c = Exit

MapInv ==
  /\ pMap \in [Cell -> Thing \union Mouse]
  /\ Live \subseteq Mouse /\ place \in [Live -> Cell] /\ IsFiniteSet(Live)
  /\ MapPointsToMice /\ DoorsInPlace /\ CountersMatchMap

(* What MapInv says of one mouse and of one cell. *)
LEMMA MapInvFacts ==
  ASSUME MapInv
  PROVE  /\ Live \subseteq Mouse /\ IsFiniteSet(Live) /\ Cardinality(Live) \in Nat
         /\ \A m \in Live : place[m] \in Cell /\ pMap[place[m]] = m
         /\ \A c \in Cell : pMap[c] \in Thing \union Mouse
         /\ MouseCount \in Nat /\ CheeseCount \in Nat
         /\ IsFiniteSet(CellsWith(pMap, "cheese"))
         /\ CheeseCount = Cardinality(CellsWith(pMap, "cheese"))
  BY CellsWithFinite, FS_CardinalityType DEF MapInv, MapPointsToMice, CountersMatchMap

(* CreateMouse() puts a mouse on a free cell. *)
LEMMA NewMouseMap ==
  ASSUME MapInv, NEW m \in Mouse, m \notin Live, NEW c \in Cell, pMap[c] = "nothing",
         pMap' = [pMap EXCEPT ![c] = m],
         place' = [x \in Live \union {m} |-> IF x = m THEN c ELSE place[x]],
         MouseCount' = MouseCount + 1, CheeseCount' = CheeseCount
  PROVE  MapInv' /\ Live' = Live \union {m}
  <1>1. Live' = Live \union {m}
    BY DEF Live
  <1>2. \A x \in Live' : place'[x] = IF x = m THEN c ELSE place[x]
    BY <1>1
  <1>3. /\ pMap' \in [Cell -> Thing \union Mouse]
        /\ \A d \in Cell : pMap'[d] = IF d = c THEN m ELSE pMap[d]
    BY DEF MapInv
  <1>4. place' \in [Live' -> Cell]
    BY <1>1, MapInvFacts
  <1>5. IsFiniteSet(Live') /\ MouseCount' = Cardinality(Live')
    BY <1>1, MapInvFacts, FS_AddElement DEF MapInv, CountersMatchMap
  <1>6. MapPointsToMice'
    <2>1. ASSUME NEW x \in Live' PROVE pMap'[place'[x]] = x
      <3>1. CASE x = m
        BY <1>2, <1>3, <2>1, <3>1
      <3>2. CASE x # m
        <4>1. x \in Live /\ place'[x] = place[x] /\ place[x] \in Cell /\ pMap[place[x]] = x
          BY <1>1, <1>2, <2>1, <3>2, MapInvFacts
        <4>2. place[x] # c
          BY <4>1, MapInvFacts, MouseIsNoThing
        <4> QED  BY <1>3, <4>1, <4>2
      <3> QED  BY <3>1, <3>2
    <2>2. ASSUME NEW d \in Cell, pMap'[d] \in Mouse
          PROVE  pMap'[d] \in Live' /\ place'[pMap'[d]] = d
      <3>1. CASE d = c
        BY <1>1, <1>2, <1>3, <3>1
      <3>2. CASE d # c
        <4>1. pMap'[d] = pMap[d] /\ pMap[d] \in Live /\ place[pMap[d]] = d
          BY <1>3, <2>2, <3>2 DEF MapInv, MapPointsToMice
        <4> QED  BY <1>1, <1>2, <4>1
      <3> QED  BY <3>1, <3>2
    <2> QED  BY <2>1, <2>2 DEF MapPointsToMice
  <1>7. DoorsInPlace'
    BY <1>3, MouseIsNoThing DEF MapInv, DoorsInPlace
  <1>8. CellsWith(pMap', "cheese") = CellsWith(pMap, "cheese")
    BY <1>3, MouseIsNoThing DEF CellsWith
  <1>9. CountersMatchMap'
    BY <1>5, <1>8 DEF MapInv, CountersMatchMap
  <1> QED  BY <1>1, <1>3, <1>4, <1>5, <1>6, <1>7, <1>9, MapInvFacts DEF MapInv

(* AffectMovement() takes a mouse to a cell where nothing or cheese is. *)
LEMMA MoveToMap ==
  ASSUME MapInv, NEW m \in Live, NEW c \in Cell, pMap[c] \in {"nothing", "cheese"},
         MoveTo(m, c)
  PROVE  MapInv' /\ Live' = Live
  <1> DEFINE b == place[m]
  <1>1. /\ pMap' = [pMap EXCEPT ![b] = "nothing", ![c] = m]
        /\ place' = [place EXCEPT ![m] = c]
        /\ CheeseCount' = IF pMap[c] = "cheese" THEN CheeseCount - 1 ELSE CheeseCount
        /\ MouseCount' = MouseCount
    BY DEF MoveTo
  <1>2. m \in Mouse /\ b \in Cell /\ pMap[b] = m /\ b # c
    BY MapInvFacts, MouseIsNoThing
  <1> HIDE DEF b
  <1>3. /\ Live' = Live /\ place' \in [Live -> Cell]
        /\ \A x \in Live : place'[x] = IF x = m THEN c ELSE place[x]
    BY <1>1 DEF Live, MapInv
  <1>4. /\ pMap' \in [Cell -> Thing \union Mouse]
        /\ \A d \in Cell : pMap'[d] = IF d = c THEN m ELSE IF d = b THEN "nothing" ELSE pMap[d]
    BY <1>1, <1>2 DEF MapInv, Thing
  <1>5. MapPointsToMice'
    <2>1. ASSUME NEW x \in Live PROVE pMap'[place'[x]] = x
      <3>1. CASE x = m
        BY <1>3, <1>4, <3>1
      <3>2. CASE x # m
        <4>1. place'[x] = place[x] /\ place[x] \in Cell /\ pMap[place[x]] = x /\ x \in Mouse
          BY <1>3, <3>2, MapInvFacts
        <4>2. place[x] # c /\ place[x] # b
          BY <1>2, <3>2, <4>1, MouseIsNoThing
        <4> QED  BY <1>4, <4>1, <4>2
      <3> QED  BY <3>1, <3>2
    <2>2. ASSUME NEW d \in Cell, pMap'[d] \in Mouse
          PROVE  pMap'[d] \in Live /\ place'[pMap'[d]] = d
      <3>1. CASE d = c
        BY <1>3, <1>4, <3>1
      <3>2. CASE d = b
        BY <1>2, <1>4, <2>2, <3>2, MouseIsNoThing
      <3>3. CASE d # c /\ d # b
        <4>1. pMap'[d] = pMap[d] /\ pMap[d] \in Live /\ place[pMap[d]] = d
          BY <1>4, <2>2, <3>3 DEF MapInv, MapPointsToMice
        <4>2. pMap[d] # m
          BY <3>3, <4>1 DEF b
        <4> QED  BY <1>3, <4>1, <4>2
      <3> QED  BY <3>1, <3>2, <3>3
    <2> QED  BY <1>3, <2>1, <2>2 DEF MapPointsToMice
  <1>6. DoorsInPlace'
    BY <1>2, <1>4, MouseIsNoThing DEF MapInv, DoorsInPlace
  <1>7. CountersMatchMap'
    <2>1. CASE pMap[c] = "cheese"
      <3>1. CellsWith(pMap', "cheese") = CellsWith(pMap, "cheese") \ {c}
        BY <1>2, <1>4, MouseIsNoThing DEF CellsWith
      <3>2. c \in CellsWith(pMap, "cheese")
        BY <2>1 DEF CellsWith
      <3>3. Cardinality(CellsWith(pMap', "cheese")) = CheeseCount - 1
        BY <3>1, <3>2, MapInvFacts, FS_RemoveElement
      <3> QED  BY <1>1, <1>3, <2>1, <3>3 DEF MapInv, CountersMatchMap
    <2>2. CASE pMap[c] # "cheese"
      <3>1. CellsWith(pMap', "cheese") = CellsWith(pMap, "cheese")
        BY <1>2, <1>4, <2>2, MouseIsNoThing DEF CellsWith
      <3> QED  BY <1>1, <1>3, <2>2, <3>1 DEF MapInv, CountersMatchMap
    <2> QED  BY <2>1, <2>2
  <1> QED  BY <1>3, <1>4, <1>5, <1>6, <1>7 DEF MapInv

(* A mouse that leaves takes its pointer off the map. *)
LEMMA LeaveMap ==
  ASSUME MapInv, NEW m \in Live, Leave(m)
  PROVE  MapInv' /\ Live' = Live \ {m} /\ CheeseCount' = CheeseCount
  <1> DEFINE b == place[m]
  <1>1. /\ pMap' = [pMap EXCEPT ![b] = "nothing"]
        /\ place' = [x \in Live \ {m} |-> place[x]]
        /\ MouseCount' = MouseCount - 1 /\ CheeseCount' = CheeseCount
    BY DEF Leave
  <1>2. m \in Mouse /\ b \in Cell /\ pMap[b] = m
    BY MapInvFacts
  <1> HIDE DEF b
  <1>3. /\ Live' = Live \ {m}
        /\ \A x \in Live \ {m} : place'[x] = place[x]
    BY <1>1 DEF Live
  <1>4. /\ pMap' \in [Cell -> Thing \union Mouse]
        /\ \A d \in Cell : pMap'[d] = IF d = b THEN "nothing" ELSE pMap[d]
    BY <1>1, <1>2 DEF MapInv, Thing
  <1>5. place' \in [Live \ {m} -> Cell] /\ Live \ {m} \subseteq Mouse
    BY <1>1, MapInvFacts
  <1>6. IsFiniteSet(Live \ {m}) /\ Cardinality(Live \ {m}) = MouseCount - 1
    BY MapInvFacts, FS_RemoveElement DEF MapInv, CountersMatchMap
  <1>7. MapPointsToMice'
    <2>1. ASSUME NEW x \in Live \ {m} PROVE pMap'[place'[x]] = x
      <3>1. place'[x] = place[x] /\ place[x] \in Cell /\ pMap[place[x]] = x
        BY <1>3, MapInvFacts
      <3>2. place[x] # b
        BY <1>2, <2>1, <3>1
      <3> QED  BY <1>4, <3>1, <3>2
    <2>2. ASSUME NEW d \in Cell, pMap'[d] \in Mouse
          PROVE  pMap'[d] \in Live \ {m} /\ place'[pMap'[d]] = d
      <3>1. d # b
        BY <1>4, <2>2, MouseIsNoThing
      <3>2. pMap'[d] = pMap[d] /\ pMap[d] \in Live /\ place[pMap[d]] = d
        BY <1>4, <2>2, <3>1 DEF MapInv, MapPointsToMice
      <3>3. pMap[d] # m
        BY <3>1, <3>2 DEF b
      <3> QED  BY <1>3, <3>2, <3>3
    <2> QED  BY <1>3, <2>1, <2>2 DEF MapPointsToMice
  <1>8. DoorsInPlace'
    BY <1>2, <1>4, MouseIsNoThing DEF MapInv, DoorsInPlace
  <1>9. CellsWith(pMap', "cheese") = CellsWith(pMap, "cheese")
    BY <1>2, <1>4, MouseIsNoThing DEF CellsWith
  <1>10. CountersMatchMap'
    BY <1>1, <1>3, <1>6, <1>9 DEF MapInv, CountersMatchMap
  <1> QED  BY <1>1, <1>3, <1>4, <1>5, <1>6, <1>7, <1>8, <1>10 DEF MapInv

-----------------------------------------------------------------------------
(* THE TURNS OF THE THREADS                                                *)

MouseInv ==
  /\ MapInv
  /\ full \subseteq Live /\ behind \subseteq Mouse
  /\ {semMouse, created, delivered} \subseteq Nat
  /\ MiceComeFromHarvests

(* The first way that is free is one of them. *)
LEMMA FirstWay ==
  ASSUME NEW I \in SUBSET (1 .. 8), I # {}
  PROVE  Min(I) \in I
  BY MinOfPlaces

(* The counters of the invariant are numbers. *)
LEMMA MouseInvFacts ==
  ASSUME MouseInv
  PROVE  /\ IsFiniteSet(full) /\ Cardinality(full) \in Nat
         /\ semMouse \in Nat /\ created \in Nat /\ delivered \in Nat
         /\ CheeseCount \in Nat /\ MouseCount \in Nat
         /\ Tokens \in Nat /\ Cardinality(Cell) \in Nat
         /\ created + semMouse <= Tokens + delivered
         /\ delivered + Cardinality(full) + CheeseCount <= Cardinality(Cell) - 2
  <1>1. IsFiniteSet(full)
    BY MapInvFacts, FS_Subset DEF MouseInv
  <1> QED
    BY <1>1, MapInvFacts, FS_CardinalityType, FiniteCell, MapAssumption
       DEF MouseInv, MiceComeFromHarvests

(* The invariant holds once the map is drawn. *)
LEMMA MouseInitInv == MouseInit => MouseInv
  <1> SUFFICES ASSUME MouseInit PROVE MouseInv
    OBVIOUS
  <1>1. PICK stuff \in [Cell \ {Entry, Exit} -> {"nothing", "cheese", "obstacle"}] :
          pMap = [c \in Cell |-> IF c = Entry THEN "input"
                                 ELSE IF c = Exit THEN "output" ELSE stuff[c]]
    BY DEF MouseInit
  <1>2. \A c \in Cell : pMap[c] = IF c = Entry THEN "input"
                                  ELSE IF c = Exit THEN "output" ELSE stuff[c]
    BY <1>1
  <1>3. \A c \in Cell \ {Entry, Exit} : stuff[c] \in {"nothing", "cheese", "obstacle"}
    OBVIOUS
  <1>4. \A c \in Cell : pMap[c] \in Thing
    BY <1>2, <1>3 DEF Thing
  <1>5. pMap \in [Cell -> Thing \union Mouse]
    BY <1>1, <1>4
  <1>6. Live = {} /\ place \in [Live -> Cell]
    BY DEF MouseInit, Live
  <1>7. MapPointsToMice
    BY <1>4, <1>6, MapAssumption DEF MapPointsToMice
  <1>8. DoorsInPlace
    BY <1>2, <1>3, TwoDoors DEF DoorsInPlace
  <1>9. CountersMatchMap
    BY <1>6, FS_EmptySet DEF MouseInit, CountersMatchMap
  <1>10. MapInv
    BY <1>5, <1>6, <1>7, <1>8, <1>9, FS_EmptySet DEF MapInv
  <1>11. CheeseCount <= Cardinality(Cell) - 2
    <2>1. CellsWith(pMap, "cheese") \in SUBSET ((Cell \ {Entry}) \ {Exit})
      BY <1>2 DEF CellsWith
    <2>2. IsFiniteSet(Cell \ {Entry}) /\ Cardinality(Cell \ {Entry}) = Cardinality(Cell) - 1
      BY FiniteCell, TwoDoors, FS_RemoveElement
    <2>3. /\ IsFiniteSet((Cell \ {Entry}) \ {Exit})
          /\ Cardinality((Cell \ {Entry}) \ {Exit}) = Cardinality(Cell \ {Entry}) - 1
      <3>1. Exit \in Cell \ {Entry}
        BY TwoDoors
      <3> QED  BY <2>2, <3>1, FS_RemoveElement
    <2>4. Cardinality(CellsWith(pMap, "cheese")) <= Cardinality((Cell \ {Entry}) \ {Exit})
      BY <2>1, <2>3, FS_Subset
    <2>5. CheeseCount = Cardinality(CellsWith(pMap, "cheese"))
      BY <1>9 DEF CountersMatchMap
    <2> QED  BY <2>2, <2>3, <2>4, <2>5, FiniteCell
  <1>12. MiceComeFromHarvests
    <2>1. created = 0 /\ semMouse = Tokens /\ delivered = 0 /\ Cardinality(full) = 0
      BY FS_EmptySet DEF MouseInit
    <2>2. CheeseCount \in Nat /\ Tokens \in Nat
      BY <1>10, MapInvFacts, MapAssumption
    <2> QED  BY <1>11, <2>1, <2>2, FiniteCell DEF MiceComeFromHarvests
  <1> QED  BY <1>10, <1>12, MapAssumption DEF MouseInit, MouseInv

(* A turn of MouseCreator() consumes a token, whether it creates a mouse or not. *)
LEMMA CreatorTurnStep ==
  ASSUME MouseInv, CreatorTurn
  PROVE  MouseInv'
  <1>1. /\ semMouse > 0 /\ semMouse' = semMouse - 1 /\ behind' \subseteq Mouse
        /\ CheeseCount' = CheeseCount /\ delivered' = delivered
    BY DEF CreatorTurn
  <1>2. CASE FreeAround(Entry) # {} /\ Live # Mouse
    <2> DEFINE c == Around(Entry, Min(FreeAround(Entry)))
    <2>1. PICK m \in Mouse : NewMouse(m)
      BY <1>2 DEF CreatorTurn
    <2>2. c \in Cell /\ pMap[c] = "nothing"
      <3>1. FreeAround(Entry) \in SUBSET (1 .. 8)
        BY DEF FreeAround, Ways
      <3>2. Min(FreeAround(Entry)) \in FreeAround(Entry)
        BY <1>2, <3>1, FirstWay
      <3> QED  BY <3>2 DEF FreeAround, Ways
    <2>3. /\ m \notin Live /\ pMap' = [pMap EXCEPT ![c] = m]
          /\ place' = [x \in Live \union {m} |-> IF x = m THEN c ELSE place[x]]
          /\ MouseCount' = MouseCount + 1 /\ created' = created + 1 /\ full' = full
      BY <2>1 DEF NewMouse
    <2> HIDE DEF c
    <2>4. MapInv' /\ Live' = Live \union {m}
      BY <1>1, <2>2, <2>3, NewMouseMap DEF MouseInv
    <2>5. MiceComeFromHarvests'
      BY <1>1, <2>3, MouseInvFacts DEF MiceComeFromHarvests
    <2> QED  BY <1>1, <2>3, <2>4, <2>5, MouseInvFacts DEF MouseInv
  <1>3. CASE ~ (FreeAround(Entry) # {} /\ Live # Mouse)
    <2>1. UNCHANGED <<pMap, place, MouseCount, created, full>>
      BY <1>3 DEF CreatorTurn
    <2>2. MapInv' /\ Live' = Live
      BY <1>1, <2>1 DEF MouseInv, MapInv, Live, MapPointsToMice, DoorsInPlace, CountersMatchMap, CellsWith
    <2>3. MiceComeFromHarvests'
      BY <1>1, <2>1, MouseInvFacts DEF MiceComeFromHarvests
    <2> QED  BY <1>1, <2>1, <2>2, <2>3, MouseInvFacts DEF MouseInv
  <1> QED  BY <1>2, <1>3

(* A mouse goes to a cell of the map where cheese is, or nothing, or to the exit. *)
LEMMA TargetsAreFree ==
  ASSUME MouseInv, NEW m \in Live, NEW c \in Targets(m)
  PROVE  c \in Cell /\ (c = Exit \/ pMap[c] \in {"nothing", "cheese"})
  <1>1. CASE CheeseWays(m) # {}
    <2>1. CheeseWays(m) \in SUBSET (1 .. 8)
      BY DEF CheeseWays, Ways
    <2>2. Min(CheeseWays(m)) \in CheeseWays(m) /\ c = Around(place[m], Min(CheeseWays(m)))
      BY <1>1, <2>1, FirstWay DEF Targets
    <2> QED  BY <2>2 DEF CheeseWays, Ways
  <1>2. CASE CheeseWays(m) = {}
    <2>1. PICK i \in OpenWays(m) : c = Around(place[m], i)
      BY <1>2 DEF Targets
    <2>2. c \in Cell /\ pMap[c] \in {"nothing", "output"}
      BY <2>1 DEF OpenWays, Ways
    <2> QED  BY <2>2 DEF MouseInv, MapInv, DoorsInPlace
  <1> QED  BY <1>1, <1>2

(* A turn of Mouse() *)
LEMMA MouseTurnStep ==
  ASSUME MouseInv, NEW m \in Mouse, MouseTurn(m)
  PROVE  MouseInv'
  <1> DEFINE kept == IF Unloads(m) THEN full \ {m} ELSE full
  <1>1. /\ m \in Live
        /\ semMouse' = IF Unloads(m) THEN semMouse + 1 ELSE semMouse
        /\ delivered' = IF Unloads(m) THEN delivered + 1 ELSE delivered
        /\ created' = created
        /\ \/ /\ Targets(m) = {}
              /\ Stay
              /\ full' = kept
           \/ \E c \in Targets(m) :
                IF c = Exit THEN Leave(m) /\ full' = kept \ {m}
                ELSE /\ MoveTo(m, c)
                     /\ full' = IF pMap[c] = "cheese" THEN kept \union {m} ELSE kept
    BY DEF MouseTurn
  <1>2. behind' \subseteq Mouse
    BY DEF MouseTurn, MouseInv
  <1>3. kept \subseteq full /\ kept \subseteq Live /\ IsFiniteSet(kept)
    BY MouseInvFacts, FS_RemoveElement DEF MouseInv
  <1>4. delivered' + Cardinality(kept) = delivered + Cardinality(full)
    <2>1. CASE Unloads(m)
      <3>1. m \in full
        BY <2>1 DEF Unloads
      <3>2. Cardinality(kept) = Cardinality(full) - 1
        BY <2>1, <3>1, MouseInvFacts, FS_RemoveElement
      <3> QED  BY <1>1, <2>1, <3>2, MouseInvFacts
    <2>2. CASE ~ Unloads(m)
      BY <1>1, <2>2
    <2> QED  BY <2>1, <2>2
  <1>5. created' + semMouse' <= Tokens + delivered' /\ {semMouse', created', delivered'} \subseteq Nat
    BY <1>1, MouseInvFacts
  <1> HIDE DEF kept
  <1>6. Cardinality(kept) \in Nat
    BY <1>3, FS_CardinalityType
  <1>7. SUFFICES MapInv' /\ full' \subseteq Live'
                 /\ Cardinality(full') + CheeseCount' <= Cardinality(kept) + CheeseCount
    <2>1. Cardinality(full') \in Nat /\ CheeseCount' \in Nat
      <3>1. IsFiniteSet(Live') /\ CheeseCount' \in Nat
        <4>1. IsFiniteSet(Live') /\ CheeseCount' = Cardinality(CellsWith(pMap', "cheese"))
          BY <1>7 DEF MapInv, CountersMatchMap
        <4>2. CellsWith(pMap', "cheese") \in SUBSET Cell
          BY DEF CellsWith
        <4> QED  BY <4>1, <4>2, FiniteCell, FS_Subset, FS_CardinalityType
      <3>2. IsFiniteSet(full')
        BY <1>7, <3>1, FS_Subset
      <3> QED  BY <3>1, <3>2, FS_CardinalityType
    <2>2. delivered' \in Nat
      BY <1>5
    <2>3. delivered' + Cardinality(full') + CheeseCount' <= Cardinality(Cell) - 2
      BY <1>4, <1>6, <1>7, <2>1, <2>2, MouseInvFacts
    <2> QED  BY <1>2, <1>5, <1>7, <2>3 DEF MouseInv, MiceComeFromHarvests
  <1>8. CASE Stay /\ full' = kept
    <2>1. MapInv' /\ Live' = Live
      BY <1>8 DEF Stay, MouseInv, MapInv, Live, MapPointsToMice, DoorsInPlace, CountersMatchMap, CellsWith
    <2> QED  BY <1>3, <1>6, <1>8, <2>1, MouseInvFacts DEF Stay
  <1>9. ASSUME Leave(m), full' = kept \ {m}
        PROVE  MapInv' /\ full' \subseteq Live'
               /\ Cardinality(full') + CheeseCount' <= Cardinality(kept) + CheeseCount
    <2>1. MapInv' /\ Live' = Live \ {m} /\ CheeseCount' = CheeseCount
      BY <1>1, <1>9, LeaveMap DEF MouseInv
    <2>2. Cardinality(full') <= Cardinality(kept) /\ Cardinality(full') \in Nat
      <3>1. full' \in SUBSET kept
        BY <1>9
      <3> QED  BY <1>3, <3>1, FS_Subset, FS_CardinalityType
    <2> QED  BY <1>3, <1>6, <1>9, <2>1, <2>2, MouseInvFacts
  <1>10. ASSUME NEW c \in Targets(m), c # Exit, MoveTo(m, c),
                full' = IF pMap[c] = "cheese" THEN kept \union {m} ELSE kept
         PROVE  MapInv' /\ full' \subseteq Live'
                /\ Cardinality(full') + CheeseCount' <= Cardinality(kept) + CheeseCount
    <2>1. c \in Cell /\ pMap[c] \in {"nothing", "cheese"}
      BY <1>1, <1>10, TargetsAreFree
    <2>2. MapInv' /\ Live' = Live
      BY <1>1, <1>10, <2>1, MoveToMap DEF MouseInv
    <2>3. CheeseCount' = IF pMap[c] = "cheese" THEN CheeseCount - 1 ELSE CheeseCount
      BY <1>10 DEF MoveTo
    <2>4. full' \subseteq Live'
      BY <1>1, <1>3, <1>10, <2>2
    <2>5. Cardinality(full') + CheeseCount' <= Cardinality(kept) + CheeseCount
      <3>1. CASE pMap[c] = "cheese"
        <4>1. Cardinality(kept \union {m}) <= Cardinality(kept) + 1
              /\ Cardinality(kept \union {m}) \in Nat
          <5>1. Cardinality(kept \union {m})
                  = IF m \in kept THEN Cardinality(kept) ELSE Cardinality(kept) + 1
            BY <1>3, FS_AddElement
          <5> QED  BY <1>6, <5>1
        <4>2. full' = kept \union {m} /\ CheeseCount' = CheeseCount - 1
          BY <1>10, <2>3, <3>1
        <4> QED  BY <1>6, <4>1, <4>2, MouseInvFacts
      <3>2. CASE pMap[c] # "cheese"
        BY <1>6, <1>10, <2>3, <3>2, MouseInvFacts
      <3> QED  BY <3>1, <3>2
    <2> QED  BY <2>2, <2>4, <2>5
  <1> QED  BY <1>1, <1>8, <1>9, <1>10

(* Every step keeps the invariant. *)
LEMMA MouseNextInv == MouseInv /\ [MouseNext]_mouse_vars => MouseInv'
  <1> SUFFICES ASSUME MouseInv, [MouseNext]_mouse_vars PROVE MouseInv'
    OBVIOUS
  <1>1. CASE UNCHANGED mouse_vars
    BY <1>1 DEF mouse_vars, MouseInv, MapInv, Live, MapPointsToMice, DoorsInPlace,
                CountersMatchMap, CellsWith, MiceComeFromHarvests
  <1> QED  BY <1>1, CreatorTurnStep, MouseTurnStep DEF MouseNext

-----------------------------------------------------------------------------
(* THEOREMS                                                                *)

(* The inductive invariant holds in every reachable state. *)
THEOREM MouseInvariance == MouseSpec => []MouseInv
  BY MouseInitInv, MouseNextInv, PTL DEF MouseSpec

(* Type correctness of the simulation. *)
THEOREM MouseTypeCorrect == MouseSpec => []MouseTypeOK
  <1>1. ASSUME MouseInv PROVE MouseTypeOK
    BY <1>1, MapInvFacts DEF MouseInv, MapInv, MouseTypeOK
  <1> QED  BY <1>1, MouseInvariance, PTL

(* Each mouse is in the cell it believes it is in and nowhere else, and    *)
(* the map points to no freed block.                                       *)
THEOREM MapAlwaysMatchesMice == MouseSpec => []MapMatchesMice
  <1>1. ASSUME MouseInv PROVE MapMatchesMice
    <2>1. ASSUME NEW m \in Live PROVE CellsWith(pMap, m) = {place[m]}
      <3>1. m \in Mouse /\ place[m] \in Cell /\ pMap[place[m]] = m
        BY <1>1, MapInvFacts DEF MouseInv
      <3>2. \A c \in Cell : pMap[c] = m => c = place[m]
        BY <1>1, <3>1 DEF MouseInv, MapInv, MapPointsToMice
      <3> QED  BY <3>1, <3>2 DEF CellsWith
    <2>2. ASSUME NEW m \in Mouse \ Live PROVE CellsWith(pMap, m) = {}
      BY <1>1 DEF MouseInv, MapInv, MapPointsToMice, CellsWith
    <2> QED  BY <1>1, <2>1, <2>2 DEF MapMatchesMice, MouseInv, MapInv
  <1> QED  BY <1>1, MouseInvariance, PTL

(* Mice cost tokens, tokens cost harvests, and harvests cheese. *)
THEOREM MiceAlwaysComeFromHarvests == MouseSpec => []MiceComeFromHarvests
  <1>1. MouseInv => MiceComeFromHarvests
    BY DEF MouseInv
  <1> QED  BY <1>1, MouseInvariance, PTL

(* The entry and the exit stay where they are, and nothing else looks like *)
(* one of them.                                                            *)
THEOREM DoorsStayInPlace == MouseSpec => []DoorsInPlace
  <1>1. MouseInv => DoorsInPlace
    BY DEF MouseInv, MapInv
  <1> QED  BY <1>1, MouseInvariance, PTL

=============================================================================
