------------------------ MODULE MetadataStore_proofs ------------------------
(***************************************************************************)
(* Proofs about MetadataStore: for every set of metadata values, every     *)
(* length of history and whatever an older firmware left in the sectors,   *)
(* they implement the register of MetadataRegister.  The one assumption is *)
(* that no flash operation fails in the bootloader.                        *)
(***************************************************************************)
EXTENDS MetadataStore, TLAPS

(* A valid copy lies in the sector its sequence number selects, and was    *)
(* written by this firmware or left by an older one.                       *)
InPlace(c) ==
  \A i \in 0..1 : c[i] # Torn =>
    c[i].seq % 2 = i /\ (c[i].ext = TRUE \/ c[i] \in Legacy)

(* This firmware has not completed a record yet, or the newest is its own. *)
Early(c) == \A i \in 0..1 : c[i] # Torn => c[i] \in Legacy
Late(c) == Newest(c).ext = TRUE

(* The record under way is the successor of the one a load returns; once   *)
(* its sector is erased it is newer than the copy in the other sector, and *)
(* the successor of the newest unless that was an old record.              *)
InFlight ==
  /\ wr # "idle" => ram.ext = TRUE
  /\ wr = "erase" => ram.seq = Load(copies).seq + 1
  /\ wr = "program" =>
       /\ copies[CopyIndex(ram)] = Torn
       /\ \A i \in 0..1 : copies[i] # Torn => copies[i].seq < ram.seq
       /\ Early(copies) \/ ram.seq = Newest(copies).seq + 1

(* Between stores the bootloader's RAM image is what a load returns.       *)
InStep ==
  /\ owner = "boot" /\ wr = "idle" => ram = Load(copies)
  /\ owner = "off" => wr = "idle"

StoreInv ==
  TypeOK /\ InPlace(copies) /\ (Early(copies) \/ Late(copies)) /\ InFlight /\ InStep
-----------------------------------------------------------------------------
(* The contents of the two sectors.                                        *)
Sectors == [0..1 -> Rec \cup {Torn}]

(* d is c with at most some sectors erased.                                *)
Erased(c, d) == \A i \in 0..1 : d[i] = Torn \/ d[i] = c[i]

(* The sector of a record is one of the two.                               *)
LEMMA CopyIndexType == ASSUME NEW r \in Rec PROVE CopyIndex(r) \in 0..1
BY SMT DEF CopyIndex, Rec

(* Selecting the newest copy always gives a record, and a load another.    *)
LEMMA NewestType == ASSUME NEW c \in Sectors PROVE Newest(c) \in Rec
BY RecAssumption, SMT DEF Newest, Sectors

(* A load gives a record of this firmware.                                 *)
LEMMA LoadType ==
  ASSUME NEW c \in Sectors PROVE Load(c) \in Rec
<1>1. Newest(c) \in Rec
  BY NewestType
<1>2. \A r \in Rec : Upgrade(r) \in Rec
  BY RecAssumption, SMT DEF Upgrade, Rec
<1> QED
  BY <1>1, <1>2 DEF Load

(* A record of this firmware is loaded unchanged.                          *)
LEMMA LoadIsNewest ==
  ASSUME NEW c \in Sectors, Newest(c).ext = TRUE
  PROVE  Load(c) = Newest(c)
BY DEF Load, Upgrade

(* Where an older firmware left nothing, the newest record is this one's.  *)
LEMMA NewestIsOurs ==
  ASSUME NEW c \in Sectors, InPlace(c), Legacy = {}
  PROVE  Newest(c).ext = TRUE
BY RecAssumption, SMT DEF Newest, InPlace, Sectors, Rec

(* The newest of valid copies is one of them, and no other is newer.       *)
LEMMA NewestIsMax ==
  ASSUME NEW c \in Sectors, NEW i \in 0..1, c[i] # Torn
  PROVE  c[i].seq <= Newest(c).seq
BY SMT DEF Newest, Sectors, Rec

(* A mutation yields the successor record.                                 *)
LEMMA MutateType ==
  ASSUME NEW r \in Rec, NEW v \in Payload
  PROVE  /\ Mutate(r, v) \in Rec
         /\ Mutate(r, v).seq = r.seq + 1
         /\ Mutate(r, v).val = v
         /\ Mutate(r, v).ext = TRUE
BY SMT DEF Mutate, Rec

(* Erasing sectors of an early store loses old records at most.            *)
LEMMA EraseEarly ==
  ASSUME NEW c \in Sectors, InPlace(c), Early(c), NEW d \in Sectors,
         Erased(c, d)
  PROVE  /\ InPlace(d) /\ Early(d)
         /\ \/ Newest(d) = Newest(c)
            \/ /\ Newest(c) \in Legacy
               /\ Newest(d) \in {r \in Legacy : r.seq < Newest(c).seq}
                                  \cup {DefaultRec}
<1>1. InPlace(d) /\ Early(d)
  BY DEF Erased, InPlace, Early
<1>2. CASE c[0] = Torn /\ c[1] = Torn
  BY <1>1, <1>2, SMT DEF Erased, Newest
<1>3. CASE c[0] # Torn /\ c[1] # Torn
  <2>1. /\ c[0] \in Rec /\ c[1] \in Rec /\ c[0] \in Legacy /\ c[1] \in Legacy
        /\ c[0].seq \in Nat /\ c[1].seq \in Nat
        /\ c[0].seq % 2 = 0 /\ c[1].seq % 2 = 1
    BY <1>3, SMT DEF Sectors, InPlace, Early, Rec
  <2>2. c[0].seq # c[1].seq
    BY <2>1, SMT
  <2>3. CASE c[0].seq < c[1].seq
    <3>1. Newest(c) = c[1]
      BY <1>3, <2>1, <2>3, SMT DEF Newest
    <3>2. Newest(d) \in {c[0], c[1], DefaultRec}
      BY <1>3, SMT DEF Newest, Erased
    <3> QED
      BY <1>1, <2>1, <2>3, <3>1, <3>2
  <2>4. CASE c[1].seq < c[0].seq
    <3>1. Newest(c) = c[0]
      BY <1>3, <2>1, <2>4, SMT DEF Newest
    <3>2. Newest(d) \in {c[0], c[1], DefaultRec}
      BY <1>3, SMT DEF Newest, Erased
    <3> QED
      BY <1>1, <2>1, <2>4, <3>1, <3>2
  <2> QED
    BY <2>1, <2>2, <2>3, <2>4, SMT
<1>4. CASE \E i \in 0..1 : c[i] # Torn /\ c[1 - i] = Torn
  <2>1. PICK i \in 0..1 : c[i] # Torn /\ c[1 - i] = Torn
    BY <1>4
  <2>2. Newest(c) = c[i] /\ c[i] \in Legacy
    BY <2>1, SMT DEF Newest, Early
  <2>3. Newest(d) = c[i] \/ Newest(d) = DefaultRec
    BY <2>1, SMT DEF Newest, Erased
  <2> QED
    BY <1>1, <2>2, <2>3
<1> QED
  BY <1>2, <1>3, <1>4, SMT

(* Erasing the sector of the successor record keeps the newest record.     *)
LEMMA EraseKeepsNewest ==
  ASSUME NEW c \in Sectors, InPlace(c), NEW r \in Rec,
         r.seq = Newest(c).seq + 1,
         NEW d, d = [c EXCEPT ![CopyIndex(r)] = Torn]
  PROVE  /\ d \in Sectors
         /\ InPlace(d)
         /\ Newest(d) = Newest(c)
         /\ d[CopyIndex(r)] = Torn
<1>1. CopyIndex(r) \in 0..1
  BY CopyIndexType
<1>2. Newest(c) \in Rec
  BY NewestType
<1>3. /\ d \in Sectors /\ d[CopyIndex(r)] = Torn
      /\ \A i \in 0..1 : d[i] = Torn \/ d[i] = c[i]
  BY <1>1 DEF Sectors
<1>4. InPlace(d)
  BY <1>3 DEF InPlace
<1>5. CASE Newest(c) = c[0] /\ c[0] # Torn
  <2>1. Newest(c).seq % 2 = 0
    BY <1>5, SMT DEF InPlace
  <2>2. CopyIndex(r) = 1
    BY <2>1, <1>2, SMT DEF CopyIndex, Rec
  <2>3. d[0] = c[0] /\ d[1] = Torn
    BY <2>2, SMT DEF Sectors
  <2> QED
    BY <2>3, <1>3, <1>4, <1>5 DEF Newest
<1>6. CASE Newest(c) = c[1] /\ c[1] # Torn
  <2>1. Newest(c).seq % 2 = 1
    BY <1>6, SMT DEF InPlace
  <2>2. CopyIndex(r) = 0
    BY <2>1, <1>2, SMT DEF CopyIndex, Rec
  <2>3. d[1] = c[1] /\ d[0] = Torn
    BY <2>2, SMT DEF Sectors
  <2> QED
    BY <2>3, <1>3, <1>4, <1>6 DEF Newest
<1>7. CASE c[0] = Torn /\ c[1] = Torn
  <2>1. d[0] = Torn /\ d[1] = Torn
    BY <1>3, <1>7, SMT
  <2> QED
    BY <2>1, <1>3, <1>4, <1>7, SMT DEF Newest
<1> QED
  BY <1>5, <1>6, <1>7 DEF Newest

(* Programming a record newer than the other copy into its erased sector   *)
(* makes it the newest.                                                    *)
LEMMA ProgramMakesNewest ==
  ASSUME NEW c \in Sectors, InPlace(c), NEW r \in Rec, r.ext = TRUE,
         \A i \in 0..1 : c[i] # Torn => c[i].seq < r.seq,
         c[CopyIndex(r)] = Torn,
         NEW d, d = [c EXCEPT ![CopyIndex(r)] = r]
  PROVE  d \in Sectors /\ InPlace(d) /\ Newest(d) = r
<1>1. CopyIndex(r) \in 0..1 /\ r # Torn
  BY CopyIndexType, RecAssumption
<1>2. d \in Sectors /\ d[CopyIndex(r)] = r
  BY <1>1 DEF Sectors
<1>3. \A i \in 0..1 : i # CopyIndex(r) => d[i] = c[i]
  BY DEF Sectors
<1>4. InPlace(d)
  BY <1>2, <1>3, SMT DEF InPlace, CopyIndex
<1>5. CASE CopyIndex(r) = 0
  <2>1. d[0] = r /\ d[1] = c[1]
    BY <1>2, <1>3, <1>5
  <2>2. d[1] # Torn => d[1].seq <= d[0].seq
    BY <2>1, SMT DEF Rec, Sectors
  <2> QED
    BY <2>1, <2>2, <1>1, <1>2, <1>4, SMT DEF Newest
<1>6. CASE CopyIndex(r) = 1
  <2>1. d[1] = r /\ d[0] = c[0]
    BY <1>2, <1>3, <1>6
  <2>2. d[0] # Torn => ~(d[1].seq <= d[0].seq)
    BY <2>1, SMT DEF Rec, Sectors
  <2> QED
    BY <2>1, <2>2, <1>1, <1>2, <1>4, SMT DEF Newest
<1> QED
  BY <1>1, <1>5, <1>6, SMT
-----------------------------------------------------------------------------
(* The assumption under which the sectors implement the register.          *)
Sound == BootFaults = FALSE

(* The initial states satisfy the invariant.                               *)
LEMMA InitInv == ASSUME Init PROVE StoreInv
<1>1. copies \in Sectors
  BY RecAssumption DEF Init, Sectors
<1>2. TypeOK
  BY <1>1, RecAssumption DEF Init, TypeOK, Sectors
<1>3. \A i \in 0..1 : copies[i] # Torn =>
        copies[i] \in Legacy /\ copies[i].seq % 2 = i
  BY DEF Init, CopyIndex
<1> QED
  BY <1>2, <1>3 DEF Init, StoreInv, InPlace, Early, InFlight, InStep

(* Starting a store of the successor of what a load returns.               *)
LEMMA StartStoreInv ==
  ASSUME StoreInv, NEW v \in Payload, owner # "off", UNCHANGED owner,
         StartStore(Mutate(Load(copies), v))
  PROVE  StoreInv' /\ copies' = copies
<1>1. copies \in Sectors /\ Load(copies) \in Rec
  BY LoadType DEF StoreInv, TypeOK, Sectors
<1>2. /\ ram' \in Rec
      /\ ram'.seq = Load(copies).seq + 1
      /\ ram'.ext = TRUE
  BY <1>1, MutateType DEF StartStore
<1>3. copies' = copies /\ wr' = "erase"
  BY DEF StartStore
<1>4. TypeOK' /\ InFlight' /\ InStep'
  BY <1>2, <1>3 DEF StoreInv, TypeOK, InFlight, InStep
<1>5. InPlace(copies') /\ (Early(copies') \/ Late(copies'))
  BY <1>3 DEF StoreInv
<1> QED
  BY <1>3, <1>4, <1>5 DEF StoreInv

(* Erasing the sector a store begins with.                                 *)
LEMMA EraseInv ==
  ASSUME StoreInv, wr = "erase", copies' = [copies EXCEPT ![CopyIndex(ram)] = Torn]
  PROVE  /\ copies' \in Sectors /\ InPlace(copies')
         /\ Early(copies') \/ Late(copies')
         /\ copies'[CopyIndex(ram)] = Torn
         /\ \A i \in 0..1 : copies'[i] # Torn => copies'[i].seq < ram.seq
         /\ Early(copies') \/ ram.seq = Newest(copies').seq + 1
         /\ Newest(copies') = Newest(copies) \/ Register!Lose
<1>1. /\ copies \in Sectors /\ InPlace(copies) /\ ram \in Rec
      /\ ram.seq = Load(copies).seq + 1
  BY DEF StoreInv, TypeOK, Sectors, InFlight
<1>2. /\ copies' \in Sectors /\ copies'[CopyIndex(ram)] = Torn
      /\ Erased(copies, copies')
  BY <1>1, CopyIndexType DEF Sectors, Erased
<1>3. Newest(copies) \in Rec
  BY <1>1, NewestType
<1>4. Load(copies).seq >= Newest(copies).seq /\ Load(copies).seq \in Nat
  BY <1>3, SMT DEF Load, Upgrade, Rec
<1>5. \A i \in 0..1 : copies'[i] # Torn => copies'[i].seq < ram.seq
  <2> TAKE i \in 0..1
  <2> HAVE copies'[i] # Torn
  <2>1. copies[i] # Torn /\ copies'[i] = copies[i] /\ copies[i] \in Rec
    BY <1>1, <1>2 DEF Erased, Sectors
  <2>2. copies[i].seq <= Newest(copies).seq
    BY <1>1, <2>1, NewestIsMax
  <2>3. copies[i].seq \in Nat /\ Newest(copies).seq \in Nat
    BY <1>3, <2>1 DEF Rec
  <2>4. copies[i].seq < ram.seq
    BY <1>1, <1>4, <2>2, <2>3, SMT
  <2> QED
    BY <2>1, <2>4
<1>6. CASE Early(copies)
  <2>1. /\ InPlace(copies') /\ Early(copies')
        /\ \/ Newest(copies') = Newest(copies)
           \/ /\ Newest(copies) \in Legacy
              /\ Newest(copies') \in {r \in Legacy : r.seq < Newest(copies).seq}
                                       \cup {DefaultRec}
    BY <1>1, <1>2, <1>6, EraseEarly
  <2> QED
    BY <1>2, <1>5, <2>1 DEF Register!Lose
<1>7. CASE Late(copies)
  <2>1. ram.seq = Newest(copies).seq + 1
    BY <1>1, <1>7, LoadIsNewest DEF Late
  <2>2. InPlace(copies') /\ Newest(copies') = Newest(copies)
    BY <1>1, <2>1, EraseKeepsNewest
  <2> QED
    BY <1>2, <1>5, <1>7, <2>1, <2>2 DEF Late
<1> QED
  BY <1>6, <1>7 DEF StoreInv

(* Every step preserves the invariant, and is a step of the register or    *)
(* leaves it alone.                                                        *)
LEMMA NextInv ==
  ASSUME Sound, StoreInv, [Next]_vars
  PROVE  StoreInv' /\ (Newest(copies') = Newest(copies) \/ Register!Next)
<1>1. copies \in Sectors /\ InPlace(copies) /\ ram \in Rec
  BY DEF StoreInv, TypeOK, Sectors
<1>2. Load(copies) \in Rec
  BY <1>1, LoadType
<1>3. CASE BootLoad
  <2>1. copies' = copies
    BY <1>3 DEF BootLoad
  <2>2. TypeOK' /\ InFlight' /\ InStep'
    BY <1>2, <1>3 DEF BootLoad, StoreInv, TypeOK, InFlight, InStep
  <2> QED
    BY <2>1, <2>2 DEF StoreInv
<1>4. CASE BootStore
  <2>1. PICK v \in Payload : StartStore(Mutate(ram, v))
    BY <1>4 DEF BootStore
  <2>2. ram = Load(copies)
    BY <1>4, <2>1 DEF BootStore, StartStore, StoreInv, InStep
  <2> QED
    BY <1>4, <2>1, <2>2, StartStoreInv DEF BootStore
<1>5. CASE HandOver
  <2>1. copies' = copies
    BY <1>5 DEF HandOver
  <2>2. TypeOK' /\ InFlight' /\ InStep'
    BY <1>5 DEF HandOver, StoreInv, TypeOK, InFlight, InStep
  <2> QED
    BY <2>1, <2>2 DEF StoreInv
<1>6. CASE AppStore
  <2>1. PICK v \in Payload : StartStore(Mutate(Load(copies), v))
    BY <1>6 DEF AppStore
  <2> QED
    BY <1>6, <2>1, StartStoreInv DEF AppStore
<1>7. CASE FlashStep
  <2>1. UNCHANGED <<owner, ram>>
    BY <1>7 DEF FlashStep, EraseCopy, ProgramCopy, FailStore
  <2>2. CASE EraseCopy
    <3>1. /\ wr' = "program" /\ wr = "erase"
          /\ copies' = [copies EXCEPT ![CopyIndex(ram)] = Torn]
      BY <2>2 DEF EraseCopy
    <3>2. /\ copies' \in Sectors /\ InPlace(copies')
          /\ Early(copies') \/ Late(copies')
          /\ copies'[CopyIndex(ram)] = Torn
          /\ \A i \in 0..1 : copies'[i] # Torn => copies'[i].seq < ram.seq
          /\ Early(copies') \/ ram.seq = Newest(copies').seq + 1
          /\ Newest(copies') = Newest(copies) \/ Register!Lose
      BY <3>1, EraseInv
    <3>3. TypeOK' /\ InStep'
      BY <2>1, <3>1, <3>2 DEF StoreInv, TypeOK, Sectors, InStep
    <3>4. InFlight'
      <4>1. ram.ext = TRUE
        BY <3>1 DEF StoreInv, InFlight
      <4> QED
        BY <2>1, <3>1, <3>2, <4>1 DEF InFlight, CopyIndex
    <3> QED
      BY <3>2, <3>3, <3>4 DEF StoreInv, Register!Next
  <2>3. CASE ProgramCopy
    <3>1. /\ wr' = "idle" /\ wr = "program"
          /\ copies' = [copies EXCEPT ![CopyIndex(ram)] = ram]
      BY <2>3 DEF ProgramCopy
    <3>2. /\ ram.ext = TRUE /\ copies[CopyIndex(ram)] = Torn
          /\ \A i \in 0..1 : copies[i] # Torn => copies[i].seq < ram.seq
          /\ Early(copies) \/ ram.seq = Newest(copies).seq + 1
      BY <3>1 DEF StoreInv, InFlight
    <3>3. copies' \in Sectors /\ InPlace(copies') /\ Newest(copies') = ram
      BY <3>1, <3>2, <1>1, ProgramMakesNewest
    <3>4. Late(copies')
      BY <3>2, <3>3 DEF Late
    <3>5. TypeOK' /\ InFlight'
      BY <2>1, <3>1, <3>3 DEF StoreInv, TypeOK, Sectors, InFlight
    <3>6. InStep'
      <4>1. Load(copies') = ram
        BY <3>2, <3>3, LoadIsNewest
      <4> QED
        BY <2>1, <3>1, <4>1 DEF StoreInv, InStep
    <3>7. ram.seq \in Nat /\ ram.val \in Payload
      BY <1>1 DEF Rec
    <3>8. CASE Early(copies)
      <4>1. Newest(copies) \in Legacy \cup {DefaultRec}
        BY <3>8, SMT DEF Early, Newest
      <4>2. ram \in [seq : Nat, val : Payload, ext : {TRUE}]
        BY <1>1, <3>2 DEF Rec
      <4>3. Register!First
        BY <3>3, <4>1, <4>2 DEF Register!First
      <4> QED
        BY <3>3, <3>4, <3>5, <3>6, <4>3 DEF StoreInv, Register!Next
    <3>9. CASE Late(copies) /\ ram.seq = Newest(copies).seq + 1
      <4>1. ram = [seq |-> ram.seq, val |-> ram.val, ext |-> TRUE]
        BY <1>1, <3>2 DEF Rec
      <4>2. Register!Store(ram.val)
        BY <3>3, <3>9, <4>1 DEF Register!Store, Late
      <4> QED
        BY <3>3, <3>4, <3>5, <3>6, <3>7, <4>2 DEF StoreInv, Register!Next
    <3> QED
      BY <3>2, <3>8, <3>9 DEF StoreInv
  <2>4. CASE FailStore /\ owner = "app"
    <3>1. wr' = "idle" /\ wr \in {"erase", "program"}
      BY <2>4 DEF FailStore
    <3>2. TypeOK' /\ InFlight' /\ InStep' <=> copies' \in Sectors
      BY <2>1, <2>4, <3>1 DEF StoreInv, TypeOK, Sectors, InFlight, InStep
    <3>3. CASE UNCHANGED copies
      BY <1>1, <3>2, <3>3 DEF StoreInv
    <3>4. CASE copies' = [copies EXCEPT ![CopyIndex(ram)] = Torn] /\ wr = "erase"
      <4>1. /\ copies' \in Sectors /\ InPlace(copies')
            /\ Early(copies') \/ Late(copies')
            /\ Newest(copies') = Newest(copies) \/ Register!Lose
        BY <3>4, EraseInv
      <4> QED
        BY <3>2, <4>1 DEF StoreInv, Register!Next
    <3>5. CASE copies' = [copies EXCEPT ![CopyIndex(ram)] = Torn] /\ wr = "program"
      <4>1. copies[CopyIndex(ram)] = Torn
        BY <3>5 DEF StoreInv, InFlight
      <4>2. copies' = copies
        BY <3>5, <4>1, <1>1 DEF Sectors
      <4> QED
        BY <3>3, <4>2
    <3> QED
      BY <2>4, <3>1, <3>3, <3>4, <3>5 DEF FailStore
  <2> QED
    BY <1>7, <2>2, <2>3, <2>4 DEF FlashStep, Sound
<1>8. CASE PowerLoss
  <2>1. copies' = copies
    BY <1>8 DEF PowerLoss
  <2>2. TypeOK' /\ InFlight' /\ InStep'
    BY <1>8, RecAssumption DEF PowerLoss, StoreInv, TypeOK, InFlight, InStep
  <2> QED
    BY <2>1, <2>2 DEF StoreInv
<1>9. CASE UNCHANGED vars
  <2>1. copies' = copies
    BY <1>9 DEF vars
  <2>2. TypeOK' /\ InFlight' /\ InStep'
    BY <1>9 DEF vars, StoreInv, TypeOK, InFlight, InStep, CopyIndex
  <2> QED
    BY <2>1, <2>2 DEF StoreInv
<1> QED
  BY <1>3, <1>4, <1>5, <1>6, <1>7, <1>8, <1>9 DEF Next

(* The invariant holds in every reachable state; in particular the types   *)
(* are right.                                                              *)
THEOREM StoreInvariant == ASSUME Sound PROVE Spec => [](StoreInv /\ TypeOK)
<1>1. Init => StoreInv
  BY InitInv
<1>2. StoreInv /\ [Next]_vars => StoreInv'
  BY NextInv
<1>3. StoreInv => TypeOK
  BY DEF StoreInv
<1> QED
  BY <1>1, <1>2, <1>3, PTL DEF Spec

(* The two sectors implement the register: whatever an older firmware left *)
(* in them, and whatever the order of stores, failed flash operations of   *)
(* the application and power losses, a load returns the last record whose  *)
(* program completed; only an old record may be lost before the first is.  *)
THEOREM StoreImplementsRegister == ASSUME Sound PROVE Spec => RegisterSpec
<1>1. Init => Register!Init
  <2> HAVE Init
  <2>1. copies \in [0..1 -> Legacy \cup {Torn}]
    BY DEF Init
  <2>2. Newest(copies) \in Legacy \cup {DefaultRec}
    BY <2>1, SMT DEF Newest
  <2> QED
    BY <2>2 DEF Register!Init
<1>2. StoreInv /\ [Next]_vars => [Register!Next]_(Newest(copies))
  BY NextInv
<1>3. Init => StoreInv
  BY InitInv
<1>4. StoreInv /\ [Next]_vars => StoreInv'
  BY NextInv
<1> QED
  BY <1>1, <1>2, <1>3, <1>4, PTL DEF Spec, RegisterSpec, Register!Spec
=============================================================================
