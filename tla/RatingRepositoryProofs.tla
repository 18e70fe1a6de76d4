----------------------- MODULE RatingRepositoryProofs -----------------------
(***************************************************************************)
(* What holds of the rating repository for any number of goroutines,       *)
(* record types, records and Puts (SettledSafe), and what one writer at a  *)
(* time would add to it (SerialSafe, SerialImplements).                    *)
(***************************************************************************)
EXTENDS RatingRepository, TLAPS

\* A Put in flight is one of the writer's MaxPuts, and has its map by "load".
InFlightOK ==
  \A w \in Writers :
    /\ pc[w] # "idle" => puts[w] \in 1..MaxPuts
    /\ pc[w] \in {"load", "store"} => data[key[w][1]] # NoMap
    /\ pc[w] = "store" => ref[w] # NoMap

\* A map that is reachable was allocated by a Put that has started, and not by
\* one that has yet to install its map.
Allocated(m) == /\ m[2] <= puts[m[1]]
                /\ m = Mine(m[1]) => pc[m[1]] \notin {"check", "install"}

\* An inner map serves one record type.
Ownership ==
  /\ \A t \in Types : data[t] # NoMap => Allocated(data[t])
  /\ \A w \in Writers : pc[w] = "store" => Allocated(ref[w])
  /\ \A s, t \in Types : data[s] = data[t] /\ data[s] # NoMap => s = t
  /\ \A w \in Writers, t \in Types :
       pc[w] = "store" /\ data[t] = ref[w] => t = key[w][1]

\* What a Put in flight knows of the ratings that have settled.
SettledSeen ==
  \A w \in Writers :
    /\ pc[w] = "install" => \A id \in Records : settled[<<key[w][1], id>>] = {}
    /\ pc[w] = "store" => settled[key[w]] \subseteq seen[w]

IInv == TypeOK /\ InFlightOK /\ Ownership /\ SettledSeen /\ SettledKept

LEMMA MineIsRating ==
  ASSUME TypeOK, InFlightOK, NEW w \in Writers, pc[w] # "idle"
  PROVE  Mine(w) \in Rating /\ Mine(w) \in MapRef
BY DEF InFlightOK, Mine, Rating, MapRef

LEMMA NoMapIsNoRef == NoMap \notin MapRef
BY ConstantsOK DEF ConstantsOK, MapRef, Rating

LEMMA CurrentType ==
  ASSUME TypeOK, NEW k \in Key
  PROVE  Current(k) \in SUBSET Rating
BY DEF TypeOK, Current, Key

LEMMA InitOK == Init => IInv
<1> SUFFICES ASSUME Init PROVE IInv
  OBVIOUS
<1> USE ConstantsOK DEF ConstantsOK, Init
<1>0. (CHOOSE k \in Key : TRUE) \in Key
  <2>1. PICK t \in Types, id \in Records : TRUE
    OBVIOUS
  <2>2. <<t, id>> \in Key
    BY DEF Key
  <2> QED BY <2>2
<1>1. TypeOK
  <2>1. key \in [Writers \cup Readers -> Key]
    BY <1>0
  <2>2. data \in [Types -> MapRef \cup {NoMap}] /\ ref \in [Writers -> MapRef \cup {NoMap}]
    OBVIOUS
  <2>3. pc \in [Writers \cup Readers -> WriterPC \cup ReaderPC]
    BY DEF WriterPC, ReaderPC
  <2>4. /\ \A w \in Writers : pc[w] \in WriterPC
        /\ \A r \in Readers : pc[r] \in ReaderPC
    BY DEF WriterPC, ReaderPC
  <2>5. got \in [Readers -> Outcome]
    BY DEF Outcome
  <2>6. puts \in [Writers -> 0..MaxPuts]
    OBVIOUS
  <2>7. /\ maps \in [MapRef -> [Records -> SUBSET Rating]]
        /\ seen \in [Writers -> SUBSET Rating]
        /\ floor \in [Readers -> SUBSET Rating]
        /\ acked \in [Key -> SUBSET Rating] /\ settled \in [Key -> SUBSET Rating]
        /\ fatal \in BOOLEAN
    OBVIOUS
  <2> HIDE DEF Init
  <2> QED BY <2>1, <2>2, <2>3, <2>4, <2>5, <2>6, <2>7 DEF TypeOK
<1>2. InFlightOK /\ Ownership /\ SettledSeen
  BY DEF InFlightOK, Ownership, SettledSeen
<1>3. SettledKept
  BY DEF SettledKept
<1> QED BY <1>1, <1>2, <1>3 DEF IInv

\* Every step keeps the variables in their types.
LEMMA TypeStep ==
  ASSUME TypeOK, InFlightOK, [Next]_vars
  PROVE  TypeOK'
<1> USE DEF TypeOK
<1>1. ASSUME NEW w \in Writers, PutStart(w) PROVE TypeOK'
  <2>1. puts' \in [Writers -> 0..MaxPuts]
    BY <1>1, ConstantsOK DEF PutStart, ConstantsOK
  <2>2. settled' \in [Key -> SUBSET Rating]
    <3>1. \A k \in Key : Current(k) \in SUBSET Rating
      BY CurrentType
    <3> QED BY <1>1, <3>1 DEF PutStart
  <2>3. key' \in [Writers \cup Readers -> Key]
    BY <1>1 DEF PutStart
  <2>4. /\ pc' \in [Writers \cup Readers -> WriterPC \cup ReaderPC]
        /\ \A v \in Writers : pc'[v] \in WriterPC
        /\ \A r \in Readers : pc'[r] \in ReaderPC
    BY <1>1, ConstantsOK DEF PutStart, ConstantsOK, WriterPC, ReaderPC
  <2> QED BY <1>1, <2>1, <2>2, <2>3, <2>4 DEF PutStart
<1>2. ASSUME NEW w \in Writers, PutCheck(w) PROVE TypeOK'
  BY <1>2, ConstantsOK DEF PutCheck, ConstantsOK, WriterPC, ReaderPC, local, history
<1>3. ASSUME NEW w \in Writers, PutInstall(w) PROVE TypeOK'
  <2>1. Mine(w) \in MapRef
    BY <1>3, MineIsRating DEF PutInstall
  <2> QED BY <1>3, <2>1, ConstantsOK
          DEF PutInstall, ConstantsOK, WriterPC, ReaderPC, local, history
<1>4. ASSUME NEW w \in Writers, PutLoad(w) PROVE TypeOK'
  <2>1. key[w] \in Key /\ key[w][1] \in Types
    BY DEF Key
  <2>2. Current(key[w]) \in SUBSET Rating
    BY <2>1, CurrentType
  <2> QED BY <1>4, <2>1, <2>2, ConstantsOK
          DEF PutLoad, ConstantsOK, WriterPC, ReaderPC, history
<1>5. ASSUME NEW w \in Writers, PutStore(w) PROVE TypeOK'
  <2>1. Mine(w) \in Rating
    BY <1>5, MineIsRating DEF PutStore
  <2>2. key[w] \in Key /\ key[w][1] \in Types /\ key[w][2] \in Records
    BY DEF Key
  <2>3. maps' \in [MapRef -> [Records -> SUBSET Rating]]
    <3>1. PICK m : maps' = [maps EXCEPT ![m][key[w][2]] = seen[w] \cup {Mine(w)}]
      BY <1>5 DEF PutStore
    <3>2. seen[w] \cup {Mine(w)} \in SUBSET Rating
      BY <2>1
    <3>3. \A n \in MapRef : maps'[n] \in [Records -> SUBSET Rating]
      BY <3>1, <3>2
    <3>4. maps' = [n \in MapRef |-> maps'[n]]
      BY <3>1
    <3> QED BY <3>3, <3>4
  <2>4. acked' \in [Key -> SUBSET Rating]
    BY <1>5, <2>1, <2>2 DEF PutStore
  <2>5. pc' \in [Writers \cup Readers -> WriterPC \cup ReaderPC]
    BY <1>5 DEF PutStore, WriterPC, ReaderPC
  <2>6. /\ \A v \in Writers : pc'[v] \in WriterPC
        /\ \A r \in Readers : pc'[r] \in ReaderPC
    BY <1>5, ConstantsOK DEF PutStore, ConstantsOK, WriterPC, ReaderPC
  <2>7. ref' \in [Writers -> MapRef \cup {NoMap}] /\ seen' \in [Writers -> SUBSET Rating]
    BY <1>5 DEF PutStore
  <2> QED BY <1>5, <2>3, <2>4, <2>5, <2>6, <2>7 DEF PutStore
<1>6. ASSUME NEW r \in Readers, GetStep(r) PROVE TypeOK'
  <2>1. key[r] \in Key
    OBVIOUS
  <2>2. Current(key[r]) \in SUBSET Rating
    BY <2>1, CurrentType
  <2>3. CASE GetStart(r)
    BY <2>3, ConstantsOK DEF GetStart, ConstantsOK, WriterPC, ReaderPC, Outcome, local
  <2>4. CASE GetCheckType(r)
    <3>1. got' \in [Readers -> Outcome]
      BY <2>4 DEF GetCheckType, GetReturn, Outcome
    <3>2. /\ pc' \in [Writers \cup Readers -> WriterPC \cup ReaderPC]
          /\ \A w \in Writers : pc'[w] \in WriterPC
          /\ \A q \in Readers : pc'[q] \in ReaderPC
      BY <2>4, ConstantsOK DEF GetCheckType, GetReturn, ConstantsOK, WriterPC, ReaderPC
    <3> QED BY <2>4, <3>1, <3>2 DEF GetCheckType, local, history
  <2>5. CASE GetCheckRecord(r)
    <3>1. got' \in [Readers -> Outcome]
      BY <2>2, <2>5 DEF GetCheckRecord, GetReturn, Outcome
    <3>2. /\ pc' \in [Writers \cup Readers -> WriterPC \cup ReaderPC]
          /\ \A w \in Writers : pc'[w] \in WriterPC
          /\ \A q \in Readers : pc'[q] \in ReaderPC
      BY <2>5, ConstantsOK DEF GetCheckRecord, GetReturn, ConstantsOK, WriterPC, ReaderPC
    <3> QED BY <2>5, <3>1, <3>2 DEF GetCheckRecord, local, history
  <2>6. CASE GetFetch(r)
    <3>1. got' \in [Readers -> Outcome]
      BY <2>2, <2>6 DEF GetFetch, GetReturn, Outcome
    <3>2. /\ pc' \in [Writers \cup Readers -> WriterPC \cup ReaderPC]
          /\ \A w \in Writers : pc'[w] \in WriterPC
          /\ \A q \in Readers : pc'[q] \in ReaderPC
      BY <2>6, ConstantsOK DEF GetFetch, GetReturn, ConstantsOK, WriterPC, ReaderPC
    <3> QED BY <2>6, <3>1, <3>2 DEF GetFetch, local, history
  <2> QED BY <1>6, <2>3, <2>4, <2>5, <2>6 DEF GetStep
<1>7. CASE MapFatal
  BY <1>7 DEF MapFatal, local, history
<1>8. CASE UNCHANGED vars
  BY <1>8 DEF vars
<1> QED BY <1>1, <1>2, <1>3, <1>4, <1>5, <1>6, <1>7, <1>8 DEF Next, PutStep

\* A Get changes nothing that a Put works on.
LEMMA GetKeepsPuts ==
  ASSUME TypeOK, NEW r \in Readers, GetStep(r)
  PROVE  /\ \A v \in Writers : pc'[v] = pc[v] /\ key'[v] = key[v]
         /\ data' = data /\ maps' = maps /\ ref' = ref /\ seen' = seen /\ puts' = puts
         /\ acked' = acked /\ settled' = settled
<1> USE ConstantsOK DEF ConstantsOK, TypeOK
<1>1. CASE GetStart(r)
  BY <1>1 DEF GetStart, local
<1>2. CASE GetCheckType(r)
  BY <1>2 DEF GetCheckType, GetReturn, local, history
<1>3. CASE GetCheckRecord(r)
  BY <1>3 DEF GetCheckRecord, GetReturn, local, history
<1>4. CASE GetFetch(r)
  BY <1>4 DEF GetFetch, GetReturn, local, history
<1> QED BY <1>1, <1>2, <1>3, <1>4 DEF GetStep

\* Every step keeps what a Put in flight knows of its own arguments and maps.
LEMMA InFlightStep ==
  ASSUME IInv, [Next]_vars
  PROVE  InFlightOK'
<1> USE NoMapIsNoRef DEF IInv, InFlightOK, TypeOK
<1>1. ASSUME NEW w \in Writers, PutStart(w) PROVE InFlightOK'
  BY <1>1, ConstantsOK DEF PutStart, ConstantsOK
<1>2. ASSUME NEW w \in Writers, PutCheck(w) PROVE InFlightOK'
  BY <1>2 DEF PutCheck, local
<1>3. ASSUME NEW w \in Writers, PutInstall(w) PROVE InFlightOK'
  <2>1. Mine(w) \in MapRef
    BY <1>3, MineIsRating DEF PutInstall
  <2>2. /\ key' = key /\ puts' = puts /\ ref' = ref /\ pc[w] = "install" /\ pc'[w] = "load"
        /\ \A v \in Writers : v # w => pc'[v] = pc[v]
    BY <1>3 DEF PutInstall, local
  <2>3. \A v \in Writers : key[v][1] \in Types
    BY DEF Key
  <2>4. \A t \in Types : data'[t] = IF t = key[w][1] THEN Mine(w) ELSE data[t]
    BY <1>3 DEF PutInstall
  <2> QED BY <2>1, <2>2, <2>3, <2>4
<1>4. ASSUME NEW w \in Writers, PutLoad(w) PROVE InFlightOK'
  <2>1. data[key[w][1]] # NoMap
    BY <1>4 DEF PutLoad
  <2>2. /\ data' = data /\ key' = key /\ puts' = puts /\ pc[w] = "load"
        /\ pc'[w] = "store" /\ ref'[w] = data[key[w][1]]
        /\ \A v \in Writers : v # w => pc'[v] = pc[v] /\ ref'[v] = ref[v]
    BY <1>4 DEF PutLoad
  <2> QED BY <2>1, <2>2
<1>5. ASSUME NEW w \in Writers, PutStore(w) PROVE InFlightOK'
  BY <1>5 DEF PutStore
<1>6. ASSUME NEW r \in Readers, GetStep(r) PROVE InFlightOK'
  <2>1. /\ data' = data /\ ref' = ref /\ puts' = puts
        /\ \A w \in Writers : pc'[w] = pc[w] /\ key'[w] = key[w]
    BY <1>6, GetKeepsPuts
  <2> QED BY <2>1
<1>7. CASE MapFatal
  BY <1>7 DEF MapFatal, local
<1>8. CASE UNCHANGED vars
  BY <1>8 DEF vars
<1> QED BY <1>1, <1>2, <1>3, <1>4, <1>5, <1>6, <1>7, <1>8 DEF Next, PutStep

\* Every step keeps an inner map with the one type it was made for.
LEMMA OwnershipStep ==
  ASSUME IInv, [Next]_vars
  PROVE  Ownership'
<1> USE NoMapIsNoRef DEF IInv, TypeOK, Ownership
<1>1. ASSUME NEW w \in Writers, PutStart(w) PROVE Ownership'
  <2>1. \A m \in MapRef : Allocated(m) => Allocated(m)'
    BY <1>1 DEF PutStart, Allocated, Mine, MapRef, Rating
  <2> QED BY <1>1, <2>1 DEF PutStart, InFlightOK
<1>2. ASSUME NEW w \in Writers, PutCheck(w) PROVE Ownership'
  <2>1. \A t \in Types : data[t] # NoMap => Allocated(data[t])'
    BY <1>2 DEF PutCheck, Allocated, Mine, MapRef, Rating, local
  <2>2. \A v \in Writers : pc[v] = "store" => Allocated(ref[v])'
    BY <1>2 DEF PutCheck, Allocated, Mine, MapRef, Rating, local, InFlightOK
  <2> QED BY <1>2, <2>1, <2>2 DEF PutCheck, local
<1>3. ASSUME NEW w \in Writers, PutInstall(w) PROVE Ownership'
  <2>1. Mine(w) \in MapRef /\ ~Allocated(Mine(w))
    BY <1>3, MineIsRating DEF PutInstall, Allocated, Mine
  <2>2. \A m \in MapRef : Allocated(m) => Allocated(m)'
    BY <1>3 DEF PutInstall, Allocated, Mine, MapRef, Rating, local
  <2>3. Allocated(Mine(w))'
    BY <1>3 DEF PutInstall, Allocated, Mine, InFlightOK, local
  <2>4. key[w][1] \in Types
    BY DEF Key
  <2>5. \A t \in Types : t # key[w][1] => data'[t] = data[t]
    BY <1>3 DEF PutInstall
  <2>6. data'[key[w][1]] = Mine(w)
    BY <1>3, <2>4 DEF PutInstall
  <2>7. \A t \in Types : data[t] # Mine(w)
    BY <2>1
  <2>8. \A v \in Writers : pc[v] = "store" => ref[v] # Mine(w)
    BY <2>1
  <2>9. \A v \in Writers : pc'[v] = "store" => pc[v] = "store" /\ ref'[v] = ref[v] /\ ref[v] \in MapRef
    BY <1>3 DEF PutInstall, InFlightOK, local
  <2>10. key' = key
    BY <1>3 DEF PutInstall
  <2>11. \A t \in Types : data'[t] # NoMap => Allocated(data[t])' \/ data'[t] = Mine(w)
    BY <2>2, <2>5, <2>6
  <2>12. (\A t \in Types : data[t] # NoMap => Allocated(data[t]))'
    <3> TAKE t \in Types
    <3>1. CASE t = key[w][1]
      BY <1>3, <2>3, <2>6, <3>1 DEF Mine, PutInstall, local
    <3>2. CASE t # key[w][1]
      BY <2>2, <2>5, <3>2 DEF Allocated
    <3> QED BY <3>1, <3>2
  <2>13. (\A v \in Writers : pc[v] = "store" => Allocated(ref[v]))'
    BY <2>2, <2>9 DEF Allocated
  <2>14. (\A s, t \in Types : data[s] = data[t] /\ data[s] # NoMap => s = t)'
    BY <2>5, <2>6, <2>7
  <2>15. (\A v \in Writers, t \in Types : pc[v] = "store" /\ data[t] = ref[v] => t = key[v][1])'
    BY <2>5, <2>6, <2>8, <2>9, <2>10
  <2> QED BY <2>12, <2>13, <2>14, <2>15
<1>4. ASSUME NEW w \in Writers, PutLoad(w) PROVE Ownership'
  <2>1. \A m \in MapRef : Allocated(m) => Allocated(m)'
    BY <1>4 DEF PutLoad, Allocated, Mine, MapRef, Rating
  <2>2. key[w][1] \in Types /\ data[key[w][1]] \in MapRef
    BY <1>4 DEF PutLoad, InFlightOK, Key
  <2> QED BY <1>4, <2>1, <2>2 DEF PutLoad, InFlightOK
<1>5. ASSUME NEW w \in Writers, PutStore(w) PROVE Ownership'
  <2>1. \A m \in MapRef : Allocated(m) => Allocated(m)'
    BY <1>5 DEF PutStore, Allocated, Mine, MapRef, Rating
  <2> QED BY <1>5, <2>1 DEF PutStore, InFlightOK
<1>6. ASSUME NEW r \in Readers, GetStep(r) PROVE Ownership'
  <2>1. \A v \in Writers : pc'[v] = pc[v] /\ key'[v] = key[v]
    BY <1>6, GetKeepsPuts
  <2>2. data' = data /\ ref' = ref /\ puts' = puts
    BY <1>6, GetKeepsPuts
  <2>3. \A m \in MapRef : Allocated(m) => Allocated(m)'
    BY <2>1, <2>2 DEF Allocated, Mine, MapRef, Rating
  <2> QED BY <2>1, <2>2, <2>3 DEF InFlightOK
<1>7. CASE MapFatal
  BY <1>7 DEF MapFatal, local, Allocated, Mine
<1>8. CASE UNCHANGED vars
  BY <1>8 DEF vars, Allocated, Mine
<1> QED BY <1>1, <1>2, <1>3, <1>4, <1>5, <1>6, <1>7, <1>8 DEF Next, PutStep

\* Every step keeps the settled ratings readable, and known to the Puts that
\* could overwrite them.
LEMMA SettledStep ==
  ASSUME IInv, [Next]_vars
  PROVE  SettledKept' /\ SettledSeen'
<1> USE DEF IInv, SettledKept, SettledSeen
<1>0. \A w \in Writers : key[w] \in Key /\ key[w][1] \in Types /\ key[w][2] \in Records
  BY DEF TypeOK, Key
<1>1. ASSUME NEW w \in Writers, PutStart(w) PROVE SettledKept' /\ SettledSeen'
  <2>1. \A k \in Key : Current(k)' = Current(k)
    BY <1>1 DEF PutStart, Current
  <2>2. \/ settled' = settled
        \/ settled' = [k \in Key |-> Current(k)] /\ \A v \in Writers : pc[v] = "idle"
    BY <1>1 DEF PutStart
  <2>3. \A k \in Key : settled'[k] \subseteq Current(k)
    BY <2>2
  <2>4. \A v \in Writers : pc'[v] \in {"install", "store"} =>
          /\ pc[v] = pc'[v] /\ key'[v] = key[v] /\ seen'[v] = seen[v] /\ settled' = settled
    BY <1>1, <2>2 DEF PutStart, TypeOK
  <2> QED BY <2>1, <2>3, <2>4
<1>2. ASSUME NEW w \in Writers, PutCheck(w) PROVE SettledKept' /\ SettledSeen'
  <2>1. \A k \in Key : Current(k)' = Current(k)
    BY <1>2 DEF PutCheck, Current
  <2>2. /\ key' = key /\ seen' = seen /\ settled' = settled
        /\ \A v \in Writers : v # w => pc'[v] = pc[v]
    BY <1>2 DEF PutCheck, local, history, TypeOK
  <2>3. pc'[w] = "install" => \A id \in Records : settled[<<key[w][1], id>>] = {}
    <3>1. SUFFICES ASSUME pc'[w] = "install", NEW id \in Records
                   PROVE  settled[<<key[w][1], id>>] = {}
      OBVIOUS
    <3>2. data[key[w][1]] = NoMap
      BY <1>2, <3>1 DEF PutCheck, TypeOK
    <3>3. <<key[w][1], id>> \in Key
      BY <1>0 DEF Key
    <3> QED BY <3>2, <3>3 DEF Current
  <2>4. pc'[w] # "store"
    BY <1>2 DEF PutCheck, TypeOK
  <2> QED BY <2>1, <2>2, <2>3, <2>4
<1>3. ASSUME NEW w \in Writers, PutInstall(w) PROVE SettledKept' /\ SettledSeen'
  <2>1. /\ key' = key /\ seen' = seen /\ settled' = settled /\ maps' = maps
        /\ \A v \in Writers : pc'[v] \in {"install", "store"} => pc'[v] = pc[v]
        /\ \A t \in Types : t # key[w][1] => data'[t] = data[t]
    BY <1>3 DEF PutInstall, local, history, TypeOK
  <2>2. ASSUME NEW k \in Key PROVE settled[k] \subseteq Current(k)'
    <3>1. k = <<k[1], k[2]>> /\ k[1] \in Types /\ k[2] \in Records
      BY DEF Key
    <3>2. CASE k[1] = key[w][1]
      BY <1>3, <3>1, <3>2 DEF PutInstall
    <3>3. CASE k[1] # key[w][1]
      BY <2>1, <3>1, <3>3 DEF Current
    <3> QED BY <3>2, <3>3
  <2> QED BY <2>1, <2>2
<1>4. ASSUME NEW w \in Writers, PutLoad(w) PROVE SettledKept' /\ SettledSeen'
  <2>1. \A k \in Key : Current(k)' = Current(k)
    BY <1>4 DEF PutLoad, Current
  <2>2. /\ key' = key /\ settled' = settled
        /\ pc'[w] # "install" /\ seen'[w] = Current(key[w])
        /\ \A v \in Writers : v # w => pc'[v] = pc[v] /\ seen'[v] = seen[v]
    BY <1>4 DEF PutLoad, history, TypeOK
  <2> QED BY <1>0, <2>1, <2>2
<1>5. ASSUME NEW w \in Writers, PutStore(w) PROVE SettledKept' /\ SettledSeen'
  <2>1. /\ key' = key /\ settled' = settled /\ data' = data /\ pc'[w] = "idle"
        /\ \A v \in Writers : v # w => pc'[v] = pc[v] /\ seen'[v] = seen[v]
    BY <1>5 DEF PutStore, TypeOK
  <2>2. PICK m \in {ref[w], data[key[w][1]]} :
          maps' = [maps EXCEPT ![m][key[w][2]] = seen[w] \cup {Mine(w)}]
    BY <1>5 DEF PutStore
  <2>3. m \in MapRef
    BY <1>0, <1>5 DEF PutStore, InFlightOK, TypeOK
  <2>4. \A t \in Types : data[t] = m => t = key[w][1]
    BY <1>0, <1>5, <2>3, NoMapIsNoRef DEF Ownership, PutStore
  <2>5. ASSUME NEW k \in Key PROVE settled[k] \subseteq Current(k)'
    <3>1. k = <<k[1], k[2]>> /\ k[1] \in Types /\ k[2] \in Records
      BY DEF Key
    <3>2. CASE data[k[1]] = m /\ k[2] = key[w][2]
      <4>1. k = key[w]
        BY <1>0, <2>4, <3>1, <3>2 DEF Key
      <4>2. settled[k] \subseteq seen[w]
        BY <1>5, <4>1 DEF PutStore
      <4>3. Current(k)' = seen[w] \cup {Mine(w)}
        BY <2>1, <2>2, <2>3, <3>1, <3>2, NoMapIsNoRef DEF Current, TypeOK
      <4> QED BY <4>2, <4>3
    <3>3. CASE ~(data[k[1]] = m /\ k[2] = key[w][2])
      <4>1. Current(k)' = Current(k)
        BY <2>1, <2>2, <2>3, <3>1, <3>3 DEF Current, TypeOK
      <4> QED BY <4>1
    <3> QED BY <3>2, <3>3
  <2> QED BY <2>1, <2>5
<1>6. ASSUME NEW r \in Readers, GetStep(r) PROVE SettledKept' /\ SettledSeen'
  BY <1>6, GetKeepsPuts DEF Current
<1>7. CASE MapFatal
  BY <1>7 DEF MapFatal, local, history, Current
<1>8. CASE UNCHANGED vars
  BY <1>8 DEF vars, Current
<1> QED BY <1>1, <1>2, <1>3, <1>4, <1>5, <1>6, <1>7, <1>8 DEF Next, PutStep

LEMMA Inductive == Spec => []IInv
<1>1. IInv /\ [Next]_vars => IInv'
  BY TypeStep, InFlightStep, OwnershipStep, SettledStep DEF IInv
<1> QED BY InitOK, <1>1, PTL DEF Spec

\* The repository never stores a value of another type.
THEOREM TypeCorrect == Spec => []TypeOK
<1>1. IInv => TypeOK
  BY DEF IInv
<1> QED BY Inductive, <1>1, PTL

\* However many Puts race, they lose no rating that was readable when none of
\* them had started.
THEOREM SettledSafe == Spec => []SettledKept
<1>1. IInv => SettledKept
  BY DEF IInv
<1> QED BY Inductive, <1>1, PTL

(***************************************************************************)
(* Where ratings come from.  A Put in flight appends to ratings of its own *)
(* record, and the map it installs is empty.                               *)
(***************************************************************************)

Belongs(x, k) == x \in acked[k] \/ (pc[x[1]] # "idle" /\ key[x[1]] = k /\ x = Mine(x[1]))

LoadedFrom(w) == pc[w] = "store" => \A x \in seen[w] : Belongs(x, key[w])
StoredFrom(k) == \A x \in Current(k) : Belongs(x, k)

Origins ==
  /\ \A w \in Writers : LoadedFrom(w)
  /\ \A m \in MapRef, id \in Records : ~Allocated(m) => maps[m][id] = {}

OInv == IInv /\ Origins /\ StoredWerePut

LEMMA StoredFromIs ==
  /\ StoredWerePut <=> \A k \in Key : StoredFrom(k)
  /\ StoredWerePut' <=> \A k \in Key : StoredFrom(k)'
BY Zenon DEF StoredWerePut, StoredFrom, Belongs

\* A step that leaves the maps, what Puts have loaded and what was acknowledged
\* keeps origins, if no Put begins or ends in it and none loads.
LEMMA OriginsKept ==
  ASSUME OInv, UNCHANGED <<data, maps, puts, acked>>,
         \A w \in Writers : /\ pc[w] # "idle" => pc'[w] # "idle" /\ key'[w] = key[w]
                            /\ pc'[w] = "store" => pc[w] = "store" /\ seen'[w] = seen[w],
         \A m \in MapRef : Allocated(m) => Allocated(m)'
  PROVE  Origins' /\ StoredWerePut'
<1>1. \A x \in Rating, k \in Key : Belongs(x, k) => Belongs(x, k)'
  BY DEF Belongs, Mine, Rating
<1>2. \A k \in Key : Current(k)' = Current(k) /\ Current(k) \subseteq Rating
  BY CurrentType DEF OInv, IInv, Current
<1>3. StoredWerePut'
  <2>1. \A k \in Key : StoredFrom(k)'
    BY <1>1, <1>2, StoredFromIs DEF OInv, StoredFrom
  <2> QED BY <2>1, StoredFromIs
<1>4. \A w \in Writers : LoadedFrom(w)'
  <2>1. \A w \in Writers : seen[w] \subseteq Rating /\ key[w] \in Key
    BY DEF OInv, IInv, TypeOK
  <2>2. SUFFICES ASSUME NEW w \in Writers, pc'[w] = "store", NEW x \in seen'[w]
                 PROVE  Belongs(x, key[w])'
    BY DEF LoadedFrom
  <2>3. Belongs(x, key[w]) /\ x \in Rating /\ key'[w] = key[w] /\ pc[w] = "store"
    BY <2>1, <2>2 DEF OInv, Origins, LoadedFrom
  <2>4. acked' = acked /\ x[1] \in Writers
    BY <2>3 DEF Rating
  <2> QED BY <2>3, <2>4 DEF Belongs, Mine
<1>5. \A m \in MapRef, id \in Records : ~Allocated(m)' => maps'[m][id] = {}
  BY DEF OInv, Origins, LoadedFrom
<1> QED BY <1>3, <1>4, <1>5 DEF Origins

LEMMA OriginsStep ==
  ASSUME OInv, [Next]_vars
  PROVE  Origins' /\ StoredWerePut'
<1> USE NoMapIsNoRef DEF MapRef
<1>0. /\ TypeOK /\ InFlightOK /\ Ownership
      /\ \A w \in Writers : /\ key[w] \in Key /\ key[w][1] \in Types /\ key[w][2] \in Records
                             /\ seen[w] \subseteq Rating
      /\ \A k \in Key : k = <<k[1], k[2]>> /\ k[1] \in Types /\ k[2] \in Records
  BY DEF OInv, IInv, TypeOK, Key
<1>1. ASSUME NEW w \in Writers, PutStart(w) PROVE Origins' /\ StoredWerePut'
  <2>1. /\ pc[w] = "idle" /\ pc'[w] = "check" /\ UNCHANGED <<data, maps, seen, acked>>
        /\ puts' = [puts EXCEPT ![w] = puts[w] + 1]
        /\ \A v \in Writers \ {w} : pc'[v] = pc[v] /\ key'[v] = key[v] /\ puts'[v] = puts[v]
    BY <1>0, <1>1 DEF PutStart, TypeOK
  <2>2. \A x \in Rating, k \in Key : Belongs(x, k) => Belongs(x, k)'
    BY <2>1 DEF Belongs, Mine, Rating
  <2>3. \A m \in MapRef : Allocated(m) => Allocated(m)'
    BY <1>0, <1>1 DEF PutStart, Allocated, Mine, Rating, TypeOK
  <2>4. \A k \in Key : Current(k)' = Current(k) /\ Current(k) \subseteq Rating
    BY <1>0, <2>1, CurrentType DEF Current
  <2>5. StoredWerePut'
    BY <2>2, <2>4, StoredFromIs DEF OInv, StoredFrom
  <2>6. \A v \in Writers : LoadedFrom(v)'
    BY <1>0, <2>1, <2>2 DEF OInv, Origins, LoadedFrom
  <2>7. \A m \in MapRef, id \in Records : ~Allocated(m)' => maps'[m][id] = {}
    BY <2>1, <2>3 DEF OInv, Origins, LoadedFrom
  <2> QED BY <2>5, <2>6, <2>7 DEF Origins
<1>2. ASSUME NEW w \in Writers, PutCheck(w) PROVE Origins' /\ StoredWerePut'
  <2>1. /\ UNCHANGED <<data, maps, puts, acked, key, seen>> /\ pc[w] = "check"
        /\ pc'[w] \in {"install", "load"} /\ \A v \in Writers \ {w} : pc'[v] = pc[v]
    BY <1>0, <1>2 DEF PutCheck, local, history, TypeOK
  <2>2. \A m \in MapRef : Allocated(m) => Allocated(m)'
    BY <2>1 DEF Allocated, Mine, Rating
  <2> QED BY <2>1, <2>2, OriginsKept
<1>3. ASSUME NEW w \in Writers, PutInstall(w) PROVE Origins' /\ StoredWerePut'
  <2>1. /\ UNCHANGED <<maps, puts, acked, key, seen>> /\ pc[w] = "install" /\ pc'[w] = "load"
        /\ \A v \in Writers \ {w} : pc'[v] = pc[v]
        /\ data' = [data EXCEPT ![key[w][1]] = Mine(w)]
    BY <1>0, <1>3 DEF PutInstall, local, history, TypeOK
  <2>2. Mine(w) \in MapRef /\ ~Allocated(Mine(w))
    BY <1>0, <2>1, MineIsRating DEF Allocated, Mine
  <2>3. \A x \in Rating, k \in Key : Belongs(x, k) => Belongs(x, k)'
    BY <2>1 DEF Belongs, Mine, Rating
  <2>4. \A m \in MapRef : Allocated(m) => Allocated(m)'
    BY <2>1 DEF Allocated, Mine, Rating
  <2>5. ASSUME NEW k \in Key PROVE Current(k)' \subseteq Current(k) /\ Current(k) \subseteq Rating
    <3>1. CASE k[1] = key[w][1]
      <4>1. data'[k[1]] = Mine(w)
        BY <1>0, <2>1, <3>1 DEF TypeOK
      <4>2. Current(k)' = {}
        BY <1>0, <2>1, <2>2, <4>1 DEF Current, OInv, Origins
      <4> QED BY <1>0, <4>2, CurrentType
    <3>2. CASE k[1] # key[w][1]
      <4>1. data'[k[1]] = data[k[1]]
        BY <1>0, <2>1, <3>2 DEF TypeOK
      <4> QED BY <1>0, <2>1, <4>1, CurrentType DEF Current
    <3> QED BY <3>1, <3>2
  <2>6. StoredWerePut'
    BY <2>3, <2>5, StoredFromIs DEF OInv, StoredFrom
  <2>7. \A v \in Writers : LoadedFrom(v)'
    BY <1>0, <2>1, <2>3 DEF OInv, Origins, LoadedFrom
  <2>8. \A m \in MapRef, id \in Records : ~Allocated(m)' => maps'[m][id] = {}
    BY <2>1, <2>4 DEF OInv, Origins, LoadedFrom
  <2> QED BY <2>6, <2>7, <2>8 DEF Origins
<1>4. ASSUME NEW w \in Writers, PutLoad(w) PROVE Origins' /\ StoredWerePut'
  <2>1. /\ UNCHANGED <<data, maps, puts, acked, key>> /\ pc[w] = "load" /\ pc'[w] = "store"
        /\ \A v \in Writers \ {w} : pc'[v] = pc[v] /\ seen'[v] = seen[v]
        /\ seen'[w] = Current(key[w])
    BY <1>0, <1>4 DEF PutLoad, history, TypeOK
  <2>2. \A x \in Rating, k \in Key : Belongs(x, k) => Belongs(x, k)'
    BY <2>1 DEF Belongs, Mine, Rating
  <2>3. \A m \in MapRef : Allocated(m) => Allocated(m)'
    BY <2>1 DEF Allocated, Mine, Rating
  <2>4. \A k \in Key : Current(k)' = Current(k) /\ Current(k) \subseteq Rating
    BY <1>0, <2>1, CurrentType DEF Current
  <2>5. \A k \in Key : \A x \in Current(k) : Belongs(x, k)
    BY StoredFromIs DEF OInv, StoredFrom
  <2>6. StoredWerePut'
    BY <2>2, <2>4, <2>5, StoredFromIs DEF StoredFrom
  <2>7. \A v \in Writers : LoadedFrom(v)'
    BY <1>0, <2>1, <2>2, <2>4, <2>5 DEF OInv, Origins, LoadedFrom
  <2>8. \A m \in MapRef, id \in Records : ~Allocated(m)' => maps'[m][id] = {}
    BY <2>1, <2>3 DEF OInv, Origins, LoadedFrom
  <2> QED BY <2>6, <2>7, <2>8 DEF Origins
<1>5. ASSUME NEW w \in Writers, PutStore(w) PROVE Origins' /\ StoredWerePut'
  <2>1. /\ UNCHANGED <<data, puts, key>> /\ pc[w] = "store" /\ pc'[w] = "idle"
        /\ \A v \in Writers \ {w} : pc'[v] = pc[v] /\ seen'[v] = seen[v]
        /\ acked' = [acked EXCEPT ![key[w]] = acked[key[w]] \cup {Mine(w)}]
    BY <1>0, <1>5 DEF PutStore, TypeOK
  <2>2. PICK m \in {ref[w], data[key[w][1]]} :
          maps' = [maps EXCEPT ![m][key[w][2]] = seen[w] \cup {Mine(w)}]
    BY <1>5 DEF PutStore
  <2>3. /\ m \in MapRef /\ Allocated(m) /\ Mine(w) \in Rating
        /\ \A t \in Types : data[t] = m => t = key[w][1]
    BY <1>0, <2>1, <2>2, MineIsRating DEF InFlightOK, TypeOK, Ownership
  <2>4. \A k \in Key : acked[k] \subseteq acked'[k]
    BY <1>0, <2>1 DEF TypeOK
  <2>5. Mine(w) \in acked'[key[w]]
    BY <1>0, <2>1 DEF TypeOK
  <2>6. \A x \in Rating, k \in Key : Belongs(x, k) => Belongs(x, k)'
    <3>1. SUFFICES ASSUME NEW x \in Rating, NEW k \in Key, Belongs(x, k) PROVE Belongs(x, k)'
      OBVIOUS
    <3>2. x[1] \in Writers
      BY DEF Rating
    <3>3. CASE x[1] = w
      BY <2>4, <2>5, <3>1, <3>3 DEF Belongs
    <3>4. CASE x[1] # w
      BY <2>1, <2>4, <3>1, <3>2, <3>4 DEF Belongs, Mine
    <3> QED BY <3>3, <3>4
  <2>7. Belongs(Mine(w), key[w])'
    BY <2>1, <2>5 DEF Belongs, Mine
  <2>8. \A x \in seen[w] : Belongs(x, key[w])'
    BY <1>0, <2>1, <2>6 DEF OInv, Origins, LoadedFrom
  <2>9. \A n \in MapRef, id \in Records :
          maps'[n][id] = IF n = m /\ id = key[w][2] THEN seen[w] \cup {Mine(w)} ELSE maps[n][id]
    BY <1>0, <2>2, <2>3 DEF TypeOK
  <2>10. ASSUME NEW k \in Key PROVE \A x \in Current(k)' : Belongs(x, k)'
    <3>1. CASE data[k[1]] = m /\ k[2] = key[w][2]
      <4>1. k = key[w]
        BY <1>0, <2>3, <3>1 DEF Key
      <4>2. Current(k)' = seen[w] \cup {Mine(w)}
        BY <1>0, <2>1, <2>3, <2>9, <3>1 DEF Current
      <4>3. key'[w] = k /\ Mine(w)' = Mine(w)
        BY <2>1, <4>1 DEF Mine
      <4>4. \A x : Belongs(x, key[w])' <=> Belongs(x, k)'
        BY <4>3, Zenon DEF Belongs
      <4>5. Belongs(Mine(w), k)' /\ \A x \in seen[w] : Belongs(x, k)'
        BY <2>7, <2>8, <4>4
      <4>6. \A x : x = Mine(w) => Belongs(x, k)'
        BY <4>3, <4>5
      <4> QED BY <4>2, <4>5, <4>6
    <3>2. CASE ~(data[k[1]] = m /\ k[2] = key[w][2])
      <4>1. Current(k)' = Current(k) /\ Current(k) \subseteq Rating
        BY <1>0, <2>1, <2>3, <2>9, <3>2, CurrentType DEF Current, TypeOK
      <4>2. \A x \in Current(k) : Belongs(x, k)
        BY StoredFromIs DEF OInv, StoredFrom
      <4> QED BY <2>6, <4>1, <4>2
    <3> QED BY <3>1, <3>2
  <2>11. StoredWerePut'
    BY <2>10, StoredFromIs DEF StoredFrom
  <2>12. \A v \in Writers : LoadedFrom(v)'
    BY <1>0, <2>1, <2>6 DEF OInv, Origins, LoadedFrom
  <2>13. \A n \in MapRef, id \in Records : ~Allocated(n)' => maps'[n][id] = {}
    <3>1. \A n \in MapRef : Allocated(n) => Allocated(n)'
      BY <2>1 DEF Allocated, Mine, Rating
    <3> QED BY <2>3, <2>9, <3>1 DEF OInv, Origins, LoadedFrom
  <2> QED BY <2>11, <2>12, <2>13 DEF Origins
<1>6. ASSUME NEW r \in Readers, GetStep(r) PROVE Origins' /\ StoredWerePut'
  <2>1. /\ UNCHANGED <<data, maps, puts, acked, seen>>
        /\ \A v \in Writers : pc'[v] = pc[v] /\ key'[v] = key[v]
    BY <1>0, <1>6, GetKeepsPuts
  <2>2. \A m \in MapRef : Allocated(m) => Allocated(m)'
    BY <2>1 DEF Allocated, Mine, Rating
  <2> QED BY <2>1, <2>2, OriginsKept
<1>7. CASE MapFatal \/ UNCHANGED vars
  <2>1. UNCHANGED <<data, maps, puts, acked, seen, pc, key>>
    BY <1>7 DEF MapFatal, vars, local, history
  <2>2. \A m \in MapRef : Allocated(m) => Allocated(m)'
    BY <2>1 DEF Allocated, Mine
  <2> QED BY <2>1, <2>2, OriginsKept
<1> QED BY <1>1, <1>2, <1>3, <1>4, <1>5, <1>6, <1>7 DEF Next, PutStep

\* However Puts race, a rating is readable only under the record it was put for.
THEOREM OriginSafe == Spec => []StoredWerePut
<1>1. Init => OInv
  <2>1. ASSUME Init PROVE Origins /\ StoredWerePut
    <3>1. /\ \A w \in Writers : pc[w] # "store"
          /\ \A m \in MapRef, id \in Records : maps[m][id] = {}
          /\ \A t \in Types : data[t] = NoMap
      BY <2>1 DEF Init
    <3>2. \A k \in Key : Current(k) = {}
      BY <3>1 DEF Current, Key
    <3> QED BY <3>1, <3>2 DEF Origins, LoadedFrom, StoredWerePut
  <2> QED BY <2>1, InitOK DEF OInv
<1>2. OInv /\ [Next]_vars => OInv'
  BY TypeStep, InFlightStep, OwnershipStep, SettledStep, OriginsStep DEF OInv, IInv
<1>3. OInv => StoredWerePut
  BY DEF OInv
<1> QED BY <1>1, <1>2, <1>3, PTL DEF Spec

(***************************************************************************)
(* One writer at a time                                                    *)
(***************************************************************************)

\* What the only writer has looked up is still true when it is used.
WriterFresh ==
  \A w \in Writers :
    /\ pc[w] = "install" => data[key[w][1]] = NoMap
    /\ pc[w] = "store" => ref[w] = data[key[w][1]] /\ seen[w] = Current(key[w])

\* A map that nothing reaches yet is empty.
UnallocatedEmpty ==
  \A m \in MapRef : ~Allocated(m) => \A id \in Records : maps[m][id] = {}

\* What is readable is what has been acknowledged, all of it from Puts that
\* have returned.
Exact ==
  \A k \in Key :
    /\ Current(k) = acked[k]
    /\ \A x \in acked[k] : /\ x[2] <= puts[x[1]]
                           /\ x = Mine(x[1]) => pc[x[1]] = "idle"

\* What a Get in flight was promised, and has found.
ReaderFresh ==
  \A r \in Readers :
    /\ pc[r] # "idle" => floor[r] \subseteq acked[key[r]] /\ got[r].status = "none"
    /\ pc[r] = "fetch" => acked[key[r]] # {}

SInv == /\ IInv /\ WriterFresh /\ UnallocatedEmpty /\ Exact
        /\ ReaderFresh /\ NoEmptyRead /\ ReadsSeeAcked

LEMMA SerialInit == Init => SInv
<1> SUFFICES ASSUME Init PROVE SInv
  OBVIOUS
<1>1. IInv
  BY InitOK
<1>2. WriterFresh /\ UnallocatedEmpty /\ ReaderFresh /\ NoEmptyRead /\ ReadsSeeAcked
  BY DEF Init, WriterFresh, UnallocatedEmpty, ReaderFresh, NoEmptyRead, ReadsSeeAcked
<1>3. Exact
  BY DEF Init, Exact, Current, Key
<1> QED BY <1>1, <1>2, <1>3 DEF SInv

\* The store of the only writer adds its rating to its record, and leaves every
\* other record alone.
LEMMA StoreAdds ==
  ASSUME SInv, NEW w \in Writers, PutStore(w), NEW k \in Key
  PROVE  Current(k)' = IF k = key[w] THEN Current(k) \cup {Mine(w)} ELSE Current(k)
<1> USE DEF SInv, IInv, TypeOK
<1>1. key[w] = <<key[w][1], key[w][2]>> /\ key[w][1] \in Types /\ key[w][2] \in Records
  BY DEF Key
<1>2. k = <<k[1], k[2]>> /\ k[1] \in Types /\ k[2] \in Records
  BY DEF Key
<1>3. /\ data' = data /\ data[key[w][1]] \in MapRef
      /\ maps' = [maps EXCEPT ![data[key[w][1]]][key[w][2]] = Current(key[w]) \cup {Mine(w)}]
  BY <1>1 DEF PutStore, WriterFresh, InFlightOK
<1>4. \A t \in Types : data[t] = data[key[w][1]] => t = key[w][1]
  BY <1>1, <1>3, NoMapIsNoRef DEF Ownership
<1>5. CASE k = key[w]
  BY <1>1, <1>3, <1>5, NoMapIsNoRef DEF Current
<1>6. CASE k # key[w]
  <2>1. data[k[1]] # data[key[w][1]] \/ k[2] # key[w][2]
    BY <1>1, <1>2, <1>4, <1>6
  <2> QED BY <1>1, <1>2, <1>3, <1>6, <2>1 DEF Current
<1> QED BY <1>5, <1>6

\* A Put changes what is readable only when it stores.
LEMMA OthersKeep ==
  ASSUME SInv, NEW w \in Writers,
         PutStart(w) \/ PutCheck(w) \/ PutInstall(w) \/ PutLoad(w), NEW k \in Key
  PROVE  Current(k)' = Current(k)
<1>1. CASE PutStart(w)
  BY <1>1 DEF PutStart, Current
<1>2. CASE PutCheck(w)
  BY <1>2 DEF PutCheck, Current
<1>3. CASE PutInstall(w)
  <2>1. Mine(w) \in MapRef /\ ~Allocated(Mine(w))
    BY <1>3, MineIsRating DEF SInv, IInv, PutInstall, Allocated, Mine
  <2>2. \A id \in Records : maps[Mine(w)][id] = {}
    BY <2>1 DEF SInv, UnallocatedEmpty
  <2>3. k[1] \in Types /\ k[2] \in Records
    BY DEF Key
  <2>4. maps' = maps /\ data' = [data EXCEPT ![key[w][1]] = Mine(w)]
    BY <1>3 DEF PutInstall
  <2>5. CASE k[1] = key[w][1]
    BY <1>3, <2>1, <2>2, <2>3, <2>4, <2>5, NoMapIsNoRef
    DEF Current, PutInstall, SInv, WriterFresh, IInv, TypeOK
  <2>6. CASE k[1] # key[w][1]
    BY <2>3, <2>4, <2>6 DEF Current, SInv, IInv, TypeOK
  <2> QED BY <2>5, <2>6
<1>4. CASE PutLoad(w)
  BY <1>4 DEF PutLoad, Current
<1> QED BY <1>1, <1>2, <1>3, <1>4

LEMMA WriterFreshStep ==
  ASSUME SInv, [Next]_vars, NEW w, Writers = {w}
  PROVE  WriterFresh'
<1> USE DEF SInv, IInv, TypeOK, WriterFresh
<1>0. key[w] \in Key
  OBVIOUS
<1>1. CASE PutStart(w)
  BY <1>1 DEF PutStart
<1>2. CASE PutCheck(w)
  BY <1>2 DEF PutCheck, local
<1>3. CASE PutInstall(w)
  BY <1>3 DEF PutInstall, local
<1>4. CASE PutLoad(w)
  <2>1. Current(key[w])' = Current(key[w]) /\ key' = key
    BY <1>0, <1>4 DEF PutLoad, Current
  <2> QED BY <1>4, <2>1 DEF PutLoad
<1>5. CASE PutStore(w)
  BY <1>5 DEF PutStore
<1>6. ASSUME NEW r \in Readers, GetStep(r) PROVE WriterFresh'
  BY <1>6, GetKeepsPuts DEF Current
<1>7. CASE MapFatal
  BY <1>7 DEF MapFatal, local, Current
<1>8. CASE UNCHANGED vars
  BY <1>8 DEF vars, Current
<1> QED BY <1>1, <1>2, <1>3, <1>4, <1>5, <1>6, <1>7, <1>8 DEF Next, PutStep

LEMMA UnallocatedStep ==
  ASSUME SInv, [Next]_vars, NEW w, Writers = {w}
  PROVE  UnallocatedEmpty'
<1> USE DEF SInv, IInv, TypeOK, UnallocatedEmpty
<1>0. \A m \in MapRef : m[1] \in Writers /\ m[2] \in Nat
  BY DEF MapRef, Rating
<1>1. CASE PutStart(w)
  BY <1>0, <1>1 DEF PutStart, Allocated, Mine
<1>2. CASE PutCheck(w)
  BY <1>0, <1>2 DEF PutCheck, Allocated, Mine, local
<1>3. CASE PutInstall(w)
  BY <1>0, <1>3 DEF PutInstall, Allocated, Mine, local
<1>4. CASE PutLoad(w)
  BY <1>0, <1>4 DEF PutLoad, Allocated, Mine
<1>5. CASE PutStore(w)
  <2>1. /\ ref[w] = data[key[w][1]] /\ ref[w] \in MapRef /\ Allocated(ref[w])
        /\ maps' = [maps EXCEPT ![ref[w]][key[w][2]] = seen[w] \cup {Mine(w)}]
    BY <1>5 DEF PutStore, WriterFresh, InFlightOK, Ownership
  <2>2. \A m \in MapRef : Allocated(m)' <=> Allocated(m)
    BY <1>0, <1>5 DEF PutStore, Allocated, Mine
  <2> QED BY <2>1, <2>2
<1>6. ASSUME NEW r \in Readers, GetStep(r) PROVE UnallocatedEmpty'
  BY <1>0, <1>6, GetKeepsPuts DEF Allocated, Mine
<1>7. CASE MapFatal
  BY <1>7 DEF MapFatal, local, Allocated, Mine
<1>8. CASE UNCHANGED vars
  BY <1>8 DEF vars, Allocated, Mine
<1> QED BY <1>1, <1>2, <1>3, <1>4, <1>5, <1>6, <1>7, <1>8 DEF Next, PutStep

LEMMA ExactStep ==
  ASSUME SInv, [Next]_vars, NEW w, Writers = {w}
  PROVE  Exact'
<1> USE DEF SInv, IInv, TypeOK, Exact
<1>0. \A k \in Key : \A x \in acked[k] : x[1] = w /\ x[2] \in Nat
  BY DEF Rating
<1>1. CASE PutStart(w)
  <2>1. acked' = acked /\ puts'[w] = puts[w] + 1 /\ puts[w] \in Nat
    BY <1>1 DEF PutStart
  <2> QED BY <1>0, <1>1, <2>1, OthersKeep DEF Mine
<1>2. CASE PutCheck(w)
  BY <1>0, <1>2, OthersKeep DEF PutCheck, Mine, local, history
<1>3. CASE PutInstall(w)
  BY <1>0, <1>3, OthersKeep DEF PutInstall, Mine, local, history
<1>4. CASE PutLoad(w)
  BY <1>0, <1>4, OthersKeep DEF PutLoad, Mine, history
<1>5. CASE PutStore(w)
  <2>1. key[w] \in Key
    OBVIOUS
  <2>2. /\ acked' = [acked EXCEPT ![key[w]] = @ \cup {Mine(w)}]
        /\ pc'[w] = "idle" /\ puts' = puts
    BY <1>5 DEF PutStore
  <2>3. \A k \in Key : Current(k)' = acked'[k]
    BY <1>5, <2>1, <2>2, StoreAdds
  <2>4. \A k \in Key : \A x \in acked'[k] : x \in acked[k] \/ x = Mine(w)
    BY <2>1, <2>2
  <2>5. puts[w] \in Nat /\ Mine(w)[1] = w /\ Mine(w)[2] = puts[w]
    BY DEF Mine
  <2> QED BY <1>0, <2>2, <2>3, <2>4, <2>5
<1>6. ASSUME NEW r \in Readers, GetStep(r) PROVE Exact'
  <2>1. acked' = acked /\ puts' = puts /\ pc'[w] = pc[w] /\ \A k \in Key : Current(k)' = Current(k)
    BY <1>6, GetKeepsPuts DEF Current
  <2> QED BY <1>0, <2>1 DEF Mine
<1>7. CASE MapFatal
  BY <1>7 DEF MapFatal, local, history, Current, Mine
<1>8. CASE UNCHANGED vars
  BY <1>8 DEF vars, Current, Mine
<1> QED BY <1>1, <1>2, <1>3, <1>4, <1>5, <1>6, <1>7, <1>8 DEF Next, PutStep

\* What the readers rely on: nothing they were promised goes away.
LEMMA ReadersStep ==
  ASSUME SInv, [Next]_vars, NEW w, Writers = {w}
  PROVE  (ReaderFresh /\ NoEmptyRead /\ ReadsSeeAcked)'
<1> USE DEF SInv, IInv, TypeOK, ReaderFresh, NoEmptyRead, ReadsSeeAcked
<1>1. ASSUME PutStep(w) PROVE (ReaderFresh /\ NoEmptyRead /\ ReadsSeeAcked)'
  <2>1. \A r \in Readers : pc'[r] = pc[r] /\ key'[r] = key[r]
    BY <1>1, ConstantsOK
    DEF PutStep, PutStart, PutCheck, PutInstall, PutLoad, PutStore, ConstantsOK
  <2>2. got' = got /\ floor' = floor
    BY <1>1 DEF PutStep, PutStart, PutCheck, PutInstall, PutLoad, PutStore, history
  <2>3. \A k \in Key : acked[k] \subseteq acked'[k]
    BY <1>1 DEF PutStep, PutStart, PutCheck, PutInstall, PutLoad, PutStore, history
  <2> QED BY <2>1, <2>2, <2>3
<1>2. ASSUME NEW r \in Readers, GetStep(r)
      PROVE  (ReaderFresh /\ NoEmptyRead /\ ReadsSeeAcked)'
  <2>0. /\ key[r] \in Key /\ Current(key[r]) = acked[key[r]] /\ acked' = acked
        /\ data[key[r][1]] = NoMap => acked[key[r]] = {}
    BY <1>2, GetKeepsPuts DEF Exact, Current
  <2>1. CASE GetStart(r)
    BY <2>1 DEF GetStart
  <2>2. CASE GetCheckType(r)
    <3>1. /\ key' = key /\ floor' = floor
          /\ \A q \in Readers : q # r => pc'[q] = pc[q] /\ got'[q] = got[q]
      BY <2>2 DEF GetCheckType, GetReturn, history
    <3>2. \/ pc'[r] = "checkRecord" /\ got'[r] = got[r] /\ pc[r] = "checkType"
          \/ pc'[r] = "idle" /\ floor[r] = {} /\ got'[r].status = "notFound"
      BY <2>0, <2>2 DEF GetCheckType, GetReturn
    <3>3. ReaderFresh'
      BY <2>0, <3>1, <3>2
    <3>4. NoEmptyRead' /\ ReadsSeeAcked'
      BY <3>1, <3>2
    <3> QED BY <3>3, <3>4
  <2>3. CASE GetCheckRecord(r)
    BY <2>0, <2>3 DEF GetCheckRecord, GetReturn, history
  <2>4. CASE GetFetch(r)
    BY <2>0, <2>4 DEF GetFetch, GetReturn, history
  <2> QED BY <1>2, <2>1, <2>2, <2>3, <2>4 DEF GetStep
<1>3. CASE MapFatal
  BY <1>3 DEF MapFatal, history
<1>4. CASE UNCHANGED vars
  BY <1>4 DEF vars
<1> QED BY <1>1, <1>2, <1>3, <1>4 DEF Next

LEMMA SerialInductive ==
  ASSUME NEW w, Writers = {w}
  PROVE  Spec => []SInv
<1>1. SInv /\ [Next]_vars => SInv'
  <2> SUFFICES ASSUME SInv, [Next]_vars PROVE SInv'
    OBVIOUS
  <2>1. IInv'
    BY TypeStep, InFlightStep, OwnershipStep, SettledStep DEF SInv, IInv
  <2>2. WriterFresh' /\ UnallocatedEmpty' /\ Exact'
    BY WriterFreshStep, UnallocatedStep, ExactStep
  <2>3. (ReaderFresh /\ NoEmptyRead /\ ReadsSeeAcked)'
    BY ReadersStep
  <2> QED BY <2>1, <2>2, <2>3 DEF SInv
<1> QED BY SerialInit, <1>1, PTL DEF Spec

\* With one writer at a time the rating of a returned Put stays readable.
THEOREM SerialSafe ==
  ASSUME NEW w, Writers = {w}
  PROVE  Spec => []AckedKept
<1>1. SInv => AckedKept
  BY DEF SInv, Exact, AckedKept
<1> QED BY SerialInductive, <1>1, PTL

\* With one writer at a time a Get, however it interleaves with the Puts, never
\* succeeds with an empty list.
THEOREM SerialNotEmpty ==
  ASSUME NEW w, Writers = {w}
  PROVE  Spec => []NoEmptyRead
<1>1. SInv => NoEmptyRead
  BY DEF SInv
<1> QED BY SerialInductive, <1>1, PTL

\* With one writer at a time a Get returns every rating whose Put had returned
\* before it.
THEOREM SerialReads ==
  ASSUME NEW w, Writers = {w}
  PROVE  Spec => []ReadsSeeAcked
<1>1. SInv => ReadsSeeAcked
  BY DEF SInv
<1> QED BY SerialInductive, <1>1, PTL

\* With one writer at a time the repository implements the abstract store.
THEOREM SerialImplements ==
  ASSUME NEW w, Writers = {w}
  PROVE  Spec => StoreSpec
<1> DEFINE Abs == [k \in Key |-> Current(k)]
<1>1. Init => Store!Init
  BY DEF Init, Store!Init, Current, Key
<1>2. SInv /\ [Next]_vars => [Store!Next]_Abs
  <2> SUFFICES ASSUME SInv, [Next]_vars PROVE Store!Next \/ Abs' = Abs
    OBVIOUS
  <2>1. CASE PutStart(w) \/ PutCheck(w) \/ PutInstall(w) \/ PutLoad(w)
    BY <2>1, OthersKeep
  <2>2. CASE PutStore(w)
    <3>1. key[w] \in Key /\ Mine(w) \in Rating
      BY <2>2, MineIsRating DEF SInv, IInv, TypeOK, PutStore
    <3>2. Mine(w) \notin Current(key[w])
      BY <2>2, <3>1 DEF SInv, Exact, PutStore, Mine
    <3>3. Abs' = [Abs EXCEPT ![key[w]] = @ \cup {Mine(w)}]
      BY <2>2, <3>1, StoreAdds
    <3>4. Store!Put(key[w], Mine(w))
      BY <3>1, <3>2, <3>3 DEF Store!Put
    <3> QED BY <3>1, <3>4 DEF Store!Next
  <2>3. ASSUME NEW r \in Readers, GetStep(r) PROVE Abs' = Abs
    BY <2>3, GetKeepsPuts DEF Current, SInv, IInv
  <2>4. CASE MapFatal
    BY <2>4 DEF MapFatal, Current
  <2>5. CASE UNCHANGED vars
    BY <2>5 DEF vars, Current
  <2> QED BY <2>1, <2>2, <2>3, <2>4, <2>5 DEF Next, PutStep
<1> QED BY SerialInductive, <1>1, <1>2, PTL DEF Spec, StoreSpec, Store!Spec
=============================================================================
