---------------------------- MODULE Fat32_proofs ----------------------------
(***************************************************************************)
(* Proofs about the FAT32 reader, for any card, any names and any number   *)
(* of calls: what is copied past the end of a buffer never reaches the     *)
(* first cluster of a file that was read, and no chain makes it stop.      *)
(***************************************************************************)
EXTENDS Fat32, FiniteSetTheorems, TLAPS

S == sec_per_cluster

Chain(o) == card.chain[o]

CardOK ==
  /\ \A o \in Objects : Chain(o) \in Seq(Clusters) /\ Len(Chain(o)) <= MaxChain
  /\ Len(Chain(Root)) > 0
  /\ \A o, p \in Objects : \A i \in 1 .. Len(Chain(o)), j \in 1 .. Len(Chain(p)) :
       Chain(o)[i] = Chain(p)[j] => o = p /\ i = j
  /\ \A f \in Files : card.slot[f] \in Nat
  /\ \A f, g \in Files : card.slot[f] = card.slot[g] /\ card.slot[f] # 0 => f = g

------------------------------------------------------------------------------
LEMMA Constants ==
  /\ S \in Nat /\ S > 0 /\ S = sec_per_cluster /\ MaxChain \in Nat /\ MaxChain > 0
  /\ lba_start + reserved_area_nsec + 2 * nsec_per_fat \in Nat
  /\ HeapSize \in Nat /\ Room \in Nat /\ Room >= 6 * S + 3 /\ nsec_per_fat \in Nat
  /\ {Root, None} \cap Files = {} /\ Root # None /\ Programs \subseteq Files
<1>0. {MaxChain, sec_per_cluster, nsec_per_fat} \subseteq Nat \ {0}
  BY Fat32Assumption
<1>1. S \in Nat /\ S > 0 /\ S = sec_per_cluster
  BY <1>0 DEF S
<1>2. MaxChain \in Nat /\ MaxChain > 0
  BY <1>0
<1>3. lba_start \in Nat /\ reserved_area_nsec \in Nat /\ nsec_per_fat \in Nat
  BY Fat32Assumption
<1>4. HeapSize \in Nat /\ Room \in Nat
  BY Fat32Assumption
<1>5. Room >= 6 * S + 3
  BY Fat32Assumption DEF S
<1>6. {Root, None} \cap Files = {} /\ Root # None /\ Programs \subseteq Files
  BY Fat32Assumption
<1> QED
  BY <1>1, <1>2, <1>3, <1>4, <1>5, <1>6

LEMMA Unique ==
  ASSUME NEW c \in Nat, NEW d \in Nat, NEW x \in 0 .. S - 1, NEW y \in 0 .. S - 1,
         c * S + x = d * S + y
  PROVE  c = d /\ x = y
<1>1. S \in Nat \ {0}
  BY Constants
<1> QED
  BY <1>1

(* Numbers of clusters are none of the marks of the FAT.                    *)
LEMMA EntryTypes ==
  /\ \A c \in Clusters : c \in Nat /\ c >= 2 /\ fat32_fat_entry_type(c) # "LAST_CLUSTER"
  /\ fat32_fat_entry_type(0) # "LAST_CLUSTER"
  /\ fat32_fat_entry_type(LAST_CLUSTER) = "LAST_CLUSTER"
<1>1. \A c \in Clusters : c \in 2 .. 2^28 - 17
  BY Fat32Assumption
<1>2. \A c \in 2 .. 2^28 - 17 : c % 2^28 = c
  OBVIOUS
<1>3. \A c \in 2 .. 2^28 - 17 : c # 0 /\ c # 1 /\ c \in Nat /\ c >= 2
  OBVIOUS
<1>4. 0 % 2^28 = 0 /\ (2^28 - 8) % 2^28 = 2^28 - 8
  OBVIOUS
<1>5. 2^28 - 8 \in 2^28 - 8 .. 2^28 - 1 /\ 2^28 - 8 \notin 2 .. 2^28 - 17
  <2> DEFINE b == 2^28
  <2>1. b \in Nat /\ b > 17
    OBVIOUS
  <2> HIDE DEF b
  <2>2. b - 8 \in b - 8 .. b - 1 /\ b - 8 \notin 2 .. b - 17
    BY <2>1
  <2> QED
    BY <2>2 DEF b
<1>6. 2^28 - 8 # 0 /\ 2^28 - 8 # 1 /\ 2^28 - 8 # 2^28 - 9
  OBVIOUS
<1>7. \A c \in Clusters : fat32_fat_entry_type(c) = "USED_CLUSTER"
  <2> SUFFICES ASSUME NEW c \in Clusters PROVE fat32_fat_entry_type(c) = "USED_CLUSTER"
    OBVIOUS
  <2>1. c \in 2 .. 2^28 - 17 /\ c % 2^28 = c /\ c # 0 /\ c # 1
    BY <1>1, <1>2, <1>3
  <2>2. c # 2^28 - 9 /\ c \notin 2^28 - 8 .. 2^28 - 1
    <3> DEFINE b == 2^28
    <3>1. b \in Nat /\ b > 17 /\ c \in 2 .. b - 17
      BY <2>1
    <3> HIDE DEF b
    <3>2. c # b - 9 /\ c \notin b - 8 .. b - 1
      BY <3>1
    <3> QED
      BY <3>2 DEF b
  <2> QED
    BY <2>1, <2>2, Zenon DEF fat32_fat_entry_type
<1>8. fat32_fat_entry_type(0) = "FREE_CLUSTER"
  BY <1>4 DEF fat32_fat_entry_type
<1>9. fat32_fat_entry_type(LAST_CLUSTER) = "LAST_CLUSTER"
  BY <1>4, <1>5, <1>6 DEF fat32_fat_entry_type, LAST_CLUSTER
<1> QED
  BY <1>1, <1>3, <1>7, <1>8, <1>9

LEMMA InitCard ==
  ASSUME Init
  PROVE  CardOK
<1>1. PICK ch \in Chains : \E s \in Slots(ch) : card = [chain |-> ch, slot |-> s]
  BY DEF Init
<1>2. PICK s \in Slots(ch) : card = [chain |-> ch, slot |-> s]
  BY <1>1
<1>3. ch \in [Objects -> UNION {[1 .. n -> Clusters] : n \in 0 .. MaxChain}] /\ MaxChain \in Nat
  BY Constants DEF Chains
<1>4. \A o \in Objects : ch[o] \in Seq(Clusters) /\ Len(ch[o]) <= MaxChain
  <2> SUFFICES ASSUME NEW o \in Objects
               PROVE  ch[o] \in Seq(Clusters) /\ Len(ch[o]) <= MaxChain
    OBVIOUS
  <2>1. PICK n \in 0 .. MaxChain : ch[o] \in [1 .. n -> Clusters]
    BY <1>3
  <2> QED
    BY <1>3, <2>1
<1>5. Root \in Objects /\ Files \subseteq Objects
  BY DEF Objects
<1>6. Len(ch[Root]) > 0
  <2>1. ch[Root] # <<>> /\ ch[Root] \in Seq(Clusters)
    BY <1>4, <1>5 DEF Chains
  <2> QED
    BY <2>1
<1>7. \A o, p \in Objects : \A i \in 1 .. Len(ch[o]), j \in 1 .. Len(ch[p]) :
        ch[o][i] = ch[p][j] => o = p /\ i = j
  <2>1. \A o \in Objects : DOMAIN ch[o] = 1 .. Len(ch[o])
    BY <1>4
  <2> QED
    BY <2>1 DEF Chains
<1>8. s \in [Files -> 0 .. Len(ch[Root]) * sec_per_cluster]
  BY DEF Slots
<1>9. \A f \in Files : s[f] \in Nat
  BY <1>8
<1>10. \A f, g \in Files : s[f] = s[g] /\ s[f] # 0 => f = g
  BY DEF Slots
<1> QED
  BY <1>2, <1>4, <1>6, <1>7, <1>9, <1>10 DEF CardOK, Chain

(* The entry of the FAT for a cluster of a chain is the next cluster.       *)
LEMMA FatEntry ==
  ASSUME CardOK, NEW o \in Objects, NEW j \in 1 .. Len(Chain(o))
  PROVE  fat(Chain(o)[j]) = IF j = Len(Chain(o)) THEN LAST_CLUSTER ELSE Chain(o)[j + 1]
<1> DEFINE c == Chain(o)[j]
           at == {a \in Objects \X (1 .. MaxChain) :
                    a[2] \in DOMAIN card.chain[a[1]] /\ card.chain[a[1]][a[2]] = c}
<1>1. /\ \A p \in Objects : DOMAIN card.chain[p] = 1 .. Len(Chain(p)) /\ Len(Chain(p)) \in Nat
      /\ Len(Chain(o)) <= MaxChain /\ MaxChain \in Nat
  BY Constants DEF CardOK, Chain
<1>2. j \in 1 .. MaxChain /\ <<o, j>> \in Objects \X (1 .. MaxChain)
  BY <1>1
<1>3. <<o, j>> \in at
  BY <1>1, <1>2 DEF Chain
<1>4. ASSUME NEW a \in at PROVE a = <<o, j>>
  <2>1. a = <<a[1], a[2]>> /\ a[1] \in Objects
    OBVIOUS
  <2>2. a[2] \in 1 .. Len(Chain(a[1])) /\ Chain(a[1])[a[2]] = Chain(o)[j]
    BY <1>1, <2>1 DEF Chain
  <2>3. a[1] = o /\ a[2] = j
    BY <2>1, <2>2 DEF CardOK
  <2> QED
    BY <2>1, <2>3
<1>5. fat(c) = IF at = {} THEN FREE_CLUSTER
               ELSE LET a == CHOOSE a \in at : TRUE
                    IN  IF a[2] = Len(card.chain[a[1]]) THEN LAST_CLUSTER
                        ELSE card.chain[a[1]][a[2] + 1]
  BY DEF fat
<1> HIDE DEF at, c
<1>6. (CHOOSE a \in at : TRUE) = <<o, j>> /\ at # {}
  BY <1>3, <1>4
<1>7. fat(c) = LET a == <<o, j>>
                IN  IF a[2] = Len(card.chain[a[1]]) THEN LAST_CLUSTER
                    ELSE card.chain[a[1]][a[2] + 1]
  BY <1>5, <1>6, Zenon
<1> QED
  BY <1>7 DEF c, Chain

(* The sectors of the first cluster of a chain.                             *)
LEMMA SectorOf ==
  ASSUME CardOK, NEW o \in Objects, Len(Chain(o)) > 0, NEW k \in 1 .. S
  PROVE  Sector(cluster_to_lba(Chain(o)[1]) + (k - 1)) = Cell(o, k)
<1> DEFINE lba == cluster_to_lba(Chain(o)[1]) + (k - 1)
           base == lba_start + reserved_area_nsec + 2 * nsec_per_fat
           T == Objects \X (1 .. MaxChain) \X (1 .. sec_per_cluster)
           at == {a \in T :
                    /\ a[2] \in DOMAIN card.chain[a[1]]
                    /\ lba = lba_start + reserved_area_nsec + 2 * nsec_per_fat
                             + (card.chain[a[1]][a[2]] - 2) * sec_per_cluster + (a[3] - 1)}
           c == Chain(o)[1] - 2
<1>1. /\ \A p \in Objects : /\ DOMAIN card.chain[p] = 1 .. Len(Chain(p)) /\ Len(Chain(p)) \in Nat
                            /\ \A i \in 1 .. Len(Chain(p)) : Chain(p)[i] \in Clusters
      /\ MaxChain \in Nat /\ MaxChain > 0
  BY Constants DEF CardOK, Chain
<1>2. base \in Nat /\ S \in Nat /\ S > 0 /\ S = sec_per_cluster
  BY Constants
<1>3. \A d \in Clusters : d - 2 \in Nat
  BY EntryTypes
<1>4. 1 \in 1 .. Len(Chain(o)) /\ c \in Nat /\ 1 \in 1 .. MaxChain /\ k - 1 \in 0 .. S - 1
  BY <1>1, <1>2, <1>3
<1>5. lba = base + c * S + (k - 1)
  BY DEF cluster_to_lba, S
<1>6. <<o, 1, k>> \in at
  <2>1. <<o, 1, k>> \in T
    BY <1>2, <1>4
  <2>2. card.chain[o][1] - 2 = c
    BY DEF Chain
  <2> HIDE DEF T
  <2> QED
    BY <1>1, <1>2, <1>4, <1>5, <2>1, <2>2
<1>7. ASSUME NEW a \in at PROVE a = <<o, 1, k>>
  <2>1. a = <<a[1], a[2], a[3]>> /\ a[1] \in Objects /\ a[3] \in 1 .. S
    BY <1>2
  <2>2. a[2] \in 1 .. Len(Chain(a[1]))
    BY <1>1, <2>1
  <2> DEFINE d == Chain(a[1])[a[2]] - 2
  <2>3. d \in Nat /\ a[3] - 1 \in 0 .. S - 1
    BY <1>1, <1>2, <1>3, <2>1, <2>2
  <2>4. lba = base + d * S + (a[3] - 1)
    BY <1>2 DEF Chain
  <2> HIDE DEF c, d, lba, base, at
  <2>5. d * S \in Nat /\ c * S \in Nat
    BY <1>2, <1>4, <2>3
  <2>6. c * S + (k - 1) = d * S + (a[3] - 1)
    BY <1>2, <1>4, <1>5, <2>3, <2>4, <2>5
  <2>7. c = d /\ k - 1 = a[3] - 1
    BY <1>4, <2>3, <2>6, Unique
  <2>8. Chain(o)[1] = Chain(a[1])[a[2]]
    <3>1. \A x, y \in Clusters : x - 2 = y - 2 => x = y
      BY EntryTypes
    <3> QED
      BY <1>1, <1>4, <2>1, <2>2, <2>7, <3>1 DEF c, d
  <2>9. a[1] = o /\ a[2] = 1
    BY <1>4, <2>1, <2>2, <2>8 DEF CardOK
  <2>10. a[3] = k
    BY <1>2, <2>1, <2>7
  <2> QED
    BY <2>1, <2>9, <2>10
<1>8. Sector(lba) = IF at = {} THEN Zero
                    ELSE LET a == CHOOSE a \in at : TRUE IN Cell(a[1], (a[2] - 1) * sec_per_cluster + a[3])
  BY DEF Sector
<1> HIDE DEF at
<1>9. (CHOOSE a \in at : TRUE) = <<o, 1, k>> /\ at # {}
  BY <1>6, <1>7
<1>10. Sector(lba) = LET a == <<o, 1, k>> IN Cell(a[1], (a[2] - 1) * sec_per_cluster + a[3])
  BY <1>8, <1>9, Zenon
<1>11. (1 - 1) * sec_per_cluster + k = k
  BY <1>2
<1> QED
  BY <1>10, <1>11

LEMMA Chained ==
  ASSUME CardOK, NEW o \in Objects
  PROVE  /\ Len(Chain(o)) \in Nat /\ \A j \in 1 .. Len(Chain(o)) : Chain(o)[j] \in Clusters
         /\ FirstCluster(o) = IF Len(Chain(o)) = 0 THEN 0 ELSE Chain(o)[1]
         /\ get_cluster_chain_length(FirstCluster(o)) = 1
         /\ Len(Chain(o)) = 0 <=> card.chain[o] = <<>>
<1>1. Chain(o) \in Seq(Clusters)
  BY DEF CardOK
<1>2. /\ Len(Chain(o)) \in Nat /\ \A j \in 1 .. Len(Chain(o)) : Chain(o)[j] \in Clusters
      /\ Len(Chain(o)) = 0 <=> Chain(o) = <<>>
  BY <1>1
<1>3. FirstCluster(o) = IF Len(Chain(o)) = 0 THEN 0 ELSE Chain(o)[1]
  BY <1>2 DEF FirstCluster, Chain
<1>4. FirstCluster(o) = 0 \/ FirstCluster(o) \in Clusters
  <2>1. Len(Chain(o)) # 0 => 1 \in 1 .. Len(Chain(o))
    BY <1>2
  <2> QED
    BY <1>2, <1>3, <2>1
<1>5. fat32_fat_entry_type(FirstCluster(o)) # "LAST_CLUSTER"
  BY <1>4, EntryTypes
<1>6. get_cluster_chain_length(FirstCluster(o)) = 1
  BY <1>5 DEF get_cluster_chain_length
<1> QED
  BY <1>2, <1>3, <1>6 DEF Chain

(* The entry of f in the directory.                                         *)
Of(f) == [name |-> f, attr |-> "file", cluster_id |-> FirstCluster(f), nbytes |-> Size(f)]

LEMMA DirentOf ==
  ASSUME CardOK, NEW f \in Files, card.slot[f] # 0
  PROVE  Dirent(card.slot[f]) = Of(f)
<1> DEFINE g == CHOOSE g \in Files : card.slot[g] = card.slot[f]
<1>1. g \in Files /\ card.slot[g] = card.slot[f]
  OBVIOUS
<1>2. g = f
  BY <1>1 DEF CardOK
<1> QED
  BY <1>2 DEF Dirent, Of

LEMMA DirentOther ==
  ASSUME NEW s, \A f \in Files : card.slot[f] # s
  PROVE  Dirent(s).name = None
BY DEF Dirent, Unused

(* An entry is that of the file it names.                                   *)
LEMMA Names ==
  ASSUME CardOK, NEW s \in Nat, s # 0, Dirent(s).name \in Files
  PROVE  card.slot[Dirent(s).name] = s
<1>1. PICK f \in Files : card.slot[f] = s
  BY DirentOther, Constants
<1>2. Dirent(s) = Of(f)
  BY <1>1, DirentOf
<1> QED
  BY <1>1, <1>2 DEF Of

------------------------------------------------------------------------------
(* The first cluster of o is at b in the memory h.                          *)
Holds(h, b, o) == \A i \in 1 .. S : h[b + i - 1] = Cell(o, i)

(* The files fs lie below b.                                                *)
FilesBelow(fs, h, b) ==
  \A f \in fs :
    /\ f.name \in Files /\ f.n_data \in Nat /\ f.data \in Nat /\ f.data > 0
    /\ f.data + S <= b /\ f.data + S <= HeapSize + 1
    /\ Holds(h, f.data, f.name)

(* What the call c reads: the directory, and at last the file.              *)
Obj(c) == IF c.fn = "read_function" /\ c.pc >= 10 THEN c.name ELSE Root

(* The chain of o is being read: nothing yet, or at least its first cluster.*)
Following(c, h, o) ==
  \/ Len(Chain(o)) = 0 /\ c.num = 0
  \/ \E j \in 1 .. Len(Chain(o)) :
       /\ c.num = Chain(o)[j]
       /\ IF j = 1 THEN c.data = c.buf ELSE c.data >= c.buf + S /\ Holds(h, c.buf, o)
  \/ Len(Chain(o)) > 0 /\ c.num = LAST_CLUSTER /\ Holds(h, c.buf, o)

(* The cells that a call has still to allocate.                             *)
Left ==
  [readdir |-> <<2 * S, S, S>>,
   read_function |->
     <<6 * S + 3, 5 * S + 3, 5 * S + 3, 4 * S + 2, 4 * S + 2, 3 * S + 2, 3 * S + 2,
       2 * S + 2, 2 * S + 2, S + 1, 1, 1>>]

Working(c, h, b, fs) ==
  /\ c.pc \in 1 .. Len(Steps[c.fn])
  /\ c.fn = "read_function" => c.name \in Files
  /\ b + Left[c.fn][c.pc] <= HeapSize + 1
  /\ c.pc > 1 => FilesBelow(fs, h, c.buf) /\ c.buf + S <= b
  /\ Steps[c.fn][c.pc] = "read_cluster_chain" => Following(c, h, Obj(c))
  /\ Steps[c.fn][c.pc] \in {"list", "stat", "file"} => Holds(h, c.buf, Obj(c))
  /\ c.fn = "read_function" /\ c.pc >= 4 =>
       c.found = IF InFirst(c.name) THEN <<Of(c.name)>> ELSE <<>>
  /\ c.fn = "read_function" /\ c.pc >= 5 => InFirst(c.name)

Found == {<<>>} \cup {<<Of(f)>> : f \in Files}

Calls ==
  [fn : {"readdir", "read_function"}, name : Files \cup {None}, pc : Nat, buf : Nat \ {0},
   num : Nat, data : Nat \ {0}, found : Found]

(* What may have made the server stop.                                      *)
Excused(c, ini) ==
  \/ ~ ini
  \/ /\ c.fn = "read_function"
     /\ ~ InFirst(c.name) \/ card.chain[c.name] = <<>> \/ c.name \notin Programs

Good(c, h, b, fs, ini, d) ==
  /\ DOMAIN h = 1 .. HeapSize /\ b \in Nat /\ b > 0 /\ ini \in BOOLEAN
  /\ c \in Calls
  /\ FilesBelow(fs, h, b)
  /\ c.pc # 0 => ini /\ Working(c, h, b, fs)
  /\ d => Excused(c, ini)

(* It stopped for another reason than a read that failed.                   *)
Stopped == died /\ ~ read_failed

FatInv == CardOK /\ Good(call, heap, brk, files, init_p, Stopped)

(* Nothing writes to the card.                                              *)
LEMMA Carry ==
  ASSUME CardOK, card' = card, Good(call', heap', brk', files', init_p', Stopped')
  PROVE  FatInv'
<1>1. CardOK'
  BY DEF CardOK, Chain
<1>2. \A o : Chain(o)' = Chain(o) /\ FirstCluster(o)' = FirstCluster(o) /\ Of(o)' = Of(o)
             /\ InFirst(o)' = InFirst(o)
  BY DEF Chain, FirstCluster, Of, Size, InFirst
<1>3. Calls' = Calls
  BY <1>2 DEF Calls, Found
<1>4. \A c, h, o : Following(c, h, o)' = Following(c, h, o)
  BY <1>2 DEF Following, Holds
<1>5. \A c, h, b, fs : Working(c, h, b, fs)' = Working(c, h, b, fs)
  BY <1>2, <1>4 DEF Working, FilesBelow, Holds, Obj, Left, Steps
<1> QED
  BY <1>1, <1>3, <1>5 DEF FatInv, Good, FilesBelow, Holds, Excused, InFirst

------------------------------------------------------------------------------
(* Where a step of a call leads to.                                         *)
LEMMA Table ==
  ASSUME NEW c, c.fn \in {"readdir", "read_function"}, c.pc \in 1 .. Len(Steps[c.fn])
  PROVE  LET step == Steps[c.fn][c.pc]
             next == Steps[c.fn][c.pc + 1]
             left == Left[c.fn][c.pc]
             later == Left[c.fn][c.pc + 1]
             last == c.pc = Len(Steps[c.fn])
         IN  /\ c.pc \in Nat /\ left \in Nat
             /\ ~ last => later \in Nat /\ c.pc + 1 \in 1 .. Len(Steps[c.fn])
             /\ step \in {"get_dirents", "length"} =>
                  /\ ~ last /\ next = "read_cluster_chain" /\ left = later + S
                  /\ step = "length" <=> (c.fn = "read_function" /\ c.pc >= 10)
                  /\ c.pc >= 10 <=> c.pc + 1 >= 10
                  /\ c.pc # 3 /\ c.pc # 4
             /\ step = "read_cluster_chain" =>
                  /\ ~ last /\ next \in {"list", "stat", "get_dirents", "file"} /\ left = later
                  /\ c.pc >= 10 <=> c.pc + 1 >= 10
                  /\ c.pc > 1 /\ c.pc # 3 /\ c.pc # 4
             /\ step = "stat" =>
                  /\ ~ last /\ next \in {"demand", "length"} /\ left = later + S + 1
                  /\ c.fn = "read_function" /\ 1 < c.pc /\ c.pc < 10 /\ (c.pc >= 4 => c.pc >= 5)
             /\ step = "demand" =>
                  ~ last /\ next = "get_dirents" /\ left = later /\ c.fn = "read_function" /\ c.pc = 4
             /\ step = "list" => last /\ c.fn = "readdir" /\ c.pc > 1
             /\ step = "file" => last /\ left = 1 /\ c.fn = "read_function" /\ c.pc = 12
<1>1. S \in Nat
  BY Constants
<1>2. CASE c.fn = "readdir"
  <2>1. Len(Steps[c.fn]) = 3
    BY <1>2 DEF Steps
  <2>2. c.pc \in {1, 2, 3}
    BY <2>1
  <2> QED
    BY <1>1, <1>2, <2>1, <2>2 DEF Steps, Left
<1>3. CASE c.fn = "read_function"
  <2>1. Len(Steps[c.fn]) = 12
    BY <1>3 DEF Steps
  <2>2. c.pc \in {1, 2, 3, 4, 5, 6} \/ c.pc \in {7, 8, 9, 10, 11, 12}
    BY <2>1
  <2>3. CASE c.pc \in {1, 2, 3, 4, 5, 6}
    BY <1>1, <1>3, <2>1, <2>3 DEF Steps, Left
  <2>4. CASE c.pc \in {7, 8, 9, 10, 11, 12}
    BY <1>1, <1>3, <2>1, <2>4 DEF Steps, Left
  <2> QED
    BY <2>2, <2>3, <2>4
<1> QED
  BY <1>2, <1>3

LEMMA TableOn ==
  ASSUME NEW c, c.fn \in {"readdir", "read_function"}, c.pc \in 1 .. Len(Steps[c.fn]),
         NEW step \in {"read_cluster_chain", "stat", "demand"}, Steps[c.fn][c.pc] = step
  PROVE  /\ c.pc + 1 \in 1 .. Len(Steps[c.fn]) /\ c.pc > 1
         /\ Left[c.fn][c.pc + 1] \in Nat /\ Left[c.fn][c.pc] \in Nat
         /\ Left[c.fn][c.pc] = Left[c.fn][c.pc + 1] + (IF step = "stat" THEN S + 1 ELSE 0)
         /\ Steps[c.fn][c.pc + 1] # "read_cluster_chain"
         /\ Steps[c.fn][c.pc + 1] \in {"list", "stat", "file"} => step = "read_cluster_chain"
         /\ step = "read_cluster_chain" => (c.pc >= 10 <=> c.pc + 1 >= 10)
<1>1. S \in Nat
  BY Constants
<1>2. CASE c.fn = "readdir"
  <2>1. c.pc \in {1, 2, 3} /\ Len(Steps[c.fn]) = 3
    BY <1>2 DEF Steps
  <2>2. c.pc = 2
    BY <1>2, <2>1 DEF Steps
  <2> QED
    BY <1>1, <1>2, <2>1, <2>2 DEF Steps, Left
<1>3. CASE c.fn = "read_function"
  <2>1. Len(Steps[c.fn]) = 12
    BY <1>3 DEF Steps
  <2>2. c.pc \in 1 .. 12
    BY <2>1
  <2>3. c.pc \in {2, 3, 4} \/ c.pc \in {6, 8} \/ c.pc \in {9, 11}
    BY <1>3, <2>2 DEF Steps
  <2>4. CASE c.pc \in {2, 3, 4}
    BY <1>1, <1>3, <2>1, <2>4 DEF Steps, Left
  <2>5. CASE c.pc \in {6, 8}
    BY <1>1, <1>3, <2>1, <2>5 DEF Steps, Left
  <2>6. CASE c.pc \in {9, 11}
    BY <1>1, <1>3, <2>1, <2>6 DEF Steps, Left
  <2> QED
    BY <2>3, <2>4, <2>5, <2>6
<1> QED
  BY <1>2, <1>3

(* Memory that is written from b on keeps what is below.                    *)
LEMMA BelowKept ==
  ASSUME NEW fs, NEW h, NEW g, NEW b \in Nat, NEW d \in Nat, b <= d, FilesBelow(fs, h, b),
         \A a \in 1 .. HeapSize : a < b => g[a] = h[a]
  PROVE  FilesBelow(fs, g, d)
<1> SUFFICES ASSUME NEW f \in fs
             PROVE  f.data + S <= d /\ Holds(g, f.data, f.name)
  BY DEF FilesBelow
<1>1. f.data \in Nat /\ f.data > 0 /\ f.data + S <= b /\ f.data + S <= HeapSize + 1
      /\ Holds(h, f.data, f.name)
  BY DEF FilesBelow
<1>2. S \in Nat /\ HeapSize \in Nat
  BY Constants
<1>3. \A i \in 1 .. S : f.data + i - 1 \in 1 .. HeapSize /\ f.data + i - 1 < b
  BY <1>1, <1>2
<1>4. Holds(g, f.data, f.name)
  BY <1>1, <1>3 DEF Holds
<1> QED
  BY <1>1, <1>2, <1>4

LEMMA HoldsKept ==
  ASSUME NEW h, NEW g, NEW b \in Nat, b > 0, NEW d \in Nat, b + S <= d, d <= HeapSize + 1,
         NEW o, Holds(h, b, o), \A a \in 1 .. HeapSize : a < d => g[a] = h[a]
  PROVE  Holds(g, b, o)
<1>1. S \in Nat /\ HeapSize \in Nat
  BY Constants
<1>2. \A i \in 1 .. S : b + i - 1 \in 1 .. HeapSize /\ b + i - 1 < d
  BY <1>1
<1> QED
  BY <1>2 DEF Holds

LEMMA Allocated ==
  ASSUME NEW n \in Nat, DOMAIN heap = 1 .. HeapSize, brk \in Nat, kmalloc(n)
  PROVE  /\ DOMAIN heap' = 1 .. HeapSize /\ brk' = brk + n /\ brk' \in Nat /\ brk <= brk'
         /\ \A a \in 1 .. HeapSize : a < brk => heap'[a] = heap[a]
<1>1. \A a \in 1 .. HeapSize : a < brk => a \notin brk .. brk + n - 1
  BY Constants
<1> QED
  BY <1>1 DEF kmalloc

(* The next step of a call.                                                 *)
LEMMA Stepped ==
  ASSUME call \in Calls, call.pc # 0, call.pc \in 1 .. Len(Steps[call.fn])
  PROVE  /\ Done \in Calls /\ Done = [call EXCEPT !.pc = Done.pc]
         /\ Done.pc = IF call.pc = Len(Steps[call.fn]) THEN 0 ELSE call.pc + 1
<1>1. call.pc \in Nat /\ call.fn \in {"readdir", "read_function"}
  BY DEF Calls
<1>2. Len(Steps[call.fn]) \in Nat
  BY <1>1 DEF Steps
<1> QED
  BY <1>1, <1>2 DEF Done, Calls

Move(c, b, n) == [c EXCEPT !.buf = b, !.num = n, !.data = b]

LEMMA Moved ==
  ASSUME NEW c \in Calls, NEW b \in Nat, b > 0, NEW n \in Nat
  PROVE  LET d == Move(c, b, n)
         IN  /\ d \in Calls /\ d.fn = c.fn /\ d.name = c.name /\ d.pc = c.pc
             /\ d.buf = b /\ d.num = n /\ d.data = b /\ d.found = c.found
<1>1. b \in Nat \ {0}
  OBVIOUS
<1> QED
  BY <1>1 DEF Calls, Move

LEMMA InitFat ==
  ASSUME Init
  PROVE  FatInv
<1>1. CardOK
  BY InitCard
<1>2. DOMAIN heap = 1 .. HeapSize /\ brk = 1 /\ init_p \in BOOLEAN /\ files = {} /\ ~ died
  BY DEF Init
<1>3. call \in Calls /\ call.pc = 0
  BY DEF Init, Calls, Found
<1> QED
  BY <1>1, <1>2, <1>3 DEF FatInv, Good, FilesBelow, Stopped

(* The server stops.                                                        *)
LEMMA Panics ==
  ASSUME FatInv, panic, Excused(call, init_p)
  PROVE  FatInv'
<1>1. card' = card /\ UNCHANGED <<heap, brk, init_p, call, files>>
  BY DEF panic
<1>2. Good(call', heap', brk', files', init_p', Stopped')
  BY <1>1 DEF FatInv, Good
<1> QED
  BY <1>1, <1>2, Carry DEF FatInv

(* A read fails: nothing else changes.                                      *)
LEMMA ReadFailsFat ==
  ASSUME FatInv, pi_sd_read_fails
  PROVE  FatInv'
<1>1. card' = card /\ UNCHANGED <<heap, brk, init_p, call, files>> /\ Stopped' = FALSE
  BY DEF pi_sd_read_fails, Stopped
<1>2. Good(call', heap', brk', files', init_p', Stopped')
  BY <1>1 DEF FatInv, Good
<1> QED
  BY <1>1, <1>2, Carry DEF FatInv

LEMMA MkFat ==
  ASSUME FatInv, fat32_mk
  PROVE  FatInv'
<1>1. CASE panic
  BY <1>1, Panics DEF fat32_mk, Excused
<1>2. CASE /\ kmalloc(3 + nsec_per_fat) /\ init_p' = TRUE
           /\ UNCHANGED <<card, call, files, listing, died, read_failed>>
  <2>1. /\ CardOK /\ DOMAIN heap = 1 .. HeapSize /\ brk \in Nat /\ brk > 0 /\ call \in Calls
        /\ FilesBelow(files, heap, brk) /\ call.pc = 0 /\ ~ died
    BY DEF FatInv, Good, fat32_mk
  <2>2. 3 + nsec_per_fat \in Nat
    BY Constants
  <2>3. /\ DOMAIN heap' = 1 .. HeapSize /\ brk' \in Nat /\ brk <= brk'
        /\ \A a \in 1 .. HeapSize : a < brk => heap'[a] = heap[a]
    BY <1>2, <2>1, <2>2, Allocated
  <2>4. FilesBelow(files, heap', brk')
    BY <2>1, <2>3, BelowKept
  <2>5. init_p' \in BOOLEAN /\ ~ died' /\ brk' > 0 /\ call' = call /\ files' = files
    BY <1>2, <2>1, <2>3
  <2>6. Good(call', heap', brk', files', init_p', Stopped')
    BY <2>1, <2>3, <2>4, <2>5 DEF Good, Stopped
  <2> QED
    BY <1>2, <2>1, <2>6, Carry
<1> QED
  BY <1>1, <1>2 DEF fat32_mk

Begin(c, fn, name) == [c EXCEPT !.fn = fn, !.name = name, !.pc = 1]

LEMMA Begun ==
  ASSUME NEW c \in Calls, NEW fn \in {"readdir", "read_function"}, NEW name \in Files \cup {None}
  PROVE  LET d == Begin(c, fn, name)
         IN  d \in Calls /\ d.fn = fn /\ d.name = name /\ d.pc = 1
BY DEF Calls, Begin

LEMMA CallFat ==
  ASSUME FatInv, NEW fn \in {"readdir", "read_function"}, NEW name \in Files \cup {None},
         fn = "read_function" => name \in Files, Call(fn, name)
  PROVE  FatInv'
<1>1. /\ CardOK /\ DOMAIN heap = 1 .. HeapSize /\ brk \in Nat /\ brk > 0 /\ call \in Calls
      /\ FilesBelow(files, heap, brk) /\ call.pc = 0 /\ init_p /\ ~ died
      /\ brk + Room <= HeapSize + 1 /\ init_p \in BOOLEAN
  BY DEF FatInv, Good, Call
<1>2. /\ call' = [call EXCEPT !.fn = fn, !.name = name, !.pc = 1]
      /\ UNCHANGED <<card, heap, brk, init_p, files, listing, died, read_failed>>
  BY DEF Call
<1>3. call' \in Calls /\ call'.fn = fn /\ call'.name = name /\ call'.pc = 1
  <2>1. call' = Begin(call, fn, name)
    BY <1>2 DEF Begin
  <2> QED
    BY <1>1, <2>1, Begun
<1>4. Steps[fn][1] = "get_dirents" /\ 1 \in 1 .. Len(Steps[fn])
  BY DEF Steps
<1>5. Left[fn][1] \in Nat /\ Left[fn][1] <= Room
  BY Constants DEF Left
<1>6. brk + Left[fn][1] <= HeapSize + 1
  BY <1>1, <1>5, Constants
<1>7. Working(call', heap, brk, files)
  BY <1>3, <1>4, <1>6 DEF Working
<1>8. Good(call', heap', brk', files', init_p', Stopped')
  BY <1>1, <1>2, <1>3, <1>7 DEF Good, Stopped
<1> QED
  BY <1>1, <1>2, <1>8, Carry

(* What is known of a call that is at a step.                               *)
LEMMA Busy ==
  ASSUME FatInv, NEW step, At(step)
  PROVE  /\ CardOK /\ DOMAIN heap = 1 .. HeapSize /\ brk \in Nat /\ brk > 0
         /\ init_p \in BOOLEAN /\ init_p /\ ~ died
         /\ call \in Calls /\ call.fn \in {"readdir", "read_function"}
         /\ call.pc \in Nat /\ call.buf \in Nat /\ call.buf > 0 /\ call.num \in Nat
         /\ call.data \in Nat /\ call.data > 0
         /\ call.pc # 0 /\ call.pc \in 1 .. Len(Steps[call.fn]) /\ Steps[call.fn][call.pc] = step
         /\ FilesBelow(files, heap, brk) /\ Working(call, heap, brk, files)
         /\ Obj(call) \in Objects
<1>1. /\ CardOK /\ DOMAIN heap = 1 .. HeapSize /\ brk \in Nat /\ brk > 0
      /\ init_p \in BOOLEAN /\ call \in Calls /\ FilesBelow(files, heap, brk)
      /\ call.pc # 0 => init_p /\ Working(call, heap, brk, files)
  BY DEF FatInv, Good
<1>2. ~ died /\ call.pc # 0 /\ Steps[call.fn][call.pc] = step
  BY DEF At
<1>3. /\ call.fn \in {"readdir", "read_function"} /\ call.pc \in Nat
      /\ call.buf \in Nat /\ call.buf > 0 /\ call.num \in Nat /\ call.data \in Nat /\ call.data > 0
  BY <1>1 DEF Calls
<1>4. call.pc \in 1 .. Len(Steps[call.fn]) /\ (call.fn = "read_function" => call.name \in Files)
  BY <1>1, <1>2 DEF Working
<1>5. Obj(call) \in Objects
  BY <1>4 DEF Obj, Objects
<1> QED
  BY <1>1, <1>2, <1>3, <1>4, <1>5

(* A buffer is allocated above all that was read, and the chain is to be    *)
(* read into it.                                                            *)
LEMMA BufferFat ==
  ASSUME FatInv, NEW step \in {"get_dirents", "length"}, At(step),
         Buffer(FirstCluster(Obj(call)))
  PROVE  FatInv'
<1> DEFINE o == Obj(call)
<1>1. /\ CardOK /\ DOMAIN heap = 1 .. HeapSize /\ brk \in Nat /\ brk > 0
      /\ init_p \in BOOLEAN /\ init_p /\ ~ died
      /\ call \in Calls /\ call.fn \in {"readdir", "read_function"} /\ call.pc \in Nat
      /\ call.pc # 0 /\ call.pc \in 1 .. Len(Steps[call.fn]) /\ Steps[call.fn][call.pc] = step
      /\ FilesBelow(files, heap, brk) /\ Working(call, heap, brk, files) /\ o \in Objects
  BY Busy
<1>2. /\ Len(Chain(o)) \in Nat /\ \A j \in 1 .. Len(Chain(o)) : Chain(o)[j] \in Clusters
      /\ FirstCluster(o) = IF Len(Chain(o)) = 0 THEN 0 ELSE Chain(o)[1]
      /\ get_cluster_chain_length(FirstCluster(o)) = 1
  BY <1>1, Chained
<1>3. S \in Nat /\ S > 0 /\ HeapSize \in Nat
  BY Constants
<1>4. kmalloc(S)
  <2>1. 1 * sec_per_cluster = S
    BY <1>3 DEF S
  <2> QED
    BY <1>2, <2>1 DEF Buffer
<1>5. /\ DOMAIN heap' = 1 .. HeapSize /\ brk' = brk + S /\ brk' \in Nat /\ brk <= brk'
      /\ \A a \in 1 .. HeapSize : a < brk => heap'[a] = heap[a]
  BY <1>1, <1>3, <1>4, Allocated
<1>6. /\ call.pc # Len(Steps[call.fn]) /\ call.pc + 1 \in 1 .. Len(Steps[call.fn])
      /\ Steps[call.fn][call.pc + 1] = "read_cluster_chain"
      /\ Left[call.fn][call.pc + 1] \in Nat
      /\ Left[call.fn][call.pc] = Left[call.fn][call.pc + 1] + S
      /\ call.pc >= 10 <=> call.pc + 1 >= 10
      /\ call.pc # 3 /\ call.pc # 4
  BY <1>1, Table
<1>7. /\ Done \in Calls /\ Done = [call EXCEPT !.pc = Done.pc] /\ Done.pc = call.pc + 1
  BY <1>1, <1>6, Stepped
<1>8. FirstCluster(o) \in Nat
  <2>1. Len(Chain(o)) # 0 => 1 \in 1 .. Len(Chain(o))
    BY <1>2
  <2> QED
    BY <1>2, <2>1, EntryTypes
<1>9. /\ call' = [Done EXCEPT !.buf = brk, !.num = FirstCluster(o), !.data = brk]
      /\ UNCHANGED <<card, init_p, files, listing, died, read_failed>>
  BY DEF Buffer
<1>10. /\ call' \in Calls /\ call'.fn = call.fn /\ call'.name = call.name
       /\ call'.pc = call.pc + 1 /\ call'.buf = brk /\ call'.num = FirstCluster(o)
       /\ call'.data = brk /\ call'.found = call.found
  <2> DEFINE n == FirstCluster(o)
  <2>1. Done \in Calls /\ call \in Calls /\ Done.pc = call.pc + 1 /\ Done = [call EXCEPT !.pc = Done.pc]
    BY <1>1, <1>7
  <2>2. n \in Nat /\ brk \in Nat /\ brk > 0 /\ call' = Move(Done, brk, n)
    BY <1>1, <1>8, <1>9 DEF Move
  <2> HIDE DEF o, n
  <2>3. Done.fn = call.fn /\ Done.name = call.name /\ Done.found = call.found
    BY <2>1 DEF Calls
  <2>4. /\ call' \in Calls /\ call'.fn = Done.fn /\ call'.name = Done.name /\ call'.pc = Done.pc
        /\ call'.buf = brk /\ call'.num = n /\ call'.data = brk /\ call'.found = Done.found
    BY <2>1, <2>2, Moved
  <2> QED
    BY <2>1, <2>3, <2>4 DEF n
<1>11. Obj(call') = o
  BY <1>6, <1>10 DEF Obj
<1>12. Following(call', heap', o)
  <2>1. CASE Len(Chain(o)) = 0
    BY <1>2, <1>10, <2>1 DEF Following
  <2>2. CASE Len(Chain(o)) # 0
    <3>1. 1 \in 1 .. Len(Chain(o)) /\ call'.num = Chain(o)[1] /\ call'.data = call'.buf
      BY <1>2, <1>10, <2>2
    <3> HIDE DEF o
    <3> QED
      BY <3>1 DEF Following
  <2> QED
    BY <2>1, <2>2
<1>13. FilesBelow(files, heap', brk) /\ FilesBelow(files, heap', brk')
  <2>1. brk <= brk
    BY <1>1
  <2>2. FilesBelow(files, heap', brk)
    BY <1>1, <1>5, <2>1, BelowKept
  <2>3. FilesBelow(files, heap', brk')
    BY <1>1, <1>5, BelowKept
  <2> QED
    BY <2>2, <2>3
<1>14. Working(call', heap', brk', files)
  <2>1. /\ call.fn = "read_function" => call.name \in Files
        /\ brk + Left[call.fn][call.pc] <= HeapSize + 1
        /\ call.fn = "read_function" /\ call.pc >= 4 =>
             call.found = IF InFirst(call.name) THEN <<Of(call.name)>> ELSE <<>>
        /\ call.fn = "read_function" /\ call.pc >= 5 => InFirst(call.name)
    BY <1>1 DEF Working
  <2>2. /\ call.pc + 1 >= 4 => call.pc >= 4
        /\ call.pc + 1 >= 5 => call.pc >= 5
    BY <1>1, <1>6
  <2>3. brk' + Left[call.fn][call.pc + 1] <= HeapSize + 1
    <3> DEFINE left == Left[call.fn][call.pc]
               later == Left[call.fn][call.pc + 1]
    <3>1. /\ later \in Nat /\ left = later + S /\ brk + left <= HeapSize + 1
          /\ brk' = brk + S /\ brk \in Nat
      BY <1>1, <1>5, <1>6, <2>1
    <3> HIDE DEF left, later
    <3>2. brk' + later <= HeapSize + 1
      BY <1>3, <3>1
    <3> QED
      BY <3>2 DEF later
  <2>4. brk + S <= brk'
    BY <1>1, <1>3, <1>5
  <2> DEFINE c == call'
             h == heap'
             b == brk'
             k == call.pc + 1
             fn == call.fn
  <2>5. /\ c.fn = fn /\ c.name = call.name /\ c.pc = k /\ c.buf = brk /\ c.found = call.found
        /\ k \in 1 .. Len(Steps[fn]) /\ Steps[fn][k] = "read_cluster_chain"
        /\ Following(c, h, Obj(c)) /\ FilesBelow(files, h, brk) /\ brk + S <= b
        /\ b + Left[fn][k] <= HeapSize + 1
    BY <1>6, <1>10, <1>11, <1>12, <1>13, <2>3, <2>4
  <2>6. /\ fn = "read_function" => call.name \in Files
        /\ fn = "read_function" /\ k >= 4 =>
             call.found = IF InFirst(call.name) THEN <<Of(call.name)>> ELSE <<>>
        /\ fn = "read_function" /\ k >= 5 => InFirst(call.name)
    BY <2>1, <2>2
  <2> HIDE DEF o, c, h, b, k, fn
  <2>7. Working(c, h, b, files)
    BY <2>5, <2>6 DEF Working
  <2> QED
    BY <2>7 DEF c, h, b
<1>15. Good(call', heap', brk', files', init_p', Stopped')
  <2>1. brk' > 0 /\ files' = files /\ init_p' = init_p /\ died' = died
    BY <1>1, <1>3, <1>5, <1>9
  <2> QED
    BY <1>1, <1>5, <1>10, <1>13, <1>14, <2>1 DEF Good, Stopped
<1> QED
  BY <1>1, <1>9, <1>15, Carry

LEMMA GetDirentsFat ==
  ASSUME FatInv, get_dirents
  PROVE  FatInv'
<1>1. At("get_dirents") /\ Buffer(FirstCluster(Root))
  BY DEF get_dirents
<1>2. /\ call.fn \in {"readdir", "read_function"} /\ call.pc \in Nat
      /\ call.pc \in 1 .. Len(Steps[call.fn]) /\ Steps[call.fn][call.pc] = "get_dirents"
  BY <1>1, Busy
<1>3. Obj(call) = Root
  BY <1>2, Table DEF Obj
<1> QED
  BY <1>1, <1>3, BufferFat

LEMMA LengthFat ==
  ASSUME FatInv, length
  PROVE  FatInv'
<1>1. At("length") /\ Buffer(call.found[1].cluster_id)
  BY DEF length
<1>2. /\ call.fn \in {"readdir", "read_function"} /\ call.pc \in Nat
      /\ call.pc \in 1 .. Len(Steps[call.fn]) /\ Steps[call.fn][call.pc] = "length"
      /\ Working(call, heap, brk, files)
  BY <1>1, Busy
<1>3. call.fn = "read_function" /\ call.pc >= 10
  BY <1>2, Table
<1>4. Obj(call) = call.name
  BY <1>3 DEF Obj
<1>5. call.pc >= 4 /\ call.pc >= 5
  BY <1>2, <1>3
<1>6. call.found = <<Of(call.name)>>
  BY <1>2, <1>3, <1>5 DEF Working
<1>7. call.found[1].cluster_id = FirstCluster(call.name)
  BY <1>6 DEF Of
<1> QED
  BY <1>1, <1>4, <1>7, BufferFat

(* A step that allocates n cells at most and goes on to the next step.      *)
LEMMA Onward ==
  ASSUME FatInv, NEW step, At(step), step \in {"read_cluster_chain", "stat", "demand"},
         NEW c, c \in Calls, NEW h, NEW b \in Nat, b > 0, b >= brk, DOMAIN h = 1 .. HeapSize,
         \A a \in 1 .. HeapSize : a < brk => h[a] = heap[a],
         b <= brk + (IF step = "stat" THEN S + 1 ELSE 0),
         c.fn = call.fn, c.name = call.name, c.pc = call.pc + 1, c.buf = call.buf,
         step = "read_cluster_chain" => Holds(h, call.buf, Obj(call)),
         c.fn = "read_function" /\ c.pc >= 4 =>
           c.found = IF InFirst(c.name) THEN <<Of(c.name)>> ELSE <<>>,
         c.fn = "read_function" /\ c.pc >= 5 => InFirst(c.name)
  PROVE  Good(c, h, b, files, init_p, Stopped)
<1>1. /\ CardOK /\ brk \in Nat /\ init_p \in BOOLEAN /\ init_p /\ ~ died
      /\ call.fn \in {"readdir", "read_function"} /\ call.pc \in Nat
      /\ call.buf \in Nat /\ call.buf > 0
      /\ call.pc # 0 /\ call.pc \in 1 .. Len(Steps[call.fn]) /\ Steps[call.fn][call.pc] = step
      /\ FilesBelow(files, heap, brk) /\ Working(call, heap, brk, files)
  BY Busy
<1>2. S \in Nat /\ HeapSize \in Nat
  BY Constants
<1>3. /\ call.pc + 1 \in 1 .. Len(Steps[call.fn]) /\ call.pc > 1
      /\ Left[call.fn][call.pc + 1] \in Nat /\ Left[call.fn][call.pc] \in Nat
      /\ Left[call.fn][call.pc] =
           Left[call.fn][call.pc + 1] + (IF step = "stat" THEN S + 1 ELSE 0)
      /\ Steps[call.fn][call.pc + 1] # "read_cluster_chain"
      /\ Steps[call.fn][call.pc + 1] \in {"list", "stat", "file"} => step = "read_cluster_chain"
      /\ step = "read_cluster_chain" => (call.pc >= 10 <=> call.pc + 1 >= 10)
  BY <1>1, TableOn
<1>4. /\ call.fn = "read_function" => call.name \in Files
      /\ brk + Left[call.fn][call.pc] <= HeapSize + 1
      /\ FilesBelow(files, heap, call.buf) /\ call.buf + S <= brk
  BY <1>1, <1>3 DEF Working
<1>5. FilesBelow(files, h, b)
  BY <1>1, BelowKept
<1>6. FilesBelow(files, h, call.buf)
  <2>1. call.buf <= call.buf /\ \A a \in 1 .. HeapSize : a < call.buf => a < brk
    BY <1>1, <1>2, <1>4
  <2>2. \A a \in 1 .. HeapSize : a < call.buf => h[a] = heap[a]
    BY <2>1
  <2> QED
    BY <1>1, <1>4, <2>1, <2>2, BelowKept
<1>7. b + Left[call.fn][call.pc + 1] <= HeapSize + 1
  <2> DEFINE n == IF step = "stat" THEN S + 1 ELSE 0
             left == Left[call.fn][call.pc]
             later == Left[call.fn][call.pc + 1]
  <2>1. n \in Nat /\ left \in Nat /\ later \in Nat /\ left = later + n /\ b <= brk + n
        /\ brk + left <= HeapSize + 1
    BY <1>2, <1>3, <1>4
  <2> HIDE DEF n, left, later
  <2>2. b + later <= HeapSize + 1
    BY <1>1, <1>2, <2>1
  <2> QED
    BY <2>2 DEF later
<1>8. Steps[c.fn][c.pc] \in {"list", "stat", "file"} => Holds(h, c.buf, Obj(c))
  <2>1. ASSUME step = "read_cluster_chain" PROVE Obj(c) = Obj(call)
    BY <1>3, <2>1 DEF Obj
  <2> QED
    BY <1>3, <2>1
<1>9. call.buf + S <= b
  BY <1>1, <1>2, <1>4
<1>10. Working(c, h, b, files)
  BY <1>3, <1>4, <1>6, <1>7, <1>8, <1>9 DEF Working
<1> QED
  BY <1>1, <1>5, <1>10 DEF Good, Stopped

(* The loop leaves the chain.                                               *)
LEMMA ChainEnds ==
  ASSUME FatInv, At("read_cluster_chain"), fat32_fat_entry_type(call.num) = "LAST_CLUSTER",
         call' = Done, UNCHANGED <<card, heap, brk, init_p, files, listing, died, read_failed>>
  PROVE  FatInv'
<1>1. /\ CardOK /\ DOMAIN heap = 1 .. HeapSize /\ brk \in Nat /\ brk > 0
      /\ call \in Calls /\ call.fn \in {"readdir", "read_function"} /\ call.pc \in Nat
      /\ call.pc # 0 /\ call.pc \in 1 .. Len(Steps[call.fn])
      /\ Steps[call.fn][call.pc] = "read_cluster_chain"
      /\ Working(call, heap, brk, files) /\ Obj(call) \in Objects
  BY Busy
<1>2. Following(call, heap, Obj(call))
  BY <1>1 DEF Working
<1>3. Holds(heap, call.buf, Obj(call))
  BY <1>1, <1>2, Chained, EntryTypes DEF Following
<1>4. call.pc # Len(Steps[call.fn]) /\ call.pc # 3 /\ call.pc # 4
  BY <1>1, Table
<1>5. Done \in Calls /\ Done = [call EXCEPT !.pc = Done.pc] /\ Done.pc = call.pc + 1
  BY <1>1, <1>4, Stepped
<1>6. Done.fn = call.fn /\ Done.name = call.name /\ Done.buf = call.buf /\ Done.found = call.found
  BY <1>1, <1>5 DEF Calls
<1>7. /\ call.fn = "read_function" /\ call.pc >= 4 =>
           call.found = IF InFirst(call.name) THEN <<Of(call.name)>> ELSE <<>>
      /\ call.fn = "read_function" /\ call.pc >= 5 => InFirst(call.name)
  BY <1>1 DEF Working
<1>8. (call.pc + 1 >= 4 => call.pc >= 4) /\ (call.pc + 1 >= 5 => call.pc >= 5)
  BY <1>1, <1>4
<1>9. /\ Done.fn = "read_function" /\ Done.pc >= 4 =>
           Done.found = IF InFirst(Done.name) THEN <<Of(Done.name)>> ELSE <<>>
      /\ Done.fn = "read_function" /\ Done.pc >= 5 => InFirst(Done.name)
  BY <1>5, <1>6, <1>7, <1>8
<1>10. brk >= brk /\ brk <= brk + 0
  BY <1>1
<1>11. Good(Done, heap, brk, files, init_p, Stopped)
  BY <1>1, <1>3, <1>5, <1>6, <1>9, <1>10, Onward
<1> QED
  BY <1>1, <1>11, Carry DEF Stopped

(* Its test stops the server for an empty file, and for nothing else.       *)
LEMMA ChainPanics ==
  ASSUME FatInv, At("read_cluster_chain"), fat32_fat_entry_type(call.num) # "LAST_CLUSTER",
         call.num < 2, panic
  PROVE  FatInv'
<1>1. /\ CardOK /\ call.fn \in {"readdir", "read_function"} /\ call.pc \in Nat
      /\ Steps[call.fn][call.pc] = "read_cluster_chain"
      /\ Working(call, heap, brk, files) /\ Obj(call) \in Objects
  BY Busy
<1>2. Following(call, heap, Obj(call))
  BY <1>1 DEF Working
<1>3. Len(Chain(Obj(call))) = 0
  <2>1. \A j \in 1 .. Len(Chain(Obj(call))) :
          Chain(Obj(call))[j] \in Nat /\ Chain(Obj(call))[j] >= 2
    BY <1>1, Chained, EntryTypes
  <2>2. \A n \in Nat : ~ (n >= 2 /\ n < 2)
    OBVIOUS
  <2> QED
    BY <1>2, <2>1, <2>2, EntryTypes DEF Following
<1>4. Obj(call) # Root
  BY <1>1, <1>3 DEF CardOK
<1>5. call.fn = "read_function" /\ Obj(call) = call.name
  BY <1>4 DEF Obj
<1>6. card.chain[call.name] = <<>>
  BY <1>1, <1>3, <1>5, Chained
<1> QED
  BY <1>5, <1>6, Panics DEF Excused

LEMMA Spot ==
  ASSUME NEW b \in Nat, b > 0, NEW n \in Nat, NEW m \in Nat, b + n <= m + 1, NEW k \in 1 .. n
  PROVE  b + k - 1 \in 1 .. m /\ b + k - 1 \in b .. b + n - 1 /\ b + k - 1 - b = k - 1
OBVIOUS

(* A cluster is read: the first to the buffer, the others past its end,     *)
(* where nothing is that was read before.                                   *)
LEMMA ChainReads ==
  ASSUME FatInv, At("read_cluster_chain"), fat32_fat_entry_type(call.num) # "LAST_CLUSTER",
         ~ call.num < 2, pi_sd_read(call.data, cluster_to_lba(call.num)),
         call' = [call EXCEPT !.data = @ + sec_per_cluster, !.num = fat(@)],
         UNCHANGED <<card, brk, init_p, files, listing, died, read_failed>>
  PROVE  FatInv'
<1> DEFINE o == Obj(call)
<1>1. /\ CardOK /\ DOMAIN heap = 1 .. HeapSize /\ brk \in Nat /\ brk > 0
      /\ init_p \in BOOLEAN /\ init_p /\ ~ died
      /\ call \in Calls /\ call.fn \in {"readdir", "read_function"} /\ call.pc \in Nat
      /\ call.buf \in Nat /\ call.buf > 0 /\ call.data \in Nat /\ call.data > 0
      /\ call.pc # 0 /\ call.pc \in 1 .. Len(Steps[call.fn])
      /\ Steps[call.fn][call.pc] = "read_cluster_chain"
      /\ FilesBelow(files, heap, brk) /\ Working(call, heap, brk, files) /\ o \in Objects
  BY Busy
<1>2. S \in Nat /\ S > 0 /\ S = sec_per_cluster /\ HeapSize \in Nat
  BY Constants
<1>3. call.pc > 1 /\ Left[call.fn][call.pc] \in Nat
  BY <1>1, Table
<1>4. /\ Following(call, heap, o) /\ brk + Left[call.fn][call.pc] <= HeapSize + 1
      /\ FilesBelow(files, heap, call.buf) /\ call.buf + S <= brk
  BY <1>1, <1>3 DEF Working
<1>5. call.num # 0 /\ call.num # LAST_CLUSTER
  BY EntryTypes
<1>6. PICK j \in 1 .. Len(Chain(o)) :
        /\ call.num = Chain(o)[j]
        /\ IF j = 1 THEN call.data = call.buf
           ELSE call.data >= call.buf + S /\ Holds(heap, call.buf, o)
  BY <1>4, <1>5 DEF Following
<1>7. /\ Len(Chain(o)) \in Nat /\ \A i \in 1 .. Len(Chain(o)) : Chain(o)[i] \in Clusters
  BY <1>1, Chained
<1>8. call.data >= call.buf /\ call.buf <= brk /\ call.buf + S <= HeapSize + 1
  <2>1. call.data >= call.buf
    BY <1>1, <1>2, <1>6
  <2> DEFINE left == Left[call.fn][call.pc]
  <2>2. left \in Nat /\ brk + left <= HeapSize + 1 /\ call.buf + S <= brk
    BY <1>3, <1>4
  <2> HIDE DEF left
  <2>3. call.buf <= brk /\ call.buf + S <= HeapSize + 1
    BY <1>1, <1>2, <2>2
  <2> QED
    BY <2>1, <2>3
<1>9. /\ DOMAIN heap' = 1 .. HeapSize
      /\ \A a \in 1 .. HeapSize :
           heap'[a] = IF a \in call.data .. call.data + S - 1
                        THEN Sector(cluster_to_lba(call.num) + (a - call.data)) ELSE heap[a]
  BY <1>1, <1>2 DEF pi_sd_read
<1>10. \A a \in 1 .. HeapSize : a < call.data => heap'[a] = heap[a]
  <2>1. \A a \in 1 .. HeapSize : a < call.data => a \notin call.data .. call.data + S - 1
    BY <1>1
  <2> QED
    BY <1>9, <2>1
<1>11. FilesBelow(files, heap', call.buf) /\ FilesBelow(files, heap', brk)
  <2>1. call.buf <= call.buf /\ \A a \in 1 .. HeapSize : a < call.buf => heap'[a] = heap[a]
    BY <1>1, <1>2, <1>8, <1>10
  <2>2. FilesBelow(files, heap', call.buf)
    BY <1>1, <1>4, <2>1, BelowKept
  <2>3. FilesBelow(files, heap', brk)
    BY <1>1, <1>4, <1>8, <2>1, BelowKept
  <2> QED
    BY <2>2, <2>3
<1>12. Holds(heap', call.buf, o)
  <2>1. CASE j = 1
    <3> SUFFICES ASSUME NEW k \in 1 .. S PROVE heap'[call.buf + k - 1] = Cell(o, k)
      BY DEF Holds
    <3>1. call.data = call.buf /\ call.num = Chain(o)[1] /\ Len(Chain(o)) > 0
      BY <1>6, <1>7, <2>1
    <3> DEFINE a == call.buf + k - 1
    <3>2. a \in 1 .. HeapSize /\ a \in call.data .. call.data + S - 1 /\ a - call.data = k - 1
      <4> HIDE DEF o
      <4>1. call.buf \in Nat /\ call.buf > 0 /\ call.buf + S <= HeapSize + 1 /\ call.data = call.buf
        BY <1>1, <1>8, <3>1
      <4>2. S \in Nat /\ HeapSize \in Nat /\ k \in 1 .. S
        BY <1>2
      <4> QED
        BY <4>1, <4>2, Spot
    <3> HIDE DEF a
    <3>3. heap'[a] = Sector(cluster_to_lba(call.num) + (a - call.data))
      BY <1>9, <3>2
    <3>4. Sector(cluster_to_lba(Chain(o)[1]) + (k - 1)) = Cell(o, k)
      BY <1>1, <3>1, SectorOf
    <3>5. heap'[a] = Cell(o, k)
      BY <3>1, <3>2, <3>3, <3>4
    <3> QED
      BY <3>5 DEF a
  <2>2. CASE j # 1
    <3>1. call.data >= call.buf + S /\ Holds(heap, call.buf, o)
      BY <1>6, <2>2
    <3> DEFINE d == call.buf + S
    <3>2. d \in Nat /\ call.buf + S <= d /\ d <= HeapSize + 1 /\ d <= call.data
      <4> HIDE DEF o
      <4>1. call.buf \in Nat /\ call.buf + S <= HeapSize + 1 /\ call.data >= call.buf + S
        BY <1>1, <1>8, <3>1
      <4> QED
        BY <1>2, <4>1
    <3> HIDE DEF d, o
    <3>3. \A a \in 1 .. HeapSize : a < d => heap'[a] = heap[a]
      BY <1>1, <1>2, <1>10, <3>2
    <3> QED
      BY <1>1, <3>1, <3>2, <3>3, HoldsKept
  <2> QED
    BY <2>1, <2>2
<1>13. fat(call.num) = IF j = Len(Chain(o)) THEN LAST_CLUSTER ELSE Chain(o)[j + 1]
  BY <1>1, <1>6, FatEntry
<1>14. j # Len(Chain(o)) => j + 1 \in 1 .. Len(Chain(o)) /\ j + 1 # 1
  BY <1>7
<1>15. fat(call.num) \in Nat
  <2>1. LAST_CLUSTER \in Nat
    BY DEF LAST_CLUSTER
  <2> QED
    BY <1>7, <1>13, <1>14, <2>1, EntryTypes
<1>16. /\ call' \in Calls /\ call'.fn = call.fn /\ call'.name = call.name /\ call'.pc = call.pc
       /\ call'.buf = call.buf /\ call'.found = call.found
       /\ call'.num = fat(call.num) /\ call'.data = call.data + S
  <2> DEFINE n == fat(call.num)
             d == call.data + S
  <2>1. n \in Nat /\ d \in Nat \ {0} /\ call' = [call EXCEPT !.data = d, !.num = n]
    BY <1>1, <1>2, <1>15
  <2> HIDE DEF n, d, o
  <2>2. /\ call' \in Calls /\ call'.fn = call.fn /\ call'.name = call.name /\ call'.pc = call.pc
        /\ call'.buf = call.buf /\ call'.found = call.found /\ call'.num = n /\ call'.data = d
    BY <1>1, <2>1 DEF Calls
  <2> QED
    BY <2>2 DEF n, d
<1>17. Obj(call') = o
  BY <1>16 DEF Obj
<1>18. Following(call', heap', o)
  <2>1. CASE j = Len(Chain(o))
    BY <1>6, <1>7, <1>12, <1>13, <1>16, <2>1 DEF Following
  <2>2. CASE j # Len(Chain(o))
    <3>1. call'.data >= call'.buf + S
      BY <1>1, <1>2, <1>8, <1>16
    <3>2. call'.num = Chain(o)[j + 1]
      BY <1>13, <1>16, <2>2
    <3> HIDE DEF o
    <3> QED
      BY <1>12, <1>14, <1>16, <2>2, <3>1, <3>2 DEF Following
  <2> QED
    BY <2>1, <2>2
<1>19. Working(call', heap', brk, files)
  <2>1. /\ call.pc \in 1 .. Len(Steps[call.fn])
        /\ call.fn = "read_function" => call.name \in Files
        /\ call.fn = "read_function" /\ call.pc >= 4 =>
             call.found = IF InFirst(call.name) THEN <<Of(call.name)>> ELSE <<>>
        /\ call.fn = "read_function" /\ call.pc >= 5 => InFirst(call.name)
    BY <1>1 DEF Working
  <2> HIDE DEF o
  <2> QED
    BY <1>1, <1>4, <1>11, <1>16, <1>17, <1>18, <2>1 DEF Working
<1>20. Good(call', heap', brk', files', init_p', Stopped')
  BY <1>1, <1>9, <1>11, <1>16, <1>19 DEF Good, Stopped
<1> QED
  BY <1>1, <1>20, Carry

LEMMA ChainFat ==
  ASSUME FatInv, read_cluster_chain
  PROVE  FatInv'
BY ChainEnds, ChainPanics, ChainReads, ReadFailsFat DEF read_cluster_chain

LEMMA Entries ==
  ASSUME Holds(heap, call.buf, Root), NEW k \in 1 .. S
  PROVE  Entry(k) = Dirent(k)
<1>1. heap[call.buf + k - 1] = Cell(Root, k)
  BY DEF Holds
<1>2. Cell(Root, k).of = Root /\ Cell(Root, k).i = k
  BY DEF Cell
<1> QED
  BY <1>1, <1>2 DEF Entry

(* fat32_stat finds the file's entry when it is in the first cluster of the *)
(* directory, and nothing otherwise.                                        *)
LEMMA Hits ==
  ASSUME CardOK, Holds(heap, call.buf, Root), call.name \in Files
  PROVE  {k \in Valid : Entry(k).name = call.name}
           = IF InFirst(call.name) THEN {card.slot[call.name]} ELSE {}
<1> DEFINE f == call.name
           s == card.slot[f]
<1>1. S \in Nat /\ S > 0 /\ S = sec_per_cluster /\ Root \notin Files /\ None \notin Files
  BY Constants
<1>2. get_cluster_chain_length(FirstCluster(Root)) = 1
  BY Chained DEF Objects
<1>3. NDirents = S
  BY <1>1, <1>2 DEF NDirents
<1>4. \A k \in 1 .. S : Entry(k) = Dirent(k)
  BY Entries
<1>5. \A k \in 1 .. S : Entry(k).name = f => k = s
  <2> SUFFICES ASSUME NEW k \in 1 .. S, Entry(k).name = f PROVE k = s
    OBVIOUS
  <2>1. Dirent(k).name = f
    BY <1>4
  <2>2. k \in Nat /\ k # 0
    BY <1>1
  <2> QED
    BY <2>1, <2>2, Names
<1>6. InFirst(f) <=> s \in 1 .. S
  BY <1>1 DEF InFirst
<1>7. ASSUME s \in 1 .. S PROVE Entry(s).name = f /\ s \in Valid
  <2>1. s # 0
    BY <1>7, <1>1
  <2>2. Entry(s) = Of(f)
    BY <1>4, <1>7, <2>1, DirentOf
  <2>3. ~ Skipped(Entry(s)) /\ Entry(s).name = f
    BY <2>2 DEF Of, Skipped
  <2> QED
    BY <1>3, <1>7, <2>3 DEF Valid
<1>8. \A k \in Valid : k \in 1 .. S
  BY <1>3 DEF Valid
<1> HIDE DEF f, s
<1>9. {k \in Valid : Entry(k).name = f} = IF InFirst(f) THEN {s} ELSE {}
  BY <1>5, <1>6, <1>7, <1>8
<1> QED
  BY <1>9 DEF f, s

LEMMA OnlyOne ==
  ASSUME NEW n \in Int
  PROVE  Min({n}) = n
BY DEF Min

LEMMA StatFat ==
  ASSUME FatInv, fat32_stat
  PROVE  FatInv'
<1> DEFINE hits == {k \in Valid : Entry(k).name = call.name}
           upto == {k \in Valid : \A h \in hits : k <= h}
           n == Cardinality(upto)
           answer == IF hits = {} THEN <<>> ELSE <<Entry(Min(hits))>>
<1>1. /\ At("stat") /\ kmalloc(1 + n)
      /\ call' = [Done EXCEPT !.found = answer]
      /\ UNCHANGED <<card, init_p, files, listing, died, read_failed>>
  BY DEF fat32_stat
<1>2. /\ CardOK /\ DOMAIN heap = 1 .. HeapSize /\ brk \in Nat /\ brk > 0
      /\ call \in Calls /\ call.fn \in {"readdir", "read_function"} /\ call.pc \in Nat
      /\ call.pc # 0 /\ call.pc \in 1 .. Len(Steps[call.fn])
      /\ Steps[call.fn][call.pc] = "stat"
      /\ Working(call, heap, brk, files)
  BY <1>1, Busy
<1>3. S \in Nat /\ S > 0 /\ S = sec_per_cluster /\ HeapSize \in Nat
  BY Constants
<1>4. /\ call.pc # Len(Steps[call.fn]) /\ call.fn = "read_function" /\ call.pc < 10
      /\ call.pc >= 4 => call.pc >= 5
  BY <1>2, Table
<1>5. Obj(call) = Root
  BY <1>2, <1>4 DEF Obj
<1>6. /\ Holds(heap, call.buf, Root) /\ call.name \in Files
      /\ call.pc >= 5 => InFirst(call.name)
  BY <1>2, <1>4, <1>5 DEF Working
<1>7. hits = IF InFirst(call.name) THEN {card.slot[call.name]} ELSE {}
  BY <1>2, <1>6, Hits
<1>8. answer = IF InFirst(call.name) THEN <<Of(call.name)>> ELSE <<>>
  <2>1. CASE ~ InFirst(call.name)
    <3> HIDE DEF hits
    <3> QED
      BY <1>7, <2>1
  <2>2. CASE InFirst(call.name)
    <3> DEFINE s == card.slot[call.name]
    <3>1. s \in 1 .. S
      BY <1>3, <2>2 DEF InFirst
    <3>2. s \in Nat /\ s # 0
      BY <1>3, <3>1
    <3>3. hits = {s}
      BY <1>7, <2>2
    <3>4. Min(hits) = s
      BY <3>2, <3>3, OnlyOne
    <3>5. Entry(s) = Dirent(s)
      BY <1>6, <3>1, Entries
    <3>6. Dirent(s) = Of(call.name)
      BY <1>2, <1>6, <3>2, DirentOf
    <3> HIDE DEF hits, s
    <3> QED
      BY <2>2, <3>3, <3>4, <3>5, <3>6
  <2> QED
    BY <2>1, <2>2
<1>9. n \in 0 .. S
  <2>1. NDirents = S
    <3>1. get_cluster_chain_length(FirstCluster(Root)) = 1
      BY <1>2, Chained DEF Objects
    <3> QED
      BY <1>3, <3>1 DEF NDirents
  <2>2. upto \subseteq 1 .. S
    BY <2>1 DEF Valid
  <2>3. IsFiniteSet(1 .. S) /\ Cardinality(1 .. S) = S
    BY <1>3, FS_Interval
  <2> HIDE DEF upto
  <2>4. IsFiniteSet(upto) /\ Cardinality(upto) <= S /\ Cardinality(upto) \in Nat
    BY <2>2, <2>3, FS_Subset, FS_CardinalityType
  <2> QED
    BY <1>3, <2>4
<1> HIDE DEF hits, upto, n, answer
<1>10. 1 + n \in Nat /\ 1 + n <= S + 1
  BY <1>3, <1>9
<1>11. /\ DOMAIN heap' = 1 .. HeapSize /\ brk' = brk + (1 + n) /\ brk' \in Nat /\ brk <= brk'
       /\ \A a \in 1 .. HeapSize : a < brk => heap'[a] = heap[a]
  BY <1>1, <1>2, <1>10, Allocated
<1>12. /\ Done \in Calls /\ Done = [call EXCEPT !.pc = Done.pc] /\ Done.pc = call.pc + 1
  BY <1>2, <1>4, Stepped
<1>13. Done.fn = call.fn /\ Done.name = call.name /\ Done.buf = call.buf
  BY <1>2, <1>12 DEF Calls
<1>14. answer \in Found
  BY <1>6, <1>8 DEF Found
<1>15. /\ call' \in Calls /\ call'.fn = call.fn /\ call'.name = call.name
       /\ call'.pc = call.pc + 1 /\ call'.buf = call.buf /\ call'.found = answer
  BY <1>1, <1>12, <1>13, <1>14 DEF Calls
<1>16. /\ brk' >= brk /\ brk' > 0 /\ brk' <= brk + (S + 1)
  BY <1>2, <1>3, <1>10, <1>11
<1>17. call'.pc >= 5 => InFirst(call'.name)
  <2>1. call.pc + 1 >= 5 => call.pc >= 5
    BY <1>2, <1>4
  <2> QED
    BY <1>6, <1>15, <2>1
<1>18. Good(call', heap', brk', files, init_p, Stopped)
  <2>1. call'.found = IF InFirst(call'.name) THEN <<Of(call'.name)>> ELSE <<>>
    BY <1>8, <1>15
  <2>2. At("stat") /\ brk' \in Nat /\ DOMAIN heap' = 1 .. HeapSize
        /\ \A a \in 1 .. HeapSize : a < brk => heap'[a] = heap[a]
    BY <1>1, <1>11
  <2> DEFINE c == call'
             h == heap'
             b == brk'
             step == "stat"
  <2>3. /\ At(step) /\ step \in {"read_cluster_chain", "stat", "demand"}
        /\ c \in Calls /\ b \in Nat /\ b > 0 /\ b >= brk /\ DOMAIN h = 1 .. HeapSize
        /\ \A a \in 1 .. HeapSize : a < brk => h[a] = heap[a]
        /\ b <= brk + (IF step = "stat" THEN S + 1 ELSE 0)
        /\ c.fn = call.fn /\ c.name = call.name /\ c.pc = call.pc + 1 /\ c.buf = call.buf
        /\ step # "read_cluster_chain"
        /\ c.found = IF InFirst(c.name) THEN <<Of(c.name)>> ELSE <<>>
        /\ c.pc >= 5 => InFirst(c.name)
    BY <1>15, <1>16, <1>17, <2>1, <2>2
  <2> HIDE DEF c, h, b, step
  <2>4. Good(c, h, b, files, init_p, Stopped)
    BY <2>3, Onward
  <2> QED
    BY <2>4 DEF c, h, b
<1> QED
  BY <1>1, <1>2, <1>18, Carry DEF Stopped

LEMMA DemandFat ==
  ASSUME FatInv, demand
  PROVE  FatInv'
<1>1. /\ CardOK /\ DOMAIN heap = 1 .. HeapSize /\ brk \in Nat /\ brk > 0
      /\ call \in Calls /\ call.fn \in {"readdir", "read_function"} /\ call.pc \in Nat
      /\ call.pc # 0 /\ call.pc \in 1 .. Len(Steps[call.fn])
      /\ Steps[call.fn][call.pc] = "demand"
      /\ Working(call, heap, brk, files) /\ At("demand")
  BY Busy DEF demand
<1>2. call.fn = "read_function" /\ call.pc = 4 /\ call.pc # Len(Steps[call.fn])
  BY <1>1, Table
<1>3. call.found = IF InFirst(call.name) THEN <<Of(call.name)>> ELSE <<>>
  BY <1>1, <1>2 DEF Working
<1>4. CASE call.found = <<>>
  <2>1. ~ InFirst(call.name)
    <3>1. <<Of(call.name)>> # <<>>
      OBVIOUS
    <3> QED
      BY <1>3, <1>4, <3>1
  <2> QED
    BY <1>2, <1>4, <2>1, Panics DEF demand, Excused
<1>5. CASE call.found # <<>>
  <2>1. InFirst(call.name) /\ call.found = <<Of(call.name)>>
    BY <1>3, <1>5
  <2>2. call' = Done /\ UNCHANGED <<card, heap, brk, init_p, files, listing, died, read_failed>>
    BY <1>5 DEF demand
  <2>3. Done \in Calls /\ Done = [call EXCEPT !.pc = Done.pc] /\ Done.pc = call.pc + 1
    BY <1>1, <1>2, Stepped
  <2>4. Done.fn = call.fn /\ Done.name = call.name /\ Done.buf = call.buf /\ Done.found = call.found
    BY <1>1, <2>3 DEF Calls
  <2>5. brk >= brk /\ brk <= brk + 0
    BY <1>1
  <2>6. Done.found = IF InFirst(Done.name) THEN <<Of(Done.name)>> ELSE <<>>
    BY <2>1, <2>4
  <2>7. Good(Done, heap, brk, files, init_p, Stopped)
    BY <1>1, <2>1, <2>3, <2>4, <2>5, <2>6, Onward
  <2> QED
    BY <1>1, <2>2, <2>7, Carry DEF Stopped
<1> QED
  BY <1>4, <1>5

LEMMA ListFat ==
  ASSUME FatInv, list
  PROVE  FatInv'
<1>1. /\ CardOK /\ DOMAIN heap = 1 .. HeapSize /\ brk \in Nat /\ brk > 0
      /\ init_p \in BOOLEAN /\ ~ died
      /\ call \in Calls /\ call.fn \in {"readdir", "read_function"} /\ call.pc \in Nat
      /\ call.pc # 0 /\ call.pc \in 1 .. Len(Steps[call.fn])
      /\ Steps[call.fn][call.pc] = "list"
      /\ FilesBelow(files, heap, brk)
  BY Busy DEF list
<1>2. call.pc = Len(Steps[call.fn])
  BY <1>1, Table
<1>3. Done \in Calls /\ Done.pc = 0
  BY <1>1, <1>2, Stepped
<1>4. S \in Nat /\ kmalloc(S)
  BY Constants DEF list, S
<1>5. call' = Done /\ UNCHANGED <<card, init_p, files, died, read_failed>>
  BY DEF list
<1>6. /\ DOMAIN heap' = 1 .. HeapSize /\ brk' \in Nat /\ brk <= brk'
      /\ \A a \in 1 .. HeapSize : a < brk => heap'[a] = heap[a]
  BY <1>1, <1>4, Allocated
<1>7. FilesBelow(files, heap', brk') /\ brk' > 0
  <2>1. FilesBelow(files, heap', brk')
    BY <1>1, <1>6, BelowKept
  <2> QED
    BY <1>1, <1>6, <2>1
<1>8. Good(call', heap', brk', files', init_p', Stopped')
  BY <1>1, <1>3, <1>5, <1>6, <1>7 DEF Good, Stopped
<1> QED
  BY <1>1, <1>5, <1>8, Carry

(* The file read becomes one of the files: its first cluster is the buffer. *)
LEMMA FileFat ==
  ASSUME FatInv, file
  PROVE  FatInv'
<1>1. /\ CardOK /\ DOMAIN heap = 1 .. HeapSize /\ brk \in Nat /\ brk > 0
      /\ init_p \in BOOLEAN /\ ~ died
      /\ call \in Calls /\ call.fn \in {"readdir", "read_function"} /\ call.pc \in Nat
      /\ call.buf \in Nat /\ call.buf > 0
      /\ call.pc # 0 /\ call.pc \in 1 .. Len(Steps[call.fn])
      /\ Steps[call.fn][call.pc] = "file"
      /\ FilesBelow(files, heap, brk) /\ Working(call, heap, brk, files)
  BY Busy DEF file
<1>2. /\ call.pc = Len(Steps[call.fn]) /\ call.fn = "read_function" /\ call.pc = 12
      /\ Left[call.fn][call.pc] = 1
  BY <1>1, Table
<1>3. S \in Nat /\ S > 0 /\ HeapSize \in Nat
  BY Constants
<1>4. Obj(call) = call.name
  BY <1>2 DEF Obj
<1>5. /\ Holds(heap, call.buf, call.name) /\ call.name \in Files
      /\ call.found = <<Of(call.name)>>
      /\ brk + 1 <= HeapSize + 1 /\ call.buf + S <= brk
  BY <1>1, <1>2, <1>4 DEF Working
<1>6. heap[call.buf] = Cell(call.name, 1)
  <2>1. heap[call.buf + 1 - 1] = Cell(call.name, 1)
    BY <1>3, <1>5 DEF Holds
  <2>2. call.buf + 1 - 1 = call.buf
    BY <1>1
  <2> QED
    BY <2>1, <2>2
<1>7. CASE heap[call.buf] \notin {Cell(f, 1) : f \in Programs}
  <2>1. call.name \notin Programs
    BY <1>6, <1>7
  <2>2. panic
    BY <1>7 DEF file
  <2> QED
    BY <1>2, <2>1, <2>2, Panics DEF Excused
<1>8. CASE heap[call.buf] \in {Cell(f, 1) : f \in Programs}
  <2> DEFINE new == [name |-> call.name, data |-> call.buf, n_data |-> call.found[1].nbytes,
                     n_alloc |-> get_cluster_chain_length(call.found[1].cluster_id) * sec_per_cluster]
  <2>1. /\ kmalloc(1) /\ files' = files \cup {new} /\ call' = Done
        /\ UNCHANGED <<card, init_p, listing, died, read_failed>>
    BY <1>8 DEF file
  <2>2. Done \in Calls /\ Done.pc = 0
    BY <1>1, <1>2, Stepped
  <2>3. /\ DOMAIN heap' = 1 .. HeapSize /\ brk' \in Nat /\ brk <= brk'
        /\ \A a \in 1 .. HeapSize : a < brk => heap'[a] = heap[a]
    BY <1>1, <2>1, Allocated
  <2>4. FilesBelow(files, heap', brk') /\ brk' > 0
    <3>1. FilesBelow(files, heap', brk')
      BY <1>1, <2>3, BelowKept
    <3> QED
      BY <1>1, <2>3, <3>1
  <2>5. Holds(heap', call.buf, call.name)
    <3>1. brk <= HeapSize + 1
      BY <1>1, <1>3, <1>5
    <3> QED
      BY <1>1, <1>5, <2>3, <3>1, HoldsKept
  <2>6. new.n_data \in Nat
    <3>1. new.n_data = Len(Chain(call.name)) * S
      BY <1>5 DEF Of, Size, Chain, S
    <3>2. Len(Chain(call.name)) \in Nat
      BY <1>1, <1>5, Chained DEF Objects
    <3> QED
      BY <1>3, <3>1, <3>2
  <2>7. new.name = call.name /\ new.data = call.buf
    OBVIOUS
  <2>8. call.buf + S <= brk' /\ call.buf + S <= HeapSize + 1
    BY <1>1, <1>3, <1>5, <2>3
  <2> HIDE DEF new
  <2>9. FilesBelow(files', heap', brk')
    <3> SUFFICES ASSUME NEW f \in files'
                 PROVE  /\ f.name \in Files /\ f.n_data \in Nat /\ f.data \in Nat /\ f.data > 0
                        /\ f.data + S <= brk' /\ f.data + S <= HeapSize + 1
                        /\ Holds(heap', f.data, f.name)
      BY DEF FilesBelow
    <3>1. CASE f \in files
      BY <2>4, <3>1 DEF FilesBelow
    <3>2. CASE f = new
      BY <1>1, <1>5, <2>5, <2>6, <2>7, <2>8, <3>2
    <3> QED
      BY <2>1, <3>1, <3>2
  <2>10. Good(call', heap', brk', files', init_p', Stopped')
    BY <1>1, <2>1, <2>2, <2>3, <2>4, <2>9 DEF Good, Stopped
  <2> QED
    BY <1>1, <2>1, <2>10, Carry
<1> QED
  BY <1>7, <1>8

LEMMA StutterFat ==
  ASSUME FatInv, UNCHANGED vars
  PROVE  FatInv'
<1>1. card' = card /\ UNCHANGED <<heap, brk, init_p, call, files, Stopped>>
  BY DEF vars, Stopped
<1>2. CardOK /\ Good(call', heap', brk', files', init_p', Stopped')
  BY <1>1 DEF FatInv
<1> QED
  BY <1>1, <1>2, Carry

LEMMA NextFat ==
  ASSUME FatInv, [Next]_vars
  PROVE  FatInv'
<1>1. CASE Step
  BY <1>1, MkFat, GetDirentsFat, ChainFat, StatFat, DemandFat, ListFat, LengthFat, FileFat DEF Step
<1>2. CASE Call("readdir", None)
  BY <1>2, CallFat
<1>3. ASSUME NEW f \in Files, Call("read_function", f) PROVE FatInv'
  BY <1>3, CallFat
<1>4. CASE UNCHANGED vars
  BY <1>4, StutterFat
<1> QED
  BY <1>1, <1>2, <1>3, <1>4 DEF Next

LEMMA FatAlways == Spec => []FatInv
<1>1. Init => FatInv
  BY InitFat
<1>2. FatInv /\ [Next]_vars => FatInv'
  BY NextFat
<1> QED
  BY <1>1, <1>2, PTL DEF Spec

------------------------------------------------------------------------------
(* Whatever is read later, and however long the chains are, the first       *)
(* cluster of a file that fat32_read returned stays what the card has: the  *)
(* clusters that read_cluster_chain copies past the end of its buffer go    *)
(* to memory no earlier buffer has.                                         *)
THEOREM FirstKept == Spec => []FirstClusterKept
<1>1. FatInv => FirstClusterKept
  <2> SUFFICES ASSUME FatInv, NEW f \in files, NEW i \in 1 .. Least(f.n_data, sec_per_cluster)
               PROVE  heap[f.data + i - 1] = Cell(f.name, i)
    BY DEF FirstClusterKept
  <2>1. f.n_data \in Nat /\ Holds(heap, f.data, f.name)
    BY DEF FatInv, Good, FilesBelow
  <2>2. i \in 1 .. S
    <3>1. S \in Nat /\ S = sec_per_cluster
      BY Constants
    <3> QED
      BY <2>1, <3>1 DEF Least
  <2> QED
    BY <2>1, <2>2 DEF Holds
<1> QED
  BY <1>1, FatAlways, PTL

(* The server stops only for a card that is not valid, a read that fails,   *)
(* or a name that is not in the first cluster of the directory, an empty    *)
(* file's, or no program's: no chain of a card that is well made and can be *)
(* read stops it, and no file read before makes a later one look different. *)
THEOREM StopsOnlyFor == Spec => []DiesOnlyOf
<1>1. FatInv => DiesOnlyOf
  BY DEF FatInv, Good, DiesOnlyOf, Excused, Stopped
<1> QED
  BY <1>1, FatAlways, PTL

------------------------------------------------------------------------------
(* The listing of fat32_readdir.                                            *)

(* The places of a finite set of numbers: n - 1 below the nth.              *)
LEMMA Places ==
  ASSUME NEW V \in SUBSET Nat, IsFiniteSet(V)
  PROVE  /\ Cardinality(V) \in Nat
         /\ \A x \in V : Cardinality({y \in V : y < x}) + 1 \in 1 .. Cardinality(V)
         /\ \A x, y \in V : x < y => Cardinality({z \in V : z < x}) < Cardinality({z \in V : z < y})
         /\ \A n \in 1 .. Cardinality(V) : \E x \in V : Cardinality({y \in V : y < x}) = n - 1
<1> DEFINE L(x) == {y \in V : y < x}
           place == [x \in V |-> Cardinality(L(x)) + 1]
           T == 1 .. Cardinality(V)
<1>1. Cardinality(V) \in Nat
  BY FS_CardinalityType
<1>2. ASSUME NEW x \in V
      PROVE  IsFiniteSet(L(x)) /\ Cardinality(L(x)) \in Nat /\ Cardinality(L(x)) < Cardinality(V)
  <2>1. L(x) \in SUBSET V /\ L(x) # V
    OBVIOUS
  <2> HIDE DEF L
  <2>2. IsFiniteSet(L(x)) /\ Cardinality(L(x)) <= Cardinality(V)
        /\ (Cardinality(L(x)) = Cardinality(V) => L(x) = V)
    BY <2>1, FS_Subset
  <2>3. Cardinality(L(x)) \in Nat
    BY <2>2, FS_CardinalityType
  <2> QED
    BY <1>1, <2>1, <2>2, <2>3
<1>3. ASSUME NEW x \in V, NEW y \in V, x < y PROVE Cardinality(L(x)) < Cardinality(L(y))
  <2>1. L(x) \in SUBSET L(y) /\ L(x) # L(y)
    <3>1. x \in L(y) /\ x \notin L(x)
      BY <1>3
    <3>2. \A z \in V : z < x => z < y
      BY <1>3
    <3> QED
      BY <3>1, <3>2
  <2>2. IsFiniteSet(L(y)) /\ Cardinality(L(x)) \in Nat /\ Cardinality(L(y)) \in Nat
    BY <1>2
  <2> HIDE DEF L
  <2>3. Cardinality(L(x)) <= Cardinality(L(y)) /\ (Cardinality(L(x)) = Cardinality(L(y)) => L(x) = L(y))
    BY <2>1, <2>2, FS_Subset
  <2> QED
    BY <2>1, <2>2, <2>3
<1>4. place \in Injection(V, T)
  <2>1. \A x \in V : place[x] = Cardinality(L(x)) + 1
    OBVIOUS
  <2>2. ASSUME NEW x \in V PROVE place[x] \in T
    <3>1. Cardinality(L(x)) \in Nat /\ Cardinality(L(x)) < Cardinality(V)
      BY <1>2
    <3> QED
      BY <1>1, <2>1, <3>1
  <2>3. ASSUME NEW x \in V, NEW y \in V, x # y PROVE place[x] # place[y]
    <3>1. x < y \/ y < x
      BY <2>3
    <3>2. Cardinality(L(x)) \in Nat /\ Cardinality(L(y)) \in Nat
      BY <1>2
    <3>3. Cardinality(L(x)) # Cardinality(L(y))
      BY <1>3, <3>1, <3>2
    <3> HIDE DEF place, L
    <3> QED
      BY <2>1, <3>2, <3>3
  <2>4. place \in [V -> T]
    BY <2>2
  <2> HIDE DEF place, T, L
  <2> QED
    BY <2>3, <2>4 DEF Injection, IsInjective
<1>5. IsFiniteSet(T) /\ Cardinality(T) = Cardinality(V)
  <2>1. 1 \in Int /\ Cardinality(V) \in Int
    BY <1>1
  <2>2. IsFiniteSet(T) /\ Cardinality(T) = IF 1 > Cardinality(V) THEN 0 ELSE Cardinality(V) - 1 + 1
    BY <2>1, FS_Interval
  <2> QED
    BY <1>1, <2>2
<1>6. place \in Surjection(V, T)
  BY <1>4, <1>5, FS_Injection
<1>7. \A n \in T : \E x \in V : place[x] = n
  <2> HIDE DEF place, T
  <2> QED
    BY <1>6 DEF Surjection
<1>8. ASSUME NEW n \in T PROVE \E x \in V : Cardinality(L(x)) = n - 1
  <2>1. PICK x \in V : place[x] = n
    BY <1>7
  <2>2. Cardinality(L(x)) + 1 = n /\ Cardinality(L(x)) \in Nat
    BY <1>2, <2>1
  <2>3. Cardinality(L(x)) = n - 1
    BY <1>1, <2>2
  <2> QED
    BY <2>3
<1>9. ASSUME NEW x \in V PROVE Cardinality(L(x)) + 1 \in 1 .. Cardinality(V)
  <2>1. Cardinality(L(x)) \in Nat /\ Cardinality(L(x)) < Cardinality(V)
    BY <1>2
  <2> QED
    BY <1>1, <2>1
<1> QED
  BY <1>1, <1>3, <1>8, <1>9

(* The entries it takes are those of files, each once.                      *)
LEMMA Taken ==
  ASSUME CardOK, Holds(heap, call.buf, Root)
  PROVE  /\ Valid \in SUBSET Nat /\ IsFiniteSet(Valid)
         /\ \A k \in Valid : /\ Entry(k).name \in Files /\ InFirst(Entry(k).name)
                             /\ card.slot[Entry(k).name] = k
         /\ \A f \in Files : InFirst(f) => card.slot[f] \in Valid /\ Entry(card.slot[f]).name = f
<1>1. S \in Nat /\ S > 0 /\ S = sec_per_cluster
  BY Constants
<1>2. NDirents = S
  <2>1. get_cluster_chain_length(FirstCluster(Root)) = 1
    BY Chained DEF Objects
  <2> QED
    BY <1>1, <2>1 DEF NDirents
<1>3. Valid = {k \in 1 .. S : ~ Skipped(Entry(k))}
  BY <1>2 DEF Valid
<1>4. Valid \in SUBSET Nat /\ IsFiniteSet(Valid)
  <2>1. IsFiniteSet(1 .. S)
    BY <1>1, FS_Interval
  <2>2. Valid \in SUBSET (1 .. S)
    BY <1>3
  <2>3. IsFiniteSet(Valid)
    BY <2>1, <2>2, FS_Subset
  <2> QED
    BY <1>1, <2>2, <2>3
<1>5. ASSUME NEW k \in Valid
      PROVE  /\ Entry(k).name \in Files /\ InFirst(Entry(k).name)
             /\ card.slot[Entry(k).name] = k
  <2>1. k \in 1 .. S /\ k \in Nat /\ k # 0 /\ Entry(k) = Dirent(k) /\ ~ Skipped(Dirent(k))
    BY <1>1, <1>3, Entries
  <2>2. PICK f \in Files : card.slot[f] = k
    <3>1. SUFFICES ASSUME \A f \in Files : card.slot[f] # k PROVE Skipped(Dirent(k))
      BY <2>1
    <3>2. Dirent(k).attr \in {"free", "label"}
      BY <3>1 DEF Dirent, Unused
    <3> QED
      BY <3>2 DEF Skipped
  <2>3. Dirent(k) = Of(f)
    BY <2>1, <2>2, DirentOf
  <2>4. Entry(k).name = f
    BY <2>1, <2>3 DEF Of
  <2> QED
    BY <1>1, <2>1, <2>2, <2>4 DEF InFirst
<1>6. ASSUME NEW f \in Files, InFirst(f)
      PROVE  card.slot[f] \in Valid /\ Entry(card.slot[f]).name = f
  <2>1. card.slot[f] \in 1 .. S /\ card.slot[f] # 0
    BY <1>1, <1>6 DEF InFirst
  <2>2. Entry(card.slot[f]) = Of(f)
    BY <2>1, DirentOf, Entries
  <2>3. ~ Skipped(Entry(card.slot[f])) /\ Entry(card.slot[f]).name = f
    BY <2>2 DEF Of, Skipped
  <2> QED
    BY <1>3, <2>1, <2>3
<1> QED
  BY <1>4, <1>5, <1>6

LEMMA ListLists ==
  ASSUME FatInv, list
  PROVE  ListsFirst'
<1>1. /\ CardOK /\ call \in Calls /\ Steps[call.fn][call.pc] = "list"
      /\ Working(call, heap, brk, files) /\ Obj(call) = Root
  <2>1. /\ CardOK /\ call \in Calls /\ call.fn \in {"readdir", "read_function"}
        /\ call.pc \in 1 .. Len(Steps[call.fn]) /\ Steps[call.fn][call.pc] = "list"
        /\ Working(call, heap, brk, files)
    BY Busy DEF list
  <2>2. call.fn = "readdir"
    BY <2>1, Table
  <2> QED
    BY <2>1, <2>2 DEF Obj
<1>2. Holds(heap, call.buf, Root)
  BY <1>1 DEF Working
<1> DEFINE V == Valid
           at(n) == CHOOSE k \in V : pi_dirent_index(k) = n - 1
<1>3. /\ V \in SUBSET Nat /\ IsFiniteSet(V)
      /\ \A k \in V : /\ Entry(k).name \in Files /\ InFirst(Entry(k).name)
                      /\ card.slot[Entry(k).name] = k
      /\ \A f \in Files : InFirst(f) => card.slot[f] \in V /\ Entry(card.slot[f]).name = f
  BY <1>1, <1>2, Taken
<1>4. \A k : pi_dirent_index(k) = Cardinality({j \in V : j < k})
  BY DEF pi_dirent_index
<1>5. listing' = [n \in 1 .. Cardinality(V) |-> Entry(at(n)).name]
  BY DEF list
<1>6. card' = card /\ \A f : InFirst(f)' = InFirst(f)
  BY DEF list, InFirst
<1> HIDE DEF V
<1>7. /\ Cardinality(V) \in Nat
      /\ \A x \in V : pi_dirent_index(x) + 1 \in 1 .. Cardinality(V)
      /\ \A x, y \in V : x < y => pi_dirent_index(x) < pi_dirent_index(y)
      /\ \A n \in 1 .. Cardinality(V) : \E x \in V : pi_dirent_index(x) = n - 1
  BY <1>3, <1>4, Places
<1>8. ASSUME NEW n \in 1 .. Cardinality(V) PROVE at(n) \in V /\ pi_dirent_index(at(n)) = n - 1
  BY <1>7
<1> HIDE DEF at
<1>9. /\ DOMAIN listing' = 1 .. Cardinality(V)
      /\ \A n \in 1 .. Cardinality(V) : listing'[n] = Entry(at(n)).name
  BY <1>5
<1>10. ASSUME NEW i \in 1 .. Cardinality(V), NEW j \in 1 .. Cardinality(V), i < j
       PROVE  card.slot[listing'[i]] < card.slot[listing'[j]]
  <2>1. card.slot[listing'[i]] = at(i) /\ card.slot[listing'[j]] = at(j)
    BY <1>3, <1>8, <1>9
  <2>2. at(i) \in V /\ at(j) \in V /\ at(i) \in Nat /\ at(j) \in Nat
    BY <1>3, <1>8
  <2>3. pi_dirent_index(at(i)) = i - 1 /\ pi_dirent_index(at(j)) = j - 1
    BY <1>8
  <2>4. at(i) # at(j)
    BY <1>7, <1>10, <2>3
  <2>5. ~ at(j) < at(i)
    <3>1. SUFFICES ASSUME at(j) < at(i) PROVE FALSE
      OBVIOUS
    <3>2. pi_dirent_index(at(j)) < pi_dirent_index(at(i))
      BY <1>7, <2>2, <3>1
    <3>3. j - 1 < i - 1
      BY <2>3, <3>2
    <3> QED
      BY <1>7, <1>10, <3>3
  <2> QED
    BY <2>1, <2>2, <2>4, <2>5
<1>11. ASSUME NEW n \in 1 .. Cardinality(V) PROVE listing'[n] \in Files /\ InFirst(listing'[n])
  BY <1>3, <1>8, <1>9
<1>12. ASSUME NEW f \in Files, InFirst(f) PROVE \E n \in 1 .. Cardinality(V) : listing'[n] = f
  <2> DEFINE k == card.slot[f]
             n == pi_dirent_index(k) + 1
  <2>1. k \in V /\ Entry(k).name = f
    BY <1>3, <1>12
  <2> HIDE DEF k
  <2>2. n \in 1 .. Cardinality(V)
    BY <1>7, <2>1
  <2> HIDE DEF n
  <2>3. at(n) \in V /\ pi_dirent_index(at(n)) = n - 1
    BY <1>8, <2>2
  <2>4. pi_dirent_index(at(n)) + 1 = pi_dirent_index(k) + 1
    BY <2>2, <2>3, <1>7 DEF n
  <2>5. pi_dirent_index(at(n)) \in Int /\ pi_dirent_index(k) \in Int
    <3>1. n - 1 \in Int
      BY <1>7, <2>2
    <3>2. \E x \in V : pi_dirent_index(k) = pi_dirent_index(x) /\ pi_dirent_index(x) \in Int
      <4>1. {j \in V : j < k} \in SUBSET V
        OBVIOUS
      <4>2. IsFiniteSet({j \in V : j < k})
        BY <1>3, <4>1, FS_Subset
      <4>3. pi_dirent_index(k) \in Nat
        BY <1>4, <4>2, FS_CardinalityType
      <4> QED
        BY <2>1, <4>3
    <3> QED
      BY <2>3, <3>1, <3>2
  <2>6. pi_dirent_index(at(n)) = pi_dirent_index(k)
    BY <2>4, <2>5
  <2>7. at(n) \in Nat /\ k \in Nat
    BY <1>3, <2>1, <2>3
  <2>8. at(n) = k
    <3>1. ~ at(n) < k
      BY <1>7, <2>1, <2>3, <2>5, <2>6
    <3>2. ~ k < at(n)
      BY <1>7, <2>1, <2>3, <2>5, <2>6
    <3> QED
      BY <2>7, <3>1, <3>2
  <2> QED
    BY <1>9, <2>1, <2>2, <2>8
<1>13. ToSet(listing') = {f \in Files : InFirst(f)}
  BY <1>9, <1>11, <1>12 DEF ToSet
<1> QED
  BY <1>6, <1>9, <1>10, <1>13 DEF ListsFirst

(* A listing names the files that have their entry in the first cluster of  *)
(* the directory, each once and in the order of the entries, for any card   *)
(* and whatever the calls before left in memory.                            *)
THEOREM ListingsRight == Spec => []ListsFirst
<1>1. Init => ListsFirst
  BY DEF Init, ListsFirst
<1>2. FatInv /\ ListsFirst /\ [Next]_vars => ListsFirst'
  <2> SUFFICES ASSUME FatInv, ListsFirst, [Next]_vars PROVE ListsFirst'
    OBVIOUS
  <2>1. CASE list
    BY <2>1, ListLists
  <2>2. CASE UNCHANGED <<card, listing>>
    BY <2>2 DEF ListsFirst, InFirst
  <2>3. CASE Step /\ ~ list
    <3>1. UNCHANGED <<card, listing>>
      BY <2>3 DEF Step, fat32_mk, get_dirents, Buffer, read_cluster_chain, fat32_stat, demand,
                  length, file, panic, pi_sd_read_fails
    <3> QED
      BY <2>2, <3>1
  <2>4. ASSUME NEW fn, NEW f, Call(fn, f) PROVE ListsFirst'
    BY <2>2, <2>4 DEF Call
  <2>5. CASE UNCHANGED vars
    BY <2>2, <2>5 DEF vars
  <2> QED
    BY <2>1, <2>3, <2>4, <2>5 DEF Next
<1> QED
  BY <1>1, <1>2, FatAlways, PTL DEF Spec
=============================================================================
