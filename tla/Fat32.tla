-------------------------------- MODULE Fat32 --------------------------------
(***************************************************************************)
(* The FAT32 reader of the program server: mbr_read, fat32_mk,             *)
(* fat32_readdir, fat32_stat and fat32_read (server-client-sw_uart/lib),   *)
(* called one after the other as read_function of server.c does.           *)
(*                                                                         *)
(* A cell of memory holds a sector of the card, or one of the small blocks *)
(* the reader allocates.  kmalloc hands out cells one after the other and  *)
(* never takes one back, so what is written past the end of a block lands  *)
(* in the blocks allocated next.  A sector of a directory holds one entry; *)
(* sizes of files are in sectors, and files fill their clusters.           *)
(*                                                                         *)
(* The card is any that a formatter and a few copies of files could have   *)
(* made: chains that are disjoint and end, and a directory that names each *)
(* file once.  The reader does not write to it.                            *)
(***************************************************************************)
EXTENDS Integers, Sequences, FiniteSetsExt, SequencesExt

CONSTANTS
  Files,            (* names of files                                       *)
  Root,             (* the root directory                                   *)
  None,
  Programs,         (* the files that are programs                          *)
  Clusters,         (* numbers of the clusters, from 2 on                   *)
  first_cluster,    (* the one the directory begins with                    *)
  MaxChain,         (* bound: clusters of a file or of the directory        *)
  sec_per_cluster, lba_start, reserved_area_nsec, nsec_per_fat,
  HeapSize, Room    (* bounds: cells of memory, and cells left when a call  *)
                    (* is made                                              *)

ASSUME Fat32Assumption ==
  /\ {Root, None} \cap Files = {} /\ Root # None /\ Programs \subseteq Files
  /\ Clusters \subseteq 2 .. 2^28 - 17 /\ first_cluster \in Clusters
  /\ {MaxChain, sec_per_cluster, nsec_per_fat} \subseteq Nat \ {0}
  /\ {lba_start, reserved_area_nsec, HeapSize, Room} \subseteq Nat
  /\ Room >= 6 * sec_per_cluster + 3        (* what a call takes at most   *)

VARIABLES
  card,         (* [chain, slot]: the clusters of each file and of the      *)
                (* directory; the entry of each file, 0 for none            *)
  heap,
  brk,          (* the first free cell                                      *)
  init_p,
  call,         (* [fn, name, pc, buf, num, data, found]: what is called    *)
                (* and the step it is at, 0 for none; the last buffer, the  *)
                (* cluster read next and where it goes; what fat32_stat     *)
                (* returned                                                 *)
  files,        (* the pi_file_ts returned                                  *)
  listing,      (* the last pi_directory_t returned, or <<Root>>            *)
  died,
  read_failed   (* history: it died of a read of the card that failed       *)

vars == <<card, heap, brk, init_p, call, files, listing, died, read_failed>>

------------------------------------------------------------------------------
(* The card, as it is written.                                              *)

Objects == Files \cup {Root}

FREE_CLUSTER == 0
LAST_CLUSTER == 2^28 - 8
Size(f) == Len(card.chain[f]) * sec_per_cluster

FirstCluster(o) == IF card.chain[o] = <<>> THEN 0 ELSE card.chain[o][1]

Unused == [name |-> None, attr |-> "free", cluster_id |-> 0, nbytes |-> 0]

(* Entry s of the directory: [name, attr, cluster_id, nbytes].  The first   *)
(* that is no file's is the volume label.                                   *)
Dirent(s) ==
  IF \E f \in Files : card.slot[f] = s
    THEN LET f == CHOOSE g \in Files : card.slot[g] = s
         IN  [name |-> f, attr |-> "file", cluster_id |-> FirstCluster(f), nbytes |-> Size(f)]
    ELSE IF \A r \in 1 .. s - 1 : \E f \in Files : card.slot[f] = r
      THEN [Unused EXCEPT !.attr = "label"]
    ELSE Unused

(* Entry c of the FAT. *)
fat(c) ==
  LET at == {a \in Objects \X (1 .. MaxChain) :
               a[2] \in DOMAIN card.chain[a[1]] /\ card.chain[a[1]][a[2]] = c}
  IN  IF at = {} THEN FREE_CLUSTER
      ELSE LET a == CHOOSE a \in at : TRUE
           IN  IF a[2] = Len(card.chain[a[1]]) THEN LAST_CLUSTER ELSE card.chain[a[1]][a[2] + 1]

Cell(o, i) == [of |-> o, i |-> i]
Zero == Cell(None, 0)

(* What sector lba holds: the clusters come after the two FATs.  at are the *)
(* places [object, cluster, sector of the cluster] it may be.               *)
Sector(lba) ==
  LET at == {a \in Objects \X (1 .. MaxChain) \X (1 .. sec_per_cluster) :
               /\ a[2] \in DOMAIN card.chain[a[1]]
               /\ lba = lba_start + reserved_area_nsec + 2 * nsec_per_fat
                        + (card.chain[a[1]][a[2]] - 2) * sec_per_cluster + (a[3] - 1)}
  IN  IF at = {} THEN Zero
      ELSE LET a == CHOOSE a \in at : TRUE IN Cell(a[1], (a[2] - 1) * sec_per_cluster + a[3])

------------------------------------------------------------------------------
(* The helpers of the reader. *)

fat32_fat_entry_type(x) ==
  LET y == x % 2^28
  IN  CASE y = 0 -> "FREE_CLUSTER"
        [] y = 1 -> "RESERVED_CLUSTER"
        [] y \in 2 .. 2^28 - 17 -> "USED_CLUSTER"
        [] y = 2^28 - 9 -> "BAD_CLUSTER"
        [] y \in 2^28 - 8 .. 2^28 - 1 -> "LAST_CLUSTER"
        [] OTHER -> "panic"

(* Mutant: the numbers are taken to begin at 0. *)
cluster_to_lba_FromZero(num) ==
  lba_start + reserved_area_nsec + 2 * nsec_per_fat + num * sec_per_cluster

cluster_to_lba(num) ==
  lba_start + reserved_area_nsec + 2 * nsec_per_fat + (num - 2) * sec_per_cluster

(* The loop goes on while the number of the cluster, not its entry, has the *)
(* type of the last: no cluster has, and every chain has length 1.  0 in    *)
(* the second place is the read past the FAT the loop would make.           *)
get_cluster_chain_length(num) ==
  IF fat32_fat_entry_type(num) = "LAST_CLUSTER" THEN 0 ELSE 1

(* kmalloc of n cells, which are zeroed. *)
kmalloc(n) ==
  /\ heap' = [a \in DOMAIN heap |-> IF a \in brk .. brk + n - 1 THEN Zero ELSE heap[a]]
  /\ brk' = brk + n

(* A cluster, from sector lba on, is read to cell to.                       *)
pi_sd_read(to, lba) ==
  heap' = [a \in DOMAIN heap |-> IF a \in to .. to + sec_per_cluster - 1
                                   THEN Sector(lba + (a - to)) ELSE heap[a]]

(* The card does not give what it was asked for, and pi_sd_read panics;     *)
(* what it has written by then nobody looks at.                             *)
pi_sd_read_fails ==
  /\ died' = TRUE /\ read_failed' = TRUE
  /\ UNCHANGED <<card, heap, brk, init_p, call, files, listing>>

(* Mutant: deleted entries are not skipped. *)
Skipped_NotFree(e) == e.attr \in {"lfn", "label"}

(* fat32_dirent_free, an LFN or a volume label. *)
Skipped(e) == e.attr \in {"free", "lfn", "label"}

(* The entries in the buffer just read, n_bytes of it.                      *)
NDirents == get_cluster_chain_length(FirstCluster(Root)) * sec_per_cluster

Entry(k) ==
  LET cell == heap[call.buf + k - 1]
  IN  IF cell.of = Root THEN Dirent(cell.i) ELSE Unused

Valid == {k \in 1 .. NDirents : ~ Skipped(Entry(k))}

------------------------------------------------------------------------------
(* The server at work.  A call goes through the steps of its function.      *)

panic ==
  /\ died' = TRUE
  /\ UNCHANGED <<card, heap, brk, init_p, call, files, listing, read_failed>>

Steps ==
  [readdir |-> <<"get_dirents", "read_cluster_chain", "list">>,
   read_function |->
     <<"get_dirents", "read_cluster_chain", "stat", "demand",
       "get_dirents", "read_cluster_chain",
       "get_dirents", "read_cluster_chain", "stat",
       "length", "read_cluster_chain", "file">>]

At(step) == ~ died /\ call.pc # 0 /\ Steps[call.fn][call.pc] = step

Done == [call EXCEPT !.pc = IF @ < Len(Steps[call.fn]) THEN @ + 1 ELSE 0]

(* mbr_read and fat32_mk: the MBR, the boot sector, the FS info sector and  *)
(* the FAT are read into blocks; a read may fail, and the first three may   *)
(* not pass their checks.                                                   *)
fat32_mk ==
  /\ ~ died /\ ~ init_p
  /\ \/ panic
     \/ /\ kmalloc(3 + nsec_per_fat)
        /\ init_p' = TRUE
        /\ UNCHANGED <<card, call, files, listing, died, read_failed>>

Call(fn, name) ==
  /\ ~ died /\ init_p /\ call.pc = 0 /\ brk + Room <= HeapSize + 1
  /\ call' = [call EXCEPT !.fn = fn, !.name = name, !.pc = 1]
  /\ UNCHANGED <<card, heap, brk, init_p, files, listing, died, read_failed>>

(* A buffer for the chain that begins at num. *)
Buffer(num) ==
  /\ kmalloc(get_cluster_chain_length(num) * sec_per_cluster)
  /\ call' = [Done EXCEPT !.buf = brk, !.num = num, !.data = brk]
  /\ UNCHANGED <<card, init_p, files, listing, died, read_failed>>

get_dirents == At("get_dirents") /\ Buffer(FirstCluster(Root))

(* Mutant: the chain is left when the next cluster is the last. *)
read_cluster_chain_Short ==
  /\ At("read_cluster_chain")
  /\ IF fat32_fat_entry_type(call.num) = "LAST_CLUSTER"
         \/ (call.num >= 2 /\ fat32_fat_entry_type(fat(call.num)) = "LAST_CLUSTER")
       THEN call' = Done /\ UNCHANGED <<card, heap, brk, init_p, files, listing, died, read_failed>>
     ELSE IF call.num < 2 THEN panic
     ELSE \/ pi_sd_read_fails
          \/ /\ pi_sd_read(call.data, cluster_to_lba(call.num))
             /\ call' = [call EXCEPT !.data = @ + sec_per_cluster, !.num = fat(@)]
             /\ UNCHANGED <<card, brk, init_p, files, listing, died, read_failed>>

(* Mutant: the cluster is never left. *)
read_cluster_chain_Stay ==
  /\ At("read_cluster_chain")
  /\ IF fat32_fat_entry_type(call.num) = "LAST_CLUSTER"
       THEN call' = Done /\ UNCHANGED <<card, heap, brk, init_p, files, listing, died, read_failed>>
     ELSE IF call.num < 2 THEN panic
     ELSE \/ pi_sd_read_fails
          \/ /\ pi_sd_read(call.data, cluster_to_lba(call.num))
             /\ UNCHANGED <<card, brk, init_p, files, listing, died, read_failed, call>>

(* One round of the loop of read_cluster_chain.                             *)
read_cluster_chain ==
  /\ At("read_cluster_chain")
  /\ IF fat32_fat_entry_type(call.num) = "LAST_CLUSTER"
       THEN call' = Done /\ UNCHANGED <<card, heap, brk, init_p, files, listing, died, read_failed>>
     ELSE IF call.num < 2 THEN panic
     ELSE \/ pi_sd_read_fails
          \/ /\ pi_sd_read(call.data, cluster_to_lba(call.num))
             /\ call' = [call EXCEPT !.data = @ + sec_per_cluster, !.num = fat(@)]
             /\ UNCHANGED <<card, brk, init_p, files, listing, died, read_failed>>

(* The rest of fat32_stat: a block for the answer, and one for the name of  *)
(* every entry up to the one looked for.                                    *)
fat32_stat ==
  LET hits == {k \in Valid : Entry(k).name = call.name}
  IN  /\ At("stat")
      /\ kmalloc(1 + Cardinality({k \in Valid : \A h \in hits : k <= h}))
      /\ call' = [Done EXCEPT !.found = IF hits = {} THEN <<>> ELSE <<Entry(Min(hits))>>]
      /\ UNCHANGED <<card, init_p, files, listing, died, read_failed>>

(* demand(d, "%s not found!").                                              *)
demand ==
  /\ At("demand")
  /\ IF call.found = <<>> THEN panic
     ELSE call' = Done /\ UNCHANGED <<card, heap, brk, init_p, files, listing, died, read_failed>>

(* Where fat32_readdir puts entry k: after the ones it took before.         *)
pi_dirent_index(k) == Cardinality({j \in Valid : j < k})

(* fat32_readdir: a block for every entry there may be, in place of the     *)
(* cells of their number.                                                   *)
list ==
  /\ At("list")
  /\ kmalloc(sec_per_cluster)
  /\ listing' = [n \in 1 .. Cardinality(Valid) |->
                   Entry(CHOOSE k \in Valid : pi_dirent_index(k) = n - 1).name]
  /\ call' = Done
  /\ UNCHANGED <<card, init_p, files, died, read_failed>>

length == At("length") /\ Buffer(call.found[1].cluster_id)

(* Mutant: the block of the file is the one its data end in. *)
file_Last ==
  /\ At("file")
  /\ IF heap[call.buf] \notin {Cell(f, 1) : f \in Programs} THEN panic
     ELSE /\ heap' = [heap EXCEPT ![brk - 1] = Zero]
          /\ brk' = brk
          /\ files' = files \cup
               {[name |-> call.name, data |-> call.buf, n_data |-> call.found[1].nbytes,
                 n_alloc |-> get_cluster_chain_length(call.found[1].cluster_id) * sec_per_cluster]}
          /\ call' = Done
          /\ UNCHANGED <<card, init_p, listing, died, read_failed>>

(* The pi_file_t, and the checks of read_function: a program begins with a  *)
(* cookie and the address 0x80000.                                          *)
file ==
  /\ At("file")
  /\ IF heap[call.buf] \notin {Cell(f, 1) : f \in Programs} THEN panic
     ELSE /\ kmalloc(1)
          /\ files' = files \cup
               {[name |-> call.name, data |-> call.buf, n_data |-> call.found[1].nbytes,
                 n_alloc |-> get_cluster_chain_length(call.found[1].cluster_id) * sec_per_cluster]}
          /\ call' = Done
          /\ UNCHANGED <<card, init_p, listing, died, read_failed>>

------------------------------------------------------------------------------
Chains ==
  {ch \in [Objects -> UNION {[1 .. n -> Clusters] : n \in 0 .. MaxChain}] :
     /\ ch[Root] # <<>> /\ ch[Root][1] = first_cluster
     /\ \A o, p \in Objects : \A i \in DOMAIN ch[o], j \in DOMAIN ch[p] :
          ch[o][i] = ch[p][j] => o = p /\ i = j}

(* A file without an entry has no clusters.                                 *)
Slots(ch) ==
  {s \in [Files -> 0 .. Len(ch[Root]) * sec_per_cluster] :
     \A f, g \in Files : /\ s[f] = 0 => ch[f] = <<>>
                         /\ s[f] = s[g] /\ s[f] # 0 => f = g}

Init ==
  /\ \E ch \in Chains : \E s \in Slots(ch) : card = [chain |-> ch, slot |-> s]
  /\ heap = [a \in 1 .. HeapSize |-> Zero]
  /\ brk = 1
  /\ init_p = FALSE
  /\ call = [fn |-> "readdir", name |-> None, pc |-> 0, buf |-> 1, num |-> 0,
             data |-> 1, found |-> <<>>]
  /\ files = {}
  /\ listing = <<Root>>
  /\ died = FALSE
  /\ read_failed = FALSE

Step ==
  fat32_mk \/ get_dirents \/ read_cluster_chain \/ fat32_stat \/ demand \/ list \/ length \/ file

Next ==
  \/ Step
  \/ Call("readdir", None)
  \/ \E f \in Files : Call("read_function", f)

Spec == Init /\ [][Next]_vars

(* The processor runs the server.  Whenever it takes a step, one in which   *)
(* no read fails is possible: that no call ends only because a read of the  *)
(* card fails at last is not what fairness is to say.                       *)
FairSpec == Spec /\ WF_vars(Step /\ ~ read_failed')

------------------------------------------------------------------------------
Least(m, n) == IF m < n THEN m ELSE n

(* The first cluster of every file read is right, and stays right: the      *)
(* later calls, and the chains they copy past the end of their own buffers, *)
(* never touch it.  (fat32_read, read_cluster_chain.)                       *)
FirstClusterKept ==
  \A f \in files : \A i \in 1 .. Least(f.n_data, sec_per_cluster) :
    heap[f.data + i - 1] = Cell(f.name, i)

(* The data of a file fit what was allocated, "a buffer large enough to     *)
(* hold the whole file" (fat32.c:264).                                      *)
WholeFile == \A f \in files : f.n_data <= f.n_alloc

InFirst(f) == card.slot[f] \in 1 .. sec_per_cluster

(* The server only stops for a card that is not valid or a read that fails, *)
(* and for a name that is not among the entries of the directory's first    *)
(* cluster, is an empty file's or no program's; if the card can be read, no *)
(* chain stops it in the middle.                                            *)
DiesOnlyOf ==
  died =>
    \/ ~ init_p
    \/ read_failed
    \/ /\ call.fn = "read_function"
       /\ ~ InFirst(call.name) \/ card.chain[call.name] = <<>> \/ call.name \notin Programs

(* A listing names, whatever was read before, the files that have their     *)
(* entry in the first cluster of the directory, in the order of the         *)
(* entries.  It should name them all (fat32.c:157): those in a later        *)
(* cluster are missing from every listing.                                  *)
ListsFirst ==
  listing # <<Root>> =>
    /\ ToSet(listing) = {f \in Files : InFirst(f)}
    /\ \A i, j \in DOMAIN listing : i < j => card.slot[listing[i]] < card.slot[listing[j]]

(* Every call ends, or the server stops: the chains end.                    *)
Returns == [](call.pc # 0 => <>(call.pc = 0 \/ died))
==============================================================================
