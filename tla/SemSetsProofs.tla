--------------------------- MODULE SemSetsProofs ----------------------------
(***************************************************************************)
(* Proofs about SemSets, for every set of addresses, number of slots and   *)
(* number of restarts.                                                     *)
(***************************************************************************)
EXTENDS SemSets, SequenceTheorems, FiniteSetTheorems, TLAPS

(* A non-empty set of naturals has a least element.                        *)
LEMMA Least ==
  ASSUME NEW T, T \subseteq Nat, T # {}
  PROVE  \E m \in T : \A k \in T : m <= k
<1>1. IsWellFoundedOn(OpToRel(<, Nat), Nat)
  BY NatLessThanWellFounded
<1>2. PICK m \in T : \A k \in T : <<k, m>> \notin OpToRel(<, Nat)
  BY <1>1, WFMin
<1>3. \A k \in T : ~(k < m)
  BY <1>2 DEF OpToRel
<1> QED
  BY <1>3

(* The recursion of ToInt over the bits of a word: there is a function     *)
(* that satisfies it, and it has integer values.                           *)
LEMMA HornerExists ==
  ASSUME NEW bit, bit \in [0..31 -> {0, 1}]
  PROVE  \E f : f = [b \in 0..31 |-> IF b = 0 THEN 0 ELSE 2 * f[b - 1] + bit[b]]
<1> DEFINE Partial(n, f) ==
             \A b \in 0..n : f[b] = IF b = 0 THEN 0 ELSE 2 * f[b - 1] + bit[b]
           Has(n) == \E f \in [0..n -> Int] : Partial(n, f)
           T == {n \in 0..31 : ~Has(n)}
<1>0. Has(0)
  <2> DEFINE z == [b \in 0..0 |-> 0]
  <2>1. z \in [0..0 -> Int] /\ \A b \in 0..0 : b = 0 /\ z[b] = 0
    OBVIOUS
  <2> HIDE DEF z
  <2> QED
    BY <2>1
<1> HIDE DEF Has
<1>1. ASSUME NEW m \in 1..31, Has(m - 1) PROVE Has(m)
  <2>0. m \in 0..31 /\ m - 1 \in 0..(m - 1)
    OBVIOUS
  <2>1. PICK f \in [0..(m - 1) -> Int] : Partial(m - 1, f)
    BY <1>1 DEF Has
  <2>2. PICK v \in Int : v = 2 * f[m - 1] + bit[m]
    <3>1. bit[m] \in {0, 1}
      BY <2>0
    <3>2. f[m - 1] \in Int
      BY <2>0, <2>1
    <3> QED
      BY <3>1, <3>2
  <2> DEFINE g == [b \in 0..m |-> IF b = m THEN v ELSE f[b]]
  <2>3. \A b \in 0..m : b # m => b \in 0..(m - 1)
    OBVIOUS
  <2>4. \A b \in 0..m : g[b] \in Int
    BY <2>1, <2>2, <2>3
  <2>5. g \in [0..m -> Int]
    BY <2>4
  <2>6. Partial(m, g)
    <3>1. g[m] = 2 * g[m - 1] + bit[m] /\ m # 0
      BY <2>2
    <3>2. ASSUME NEW b \in 0..(m - 1)
          PROVE  g[b] = IF b = 0 THEN 0 ELSE 2 * g[b - 1] + bit[b]
      <4>1. b \in 0..m /\ b # m /\ g[b] = f[b]
        OBVIOUS
      <4>2. b # 0 => b - 1 \in 0..m /\ b - 1 # m /\ g[b - 1] = f[b - 1]
        OBVIOUS
      <4> QED
        BY <2>1, <4>1, <4>2
    <3> QED
      BY <2>3, <3>1, <3>2
  <2> QED
    BY <2>5, <2>6 DEF Has
<1>2. T = {}
  <2> SUFFICES ASSUME T # {} PROVE FALSE
    OBVIOUS
  <2>1. PICK m \in T : \A k \in T : m <= k
    <3>1. T \subseteq Nat
      OBVIOUS
    <3> HIDE DEF T
    <3> QED
      BY <3>1, Least
  <2>2. m \in 1..31 /\ m - 1 \in 0..31 /\ ~Has(m) /\ ~(m <= m - 1)
    BY <1>0, <2>1
  <2>3. Has(m - 1)
    BY <2>1, <2>2
  <2> QED
    BY <1>1, <2>2, <2>3
<1>3. Has(31)
  <2>1. 31 \in 0..31
    OBVIOUS
  <2> QED
    BY <1>2, <2>1
<1>4. PICK f \in [0..31 -> Int] : Partial(31, f)
  BY <1>3 DEF Has
<1>5. f = [b \in 0..31 |-> IF b = 0 THEN 0 ELSE 2 * f[b - 1] + bit[b]]
  BY <1>4
<1> QED
  BY <1>5

LEMMA HornerType ==
  ASSUME NEW bit, bit \in [0..31 -> {0, 1}], NEW f,
         f = [b \in 0..31 |-> IF b = 0 THEN 0 ELSE 2 * f[b - 1] + bit[b]]
  PROVE  f[31] \in Int
<1>1. \A b \in 0..31 : f[b] = IF b = 0 THEN 0 ELSE 2 * f[b - 1] + bit[b]
  OBVIOUS
<1> DEFINE U == {n \in 0..31 : f[n] \notin Int}
<1>2. ASSUME NEW m \in U, \A k \in U : m <= k PROVE FALSE
  <2>1. m \in 0..31 /\ f[m] \notin Int
    OBVIOUS
  <2>2. m # 0
    BY <1>1, <2>1
  <2>3. m - 1 \in 0..31 /\ ~(m <= m - 1)
    BY <2>1, <2>2
  <2>4. f[m - 1] \in Int
    BY <1>2, <2>3
  <2>5. bit[m] \in Int
    BY <2>1
  <2>6. f[m] = 2 * f[m - 1] + bit[m]
    BY <1>1, <2>1, <2>2
  <2> QED
    BY <2>1, <2>4, <2>5, <2>6
<1>3. U \subseteq Nat
  OBVIOUS
<1>4. U = {}
  <2> HIDE DEF U
  <2> QED
    BY <1>2, <1>3, Least
<1>5. 31 \in 0..31
  OBVIOUS
<1> QED
  BY <1>4, <1>5

(* hash returns an int.                                                    *)
LEMMA HashInt == client_id \in [Name -> Int]
<1>1. ASSUME NEW w PROVE ToInt(w) \in Int
  <2> DEFINE bit == [b \in 0..31 |-> IF w[31 - b] # w[31] THEN 1 ELSE 0]
             Whole(g) == g = [b \in 0..31 |-> IF b = 0 THEN 0 ELSE 2 * g[b - 1] + bit[b]]
             low == CHOOSE g : Whole(g)
  <2>1. bit \in [0..31 -> {0, 1}]
    OBVIOUS
  <2>2. ToInt(w) = IF w[31] THEN -low[31] - 1 ELSE low[31]
    <3>1. ASSUME NEW g
          PROVE  [b \in 0..31 |-> IF b = 0 THEN 0 ELSE 2 * g[b - 1] + bit[b]] =
                 [b \in 0..31 |-> IF b = 0 THEN 0
                                  ELSE 2 * g[b - 1] + (IF w[31 - b] # w[31] THEN 1 ELSE 0)]
      OBVIOUS
    <3>2. low = CHOOSE g : g = [b \in 0..31 |-> IF b = 0 THEN 0
                                  ELSE 2 * g[b - 1] + (IF w[31 - b] # w[31] THEN 1 ELSE 0)]
      BY <3>1
    <3> HIDE DEF low
    <3> QED
      BY <3>2 DEF ToInt
  <2> HIDE DEF bit
  <2>3. \E g : Whole(g)
    BY <2>1, HornerExists
  <2>4. Whole(low)
    <3> HIDE DEF Whole
    <3> QED
      BY <2>3
  <2> HIDE DEF low
  <2>5. low[31] \in Int
    BY <2>1, <2>4, HornerType
  <2> QED
    BY <2>2, <2>5
<1> QED
  BY <1>1 DEF client_id, hash

(* The keys of the semaphores are not negative.                            *)
LEMMA SemKeyType ==
  ASSUME NEW id \in Int, NEW k \in Sem
  PROVE  sem_key(id, k) \in Nat
<1>1. Quot(id, 2) \in Int /\ Quot(id, 3) \in Int
  BY DEF Quot
<1>2. key_seed(id, Queue(k)) \in Int
  BY <1>1 DEF key_seed
<1>3. PICK a \in Nat : a = Abs(key_seed(id, Queue(k)))
  BY <1>2 DEF Abs
<1>4. a \div 2 \in Nat /\ a \div 20 \in Nat /\ a \div 200 \in Nat
  BY <1>3
<1> QED
  BY <1>3, <1>4 DEF sem_key

-----------------------------------------------------------------------------
(* Types, and what every step relies on                                    *)

SetRec == [key : Nat, val : 0..SemMax, otime : BOOLEAN, live : BOOLEAN, boot : Nat]
RowRec == [client_id : Range(client_id) \cup {0}, asked : BOOLEAN, created : BOOLEAN,
           attached : BOOLEAN, detach : BOOLEAN, sems : Seq(Nat)]
ClientRec == [pc : {"start", "scan", "write", "reserve", "await", "attach", "open", "detach"},
              slot : Slot, opens : 0..Opens, sems : Seq(Nat)]
RunnerRec == [pc : {"service", "semget", "semop", "wait", "publish", "cleanup", "destroy",
                    "clear", "wipe", "free", "exited"},
              i : Slot, sems : Seq(Nat)]

Types ==
  /\ sets \in Seq(SetRec)
  /\ reserved \in [Slot -> BOOLEAN]
  /\ row \in [Slot -> RowRec]
  /\ cl \in [Name -> ClientRec]
  /\ rn \in RunnerRec
  /\ boot \in 0..MaxRestarts
  /\ late \subseteq DOMAIN sets
  /\ clashed \subseteq Name

(* Semids are those of sets made so far.                                   *)
Known ==
  /\ \A s \in DOMAIN sets : sets[s].boot <= boot
  /\ \A i \in Slot : \A k \in DOMAIN row[i].sems : row[i].sems[k] \in DOMAIN sets
  /\ \A n \in Name : \A k \in DOMAIN cl[n].sems : cl[n].sems[k] \in DOMAIN sets
  /\ \A k \in DOMAIN rn.sems : rn.sems[k] \in DOMAIN sets

Serving == rn.pc \in {"semget", "semop", "wait", "publish"}
InUse(i) == reserved[i] /\ row[i].created

(* Where manage_pool is; the set it has just made is nobody else's yet.    *)
RunnerInv ==
  /\ Serving => reserved[rn.i] /\ ~row[rn.i].created /\ row[rn.i].asked
  /\ rn.pc = "semget" => Now < 6
  /\ rn.pc = "semop" =>
       /\ Now \in Sem
       /\ LET s == rn.sems[Now]
          IN  /\ sets[s].val = 0 /\ sets[s].boot = boot
              /\ \A i \in Slot : s \notin Range(row[i].sems)
              /\ \A n \in Name : s \notin Range(cl[n].sems)
  /\ rn.pc = "wait" => Now \in Empties
  /\ rn.pc = "publish" => Now = 6
  /\ rn.pc = "destroy" => Now >= 1
  /\ rn.pc \in {"service", "cleanup", "clear", "wipe", "free"} => rn.sems = << >>

(* One client at a time is in request_slot, at a slot that is free.        *)
Requests ==
  /\ \A m, n \in Name : Requesting(m) /\ Requesting(n) => m = n
  /\ \A n \in Name : cl[n].pc \in Writing => ~reserved[cl[n].slot]
  /\ \A n \in Name : cl[n].pc = "reserve" => ~row[cl[n].slot].created
  /\ \A n \in Name : cl[n].pc = "scan" => cl[n].opens < Opens

RowsServed == \A i \in Slot : InUse(i) => Len(row[i].sems) = 6 /\ row[i].asked

TableInv == Known /\ RunnerInv /\ Requests /\ RowsServed

LEMMA Bounds ==
  /\ SLOT_NUM \in Nat /\ SLOT_NUM >= 1 /\ 0 \in Slot
  /\ \A i \in Slot : (i + 1) % SLOT_NUM \in Slot
  /\ Opens \in Nat /\ SemMax \in Nat /\ SemMax >= 1 /\ MaxRestarts \in Nat
BY SetsAssumption DEF Slot

LEMMA MapSeq ==
  ASSUME NEW S, NEW n \in Nat, NEW f \in [1..n -> S]
  PROVE  f \in Seq(S) /\ Len(f) = n
<1>1. f \in Seq(S)
  BY SeqDef
<1>2. Len(f) \in Nat /\ DOMAIN f = 1..Len(f) /\ DOMAIN f = 1..n
  BY <1>1, LenProperties
<1> QED
  BY <1>1, <1>2

(* What the kernel never changes of a set that it does not remove.         *)
SameSet(s) ==
  /\ sets'[s].key = sets[s].key /\ sets'[s].boot = sets[s].boot
  /\ sets'[s].live = sets[s].live

(* A step that only changes the value of one set.                          *)
LEMMA ValueChanges ==
  ASSUME sets \in Seq(SetRec), NEW s \in DOMAIN sets, NEW v \in 0..SemMax, NEW o \in BOOLEAN,
         sets' = [sets EXCEPT ![s] = [@ EXCEPT !.val = v, !.otime = o]]
  PROVE  /\ sets' \in Seq(SetRec) /\ DOMAIN sets' = DOMAIN sets /\ Len(sets') = Len(sets)
         /\ \A t \in DOMAIN sets : SameSet(t) /\ (t # s => sets'[t] = sets[t])
         /\ sets'[s].val = v /\ sets'[s].otime = o
<1>1. Len(sets) \in Nat /\ DOMAIN sets = 1..Len(sets) /\ \A t \in DOMAIN sets : sets[t] \in SetRec
  BY LenProperties, ElementOfSeq
<1> DEFINE r == [sets[s] EXCEPT !.val = v, !.otime = o]
<1>2. /\ r \in SetRec /\ r.val = v /\ r.otime = o
      /\ r.key = sets[s].key /\ r.boot = sets[s].boot /\ r.live = sets[s].live
  BY <1>1 DEF SetRec
<1> HIDE DEF r
<1>3. sets' = [sets EXCEPT ![s] = r]
  BY DEF r
<1>4. DOMAIN sets' = DOMAIN sets /\ sets'[s] = r /\ \A t \in DOMAIN sets : t # s => sets'[t] = sets[t]
  BY <1>3
<1>5. sets' \in [1..Len(sets) -> SetRec]
  BY <1>1, <1>2, <1>3
<1>6. sets' \in Seq(SetRec) /\ Len(sets') = Len(sets)
  BY <1>1, <1>5, MapSeq
<1>7. \A t \in DOMAIN sets : SameSet(t)
  BY <1>2, <1>4 DEF SameSet
<1> QED
  BY <1>2, <1>4, <1>6, <1>7

LEMMA SetRemoved ==
  ASSUME sets \in Seq(SetRec), NEW s \in DOMAIN sets, sets' = [sets EXCEPT ![s] = Removed]
  PROVE  /\ sets' \in Seq(SetRec) /\ DOMAIN sets' = DOMAIN sets
         /\ ~sets'[s].live /\ sets'[s].boot = 0
         /\ \A t \in DOMAIN sets : t # s => sets'[t] = sets[t]
<1>1. Len(sets) \in Nat /\ DOMAIN sets = 1..Len(sets) /\ \A t \in DOMAIN sets : sets[t] \in SetRec
  BY LenProperties, ElementOfSeq
<1>2. Removed \in SetRec /\ ~Removed.live /\ Removed.boot = 0
  BY Bounds DEF Removed, SetRec
<1>3. sets' \in [1..Len(sets) -> SetRec]
  BY <1>1, <1>2
<1>4. sets' \in Seq(SetRec)
  BY <1>1, <1>3, MapSeq
<1> QED
  BY <1>1, <1>2, <1>4

LEMMA IdsTyped ==
  /\ \A n \in Name : client_id[n] \in Range(client_id) /\ client_id[n] \in Int
  /\ Range(client_id) \subseteq Int
BY HashInt DEF Range

LEMMA NoSems == << >> \in Seq(Nat) /\ DOMAIN << >> = {} /\ Range(<< >>) = {}
BY EmptySeq DEF Range

LEMMA RunnerSems ==
  ASSUME Types
  PROVE  rn.sems \in Seq(Nat) /\ Now \in Nat /\ DOMAIN rn.sems = 1..Now /\ rn.i \in Slot
<1>1. rn.sems \in Seq(Nat) /\ rn.i \in Slot
  BY DEF Types, RunnerRec
<1> QED
  BY <1>1, LenProperties DEF Now

-----------------------------------------------------------------------------
(* What the steps of a client change                                       *)

(* A step of client n that touches no row, no set and not the runner.      *)
OnlyClient(n) ==
  /\ cl' \in [Name -> ClientRec] /\ \A m \in Name \ {n} : cl'[m] = cl[m]
  /\ UNCHANGED <<sets, rn, boot>>

(* Of the rows a step changes only row i.                                  *)
OnlyRow(i) == row' \in [Slot -> RowRec] /\ \A j \in Slot \ {i} : row'[j] = row[j]

LEMMA LockStep ==
  ASSUME Types, NEW n \in Name, RequestLock(n)
  PROVE  /\ Types' /\ OnlyClient(n) /\ UNCHANGED <<reserved, row, late, clashed>>
         /\ cl[n].pc = "start" /\ cl[n].opens < Opens /\ \A m \in Name : ~Requesting(m)
         /\ cl'[n].pc = "scan" /\ cl'[n].slot = 0 /\ cl'[n].opens = cl[n].opens
         /\ cl'[n].sems = cl[n].sems
<1>1. /\ UNCHANGED <<sets, reserved, row, rn, boot, late, clashed>>
      /\ cl \in [Name -> ClientRec] /\ cl[n].pc = "start" /\ cl[n].opens < Opens
      /\ \A m \in Name : ~Requesting(m)
      /\ cl' = [cl EXCEPT ![n].pc = "scan", ![n].slot = 0]
  BY DEF RequestLock, tableVars, auxVars, Types
<1>2. /\ cl' \in [Name -> ClientRec] /\ \A m \in Name \ {n} : cl'[m] = cl[m]
      /\ cl'[n].pc = "scan" /\ cl'[n].slot = 0 /\ cl'[n].opens = cl[n].opens
      /\ cl'[n].sems = cl[n].sems
  BY <1>1, Bounds DEF ClientRec
<1> QED
  BY <1>1, <1>2 DEF Types, OnlyClient

LEMMA SkipStep ==
  ASSUME Types, NEW n \in Name, RequestSkip(n)
  PROVE  /\ Types' /\ OnlyClient(n) /\ UNCHANGED <<reserved, row, late, clashed>>
         /\ cl[n].pc = "scan" /\ reserved[cl[n].slot]
         /\ cl'[n].opens = cl[n].opens /\ cl'[n].sems = cl[n].sems
         /\ \/ cl'[n].pc = "scan" /\ cl'[n].slot = cl[n].slot + 1
            \/ cl'[n].pc = "start" /\ cl'[n].slot = cl[n].slot
<1>1. /\ UNCHANGED <<sets, reserved, row, rn, boot, late, clashed>>
      /\ cl \in [Name -> ClientRec] /\ cl[n].pc = "scan" /\ reserved[cl[n].slot]
      /\ cl' = IF cl[n].slot + 1 \in Slot THEN [cl EXCEPT ![n].slot = @ + 1]
               ELSE [cl EXCEPT ![n].pc = "start"]
  BY DEF RequestSkip, tableVars, auxVars, Types
<1>2. /\ cl' \in [Name -> ClientRec] /\ \A m \in Name \ {n} : cl'[m] = cl[m]
      /\ cl'[n].opens = cl[n].opens /\ cl'[n].sems = cl[n].sems
      /\ \/ cl'[n].pc = "scan" /\ cl'[n].slot = cl[n].slot + 1
         \/ cl'[n].pc = "start" /\ cl'[n].slot = cl[n].slot
  <2>1. CASE cl[n].slot + 1 \in Slot
    BY <1>1, <2>1 DEF ClientRec
  <2>2. CASE cl[n].slot + 1 \notin Slot
    BY <1>1, <2>2 DEF ClientRec
  <2> QED
    BY <2>1, <2>2
<1> QED
  BY <1>1, <1>2 DEF Types, OnlyClient

LEMMA TakeStep ==
  ASSUME Types, TableInv, NEW n \in Name, RequestTake(n)
  PROVE  /\ Types' /\ OnlyClient(n) /\ UNCHANGED <<reserved, late>>
         /\ cl[n].pc = "scan" /\ cl[n].slot \in Slot /\ ~reserved[cl[n].slot]
         /\ cl'[n].pc = "write" /\ cl'[n].slot = cl[n].slot /\ cl'[n].opens >= 1
         /\ cl'[n].sems = cl[n].sems
         /\ OnlyRow(cl[n].slot) /\ row'[cl[n].slot].client_id = client_id[n]
         /\ \A j \in Slot : /\ row'[j].asked = row[j].asked
                            /\ row'[j].created = row[j].created
                            /\ row'[j].attached = row[j].attached
                            /\ row'[j].detach = row[j].detach /\ row'[j].sems = row[j].sems
         /\ clashed' = IF HoldersAt(cl[n].slot, Having) = {} THEN clashed ELSE clashed \cup {n}
<1>0. cl \in [Name -> ClientRec] /\ row \in [Slot -> RowRec]
  BY DEF Types
<1>1. PICK i \in Slot : i = cl[n].slot
  BY <1>0 DEF ClientRec
<1>2. /\ UNCHANGED <<sets, reserved, rn, boot, late>> /\ cl[n].pc = "scan" /\ ~reserved[i]
      /\ row' = [row EXCEPT ![i].client_id = client_id[n]]
      /\ cl' = [cl EXCEPT ![n].pc = "write", ![n].opens = @ + 1]
      /\ clashed' = IF HoldersAt(i, Having) = {} THEN clashed ELSE clashed \cup {n}
  BY <1>1 DEF RequestTake
<1>3. /\ OnlyRow(i) /\ row'[i].client_id = client_id[n]
      /\ \A j \in Slot : /\ row'[j].asked = row[j].asked
                         /\ row'[j].created = row[j].created
                         /\ row'[j].attached = row[j].attached
                         /\ row'[j].detach = row[j].detach /\ row'[j].sems = row[j].sems
  BY <1>0, <1>2, IdsTyped DEF RowRec, OnlyRow
<1>4. /\ OnlyClient(n) /\ cl'[n].pc = "write" /\ cl'[n].slot = i /\ cl'[n].opens >= 1
      /\ cl'[n].sems = cl[n].sems
  <2>1. cl[n].opens + 1 \in 0..Opens /\ cl[n].opens + 1 >= 1
    BY <1>0, <1>2, Bounds DEF TableInv, Requests, ClientRec
  <2> QED
    BY <1>0, <1>1, <1>2, <2>1 DEF OnlyClient, ClientRec
<1>5. clashed' \subseteq Name
  BY <1>2 DEF Types
<1> QED
  BY <1>1, <1>2, <1>3, <1>4, <1>5 DEF Types, OnlyClient, OnlyRow

LEMMA WriteStep ==
  ASSUME Types, NEW n \in Name, RequestWrite(n)
  PROVE  /\ Types' /\ OnlyClient(n) /\ UNCHANGED <<reserved, late, clashed>>
         /\ cl[n].pc = "write" /\ cl[n].slot \in Slot
         /\ cl'[n].pc = "reserve" /\ cl'[n].slot = cl[n].slot
         /\ cl'[n].opens = cl[n].opens /\ cl'[n].sems = cl[n].sems
         /\ OnlyRow(cl[n].slot)
         /\ LET r == row'[cl[n].slot]
            IN  r.asked /\ ~r.created /\ ~r.attached /\ ~r.detach
         /\ \A j \in Slot : row'[j].client_id = row[j].client_id /\ row'[j].sems = row[j].sems
<1>0. cl \in [Name -> ClientRec] /\ row \in [Slot -> RowRec]
  BY DEF Types
<1>1. PICK i \in Slot : i = cl[n].slot
  BY <1>0 DEF ClientRec
<1>2. /\ UNCHANGED <<sets, reserved, rn, boot, late, clashed>> /\ cl[n].pc = "write"
      /\ row' = [row EXCEPT ![i] = [@ EXCEPT !.asked = TRUE, !.detach = FALSE,
                                             !.attached = FALSE, !.created = FALSE]]
      /\ cl' = [cl EXCEPT ![n].pc = "reserve"]
  BY <1>1 DEF RequestWrite, auxVars
<1>3. /\ OnlyRow(i)
      /\ row'[i].asked /\ ~row'[i].created /\ ~row'[i].attached /\ ~row'[i].detach
      /\ \A j \in Slot : row'[j].client_id = row[j].client_id /\ row'[j].sems = row[j].sems
  <2> DEFINE r == [row[i] EXCEPT !.asked = TRUE, !.detach = FALSE, !.attached = FALSE,
                                 !.created = FALSE]
  <2>1. /\ r \in RowRec /\ r.asked /\ ~r.created /\ ~r.attached /\ ~r.detach
        /\ r.client_id = row[i].client_id /\ r.sems = row[i].sems
    BY <1>0 DEF RowRec
  <2>2. row' = [row EXCEPT ![i] = r]
    BY <1>2
  <2> HIDE DEF r
  <2> QED
    BY <1>0, <2>1, <2>2 DEF OnlyRow
<1>4. /\ OnlyClient(n) /\ cl'[n].pc = "reserve" /\ cl'[n].slot = i
      /\ cl'[n].opens = cl[n].opens /\ cl'[n].sems = cl[n].sems
  BY <1>0, <1>1, <1>2 DEF OnlyClient, ClientRec
<1> QED
  BY <1>1, <1>2, <1>3, <1>4 DEF Types, OnlyClient, OnlyRow

LEMMA ReserveStep ==
  ASSUME Types, NEW n \in Name, RequestReserve(n)
  PROVE  /\ Types' /\ OnlyClient(n) /\ UNCHANGED <<row, late, clashed>>
         /\ cl[n].pc = "reserve" /\ cl[n].slot \in Slot
         /\ cl'[n].pc = "await" /\ cl'[n].slot = cl[n].slot
         /\ cl'[n].opens = cl[n].opens /\ cl'[n].sems = cl[n].sems
         /\ reserved'[cl[n].slot]
         /\ \A j \in Slot \ {cl[n].slot} : reserved'[j] = reserved[j]
<1>0. cl \in [Name -> ClientRec] /\ reserved \in [Slot -> BOOLEAN]
  BY DEF Types
<1>1. PICK i \in Slot : i = cl[n].slot
  BY <1>0 DEF ClientRec
<1>2. /\ UNCHANGED <<sets, row, rn, boot, late, clashed>> /\ cl[n].pc = "reserve"
      /\ reserved' = [reserved EXCEPT ![i] = TRUE]
      /\ cl' = [cl EXCEPT ![n].pc = "await"]
  BY <1>1 DEF RequestReserve, auxVars
<1>3. /\ reserved' \in [Slot -> BOOLEAN] /\ reserved'[i]
      /\ \A j \in Slot \ {i} : reserved'[j] = reserved[j]
  BY <1>0, <1>2
<1>4. /\ OnlyClient(n) /\ cl'[n].pc = "await" /\ cl'[n].slot = i
      /\ cl'[n].opens = cl[n].opens /\ cl'[n].sems = cl[n].sems
  BY <1>0, <1>1, <1>2 DEF OnlyClient, ClientRec
<1> QED
  BY <1>1, <1>2, <1>3, <1>4 DEF Types, OnlyClient

LEMMA PairStep ==
  ASSUME Types, NEW n \in Name, OpenPair(n)
  PROVE  /\ Types' /\ OnlyClient(n) /\ UNCHANGED <<reserved, row, late, clashed>>
         /\ cl[n].pc = "await" /\ cl[n].slot \in Slot /\ row[cl[n].slot].created
         /\ cl'[n].pc = "attach" /\ cl'[n].slot = cl[n].slot /\ cl'[n].opens = cl[n].opens
         /\ cl'[n].sems = IF row[cl[n].slot].attached THEN << >> ELSE row[cl[n].slot].sems
<1>0. cl \in [Name -> ClientRec] /\ row \in [Slot -> RowRec]
  BY DEF Types
<1>1. PICK i \in Slot : i = cl[n].slot
  BY <1>0 DEF ClientRec
<1>2. PICK q \in Seq(Nat) : q = IF row[i].attached THEN << >> ELSE row[i].sems
  BY <1>0, NoSems DEF RowRec
<1>3. /\ UNCHANGED <<sets, reserved, row, rn, boot, late, clashed>>
      /\ cl[n].pc = "await" /\ row[i].created
      /\ cl' = [cl EXCEPT ![n].pc = "attach", ![n].sems = q]
  BY <1>1, <1>2 DEF OpenPair, tableVars, auxVars
<1>4. /\ OnlyClient(n) /\ cl'[n].pc = "attach" /\ cl'[n].slot = i
      /\ cl'[n].opens = cl[n].opens /\ cl'[n].sems = q
  BY <1>0, <1>1, <1>3 DEF OnlyClient, ClientRec
<1> QED
  BY <1>1, <1>2, <1>3, <1>4 DEF Types, OnlyClient

LEMMA AttachStep ==
  ASSUME Types, NEW n \in Name, OpenAttach(n)
  PROVE  /\ Types' /\ OnlyClient(n) /\ UNCHANGED <<reserved, late, clashed>>
         /\ cl[n].pc = "attach" /\ cl[n].slot \in Slot
         /\ cl'[n].pc = "open" /\ cl'[n].slot = cl[n].slot /\ cl'[n].opens = cl[n].opens
         /\ cl'[n].sems = cl[n].sems
         /\ OnlyRow(cl[n].slot)
         /\ \A j \in Slot : /\ row'[j].client_id = row[j].client_id
                            /\ row'[j].asked = row[j].asked
                            /\ row'[j].created = row[j].created
                            /\ row'[j].detach = row[j].detach /\ row'[j].sems = row[j].sems
<1>0. cl \in [Name -> ClientRec] /\ row \in [Slot -> RowRec]
  BY DEF Types
<1>1. PICK i \in Slot : i = cl[n].slot
  BY <1>0 DEF ClientRec
<1>2. PICK b \in BOOLEAN : b = (row[i].attached \/ row[i].created)
  OBVIOUS
<1>3. /\ UNCHANGED <<sets, reserved, rn, boot, late, clashed>> /\ cl[n].pc = "attach"
      /\ row' = [row EXCEPT ![i].attached = b]
      /\ cl' = [cl EXCEPT ![n].pc = "open"]
  BY <1>1, <1>2 DEF OpenAttach, auxVars
<1>4. /\ OnlyRow(i)
      /\ \A j \in Slot : /\ row'[j].client_id = row[j].client_id
                         /\ row'[j].asked = row[j].asked
                         /\ row'[j].created = row[j].created
                         /\ row'[j].detach = row[j].detach /\ row'[j].sems = row[j].sems
  BY <1>0, <1>3 DEF RowRec, OnlyRow
<1>5. /\ OnlyClient(n) /\ cl'[n].pc = "open" /\ cl'[n].slot = i
      /\ cl'[n].opens = cl[n].opens /\ cl'[n].sems = cl[n].sems
  BY <1>0, <1>1, <1>3 DEF OnlyClient, ClientRec
<1> QED
  BY <1>1, <1>3, <1>4, <1>5 DEF Types, OnlyClient, OnlyRow

LEMMA FindStep ==
  ASSUME Types, NEW n \in Name, CloseFind(n)
  PROVE  /\ Types' /\ OnlyClient(n) /\ UNCHANGED <<reserved, row, late, clashed>>
         /\ cl[n].pc = "open" /\ cl'[n].opens = cl[n].opens
         /\ \/ /\ cl'[n].pc = "detach" /\ cl'[n].sems = cl[n].sems
               /\ cl'[n].slot \in Slot /\ row[cl'[n].slot].client_id = client_id[n]
               /\ \A j \in Slot : j < cl'[n].slot => row[j].client_id # client_id[n]
            \/ /\ cl'[n].pc = "start" /\ cl'[n].sems = << >> /\ cl'[n].slot = cl[n].slot
               /\ \A j \in Slot : row[j].client_id # client_id[n]
<1>0. /\ UNCHANGED <<sets, reserved, row, rn, boot, late, clashed>>
      /\ cl \in [Name -> ClientRec] /\ cl[n].pc = "open"
  BY DEF CloseFind, tableVars, auxVars, Types
<1>1. ASSUME NEW i \in Slot, row[i].client_id = client_id[n],
             \A j \in Slot : j < i => row[j].client_id # client_id[n],
             cl' = [cl EXCEPT ![n].pc = "detach", ![n].slot = i]
      PROVE  /\ OnlyClient(n) /\ cl'[n].opens = cl[n].opens
             /\ cl'[n].pc = "detach" /\ cl'[n].sems = cl[n].sems
             /\ cl'[n].slot \in Slot /\ row[cl'[n].slot].client_id = client_id[n]
             /\ \A j \in Slot : j < cl'[n].slot => row[j].client_id # client_id[n]
  BY <1>0, <1>1 DEF OnlyClient, ClientRec
<1>2. ASSUME \A i \in Slot : row[i].client_id # client_id[n],
             cl' = [cl EXCEPT ![n].pc = "start", ![n].sems = << >>]
      PROVE  /\ OnlyClient(n) /\ cl'[n].opens = cl[n].opens
             /\ cl'[n].pc = "start" /\ cl'[n].sems = << >> /\ cl'[n].slot = cl[n].slot
  <2> DEFINE none == << >>
  <2>1. none \in Seq(Nat)
    BY NoSems
  <2> HIDE DEF none
  <2>2. cl' = [cl EXCEPT ![n].pc = "start", ![n].sems = none]
    BY <1>2 DEF none
  <2>3. /\ OnlyClient(n) /\ cl'[n].opens = cl[n].opens
        /\ cl'[n].pc = "start" /\ cl'[n].sems = none /\ cl'[n].slot = cl[n].slot
    BY <1>0, <2>1, <2>2 DEF OnlyClient, ClientRec
  <2> QED
    BY <2>3 DEF none
<1>3. CASE \A i \in Slot : row[i].client_id # client_id[n]
  <2>1. cl' = [cl EXCEPT ![n].pc = "start", ![n].sems = << >>]
    BY <1>3 DEF CloseFind
  <2> QED
    BY <1>0, <1>2, <1>3, <2>1 DEF Types, OnlyClient
<1>4. CASE ~\A i \in Slot : row[i].client_id # client_id[n]
  <2>1. PICK i \in Slot : /\ row[i].client_id = client_id[n]
                          /\ \A j \in Slot : j < i => row[j].client_id # client_id[n]
                          /\ cl' = [cl EXCEPT ![n].pc = "detach", ![n].slot = i]
    BY <1>4 DEF CloseFind
  <2> QED
    BY <1>0, <1>1, <2>1 DEF Types, OnlyClient
<1> QED
  BY <1>3, <1>4

LEMMA DetachStep ==
  ASSUME Types, TableInv, NEW n \in Name, CloseDetach(n)
  PROVE  /\ Types' /\ OnlyClient(n) /\ UNCHANGED reserved
         /\ cl[n].pc = "detach" /\ cl[n].slot \in Slot
         /\ cl'[n].pc = "start" /\ cl'[n].slot = cl[n].slot /\ cl'[n].opens = cl[n].opens
         /\ cl'[n].sems = << >>
         /\ OnlyRow(cl[n].slot) /\ row'[cl[n].slot].detach
         /\ \A j \in Slot : /\ row'[j].client_id = row[j].client_id
                            /\ row'[j].asked = row[j].asked
                            /\ row'[j].created = row[j].created
                            /\ row'[j].attached = row[j].attached
                            /\ row'[j].sems = row[j].sems
         /\ late \subseteq late'
         /\ rn.pc = "clear" /\ rn.i = cl[n].slot => Range(row[cl[n].slot].sems) \subseteq late'
         /\ clashed' = IF row[cl[n].slot].client_id = client_id[n] THEN clashed ELSE Name
<1>0. cl \in [Name -> ClientRec] /\ row \in [Slot -> RowRec]
  BY DEF Types
<1>1. PICK i \in Slot : i = cl[n].slot
  BY <1>0 DEF ClientRec
<1> DEFINE none == << >>
<1>2. none \in Seq(Nat)
  BY NoSems
<1> HIDE DEF none
<1>3. /\ UNCHANGED <<sets, reserved, rn, boot>> /\ cl[n].pc = "detach"
      /\ row' = [row EXCEPT ![i].detach = TRUE]
      /\ cl' = [cl EXCEPT ![n].pc = "start", ![n].sems = none]
      /\ late' = IF rn.pc = "clear" /\ rn.i = i THEN late \cup Range(row[i].sems) ELSE late
      /\ clashed' = IF row[i].client_id = client_id[n] THEN clashed ELSE Name
  BY <1>1 DEF CloseDetach, none
<1>4. /\ OnlyRow(i) /\ row'[i].detach
      /\ \A j \in Slot : /\ row'[j].client_id = row[j].client_id
                         /\ row'[j].asked = row[j].asked
                         /\ row'[j].created = row[j].created
                         /\ row'[j].attached = row[j].attached
                         /\ row'[j].sems = row[j].sems
  BY <1>0, <1>3 DEF RowRec, OnlyRow
<1>5. /\ OnlyClient(n) /\ cl'[n].pc = "start" /\ cl'[n].slot = i
      /\ cl'[n].opens = cl[n].opens /\ cl'[n].sems = none
  BY <1>0, <1>1, <1>2, <1>3 DEF OnlyClient, ClientRec
<1>6. late' \subseteq DOMAIN sets /\ clashed' \subseteq Name /\ late \subseteq late'
  BY <1>3 DEF Types, TableInv, Known, Range
<1>7. rn.pc = "clear" /\ rn.i = i => Range(row[i].sems) \subseteq late'
  BY <1>3
<1>8. Types'
  BY <1>3, <1>4, <1>5, <1>6 DEF Types, OnlyClient, OnlyRow
<1> QED
  BY <1>1, <1>3, <1>4, <1>5, <1>6, <1>7, <1>8 DEF none
-----------------------------------------------------------------------------
(* What the steps of manage_pool change                                    *)

(* queue_create has one more semaphore.                                    *)
LEMMA OneMore ==
  ASSUME NEW sems \in Seq(Nat), NEW s \in Nat, NEW n \in Nat, n = Len(sems)
  PROVE  LET new == Append(sems, s)
         IN  /\ new \in Seq(Nat) /\ Len(new) = n + 1 /\ DOMAIN new = 1..(n + 1)
             /\ new[n + 1] = s /\ \A k \in 1..n : new[k] = sems[k]
<1> DEFINE new == Append(sems, s)
<1>1. /\ new \in Seq(Nat) /\ Len(new) = n + 1
      /\ new[n + 1] = s /\ \A k \in 1..n : new[k] = sems[k]
  BY AppendProperties
<1>2. DOMAIN new = 1..(n + 1)
  BY <1>1, LenProperties
<1> QED
  BY <1>1, <1>2

LEMMA NewSet ==
  ASSUME Types, TableInv, SemgetNew
  PROVE  /\ UNCHANGED <<reserved, row, cl, boot, late, clashed>>
         /\ rn.pc = "semget" /\ Now \in 0..5
         /\ Len(sets) \in Nat /\ DOMAIN sets = 1..Len(sets)
         /\ sets' \in Seq(SetRec) /\ DOMAIN sets' = 1..(Len(sets) + 1)
         /\ \A s \in DOMAIN sets : sets'[s] = sets[s]
         /\ sets'[Len(sets) + 1] =
              [key |-> Key, val |-> 0, otime |-> FALSE, live |-> TRUE, boot |-> boot]
         /\ rn' \in RunnerRec /\ rn'.pc = "semop" /\ rn'.i = rn.i
         /\ Len(rn'.sems) = Now + 1 /\ DOMAIN rn'.sems = 1..(Now + 1)
         /\ rn'.sems[Now + 1] = Len(sets) + 1
         /\ \A k \in 1..Now : rn'.sems[k] = rn.sems[k]
<1>1. /\ UNCHANGED <<reserved, row, cl, boot, late, clashed>> /\ rn.pc = "semget"
      /\ sets \in Seq(SetRec) /\ rn \in RunnerRec /\ row \in [Slot -> RowRec]
      /\ boot \in 0..MaxRestarts
  BY DEF SemgetNew, tableVars, auxVars, Types
<1>2. Now \in 0..5
  BY <1>1, RunnerSems DEF TableInv, RunnerInv
<1>3. Len(sets) \in Nat /\ DOMAIN sets = 1..Len(sets)
  BY <1>1, LenProperties
<1>4. Key \in Nat
  <2>1. row[rn.i].client_id \in Int
    BY <1>1, IdsTyped DEF RunnerRec, RowRec
  <2>2. Now + 1 \in Sem
    BY <1>2 DEF Sem
  <2> QED
    BY <2>1, <2>2, SemKeyType DEF Key
<1> DEFINE r == [key |-> Key, val |-> 0, otime |-> FALSE, live |-> TRUE, boot |-> boot]
<1>5. r \in SetRec
  BY <1>1, <1>4, Bounds DEF SetRec
<1> HIDE DEF r
<1>6. sets' = Append(sets, r)
  BY DEF SemgetNew, r
<1>7. /\ sets' \in Seq(SetRec) /\ Len(sets') = Len(sets) + 1
      /\ sets'[Len(sets) + 1] = r /\ \A s \in 1..Len(sets) : sets'[s] = sets[s]
  BY <1>1, <1>5, <1>6, AppendProperties
<1>8. DOMAIN sets' = 1..(Len(sets) + 1)
  BY <1>7, LenProperties
<1>9. PICK l \in Nat : l = Len(sets) + 1
  BY <1>3
<1> DEFINE more == Append(rn.sems, l)
<1>10. /\ more \in Seq(Nat) /\ Len(more) = Now + 1 /\ DOMAIN more = 1..(Now + 1)
       /\ more[Now + 1] = l /\ \A k \in 1..Now : more[k] = rn.sems[k]
  BY <1>9, RunnerSems, OneMore DEF Now
<1> HIDE DEF more
<1>11. rn' = [rn EXCEPT !.pc = "semop", !.sems = more]
  BY <1>9 DEF SemgetNew, more
<1>12. rn' \in RunnerRec /\ rn'.pc = "semop" /\ rn'.i = rn.i /\ rn'.sems = more
  BY <1>1, <1>10, <1>11 DEF RunnerRec
<1> QED
  BY <1>1, <1>2, <1>3, <1>7, <1>8, <1>9, <1>10, <1>12 DEF r

LEMMA AfterSem ==
  ASSUME NEW k \in Sem
  PROVE  /\ After(k) \in {"wait", "publish", "semget"}
         /\ After(k) = "wait" => k \in Empties
         /\ After(k) = "publish" => k = 6
         /\ After(k) = "semget" => k < 6
BY DEF After, Sem, Empties

LEMMA SemopStep ==
  ASSUME Types, TableInv, Semop
  PROVE  /\ UNCHANGED <<reserved, row, cl, boot, late, clashed>>
         /\ rn.pc = "semop" /\ Now \in Sem
         /\ rn.sems[Now] \in DOMAIN sets /\ sets[rn.sems[Now]].boot = boot
         /\ sets' \in Seq(SetRec) /\ DOMAIN sets' = DOMAIN sets
         /\ \A t \in DOMAIN sets : SameSet(t) /\ (t # rn.sems[Now] => sets'[t] = sets[t])
         /\ sets'[rn.sems[Now]].val = 1
         /\ rn' \in RunnerRec /\ rn'.pc = After(Now) /\ rn'.i = rn.i /\ rn'.sems = rn.sems
<1>1. /\ UNCHANGED <<reserved, row, cl, boot, late, clashed>> /\ rn.pc = "semop"
      /\ sets \in Seq(SetRec) /\ rn \in RunnerRec
  BY DEF Semop, tableVars, auxVars, Types
<1>2. Now \in Sem /\ sets[rn.sems[Now]].val = 0 /\ sets[rn.sems[Now]].boot = boot
  BY <1>1 DEF TableInv, RunnerInv
<1>3. PICK s \in DOMAIN sets : s = rn.sems[Now]
  BY <1>2, RunnerSems DEF Sem, TableInv, Known
<1>4. sets[s] \in SetRec
  BY <1>1, ElementOfSeq, LenProperties
<1>5. sets' = [sets EXCEPT ![s] = [@ EXCEPT !.val = 1, !.otime = TRUE]]
  <2>1. sets' = [sets EXCEPT ![s].val = @ + 1, ![s].otime = TRUE]
    BY <1>3 DEF Semop
  <2>2. sets[s].val + 1 = 1
    BY <1>2, <1>3
  <2> QED
    BY <1>4, <2>1, <2>2 DEF SetRec
<1>6. 1 \in 0..SemMax
  BY Bounds
<1>7. /\ sets' \in Seq(SetRec) /\ DOMAIN sets' = DOMAIN sets
      /\ \A t \in DOMAIN sets : SameSet(t) /\ (t # s => sets'[t] = sets[t])
      /\ sets'[s].val = 1
  BY <1>1, <1>5, <1>6, ValueChanges
<1>8. After(Now) \in {"wait", "publish", "semget"}
  BY <1>2, AfterSem
<1>9. rn' \in RunnerRec /\ rn'.pc = After(Now) /\ rn'.i = rn.i /\ rn'.sems = rn.sems
  BY <1>1, <1>8 DEF Semop, RunnerRec
<1> QED
  BY <1>1, <1>2, <1>3, <1>7, <1>9

LEMMA OldSet ==
  ASSUME Types, TableInv, SemgetOld
  PROVE  /\ UNCHANGED <<sets, reserved, row, cl, boot, late, clashed>>
         /\ rn.pc = "semget" /\ Now \in 0..5
         /\ rn' \in RunnerRec /\ rn'.i = rn.i
         /\ \E s \in DOMAIN sets :
              /\ HasKey(s, Key)
              /\ \/ /\ rn'.pc = After(Now + 1)
                    /\ Len(rn'.sems) = Now + 1 /\ DOMAIN rn'.sems = 1..(Now + 1)
                    /\ rn'.sems[Now + 1] = s /\ \A k \in 1..Now : rn'.sems[k] = rn.sems[k]
                 \/ rn'.pc = "exited" /\ rn'.sems = rn.sems
<1>1. /\ UNCHANGED <<sets, reserved, row, cl, boot, late, clashed>> /\ rn.pc = "semget"
      /\ sets \in Seq(SetRec) /\ rn \in RunnerRec
  BY DEF SemgetOld, tableVars, auxVars, Types
<1>2. Now \in 0..5 /\ Now + 1 \in Sem
  BY <1>1, RunnerSems DEF TableInv, RunnerInv, Sem
<1>3. PICK s \in DOMAIN sets :
        /\ HasKey(s, Key)
        /\ rn' = IF sets[s].otime
                   THEN [rn EXCEPT !.pc = After(Now + 1), !.sems = Append(@, s)]
                   ELSE [rn EXCEPT !.pc = "exited"]
  BY DEF SemgetOld
<1>4. s \in Nat
  BY <1>1, LenProperties
<1>5. CASE ~sets[s].otime
  <2>1. rn' = [rn EXCEPT !.pc = "exited"]
    BY <1>3, <1>5
  <2>2. rn' \in RunnerRec /\ rn'.i = rn.i /\ rn'.pc = "exited" /\ rn'.sems = rn.sems
    BY <1>1, <2>1 DEF RunnerRec
  <2> QED
    BY <1>1, <1>2, <1>3, <2>2
<1>6. CASE sets[s].otime
  <2> DEFINE more == Append(rn.sems, s)
  <2>1. /\ more \in Seq(Nat) /\ Len(more) = Now + 1 /\ DOMAIN more = 1..(Now + 1)
        /\ more[Now + 1] = s /\ \A k \in 1..Now : more[k] = rn.sems[k]
    BY <1>4, RunnerSems, OneMore DEF Now
  <2>2. rn' = [rn EXCEPT !.pc = After(Now + 1), !.sems = more]
    BY <1>3, <1>6
  <2> HIDE DEF more
  <2>3. /\ rn' \in RunnerRec /\ rn'.i = rn.i /\ rn'.pc = After(Now + 1) /\ rn'.sems = more
    BY <1>1, <1>2, <2>1, <2>2, AfterSem DEF RunnerRec
  <2> QED
    BY <1>1, <1>2, <1>3, <2>1, <2>3
<1> QED
  BY <1>5, <1>6

LEMMA WaitStep ==
  ASSUME Types, TableInv, Wait
  PROVE  /\ UNCHANGED <<reserved, row, cl, boot, late, clashed>>
         /\ rn.pc = "wait" /\ Now \in Empties
         /\ rn.sems[Now] \in DOMAIN sets
         /\ sets' \in Seq(SetRec) /\ DOMAIN sets' = DOMAIN sets
         /\ \A t \in DOMAIN sets : SameSet(t) /\ (t # rn.sems[Now] => sets'[t] = sets[t])
         /\ rn' \in RunnerRec /\ rn'.pc = "semget" /\ rn'.i = rn.i /\ rn'.sems = rn.sems
<1>1. /\ UNCHANGED <<reserved, row, cl, boot, late, clashed>> /\ rn.pc = "wait"
      /\ sets \in Seq(SetRec) /\ rn \in RunnerRec
  BY DEF Wait, tableVars, auxVars, Types
<1>2. Now \in Empties
  BY <1>1 DEF TableInv, RunnerInv
<1>3. PICK s \in DOMAIN sets : s = rn.sems[Now]
  BY <1>2, RunnerSems DEF Empties, TableInv, Known
<1>4. sets[s] \in SetRec
  BY <1>1, ElementOfSeq, LenProperties
<1>5. PICK v \in 0..SemMax : v = sets[s].val - 1
  BY <1>3, <1>4, Bounds DEF Wait, SetRec
<1>6. sets' = [sets EXCEPT ![s] = [@ EXCEPT !.val = v, !.otime = sets[s].otime]]
  BY <1>3, <1>4, <1>5 DEF Wait, SetRec
<1>7. /\ sets' \in Seq(SetRec) /\ DOMAIN sets' = DOMAIN sets
      /\ \A t \in DOMAIN sets : SameSet(t) /\ (t # s => sets'[t] = sets[t])
  BY <1>1, <1>4, <1>6, ValueChanges DEF SetRec
<1>8. rn' \in RunnerRec /\ rn'.pc = "semget" /\ rn'.i = rn.i /\ rn'.sems = rn.sems
  BY <1>1 DEF Wait, RunnerRec
<1> QED
  BY <1>1, <1>2, <1>3, <1>7, <1>8

LEMMA PublishStep ==
  ASSUME Types, TableInv, Publish
  PROVE  /\ UNCHANGED <<sets, reserved, cl, boot, late, clashed>>
         /\ rn.pc = "publish" /\ Now = 6 /\ rn.i \in Slot
         /\ rn' \in RunnerRec /\ rn'.pc = "cleanup" /\ rn'.i = rn.i
         /\ rn'.sems = << >> /\ DOMAIN rn'.sems = {}
         /\ row' \in [Slot -> RowRec] /\ \A j \in Slot \ {rn.i} : row'[j] = row[j]
         /\ row'[rn.i].created /\ row'[rn.i].sems = rn.sems
         /\ row'[rn.i].client_id = row[rn.i].client_id
         /\ row'[rn.i].detach = row[rn.i].detach /\ row'[rn.i].asked = row[rn.i].asked
         /\ row'[rn.i].attached = row[rn.i].attached
<1>1. /\ UNCHANGED <<sets, reserved, cl, boot, late, clashed>> /\ rn.pc = "publish"
      /\ rn \in RunnerRec /\ row \in [Slot -> RowRec]
  BY DEF Publish, auxVars, Types
<1>2. Now = 6 /\ rn.i \in Slot /\ rn.sems \in Seq(Nat)
  BY <1>1, RunnerSems DEF TableInv, RunnerInv, RunnerRec
<1> DEFINE none == << >>
<1>3. none \in Seq(Nat) /\ DOMAIN none = {}
  BY EmptySeq
<1> HIDE DEF none
<1>4. rn' = [rn EXCEPT !.pc = "cleanup", !.sems = none]
  BY DEF Publish, none
<1>5. rn' \in RunnerRec /\ rn'.pc = "cleanup" /\ rn'.i = rn.i /\ rn'.sems = none
  BY <1>1, <1>3, <1>4 DEF RunnerRec
<1>6. PICK i \in Slot, sems \in Seq(Nat) : i = rn.i /\ sems = rn.sems
  BY <1>2
<1>7. row' = [row EXCEPT ![i].sems = sems, ![i].created = TRUE]
  BY <1>6 DEF Publish
<1>8. /\ row' \in [Slot -> RowRec] /\ \A j \in Slot \ {i} : row'[j] = row[j]
      /\ row'[i].created /\ row'[i].sems = sems
      /\ row'[i].client_id = row[i].client_id /\ row'[i].detach = row[i].detach
      /\ row'[i].asked = row[i].asked /\ row'[i].attached = row[i].attached
  <2> DEFINE r == [row[i] EXCEPT !.sems = sems, !.created = TRUE]
  <2>1. /\ r \in RowRec /\ r.created /\ r.sems = sems
        /\ r.client_id = row[i].client_id /\ r.detach = row[i].detach
        /\ r.asked = row[i].asked /\ r.attached = row[i].attached
    BY <1>1 DEF RowRec
  <2>2. row' = [row EXCEPT ![i] = r]
    BY <1>7
  <2> HIDE DEF r
  <2> QED
    BY <1>1, <2>1, <2>2
<1> QED
  BY <1>1, <1>2, <1>3, <1>5, <1>6, <1>8 DEF none

(* A step of manage_pool that only moves it.                               *)
LEMMA ServiceStep ==
  ASSUME Types, Service
  PROVE  /\ Types' /\ UNCHANGED <<sets, reserved, row, cl, boot, late, clashed>>
         /\ rn.pc = "service" /\ rn'.i = rn.i /\ rn'.sems = rn.sems
         /\ \/ reserved[rn.i] /\ ~row[rn.i].created /\ row[rn.i].asked /\ rn'.pc = "semget"
            \/ rn'.pc \in {"exited", "cleanup"}
<1>1. /\ UNCHANGED <<sets, reserved, row, cl, boot, late, clashed>> /\ rn.pc = "service"
      /\ rn \in RunnerRec
  BY DEF Service, tableVars, auxVars, Types
<1>2. PICK p \in {"semget", "exited", "cleanup"} :
        /\ rn' = [rn EXCEPT !.pc = p]
        /\ p = "semget" => reserved[rn.i] /\ ~row[rn.i].created /\ row[rn.i].asked
  BY DEF Service
<1>3. rn' \in RunnerRec /\ rn'.i = rn.i /\ rn'.sems = rn.sems /\ rn'.pc = p
  BY <1>1, <1>2 DEF RunnerRec
<1> QED
  BY <1>1, <1>2, <1>3 DEF Types

LEMMA CleanUpStep ==
  ASSUME Types, CleanUp
  PROVE  /\ Types' /\ UNCHANGED <<sets, reserved, row, cl, boot, late, clashed>>
         /\ rn.pc = "cleanup" /\ rn'.i = rn.i /\ rn.i \in Slot
         /\ \/ /\ ~(reserved[rn.i] /\ row[rn.i].detach /\ row[rn.i].asked)
               /\ rn'.pc = "clear" /\ rn'.sems = rn.sems
            \/ rn'.pc = "exited" /\ rn'.sems = rn.sems
            \/ /\ reserved[rn.i] /\ row[rn.i].detach
               /\ rn'.pc = "destroy" /\ rn'.sems = row[rn.i].sems
               /\ Len(row[rn.i].sems) \in Nat /\ Len(row[rn.i].sems) >= 1
<1>1. /\ UNCHANGED <<sets, reserved, row, cl, boot, late, clashed>> /\ rn.pc = "cleanup"
      /\ rn \in RunnerRec /\ row \in [Slot -> RowRec]
  BY DEF CleanUp, tableVars, auxVars, Types
<1>2. PICK i \in Slot : i = rn.i
  BY <1>1 DEF RunnerRec
<1>3. PICK q \in Seq(Nat) : q = row[i].sems
  BY <1>1 DEF RowRec
<1>4. CASE ~(reserved[i] /\ row[i].detach /\ row[i].asked)
  <2>1. rn' = [rn EXCEPT !.pc = "clear"]
    BY <1>2, <1>4 DEF CleanUp
  <2>2. rn' \in RunnerRec /\ rn'.i = rn.i /\ rn'.sems = rn.sems /\ rn'.pc = "clear"
    BY <1>1, <2>1 DEF RunnerRec
  <2> QED
    BY <1>1, <1>2, <1>4, <2>2 DEF Types
<1>5. CASE reserved[i] /\ row[i].detach /\ row[i].asked /\ q = << >>
  <2>1. rn' = [rn EXCEPT !.pc = "exited"]
    BY <1>2, <1>3, <1>5 DEF CleanUp
  <2>2. rn' \in RunnerRec /\ rn'.i = rn.i /\ rn'.sems = rn.sems /\ rn'.pc = "exited"
    BY <1>1, <2>1 DEF RunnerRec
  <2> QED
    BY <1>1, <1>2, <2>2 DEF Types
<1>6. CASE reserved[i] /\ row[i].detach /\ row[i].asked /\ q # << >>
  <2>1. rn' = [rn EXCEPT !.pc = "destroy", !.sems = q]
    BY <1>2, <1>3, <1>6 DEF CleanUp
  <2>2. rn' \in RunnerRec /\ rn'.i = rn.i /\ rn'.sems = q /\ rn'.pc = "destroy"
    BY <1>1, <2>1 DEF RunnerRec
  <2>3. Len(q) \in Nat /\ Len(q) >= 1
    BY <1>6, EmptySeq, LenProperties
  <2> QED
    BY <1>1, <1>2, <1>3, <1>6, <2>2, <2>3 DEF Types
<1> QED
  BY <1>4, <1>5, <1>6

LEMMA DestroyStep ==
  ASSUME Types, TableInv, destroy_semaphores
  PROVE  /\ Types' /\ UNCHANGED <<reserved, row, cl, boot, late, clashed>>
         /\ rn.pc = "destroy" /\ rn'.i = rn.i /\ DOMAIN sets' = DOMAIN sets
         /\ Range(rn'.sems) \subseteq Range(rn.sems)
         /\ \A k \in DOMAIN rn'.sems : rn'.sems[k] \in Range(rn.sems)
         /\ \E s \in DOMAIN sets :
              /\ s \in Range(rn.sems) /\ ~sets'[s].live /\ sets'[s].boot = 0
              /\ \A t \in DOMAIN sets : t # s => sets'[t] = sets[t]
              /\ \A t \in Range(rn.sems) : t # s => t \in Range(rn'.sems)
         /\ \/ rn'.pc = "clear" /\ rn'.sems = << >>
            \/ rn'.pc = "destroy" /\ Now' >= 1
<1>1. /\ UNCHANGED <<reserved, row, cl, boot, late, clashed>> /\ rn.pc = "destroy"
      /\ rn \in RunnerRec /\ sets \in Seq(SetRec)
  BY DEF destroy_semaphores, tableVars, auxVars, Types
<1>2. PICK q \in Seq(Nat) : q = rn.sems
  BY RunnerSems
<1>3. Len(q) \in Nat /\ Len(q) >= 1 /\ DOMAIN q = 1..Len(q) /\ q # << >>
  <2>1. Len(q) \in Nat /\ DOMAIN q = 1..Len(q) /\ Len(q) >= 1
    BY <1>1, <1>2, RunnerSems DEF TableInv, RunnerInv, Now
  <2> QED
    BY <2>1, EmptySeq
<1>4. /\ Head(q) = q[1] /\ Tail(q) \in Seq(Nat) /\ Len(Tail(q)) = Len(q) - 1
      /\ \A k \in 1..(Len(q) - 1) : Tail(q)[k] = q[k + 1]
  BY <1>3, HeadTailProperties
<1>5. PICK t \in Seq(Nat) : t = Tail(q)
  BY <1>4
<1>6. DOMAIN t = 1..(Len(q) - 1) /\ \A k \in DOMAIN t : t[k] = q[k + 1] /\ k + 1 \in DOMAIN q
  BY <1>3, <1>4, <1>5, LenProperties
<1>7. PICK s \in DOMAIN sets : s = q[1]
  BY <1>2, <1>3 DEF TableInv, Known
<1>8. sets' = [sets EXCEPT ![s] = Removed]
  BY <1>2, <1>4, <1>7 DEF destroy_semaphores
<1>9. /\ sets' \in Seq(SetRec) /\ DOMAIN sets' = DOMAIN sets
      /\ ~sets'[s].live /\ sets'[s].boot = 0
      /\ \A u \in DOMAIN sets : u # s => sets'[u] = sets[u]
  BY <1>1, <1>8, SetRemoved
<1>10. PICK p \in {"clear", "destroy"} :
         /\ rn' = [rn EXCEPT !.pc = p, !.sems = t]
         /\ (p = "clear") <=> (Len(q) = 1)
  BY <1>2, <1>5 DEF destroy_semaphores
<1>11. rn' \in RunnerRec /\ rn'.pc = p /\ rn'.i = rn.i /\ rn'.sems = t
  BY <1>1, <1>5, <1>10 DEF RunnerRec
<1>12. \/ rn'.pc = "clear" /\ rn'.sems = << >>
       \/ rn'.pc = "destroy" /\ Now' >= 1
  <2>1. Len(t) = Len(q) - 1
    BY <1>4, <1>5
  <2>2. CASE Len(q) = 1
    <3>1. t = << >>
      BY <2>1, <2>2, EmptySeq
    <3> QED
      BY <1>10, <1>11, <2>2, <3>1
  <2>3. CASE Len(q) # 1
    <3>1. Len(t) >= 1
      BY <1>3, <2>1, <2>3
    <3> QED
      BY <1>10, <1>11, <2>3, <3>1 DEF Now
  <2> QED
    BY <2>2, <2>3
<1>13. \A k \in DOMAIN t : t[k] \in Range(q)
  BY <1>6 DEF Range
<1>14. Range(t) \subseteq Range(q)
  BY <1>13 DEF Range
<1>15. s \in Range(q)
  <2>1. 1 \in DOMAIN q
    BY <1>3
  <2> QED
    BY <1>7, <2>1, Zenon DEF Range
<1>16. \A u \in Range(q) : u # s => u \in Range(t)
  <2> SUFFICES ASSUME NEW k \in DOMAIN q, q[k] # s PROVE q[k] \in Range(t)
    BY DEF Range
  <2>1. k \in 1..Len(q) /\ k # 1
    BY <1>3, <1>7
  <2>2. k - 1 \in 1..(Len(q) - 1) /\ k - 1 + 1 = k
    BY <1>3, <2>1
  <2>3. k - 1 \in DOMAIN t /\ t[k - 1] = q[k]
    BY <1>6, <2>2
  <2> QED
    BY <2>3 DEF Range
<1>17. Types'
  BY <1>1, <1>9, <1>11 DEF Types
<1> QED
  BY <1>1, <1>2, <1>9, <1>11, <1>12, <1>13, <1>14, <1>15, <1>16, <1>17

LEMMA ClearSlotStep ==
  ASSUME Types, ClearSlot
  PROVE  /\ Types' /\ UNCHANGED <<sets, reserved, row, cl, boot, late, clashed>>
         /\ rn.pc = "clear" /\ rn.i \in Slot /\ rn'.sems = rn.sems
         /\ \/ row[rn.i].detach /\ rn'.pc = "wipe" /\ rn'.i = rn.i
            \/ rn'.pc = "service"
<1>1. /\ UNCHANGED <<sets, reserved, row, cl, boot, late, clashed>> /\ rn.pc = "clear"
      /\ rn \in RunnerRec
  BY DEF ClearSlot, tableVars, auxVars, Types
<1>2. rn.i \in Slot /\ (rn.i + 1) % SLOT_NUM \in Slot
  BY <1>1, Bounds DEF RunnerRec
<1>3. /\ rn' \in RunnerRec /\ rn'.sems = rn.sems
      /\ \/ row[rn.i].detach /\ rn'.pc = "wipe" /\ rn'.i = rn.i
         \/ rn'.pc = "service"
  <2>1. CASE row[rn.i].detach
    BY <1>1, <2>1 DEF ClearSlot, RunnerRec
  <2>2. CASE ~row[rn.i].detach
    BY <1>1, <1>2, <2>2 DEF ClearSlot, NextSlot, RunnerRec
  <2> QED
    BY <2>1, <2>2
<1> QED
  BY <1>1, <1>2, <1>3 DEF Types

LEMMA ZeroRowType ==
  /\ ZeroRow \in RowRec /\ ZeroRow.client_id = 0 /\ ~ZeroRow.asked /\ ~ZeroRow.created
  /\ ~ZeroRow.attached /\ ~ZeroRow.detach
  /\ ZeroRow.sems = << >> /\ DOMAIN ZeroRow.sems = {} /\ Range(ZeroRow.sems) = {}
<1> DEFINE none == << >>
<1>1. none \in Seq(Nat) /\ DOMAIN none = {} /\ Range(none) = {}
  BY NoSems
<1> HIDE DEF none
<1>2. ZeroRow = [client_id |-> 0, asked |-> FALSE, created |-> FALSE, attached |-> FALSE,
                 detach |-> FALSE, sems |-> none]
  BY DEF ZeroRow, none
<1>3. /\ ZeroRow \in RowRec /\ ZeroRow.client_id = 0 /\ ~ZeroRow.asked /\ ~ZeroRow.created
      /\ ~ZeroRow.attached /\ ~ZeroRow.detach /\ ZeroRow.sems = none
  BY <1>1, <1>2 DEF RowRec
<1> QED
  BY <1>1, <1>3 DEF none

LEMMA ClearRowStep ==
  ASSUME Types, ClearRow
  PROVE  /\ Types' /\ UNCHANGED <<sets, reserved, cl, boot, late>>
         /\ rn.pc = "wipe" /\ rn.i \in Slot
         /\ rn'.pc = "free" /\ rn'.i = rn.i /\ rn'.sems = rn.sems
         /\ OnlyRow(rn.i) /\ row'[rn.i] = ZeroRow
         /\ clashed' = clashed \cup HoldersAt(rn.i, Writing \cup Having)
<1>1. /\ UNCHANGED <<sets, reserved, cl, boot, late>> /\ rn.pc = "wipe"
      /\ rn \in RunnerRec /\ row \in [Slot -> RowRec]
      /\ clashed' = clashed \cup HoldersAt(rn.i, Writing \cup Having)
  BY DEF ClearRow, Types
<1>2. PICK i \in Slot : i = rn.i
  BY <1>1 DEF RunnerRec
<1>3. row' = [row EXCEPT ![i] = ZeroRow]
  BY <1>2 DEF ClearRow
<1>4. OnlyRow(i) /\ row'[i] = ZeroRow
  BY <1>1, <1>3, ZeroRowType DEF OnlyRow
<1>5. rn' \in RunnerRec /\ rn'.pc = "free" /\ rn'.i = rn.i /\ rn'.sems = rn.sems
  BY <1>1 DEF ClearRow, RunnerRec
<1>6. clashed' \subseteq Name
  BY <1>1 DEF Types, HoldersAt
<1> QED
  BY <1>1, <1>2, <1>4, <1>5, <1>6 DEF Types, OnlyRow

LEMMA ClearFreeStep ==
  ASSUME Types, ClearFree
  PROVE  /\ Types' /\ UNCHANGED <<sets, row, cl, boot, late>>
         /\ rn.pc = "free" /\ rn.i \in Slot
         /\ rn'.pc = "service" /\ rn'.sems = rn.sems
         /\ ~reserved'[rn.i] /\ \A j \in Slot \ {rn.i} : reserved'[j] = reserved[j]
         /\ clashed' = clashed \cup HoldersAt(rn.i, Having)
<1>1. /\ UNCHANGED <<sets, row, cl, boot, late>> /\ rn.pc = "free"
      /\ rn \in RunnerRec /\ reserved \in [Slot -> BOOLEAN]
      /\ clashed' = clashed \cup HoldersAt(rn.i, Having)
  BY DEF ClearFree, Types
<1>2. PICK i \in Slot : i = rn.i
  BY <1>1 DEF RunnerRec
<1>3. reserved' = [reserved EXCEPT ![i] = FALSE]
  BY <1>2 DEF ClearFree
<1>4. /\ reserved' \in [Slot -> BOOLEAN] /\ ~reserved'[i]
      /\ \A j \in Slot \ {i} : reserved'[j] = reserved[j]
  BY <1>1, <1>3
<1>5. rn' \in RunnerRec /\ rn'.pc = "service" /\ rn'.sems = rn.sems
  BY <1>1, Bounds DEF ClearFree, NextSlot, RunnerRec
<1>6. clashed' \subseteq Name
  BY <1>1 DEF Types, HoldersAt
<1> QED
  BY <1>1, <1>2, <1>4, <1>5, <1>6 DEF Types

LEMMA UseStep ==
  ASSUME Types, TableInv, NEW n \in Name, NEW k \in Sem, UseQueue(n, k)
  PROVE  /\ Types' /\ UNCHANGED <<reserved, row, cl, rn, boot, late, clashed>>
         /\ DOMAIN sets' = DOMAIN sets /\ k \in DOMAIN cl[n].sems
         /\ \A t \in DOMAIN sets : SameSet(t) /\ (t # cl[n].sems[k] => sets'[t] = sets[t])
<1>1. /\ UNCHANGED <<reserved, row, cl, rn, boot, late, clashed>>
      /\ sets \in Seq(SetRec) /\ k \in DOMAIN cl[n].sems
  BY DEF UseQueue, tableVars, auxVars, Types
<1>2. PICK s \in DOMAIN sets : s = cl[n].sems[k]
  BY <1>1 DEF TableInv, Known
<1>3. PICK v \in 0..SemMax : sets' = [sets EXCEPT ![s].val = v]
  BY <1>2 DEF UseQueue
<1>4. sets[s] \in SetRec
  BY <1>1, ElementOfSeq, LenProperties
<1>5. sets' = [sets EXCEPT ![s] = [@ EXCEPT !.val = v, !.otime = sets[s].otime]]
  BY <1>3, <1>4 DEF SetRec
<1>6. /\ sets' \in Seq(SetRec) /\ DOMAIN sets' = DOMAIN sets
      /\ \A t \in DOMAIN sets : SameSet(t) /\ (t # s => sets'[t] = sets[t])
  BY <1>1, <1>4, <1>5, ValueChanges DEF SetRec
<1>7. Types'
  BY <1>1, <1>6 DEF Types
<1> QED
  BY <1>1, <1>2, <1>6, <1>7

LEMMA NewRunnerType ==
  /\ NewRunner \in RunnerRec /\ NewRunner.pc = "service" /\ NewRunner.sems = << >>
  /\ DOMAIN NewRunner.sems = {} /\ Range(NewRunner.sems) = {}
<1> DEFINE none == << >>
<1>1. none \in Seq(Nat) /\ DOMAIN none = {} /\ Range(none) = {}
  BY NoSems
<1> HIDE DEF none
<1>2. NewRunner = [pc |-> "service", i |-> 0, sems |-> none]
  BY DEF NewRunner, none
<1>3. NewRunner \in RunnerRec /\ NewRunner.pc = "service" /\ NewRunner.sems = none
  BY <1>1, <1>2, Bounds DEF RunnerRec
<1> QED
  BY <1>1, <1>3 DEF none

LEMMA NewClientType ==
  /\ NewClient \in ClientRec /\ NewClient.pc = "start" /\ NewClient.opens = 0
  /\ NewClient.sems = << >> /\ DOMAIN NewClient.sems = {} /\ Range(NewClient.sems) = {}
<1> DEFINE none == << >>
<1>1. none \in Seq(Nat) /\ DOMAIN none = {} /\ Range(none) = {}
  BY NoSems
<1> HIDE DEF none
<1>2. NewClient = [pc |-> "start", slot |-> 0, opens |-> 0, sems |-> none]
  BY DEF NewClient, none
<1>3. /\ NewClient \in ClientRec /\ NewClient.pc = "start" /\ NewClient.opens = 0
      /\ NewClient.sems = none
  BY <1>1, <1>2, Bounds DEF ClientRec
<1> QED
  BY <1>1, <1>3 DEF none

LEMMA KillStep ==
  ASSUME Types, KillAndRestart
  PROVE  /\ Types' /\ UNCHANGED <<sets, row>> /\ boot' = boot + 1 /\ boot \in Nat
         /\ \A i \in Slot : ~reserved'[i]
         /\ \A n \in Name : cl'[n] = NewClient
         /\ rn' = NewRunner /\ late' = {} /\ clashed' = {}
<1>1. /\ UNCHANGED <<sets, row>> /\ boot' = boot + 1 /\ boot' \in 0..MaxRestarts /\ boot \in Nat
      /\ reserved' = [i \in Slot |-> FALSE] /\ rn' = NewRunner /\ late' = {} /\ clashed' = {}
      /\ cl' = [n \in Name |-> NewClient]
  BY Bounds DEF KillAndRestart, Types
<1>2. cl' \in [Name -> ClientRec] /\ \A n \in Name : cl'[n] = NewClient
  BY <1>1, NewClientType
<1>3. reserved' \in [Slot -> BOOLEAN] /\ \A i \in Slot : ~reserved'[i]
  BY <1>1
<1> QED
  BY <1>1, <1>2, <1>3, NewRunnerType DEF Types

-----------------------------------------------------------------------------
(* The steps of a client keep the invariant                                *)

(* A step of client n leaves alone what counts of the reserved rows.       *)
LEMMA ClientFrame ==
  ASSUME Types, TableInv, NEW n \in Name, OnlyClient(n),
         \A j \in Slot : row'[j].sems = row[j].sems,
         \A j \in Slot : reserved[j] =>
           reserved'[j] /\ row'[j].created = row[j].created /\ row'[j].asked = row[j].asked,
         \A j \in Slot : reserved'[j] /\ ~reserved[j] => ~row'[j].created,
         \/ cl'[n].sems = cl[n].sems
         \/ cl'[n].sems = << >>
         \/ \E j \in Slot : cl'[n].sems = row[j].sems,
         Requests'
  PROVE  TableInv'
<1>1. UNCHANGED <<sets, rn, boot>> /\ rn.i \in Slot
  BY RunnerSems DEF OnlyClient
<1>2. \A m \in Name : \/ cl'[m].sems = cl[m].sems
                      \/ cl'[m].sems = << >>
                      \/ \E j \in Slot : cl'[m].sems = row[j].sems
  BY DEF OnlyClient
<1>3. Known'
  <2>1. \A m \in Name : \A k \in DOMAIN cl'[m].sems : cl'[m].sems[k] \in DOMAIN sets
    BY <1>2, NoSems DEF TableInv, Known
  <2> QED
    BY <1>1, <2>1 DEF TableInv, Known
<1>4. RunnerInv'
  <2>1. Serving' => reserved'[rn'.i] /\ ~row'[rn'.i].created /\ row'[rn'.i].asked
    BY <1>1 DEF TableInv, RunnerInv, Serving
  <2>2. rn.pc = "semop" => \A m \in Name : rn.sems[Now] \notin Range(cl'[m].sems)
    BY <1>2, NoSems DEF TableInv, RunnerInv
  <2>3. Now' = Now
    BY <1>1 DEF Now
  <2> QED
    BY <1>1, <2>1, <2>2, <2>3 DEF TableInv, RunnerInv
<1>5. RowsServed'
  BY DEF TableInv, RowsServed, InUse
<1> QED
  BY <1>3, <1>4, <1>5 DEF TableInv

LEMMA LockKeeps ==
  ASSUME Types, TableInv, NEW n \in Name, RequestLock(n)
  PROVE  TableInv'
<1>1. /\ OnlyClient(n) /\ UNCHANGED <<reserved, row>> /\ \A m \in Name : ~Requesting(m)
      /\ cl[n].opens < Opens /\ cl'[n].opens = cl[n].opens
      /\ cl'[n].pc = "scan" /\ cl'[n].sems = cl[n].sems
  BY LockStep
<1>2. \A m \in Name \ {n} : cl'[m] = cl[m]
  BY <1>1 DEF OnlyClient
<1>3. Requests'
  BY <1>1, <1>2 DEF TableInv, Requests, Requesting, Writing
<1> QED
  BY <1>1, <1>3, ClientFrame

LEMMA SkipKeeps ==
  ASSUME Types, TableInv, NEW n \in Name, RequestSkip(n)
  PROVE  TableInv'
<1>1. /\ OnlyClient(n) /\ UNCHANGED <<reserved, row>> /\ cl[n].pc = "scan"
      /\ cl'[n].pc \in {"scan", "start"} /\ cl'[n].opens = cl[n].opens
      /\ cl'[n].sems = cl[n].sems
  BY SkipStep
<1>2. \A m \in Name \ {n} : cl'[m] = cl[m]
  BY <1>1 DEF OnlyClient
<1>3. Requests'
  BY <1>1, <1>2 DEF TableInv, Requests, Requesting, Writing
<1> QED
  BY <1>1, <1>3, ClientFrame

LEMMA TakeKeeps ==
  ASSUME Types, TableInv, NEW n \in Name, RequestTake(n)
  PROVE  TableInv'
<1>1. /\ OnlyClient(n) /\ UNCHANGED reserved /\ cl[n].pc = "scan" /\ ~reserved[cl[n].slot]
      /\ cl'[n].pc = "write" /\ cl'[n].slot = cl[n].slot /\ cl'[n].sems = cl[n].sems
      /\ \A j \in Slot : /\ row'[j].asked = row[j].asked
                         /\ row'[j].created = row[j].created /\ row'[j].sems = row[j].sems
  BY TakeStep
<1>2. \A m \in Name \ {n} : cl'[m] = cl[m]
  BY <1>1 DEF OnlyClient
<1>3. \A m \in Name : cl[m].slot \in Slot
  BY DEF Types, ClientRec
<1>4. Requests'
  BY <1>1, <1>2, <1>3 DEF TableInv, Requests, Requesting, Writing
<1> QED
  BY <1>1, <1>4, ClientFrame

LEMMA WriteKeeps ==
  ASSUME Types, TableInv, NEW n \in Name, RequestWrite(n)
  PROVE  TableInv'
<1>1. PICK i \in Slot : i = cl[n].slot
  BY WriteStep
<1>2. /\ OnlyClient(n) /\ UNCHANGED reserved /\ cl[n].pc = "write"
      /\ cl'[n].pc = "reserve" /\ cl'[n].slot = i /\ cl'[n].sems = cl[n].sems
      /\ OnlyRow(i) /\ ~row'[i].created /\ \A j \in Slot : row'[j].sems = row[j].sems
  BY <1>1, WriteStep
<1>3. /\ \A m \in Name \ {n} : cl'[m] = cl[m]
      /\ \A j \in Slot \ {i} : row'[j] = row[j]
  BY <1>2 DEF OnlyClient, OnlyRow
<1>4. ~reserved[i] /\ \A m \in Name \ {n} : ~Requesting(m)
  BY <1>1, <1>2 DEF TableInv, Requests, Requesting, Writing
<1>5. Requests'
  BY <1>2, <1>3, <1>4 DEF Requests, Requesting, Writing
<1>6. \A j \in Slot : reserved[j] => j # i
  BY <1>4
<1> QED
  BY <1>2, <1>3, <1>4, <1>5, <1>6, ClientFrame

LEMMA ReserveKeeps ==
  ASSUME Types, TableInv, NEW n \in Name, RequestReserve(n)
  PROVE  TableInv'
<1>1. PICK i \in Slot : i = cl[n].slot
  BY ReserveStep
<1>2. /\ OnlyClient(n) /\ UNCHANGED row /\ cl[n].pc = "reserve"
      /\ cl'[n].pc = "await" /\ cl'[n].sems = cl[n].sems
      /\ reserved'[i] /\ \A j \in Slot \ {i} : reserved'[j] = reserved[j]
  BY <1>1, ReserveStep
<1>3. \A m \in Name \ {n} : cl'[m] = cl[m]
  BY <1>2 DEF OnlyClient
<1>4. ~row[i].created /\ \A m \in Name \ {n} : ~Requesting(m)
  BY <1>1, <1>2 DEF TableInv, Requests, Requesting, Writing
<1>5. Requests'
  BY <1>2, <1>3, <1>4 DEF Requests, Requesting, Writing
<1>6. /\ \A j \in Slot : reserved[j] => reserved'[j]
      /\ \A j \in Slot : reserved'[j] /\ ~reserved[j] => ~row[j].created
  BY <1>2, <1>4
<1> QED
  BY <1>2, <1>5, <1>6, ClientFrame

(* The steps after request_slot need no more than that.                    *)
LEMMA RequestsKept ==
  ASSUME TableInv, NEW n \in Name, OnlyClient(n), UNCHANGED reserved,
         \A j \in Slot : row'[j].created = row[j].created,
         cl'[n].pc \notin {"scan"} \cup Writing, Types
  PROVE  Requests'
<1>1. \A m \in Name \ {n} : cl'[m] = cl[m]
  BY DEF OnlyClient
<1>2. \A m \in Name : cl[m].slot \in Slot
  BY DEF Types, ClientRec
<1> QED
  BY <1>1, <1>2 DEF TableInv, Requests, Requesting, Writing

LEMMA OpenCloseKeeps ==
  ASSUME Types, TableInv, NEW n \in Name,
         OpenPair(n) \/ OpenAttach(n) \/ CloseFind(n) \/ CloseDetach(n)
  PROVE  TableInv'
<1>1. CASE OpenPair(n)
  <2>1. /\ OnlyClient(n) /\ UNCHANGED <<reserved, row>> /\ cl[n].slot \in Slot
        /\ cl'[n].pc = "attach"
        /\ cl'[n].sems = << >> \/ cl'[n].sems = row[cl[n].slot].sems
    BY <1>1, PairStep
  <2>2. Requests'
    BY <2>1, RequestsKept DEF Writing
  <2> QED
    BY <2>1, <2>2, ClientFrame
<1>2. CASE OpenAttach(n)
  <2>1. /\ OnlyClient(n) /\ UNCHANGED reserved /\ cl'[n].pc = "open"
        /\ cl'[n].sems = cl[n].sems
        /\ \A j \in Slot : /\ row'[j].asked = row[j].asked
                           /\ row'[j].created = row[j].created /\ row'[j].sems = row[j].sems
    BY <1>2, AttachStep
  <2>2. Requests'
    BY <2>1, RequestsKept DEF Writing
  <2> QED
    BY <2>1, <2>2, ClientFrame
<1>3. CASE CloseFind(n)
  <2>1. /\ OnlyClient(n) /\ UNCHANGED <<reserved, row>> /\ cl'[n].pc \in {"detach", "start"}
        /\ cl'[n].sems = cl[n].sems \/ cl'[n].sems = << >>
    BY <1>3, FindStep
  <2>2. Requests'
    BY <2>1, RequestsKept DEF Writing
  <2> QED
    BY <2>1, <2>2, ClientFrame
<1>4. CASE CloseDetach(n)
  <2>1. /\ OnlyClient(n) /\ UNCHANGED reserved /\ cl'[n].pc = "start"
        /\ cl'[n].sems = << >>
        /\ \A j \in Slot : /\ row'[j].asked = row[j].asked
                           /\ row'[j].created = row[j].created /\ row'[j].sems = row[j].sems
    BY <1>4, DetachStep
  <2>2. Requests'
    BY <2>1, RequestsKept DEF Writing
  <2> QED
    BY <2>1, <2>2, ClientFrame
<1> QED
  BY <1>1, <1>2, <1>3, <1>4

-----------------------------------------------------------------------------
(* The steps of manage_pool and the restart keep the invariant             *)

(* Steps that touch no row and no client.                                  *)
LEMMA SetsFrame ==
  ASSUME Types, TableInv, UNCHANGED <<reserved, row, cl, boot, late, clashed>>,
         sets' \in Seq(SetRec), DOMAIN sets \subseteq DOMAIN sets',
         \A s \in DOMAIN sets' : sets'[s].boot <= boot,
         rn' \in RunnerRec, \A k \in DOMAIN rn'.sems : rn'.sems[k] \in DOMAIN sets',
         RunnerInv'
  PROVE  Types' /\ TableInv'
<1>1. Types'
  BY DEF Types
<1>2. Known'
  BY DEF TableInv, Known
<1>3. Requests' /\ RowsServed'
  BY DEF TableInv, Requests, Requesting, RowsServed, InUse
<1> QED
  BY <1>1, <1>2, <1>3 DEF TableInv

LEMMA UseKeeps ==
  ASSUME Types, TableInv, NEW n \in Name, NEW k \in Sem, UseQueue(n, k)
  PROVE  TableInv'
<1>1. /\ Types' /\ UNCHANGED <<reserved, row, cl, rn, boot, late, clashed>>
      /\ DOMAIN sets' = DOMAIN sets /\ k \in DOMAIN cl[n].sems
      /\ \A t \in DOMAIN sets : SameSet(t) /\ (t # cl[n].sems[k] => sets'[t] = sets[t])
  BY UseStep
<1>2. \A t \in DOMAIN sets' : sets'[t].boot <= boot
  BY <1>1 DEF TableInv, Known, SameSet
<1>3. RunnerInv'
  <2>1. ASSUME rn.pc = "semop"
        PROVE  rn.sems[Now] \in DOMAIN sets /\ rn.sems[Now] # cl[n].sems[k]
    <3>1. Now \in Sem /\ rn.sems[Now] \notin Range(cl[n].sems)
      BY <2>1 DEF TableInv, RunnerInv
    <3>2. Now \in DOMAIN rn.sems
      BY <3>1, RunnerSems DEF Sem
    <3> QED
      BY <1>1, <3>1, <3>2 DEF TableInv, Known, Range
  <2>2. Now' = Now
    BY <1>1 DEF Now
  <2> QED
    BY <1>1, <2>1, <2>2 DEF TableInv, RunnerInv, Serving
<1> QED
  BY <1>1, <1>2, <1>3, SetsFrame DEF Types, TableInv, Known

LEMMA SemgetNewKeeps ==
  ASSUME Types, TableInv, SemgetNew
  PROVE  Types' /\ TableInv'
<1>1. PICK l \in Nat : l = Len(sets) + 1
  BY NewSet
<1>2. /\ UNCHANGED <<reserved, row, cl, boot, late, clashed>> /\ Now \in 0..5
      /\ DOMAIN sets = 1..(l - 1) /\ sets' \in Seq(SetRec) /\ DOMAIN sets' = 1..l
      /\ \A s \in DOMAIN sets : sets'[s] = sets[s]
      /\ sets'[l].val = 0 /\ sets'[l].boot = boot
      /\ rn' \in RunnerRec /\ rn'.pc = "semop" /\ rn'.i = rn.i
      /\ Len(rn'.sems) = Now + 1 /\ DOMAIN rn'.sems = 1..(Now + 1)
      /\ rn'.sems[Now + 1] = l
      /\ \A k \in 1..Now : rn'.sems[k] = rn.sems[k]
  BY <1>1, NewSet
<1>3. Known /\ boot \in Nat /\ rn.pc = "semget"
  BY NewSet DEF TableInv, Types
<1>4. \A s \in DOMAIN sets' : sets'[s].boot <= boot
  <2>1. \A s \in DOMAIN sets' : s \in DOMAIN sets \/ s = l
    BY <1>1, <1>2
  <2> QED
    BY <1>2, <1>3, <2>1 DEF Known
<1>5. \A k \in DOMAIN rn'.sems : rn'.sems[k] \in DOMAIN sets'
  <2>1. \A k \in 1..Now : rn.sems[k] \in DOMAIN sets
    BY <1>3, RunnerSems DEF Known
  <2>2. DOMAIN sets \subseteq DOMAIN sets' /\ l \in DOMAIN sets'
    BY <1>1, <1>2
  <2>3. \A k \in DOMAIN rn'.sems : k \in 1..Now \/ k = Now + 1
    BY <1>2
  <2> QED
    BY <1>2, <2>1, <2>2, <2>3
<1>6. RunnerInv'
  <2>1. /\ \A i \in Slot : l \notin Range(row[i].sems)
        /\ \A n \in Name : l \notin Range(cl[n].sems)
    <3>1. l \notin DOMAIN sets
      BY <1>1, <1>2
    <3> QED
      BY <1>3, <3>1 DEF Known, Range
  <2>2. Now' = Now + 1 /\ Now + 1 \in Sem
    <3>1. Now' = Now + 1
      BY <1>2, Zenon DEF Now
    <3> QED
      BY <1>2, <3>1 DEF Sem
  <2>3. Serving' => reserved'[rn'.i] /\ ~row'[rn'.i].created /\ row'[rn'.i].asked
    BY <1>2, <1>3 DEF TableInv, RunnerInv, Serving
  <2>4. rn'.sems[Now'] = l
    BY <1>2, <2>2
  <2> QED
    BY <1>2, <2>1, <2>2, <2>3, <2>4 DEF RunnerInv
<1> QED
  BY <1>1, <1>2, <1>4, <1>5, <1>6, SetsFrame

LEMMA SemopKeeps ==
  ASSUME Types, TableInv, Semop
  PROVE  Types' /\ TableInv'
<1>1. /\ UNCHANGED <<reserved, row, cl, boot, late, clashed>>
      /\ rn.pc = "semop" /\ Now \in Sem
      /\ sets' \in Seq(SetRec) /\ DOMAIN sets' = DOMAIN sets
      /\ \A t \in DOMAIN sets : SameSet(t)
      /\ rn' \in RunnerRec /\ rn'.pc = After(Now) /\ rn'.i = rn.i /\ rn'.sems = rn.sems
  BY SemopStep
<1>2. \A t \in DOMAIN sets' : sets'[t].boot <= boot
  BY <1>1 DEF TableInv, Known, SameSet
<1>3. Now' = Now
  BY <1>1 DEF Now
<1>4. RunnerInv'
  BY <1>1, <1>3, AfterSem DEF TableInv, RunnerInv, Serving
<1> QED
  BY <1>1, <1>2, <1>4, SetsFrame DEF TableInv, Known

LEMMA SemgetOldKeeps ==
  ASSUME Types, TableInv, SemgetOld
  PROVE  Types' /\ TableInv'
<1>1. /\ UNCHANGED <<sets, reserved, row, cl, boot, late, clashed>>
      /\ rn.pc = "semget" /\ Now \in 0..5 /\ rn' \in RunnerRec /\ rn'.i = rn.i
      /\ sets \in Seq(SetRec)
  BY OldSet DEF Types
<1>2. PICK s \in DOMAIN sets :
        \/ /\ rn'.pc = After(Now + 1)
           /\ Len(rn'.sems) = Now + 1 /\ DOMAIN rn'.sems = 1..(Now + 1)
           /\ rn'.sems[Now + 1] = s /\ \A k \in 1..Now : rn'.sems[k] = rn.sems[k]
        \/ rn'.pc = "exited" /\ rn'.sems = rn.sems
  BY OldSet
<1>3. \A k \in DOMAIN rn.sems : rn.sems[k] \in DOMAIN sets
  BY DEF TableInv, Known
<1>4. \A t \in DOMAIN sets : sets[t].boot <= boot
  BY DEF TableInv, Known
<1>5. CASE rn'.pc = "exited" /\ rn'.sems = rn.sems
  <2>1. RunnerInv'
    BY <1>5 DEF RunnerInv, Serving
  <2> QED
    BY <1>1, <1>3, <1>4, <1>5, <2>1, SetsFrame
<1>6. CASE /\ rn'.pc = After(Now + 1)
           /\ Len(rn'.sems) = Now + 1 /\ DOMAIN rn'.sems = 1..(Now + 1)
           /\ rn'.sems[Now + 1] = s /\ \A k \in 1..Now : rn'.sems[k] = rn.sems[k]
  <2>1. Now' = Now + 1
    BY <1>6, Zenon DEF Now
  <2>2. Now + 1 \in Sem
    BY <1>1 DEF Sem
  <2>3. \A k \in DOMAIN rn'.sems : rn'.sems[k] \in DOMAIN sets
    <3>1. \A k \in DOMAIN rn'.sems : k \in 1..Now \/ k = Now + 1
      BY <1>1, <1>6
    <3> QED
      BY <1>3, <1>6, <3>1, RunnerSems
  <2>4. RunnerInv'
    BY <1>1, <1>6, <2>1, <2>2, AfterSem DEF TableInv, RunnerInv, Serving
  <2> QED
    BY <1>1, <1>4, <2>3, <2>4, SetsFrame
<1> QED
  BY <1>2, <1>5, <1>6

LEMMA WaitKeeps ==
  ASSUME Types, TableInv, Wait
  PROVE  Types' /\ TableInv'
<1>1. /\ UNCHANGED <<reserved, row, cl, boot, late, clashed>>
      /\ rn.pc = "wait" /\ Now \in Empties
      /\ sets' \in Seq(SetRec) /\ DOMAIN sets' = DOMAIN sets
      /\ \A t \in DOMAIN sets : SameSet(t)
      /\ rn' \in RunnerRec /\ rn'.pc = "semget" /\ rn'.i = rn.i /\ rn'.sems = rn.sems
  BY WaitStep
<1>2. \A t \in DOMAIN sets' : sets'[t].boot <= boot
  BY <1>1 DEF TableInv, Known, SameSet
<1>3. Now' = Now /\ Now < 6
  <2>1. Now' = Now
    BY <1>1 DEF Now
  <2> QED
    BY <1>1, <2>1 DEF Empties
<1>4. RunnerInv'
  BY <1>1, <1>3 DEF TableInv, RunnerInv, Serving
<1> QED
  BY <1>1, <1>2, <1>4, SetsFrame DEF TableInv, Known

(* Steps of manage_pool that only move it.                                 *)
LEMMA MoveKeeps ==
  ASSUME Types, TableInv, Service \/ CleanUp \/ ClearSlot
  PROVE  TableInv'
<1>0. \A k \in DOMAIN rn.sems : rn.sems[k] \in DOMAIN sets
  BY DEF TableInv, Known
<1>1. /\ Types' /\ UNCHANGED <<sets, reserved, row, cl, boot, late, clashed>>
      /\ rn' \in RunnerRec /\ sets \in Seq(SetRec)
  BY ServiceStep, CleanUpStep, ClearSlotStep DEF Types
<1>2. \A t \in DOMAIN sets : sets[t].boot <= boot
  BY DEF TableInv, Known
<1>3. CASE rn'.sems = rn.sems /\ rn'.pc \in {"exited", "cleanup", "clear", "wipe", "service"}
  <2>1. rn'.pc # "exited" => rn.sems = << >>
    BY <1>3, ServiceStep, CleanUpStep, ClearSlotStep DEF TableInv, RunnerInv
  <2>2. RunnerInv'
    BY <1>3, <2>1 DEF RunnerInv, Serving
  <2> QED
    BY <1>0, <1>1, <1>2, <1>3, <2>2, SetsFrame
<1>4. CASE Service
  <2>1. /\ rn.pc = "service" /\ rn'.i = rn.i /\ rn'.sems = rn.sems
        /\ \/ reserved[rn.i] /\ ~row[rn.i].created /\ row[rn.i].asked /\ rn'.pc = "semget"
           \/ rn'.pc \in {"exited", "cleanup"}
    BY <1>4, ServiceStep
  <2>2. CASE rn'.pc = "semget"
    <3>1. Now' < 6
      <4>1. rn'.sems = << >>
        BY <2>1 DEF TableInv, RunnerInv
      <4>2. Len(<< >>) = 0
        BY EmptySeq
      <4> QED
        BY <4>1, <4>2 DEF Now
    <3>2. RunnerInv'
      BY <1>1, <2>1, <2>2, <3>1 DEF RunnerInv, Serving
    <3> QED
      BY <1>0, <1>1, <1>2, <2>1, <3>2, SetsFrame
  <2> QED
    BY <1>3, <2>1, <2>2
<1>5. CASE CleanUp
  <2>1. /\ rn'.i = rn.i /\ rn.i \in Slot
        /\ \/ rn'.pc \in {"clear", "exited"} /\ rn'.sems = rn.sems
           \/ /\ rn'.pc = "destroy" /\ rn'.sems = row[rn.i].sems
              /\ Len(row[rn.i].sems) >= 1
    BY <1>5, CleanUpStep
  <2>2. CASE /\ rn'.pc = "destroy" /\ rn'.sems = row[rn.i].sems
             /\ Len(row[rn.i].sems) >= 1
    <3>1. Now' >= 1
      BY <2>2 DEF Now
    <3>2. RunnerInv'
      BY <2>2, <3>1 DEF RunnerInv, Serving
    <3>3. \A k \in DOMAIN rn'.sems : rn'.sems[k] \in DOMAIN sets
      BY <2>1, <2>2 DEF TableInv, Known
    <3> QED
      BY <1>1, <1>2, <3>2, <3>3, SetsFrame
  <2> QED
    BY <1>3, <2>1, <2>2
<1>6. CASE ClearSlot
  BY <1>3, <1>6, ClearSlotStep
<1> QED
  BY <1>4, <1>5, <1>6

LEMMA PublishKeeps ==
  ASSUME Types, TableInv, Publish
  PROVE  Types' /\ TableInv'
<1>0. PICK i \in Slot : i = rn.i
  BY PublishStep
<1>1. /\ UNCHANGED <<sets, reserved, cl, boot, late, clashed>> /\ Len(rn.sems) = 6
      /\ rn' \in RunnerRec /\ rn'.pc = "cleanup"
      /\ rn'.sems = << >> /\ DOMAIN rn'.sems = {}
      /\ row' \in [Slot -> RowRec] /\ \A j \in Slot \ {i} : row'[j] = row[j]
      /\ row'[i].created /\ row'[i].sems = rn.sems /\ row'[i].asked = row[i].asked
      /\ rn.pc = "publish"
  BY <1>0, PublishStep DEF Now
<1>2. Types'
  BY <1>1 DEF Types
<1>3. Known'
  <2>1. \A j \in Slot : row'[j].sems = row[j].sems \/ row'[j].sems = rn.sems
    BY <1>1
  <2> QED
    BY <1>1, <2>1 DEF TableInv, Known
<1>4. RunnerInv'
  BY <1>1 DEF RunnerInv, Serving
<1>5. reserved[i] /\ row[i].asked
  BY <1>0, <1>1 DEF TableInv, RunnerInv, Serving
<1>6. RowsServed'
  BY <1>1, <1>5 DEF TableInv, RowsServed, InUse
<1>7. Requests'
  <2>1. \A m \in Name : cl[m].pc = "reserve" => cl[m].slot \in Slot /\ cl[m].slot # i
    BY <1>5 DEF TableInv, Requests, Writing, Types, ClientRec
  <2> QED
    BY <1>1, <2>1 DEF TableInv, Requests, Requesting
<1> QED
  BY <1>2, <1>3, <1>4, <1>6, <1>7 DEF TableInv

LEMMA DestroyKeeps ==
  ASSUME Types, TableInv, destroy_semaphores
  PROVE  TableInv'
<1>1. /\ Types' /\ UNCHANGED <<reserved, row, cl, boot, late, clashed>>
      /\ DOMAIN sets' = DOMAIN sets
      /\ \A k \in DOMAIN rn'.sems : rn'.sems[k] \in Range(rn.sems)
      /\ \A t \in DOMAIN sets : sets'[t].boot = 0 \/ sets'[t] = sets[t]
      /\ \/ rn'.pc = "clear" /\ rn'.sems = << >>
         \/ rn'.pc = "destroy" /\ Now' >= 1
  BY DestroyStep
<1>2. boot \in Nat /\ Known /\ sets' \in Seq(SetRec) /\ rn' \in RunnerRec
  BY <1>1 DEF Types, TableInv
<1>3. \A s \in DOMAIN sets' : sets'[s].boot <= boot
  BY <1>1, <1>2 DEF Known
<1>4. RunnerInv'
  BY <1>1 DEF RunnerInv, Serving
<1>5. \A k \in DOMAIN rn'.sems : rn'.sems[k] \in DOMAIN sets'
  BY <1>1, <1>2 DEF Known, Range
<1> QED
  BY <1>1, <1>2, <1>3, <1>4, <1>5, SetsFrame

LEMMA ClearKeeps ==
  ASSUME Types, TableInv, ClearRow \/ ClearFree
  PROVE  TableInv'
<1>0. PICK i \in Slot : i = rn.i
  BY RunnerSems
<1>1. /\ UNCHANGED <<sets, cl, boot>> /\ rn'.sems = rn.sems /\ rn'.pc \in {"free", "service"}
      /\ \A j \in Slot : reserved'[j] => reserved[j]
      /\ \A j \in Slot : row'[j] = row[j] \/ row'[j] = ZeroRow
  BY ClearRowStep, ClearFreeStep DEF OnlyRow
<1>6. rn.sems = << >>
  BY ClearRowStep, ClearFreeStep DEF TableInv, RunnerInv
<1>2. Known'
  BY <1>1, ZeroRowType DEF TableInv, Known
<1>3. RunnerInv'
  BY <1>1, <1>6 DEF RunnerInv, Serving
<1>4. RowsServed'
  BY <1>1, ZeroRowType DEF TableInv, RowsServed, InUse
<1>5. Requests'
  <2>1. \A m \in Name : cl[m].slot \in Slot
    BY DEF Types, ClientRec
  <2> QED
    BY <1>1, <2>1, ZeroRowType DEF TableInv, Requests, Requesting
<1> QED
  BY <1>2, <1>3, <1>4, <1>5 DEF TableInv

LEMMA KillKeeps ==
  ASSUME Types, TableInv, KillAndRestart
  PROVE  TableInv'
<1>1. /\ UNCHANGED <<sets, row>> /\ boot' = boot + 1 /\ boot \in Nat
      /\ \A i \in Slot : ~reserved'[i]
      /\ \A n \in Name : cl'[n] = NewClient
      /\ rn' = NewRunner
  BY KillStep
<1>2. Known'
  <2>1. \A s \in DOMAIN sets : sets[s].boot \in Nat
    <3>1. \A s \in DOMAIN sets : sets[s] \in SetRec
      BY LenProperties, ElementOfSeq DEF Types
    <3> QED
      BY <3>1 DEF SetRec
  <2>2. \A s \in DOMAIN sets : sets[s].boot <= boot + 1
    BY <1>1, <2>1 DEF TableInv, Known
  <2> QED
    BY <1>1, <2>2, NewRunnerType, NewClientType DEF TableInv, Known
<1>3. RunnerInv'
  BY <1>1, NewRunnerType DEF RunnerInv, Serving
<1>4. Requests' /\ RowsServed'
  BY <1>1, NewClientType DEF Requests, Requesting, Writing, RowsServed, InUse
<1> QED
  BY <1>2, <1>3, <1>4 DEF TableInv

LEMMA InitKeeps == Init => Types /\ TableInv
<1> SUFFICES ASSUME Init PROVE Types /\ TableInv
  OBVIOUS
<1>1. sets \in Seq(SetRec) /\ DOMAIN sets = {}
  <2>1. sets = << >>
    BY DEF Init
  <2> QED
    BY <2>1, EmptySeq
<1>2. /\ reserved \in [Slot -> BOOLEAN] /\ row \in [Slot -> RowRec]
      /\ \A i \in Slot : row[i] = ZeroRow /\ ~reserved[i]
  BY ZeroRowType DEF Init
<1>3. cl \in [Name -> ClientRec] /\ \A n \in Name : cl[n] = NewClient
  BY NewClientType DEF Init
<1>4. rn = NewRunner /\ boot \in 0..MaxRestarts /\ late = {} /\ clashed = {}
  BY Bounds DEF Init
<1>5. Types
  BY <1>1, <1>2, <1>3, <1>4, NewRunnerType DEF Types
<1>6. Known /\ RunnerInv
  BY <1>1, <1>2, <1>3, <1>4, NewRunnerType, NewClientType, ZeroRowType
     DEF Known, RunnerInv, Serving
<1>7. Requests /\ RowsServed
  BY <1>2, <1>3, NewClientType DEF Requests, Requesting, Writing, RowsServed, InUse
<1> QED
  BY <1>5, <1>6, <1>7 DEF TableInv

LEMMA NextKeeps ==
  ASSUME Types, TableInv, [Next]_vars
  PROVE  Types' /\ TableInv'
<1>1. ASSUME NEW n \in Name, ClientStep(n) PROVE Types'
  BY <1>1, LockStep, SkipStep, TakeStep, WriteStep, ReserveStep, PairStep, AttachStep,
     FindStep, DetachStep DEF ClientStep
<1>2. ASSUME NEW n \in Name, ClientStep(n) PROVE TableInv'
  BY <1>2, LockKeeps, SkipKeeps, TakeKeeps, WriteKeeps, ReserveKeeps, OpenCloseKeeps
     DEF ClientStep
<1>3. ASSUME NEW n \in Name, NEW k \in Sem, UseQueue(n, k) PROVE Types' /\ TableInv'
  BY <1>3, UseStep, UseKeeps
<1>4. CASE PoolStep
  <2>1. Types'
    BY <1>4, ServiceStep, SemgetNewKeeps, SemopKeeps, SemgetOldKeeps, WaitKeeps, PublishKeeps,
       CleanUpStep, DestroyStep, ClearSlotStep, ClearRowStep, ClearFreeStep DEF PoolStep
  <2>2. TableInv'
    BY <1>4, MoveKeeps, SemgetNewKeeps, SemopKeeps, SemgetOldKeeps, WaitKeeps, PublishKeeps,
       DestroyKeeps, ClearKeeps DEF PoolStep
  <2> QED
    BY <2>1, <2>2
<1>5. CASE KillAndRestart
  BY <1>5, KillStep, KillKeeps
<1>6. CASE UNCHANGED vars
  BY <1>6 DEF vars, tableVars, auxVars, Types, TableInv, Known, RunnerInv, Serving, Now,
    Requests, Requesting, RowsServed, InUse
<1> QED
  BY <1>1, <1>2, <1>3, <1>4, <1>5, <1>6 DEF Next

(***************************************************************************)
(* Types: every semid in a row, in a client's queues or in the hands of    *)
(* queue_create names a set that was made, and no value passes SemMax or   *)
(* falls below 0, however the clients, manage_pool and the restarts of the *)
(* server interleave.                                                      *)
(***************************************************************************)
THEOREM TypeCorrect == Spec => []TypeOK
<1>1. Types /\ TableInv => TypeOK
  <2> SUFFICES ASSUME Types, TableInv PROVE TypeOK
    OBVIOUS
  <2>1. /\ sets \in Seq([key : Nat, val : 0..SemMax, otime : BOOLEAN, live : BOOLEAN,
                         boot : 0..boot])
    <3>1. Len(sets) \in Nat /\ DOMAIN sets = 1..Len(sets) /\ \A s \in DOMAIN sets : sets[s] \in SetRec
      BY LenProperties, ElementOfSeq DEF Types
    <3>2. \A s \in DOMAIN sets : sets[s].boot <= boot
      BY DEF TableInv, Known
    <3> DEFINE R == [key : Nat, val : 0..SemMax, otime : BOOLEAN, live : BOOLEAN,
                     boot : 0..boot]
    <3>3. \A s \in DOMAIN sets : sets[s] \in R
      BY <3>1, <3>2 DEF SetRec, Types
    <3> HIDE DEF R
    <3>4. sets \in [1..Len(sets) -> R]
      <4>1. sets \in [1..Len(sets) -> SetRec]
        BY LenProperties DEF Types
      <4> QED
        BY <3>1, <3>3, <4>1
    <3>5. sets \in Seq(R)
      BY <3>1, <3>4, MapSeq
    <3> QED
      BY <3>5 DEF R
  <2>2. /\ Range(rn.sems) \subseteq DOMAIN sets
        /\ \A i \in Slot : Range(row[i].sems) \subseteq DOMAIN sets
        /\ \A n \in Name : Range(cl[n].sems) \subseteq DOMAIN sets
    BY DEF TableInv, Known, Range
  <2>3. /\ \A i \in Slot : row[i].client_id \in Range(client_id) \cup {0}
        /\ \A n \in Name : /\ cl[n].pc \in {"start", "scan"} \cup Writing \cup Having
                           /\ cl[n].slot \in Slot /\ cl[n].opens \in 0..Opens
    BY DEF Types, RowRec, ClientRec, Writing, Having
  <2> QED
    BY <2>1, <2>2, <2>3 DEF TypeOK, Types, RunnerRec
<1> QED
  BY <1>1, InitKeeps, NextKeeps, PTL DEF Spec

-----------------------------------------------------------------------------
(* No semaphore is lost sight of                                           *)

(* The sets that a row's or queue_create's semids name have the keys of    *)
(* the row's client, unless they were removed.                             *)
KeysOfRow(sems, id) ==
  \A k \in DOMAIN sems : sets[sems[k]].live => sets[sems[k]].key = sem_key(id, k)

RowKeys == \A i \in Slot : InUse(i) => KeysOfRow(row[i].sems, row[i].client_id)
RunnerKeys == Serving => KeysOfRow(rn.sems, row[rn.i].client_id)

(* What destroy_semaphores has not removed yet it is going to remove.      *)
Destroying ==
  rn.pc = "destroy" =>
    /\ reserved[rn.i] /\ row[rn.i].detach
    /\ row[rn.i].created =>
         \A s \in Range(row[rn.i].sems) : sets[s].live => s \in Range(rn.sems)

(* What clear_slot forgets was removed, or belongs to a row marked late.   *)
Forgotten(i) == \A s \in Range(row[i].sems) : sets[s].live => s \in late
LeftAtClear ==
  /\ rn.pc = "clear" /\ InUse(rn.i) /\ row[rn.i].detach => Forgotten(rn.i)
  /\ rn.pc = "wipe" /\ InUse(rn.i) => Forgotten(rn.i)
  /\ rn.pc = "free" => ~row[rn.i].created

SightInv == RowKeys /\ RunnerKeys /\ Destroying /\ LeftAtClear /\ NoOrphans

(* A step of a client leaves alone what counts of the reserved rows, and   *)
(* what it marks while manage_pool is at clear_slot is late.               *)
LEMMA ClientSight ==
  ASSUME Types, TableInv, SightInv, NEW n \in Name, OnlyClient(n),
         \A j \in Slot : /\ row'[j].sems = row[j].sems
                         /\ row'[j].created => row[j].created,
         \A j \in Slot : reserved[j] =>
           /\ reserved'[j] /\ row'[j].created = row[j].created
           /\ row'[j].client_id = row[j].client_id
           /\ row[j].detach => row'[j].detach,
         \A j \in Slot : reserved'[j] /\ ~reserved[j] => ~row'[j].created,
         late \subseteq late',
         rn.pc = "clear" /\ row'[rn.i].detach /\ ~row[rn.i].detach =>
           Range(row[rn.i].sems) \subseteq late'
  PROVE  SightInv'
<1>1. UNCHANGED <<sets, rn, boot>> /\ rn.i \in Slot
  BY RunnerSems DEF OnlyClient
<1>2. \A j \in Slot : InUse(j)' <=> InUse(j)
  BY DEF InUse
<1>3. RowKeys'
  BY <1>1, <1>2 DEF SightInv, RowKeys, KeysOfRow, InUse
<1>4. RunnerKeys'
  <2>1. Serving => row'[rn.i].client_id = row[rn.i].client_id
    BY <1>1 DEF TableInv, RunnerInv
  <2> QED
    BY <1>1, <2>1 DEF SightInv, RunnerKeys, KeysOfRow, Serving
<1>5. Destroying'
  BY <1>1 DEF SightInv, Destroying
<1>6. LeftAtClear'
  <2>1. ASSUME Forgotten(rn.i) PROVE Forgotten(rn.i)'
    BY <1>1, <2>1 DEF Forgotten
  <2>2. ASSUME Range(row[rn.i].sems) \subseteq late' PROVE Forgotten(rn.i)'
    BY <1>1, <2>2 DEF Forgotten
  <2> QED
    BY <1>1, <1>2, <2>1, <2>2 DEF SightInv, LeftAtClear
<1>7. NoOrphans'
  BY <1>1, <1>2 DEF SightInv, NoOrphans, InUse
<1> QED
  BY <1>3, <1>4, <1>5, <1>6, <1>7 DEF SightInv

LEMMA RequestSight ==
  ASSUME Types, TableInv, SightInv, NEW n \in Name,
         \/ RequestLock(n) \/ RequestSkip(n) \/ RequestTake(n) \/ RequestWrite(n)
         \/ RequestReserve(n)
  PROVE  SightInv'
<1>0. PICK i \in Slot : i = cl[n].slot
  BY DEF Types, ClientRec
<1>1. CASE RequestLock(n) \/ RequestSkip(n)
  <2>1. OnlyClient(n) /\ UNCHANGED <<reserved, row, late>>
    BY <1>1, LockStep, SkipStep
  <2> QED
    BY <2>1, ClientSight
<1>2. CASE RequestTake(n)
  <2>1. /\ OnlyClient(n) /\ UNCHANGED <<reserved, late>> /\ ~reserved[i] /\ OnlyRow(i)
        /\ \A j \in Slot : /\ row'[j].created = row[j].created
                           /\ row'[j].detach = row[j].detach /\ row'[j].sems = row[j].sems
    BY <1>0, <1>2, TakeStep
  <2>2. rn.i \in Slot /\ \A j \in Slot : reserved[j] => row'[j] = row[j]
    BY <2>1, RunnerSems DEF OnlyRow
  <2> QED
    BY <2>1, <2>2, ClientSight
<1>3. CASE RequestWrite(n)
  <2>1. /\ OnlyClient(n) /\ UNCHANGED <<reserved, late>> /\ cl[n].pc = "write" /\ OnlyRow(i)
        /\ ~row'[i].created /\ ~row'[i].detach
        /\ \A j \in Slot : row'[j].sems = row[j].sems
    BY <1>0, <1>3, WriteStep
  <2>2. ~reserved[i]
    BY <1>0, <2>1 DEF TableInv, Requests, Writing
  <2>3. rn.i \in Slot /\ \A j \in Slot : (reserved[j] \/ j # i) => row'[j] = row[j]
    BY <2>1, <2>2, RunnerSems DEF OnlyRow
  <2>4. \A j \in Slot : row'[j].created => row[j].created
    BY <2>1, <2>3
  <2>5. ~(row'[rn.i].detach /\ ~row[rn.i].detach)
    BY <2>1, <2>3
  <2> QED
    BY <2>1, <2>3, <2>4, <2>5, ClientSight
<1>4. CASE RequestReserve(n)
  <2>1. /\ OnlyClient(n) /\ UNCHANGED <<row, late>> /\ cl[n].pc = "reserve"
        /\ reserved'[i] /\ \A j \in Slot \ {i} : reserved'[j] = reserved[j]
    BY <1>0, <1>4, ReserveStep
  <2>2. ~row[i].created
    BY <1>0, <2>1 DEF TableInv, Requests
  <2>3. /\ \A j \in Slot : reserved[j] => reserved'[j]
        /\ \A j \in Slot : reserved'[j] /\ ~reserved[j] => ~row[j].created
    BY <2>1, <2>2
  <2> QED
    BY <2>1, <2>3, ClientSight
<1> QED
  BY <1>1, <1>2, <1>3, <1>4

LEMMA OpenCloseSight ==
  ASSUME Types, TableInv, SightInv, NEW n \in Name,
         OpenPair(n) \/ OpenAttach(n) \/ CloseFind(n) \/ CloseDetach(n)
  PROVE  SightInv'
<1>0. PICK i \in Slot : i = cl[n].slot
  BY DEF Types, ClientRec
<1>1. CASE OpenPair(n) \/ CloseFind(n)
  <2>1. OnlyClient(n) /\ UNCHANGED <<reserved, row, late>>
    BY <1>1, PairStep, FindStep
  <2> QED
    BY <2>1, ClientSight
<1>2. CASE OpenAttach(n)
  <2>1. /\ OnlyClient(n) /\ UNCHANGED <<reserved, late>>
        /\ \A j \in Slot : /\ row'[j].client_id = row[j].client_id
                           /\ row'[j].created = row[j].created
                           /\ row'[j].detach = row[j].detach /\ row'[j].sems = row[j].sems
    BY <1>2, AttachStep
  <2>2. rn.i \in Slot
    BY RunnerSems
  <2> QED
    BY <2>1, <2>2, ClientSight
<1>3. CASE CloseDetach(n)
  <2>1. /\ OnlyClient(n) /\ UNCHANGED reserved /\ OnlyRow(i) /\ row'[i].detach
        /\ \A j \in Slot : /\ row'[j].client_id = row[j].client_id
                           /\ row'[j].created = row[j].created /\ row'[j].sems = row[j].sems
        /\ late \subseteq late'
        /\ rn.pc = "clear" /\ rn.i = i => Range(row[i].sems) \subseteq late'
    BY <1>0, <1>3, DetachStep
  <2>2. rn.i \in Slot /\ \A j \in Slot : row[j].detach => row'[j].detach
    BY <2>1, RunnerSems DEF OnlyRow
  <2>3. row'[rn.i].detach /\ ~row[rn.i].detach => rn.i = i
    BY <2>1, <2>2 DEF OnlyRow
  <2>4. rn.pc = "clear" /\ row'[rn.i].detach /\ ~row[rn.i].detach =>
          Range(row[rn.i].sems) \subseteq late'
    BY <2>1, <2>3
  <2> QED
    BY <2>1, <2>2, <2>4, ClientSight
<1> QED
  BY <1>1, <1>2, <1>3

(* A step that leaves the rows alone, keeps what sets are, and lets none   *)
(* go of those in the hands of manage_pool.                                *)
LEMMA SightFrame ==
  ASSUME Types, TableInv, SightInv, UNCHANGED <<reserved, row, boot, late>>,
         DOMAIN sets' = DOMAIN sets, \A t \in DOMAIN sets : SameSet(t),
         Range(rn.sems) \subseteq Range(rn'.sems),
         RunnerKeys', Destroying', LeftAtClear'
  PROVE  SightInv'
<1>1. RowKeys'
  BY DEF SightInv, RowKeys, KeysOfRow, InUse, TableInv, Known, SameSet
<1>2. NoOrphans'
  BY DEF SightInv, NoOrphans, SameSet
<1> QED
  BY <1>1, <1>2 DEF SightInv

LEMMA UseSight ==
  ASSUME Types, TableInv, SightInv, NEW n \in Name, NEW k \in Sem, UseQueue(n, k)
  PROVE  SightInv'
<1>1. /\ UNCHANGED <<reserved, row, cl, rn, boot, late>> /\ DOMAIN sets' = DOMAIN sets
      /\ \A t \in DOMAIN sets : SameSet(t)
  BY UseStep
<1>2. rn.i \in Slot
  BY RunnerSems
<1>3. Range(row[rn.i].sems) \subseteq DOMAIN sets
  BY <1>2 DEF TableInv, Known, Range
<1>4. RunnerKeys'
  BY <1>1, <1>2 DEF SightInv, RunnerKeys, KeysOfRow, Serving, TableInv, Known, SameSet
<1>5. Destroying' /\ LeftAtClear'
  BY <1>1, <1>2, <1>3 DEF SightInv, Destroying, LeftAtClear, Forgotten, InUse, SameSet
<1> QED
  BY <1>1, <1>4, <1>5, SightFrame

LEMMA NewSight ==
  ASSUME Types, TableInv, SightInv, SemgetNew
  PROVE  SightInv'
<1>1. PICK l \in Nat : l = Len(sets) + 1
  BY NewSet
<1>2. /\ UNCHANGED <<reserved, row, cl, boot, late>> /\ rn.pc = "semget" /\ Now \in 0..5
      /\ DOMAIN sets = 1..(l - 1) /\ DOMAIN sets' = 1..l
      /\ \A s \in DOMAIN sets : sets'[s] = sets[s]
      /\ sets'[l].key = Key
      /\ rn'.pc = "semop" /\ rn'.i = rn.i /\ DOMAIN rn'.sems = 1..(Now + 1)
      /\ rn'.sems[Now + 1] = l
      /\ \A k \in 1..Now : rn'.sems[k] = rn.sems[k]
  BY <1>1, NewSet
<1>3. DOMAIN rn.sems = 1..Now /\ \A k \in 1..Now : rn.sems[k] \in DOMAIN sets
  BY RunnerSems DEF TableInv, Known
<1>4. RowKeys'
  BY <1>2 DEF SightInv, RowKeys, KeysOfRow, InUse, TableInv, Known
<1>5. RunnerKeys'
  <2>1. \A k \in DOMAIN rn'.sems : k \in 1..Now \/ k = Now + 1
    BY <1>2
  <2>2. KeysOfRow(rn.sems, row[rn.i].client_id)
    BY <1>2 DEF SightInv, RunnerKeys, Serving
  <2> QED
    BY <1>2, <1>3, <2>1, <2>2 DEF RunnerKeys, KeysOfRow, Key
<1>6. Destroying' /\ LeftAtClear'
  BY <1>2 DEF Destroying, LeftAtClear
<1>7. NoOrphans'
  <2>1. \A s \in DOMAIN sets' : s \in DOMAIN sets \/ s = l
    BY <1>1, <1>2
  <2>2. l \in Range(rn'.sems) /\ Range(rn.sems) \subseteq Range(rn'.sems)
    <3>1. Now + 1 \in DOMAIN rn'.sems /\ \A k \in 1..Now : k \in DOMAIN rn'.sems
      BY <1>2
    <3> QED
      BY <1>2, <1>3, <3>1 DEF Range
  <2> QED
    BY <1>2, <2>1, <2>2 DEF SightInv, NoOrphans
<1> QED
  BY <1>4, <1>5, <1>6, <1>7 DEF SightInv

LEMMA SemopSight ==
  ASSUME Types, TableInv, SightInv, Semop \/ Wait
  PROVE  SightInv'
<1>1. /\ UNCHANGED <<reserved, row, cl, boot, late>> /\ DOMAIN sets' = DOMAIN sets
      /\ \A t \in DOMAIN sets : SameSet(t)
      /\ Serving /\ rn'.pc \in {"semget", "wait", "publish"}
      /\ rn'.i = rn.i /\ rn'.sems = rn.sems
  BY SemopStep, WaitStep, AfterSem DEF Serving
<1>2. RunnerKeys'
  BY <1>1 DEF SightInv, RunnerKeys, KeysOfRow, TableInv, Known, SameSet
<1>3. Destroying' /\ LeftAtClear'
  BY <1>1 DEF Destroying, LeftAtClear
<1> QED
  BY <1>1, <1>2, <1>3, SightFrame

LEMMA OldSight ==
  ASSUME Types, TableInv, SightInv, SemgetOld
  PROVE  SightInv'
<1>1. /\ UNCHANGED <<sets, reserved, row, cl, boot, late>> /\ rn.pc = "semget" /\ Now \in 0..5
      /\ rn'.i = rn.i
  BY OldSet
<1>2. PICK s \in DOMAIN sets :
        /\ HasKey(s, Key)
        /\ \/ /\ rn'.pc = After(Now + 1) /\ DOMAIN rn'.sems = 1..(Now + 1)
              /\ rn'.sems[Now + 1] = s /\ \A k \in 1..Now : rn'.sems[k] = rn.sems[k]
           \/ rn'.pc = "exited" /\ rn'.sems = rn.sems
  BY OldSet
<1>3. DOMAIN rn.sems = 1..Now /\ KeysOfRow(rn.sems, row[rn.i].client_id)
  BY <1>1, RunnerSems DEF SightInv, RunnerKeys, Serving
<1>4. rn'.pc \in {"wait", "publish", "semget", "exited"}
  BY <1>1, <1>2, AfterSem DEF Sem
<1>5. \A t \in DOMAIN sets : SameSet(t)
  BY <1>1 DEF SameSet
<1>6. Destroying' /\ LeftAtClear'
  BY <1>4 DEF Destroying, LeftAtClear
<1>7. CASE rn'.pc = "exited" /\ rn'.sems = rn.sems
  <2>1. RunnerKeys'
    BY <1>7 DEF RunnerKeys, Serving
  <2> QED
    BY <1>1, <1>5, <1>6, <1>7, <2>1, SightFrame
<1>8. CASE /\ rn'.pc = After(Now + 1) /\ DOMAIN rn'.sems = 1..(Now + 1)
           /\ rn'.sems[Now + 1] = s /\ \A k \in 1..Now : rn'.sems[k] = rn.sems[k]
  <2>1. \A k \in DOMAIN rn'.sems : k \in 1..Now \/ k = Now + 1
    BY <1>1, <1>8
  <2>2. RunnerKeys'
    BY <1>1, <1>2, <1>3, <1>8, <2>1 DEF RunnerKeys, KeysOfRow, HasKey, Key
  <2>3. Range(rn.sems) \subseteq Range(rn'.sems)
    <3>1. \A k \in 1..Now : k \in DOMAIN rn'.sems
      BY <1>1, <1>8
    <3> QED
      BY <1>3, <1>8, <3>1 DEF Range
  <2> QED
    BY <1>1, <1>5, <1>6, <2>2, <2>3, SightFrame
<1> QED
  BY <1>2, <1>7, <1>8

LEMMA MoveSight ==
  ASSUME Types, TableInv, SightInv, Service \/ CleanUp \/ ClearSlot
  PROVE  SightInv'
<1>1. UNCHANGED <<sets, reserved, row, cl, boot, late>> /\ rn.i \in Slot
  BY ServiceStep, CleanUpStep, ClearSlotStep, RunnerSems
<1>2. \A t \in DOMAIN sets : SameSet(t)
  BY <1>1 DEF SameSet
<1>3. rn.sems = << >> /\ DOMAIN rn.sems = {} /\ Range(rn.sems) = {}
  <2>1. rn.sems = << >>
    BY ServiceStep, CleanUpStep, ClearSlotStep DEF TableInv, RunnerInv
  <2> QED
    BY <2>1, NoSems
<1>4. RunnerKeys'
  <2>1. Serving' => rn'.sems = rn.sems
    BY ServiceStep, CleanUpStep, ClearSlotStep DEF Serving
  <2> QED
    BY <1>3, <2>1 DEF RunnerKeys, KeysOfRow
<1>5. Destroying' /\ LeftAtClear'
  <2>1. CASE Service
    <3>1. rn'.pc \in {"semget", "exited", "cleanup"}
      BY <2>1, ServiceStep
    <3> QED
      BY <3>1 DEF Destroying, LeftAtClear
  <2>2. CASE CleanUp
    <3>1. /\ rn'.i = rn.i
          /\ \/ /\ ~(reserved[rn.i] /\ row[rn.i].detach /\ row[rn.i].asked)
                /\ rn'.pc = "clear"
             \/ rn'.pc = "exited"
             \/ /\ reserved[rn.i] /\ row[rn.i].detach
                /\ rn'.pc = "destroy" /\ rn'.sems = row[rn.i].sems
      BY <2>2, CleanUpStep
    <3>2. InUse(rn.i) => row[rn.i].asked
      BY <1>1 DEF TableInv, RowsServed
    <3>3. Destroying'
      BY <1>1, <3>1 DEF Destroying
    <3>4. LeftAtClear'
      BY <1>1, <3>1, <3>2 DEF LeftAtClear, InUse
    <3> QED
      BY <3>3, <3>4
  <2>3. CASE ClearSlot
    <3>1. /\ rn.pc = "clear"
          /\ \/ row[rn.i].detach /\ rn'.pc = "wipe" /\ rn'.i = rn.i
             \/ rn'.pc = "service"
      BY <2>3, ClearSlotStep
    <3>2. Destroying'
      BY <3>1 DEF Destroying
    <3>3. LeftAtClear'
      BY <1>1, <3>1 DEF SightInv, LeftAtClear, Forgotten, InUse
    <3> QED
      BY <3>2, <3>3
  <2> QED
    BY <2>1, <2>2, <2>3
<1> QED
  BY <1>1, <1>2, <1>3, <1>4, <1>5, SightFrame

LEMMA PublishSight ==
  ASSUME Types, TableInv, SightInv, Publish
  PROVE  SightInv'
<1>0. PICK i \in Slot : i = rn.i
  BY PublishStep
<1>1. /\ UNCHANGED <<sets, reserved, cl, boot, late>> /\ rn.pc = "publish"
      /\ rn'.pc = "cleanup" /\ rn'.sems = << >>
      /\ \A j \in Slot \ {i} : row'[j] = row[j]
      /\ row'[i].created /\ row'[i].sems = rn.sems /\ row'[i].client_id = row[i].client_id
  BY <1>0, PublishStep
<1>2. reserved[i] /\ ~row[i].created /\ KeysOfRow(rn.sems, row[i].client_id)
  BY <1>0, <1>1 DEF SightInv, RunnerKeys, TableInv, RunnerInv, Serving
<1>3. RowKeys'
  <2>1. ASSUME NEW j \in Slot, InUse(j)' PROVE KeysOfRow(row[j].sems, row[j].client_id)'
    <3>1. CASE j = i
      BY <1>1, <1>2, <3>1 DEF KeysOfRow
    <3>2. CASE j # i
      <4>1. InUse(j) /\ row'[j] = row[j]
        BY <1>1, <2>1, <3>2 DEF InUse
      <4> QED
        BY <1>1, <4>1 DEF SightInv, RowKeys, KeysOfRow
    <3> QED
      BY <3>1, <3>2
  <2> QED
    BY <2>1 DEF RowKeys
<1>4. RunnerKeys' /\ Destroying' /\ LeftAtClear'
  BY <1>1 DEF RunnerKeys, Serving, Destroying, LeftAtClear
<1>5. NoOrphans'
  <2>1. \A j \in Slot : reserved[j] /\ row[j].created => j # i
    BY <1>2
  <2> QED
    BY <1>1, <1>2, <2>1 DEF SightInv, NoOrphans
<1> QED
  BY <1>3, <1>4, <1>5 DEF SightInv

LEMMA DestroySight ==
  ASSUME Types, TableInv, SightInv, destroy_semaphores
  PROVE  SightInv'
<1>1. /\ UNCHANGED <<reserved, row, cl, boot, late>> /\ rn.pc = "destroy" /\ rn'.i = rn.i
      /\ DOMAIN sets' = DOMAIN sets
      /\ \/ rn'.pc = "clear" /\ rn'.sems = << >>
         \/ rn'.pc = "destroy"
  BY DestroyStep
<1>2. PICK s \in DOMAIN sets :
        /\ ~sets'[s].live
        /\ \A t \in DOMAIN sets : t # s => sets'[t] = sets[t]
        /\ \A t \in Range(rn.sems) : t # s => t \in Range(rn'.sems)
  BY DestroyStep
<1>3. RowKeys'
  <2> SUFFICES ASSUME NEW i \in Slot, InUse(i), NEW k \in DOMAIN row[i].sems,
                      sets'[row[i].sems[k]].live
               PROVE  sets'[row[i].sems[k]].key = sem_key(row[i].client_id, k)
    BY <1>1 DEF RowKeys, KeysOfRow, InUse
  <2>1. row[i].sems[k] \in DOMAIN sets /\ row[i].sems[k] # s
    BY <1>2 DEF TableInv, Known
  <2> QED
    BY <1>2, <2>1 DEF SightInv, RowKeys, KeysOfRow
<1>4. RunnerKeys'
  BY <1>1 DEF RunnerKeys, Serving
<1>5. rn.i \in Slot /\ Range(row[rn.i].sems) \subseteq DOMAIN sets
  BY RunnerSems DEF TableInv, Known, Range
<1>6. row[rn.i].created => \A t \in Range(row[rn.i].sems) : sets'[t].live => t \in Range(rn'.sems)
  BY <1>1, <1>2, <1>5 DEF SightInv, Destroying
<1>7. Destroying'
  BY <1>1, <1>6 DEF SightInv, Destroying
<1>8. LeftAtClear'
  <2>1. rn'.pc = "clear" => Range(rn'.sems) = {}
    BY <1>1, NoSems
  <2> QED
    BY <1>1, <1>6, <2>1 DEF LeftAtClear, Forgotten, InUse
<1>9. NoOrphans'
  BY <1>1, <1>2 DEF SightInv, NoOrphans
<1> QED
  BY <1>3, <1>4, <1>7, <1>8, <1>9 DEF SightInv

LEMMA ClearRowSight ==
  ASSUME Types, TableInv, SightInv, ClearRow
  PROVE  SightInv'
<1>0. PICK i \in Slot : i = rn.i
  BY RunnerSems
<1>1. /\ UNCHANGED <<sets, reserved, cl, boot, late>> /\ rn.pc = "wipe"
      /\ rn'.pc = "free" /\ rn'.i = i /\ rn'.sems = rn.sems
      /\ row'[i] = ZeroRow /\ \A j \in Slot \ {i} : row'[j] = row[j]
  BY <1>0, ClearRowStep DEF OnlyRow
<1>2. \A j \in Slot : InUse(j)' <=> InUse(j) /\ j # i
  BY <1>1, ZeroRowType DEF InUse
<1>3. RowKeys'
  BY <1>1, <1>2 DEF SightInv, RowKeys, KeysOfRow
<1>4. RunnerKeys' /\ Destroying' /\ LeftAtClear'
  BY <1>1, ZeroRowType DEF RunnerKeys, Serving, Destroying, LeftAtClear
<1>5. NoOrphans'
  <2>1. ASSUME NEW s \in DOMAIN sets, sets[s].live, InUse(i), s \in Range(row[i].sems)
        PROVE  s \in late
    BY <1>0, <1>1, <2>1 DEF SightInv, LeftAtClear, Forgotten
  <2> QED
    BY <1>1, <1>2, <2>1 DEF SightInv, NoOrphans, InUse
<1> QED
  BY <1>3, <1>4, <1>5 DEF SightInv

LEMMA ClearFreeSight ==
  ASSUME Types, TableInv, SightInv, ClearFree
  PROVE  SightInv'
<1>0. PICK i \in Slot : i = rn.i
  BY RunnerSems
<1>1. /\ UNCHANGED <<sets, row, cl, boot, late>> /\ rn.pc = "free"
      /\ rn'.pc = "service" /\ rn'.sems = rn.sems
      /\ ~reserved'[i] /\ \A j \in Slot \ {i} : reserved'[j] = reserved[j]
  BY <1>0, ClearFreeStep
<1>2. ~row[i].created
  BY <1>0, <1>1 DEF SightInv, LeftAtClear
<1>3. \A j \in Slot : InUse(j)' <=> InUse(j)
  BY <1>1, <1>2 DEF InUse
<1>4. RowKeys'
  BY <1>1, <1>3 DEF SightInv, RowKeys, KeysOfRow
<1>5. RunnerKeys' /\ Destroying' /\ LeftAtClear'
  BY <1>1 DEF RunnerKeys, Serving, Destroying, LeftAtClear
<1>6. NoOrphans'
  BY <1>1, <1>3 DEF SightInv, NoOrphans, InUse
<1> QED
  BY <1>4, <1>5, <1>6 DEF SightInv

LEMMA KillSight ==
  ASSUME Types, TableInv, SightInv, KillAndRestart
  PROVE  SightInv'
<1>1. /\ UNCHANGED <<sets, row>> /\ boot' = boot + 1 /\ boot \in Nat
      /\ \A i \in Slot : ~reserved'[i]
      /\ rn' = NewRunner
  BY KillStep
<1>2. \A s \in DOMAIN sets : sets[s].boot # boot + 1
  BY <1>1 DEF TableInv, Known
<1>3. RowKeys' /\ RunnerKeys' /\ Destroying' /\ LeftAtClear'
  BY <1>1, NewRunnerType DEF RowKeys, InUse, RunnerKeys, Serving, Destroying, LeftAtClear
<1> QED
  BY <1>1, <1>2, <1>3 DEF SightInv, NoOrphans

LEMMA InitSight == Init => SightInv
<1> SUFFICES ASSUME Init PROVE SightInv
  OBVIOUS
<1>1. sets = << >> /\ rn = NewRunner /\ \A i \in Slot : ~reserved[i]
  BY DEF Init
<1>2. DOMAIN sets = {}
  BY <1>1, EmptySeq
<1> QED
  BY <1>1, <1>2, NewRunnerType DEF SightInv, RowKeys, InUse, RunnerKeys, Serving, Destroying,
    LeftAtClear, NoOrphans

LEMMA NextSight ==
  ASSUME Types, TableInv, SightInv, [Next]_vars
  PROVE  SightInv'
<1>1. ASSUME NEW n \in Name, ClientStep(n) PROVE SightInv'
  BY <1>1, RequestSight, OpenCloseSight DEF ClientStep
<1>2. ASSUME NEW n \in Name, NEW k \in Sem, UseQueue(n, k) PROVE SightInv'
  BY <1>2, UseSight
<1>3. CASE PoolStep
  BY <1>3, MoveSight, NewSight, SemopSight, OldSight, PublishSight, DestroySight,
     ClearRowSight, ClearFreeSight DEF PoolStep
<1>4. CASE KillAndRestart
  BY <1>4, KillSight
<1>5. CASE UNCHANGED vars
  BY <1>5 DEF vars, tableVars, auxVars, SightInv, RowKeys, RunnerKeys, KeysOfRow, InUse, Serving,
    Destroying, LeftAtClear, Forgotten, NoOrphans
<1> QED
  BY <1>1, <1>2, <1>3, <1>4, <1>5 DEF Next

(***************************************************************************)
(* No semaphore made since the server started is lost sight of, except     *)
(* those of a row that was marked between clean_up_queue_resources and     *)
(* clear_slot: for all addresses, equal ids and keys included, for clients *)
(* that open again and again, and whatever request_slot and clear_slot do  *)
(* at the same row after a restart.                                        *)
(***************************************************************************)
THEOREM NoneLost == Spec => []NoOrphans
<1>1. SightInv => NoOrphans
  BY DEF SightInv
<1> QED
  BY <1>1, InitKeeps, NextKeeps, InitSight, NextSight, PTL DEF Spec

-----------------------------------------------------------------------------
(* Who has which slot                                                      *)

(* The ids of the clients differ, from each other and from the id of a     *)
(* zeroed row: client_close finds its row by id.                           *)
DistinctIds ==
  /\ \A m, n \in Name : client_id[m] = client_id[n] => m = n
  /\ \A n \in Name : client_id[n] # 0

(* ... and a client opens once between two starts of the server.           *)
Once == DistinctIds /\ Opens <= 1

Holding == Writing \cup Having
Paired == {"attach", "open", "detach"}

(* A reserved row carries the id of the client whose slot it is, or none.  *)
RowOwned ==
  \A i \in Slot : reserved[i] =>
    \/ row[i].client_id = 0
    \/ \E n \in Name : row[i].client_id = client_id[n] /\ cl[n].slot = i /\ cl[n].opens >= 1

WriterRow ==
  \A n \in Name :
    /\ cl[n].pc \in Writing => row[cl[n].slot].client_id \in {client_id[n], 0}
    /\ cl[n].pc \in Holding => cl[n].opens >= 1

(* client_close comes to the client's own slot first.                      *)
OwnFirst ==
  \A n \in Name : cl[n].pc # "start" =>
    \A j \in Slot : j < cl[n].slot => row[j].client_id # client_id[n]

(* A reserved row that carries the id of a client past client_open's wait  *)
(* has queues, and only a reserved row lets a client past it.              *)
PairedServed ==
  \A n \in Name :
    /\ cl[n].pc \in Paired /\ reserved[cl[n].slot] /\ row[cl[n].slot].client_id = client_id[n]
         => row[cl[n].slot].created
    /\ cl[n].pc = "await" /\ row[cl[n].slot].created => reserved[cl[n].slot]

(* A client whose id is in a row that another client was given clashed.    *)
SharedClash ==
  \A m, n \in Name :
    m # n /\ cl[m].pc \in Having /\ row[cl[m].slot].client_id = client_id[n] => n \in clashed

(* What a client that did not clash can rely on.                           *)
Undisturbed(n) ==
  LET r == row[cl[n].slot]
  IN  /\ cl[n].pc \in Holding => r.client_id = client_id[n]
      /\ cl[n].pc \in {"reserve"} \cup Having => ~r.detach
      /\ cl[n].pc \in {"reserve", "await"} => ~r.attached
      /\ cl[n].pc \in Having => reserved[cl[n].slot]
      /\ cl[n].pc \in Paired => r.created /\ cl[n].sems = r.sems

Alone(n) ==
  cl[n].pc \in Holding =>
    \A m \in Name \ {n} : cl[m].pc \in Holding => cl[m].slot # cl[n].slot

HoldInv ==
  /\ RowOwned /\ WriterRow /\ OwnFirst /\ PairedServed /\ SharedClash
  /\ \A n \in Name \ clashed : Undisturbed(n) /\ Alone(n)

LEMMA SlotInt == \A i \in Slot : i \in Int /\ i >= 0
BY Bounds DEF Slot

LEMMA ClientTyped ==
  ASSUME Types
  PROVE  \A n \in Name : /\ cl[n].slot \in Slot /\ cl[n].opens \in Nat
                         /\ cl[n].pc \in {"start", "scan"} \cup Holding
BY Bounds DEF Types, ClientRec, Holding, Writing, Having

(* In request_slot a client is alone, and at a free slot; before it has    *)
(* taken one it has never had one.                                         *)
LEMMA Requester ==
  ASSUME Types, TableInv, NEW n \in Name, Requesting(n)
  PROVE  /\ \A m \in Name \ {n} : cl[m].pc \notin {"scan"} \cup Writing
         /\ cl[n].pc \in Writing => ~reserved[cl[n].slot]
         /\ Once /\ cl[n].pc = "scan" => cl[n].opens = 0
<1>1. \A m \in Name \ {n} : ~Requesting(m)
  BY DEF TableInv, Requests
<1>2. cl[n].pc \in Writing => ~reserved[cl[n].slot]
  BY DEF TableInv, Requests
<1>3. Once /\ cl[n].pc = "scan" => cl[n].opens = 0
  BY ClientTyped, Bounds DEF TableInv, Requests, Once
<1> QED
  BY <1>1, <1>2, <1>3 DEF Requesting

LEMMA LockHold ==
  ASSUME Once, Types, TableInv, HoldInv, NEW n \in Name, RequestLock(n) \/ RequestSkip(n)
  PROVE  HoldInv'
<1>1. /\ OnlyClient(n) /\ UNCHANGED <<reserved, row, clashed>>
      /\ cl[n].pc \in {"start", "scan"} /\ cl'[n].pc \in {"start", "scan"}
      /\ cl'[n].opens = cl[n].opens
  BY LockStep, SkipStep
<1>2. \A m \in Name \ {n} : cl'[m] = cl[m]
  BY <1>1 DEF OnlyClient
<1>3. cl[n].opens = 0
  <2>1. CASE RequestLock(n)
    BY <2>1, LockStep, ClientTyped, Bounds DEF Once
  <2>2. CASE RequestSkip(n)
    BY <2>2, SkipStep, Requester DEF Requesting
  <2> QED
    BY <2>1, <2>2
<1>4. RowOwned'
  <2>1. \A m \in Name : cl[m].opens >= 1 => m # n
    BY <1>3
  <2> QED
    BY <1>1, <1>2, <2>1 DEF HoldInv, RowOwned
<1>5. OwnFirst'
  <2>1. ASSUME NEW j \in Slot, cl'[n].pc # "start", j < cl'[n].slot
        PROVE  row[j].client_id # client_id[n]
    <3>1. CASE RequestLock(n)
      BY <2>1, <3>1, LockStep, SlotInt
    <3>2. CASE RequestSkip(n)
      <4>1. cl[n].pc = "scan" /\ reserved[cl[n].slot] /\ cl'[n].slot = cl[n].slot + 1
        BY <2>1, <3>2, SkipStep
      <4>2. cl[n].slot \in Slot
        BY ClientTyped
      <4>3. CASE j < cl[n].slot
        BY <4>1, <4>3 DEF HoldInv, OwnFirst
      <4>4. CASE j = cl[n].slot
        <5>1. reserved[j]
          BY <4>1, <4>4
        <5>2. \/ row[j].client_id = 0
              \/ \E m \in Name : row[j].client_id = client_id[m] /\ cl[m].opens >= 1
          BY <5>1 DEF HoldInv, RowOwned
        <5> QED
          BY <1>3, <5>2 DEF Once, DistinctIds
      <4> QED
        BY <2>1, <4>1, <4>2, <4>3, <4>4, SlotInt
    <3> QED
      BY <3>1, <3>2
  <2> QED
    BY <1>1, <1>2, <2>1 DEF HoldInv, OwnFirst
<1>6. cl[n].pc \notin Holding /\ cl'[n].pc \notin Holding
  BY <1>1 DEF Holding, Writing, Having
<1>7. WriterRow' /\ PairedServed' /\ SharedClash'
  BY <1>1, <1>2, <1>6 DEF HoldInv, WriterRow, PairedServed, SharedClash, Holding, Having, Paired
<1>8. ASSUME NEW m \in Name, m \notin clashed PROVE Undisturbed(m)' /\ Alone(m)'
  <2>1. Undisturbed(m) /\ Alone(m)
    BY <1>8 DEF HoldInv
  <2>2. CASE m = n
    BY <1>6, <2>2 DEF Undisturbed, Alone, Holding, Writing, Having, Paired
  <2>3. CASE m # n
    BY <1>1, <1>2, <1>6, <2>1, <2>3 DEF Undisturbed, Alone
  <2> QED
    BY <2>2, <2>3
<1> QED
  BY <1>1, <1>4, <1>5, <1>7, <1>8 DEF HoldInv

LEMMA TakeHold ==
  ASSUME Once, Types, TableInv, HoldInv, NEW n \in Name, RequestTake(n)
  PROVE  HoldInv'
<1>0. PICK i \in Slot : i = cl[n].slot
  BY ClientTyped
<1>1. /\ OnlyClient(n) /\ UNCHANGED reserved /\ cl[n].pc = "scan" /\ ~reserved[i]
      /\ cl'[n].pc = "write" /\ cl'[n].slot = i /\ cl'[n].opens >= 1
      /\ OnlyRow(i) /\ row'[i].client_id = client_id[n]
      /\ \A j \in Slot : /\ row'[j].created = row[j].created
                         /\ row'[j].attached = row[j].attached
                         /\ row'[j].detach = row[j].detach /\ row'[j].sems = row[j].sems
      /\ clashed' = IF HoldersAt(i, Having) = {} THEN clashed ELSE clashed \cup {n}
  BY <1>0, TakeStep
<1>2. /\ \A m \in Name \ {n} : cl'[m] = cl[m]
      /\ \A j \in Slot \ {i} : row'[j] = row[j]
      /\ clashed \subseteq clashed' /\ \A m \in Name \ {n} : m \in clashed' => m \in clashed
      /\ n \notin clashed' => \A m \in Name : cl[m].slot = i => cl[m].pc \notin Having
  BY <1>1 DEF OnlyClient, OnlyRow, HoldersAt
<1>3. \A m \in Name \ {n} : cl[m].pc \notin Writing
  BY <1>1, Requester DEF Requesting
<1>4. \A m \in Name : cl[m].slot \in Slot
  BY ClientTyped
<1>5. \A m \in Name \ {n} : client_id[m] # client_id[n]
  BY DEF Once, DistinctIds
<1>6. RowOwned'
  <2> SUFFICES ASSUME NEW j \in Slot, reserved[j]
               PROVE  \/ row'[j].client_id = 0
                      \/ \E m \in Name : /\ row'[j].client_id = client_id[m]
                                         /\ cl'[m].slot = j /\ cl'[m].opens >= 1
    BY <1>1 DEF RowOwned
  <2>1. row'[j] = row[j]
    BY <1>1, <1>2
  <2>2. \A m \in Name : cl[m].opens >= 1 => cl'[m].slot = cl[m].slot /\ cl'[m].opens >= 1
    BY <1>0, <1>1, <1>2
  <2> QED
    BY <2>1, <2>2 DEF HoldInv, RowOwned
<1>7. WriterRow'
  BY <1>1, <1>2, <1>3 DEF HoldInv, WriterRow, Holding
<1>8. OwnFirst'
  <2> SUFFICES ASSUME NEW m \in Name, cl'[m].pc # "start", NEW j \in Slot, j < cl'[m].slot
               PROVE  row'[j].client_id # client_id[m]
    BY DEF OwnFirst
  <2>1. cl'[m].slot = cl[m].slot /\ cl[m].pc # "start"
    BY <1>0, <1>1, <1>2
  <2>2. row[j].client_id # client_id[m]
    BY <2>1 DEF HoldInv, OwnFirst
  <2>3. CASE j = i
    <3>1. m # n
      BY <1>1, <2>3, SlotInt
    <3> QED
      BY <1>1, <1>5, <2>3, <3>1
  <2>4. CASE j # i
    BY <1>2, <2>2, <2>4
  <2> QED
    BY <2>3, <2>4
<1>9. PairedServed'
  BY <1>1, <1>2, <1>4, <1>5 DEF HoldInv, PairedServed, Paired
<1>10. SharedClash'
  <2> SUFFICES ASSUME NEW m \in Name, NEW p \in Name, m # p, cl'[m].pc \in Having,
                      row'[cl'[m].slot].client_id = client_id[p]
               PROVE  p \in clashed'
    BY DEF SharedClash
  <2>1. m # n
    BY <1>1 DEF Having
  <2>2. cl'[m] = cl[m]
    BY <1>2, <2>1
  <2>3. CASE cl[m].slot = i
    BY <1>1, <1>2, <1>5, <2>2, <2>3
  <2>4. CASE cl[m].slot # i
    BY <1>2, <1>4, <2>2, <2>4 DEF HoldInv, SharedClash
  <2> QED
    BY <2>3, <2>4
<1>11. ASSUME NEW p \in Name, p \notin clashed', p # n
       PROVE  cl[p].pc \in Holding => cl[p].pc \in Having /\ cl[p].slot # i
  <2>1. Undisturbed(p) /\ cl[p].pc \notin Writing
    BY <1>2, <1>3, <1>11 DEF HoldInv
  <2> QED
    BY <1>1, <2>1 DEF Undisturbed, Holding
<1>12. ASSUME NEW p \in Name, p \notin clashed' PROVE Undisturbed(p)'
  <2>1. CASE p = n
    BY <1>1, <2>1 DEF Undisturbed, Having, Paired
  <2>2. CASE p # n
    <3>1. Undisturbed(p) /\ cl'[p] = cl[p] /\ cl[p].slot \in Slot
      BY <1>2, <1>4, <1>12, <2>2 DEF HoldInv
    <3>2. CASE cl[p].pc \in Holding
      <4>1. row'[cl[p].slot] = row[cl[p].slot]
        BY <1>2, <1>11, <1>12, <2>2, <3>1, <3>2
      <4> QED
        BY <1>1, <3>1, <4>1 DEF Undisturbed
    <3>3. CASE cl[p].pc \notin Holding
      BY <3>1, <3>3 DEF Undisturbed, Holding, Writing, Having, Paired
    <3> QED
      BY <3>2, <3>3
  <2> QED
    BY <2>1, <2>2
<1>13. ASSUME NEW p \in Name, p \notin clashed' PROVE Alone(p)'
  <2> SUFFICES ASSUME NEW m \in Name \ {p}, cl'[p].pc \in Holding, cl'[m].pc \in Holding
               PROVE  cl'[m].slot # cl'[p].slot
    BY DEF Alone
  <2>1. CASE p = n
    <3>1. cl'[m] = cl[m] /\ cl[m].pc \notin Writing
      BY <1>2, <1>3, <2>1
    <3> QED
      BY <1>1, <1>2, <1>13, <2>1, <3>1 DEF Holding
  <2>2. CASE p # n /\ m = n
    BY <1>1, <1>2, <1>11, <1>13, <2>2
  <2>3. CASE p # n /\ m # n
    BY <1>2, <1>13, <2>3 DEF HoldInv, Alone
  <2> QED
    BY <2>1, <2>2, <2>3
<1> QED
  BY <1>6, <1>7, <1>8, <1>9, <1>10, <1>12, <1>13 DEF HoldInv

LEMMA WriteHold ==
  ASSUME Types, TableInv, HoldInv, NEW n \in Name, RequestWrite(n)
  PROVE  HoldInv'
<1>0. PICK i \in Slot : i = cl[n].slot
  BY ClientTyped
<1>1. /\ OnlyClient(n) /\ UNCHANGED <<reserved, clashed>> /\ cl[n].pc = "write"
      /\ cl'[n].pc = "reserve" /\ cl'[n].slot = i /\ cl'[n].opens = cl[n].opens
      /\ OnlyRow(i) /\ ~row'[i].created /\ ~row'[i].attached /\ ~row'[i].detach
      /\ \A j \in Slot : row'[j].client_id = row[j].client_id
  BY <1>0, WriteStep
<1>2. /\ \A m \in Name \ {n} : cl'[m] = cl[m]
      /\ \A j \in Slot \ {i} : row'[j] = row[j]
  BY <1>1 DEF OnlyClient, OnlyRow
<1>3. ~reserved[i] /\ \A m \in Name \ {n} : cl[m].pc \notin Writing
  BY <1>0, <1>1, Requester DEF Requesting, Writing
<1>4. \A m \in Name : /\ cl[m].slot \in Slot /\ cl'[m].slot = cl[m].slot
                      /\ cl'[m].opens = cl[m].opens
                      /\ cl'[m].pc \in Writing <=> cl[m].pc \in Writing
                      /\ cl'[m].pc \in Holding <=> cl[m].pc \in Holding
                      /\ m # n => cl'[m].pc = cl[m].pc
  BY <1>0, <1>1, <1>2, ClientTyped DEF Holding, Writing
<1>5. RowOwned' /\ WriterRow'
  BY <1>1, <1>4 DEF HoldInv, RowOwned, WriterRow
<1>6. OwnFirst'
  BY <1>1, <1>4 DEF HoldInv, OwnFirst
<1>7. PairedServed'
  BY <1>1, <1>2, <1>3, <1>4 DEF HoldInv, PairedServed, Paired
<1>8. SharedClash'
  BY <1>1, <1>4 DEF HoldInv, SharedClash, Having
<1>9. ASSUME NEW p \in Name, p \notin clashed PROVE Undisturbed(p)' /\ Alone(p)'
  <2>1. Undisturbed(p) /\ Alone(p)
    BY <1>9 DEF HoldInv
  <2>2. Alone(p)'
    BY <1>4, <2>1 DEF Alone
  <2>3. CASE p = n
    BY <1>0, <1>1, <2>1, <2>2, <2>3 DEF Undisturbed, Holding, Writing, Having, Paired
  <2>4. CASE p # n
    <3>1. cl'[p] = cl[p] /\ cl[p].slot \in Slot /\ cl[p].pc \notin Writing
      BY <1>2, <1>3, <1>4, <2>4
    <3>2. CASE cl[p].pc \in Having
      <4>1. row'[cl[p].slot] = row[cl[p].slot]
        BY <1>2, <1>3, <2>1, <3>1, <3>2 DEF Undisturbed
      <4> QED
        BY <1>1, <2>1, <2>2, <3>1, <4>1 DEF Undisturbed
    <3>3. CASE cl[p].pc \notin Having
      BY <2>2, <3>1, <3>3 DEF Undisturbed, Holding, Writing, Having, Paired
    <3> QED
      BY <3>2, <3>3
  <2> QED
    BY <2>3, <2>4
<1> QED
  BY <1>1, <1>5, <1>6, <1>7, <1>8, <1>9 DEF HoldInv

LEMMA ReserveHold ==
  ASSUME Once, Types, TableInv, HoldInv, NEW n \in Name, RequestReserve(n)
  PROVE  HoldInv'
<1>0. PICK i \in Slot : i = cl[n].slot
  BY ClientTyped
<1>1. /\ OnlyClient(n) /\ UNCHANGED <<row, clashed>> /\ cl[n].pc = "reserve"
      /\ cl'[n].pc = "await" /\ cl'[n].slot = i /\ cl'[n].opens = cl[n].opens
      /\ reserved'[i] /\ \A j \in Slot \ {i} : reserved'[j] = reserved[j]
  BY <1>0, ReserveStep
<1>2. \A m \in Name \ {n} : cl'[m] = cl[m]
  BY <1>1 DEF OnlyClient
<1>3. \A m \in Name : /\ cl[m].slot \in Slot /\ cl'[m].slot = cl[m].slot
                      /\ cl'[m].opens = cl[m].opens
                      /\ cl'[m].pc \in Writing => cl[m].pc \in Writing
                      /\ cl'[m].pc \in Holding <=> cl[m].pc \in Holding
  BY <1>0, <1>1, <1>2, ClientTyped DEF Holding, Writing, Having
<1>4. row[i].client_id \in {client_id[n], 0} /\ cl[n].opens >= 1
  BY <1>0, <1>1 DEF HoldInv, WriterRow, Holding, Writing
<1>5. \A m \in Name \ {n} : client_id[m] # client_id[n] /\ client_id[m] # row[i].client_id
  BY <1>4 DEF Once, DistinctIds
<1>6. RowOwned'
  <2> SUFFICES ASSUME NEW j \in Slot, reserved'[j]
               PROVE  \/ row[j].client_id = 0
                      \/ \E m \in Name : /\ row[j].client_id = client_id[m]
                                         /\ cl'[m].slot = j /\ cl'[m].opens >= 1
    BY <1>1 DEF RowOwned
  <2>1. CASE j = i
    BY <1>1, <1>4, <2>1
  <2>2. CASE j # i
    BY <1>1, <1>3, <2>2 DEF HoldInv, RowOwned
  <2> QED
    BY <2>1, <2>2
<1>7. WriterRow' /\ OwnFirst'
  BY <1>1, <1>2, <1>3 DEF HoldInv, WriterRow, OwnFirst
<1>8. PairedServed'
  <2> SUFFICES ASSUME NEW m \in Name
               PROVE  /\ (cl'[m].pc \in Paired /\ reserved'[cl[m].slot]
                            /\ row[cl[m].slot].client_id = client_id[m])
                         => row[cl[m].slot].created
                      /\ cl'[m].pc = "await" /\ row[cl[m].slot].created =>
                           reserved'[cl[m].slot]
    BY <1>1, <1>3 DEF PairedServed
  <2>1. CASE m = n
    BY <1>0, <1>1, <2>1 DEF Paired
  <2>2. CASE m # n /\ cl[m].slot = i
    BY <1>1, <1>5, <2>2
  <2>3. CASE m # n /\ cl[m].slot # i
    BY <1>1, <1>2, <1>3, <2>3 DEF HoldInv, PairedServed
  <2> QED
    BY <2>1, <2>2, <2>3
<1>9. SharedClash'
  BY <1>0, <1>1, <1>2, <1>5 DEF HoldInv, SharedClash
<1>10. ASSUME NEW p \in Name, p \notin clashed PROVE Undisturbed(p)' /\ Alone(p)'
  <2>1. Undisturbed(p) /\ Alone(p)
    BY <1>10 DEF HoldInv
  <2>2. Alone(p)'
    BY <1>3, <2>1 DEF Alone
  <2>3. Undisturbed(p)'
    <3>1. CASE p = n
      BY <1>0, <1>1, <2>1, <3>1 DEF Undisturbed, Holding, Writing, Having, Paired
    <3>2. CASE p # n
      <4>1. cl'[p] = cl[p] /\ (reserved[cl[p].slot] => reserved'[cl[p].slot])
        BY <1>1, <1>2, <1>3, <3>2
      <4> QED
        BY <1>1, <2>1, <4>1 DEF Undisturbed
    <3> QED
      BY <3>1, <3>2
  <2> QED
    BY <2>2, <2>3
<1> QED
  BY <1>1, <1>6, <1>7, <1>8, <1>9, <1>10 DEF HoldInv

LEMMA PairHold ==
  ASSUME Types, TableInv, HoldInv, NEW n \in Name, OpenPair(n)
  PROVE  HoldInv'
<1>0. PICK i \in Slot : i = cl[n].slot
  BY ClientTyped
<1>1. /\ OnlyClient(n) /\ UNCHANGED <<reserved, row, clashed>> /\ cl[n].pc = "await"
      /\ cl'[n].pc = "attach" /\ cl'[n].slot = i /\ cl'[n].opens = cl[n].opens
      /\ row[i].created /\ (~row[i].attached => cl'[n].sems = row[i].sems)
  BY <1>0, PairStep
<1>2. \A m \in Name \ {n} : cl'[m] = cl[m]
  BY <1>1 DEF OnlyClient
<1>3. \A m \in Name : /\ cl'[m].slot = cl[m].slot /\ cl'[m].opens = cl[m].opens
                      /\ cl'[m].pc \in Writing <=> cl[m].pc \in Writing
                      /\ cl'[m].pc \in Having <=> cl[m].pc \in Having
                      /\ cl'[m].pc \in Holding <=> cl[m].pc \in Holding
                      /\ cl'[m].pc # "start" => cl[m].pc # "start"
  BY <1>0, <1>1, <1>2 DEF Holding, Writing, Having
<1>4. RowOwned' /\ WriterRow' /\ OwnFirst' /\ SharedClash'
  BY <1>1, <1>3 DEF HoldInv, RowOwned, WriterRow, OwnFirst, SharedClash
<1>5. PairedServed'
  BY <1>0, <1>1, <1>2 DEF HoldInv, PairedServed
<1>6. ASSUME NEW p \in Name, p \notin clashed PROVE Undisturbed(p)' /\ Alone(p)'
  <2>1. Undisturbed(p) /\ Alone(p)
    BY <1>6 DEF HoldInv
  <2>2. Alone(p)'
    BY <1>3, <2>1 DEF Alone
  <2>3. Undisturbed(p)'
    <3>1. CASE p = n
      BY <1>0, <1>1, <2>1, <3>1 DEF Undisturbed, Holding, Writing, Having, Paired
    <3>2. CASE p # n
      BY <1>1, <1>2, <2>1, <3>2 DEF Undisturbed
    <3> QED
      BY <3>1, <3>2
  <2> QED
    BY <2>2, <2>3
<1> QED
  BY <1>1, <1>4, <1>5, <1>6 DEF HoldInv

LEMMA AttachHold ==
  ASSUME Types, TableInv, HoldInv, NEW n \in Name, OpenAttach(n)
  PROVE  HoldInv'
<1>0. PICK i \in Slot : i = cl[n].slot
  BY ClientTyped
<1>1. /\ OnlyClient(n) /\ UNCHANGED <<reserved, clashed>> /\ cl[n].pc = "attach"
      /\ cl'[n].pc = "open" /\ cl'[n].slot = i /\ cl'[n].opens = cl[n].opens
      /\ cl'[n].sems = cl[n].sems /\ OnlyRow(i)
      /\ \A j \in Slot : /\ row'[j].client_id = row[j].client_id
                         /\ row'[j].created = row[j].created
                         /\ row'[j].detach = row[j].detach /\ row'[j].sems = row[j].sems
  BY <1>0, AttachStep
<1>2. /\ \A m \in Name \ {n} : cl'[m] = cl[m]
      /\ \A j \in Slot \ {i} : row'[j] = row[j]
  BY <1>1 DEF OnlyClient, OnlyRow
<1>3. \A m \in Name : /\ cl'[m].slot = cl[m].slot /\ cl'[m].opens = cl[m].opens
                      /\ cl[m].slot \in Slot
                      /\ cl'[m].pc \in Writing <=> cl[m].pc \in Writing
                      /\ cl'[m].pc \in Having <=> cl[m].pc \in Having
                      /\ cl'[m].pc \in Paired <=> cl[m].pc \in Paired
                      /\ cl'[m].pc \in Holding <=> cl[m].pc \in Holding
                      /\ cl'[m].pc # "start" => cl[m].pc # "start"
                      /\ cl'[m].pc = "await" => cl[m].pc = "await"
  BY <1>0, <1>1, <1>2, ClientTyped DEF Holding, Writing, Having, Paired
<1>4. RowOwned' /\ WriterRow' /\ OwnFirst' /\ SharedClash'
  BY <1>1, <1>3 DEF HoldInv, RowOwned, WriterRow, OwnFirst, SharedClash
<1>5. PairedServed'
  BY <1>1, <1>3 DEF HoldInv, PairedServed
<1>6. ASSUME NEW p \in Name, p \notin clashed PROVE Undisturbed(p)' /\ Alone(p)'
  <2>1. Undisturbed(p) /\ Alone(p)
    BY <1>6 DEF HoldInv
  <2>2. Alone(p)'
    BY <1>3, <2>1 DEF Alone
  <2>3. Undisturbed(p)'
    <3>1. CASE p = n
      BY <1>0, <1>1, <2>1, <3>1 DEF Undisturbed, Holding, Writing, Having, Paired
    <3>2. CASE p # n
      <4>1. cl[p].pc \in Holding => cl[p].slot # i
        <5>1. cl[n].pc \in Holding
          BY <1>1 DEF Holding, Having
        <5> QED
          BY <1>0, <2>1, <3>2, <5>1 DEF Alone
      <4>2. CASE cl[p].pc \in Holding
        <5>1. row'[cl[p].slot] = row[cl[p].slot] /\ cl'[p] = cl[p]
          BY <1>2, <1>3, <3>2, <4>1, <4>2
        <5> QED
          BY <1>1, <2>1, <5>1 DEF Undisturbed
      <4>3. CASE cl[p].pc \notin Holding
        BY <1>2, <3>2, <4>3 DEF Undisturbed, Holding, Writing, Having, Paired
      <4> QED
        BY <4>2, <4>3
    <3> QED
      BY <3>1, <3>2
  <2> QED
    BY <2>2, <2>3
<1> QED
  BY <1>1, <1>4, <1>5, <1>6 DEF HoldInv

(* When client_close finds a row while the client's own slot carries its   *)
(* id, it is the row of that slot.                                         *)
LEMMA FoundOwn ==
  ASSUME Types, HoldInv, NEW n \in Name, cl[n].pc # "start",
         row[cl[n].slot].client_id = client_id[n],
         NEW i \in Slot, row[i].client_id = client_id[n],
         \A j \in Slot : j < i => row[j].client_id # client_id[n]
  PROVE  i = cl[n].slot
<1>1. PICK k \in Slot : k = cl[n].slot
  BY ClientTyped
<1>2. ~(k < i)
  BY <1>1
<1>3. ~(i < k)
  BY <1>1 DEF HoldInv, OwnFirst
<1> QED
  BY <1>1, <1>2, <1>3, SlotInt

LEMMA FindHold ==
  ASSUME Once, Types, TableInv, HoldInv, NEW n \in Name, CloseFind(n)
  PROVE  HoldInv'
<1>1. /\ OnlyClient(n) /\ UNCHANGED <<reserved, row, clashed>> /\ cl[n].pc = "open"
      /\ cl'[n].opens = cl[n].opens
      /\ \/ /\ cl'[n].pc = "detach" /\ cl'[n].sems = cl[n].sems
            /\ cl'[n].slot \in Slot /\ row[cl'[n].slot].client_id = client_id[n]
            /\ \A j \in Slot : j < cl'[n].slot => row[j].client_id # client_id[n]
         \/ /\ cl'[n].pc = "start" /\ \A j \in Slot : row[j].client_id # client_id[n]
  BY FindStep
<1>2. \A m \in Name \ {n} : cl'[m] = cl[m]
  BY <1>1 DEF OnlyClient
<1>3. row[cl[n].slot].client_id = client_id[n] =>
        cl'[n].pc = "detach" /\ cl'[n].slot = cl[n].slot
  BY <1>1, FoundOwn, ClientTyped
<1>4. \A m \in Name \ {n} : client_id[m] # client_id[n]
  BY DEF Once, DistinctIds
<1>5. RowOwned'
  <2> SUFFICES ASSUME NEW j \in Slot, reserved[j], row[j].client_id # 0
               PROVE  \E m \in Name : /\ row[j].client_id = client_id[m]
                                      /\ cl'[m].slot = j /\ cl'[m].opens >= 1
    BY <1>1 DEF RowOwned
  <2>1. PICK m \in Name : row[j].client_id = client_id[m] /\ cl[m].slot = j /\ cl[m].opens >= 1
    BY DEF HoldInv, RowOwned
  <2> QED
    BY <1>1, <1>2, <1>3, <2>1
<1>6. WriterRow' /\ OwnFirst'
  BY <1>1, <1>2 DEF HoldInv, WriterRow, OwnFirst, Holding, Writing, Having
<1>7. PairedServed'
  <2> SUFFICES ASSUME NEW m \in Name
               PROVE  /\ (cl'[m].pc \in Paired /\ reserved[cl'[m].slot]
                            /\ row[cl'[m].slot].client_id = client_id[m])
                         => row[cl'[m].slot].created
                      /\ cl'[m].pc = "await" /\ row[cl'[m].slot].created =>
                           reserved[cl'[m].slot]
    BY <1>1 DEF PairedServed
  <2>1. CASE m # n
    BY <1>2, <2>1 DEF HoldInv, PairedServed
  <2>2. CASE m = n
    <3> SUFFICES ASSUME cl'[n].pc \in Paired, reserved[cl'[n].slot] PROVE row[cl'[n].slot].created
      BY <1>1, <2>2
    <3>1. PICK i \in Slot : i = cl'[n].slot /\ row[i].client_id = client_id[n]
      BY <1>1 DEF Paired
    <3>2. cl[n].slot = i
      <4>1. \/ row[i].client_id = 0
            \/ \E p \in Name : row[i].client_id = client_id[p] /\ cl[p].slot = i
        BY <3>1 DEF HoldInv, RowOwned
      <4> QED
        BY <3>1, <4>1 DEF Once, DistinctIds
    <3> QED
      BY <1>1, <3>1, <3>2 DEF HoldInv, PairedServed, Paired
  <2> QED
    BY <2>1, <2>2
<1>8. SharedClash'
  BY <1>1, <1>2, <1>4 DEF HoldInv, SharedClash, Having
<1>9. ASSUME NEW p \in Name, p \notin clashed PROVE Undisturbed(p)' /\ Alone(p)'
  <2>1. Undisturbed(p) /\ Alone(p)
    BY <1>9 DEF HoldInv
  <2>2. CASE p = n
    <3>1. cl'[n].pc = "detach" /\ cl'[n].slot = cl[n].slot
      BY <1>1, <1>3, <2>1, <2>2 DEF Undisturbed, Holding, Having
    <3>2. Undisturbed(p)'
      BY <1>1, <2>1, <2>2, <3>1 DEF Undisturbed, Holding, Writing, Having, Paired
    <3>3. Alone(p)'
      BY <1>1, <1>2, <2>1, <2>2, <3>1 DEF Alone, Holding, Having
    <3> QED
      BY <3>2, <3>3
  <2>3. CASE p # n
    <3>1. Undisturbed(p)'
      BY <1>1, <1>2, <2>1, <2>3 DEF Undisturbed
    <3>2. Alone(p)'
      <4> SUFFICES ASSUME NEW m \in Name \ {p}, cl[p].pc \in Holding, cl'[m].pc \in Holding
                   PROVE  cl'[m].slot # cl[p].slot
        BY <1>2, <2>3 DEF Alone
      <4>1. CASE m = n
        <5>1. row[cl'[n].slot].client_id = client_id[n]
          BY <1>1, <4>1 DEF Holding, Writing, Having
        <5>2. row[cl[p].slot].client_id = client_id[p]
          BY <2>1 DEF Undisturbed
        <5> QED
          BY <1>4, <2>3, <4>1, <5>1, <5>2
      <4>2. CASE m # n
        BY <1>2, <2>1, <4>2 DEF Alone
      <4> QED
        BY <4>1, <4>2
    <3> QED
      BY <3>1, <3>2
  <2> QED
    BY <2>2, <2>3
<1> QED
  BY <1>1, <1>5, <1>6, <1>7, <1>8, <1>9 DEF HoldInv

LEMMA DetachHold ==
  ASSUME Once, Types, TableInv, HoldInv, NEW n \in Name, CloseDetach(n)
  PROVE  HoldInv'
<1>0. PICK i \in Slot : i = cl[n].slot
  BY ClientTyped
<1>1. /\ OnlyClient(n) /\ UNCHANGED reserved /\ cl[n].pc = "detach"
      /\ cl'[n].pc = "start" /\ cl'[n].slot = i /\ cl'[n].opens = cl[n].opens
      /\ OnlyRow(i)
      /\ \A j \in Slot : /\ row'[j].client_id = row[j].client_id
                         /\ row'[j].created = row[j].created
                         /\ row'[j].attached = row[j].attached /\ row'[j].sems = row[j].sems
      /\ clashed' = IF row[i].client_id = client_id[n] THEN clashed ELSE Name
  BY <1>0, DetachStep
<1>2. /\ \A m \in Name \ {n} : cl'[m] = cl[m]
      /\ \A j \in Slot \ {i} : row'[j] = row[j]
      /\ clashed \subseteq clashed'
      /\ \A m \in Name : m \notin clashed' => row[i].client_id = client_id[n]
  BY <1>1 DEF OnlyClient, OnlyRow, Types
<1>3. \A m \in Name : /\ cl'[m].slot = cl[m].slot /\ cl'[m].opens = cl[m].opens
                      /\ cl[m].slot \in Slot /\ cl'[m].pc \in {cl[m].pc, "start"}
  BY <1>0, <1>1, <1>2, ClientTyped
<1>4. /\ "start" \notin Writing /\ "start" \notin Having /\ "start" \notin Holding
      /\ "start" \notin Paired /\ "start" \notin {"reserve", "await"}
  BY DEF Holding, Writing, Having, Paired
<1>5. RowOwned' /\ WriterRow' /\ OwnFirst'
  BY <1>1, <1>3, <1>4 DEF HoldInv, RowOwned, WriterRow, OwnFirst
<1>6. PairedServed' /\ SharedClash'
  BY <1>1, <1>2, <1>3, <1>4 DEF HoldInv, PairedServed, SharedClash
<1>7. ASSUME NEW p \in Name, p \notin clashed' PROVE Undisturbed(p)' /\ Alone(p)'
  <2>1. Undisturbed(p) /\ Alone(p)
    BY <1>2, <1>7 DEF HoldInv
  <2>2. Alone(p)'
    BY <1>3, <1>4, <2>1 DEF Alone
  <2>3. Undisturbed(p)'
    <3>1. CASE cl'[p].pc = "start"
      BY <3>1 DEF Undisturbed, Holding, Writing, Having, Paired
    <3>2. CASE cl'[p].pc # "start" /\ cl[p].pc \in Holding
      <4>1. p # n /\ cl'[p] = cl[p]
        BY <1>1, <1>2, <3>2
      <4>2. cl[p].slot # i
        BY <1>2, <1>7, <2>1, <3>2, <4>1 DEF Undisturbed, Once, DistinctIds
      <4>3. row'[cl[p].slot] = row[cl[p].slot]
        BY <1>2, <1>3, <4>2
      <4> QED
        BY <1>1, <2>1, <4>1, <4>3 DEF Undisturbed
    <3>3. CASE cl'[p].pc # "start" /\ cl[p].pc \notin Holding
      BY <1>3, <3>3 DEF Undisturbed, Holding, Writing, Having, Paired
    <3> QED
      BY <3>1, <3>2, <3>3
  <2> QED
    BY <2>2, <2>3
<1> QED
  BY <1>5, <1>6, <1>7 DEF HoldInv

(* Steps that leave the rows, the reservations and the clients alone.      *)
LEMMA HoldFrame ==
  ASSUME HoldInv, UNCHANGED <<reserved, row, cl, clashed>>
  PROVE  HoldInv'
BY DEF HoldInv, RowOwned, WriterRow, OwnFirst, PairedServed, SharedClash, Undisturbed, Alone

LEMMA PublishHold ==
  ASSUME Types, TableInv, HoldInv, Publish
  PROVE  HoldInv'
<1>0. PICK i \in Slot : i = rn.i
  BY RunnerSems
<1>1. /\ UNCHANGED <<reserved, cl, clashed>> /\ rn.pc = "publish"
      /\ \A j \in Slot \ {i} : row'[j] = row[j]
      /\ row'[i].created /\ row'[i].client_id = row[i].client_id
      /\ row'[i].detach = row[i].detach /\ row'[i].attached = row[i].attached
  BY <1>0, PublishStep
<1>2. reserved[i] /\ ~row[i].created
  BY <1>0, <1>1 DEF TableInv, RunnerInv, Serving
<1>3. \A m \in Name : cl[m].slot \in Slot
  BY ClientTyped
<1>4. \A j \in Slot : row'[j].client_id = row[j].client_id /\ (row[j].created => row'[j].created)
  BY <1>1
<1>5. RowOwned' /\ WriterRow' /\ OwnFirst' /\ SharedClash'
  BY <1>1, <1>3, <1>4 DEF HoldInv, RowOwned, WriterRow, OwnFirst, SharedClash
<1>6. PairedServed'
  BY <1>1, <1>2, <1>3, <1>4 DEF HoldInv, PairedServed
<1>7. ASSUME NEW p \in Name, p \notin clashed PROVE Undisturbed(p)' /\ Alone(p)'
  <2>1. Undisturbed(p) /\ Alone(p)
    BY <1>7 DEF HoldInv
  <2>2. CASE cl[p].slot = i
    <3>1. cl[p].pc \notin Paired
      BY <1>2, <2>1, <2>2 DEF Undisturbed
    <3> QED
      BY <1>1, <2>1, <2>2, <3>1 DEF Undisturbed, Alone
  <2>3. CASE cl[p].slot # i
    <3>1. row'[cl[p].slot] = row[cl[p].slot]
      BY <1>1, <1>3, <2>3
    <3> QED
      BY <1>1, <2>1, <3>1 DEF Undisturbed, Alone
  <2> QED
    BY <2>2, <2>3
<1> QED
  BY <1>1, <1>5, <1>6, <1>7 DEF HoldInv

LEMMA ClearRowHold ==
  ASSUME Once, Types, HoldInv, ClearRow
  PROVE  HoldInv'
<1>0. PICK i \in Slot : i = rn.i
  BY RunnerSems
<1>1. /\ UNCHANGED <<reserved, cl>>
      /\ \A j \in Slot \ {i} : row'[j] = row[j]
      /\ row'[i].client_id = 0 /\ ~row'[i].created
      /\ clashed' = clashed \cup HoldersAt(i, Writing \cup Having)
  BY <1>0, ClearRowStep, ZeroRowType DEF OnlyRow
<1>2. \A m \in Name : cl[m].slot \in Slot /\ client_id[m] # 0
  BY ClientTyped DEF Once, DistinctIds
<1>3. /\ clashed \subseteq clashed'
      /\ \A m \in Name : m \notin clashed' /\ cl[m].slot = i => cl[m].pc \notin Holding
  BY <1>1 DEF HoldersAt, Holding
<1>4. RowOwned' /\ WriterRow'
  BY <1>1, <1>2 DEF HoldInv, RowOwned, WriterRow
<1>5. OwnFirst'
  BY <1>1, <1>2 DEF HoldInv, OwnFirst
<1>6. PairedServed' /\ SharedClash'
  BY <1>1, <1>2, <1>3 DEF HoldInv, PairedServed, SharedClash
<1>7. ASSUME NEW p \in Name, p \notin clashed' PROVE Undisturbed(p)' /\ Alone(p)'
  <2>1. Undisturbed(p) /\ Alone(p)
    BY <1>3, <1>7 DEF HoldInv
  <2>2. CASE cl[p].slot = i
    BY <1>1, <1>3, <1>7, <2>2 DEF Undisturbed, Alone, Holding, Writing, Having, Paired
  <2>3. CASE cl[p].slot # i
    <3>1. row'[cl[p].slot] = row[cl[p].slot]
      BY <1>1, <1>2, <2>3
    <3> QED
      BY <1>1, <2>1, <3>1 DEF Undisturbed, Alone
  <2> QED
    BY <2>2, <2>3
<1> QED
  BY <1>4, <1>5, <1>6, <1>7 DEF HoldInv

LEMMA ClearFreeHold ==
  ASSUME Types, SightInv, HoldInv, ClearFree
  PROVE  HoldInv'
<1>0. PICK i \in Slot : i = rn.i
  BY RunnerSems
<1>1. /\ UNCHANGED <<row, cl>> /\ rn.pc = "free"
      /\ ~reserved'[i] /\ \A j \in Slot \ {i} : reserved'[j] = reserved[j]
      /\ clashed' = clashed \cup HoldersAt(i, Having)
  BY <1>0, ClearFreeStep
<1>2. ~row[i].created /\ \A m \in Name : cl[m].slot \in Slot
  BY <1>0, <1>1, ClientTyped DEF SightInv, LeftAtClear
<1>3. /\ clashed \subseteq clashed'
      /\ \A m \in Name : m \notin clashed' /\ cl[m].slot = i => cl[m].pc \notin Having
  BY <1>1 DEF HoldersAt
<1>4. RowOwned' /\ WriterRow' /\ OwnFirst'
  BY <1>1 DEF HoldInv, RowOwned, WriterRow, OwnFirst
<1>5. PairedServed' /\ SharedClash'
  BY <1>1, <1>2, <1>3 DEF HoldInv, PairedServed, SharedClash
<1>6. ASSUME NEW p \in Name, p \notin clashed' PROVE Undisturbed(p)' /\ Alone(p)'
  <2>1. Undisturbed(p) /\ Alone(p)
    BY <1>3, <1>6 DEF HoldInv
  <2>2. cl[p].pc \in Having => reserved'[cl[p].slot] = reserved[cl[p].slot]
    BY <1>1, <1>2, <1>3, <1>6
  <2> QED
    BY <1>1, <2>1, <2>2 DEF Undisturbed, Alone
<1> QED
  BY <1>4, <1>5, <1>6 DEF HoldInv

LEMMA FreshHold ==
  ASSUME \A i \in Slot : ~reserved[i], \A n \in Name : cl[n] = NewClient
  PROVE  HoldInv
<1>1. \A n \in Name : cl[n].pc = "start"
  BY NewClientType
<1>2. /\ "start" \notin Writing /\ "start" \notin Having /\ "start" \notin Holding
      /\ "start" \notin Paired
  BY DEF Holding, Writing, Having, Paired
<1> QED
  BY <1>1, <1>2 DEF HoldInv, RowOwned, WriterRow, OwnFirst, PairedServed, SharedClash,
    Undisturbed, Alone

LEMMA KillHold ==
  ASSUME Types, KillAndRestart
  PROVE  HoldInv'
<1>1. \A i \in Slot : ~reserved'[i]
  BY KillStep
<1>2. \A n \in Name : cl'[n].pc = "start"
  BY KillStep, NewClientType
<1>3. /\ "start" \notin Writing /\ "start" \notin Having /\ "start" \notin Holding
      /\ "start" \notin Paired
  BY DEF Holding, Writing, Having, Paired
<1> QED
  BY <1>1, <1>2, <1>3 DEF HoldInv, RowOwned, WriterRow, OwnFirst, PairedServed, SharedClash,
    Undisturbed, Alone

LEMMA InitHold == Init => HoldInv
BY FreshHold DEF Init

LEMMA NextHold ==
  ASSUME Once, Types, TableInv, SightInv, HoldInv, [Next]_vars
  PROVE  HoldInv'
<1>1. ASSUME NEW n \in Name, ClientStep(n) PROVE HoldInv'
  BY <1>1, LockHold, TakeHold, WriteHold, ReserveHold, PairHold, AttachHold, FindHold,
     DetachHold DEF ClientStep
<1>2. ASSUME NEW n \in Name, NEW k \in Sem, UseQueue(n, k) PROVE HoldInv'
  BY <1>2, UseStep, HoldFrame
<1>3. CASE PoolStep
  <2>1. CASE Service \/ SemgetNew \/ Semop \/ SemgetOld \/ Wait \/ CleanUp \/ destroy_semaphores
               \/ ClearSlot
    <3>1. UNCHANGED <<reserved, row, cl, clashed>>
      BY <2>1, ServiceStep, NewSet, SemopStep, OldSet, WaitStep, CleanUpStep, DestroyStep,
         ClearSlotStep
    <3> QED
      BY <3>1, HoldFrame
  <2> QED
    BY <1>3, <2>1, PublishHold, ClearRowHold, ClearFreeHold DEF PoolStep
<1>4. CASE KillAndRestart
  BY <1>4, KillHold
<1>5. CASE UNCHANGED vars
  BY <1>5, HoldFrame DEF vars, tableVars, auxVars
<1> QED
  BY <1>1, <1>2, <1>3, <1>4, <1>5 DEF Next

(* Until the first restart a marked row is still reserved, and what        *)
(* clear_slot is about to wipe or to free is marked or wiped.              *)
FirstBoot ==
  boot = 0 =>
    /\ clashed = {}
    /\ \A i \in Slot : row[i].detach => reserved[i]
    /\ rn.pc = "wipe" => row[rn.i].detach
    /\ rn.pc = "free" => reserved[rn.i] /\ row[rn.i].client_id = 0 /\ ~row[rn.i].detach

LEMMA ClientFirst ==
  ASSUME Once, Types, TableInv, HoldInv, FirstBoot, NEW n \in Name, ClientStep(n)
  PROVE  FirstBoot'
<1>0. PICK i \in Slot : i = cl[n].slot
  BY ClientTyped
<1>00. rn.i \in Slot
  BY RunnerSems
<1>1. CASE boot # 0
  <2>1. boot' = boot
    BY LockStep, SkipStep, TakeStep, WriteStep, ReserveStep, PairStep, AttachStep, FindStep,
       DetachStep DEF ClientStep, OnlyClient
  <2> QED
    BY <1>1, <2>1 DEF FirstBoot
<1>2. CASE boot = 0
  <2>0. /\ clashed = {} /\ Undisturbed(n)
        /\ \A j \in Slot : row[j].detach => reserved[j]
        /\ rn.pc = "wipe" => row[rn.i].detach
        /\ rn.pc = "free" => reserved[rn.i] /\ row[rn.i].client_id = 0 /\ ~row[rn.i].detach
    BY <1>2 DEF FirstBoot, HoldInv
  <2>1. CASE RequestLock(n) \/ RequestSkip(n) \/ OpenPair(n) \/ CloseFind(n)
    <3>1. UNCHANGED <<reserved, row, rn, boot, clashed>>
      BY <2>1, LockStep, SkipStep, PairStep, FindStep DEF OnlyClient
    <3> QED
      BY <3>1 DEF FirstBoot
  <2>2. CASE RequestTake(n)
    <3>1. /\ UNCHANGED <<reserved, rn, boot>> /\ ~reserved[i] /\ OnlyRow(i)
          /\ \A j \in Slot : row'[j].detach = row[j].detach
          /\ clashed' = IF HoldersAt(i, Having) = {} THEN clashed ELSE clashed \cup {n}
      BY <1>0, <2>2, TakeStep DEF OnlyClient
    <3>2. HoldersAt(i, Having) = {}
      <4>1. \A m \in Name : cl[m].pc \in Having => reserved[cl[m].slot]
        BY <2>0 DEF HoldInv, Undisturbed
      <4> QED
        BY <3>1, <4>1 DEF HoldersAt
    <3>3. rn.pc = "free" => row'[rn.i] = row[rn.i]
      BY <1>00, <2>0, <3>1 DEF OnlyRow
    <3> QED
      BY <1>00, <2>0, <3>1, <3>2, <3>3 DEF FirstBoot
  <2>3. CASE RequestWrite(n)
    <3>1. /\ UNCHANGED <<reserved, rn, boot, clashed>> /\ OnlyRow(i) /\ ~row'[i].detach
          /\ cl[n].pc = "write" /\ \A j \in Slot : row'[j].client_id = row[j].client_id
      BY <1>0, <2>3, WriteStep DEF OnlyClient
    <3>2. ~reserved[i]
      BY <1>0, <3>1 DEF TableInv, Requests, Writing
    <3>3. \A j \in Slot : row'[j].detach => row[j].detach
      BY <3>1 DEF OnlyRow
    <3>4. rn.pc = "wipe" => row'[rn.i] = row[rn.i]
      BY <1>00, <2>0, <3>1, <3>2 DEF OnlyRow
    <3> QED
      BY <1>00, <2>0, <3>1, <3>3, <3>4 DEF FirstBoot
  <2>4. CASE RequestReserve(n)
    <3>1. /\ UNCHANGED <<row, rn, boot, clashed>>
          /\ \A j \in Slot : reserved[j] => reserved'[j]
      BY <1>0, <2>4, ReserveStep DEF OnlyClient
    <3> QED
      BY <1>00, <2>0, <3>1 DEF FirstBoot
  <2>5. CASE OpenAttach(n)
    <3>1. /\ UNCHANGED <<reserved, rn, boot, clashed>>
          /\ \A j \in Slot : row'[j].client_id = row[j].client_id /\ row'[j].detach = row[j].detach
      BY <2>5, AttachStep DEF OnlyClient
    <3> QED
      BY <1>00, <2>0, <3>1 DEF FirstBoot
  <2>6. CASE CloseDetach(n)
    <3>1. /\ UNCHANGED <<reserved, rn, boot>> /\ OnlyRow(i) /\ row'[i].detach
          /\ cl[n].pc = "detach"
          /\ \A j \in Slot : row'[j].client_id = row[j].client_id
          /\ clashed' = IF row[i].client_id = client_id[n] THEN clashed ELSE Name
      BY <1>0, <2>6, DetachStep DEF OnlyClient
    <3>2. row[i].client_id = client_id[n] /\ reserved[i]
      BY <1>0, <2>0, <3>1 DEF Undisturbed, Holding, Having
    <3>3. rn.pc = "free" => rn.i # i
      BY <2>0, <3>2 DEF Once, DistinctIds
    <3>4. \A j \in Slot \ {i} : row'[j] = row[j]
      BY <3>1 DEF OnlyRow
    <3> QED
      BY <1>00, <2>0, <3>1, <3>2, <3>3, <3>4 DEF FirstBoot
  <2> QED
    BY <2>1, <2>2, <2>3, <2>4, <2>5, <2>6 DEF ClientStep
<1> QED
  BY <1>1, <1>2

LEMMA PoolFirst ==
  ASSUME Once, Types, TableInv, HoldInv, FirstBoot, PoolStep
  PROVE  FirstBoot'
<1>0. PICK i \in Slot : i = rn.i
  BY RunnerSems
<1>1. CASE Service \/ SemgetNew \/ Semop \/ SemgetOld \/ Wait \/ CleanUp \/ destroy_semaphores
             \/ ClearSlot
  <2>1. UNCHANGED <<reserved, row, boot, clashed>>
    BY <1>1, ServiceStep, NewSet, SemopStep, OldSet, WaitStep, CleanUpStep, DestroyStep,
       ClearSlotStep
  <2>2. rn'.pc # "free" /\ (rn'.pc = "wipe" => row[rn'.i].detach)
    <3>1. CASE SemgetOld
      <4>1. PICK k \in Sem : k = Now + 1
        BY <3>1, OldSet DEF Sem
      <4>2. rn'.pc \in {After(k), "exited"}
        BY <3>1, <4>1, OldSet
      <4> QED
        BY <4>2, AfterSem
    <3>2. CASE Semop
      BY <3>2, SemopStep, AfterSem
    <3> QED
      BY <1>1, <3>1, <3>2, ServiceStep, NewSet, WaitStep, CleanUpStep, DestroyStep, ClearSlotStep
  <2> QED
    BY <2>1, <2>2 DEF FirstBoot
<1>2. CASE Publish
  <2>1. /\ UNCHANGED <<reserved, boot, clashed>> /\ rn'.pc = "cleanup"
        /\ \A j \in Slot : row'[j].detach = row[j].detach
    BY <1>0, <1>2, PublishStep
  <2> QED
    BY <2>1 DEF FirstBoot
<1>3. CASE ClearRow
  <2>1. /\ UNCHANGED <<reserved, cl, boot>> /\ rn.pc = "wipe"
        /\ rn'.pc = "free" /\ rn'.i = i
        /\ \A j \in Slot \ {i} : row'[j] = row[j]
        /\ row'[i].client_id = 0 /\ ~row'[i].detach
        /\ clashed' = clashed \cup HoldersAt(i, Writing \cup Having)
    BY <1>0, <1>3, ClearRowStep, ZeroRowType DEF OnlyRow
  <2>2. ASSUME boot = 0 PROVE reserved[i] /\ HoldersAt(i, Writing \cup Having) = {}
    <3>1. reserved[i] /\ row[i].detach /\ clashed = {}
      BY <1>0, <2>1, <2>2 DEF FirstBoot
    <3>2. \A m \in Name : cl[m].slot = i => cl[m].pc \notin Having
      BY <3>1 DEF HoldInv, Undisturbed
    <3>3. \A m \in Name : cl[m].slot = i => cl[m].pc \notin Writing
      BY <3>1 DEF TableInv, Requests
    <3> QED
      BY <3>1, <3>2, <3>3 DEF HoldersAt
  <2> QED
    BY <2>1, <2>2 DEF FirstBoot
<1>4. CASE ClearFree
  <2>1. /\ UNCHANGED <<row, cl, boot>> /\ rn.pc = "free" /\ rn'.pc = "service"
        /\ ~reserved'[i] /\ \A j \in Slot \ {i} : reserved'[j] = reserved[j]
        /\ clashed' = clashed \cup HoldersAt(i, Having)
    BY <1>0, <1>4, ClearFreeStep
  <2>2. ASSUME boot = 0 PROVE HoldersAt(i, Having) = {} /\ ~row[i].detach
    <3>1. row[i].client_id = 0 /\ clashed = {} /\ ~row[i].detach
      BY <1>0, <2>1, <2>2 DEF FirstBoot
    <3>2. \A m \in Name : cl[m].pc \in Having => row[cl[m].slot].client_id # 0
      BY <3>1 DEF HoldInv, Undisturbed, Holding, Once, DistinctIds
    <3> QED
      BY <3>1, <3>2 DEF HoldersAt
  <2> QED
    BY <2>1, <2>2 DEF FirstBoot
<1> QED
  BY <1>1, <1>2, <1>3, <1>4 DEF PoolStep

LEMMA NextFirst ==
  ASSUME Once, Types, TableInv, HoldInv, FirstBoot, [Next]_vars
  PROVE  FirstBoot'
<1>1. ASSUME NEW n \in Name, NEW k \in Sem, UseQueue(n, k) PROVE FirstBoot'
  <2>1. UNCHANGED <<reserved, row, rn, boot, clashed>>
    BY <1>1, UseStep
  <2> QED
    BY <2>1 DEF FirstBoot
<1>2. CASE KillAndRestart
  BY <1>2, KillStep DEF FirstBoot
<1>3. CASE UNCHANGED vars
  BY <1>3 DEF vars, tableVars, auxVars, FirstBoot
<1> QED
  BY <1>1, <1>2, <1>3, ClientFirst, PoolFirst DEF Next

LEMMA InitFirst == Init => FirstBoot
<1>1. Init => /\ clashed = {} /\ rn.pc = "service"
              /\ \A i \in Slot : ~row[i].detach
  BY NewRunnerType, ZeroRowType DEF Init
<1> QED
  BY <1>1 DEF FirstBoot

(***************************************************************************)
(* A server that was never restarted gives each client a slot of its own:  *)
(* the unlocked wipe and release of clear_slot never meet a client that    *)
(* writes, reserves or has the row, and no close marks another's row.  For *)
(* any number of clients with different ids that open once, and of slots.  *)
(***************************************************************************)
THEOREM SlotsKept == ASSUME DistinctIds, Opens <= 1 PROVE Spec => []ClashAfterRestart
<1>1. FirstBoot => ClashAfterRestart
  BY DEF FirstBoot, ClashAfterRestart
<1>2. Once
  BY DEF Once
<1>3. ASSUME Types, TableInv, SightInv, HoldInv, FirstBoot, [Next]_vars
      PROVE  HoldInv' /\ FirstBoot'
  BY <1>2, <1>3, NextHold, NextFirst
<1> QED
  BY <1>1, <1>3, InitKeeps, NextKeeps, InitSight, NextSight, InitHold, InitFirst, PTL DEF Spec

-----------------------------------------------------------------------------
(* Which semaphores queue_create finds                                     *)

(* No two semaphores of the clients have the same key, unless it is 0,     *)
(* under which semget always makes a new set.                              *)
SemKeysApart ==
  \A m, n \in Name : \A k, l \in Sem :
    sem_key(client_id[m], k) = sem_key(client_id[n], l) =>
      (m = n /\ k = l) \/ sem_key(client_id[m], k) = 0

OnceApart == Once /\ SemKeysApart

(* The running server made set s, under a key of client n.                 *)
MadeFor(s, n) ==
  sets[s].live /\ sets[s].boot = boot /\ sets[s].key # 0 /\ sets[s].key \in KeysOf(n)

(* A client for which a set was made is past request_slot, and no row that *)
(* carries its id waits for queues.                                        *)
ServedOnce ==
  \A n \in Name : \A s \in DOMAIN sets : MadeFor(s, n) /\ s \notin Range(rn.sems) =>
    /\ cl[n].opens >= 1 /\ cl[n].pc \notin Writing
    /\ \A i \in Slot : reserved[i] /\ row[i].client_id = client_id[n] => row[i].created

(* A set that queue_create has just made is nobody else's.                 *)
FreshInHand ==
  Serving => \A k \in DOMAIN rn.sems : sets[rn.sems[k]].boot = boot =>
    /\ \A n \in Name : \A l \in DOMAIN cl[n].sems : cl[n].sems[l] # rn.sems[k]
    /\ \A i \in Slot : \A l \in DOMAIN row[i].sems : row[i].sems[l] # rn.sems[k]

(* queue_create's sem_wait finds the 1 that its own semop has left.        *)
TokenThere ==
  rn.pc = "wait" /\ sets[rn.sems[Now]].boot = boot => sets[rn.sems[Now]].val >= 1

KeyInv == ServedOnce /\ FreshInHand /\ TokenThere

LEMMA ZeroKey == \A k \in Sem : sem_key(0, k) = 0
<1>1. Quot(0, 2) = 0 /\ Quot(0, 3) = 0 /\ Abs(0) = 0
  BY DEF Quot, Abs
<1>2. 0 \div 2 = 0 /\ 0 \div 20 = 0 /\ 0 \div 200 = 0
  OBVIOUS
<1> QED
  BY <1>1, <1>2 DEF sem_key, key_seed

(* The client of a reserved row that has a key other than 0.               *)
LEMMA KeyOwner ==
  ASSUME OnceApart, HoldInv, NEW i \in Slot, reserved[i], NEW k \in Sem,
         sem_key(row[i].client_id, k) # 0
  PROVE  \E n \in Name :
           /\ row[i].client_id = client_id[n] /\ cl[n].slot = i /\ cl[n].opens >= 1
           /\ sem_key(row[i].client_id, k) \in KeysOf(n)
           /\ \A m \in Name : \A l \in Sem :
                sem_key(client_id[m], l) = sem_key(row[i].client_id, k) => m = n /\ l = k
<1>1. row[i].client_id # 0
  BY ZeroKey
<1>2. PICK n \in Name : row[i].client_id = client_id[n] /\ cl[n].slot = i /\ cl[n].opens >= 1
  BY <1>1 DEF HoldInv, RowOwned
<1>3. sem_key(row[i].client_id, k) \in KeysOf(n)
  BY <1>2 DEF KeysOf
<1>4. \A m \in Name : \A l \in Sem :
        sem_key(client_id[m], l) = sem_key(row[i].client_id, k) => m = n /\ l = k
  BY <1>2 DEF OnceApart, SemKeysApart
<1> QED
  BY <1>2, <1>3, <1>4

LEMMA RowSix ==
  ASSUME Types, TableInv, NEW i \in Slot, InUse(i)
  PROVE  DOMAIN row[i].sems = Sem
<1>1. Len(row[i].sems) = 6 /\ row[i].sems \in Seq(Nat)
  BY DEF TableInv, RowsServed, Types, RowRec
<1> QED
  BY <1>1, LenProperties DEF Sem

(* A set that semget finds is in no row in use, not in hand, and not of    *)
(* the running server.                                                     *)
LEMMA FoundApart ==
  ASSUME OnceApart, Types, TableInv, SightInv, HoldInv, ServedOnce,
         rn.pc = "semget", NEW s \in DOMAIN sets, HasKey(s, Key)
  PROVE  /\ \A i \in Slot : InUse(i) => s \notin Range(row[i].sems)
         /\ s \notin Range(rn.sems)
         /\ sets[s].boot # boot
<1>0. PICK q \in Slot : q = rn.i
  BY RunnerSems
<1>1. /\ reserved[q] /\ ~row[q].created /\ Now \in 0..5 /\ Now + 1 \in Sem
      /\ DOMAIN rn.sems = 1..Now
  BY <1>0, RunnerSems DEF TableInv, RunnerInv, Serving, Sem
<1>2. PICK key : key = sem_key(row[q].client_id, Now + 1) /\ key # 0
                 /\ sets[s].live /\ sets[s].key = key
  BY <1>0 DEF HasKey, Key
<1>3. PICK n \in Name :
        /\ row[q].client_id = client_id[n] /\ cl[n].slot = q /\ key \in KeysOf(n)
        /\ \A m \in Name : \A l \in Sem : sem_key(client_id[m], l) = key => m = n /\ l = Now + 1
  BY <1>1, <1>2, KeyOwner
<1>4. ASSUME NEW i \in Slot, InUse(i) PROVE s \notin Range(row[i].sems)
  <2> SUFFICES ASSUME NEW k \in DOMAIN row[i].sems, s = row[i].sems[k] PROVE FALSE
    BY DEF Range
  <2>1. k \in Sem /\ reserved[i] /\ row[i].created
    BY <1>4, RowSix DEF InUse
  <2>2. sem_key(row[i].client_id, k) = key
    BY <1>2, <1>4 DEF SightInv, RowKeys, KeysOfRow
  <2>3. PICK m \in Name : row[i].client_id = client_id[m] /\ cl[m].slot = i
    BY <1>2, <2>1, <2>2, KeyOwner
  <2>4. m = n
    BY <1>3, <2>1, <2>2, <2>3
  <2> QED
    BY <1>1, <1>3, <2>1, <2>3, <2>4
<1>5. s \notin Range(rn.sems)
  <2> SUFFICES ASSUME NEW k \in DOMAIN rn.sems, s = rn.sems[k] PROVE FALSE
    BY DEF Range
  <2>1. k \in Sem /\ k # Now + 1
    BY <1>1 DEF Sem
  <2>2. sem_key(client_id[n], k) = key
    BY <1>0, <1>2, <1>3 DEF SightInv, RunnerKeys, KeysOfRow, Serving
  <2> QED
    BY <1>3, <2>1, <2>2
<1>6. sets[s].boot # boot
  BY <1>1, <1>2, <1>3, <1>5 DEF ServedOnce, MadeFor
<1> QED
  BY <1>4, <1>5, <1>6

(* What the steps of a client have in common.                              *)
LEMMA ClientMoves ==
  ASSUME Types, TableInv, HoldInv, NEW n \in Name, ClientStep(n)
  PROVE  /\ OnlyClient(n) /\ clashed \subseteq clashed'
         /\ \A j \in Slot : row'[j].sems = row[j].sems
         /\ \A j \in Slot : reserved[j] =>
              /\ reserved'[j] /\ row'[j].created = row[j].created
              /\ row'[j].client_id = row[j].client_id
         /\ \A j \in Slot : reserved'[j] /\ ~reserved[j] =>
              cl[n].pc = "reserve" /\ j = cl[n].slot /\ row' = row /\ ~row[j].created
         /\ cl'[n].sems = cl[n].sems \/ cl'[n].sems = << >> \/ OpenPair(n)
         /\ cl'[n].pc \in Having => \/ cl[n].pc = "reserve" /\ cl'[n].slot = cl[n].slot
                                    \/ /\ cl[n].pc \in Having
                                       /\ n \notin clashed => cl'[n].slot = cl[n].slot
<1>0. PICK i \in Slot : i = cl[n].slot
  BY ClientTyped
<1>1. CASE RequestLock(n) \/ RequestSkip(n)
  BY <1>1, LockStep, SkipStep DEF Having
<1>2. CASE RequestTake(n)
  <2>1. /\ OnlyClient(n) /\ UNCHANGED reserved /\ cl[n].pc = "scan" /\ ~reserved[i]
        /\ cl'[n].pc = "write" /\ cl'[n].sems = cl[n].sems /\ OnlyRow(i)
        /\ \A j \in Slot : row'[j].sems = row[j].sems
        /\ clashed \subseteq clashed'
    BY <1>0, <1>2, TakeStep
  <2>2. \A j \in Slot : reserved[j] => row'[j] = row[j]
    BY <2>1 DEF OnlyRow
  <2> QED
    BY <2>1, <2>2 DEF Having
<1>3. CASE RequestWrite(n)
  <2>1. /\ OnlyClient(n) /\ UNCHANGED <<reserved, clashed>> /\ cl[n].pc = "write"
        /\ cl'[n].pc = "reserve" /\ cl'[n].sems = cl[n].sems /\ OnlyRow(i)
        /\ \A j \in Slot : row'[j].sems = row[j].sems
    BY <1>0, <1>3, WriteStep
  <2>2. ~reserved[i]
    BY <1>0, <2>1 DEF TableInv, Requests, Writing
  <2>3. \A j \in Slot : reserved[j] => row'[j] = row[j]
    BY <2>1, <2>2 DEF OnlyRow
  <2> QED
    BY <2>1, <2>3 DEF Having
<1>4. CASE RequestReserve(n)
  <2>1. /\ OnlyClient(n) /\ UNCHANGED <<row, clashed>> /\ cl[n].pc = "reserve"
        /\ cl'[n].slot = i /\ cl'[n].sems = cl[n].sems
        /\ reserved'[i] /\ \A j \in Slot \ {i} : reserved'[j] = reserved[j]
    BY <1>0, <1>4, ReserveStep
  <2>2. ~row[i].created
    BY <1>0, <2>1 DEF TableInv, Requests
  <2>3. /\ \A j \in Slot : reserved[j] => reserved'[j]
        /\ \A j \in Slot : reserved'[j] /\ ~reserved[j] => j = i
    BY <2>1
  <2> QED
    BY <1>0, <2>1, <2>2, <2>3
<1>5. CASE OpenPair(n)
  BY <1>5, PairStep DEF Having
<1>6. CASE OpenAttach(n)
  <2>1. /\ OnlyClient(n) /\ UNCHANGED <<reserved, clashed>> /\ cl[n].pc = "attach"
        /\ cl'[n].slot = cl[n].slot /\ cl'[n].sems = cl[n].sems
        /\ \A j \in Slot : /\ row'[j].client_id = row[j].client_id
                           /\ row'[j].created = row[j].created /\ row'[j].sems = row[j].sems
    BY <1>6, AttachStep
  <2> QED
    BY <2>1 DEF Having
<1>7. CASE CloseFind(n)
  <2>1. /\ OnlyClient(n) /\ UNCHANGED <<reserved, row, clashed>> /\ cl[n].pc = "open"
        /\ \/ /\ cl'[n].pc = "detach" /\ cl'[n].sems = cl[n].sems
              /\ cl'[n].slot \in Slot /\ row[cl'[n].slot].client_id = client_id[n]
              /\ \A j \in Slot : j < cl'[n].slot => row[j].client_id # client_id[n]
           \/ cl'[n].pc = "start" /\ cl'[n].sems = << >>
    BY <1>7, FindStep
  <2>2. n \notin clashed => row[cl[n].slot].client_id = client_id[n]
    BY <2>1 DEF HoldInv, Undisturbed, Holding, Having
  <2>3. n \notin clashed /\ cl'[n].pc = "detach" => cl'[n].slot = cl[n].slot
    BY <2>1, <2>2, FoundOwn
  <2> QED
    BY <2>1, <2>3 DEF Having
<1>8. CASE CloseDetach(n)
  <2>1. /\ OnlyClient(n) /\ UNCHANGED reserved /\ cl'[n].pc = "start" /\ cl'[n].sems = << >>
        /\ \A j \in Slot : /\ row'[j].client_id = row[j].client_id
                           /\ row'[j].created = row[j].created /\ row'[j].sems = row[j].sems
        /\ clashed' = IF row[cl[n].slot].client_id = client_id[n] THEN clashed ELSE Name
    BY <1>8, DetachStep
  <2>2. clashed \subseteq clashed'
    BY <2>1 DEF Types
  <2> QED
    BY <2>1, <2>2 DEF Having
<1> QED
  BY <1>1, <1>2, <1>3, <1>4, <1>5, <1>6, <1>7, <1>8 DEF ClientStep

LEMMA SameMade ==
  ASSUME UNCHANGED boot, NEW s, SameSet(s), NEW n
  PROVE  MadeFor(s, n)' <=> MadeFor(s, n)
BY DEF MadeFor, SameSet, KeysOf

LEMMA ClientKeys ==
  ASSUME OnceApart, Types, TableInv, HoldInv, KeyInv, NEW n \in Name, ClientStep(n)
  PROVE  KeyInv'
<1>1. /\ OnlyClient(n)
      /\ \A j \in Slot : row'[j].sems = row[j].sems
      /\ \A j \in Slot : reserved[j] =>
           /\ reserved'[j] /\ row'[j].created = row[j].created
           /\ row'[j].client_id = row[j].client_id
      /\ \A j \in Slot : reserved'[j] /\ ~reserved[j] =>
           cl[n].pc = "reserve" /\ j = cl[n].slot /\ row' = row
      /\ cl'[n].sems = cl[n].sems \/ cl'[n].sems = << >> \/ OpenPair(n)
  BY ClientMoves
<1>2. UNCHANGED <<sets, rn, boot>> /\ \A m \in Name \ {n} : cl'[m] = cl[m]
  BY <1>1 DEF OnlyClient
<1>3. Once
  BY DEF OnceApart
<1>4. ASSUME cl[n].opens >= 1, cl[n].pc \notin Writing
      PROVE  cl'[n].opens >= 1 /\ cl'[n].pc \notin Writing
  <2>1. ~RequestLock(n)
    BY <1>3, <1>4, LockStep, ClientTyped, Bounds DEF Once
  <2>2. ~RequestSkip(n) /\ ~RequestTake(n)
    <3>1. cl[n].pc # "scan"
      BY <1>3, <1>4, Requester DEF Requesting
    <3> QED
      BY <3>1, SkipStep, TakeStep
  <2>3. ~RequestWrite(n) /\ ~RequestReserve(n)
    BY <1>4, WriteStep, ReserveStep DEF Writing
  <2>4. CASE OpenPair(n) \/ OpenAttach(n) \/ CloseDetach(n)
    BY <1>4, <2>4, PairStep, AttachStep, DetachStep DEF Writing
  <2>5. CASE CloseFind(n)
    BY <1>4, <2>5, FindStep DEF Writing
  <2> QED
    BY <2>1, <2>2, <2>3, <2>4, <2>5 DEF ClientStep
<1>5. ServedOnce'
  <2> SUFFICES ASSUME NEW m \in Name, NEW s \in DOMAIN sets, MadeFor(s, m), s \notin Range(rn.sems)
               PROVE  /\ cl'[m].opens >= 1 /\ cl'[m].pc \notin Writing
                      /\ \A i \in Slot : reserved'[i] /\ row'[i].client_id = client_id[m] =>
                           row'[i].created
    BY <1>2 DEF ServedOnce, MadeFor
  <2>1. /\ cl[m].opens >= 1 /\ cl[m].pc \notin Writing
        /\ \A i \in Slot : reserved[i] /\ row[i].client_id = client_id[m] => row[i].created
    BY DEF KeyInv, ServedOnce
  <2>2. cl'[m].opens >= 1 /\ cl'[m].pc \notin Writing
    BY <1>2, <1>4, <2>1
  <2>3. ASSUME NEW i \in Slot, reserved'[i], ~reserved[i], row'[i].client_id = client_id[m]
        PROVE  FALSE
    <3>1. cl[n].pc = "reserve" /\ i = cl[n].slot /\ row[i].client_id = client_id[m]
      BY <1>1, <2>3
    <3>2. row[i].client_id \in {client_id[n], 0}
      BY <3>1 DEF HoldInv, WriterRow, Writing
    <3>3. m = n
      BY <1>3, <3>1, <3>2 DEF Once, DistinctIds
    <3> QED
      BY <2>1, <3>1, <3>3 DEF Writing
  <2> QED
    BY <1>1, <2>1, <2>2, <2>3
<1>6. FreshInHand'
  <2> SUFFICES ASSUME Serving, NEW k \in DOMAIN rn.sems, sets[rn.sems[k]].boot = boot
               PROVE  /\ \A m \in Name : \A l \in DOMAIN cl'[m].sems : cl'[m].sems[l] # rn.sems[k]
                      /\ \A i \in Slot : \A l \in DOMAIN row'[i].sems : row'[i].sems[l] # rn.sems[k]
    BY <1>2 DEF FreshInHand, Serving
  <2>1. /\ \A m \in Name : \A l \in DOMAIN cl[m].sems : cl[m].sems[l] # rn.sems[k]
        /\ \A i \in Slot : \A l \in DOMAIN row[i].sems : row[i].sems[l] # rn.sems[k]
    BY DEF KeyInv, FreshInHand
  <2>2. \A l \in DOMAIN cl'[n].sems : cl'[n].sems[l] # rn.sems[k]
    <3>1. CASE OpenPair(n)
      <4>1. /\ cl[n].slot \in Slot
            /\ cl'[n].sems = row[cl[n].slot].sems \/ cl'[n].sems = << >>
        BY <3>1, PairStep
      <4> QED
        BY <2>1, <4>1, NoSems
    <3> QED
      BY <1>1, <2>1, <3>1, NoSems
  <2> QED
    BY <1>1, <1>2, <2>1, <2>2
<1>7. TokenThere'
  BY <1>2 DEF KeyInv, TokenThere, Now
<1> QED
  BY <1>5, <1>6, <1>7 DEF KeyInv

(* A step of manage_pool that leaves rows and clients alone and lets go of *)
(* no set in its hands that is still there.                                *)
LEMMA ServedFrame ==
  ASSUME KeyInv, UNCHANGED <<reserved, row, cl, boot>>,
         \A s \in DOMAIN sets' : s \in DOMAIN sets \/ s \in Range(rn'.sems),
         \A s \in DOMAIN sets : SameSet(s) \/ ~sets'[s].live,
         \A s \in Range(rn.sems) : s \in Range(rn'.sems) \/ ~sets'[s].live
  PROVE  ServedOnce'
<1> SUFFICES ASSUME NEW n \in Name, NEW s \in DOMAIN sets', MadeFor(s, n)', s \notin Range(rn'.sems)
             PROVE  /\ cl[n].opens >= 1 /\ cl[n].pc \notin Writing
                    /\ \A i \in Slot : reserved[i] /\ row[i].client_id = client_id[n] => row[i].created
  BY DEF ServedOnce
<1>1. s \in DOMAIN sets /\ sets'[s].live
  BY DEF MadeFor
<1>2. SameSet(s) /\ s \notin Range(rn.sems)
  BY <1>1
<1>3. MadeFor(s, n)
  BY <1>2, SameMade
<1> QED
  BY <1>1, <1>2, <1>3 DEF KeyInv, ServedOnce

LEMMA UseKeys ==
  ASSUME Types, TableInv, KeyInv, NEW n \in Name, NEW k \in Sem, UseQueue(n, k)
  PROVE  KeyInv'
<1>1. /\ UNCHANGED <<reserved, row, cl, rn, boot>> /\ DOMAIN sets' = DOMAIN sets
      /\ k \in DOMAIN cl[n].sems
      /\ \A t \in DOMAIN sets : SameSet(t) /\ (t # cl[n].sems[k] => sets'[t] = sets[t])
  BY UseStep
<1>2. ServedOnce'
  BY <1>1, ServedFrame
<1>3. FreshInHand'
  BY <1>1 DEF KeyInv, FreshInHand, Serving, SameSet, TableInv, Known
<1>4. TokenThere'
  <2> SUFFICES ASSUME rn.pc = "wait", sets'[rn.sems[Now]].boot = boot
               PROVE  sets'[rn.sems[Now]].val >= 1
    BY <1>1 DEF TokenThere, Now
  <2>1. Now \in DOMAIN rn.sems /\ Serving /\ rn.sems[Now] \in DOMAIN sets
    BY RunnerSems DEF TableInv, RunnerInv, Known, Empties, Serving
  <2>2. sets[rn.sems[Now]].boot = boot
    BY <1>1, <2>1 DEF SameSet
  <2>3. rn.sems[Now] # cl[n].sems[k]
    BY <1>1, <2>1, <2>2 DEF KeyInv, FreshInHand
  <2> QED
    BY <1>1, <2>1, <2>2, <2>3 DEF KeyInv, TokenThere
<1> QED
  BY <1>2, <1>3, <1>4 DEF KeyInv

LEMMA NewKeys ==
  ASSUME Types, TableInv, KeyInv, SemgetNew
  PROVE  KeyInv'
<1>1. PICK l \in Nat : l = Len(sets) + 1
  BY NewSet
<1>2. /\ UNCHANGED <<reserved, row, cl, boot>> /\ rn.pc = "semget" /\ Now \in 0..5
      /\ DOMAIN sets = 1..(l - 1) /\ DOMAIN sets' = 1..l
      /\ \A s \in DOMAIN sets : sets'[s] = sets[s]
      /\ rn'.pc = "semop" /\ DOMAIN rn'.sems = 1..(Now + 1)
      /\ rn'.sems[Now + 1] = l
      /\ \A k \in 1..Now : rn'.sems[k] = rn.sems[k]
  BY <1>1, NewSet
<1>3. l \notin DOMAIN sets /\ \A s \in DOMAIN sets' : s \in DOMAIN sets \/ s = l
  BY <1>1, <1>2
<1>4. /\ DOMAIN rn.sems = 1..Now /\ \A k \in DOMAIN rn.sems : rn.sems[k] \in DOMAIN sets
      /\ \A k \in DOMAIN rn'.sems : k \in 1..Now \/ k = Now + 1
      /\ Now + 1 \in DOMAIN rn'.sems /\ \A k \in 1..Now : k \in DOMAIN rn'.sems
  BY <1>2, RunnerSems DEF TableInv, Known
<1>5. l \in Range(rn'.sems) /\ Range(rn.sems) \subseteq Range(rn'.sems)
  BY <1>2, <1>4 DEF Range
<1>6. ServedOnce'
  BY <1>2, <1>3, <1>5, ServedFrame DEF SameSet
<1>7. FreshInHand'
  <2> SUFFICES ASSUME NEW k \in DOMAIN rn'.sems, sets'[rn'.sems[k]].boot = boot
               PROVE  /\ \A n \in Name : \A j \in DOMAIN cl[n].sems : cl[n].sems[j] # rn'.sems[k]
                      /\ \A i \in Slot : \A j \in DOMAIN row[i].sems : row[i].sems[j] # rn'.sems[k]
    BY <1>2 DEF FreshInHand
  <2>1. CASE k = Now + 1
    BY <1>2, <1>3, <2>1 DEF TableInv, Known
  <2>2. CASE k \in 1..Now
    BY <1>2, <1>4, <2>2 DEF KeyInv, FreshInHand, Serving
  <2> QED
    BY <1>4, <2>1, <2>2
<1>8. TokenThere'
  BY <1>2 DEF TokenThere
<1> QED
  BY <1>6, <1>7, <1>8 DEF KeyInv

LEMMA ValueKeys ==
  ASSUME Types, TableInv, KeyInv, Semop \/ Wait
  PROVE  KeyInv'
<1>1. /\ UNCHANGED <<reserved, row, cl, boot>> /\ DOMAIN sets' = DOMAIN sets
      /\ \A t \in DOMAIN sets : SameSet(t)
      /\ Serving /\ rn'.sems = rn.sems
  BY SemopStep, WaitStep DEF Serving
<1>2. ServedOnce'
  BY <1>1, ServedFrame
<1>3. FreshInHand'
  BY <1>1 DEF KeyInv, FreshInHand, SameSet, TableInv, Known
<1>4. rn'.pc = "wait" => sets'[rn.sems[Now]].val = 1
  BY SemopStep, WaitStep
<1>5. TokenThere'
  <2>1. Now' = Now
    BY <1>1 DEF Now
  <2> QED
    BY <1>1, <1>4, <2>1 DEF TokenThere
<1> QED
  BY <1>2, <1>3, <1>5 DEF KeyInv

LEMMA OldKeys ==
  ASSUME OnceApart, Types, TableInv, SightInv, HoldInv, KeyInv, SemgetOld
  PROVE  KeyInv'
<1>1. UNCHANGED <<sets, reserved, row, cl, boot>> /\ rn.pc = "semget" /\ Now \in 0..5
  BY OldSet
<1>2. PICK s \in DOMAIN sets :
        /\ HasKey(s, Key)
        /\ \/ /\ rn'.pc = After(Now + 1) /\ Len(rn'.sems) = Now + 1
              /\ DOMAIN rn'.sems = 1..(Now + 1)
              /\ rn'.sems[Now + 1] = s /\ \A k \in 1..Now : rn'.sems[k] = rn.sems[k]
           \/ rn'.pc = "exited" /\ rn'.sems = rn.sems
  BY OldSet
<1>3. sets[s].boot # boot
  BY <1>1, <1>2, FoundApart DEF KeyInv
<1>4. DOMAIN rn.sems = 1..Now
  BY RunnerSems
<1>5. CASE rn'.pc = "exited" /\ rn'.sems = rn.sems
  <2>1. TokenThere' /\ FreshInHand'
    BY <1>5 DEF TokenThere, FreshInHand, Serving
  <2> QED
    BY <1>1, <1>5, <2>1, ServedFrame DEF KeyInv, SameSet
<1>6. CASE /\ rn'.pc = After(Now + 1) /\ Len(rn'.sems) = Now + 1
           /\ DOMAIN rn'.sems = 1..(Now + 1)
           /\ rn'.sems[Now + 1] = s /\ \A k \in 1..Now : rn'.sems[k] = rn.sems[k]
  <2>1. /\ \A k \in DOMAIN rn'.sems : k \in 1..Now \/ k = Now + 1
        /\ \A k \in 1..Now : k \in DOMAIN rn'.sems
    BY <1>1, <1>6
  <2>2. Range(rn.sems) \subseteq Range(rn'.sems)
    BY <1>4, <1>6, <2>1 DEF Range
  <2>3. ServedOnce'
    BY <1>1, <2>2, ServedFrame DEF SameSet
  <2>4. FreshInHand'
    BY <1>1, <1>3, <1>4, <1>6, <2>1 DEF KeyInv, FreshInHand, Serving
  <2>5. TokenThere'
    <3>1. Now' = Now + 1
      BY <1>6, Zenon DEF Now
    <3> QED
      BY <1>1, <1>3, <1>6, <3>1 DEF TokenThere
  <2> QED
    BY <2>3, <2>4, <2>5 DEF KeyInv
<1> QED
  BY <1>2, <1>5, <1>6

LEMMA PublishKeys ==
  ASSUME OnceApart, Types, TableInv, SightInv, HoldInv, KeyInv, Publish
  PROVE  KeyInv'
<1>0. PICK i \in Slot : i = rn.i
  BY RunnerSems
<1>1. /\ UNCHANGED <<sets, reserved, cl, boot>> /\ rn.pc = "publish" /\ Now = 6
      /\ rn'.pc = "cleanup"
      /\ \A j \in Slot \ {i} : row'[j] = row[j]
      /\ row'[i].created /\ row'[i].client_id = row[i].client_id
  BY <1>0, PublishStep
<1>2. reserved[i] /\ DOMAIN rn.sems = Sem /\ KeysOfRow(rn.sems, row[i].client_id)
  BY <1>0, <1>1, RunnerSems DEF TableInv, RunnerInv, SightInv, RunnerKeys, Serving, Sem
<1>3. ServedOnce'
  <2> SUFFICES ASSUME NEW n \in Name, NEW s \in DOMAIN sets, MadeFor(s, n)
               PROVE  /\ cl[n].opens >= 1 /\ cl[n].pc \notin Writing
                      /\ \A j \in Slot : reserved[j] /\ row'[j].client_id = client_id[n] =>
                           row'[j].created
    BY <1>1 DEF ServedOnce, MadeFor
  <2>1. CASE s \notin Range(rn.sems)
    BY <1>1, <2>1 DEF KeyInv, ServedOnce
  <2>2. CASE s \in Range(rn.sems)
    <3>1. PICK k \in Sem : s = rn.sems[k]
      BY <1>2, <2>2 DEF Range
    <3>2. sets[s].key = sem_key(row[i].client_id, k) /\ sets[s].key # 0
      BY <1>2, <3>1 DEF KeysOfRow, MadeFor
    <3>3. PICK l \in Sem : sets[s].key = sem_key(client_id[n], l)
      BY DEF MadeFor, KeysOf
    <3>4. row[i].client_id = client_id[n] /\ cl[n].slot = i /\ cl[n].opens >= 1
      <4>1. sem_key(row[i].client_id, k) # 0
        BY <3>2
      <4>2. PICK m \in Name :
              /\ row[i].client_id = client_id[m] /\ cl[m].slot = i /\ cl[m].opens >= 1
              /\ \A p \in Name : \A j \in Sem :
                   sem_key(client_id[p], j) = sem_key(row[i].client_id, k) => p = m /\ j = k
        BY <1>2, <4>1, KeyOwner
      <4>3. m = n
        BY <3>2, <3>3, <4>2
      <4> QED
        BY <4>2, <4>3
    <3>5. cl[n].pc \notin Writing
      BY <1>2, <3>4 DEF TableInv, Requests
    <3>6. ASSUME NEW j \in Slot, reserved[j], row'[j].client_id = client_id[n] PROVE j = i
      <4>1. row[j].client_id = client_id[n]
        BY <1>1, <3>6
      <4>2. client_id[n] # 0
        BY DEF OnceApart, Once, DistinctIds
      <4>3. PICK m \in Name : row[j].client_id = client_id[m] /\ cl[m].slot = j
        BY <3>6, <4>1, <4>2 DEF HoldInv, RowOwned
      <4>4. m = n
        BY <4>1, <4>3 DEF OnceApart, Once, DistinctIds
      <4> QED
        BY <3>4, <4>3, <4>4
    <3> QED
      BY <1>1, <3>4, <3>5, <3>6
  <2> QED
    BY <2>1, <2>2
<1>4. FreshInHand' /\ TokenThere'
  BY <1>1 DEF FreshInHand, TokenThere, Serving
<1> QED
  BY <1>3, <1>4 DEF KeyInv

LEMMA MoveKeys ==
  ASSUME Types, TableInv, KeyInv, Service \/ CleanUp \/ destroy_semaphores \/ ClearSlot
  PROVE  KeyInv'
<1>1. CASE Service \/ CleanUp \/ ClearSlot
  <2>1. UNCHANGED <<sets, reserved, row, cl, boot>>
    BY <1>1, ServiceStep, CleanUpStep, ClearSlotStep
  <2>2. DOMAIN rn.sems = {} /\ Range(rn.sems) = {}
    BY <1>1, ServiceStep, CleanUpStep, ClearSlotStep, NoSems DEF TableInv, RunnerInv
  <2>3. ServedOnce'
    BY <2>1, <2>2, ServedFrame DEF SameSet
  <2>4. rn'.pc # "wait" /\ (Serving' => rn'.sems = rn.sems)
    BY <1>1, ServiceStep, CleanUpStep, ClearSlotStep DEF Serving
  <2> QED
    BY <2>2, <2>3, <2>4 DEF KeyInv, FreshInHand, TokenThere
<1>2. CASE destroy_semaphores
  <2>1. /\ UNCHANGED <<reserved, row, cl, boot>> /\ DOMAIN sets' = DOMAIN sets
        /\ rn'.pc \in {"clear", "destroy"}
        /\ \E s \in DOMAIN sets :
             /\ ~sets'[s].live
             /\ \A t \in DOMAIN sets : t # s => sets'[t] = sets[t]
             /\ \A t \in Range(rn.sems) : t # s => t \in Range(rn'.sems)
    BY <1>2, DestroyStep
  <2>2. ServedOnce'
    BY <2>1, ServedFrame DEF SameSet
  <2>3. FreshInHand' /\ TokenThere'
    BY <2>1 DEF FreshInHand, TokenThere, Serving
  <2> QED
    BY <2>2, <2>3 DEF KeyInv
<1> QED
  BY <1>1, <1>2

LEMMA ClearKeys ==
  ASSUME OnceApart, Types, TableInv, KeyInv, ClearRow \/ ClearFree
  PROVE  KeyInv'
<1>0. PICK i \in Slot : i = rn.i
  BY RunnerSems
<1>1. /\ UNCHANGED <<sets, cl, boot>> /\ rn'.sems = rn.sems /\ rn'.pc \in {"free", "service"}
  BY ClearRowStep, ClearFreeStep
<1>2. \A j \in Slot : reserved'[j] => reserved[j]
  BY <1>0, ClearRowStep, ClearFreeStep
<1>3. \A j \in Slot : row'[j] = row[j] \/ row'[j].client_id = 0
  BY <1>0, ClearRowStep, ClearFreeStep, ZeroRowType DEF OnlyRow
<1>4. \A n \in Name : client_id[n] # 0
  BY DEF OnceApart, Once, DistinctIds
<1>5. ServedOnce'
  <2> SUFFICES ASSUME NEW n \in Name, NEW s \in DOMAIN sets, MadeFor(s, n), s \notin Range(rn.sems)
               PROVE  /\ cl[n].opens >= 1 /\ cl[n].pc \notin Writing
                      /\ \A j \in Slot : reserved'[j] /\ row'[j].client_id = client_id[n] =>
                           row'[j].created
    BY <1>1 DEF ServedOnce, MadeFor
  <2> QED
    BY <1>2, <1>3, <1>4 DEF KeyInv, ServedOnce
<1>6. FreshInHand' /\ TokenThere'
  BY <1>1 DEF FreshInHand, TokenThere, Serving
<1> QED
  BY <1>5, <1>6 DEF KeyInv

LEMMA KillKeys ==
  ASSUME Types, TableInv, KillAndRestart
  PROVE  KeyInv'
<1>1. UNCHANGED sets /\ boot' = boot + 1 /\ boot \in Nat /\ rn' = NewRunner
  BY KillStep
<1>2. \A s \in DOMAIN sets : sets[s].boot # boot + 1
  BY <1>1 DEF TableInv, Known
<1> QED
  BY <1>1, <1>2, NewRunnerType DEF KeyInv, ServedOnce, MadeFor, FreshInHand, TokenThere, Serving

LEMMA InitKeys == Init => KeyInv
<1> SUFFICES ASSUME Init PROVE KeyInv
  OBVIOUS
<1>1. sets = << >> /\ rn = NewRunner
  BY DEF Init
<1>2. DOMAIN sets = {}
  BY <1>1, EmptySeq
<1> QED
  BY <1>1, <1>2, NewRunnerType DEF KeyInv, ServedOnce, FreshInHand, TokenThere, Serving

LEMMA NextKeys ==
  ASSUME OnceApart, Types, TableInv, SightInv, HoldInv, KeyInv, [Next]_vars
  PROVE  KeyInv'
<1>1. ASSUME NEW n \in Name, ClientStep(n) PROVE KeyInv'
  BY <1>1, ClientKeys
<1>2. ASSUME NEW n \in Name, NEW k \in Sem, UseQueue(n, k) PROVE KeyInv'
  BY <1>2, UseKeys
<1>3. CASE PoolStep
  BY <1>3, NewKeys, ValueKeys, OldKeys, PublishKeys, MoveKeys, ClearKeys DEF PoolStep
<1>4. CASE KillAndRestart
  BY <1>4, KillKeys
<1>5. CASE UNCHANGED vars
  BY <1>5 DEF vars, tableVars, auxVars, KeyInv, ServedOnce, MadeFor, FreshInHand, TokenThere,
    Serving, Now
<1> QED
  BY <1>1, <1>2, <1>3, <1>4, <1>5 DEF Next

LEMMA KeysReached ==
  ASSUME OnceApart
  PROVE  Spec => [](Types /\ TableInv /\ SightInv /\ HoldInv /\ KeyInv)
<1>1. ASSUME Types, TableInv, SightInv, HoldInv, KeyInv, [Next]_vars
      PROVE  HoldInv' /\ KeyInv'
  BY <1>1, NextHold, NextKeys DEF OnceApart
<1> QED
  BY <1>1, InitKeeps, NextKeeps, InitSight, NextSight, InitHold, InitKeys, PTL DEF Spec

(***************************************************************************)
(* queue_create's sem_wait never blocks the manage-pool thread on a set    *)
(* that the running server made: only on what an earlier one has left, for *)
(* clients with different ids and keys, which the hash does not guarantee, *)
(* that open once between two starts of the server.                        *)
(***************************************************************************)
THEOREM OnlyLeftoversBlock ==
  ASSUME DistinctIds, SemKeysApart, Opens <= 1
  PROVE  Spec => []BlockedByLeftover
<1>1. Types /\ TableInv /\ KeyInv => BlockedByLeftover
  <2> SUFFICES ASSUME Types, TableInv, KeyInv, Blocked
               PROVE  sets[rn.sems[Now]].boot < boot
    BY DEF BlockedByLeftover
  <2>1. rn.pc = "wait" /\ sets[rn.sems[Now]].val = 0 /\ Now \in Empties
    BY DEF Blocked, TableInv, RunnerInv
  <2>2. PICK s \in DOMAIN sets : s = rn.sems[Now]
    BY <2>1, RunnerSems DEF Empties, TableInv, Known
  <2>3. sets[s].boot \in Nat /\ sets[s].boot <= boot /\ boot \in Nat
    <3>1. sets[s] \in SetRec
      BY LenProperties, ElementOfSeq DEF Types
    <3> QED
      BY <3>1 DEF SetRec, TableInv, Known, Types
  <2>4. sets[s].boot # boot
    BY <2>1, <2>2 DEF KeyInv, TokenThere
  <2> QED
    BY <2>2, <2>3, <2>4
<1>2. OnceApart
  BY DEF OnceApart, Once
<1> QED
  BY <1>1, <1>2, KeysReached, PTL

-----------------------------------------------------------------------------
(* Whose semaphores they are                                               *)

OneToOne(sems) == \A j, k \in DOMAIN sems : sems[j] = sems[k] => j = k
Apart(s1, s2) == \A j \in DOMAIN s1, k \in DOMAIN s2 : s1[j] # s2[k]
AllLive(sems) == \A k \in DOMAIN sems : sets[sems[k]].live

(* The queues of two rows, and those being made, share no semaphore.       *)
RowsApart ==
  /\ \A i \in Slot : InUse(i) => OneToOne(row[i].sems)
  /\ \A i, j \in Slot : InUse(i) /\ InUse(j) /\ i # j => Apart(row[i].sems, row[j].sems)
  /\ Serving => /\ OneToOne(rn.sems) /\ AllLive(rn.sems)
                /\ \A i \in Slot : InUse(i) => Apart(row[i].sems, rn.sems)

(* As long as no client has marked another's row, only rows with queues    *)
(* are marked, and only the semaphores of marked rows are removed.         *)
MarksKept ==
  /\ \A i \in Slot : InUse(i) /\ ~row[i].detach => AllLive(row[i].sems)
  /\ \A i \in Slot : reserved[i] /\ row[i].detach => row[i].created
  /\ \A n \in Name : cl[n].pc = "reserve" => ~row[cl[n].slot].detach
  /\ rn.pc = "destroy" => /\ row[rn.i].created
                          /\ Range(rn.sems) \subseteq Range(row[rn.i].sems)

(* A client has another's semaphores only when the other clashed.          *)
CopiesApart ==
  \A m, n \in Name : m # n =>
    \A k \in DOMAIN cl[m].sems :
      LET s == sets[cl[m].sems[k]]
      IN  s.live /\ s.key # 0 /\ s.key \in KeysOf(n) => n \in clashed

(* No other client has the semaphores that are, or are to be, those of a   *)
(* client that did not clash.                                              *)
HandCopies ==
  Serving => \A m \in Name, n \in Name \ clashed :
    m # n /\ cl[n].pc \in Having /\ cl[n].slot = rn.i => Apart(cl[m].sems, rn.sems)

RowCopies ==
  \A m \in Name, n \in Name \ clashed :
    m # n /\ cl[n].pc \in Having /\ row[cl[n].slot].created =>
      Apart(cl[m].sems, row[cl[n].slot].sems)

OwnInv ==
  /\ RowsApart /\ (clashed # Name => MarksKept)
  /\ CopiesApart /\ HandCopies /\ RowCopies

LEMMA ClientMarks ==
  ASSUME Once, Types, TableInv, SightInv, HoldInv, MarksKept, NEW n \in Name, ClientStep(n),
         clashed' # Name
  PROVE  MarksKept'
<1>0. PICK i \in Slot : i = cl[n].slot
  BY ClientTyped
<1>1. /\ OnlyClient(n)
      /\ \A j \in Slot : row'[j].sems = row[j].sems
      /\ \A j \in Slot : reserved[j] => reserved'[j] /\ row'[j].created = row[j].created
      /\ \A j \in Slot : reserved'[j] /\ ~reserved[j] =>
           cl[n].pc = "reserve" /\ j = i /\ row' = row /\ ~row[j].created
  BY <1>0, ClientMoves
<1>2. UNCHANGED <<sets, rn>> /\ \A m \in Name \ {n} : cl'[m] = cl[m]
  BY <1>1 DEF OnlyClient
<1>3. rn.i \in Slot /\ \A m \in Name : cl[m].slot \in Slot
  BY RunnerSems, ClientTyped
<1>4. rn'.pc = "destroy" => /\ row'[rn'.i].created
                            /\ Range(rn'.sems) \subseteq Range(row'[rn'.i].sems)
  BY <1>1, <1>2, <1>3 DEF MarksKept, SightInv, Destroying
<1>5. CASE ~CloseDetach(n)
  <2>1. /\ \A j \in Slot : reserved[j] => row'[j].detach = row[j].detach
        /\ \A m \in Name \ {n} : cl[m].pc = "reserve" => row'[cl[m].slot].detach = row[cl[m].slot].detach
        /\ cl'[n].pc = "reserve" => ~row'[cl'[n].slot].detach
    <3>1. CASE RequestLock(n) \/ RequestSkip(n) \/ OpenPair(n)
      BY <3>1, LockStep, SkipStep, PairStep
    <3>2. CASE CloseFind(n)
      BY <3>2, FindStep
    <3>3. CASE RequestTake(n)
      BY <1>3, <3>3, TakeStep
    <3>4. CASE OpenAttach(n)
      BY <1>3, <3>4, AttachStep
    <3>5. CASE RequestReserve(n)
      BY <3>5, ReserveStep
    <3>6. CASE RequestWrite(n)
      <4>1. /\ cl[n].pc = "write" /\ OnlyRow(i) /\ ~row'[i].detach /\ cl'[n].slot = i
        BY <1>0, <3>6, WriteStep
      <4>2. ~reserved[i] /\ \A m \in Name \ {n} : cl[m].pc # "reserve"
        BY <1>0, <4>1, Requester DEF Requesting, Writing
      <4>3. \A j \in Slot : reserved[j] => row'[j] = row[j]
        BY <4>1, <4>2 DEF OnlyRow
      <4> QED
        BY <4>1, <4>2, <4>3
    <3> QED
      BY <1>5, <3>1, <3>2, <3>3, <3>4, <3>5, <3>6 DEF ClientStep
  <2>2. \A j \in Slot : InUse(j)' /\ ~row'[j].detach => AllLive(row[j].sems)
    BY <1>1, <2>1 DEF InUse, MarksKept
  <2>3. \A j \in Slot : reserved'[j] /\ row'[j].detach => row'[j].created
    <3>1. \A j \in Slot : reserved'[j] /\ ~reserved[j] => ~row'[j].detach
      BY <1>0, <1>1 DEF MarksKept
    <3> QED
      BY <1>1, <2>1, <3>1 DEF MarksKept
  <2>4. \A m \in Name : cl'[m].pc = "reserve" => ~row'[cl'[m].slot].detach
    BY <1>2, <2>1 DEF MarksKept
  <2> QED
    BY <1>1, <1>2, <1>4, <2>2, <2>3, <2>4 DEF MarksKept, AllLive
<1>6. CASE CloseDetach(n)
  <2>1. /\ UNCHANGED reserved /\ cl[n].pc = "detach" /\ cl'[n].pc = "start"
        /\ OnlyRow(i) /\ row'[i].detach
        /\ \A j \in Slot : row'[j].created = row[j].created
        /\ row[i].client_id = client_id[n]
    BY <1>0, <1>6, DetachStep
  <2>2. \A j \in Slot \ {i} : row'[j] = row[j]
    BY <2>1 DEF OnlyRow
  <2>3. reserved[i] => row[i].created
    BY <1>0, <2>1 DEF HoldInv, PairedServed, Paired
  <2>4. \A m \in Name \ {n} : cl[m].pc = "reserve" => cl[m].slot # i
    BY <2>1 DEF HoldInv, WriterRow, Writing, Once, DistinctIds
  <2>5. \A j \in Slot : InUse(j)' /\ ~row'[j].detach => AllLive(row[j].sems)
    BY <2>1, <2>2 DEF InUse, MarksKept
  <2>6. \A j \in Slot : reserved'[j] /\ row'[j].detach => row'[j].created
    BY <2>1, <2>2, <2>3 DEF MarksKept
  <2>7. \A m \in Name : cl'[m].pc = "reserve" => ~row'[cl'[m].slot].detach
    BY <1>2, <1>3, <2>1, <2>2, <2>4 DEF MarksKept
  <2> QED
    BY <1>1, <1>2, <1>4, <2>5, <2>6, <2>7 DEF MarksKept, AllLive
<1> QED
  BY <1>5, <1>6

LEMMA ClientOwn ==
  ASSUME OnceApart, Types, TableInv, SightInv, HoldInv, OwnInv, NEW n \in Name, ClientStep(n)
  PROVE  OwnInv'
<1>1. /\ OnlyClient(n) /\ clashed \subseteq clashed'
      /\ \A j \in Slot : row'[j].sems = row[j].sems
      /\ \A j \in Slot : reserved[j] =>
           reserved'[j] /\ row'[j].created = row[j].created
      /\ \A j \in Slot : reserved'[j] /\ ~reserved[j] => row' = row /\ ~row[j].created
      /\ cl'[n].sems = cl[n].sems \/ cl'[n].sems = << >> \/ OpenPair(n)
      /\ cl'[n].pc \in Having => \/ cl[n].pc = "reserve" /\ cl'[n].slot = cl[n].slot
                                 \/ /\ cl[n].pc \in Having
                                    /\ n \notin clashed => cl'[n].slot = cl[n].slot
  BY ClientMoves
<1>2. UNCHANGED <<sets, rn>> /\ \A m \in Name \ {n} : cl'[m] = cl[m]
  BY <1>1 DEF OnlyClient
<1>3. rn.i \in Slot /\ \A m \in Name : cl[m].slot \in Slot
  BY RunnerSems, ClientTyped
<1>4. \A j \in Slot : InUse(j)' <=> InUse(j)
  BY <1>1 DEF InUse
<1>5. RowsApart'
  BY <1>1, <1>2, <1>4 DEF OwnInv, RowsApart, Serving, AllLive
<1>6. clashed' # Name => MarksKept'
  <2>1. clashed' # Name => clashed # Name
    <3>1. Types'
      BY NextKeeps DEF Next
    <3> QED
      BY <1>1, <3>1 DEF Types
  <2> QED
    BY <2>1, ClientMarks DEF OwnInv, OnceApart
(* A client that did not clash has the slot that it had or has reserved.   *)
<1>7. ASSUME NEW p \in Name, p \notin clashed', cl'[p].pc \in Having
      PROVE  /\ cl'[p].slot = cl[p].slot /\ p \notin clashed
             /\ cl[p].pc \in Having \/ (p = n /\ cl[n].pc = "reserve")
  BY <1>1, <1>2, <1>7
<1>8. ASSUME NEW p \in Name, p \notin clashed', cl'[p].pc \in Having, cl[p].pc \in Having
      PROVE  reserved[cl[p].slot] /\ row'[cl[p].slot].created = row[cl[p].slot].created
  <2>1. Undisturbed(p)
    BY <1>7, <1>8 DEF HoldInv
  <2> QED
    BY <1>1, <1>3, <1>8, <2>1 DEF Undisturbed
<1>9. ASSUME OpenPair(n)
      PROVE  /\ cl[n].pc = "await" /\ InUse(cl[n].slot)
             /\ cl'[n].sems = row[cl[n].slot].sems \/ cl'[n].sems = << >>
  BY <1>9, PairStep DEF HoldInv, PairedServed, InUse
<1>10. CopiesApart'
  <2> SUFFICES ASSUME NEW m \in Name, NEW p \in Name, m # p, NEW k \in DOMAIN cl'[m].sems,
                      sets[cl'[m].sems[k]].live, sets[cl'[m].sems[k]].key # 0,
                      sets[cl'[m].sems[k]].key \in KeysOf(p)
               PROVE  p \in clashed
    BY <1>1, <1>2 DEF CopiesApart
  <2>1. CASE cl'[m].sems = cl[m].sems
    BY <2>1 DEF OwnInv, CopiesApart
  <2>2. CASE cl'[m].sems = << >>
    BY <2>2, NoSems
  <2>3. CASE m = n /\ OpenPair(n) /\ cl'[n].sems = row[cl[n].slot].sems
    <3>1. PICK i \in Slot : i = cl[n].slot /\ InUse(i) /\ cl[n].pc = "await"
      BY <1>3, <1>9, <2>3
    <3>2. k \in Sem /\ k \in DOMAIN row[i].sems
      BY <2>3, <3>1, RowSix
    <3>3. sets[row[i].sems[k]].key = sem_key(row[i].client_id, k)
      BY <2>3, <3>1, <3>2 DEF SightInv, RowKeys, KeysOfRow
    <3>4. PICK l \in Sem : sets[row[i].sems[k]].key = sem_key(client_id[p], l)
      BY <2>3, <3>1 DEF KeysOf
    <3>5. sem_key(row[i].client_id, k) # 0 /\ reserved[i]
      BY <2>3, <3>1, <3>3 DEF InUse
    <3>6. row[i].client_id = client_id[p]
      <4>1. PICK q \in Name :
              /\ row[i].client_id = client_id[q]
              /\ \A r \in Name : \A j \in Sem :
                   sem_key(client_id[r], j) = sem_key(row[i].client_id, k) => r = q /\ j = k
        BY <3>2, <3>5, KeyOwner
      <4>2. p = q
        BY <3>3, <3>4, <4>1
      <4> QED
        BY <4>1, <4>2
    <3> QED
      BY <2>3, <3>1, <3>6 DEF HoldInv, SharedClash, Having
  <2> QED
    BY <1>1, <1>2, <1>9, <2>1, <2>2, <2>3
<1>11. HandCopies'
  <2> SUFFICES ASSUME Serving, NEW m \in Name, NEW p \in Name, p \notin clashed', m # p,
                      cl'[p].pc \in Having, cl'[p].slot = rn.i
               PROVE  Apart(cl'[m].sems, rn.sems)
    BY <1>2 DEF HandCopies, Serving
  <2>1. cl[p].slot = rn.i /\ p \notin clashed /\ cl[p].pc \in Having
    <3>1. p = n /\ cl[n].pc = "reserve" => ~reserved[cl[n].slot]
      BY DEF TableInv, Requests, Writing
    <3>2. reserved[rn.i]
      BY DEF TableInv, RunnerInv
    <3> QED
      BY <1>7, <3>1, <3>2
  <2>2. Apart(cl[m].sems, rn.sems)
    BY <2>1 DEF OwnInv, HandCopies
  <2>3. CASE cl'[m].sems = << >>
    BY <2>3, NoSems DEF Apart
  <2>4. CASE m = n /\ OpenPair(n) /\ cl'[n].sems = row[cl[n].slot].sems
    BY <1>3, <1>9, <2>4 DEF OwnInv, RowsApart
  <2> QED
    BY <1>1, <1>2, <1>9, <2>2, <2>3, <2>4
<1>12. RowCopies'
  <2> SUFFICES ASSUME NEW m \in Name, NEW p \in Name, p \notin clashed', m # p,
                      cl'[p].pc \in Having, row'[cl'[p].slot].created
               PROVE  Apart(cl'[m].sems, row'[cl'[p].slot].sems)
    BY DEF RowCopies
  <2>1. PICK h \in Slot : h = cl[p].slot /\ h = cl'[p].slot
    BY <1>3, <1>7
  <2>2. CASE p = n /\ cl[n].pc = "reserve"
    <3>1. RequestReserve(n)
      BY <2>2, LockStep, SkipStep, TakeStep, WriteStep, PairStep, AttachStep, FindStep,
         DetachStep DEF ClientStep
    <3>2. row' = row /\ ~row[h].created
      BY <2>1, <2>2, <3>1, ReserveStep DEF TableInv, Requests
    <3> QED
      BY <2>1, <3>2
  <2>3. CASE cl[p].pc \in Having
    <3>1. InUse(h) /\ row'[h].sems = row[h].sems /\ p \notin clashed
      BY <1>1, <1>7, <1>8, <2>1, <2>3 DEF InUse
    <3>2. Apart(cl[m].sems, row[h].sems)
      BY <2>1, <2>3, <3>1 DEF OwnInv, RowCopies, InUse
    <3>3. CASE cl'[m].sems = << >>
      BY <3>3, NoSems DEF Apart
    <3>4. CASE m = n /\ OpenPair(n) /\ cl'[n].sems = row[cl[n].slot].sems
      <4>1. cl[n].slot # h
        <5>1. Alone(p) /\ cl[n].pc \in Holding /\ cl[p].pc \in Holding
          BY <1>9, <2>3, <3>1, <3>4 DEF HoldInv, Holding, Having
        <5> QED
          BY <2>1, <3>4, <5>1 DEF Alone
      <4> QED
        BY <1>3, <1>9, <2>1, <3>1, <3>4, <4>1 DEF OwnInv, RowsApart
    <3> QED
      BY <1>1, <1>2, <1>9, <2>1, <3>1, <3>2, <3>3, <3>4
  <2> QED
    BY <1>7, <2>2, <2>3
<1> QED
  BY <1>5, <1>6, <1>10, <1>11, <1>12 DEF OwnInv

(* Steps that leave the rows and the clients alone.                        *)
LEMMA OwnFrame ==
  ASSUME TableInv, OwnInv, UNCHANGED <<reserved, row, cl, clashed>>,
         \A t \in DOMAIN sets : SameSet(t) \/ ~sets'[t].live,
         clashed # Name => MarksKept',
         Serving' => /\ OneToOne(rn'.sems) /\ \A k \in DOMAIN rn'.sems : sets'[rn'.sems[k]].live
                     /\ \A i \in Slot : InUse(i) => Apart(row[i].sems, rn'.sems),
         HandCopies'
  PROVE  OwnInv'
<1>1. RowsApart'
  BY DEF OwnInv, RowsApart, InUse, AllLive
<1>2. CopiesApart'
  <2> SUFFICES ASSUME NEW m \in Name, NEW n \in Name, m # n, NEW k \in DOMAIN cl[m].sems,
                      sets'[cl[m].sems[k]].live, sets'[cl[m].sems[k]].key # 0,
                      sets'[cl[m].sems[k]].key \in KeysOf(n)
               PROVE  n \in clashed
    BY DEF CopiesApart
  <2>1. SameSet(cl[m].sems[k])
    BY DEF TableInv, Known
  <2> QED
    BY <2>1 DEF OwnInv, CopiesApart, SameSet
<1>3. RowCopies'
  BY DEF OwnInv, RowCopies
<1> QED
  BY <1>1, <1>2, <1>3 DEF OwnInv

(* ... and the sets, except for their values.                              *)
LEMMA MarksFrame ==
  ASSUME TableInv, OwnInv, UNCHANGED <<reserved, row, cl, clashed>>,
         \A t \in DOMAIN sets : SameSet(t), rn'.pc # "destroy"
  PROVE  clashed # Name => MarksKept'
BY DEF OwnInv, MarksKept, AllLive, InUse, TableInv, Known, SameSet

LEMMA ValueOwn ==
  ASSUME Types, TableInv, OwnInv,
         Semop \/ Wait \/ \E n \in Name, k \in Sem : UseQueue(n, k)
  PROVE  OwnInv'
<1>1. CASE Semop \/ Wait
  <2>1. /\ UNCHANGED <<reserved, row, cl, clashed>>
        /\ \A t \in DOMAIN sets : SameSet(t)
        /\ Serving /\ rn'.sems = rn.sems /\ rn'.i = rn.i
    BY <1>1, SemopStep, WaitStep DEF Serving
  <2>2. rn'.pc # "destroy"
    BY <1>1, SemopStep, WaitStep, AfterSem
  <2>3. /\ OneToOne(rn'.sems) /\ \A k \in DOMAIN rn'.sems : sets'[rn'.sems[k]].live
        /\ \A i \in Slot : InUse(i) => Apart(row[i].sems, rn'.sems)
    BY <2>1 DEF OwnInv, RowsApart, AllLive, TableInv, Known, SameSet
  <2>4. HandCopies'
    BY <2>1 DEF OwnInv, HandCopies
  <2> QED
    BY <2>1, <2>2, <2>3, <2>4, OwnFrame, MarksFrame
<1>2. ASSUME NEW n \in Name, NEW k \in Sem, UseQueue(n, k) PROVE OwnInv'
  <2>1. /\ UNCHANGED <<reserved, row, cl, rn, clashed>>
        /\ \A t \in DOMAIN sets : SameSet(t)
    BY <1>2, UseStep
  <2>2. Serving' => /\ OneToOne(rn'.sems) /\ \A j \in DOMAIN rn'.sems : sets'[rn'.sems[j]].live
                    /\ \A i \in Slot : InUse(i) => Apart(row[i].sems, rn'.sems)
    BY <2>1 DEF OwnInv, RowsApart, AllLive, Serving, TableInv, Known, SameSet
  <2>3. HandCopies'
    BY <2>1 DEF OwnInv, HandCopies, Serving
  <2>4. clashed # Name => MarksKept'
    BY <2>1 DEF OwnInv, MarksKept, AllLive, InUse, TableInv, Known, SameSet
  <2> QED
    BY <2>1, <2>2, <2>3, <2>4, OwnFrame
<1> QED
  BY <1>1, <1>2

(* One more semaphore in hand, which no one else has who should not.       *)
LEMMA HandGrows ==
  ASSUME Types, TableInv, OwnInv, rn.pc = "semget", NEW s,
         UNCHANGED <<reserved, row, cl, clashed>>, rn'.i = rn.i,
         DOMAIN rn'.sems = 1..(Now + 1), rn'.sems[Now + 1] = s,
         \A k \in 1..Now : rn'.sems[k] = rn.sems[k],
         \A t \in DOMAIN sets : SameSet(t), sets'[s].live,
         s \notin Range(rn.sems), \A i \in Slot : InUse(i) => s \notin Range(row[i].sems),
         \A m \in Name, n \in Name \ clashed : m # n /\ cl[n].pc \in Having /\ cl[n].slot = rn.i =>
           s \notin Range(cl[m].sems)
  PROVE  /\ OneToOne(rn'.sems) /\ \A k \in DOMAIN rn'.sems : sets'[rn'.sems[k]].live
         /\ \A i \in Slot : InUse(i) => Apart(row[i].sems, rn'.sems)
         /\ HandCopies'
<1>1. Now \in Nat /\ DOMAIN rn.sems = 1..Now
  BY RunnerSems
<1>2. /\ \A k \in DOMAIN rn'.sems : k \in 1..Now \/ k = Now + 1
      /\ \A k \in 1..Now : rn.sems[k] # s /\ rn.sems[k] \in DOMAIN sets
  BY <1>1 DEF Range, TableInv, Known
<1>3. /\ OneToOne(rn.sems) /\ AllLive(rn.sems)
      /\ \A i \in Slot : InUse(i) => Apart(row[i].sems, rn.sems)
  BY DEF OwnInv, RowsApart, Serving
<1>4. OneToOne(rn'.sems)
  BY <1>1, <1>2, <1>3 DEF OneToOne
<1>5. \A k \in DOMAIN rn'.sems : sets'[rn'.sems[k]].live
  BY <1>1, <1>2, <1>3 DEF AllLive, SameSet
<1>6. ASSUME NEW sems, Apart(sems, rn.sems), s \notin Range(sems) PROVE Apart(sems, rn'.sems)
  <2>1. \A j \in DOMAIN sems : sems[j] # s
    BY <1>6 DEF Range
  <2> QED
    BY <1>1, <1>2, <1>6, <2>1 DEF Apart
<1>7. \A i \in Slot : InUse(i) => Apart(row[i].sems, rn'.sems)
  BY <1>3, <1>6
<1>8. HandCopies'
  <2> SUFFICES ASSUME NEW m \in Name, NEW n \in Name \ clashed, m # n, cl[n].pc \in Having,
                      cl[n].slot = rn.i
               PROVE  Apart(cl[m].sems, rn'.sems)
    BY DEF HandCopies
  <2>1. Apart(cl[m].sems, rn.sems)
    BY DEF OwnInv, HandCopies, Serving
  <2> QED
    BY <1>6, <2>1
<1> QED
  BY <1>4, <1>5, <1>7, <1>8

LEMMA NewOwn ==
  ASSUME Types, TableInv, OwnInv, SemgetNew
  PROVE  OwnInv'
<1>1. PICK l \in Nat : l = Len(sets) + 1
  BY NewSet
<1>2. /\ UNCHANGED <<reserved, row, cl, clashed>> /\ rn.pc = "semget" /\ Now \in 0..5
      /\ DOMAIN sets = 1..(l - 1)
      /\ \A s \in DOMAIN sets : sets'[s] = sets[s]
      /\ sets'[l].live
      /\ rn'.pc = "semop" /\ rn'.i = rn.i /\ DOMAIN rn'.sems = 1..(Now + 1)
      /\ rn'.sems[Now + 1] = l
      /\ \A k \in 1..Now : rn'.sems[k] = rn.sems[k]
  BY <1>1, NewSet
<1>3. l \notin DOMAIN sets /\ \A t \in DOMAIN sets : SameSet(t)
  BY <1>1, <1>2 DEF SameSet
<1>4. /\ l \notin Range(rn.sems) /\ \A i \in Slot : l \notin Range(row[i].sems)
      /\ \A m \in Name : l \notin Range(cl[m].sems)
  BY <1>3 DEF TableInv, Known, Range
<1>5. /\ OneToOne(rn'.sems) /\ \A k \in DOMAIN rn'.sems : sets'[rn'.sems[k]].live
      /\ \A i \in Slot : InUse(i) => Apart(row[i].sems, rn'.sems)
      /\ HandCopies'
  BY <1>2, <1>3, <1>4, HandGrows
<1>6. clashed # Name => MarksKept'
  BY <1>2, <1>3, MarksFrame
<1> QED
  BY <1>2, <1>3, <1>5, <1>6, OwnFrame

LEMMA OldOwn ==
  ASSUME OnceApart, Types, TableInv, SightInv, HoldInv, KeyInv, OwnInv, SemgetOld
  PROVE  OwnInv'
<1>1. UNCHANGED <<sets, reserved, row, cl, clashed>> /\ rn.pc = "semget" /\ Now \in 0..5 /\ rn'.i = rn.i
  BY OldSet
<1>2. PICK s \in DOMAIN sets :
        /\ HasKey(s, Key)
        /\ \/ /\ rn'.pc = After(Now + 1) /\ DOMAIN rn'.sems = 1..(Now + 1)
              /\ rn'.sems[Now + 1] = s /\ \A k \in 1..Now : rn'.sems[k] = rn.sems[k]
           \/ rn'.pc = "exited" /\ rn'.sems = rn.sems
  BY OldSet
<1>3. /\ \A i \in Slot : InUse(i) => s \notin Range(row[i].sems)
      /\ s \notin Range(rn.sems) /\ sets[s].live
  BY <1>1, <1>2, FoundApart DEF KeyInv, HasKey
<1>4. \A t \in DOMAIN sets : SameSet(t)
  BY <1>1 DEF SameSet
<1>5. rn'.pc # "destroy"
  <2>1. PICK k \in Sem : k = Now + 1
    BY <1>1 DEF Sem
  <2> QED
    BY <1>2, <2>1, AfterSem
<1>6. clashed # Name => MarksKept'
  BY <1>1, <1>4, <1>5, MarksFrame
<1>7. CASE rn'.pc = "exited"
  <2>1. ~Serving' /\ HandCopies'
    BY <1>7 DEF HandCopies, Serving
  <2> QED
    BY <1>1, <1>4, <1>6, <2>1, OwnFrame
<1>8. CASE /\ rn'.pc = After(Now + 1) /\ DOMAIN rn'.sems = 1..(Now + 1)
           /\ rn'.sems[Now + 1] = s /\ \A k \in 1..Now : rn'.sems[k] = rn.sems[k]
  <2>1. ASSUME NEW m \in Name, NEW n \in Name \ clashed, m # n, cl[n].pc \in Having,
               cl[n].slot = rn.i, s \in Range(cl[m].sems)
        PROVE  FALSE
    <3>1. row[rn.i].client_id = client_id[n]
      BY <2>1 DEF HoldInv, Undisturbed, Holding
    <3>2. Now + 1 \in Sem
      BY <1>1 DEF Sem
    <3>3. sets[s].key # 0 /\ sets[s].key \in KeysOf(n)
      BY <1>2, <3>1, <3>2 DEF HasKey, Key, KeysOf
    <3>4. PICK k \in DOMAIN cl[m].sems : s = cl[m].sems[k]
      BY <2>1 DEF Range
    <3> QED
      BY <1>3, <2>1, <3>3, <3>4 DEF OwnInv, CopiesApart
  <2>2. sets'[s].live
    BY <1>1, <1>3
  <2>3. /\ OneToOne(rn'.sems) /\ \A k \in DOMAIN rn'.sems : sets'[rn'.sems[k]].live
        /\ \A i \in Slot : InUse(i) => Apart(row[i].sems, rn'.sems)
        /\ HandCopies'
    BY <1>1, <1>3, <1>4, <1>8, <2>1, <2>2, HandGrows
  <2> QED
    BY <1>1, <1>4, <1>6, <2>3, OwnFrame
<1> QED
  BY <1>2, <1>7, <1>8

LEMMA PublishOwn ==
  ASSUME Types, TableInv, HoldInv, OwnInv, Publish
  PROVE  OwnInv'
<1>0. PICK i \in Slot : i = rn.i
  BY RunnerSems
<1>1. /\ UNCHANGED <<sets, reserved, cl, clashed>> /\ rn.pc = "publish"
      /\ rn'.pc = "cleanup"
      /\ \A j \in Slot \ {i} : row'[j] = row[j]
      /\ row'[i].created /\ row'[i].sems = rn.sems /\ row'[i].detach = row[i].detach
  BY <1>0, PublishStep
<1>2. /\ OneToOne(rn.sems) /\ AllLive(rn.sems)
      /\ \A j \in Slot : InUse(j) => Apart(row[j].sems, rn.sems) /\ j # i
  BY <1>0, <1>1 DEF TableInv, RunnerInv, OwnInv, RowsApart, Serving, InUse
<1>3. \A j \in Slot : InUse(j)' => \/ j = i /\ row'[j].sems = rn.sems
                                   \/ InUse(j) /\ row'[j] = row[j]
  BY <1>1 DEF InUse
<1>4. RowsApart'
  <2>1. \A j \in Slot : InUse(j)' => OneToOne(row'[j].sems)
    BY <1>2, <1>3 DEF OwnInv, RowsApart
  <2>2. ASSUME NEW j \in Slot, NEW k \in Slot, InUse(j)', InUse(k)', j # k
        PROVE  Apart(row'[j].sems, row'[k].sems)
    <3>1. CASE j = i
      BY <1>2, <1>3, <2>2, <3>1 DEF Apart
    <3>2. CASE k = i
      BY <1>2, <1>3, <2>2, <3>2
    <3>3. CASE j # i /\ k # i
      BY <1>3, <2>2, <3>3 DEF OwnInv, RowsApart
    <3> QED
      BY <3>1, <3>2, <3>3
  <2> QED
    BY <1>1, <2>1, <2>2 DEF RowsApart, Serving
<1>5. clashed # Name => MarksKept'
  <2> SUFFICES ASSUME MarksKept PROVE MarksKept'
    BY DEF OwnInv
  <2>1. \A j \in Slot : InUse(j)' /\ ~row'[j].detach =>
          \A k \in DOMAIN row'[j].sems : sets[row'[j].sems[k]].live
    BY <1>2, <1>3 DEF MarksKept, AllLive
  <2>2. \A j \in Slot : /\ row'[j].detach = row[j].detach
                        /\ row[j].created => row'[j].created
    BY <1>1
  <2>3. \A n \in Name : cl[n].slot \in Slot
    BY ClientTyped
  <2> QED
    BY <1>1, <2>1, <2>2, <2>3 DEF MarksKept, AllLive
<1>6. CopiesApart' /\ HandCopies'
  BY <1>1 DEF OwnInv, CopiesApart, HandCopies, Serving
<1>7. RowCopies'
  <2> SUFFICES ASSUME NEW m \in Name, NEW n \in Name \ clashed, m # n, cl[n].pc \in Having,
                      row'[cl[n].slot].created
               PROVE  Apart(cl[m].sems, row'[cl[n].slot].sems)
    BY <1>1 DEF RowCopies
  <2>1. CASE cl[n].slot = i
    BY <1>0, <1>1, <2>1 DEF OwnInv, HandCopies, Serving
  <2>2. CASE cl[n].slot # i
    <3>1. row'[cl[n].slot] = row[cl[n].slot]
      BY <1>1, <2>2, ClientTyped
    <3> QED
      BY <3>1 DEF OwnInv, RowCopies
  <2> QED
    BY <2>1, <2>2
<1> QED
  BY <1>1, <1>4, <1>5, <1>6, <1>7 DEF OwnInv

LEMMA MoveOwn ==
  ASSUME Types, TableInv, OwnInv, Service \/ CleanUp \/ ClearSlot
  PROVE  OwnInv'
<1>1. UNCHANGED <<sets, reserved, row, cl, clashed>>
  BY ServiceStep, CleanUpStep, ClearSlotStep
<1>2. DOMAIN rn.sems = {}
  BY ServiceStep, CleanUpStep, ClearSlotStep, NoSems DEF TableInv, RunnerInv
<1>3. Serving' => DOMAIN rn'.sems = {}
  BY <1>2, ServiceStep, CleanUpStep, ClearSlotStep DEF Serving
<1>4. clashed # Name => MarksKept'
  <2>1. CASE rn'.pc # "destroy"
    BY <1>1, <2>1, MarksFrame DEF SameSet
  <2>2. CASE rn'.pc = "destroy"
    <3>1. CleanUp
      BY <2>2, ServiceStep, ClearSlotStep
    <3>2. /\ rn'.i = rn.i /\ rn.i \in Slot /\ reserved[rn.i] /\ row[rn.i].detach
          /\ rn'.sems = row[rn.i].sems
      BY <2>2, <3>1, CleanUpStep
    <3> QED
      BY <1>1, <3>2 DEF OwnInv, MarksKept, AllLive, InUse
  <2> QED
    BY <2>1, <2>2
<1>5. Serving' => /\ OneToOne(rn'.sems) /\ \A k \in DOMAIN rn'.sems : sets'[rn'.sems[k]].live
                  /\ \A i \in Slot : InUse(i) => Apart(row[i].sems, rn'.sems)
  BY <1>3 DEF OneToOne, Apart
<1>6. HandCopies'
  BY <1>3 DEF HandCopies, Apart
<1> QED
  BY <1>1, <1>4, <1>5, <1>6, OwnFrame DEF SameSet

LEMMA DestroyOwn ==
  ASSUME Types, TableInv, SightInv, OwnInv, destroy_semaphores
  PROVE  OwnInv'
<1>0. PICK i \in Slot : i = rn.i
  BY RunnerSems
<1>1. /\ UNCHANGED <<reserved, row, cl, clashed>> /\ rn.pc = "destroy" /\ rn'.i = i
      /\ Range(rn'.sems) \subseteq Range(rn.sems) /\ rn'.pc \in {"clear", "destroy"}
  BY <1>0, DestroyStep
<1>2. PICK s \in Range(rn.sems) :
        ~sets'[s].live /\ \A t \in DOMAIN sets : t # s => sets'[t] = sets[t]
  BY DestroyStep
<1>3. clashed # Name => MarksKept'
  <2> SUFFICES ASSUME MarksKept PROVE MarksKept'
    BY DEF OwnInv
  <2>1. InUse(i) /\ row[i].detach /\ s \in Range(row[i].sems)
    BY <1>0, <1>1, <1>2 DEF MarksKept, SightInv, Destroying, InUse
  <2>2. ASSUME NEW j \in Slot, InUse(j), ~row[j].detach, NEW k \in DOMAIN row[j].sems
        PROVE  sets'[row[j].sems[k]].live
    <3>1. row[j].sems[k] # s
      BY <2>1, <2>2 DEF OwnInv, RowsApart, Apart, Range
    <3> QED
      BY <1>2, <2>2, <3>1 DEF MarksKept, AllLive, TableInv, Known
  <2> QED
    BY <1>0, <1>1, <2>2 DEF MarksKept, AllLive, InUse
<1>4. ~Serving' /\ HandCopies'
  BY <1>1 DEF HandCopies, Serving
<1>5. \A t \in DOMAIN sets : SameSet(t) \/ ~sets'[t].live
  BY <1>2 DEF SameSet
<1> QED
  BY <1>1, <1>3, <1>4, <1>5, OwnFrame

LEMMA ClearOwn ==
  ASSUME Types, TableInv, SightInv, OwnInv, ClearRow \/ ClearFree
  PROVE  OwnInv'
<1>0. PICK i \in Slot : i = rn.i
  BY RunnerSems
<1>1. /\ UNCHANGED <<sets, cl>> /\ rn'.pc \in {"free", "service"} /\ clashed \subseteq clashed'
  BY ClearRowStep, ClearFreeStep
<1>2. /\ \A j \in Slot : reserved'[j] => reserved[j]
      /\ \A j \in Slot : row'[j] = row[j] \/ (~row'[j].created /\ ~row'[j].detach)
  BY <1>0, ClearRowStep, ClearFreeStep, ZeroRowType DEF OnlyRow
<1>3. \A j \in Slot : InUse(j)' => InUse(j) /\ row'[j] = row[j]
  BY <1>2 DEF InUse
<1>4. RowsApart'
  BY <1>1, <1>3 DEF OwnInv, RowsApart, Serving
<1>5. clashed' # Name => MarksKept'
  <2>1. Types'
    BY ClearRowStep, ClearFreeStep
  <2>2. clashed' # Name => clashed # Name
    BY <1>1, <2>1 DEF Types
  <2>3. MarksKept => MarksKept'
    BY <1>1, <1>2, <1>3, ClientTyped DEF MarksKept, AllLive
  <2> QED
    BY <2>2, <2>3 DEF OwnInv
<1>6. CopiesApart' /\ HandCopies'
  BY <1>1 DEF OwnInv, CopiesApart, HandCopies, Serving
<1>7. RowCopies'
  BY <1>1, <1>2, ClientTyped DEF OwnInv, RowCopies
<1> QED
  BY <1>4, <1>5, <1>6, <1>7 DEF OwnInv

LEMMA KillOwn ==
  ASSUME Types, KillAndRestart
  PROVE  OwnInv'
<1>1. /\ rn'.pc = "service" /\ \A i \in Slot : ~reserved'[i]
      /\ \A n \in Name : cl'[n].pc = "start" /\ DOMAIN cl'[n].sems = {}
  BY KillStep, NewRunnerType, NewClientType
<1> QED
  BY <1>1 DEF OwnInv, RowsApart, InUse, Serving, MarksKept, CopiesApart, HandCopies, RowCopies,
    Having

LEMMA InitOwn == Init => OwnInv
<1> SUFFICES ASSUME Init PROVE OwnInv
  OBVIOUS
<1>1. /\ rn.pc = "service" /\ \A i \in Slot : ~reserved[i]
      /\ \A n \in Name : cl[n].pc = "start" /\ DOMAIN cl[n].sems = {}
  BY NewRunnerType, NewClientType DEF Init
<1> QED
  BY <1>1 DEF OwnInv, RowsApart, InUse, Serving, MarksKept, CopiesApart, HandCopies, RowCopies,
    Having

LEMMA NextOwn ==
  ASSUME OnceApart, Types, TableInv, SightInv, HoldInv, KeyInv, OwnInv, [Next]_vars
  PROVE  OwnInv'
<1>1. ASSUME NEW n \in Name, ClientStep(n) PROVE OwnInv'
  BY <1>1, ClientOwn
<1>2. ASSUME NEW n \in Name, NEW k \in Sem, UseQueue(n, k) PROVE OwnInv'
  BY <1>2, ValueOwn
<1>3. CASE PoolStep
  BY <1>3, ValueOwn, NewOwn, OldOwn, PublishOwn, MoveOwn, DestroyOwn, ClearOwn DEF PoolStep
<1>4. CASE KillAndRestart
  BY <1>4, KillOwn
<1>5. CASE UNCHANGED vars
  BY <1>5 DEF vars, tableVars, auxVars, OwnInv, RowsApart, MarksKept, AllLive, InUse, Serving,
    CopiesApart, HandCopies, RowCopies
<1> QED
  BY <1>1, <1>2, <1>3, <1>4, <1>5 DEF Next

(* Six semids that differ are six.                                         *)
LEMMA SixOf ==
  ASSUME NEW sems, DOMAIN sems = Sem, OneToOne(sems)
  PROVE  Cardinality(Range(sems)) = 6
<1> DEFINE part(k) == {sems[j] : j \in 1..k}
<1>1. IsFiniteSet(part(0)) /\ Cardinality(part(0)) = 0
  <2>1. part(0) = {}
    OBVIOUS
  <2> QED
    BY <2>1, FS_EmptySet
<1>2. ASSUME NEW k \in 0..5, IsFiniteSet(part(k)), Cardinality(part(k)) = k
      PROVE  IsFiniteSet(part(k + 1)) /\ Cardinality(part(k + 1)) = k + 1
  <2>1. sems[k + 1] \notin part(k)
    BY DEF OneToOne, Sem
  <2>2. part(k + 1) = part(k) \cup {sems[k + 1]}
    <3>1. \A j : j \in 1..(k + 1) <=> j \in 1..k \/ j = k + 1
      OBVIOUS
    <3> QED
      BY <3>1
  <2> HIDE DEF part
  <2>3. PICK S, x : S = part(k) /\ x = sems[k + 1]
    OBVIOUS
  <2>4. IsFiniteSet(S) /\ Cardinality(S) = k /\ x \notin S /\ part(k + 1) = S \cup {x}
    BY <1>2, <2>1, <2>2, <2>3, Zenon
  <2>5. IsFiniteSet(S \cup {x}) /\ Cardinality(S \cup {x}) = Cardinality(S) + 1
    BY <2>4, FS_AddElement
  <2> QED
    BY <2>4, <2>5, Zenon
<1>3. Range(sems) = part(6)
  BY DEF Range, Sem
<1> HIDE DEF part
<1>4. IsFiniteSet(part(1)) /\ Cardinality(part(1)) = 1
  BY <1>1, <1>2
<1>5. IsFiniteSet(part(2)) /\ Cardinality(part(2)) = 2
  BY <1>2, <1>4
<1>6. IsFiniteSet(part(3)) /\ Cardinality(part(3)) = 3
  BY <1>2, <1>5
<1>7. IsFiniteSet(part(4)) /\ Cardinality(part(4)) = 4
  BY <1>2, <1>6
<1>8. IsFiniteSet(part(5)) /\ Cardinality(part(5)) = 5
  BY <1>2, <1>7
<1>9. IsFiniteSet(part(6)) /\ Cardinality(part(6)) = 6
  BY <1>2, <1>8
<1> QED
  BY <1>3, <1>9

(***************************************************************************)
(* queue_create gives every connection six semaphores that are there and   *)
(* that no other connection uses, whatever a killed server left in the     *)
(* kernel's tables and in the rows, unless clear_slot wiped or freed its   *)
(* slot or another client was given it: for clients with different ids and *)
(* keys, which the hash does not guarantee, that open once between two     *)
(* starts of the server.  With SlotsKept: for all connections until the    *)
(* first restart.                                                          *)
(***************************************************************************)
THEOREM SemaphoresOwned ==
  ASSUME DistinctIds, SemKeysApart, Opens <= 1
  PROVE  Spec => []OwnSemaphores
<1>1. Types /\ TableInv /\ HoldInv /\ OwnInv => OwnSemaphores
  <2> SUFFICES ASSUME Types, TableInv, HoldInv, OwnInv,
                      NEW n \in Name \ clashed, cl[n].pc = "open"
               PROVE  /\ Cardinality(Range(cl[n].sems)) = 6
                      /\ \A s \in Range(cl[n].sems) : sets[s].live
                      /\ \A m \in Name \ {n} : cl[m].pc = "open" =>
                           Range(cl[n].sems) \cap Range(cl[m].sems) = {}
    BY DEF OwnSemaphores
  <2>1. PICK i \in Slot : /\ i = cl[n].slot /\ InUse(i) /\ ~row[i].detach
                          /\ cl[n].sems = row[i].sems
    BY ClientTyped DEF HoldInv, Undisturbed, Having, Paired, InUse
  <2>2. Cardinality(Range(cl[n].sems)) = 6
    BY <2>1, RowSix, SixOf DEF OwnInv, RowsApart
  <2>3. \A s \in Range(cl[n].sems) : sets[s].live
    <3>1. clashed # Name
      OBVIOUS
    <3> QED
      BY <2>1, <3>1 DEF OwnInv, MarksKept, AllLive, Range
  <2>4. ASSUME NEW m \in Name \ {n} PROVE Range(cl[n].sems) \cap Range(cl[m].sems) = {}
    <3>1. Apart(cl[m].sems, row[i].sems)
      BY <2>1 DEF OwnInv, RowCopies, Having, InUse
    <3> QED
      BY <2>1, <3>1 DEF Apart, Range
  <2> QED
    BY <2>2, <2>3, <2>4
<1>2. OnceApart
  BY DEF OnceApart, Once
<1>3. ASSUME Types, TableInv, SightInv, HoldInv, KeyInv, OwnInv, [Next]_vars PROVE OwnInv'
  BY <1>2, <1>3, NextOwn
<1> QED
  BY <1>1, <1>2, <1>3, InitOwn, KeysReached, PTL DEF Spec
=============================================================================
