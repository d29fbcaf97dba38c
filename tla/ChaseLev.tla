------------------------------ MODULE ChaseLev ------------------------------
(***************************************************************************)
(* StealQueue<T> of include/queue.h: the Chase-Lev deque of each worker.   *)
(* top and bottom are atomic indices, array points to a ring of           *)
(* power-of-two capacity; push grows it (copy, publish, retire the old    *)
(* one to EBR) when b - t >= cap - 1.  Every atomic load, store or CAS is *)
(* one step, under sequential consistency; slot i of an array is          *)
(* buffer[i & mask].                                                       *)
(*                                                                         *)
(* The owner (Worker::run_once) pops; thieves (Scheduler::steal) steal;    *)
(* Worker::schedule pushes.  Pushers is the set of threads calling         *)
(* schedule: the owner alone, or also another thread.                      *)
(***************************************************************************)
EXTENDS Integers, Sequences

CONSTANTS
    Owner,       \* the worker thread that owns the deque
    Thieves,     \* other workers in Scheduler::steal
    Pushers,     \* threads calling Worker::schedule on this worker
    NumItems,    \* Tasks each pusher pushes
    InitCap,     \* capacity of the first Array (1024 in the code)
    MaxArrays,   \* bound on the arrays push may allocate
    Null         \* model value: nullptr

ASSUME Owner \in Pushers /\ Owner \notin Thieves /\ InitCap \in {2, 4}

Items == Pushers \X (1 .. NumItems)
Ids == 1 .. MaxArrays

(* Array(c): cap c, mask c - 1; each resize doubles the capacity.          *)
Cap(a) == InitCap * 2 ^ (a - 1)
MaxCap == Cap(MaxArrays)

VARIABLES
    top, bottom,    \* StealQueue::top, StealQueue::bottom
    array,          \* StealQueue::array (an id)
    allocated,      \* arrays allocated so far (ids 1 .. allocated)
    buf,            \* the slots of every array
    retired,        \* arrays handed to EbrManager::retire
    ppc, pb, pt, pa, sent,    \* push: pc and locals b, t, a; items pushed
    opc, ob, oval,            \* owner's pop: pc and locals b, val
    tpc, tt, tb, ta, tval,    \* steal: pc and locals t, b, a, val
    gotBy           \* items each thread's pop/steal returned (history)

vars == <<top, bottom, array, allocated, buf, retired, ppc, pb, pt, pa, sent,
          opc, ob, oval, tpc, tt, tb, ta, tval, gotBy>>

(* Array::get: buffer[i & mask].                                           *)
Get(a, i) == buf[a][i % Cap(a)]

TypeOK ==
    /\ top \in Nat /\ bottom \in Int
    /\ array \in Ids /\ allocated \in Ids /\ retired \subseteq Ids
    /\ buf \in [Ids -> [0 .. MaxCap - 1 -> Items \cup {Null}]]
    /\ ppc \in [Pushers -> {"idle", "grow", "put", "publish"}]
    /\ opc \in {"idle", "pop_t", "pop_cas", "pop_restore"}
    /\ tpc \in [Thieves -> {"idle", "bot", "arr", "get", "cas"}]
    /\ sent \in [Pushers -> 0 .. NumItems]
    /\ gotBy \in [{Owner} \cup Thieves -> Seq(Items)]

(* StealQueue(ls): top = bottom = 0 and a fresh Array(1024) of nullptrs.   *)
Init ==
    /\ top = 0 /\ bottom = 0
    /\ array = 1 /\ allocated = 1 /\ retired = {}
    /\ buf = [a \in Ids |-> [j \in 0 .. MaxCap - 1 |-> Null]]
    /\ ppc = [p \in Pushers |-> "idle"]
    /\ pb = [p \in Pushers |-> 0] /\ pt = [p \in Pushers |-> 0]
    /\ pa = [p \in Pushers |-> 1] /\ sent = [p \in Pushers |-> 0]
    /\ opc = "idle" /\ ob = 0 /\ oval = Null
    /\ tpc = [p \in Thieves |-> "idle"]
    /\ tt = [p \in Thieves |-> 0] /\ tb = [p \in Thieves |-> 0]
    /\ ta = [p \in Thieves |-> 1] /\ tval = [p \in Thieves |-> Null]
    /\ gotBy = [p \in {Owner} \cup Thieves |-> <<>>]

Took(p, v) == gotBy' = [gotBy EXCEPT ![p] = Append(@, v)]

OwnerBusy == opc # "idle" \/ ppc[Owner] # "idle"

-----------------------------------------------------------------------------
(* Mutant of PushRead: grow only when b - t > cap, one slot too late.     *)
PushReadGrowLate(p) ==
    /\ ppc[p] = "idle" /\ sent[p] < NumItems
    /\ p = Owner => ~OwnerBusy
    /\ pb' = [pb EXCEPT ![p] = bottom]
    /\ pt' = [pt EXCEPT ![p] = top]
    /\ pa' = [pa EXCEPT ![p] = array]
    /\ ppc' = [ppc EXCEPT ![p] = IF bottom - top > Cap(array) THEN "grow" ELSE "put"]
    /\ UNCHANGED <<top, bottom, array, allocated, buf, retired, sent, opc, ob, oval,
                   tpc, tt, tb, ta, tval, gotBy>>

(* push: load bottom, top and array; grow if b - t >= cap - 1.             *)
PushRead(p) ==
    /\ ppc[p] = "idle" /\ sent[p] < NumItems
    /\ p = Owner => ~OwnerBusy
    /\ pb' = [pb EXCEPT ![p] = bottom]
    /\ pt' = [pt EXCEPT ![p] = top]
    /\ pa' = [pa EXCEPT ![p] = array]
    /\ ppc' = [ppc EXCEPT ![p] = IF bottom - top >= Cap(array) - 1 THEN "grow" ELSE "put"]
    /\ UNCHANGED <<top, bottom, array, allocated, buf, retired, sent, opc, ob, oval,
                   tpc, tt, tb, ta, tval, gotBy>>

(* Array::resize(b, t): a new Array(2 * cap) holding slots t .. b-1.       *)
Resized(a, n, b, t) ==
    [j \in 0 .. MaxCap - 1 |->
        LET src == {i \in t .. b - 1 : i % Cap(n) = j}
        IN  IF j < Cap(n) /\ src # {} THEN Get(a, CHOOSE i \in src : TRUE) ELSE Null]

(* resize, array.store(new_a), EbrManager::retire(old).                    *)
PushGrow(p) ==
    /\ ppc[p] = "grow" /\ allocated < MaxArrays
    /\ LET n == allocated + 1 IN
       /\ buf' = [buf EXCEPT ![n] = Resized(pa[p], n, pb[p], pt[p])]
       /\ allocated' = n
       /\ array' = n
       /\ pa' = [pa EXCEPT ![p] = n]
    /\ retired' = retired \cup {pa[p]}
    /\ ppc' = [ppc EXCEPT ![p] = "put"]
    /\ UNCHANGED <<top, bottom, pb, pt, sent, opc, ob, oval, tpc, tt, tb, ta, tval, gotBy>>

(* a->put(b, item.to_address()).                                          *)
PushPut(p) ==
    /\ ppc[p] = "put"
    /\ buf' = [buf EXCEPT ![pa[p]][pb[p] % Cap(pa[p])] = <<p, sent[p] + 1>>]
    /\ ppc' = [ppc EXCEPT ![p] = "publish"]
    /\ UNCHANGED <<top, bottom, array, allocated, retired, pb, pt, pa, sent,
                   opc, ob, oval, tpc, tt, tb, ta, tval, gotBy>>

(* release fence; bottom.store(b + 1).                                     *)
PushPublish(p) ==
    /\ ppc[p] = "publish"
    /\ bottom' = pb[p] + 1
    /\ sent' = [sent EXCEPT ![p] = @ + 1]
    /\ ppc' = [ppc EXCEPT ![p] = "idle"]
    /\ UNCHANGED <<top, array, allocated, buf, retired, pb, pt, pa,
                   opc, ob, oval, tpc, tt, tb, ta, tval, gotBy>>

-----------------------------------------------------------------------------
(* pop: b = bottom - 1; bottom.store(b); seq_cst fence.                    *)
PopDec ==
    /\ opc = "idle" /\ ~OwnerBusy
    /\ ob' = bottom - 1
    /\ bottom' = bottom - 1
    /\ opc' = "pop_t"
    /\ UNCHANGED <<top, array, allocated, buf, retired, ppc, pb, pt, pa, sent,
                   oval, tpc, tt, tb, ta, tval, gotBy>>

(* t = top.  t < b: the item at b is the owner's; t == b: the last item,   *)
(* to be won by CAS; t > b: empty, restore bottom.                         *)
PopTop ==
    /\ opc = "pop_t"
    /\ \/ /\ top < ob
          /\ Took(Owner, Get(array, ob))
          /\ opc' = "idle"
          /\ UNCHANGED oval
       \/ /\ top = ob
          /\ oval' = Get(array, ob)
          /\ opc' = "pop_cas"
          /\ UNCHANGED gotBy
       \/ /\ top > ob
          /\ opc' = "pop_restore"
          /\ UNCHANGED <<oval, gotBy>>
    /\ UNCHANGED <<top, bottom, array, allocated, buf, retired, ppc, pb, pt, pa, sent,
                   ob, tpc, tt, tb, ta, tval>>

(* Mutant of PopCas: the last item is taken without the CAS on top.       *)
PopNoCas ==
    /\ opc = "pop_cas"
    /\ Took(Owner, oval)
    /\ opc' = "pop_restore"
    /\ UNCHANGED <<top, bottom, array, allocated, buf, retired, ppc, pb, pt, pa, sent,
                   ob, oval, tpc, tt, tb, ta, tval>>

(* Mutant of PopCas: after winning the CAS for the last item, the owner   *)
(* returns without bottom.store(b + 1), leaving bottom below top.          *)
PopCasNoRestore ==
    /\ opc = "pop_cas"
    /\ IF top = ob
       THEN /\ top' = ob + 1
            /\ Took(Owner, oval)
            /\ opc' = "idle"
       ELSE /\ UNCHANGED <<top, gotBy>>
            /\ opc' = "pop_restore"
    /\ UNCHANGED <<bottom, array, allocated, buf, retired, ppc, pb, pt, pa, sent,
                   ob, oval, tpc, tt, tb, ta, tval>>

(* top.compare_exchange_strong(t, t + 1): on success the item is ours.     *)
PopCas ==
    /\ opc = "pop_cas"
    /\ IF top = ob
       THEN /\ top' = ob + 1
            /\ Took(Owner, oval)
       ELSE UNCHANGED <<top, gotBy>>
    /\ opc' = "pop_restore"
    /\ UNCHANGED <<bottom, array, allocated, buf, retired, ppc, pb, pt, pa, sent,
                   ob, oval, tpc, tt, tb, ta, tval>>

(* bottom.store(b + 1), on the last-item and the empty paths.              *)
PopRestore ==
    /\ opc = "pop_restore"
    /\ bottom' = ob + 1
    /\ opc' = "idle"
    /\ UNCHANGED <<top, array, allocated, buf, retired, ppc, pb, pt, pa, sent,
                   ob, oval, tpc, tt, tb, ta, tval, gotBy>>

-----------------------------------------------------------------------------
(* steal: t = top; seq_cst fence.                                          *)
StealTop(p) ==
    /\ tpc[p] = "idle"
    /\ tt' = [tt EXCEPT ![p] = top]
    /\ tpc' = [tpc EXCEPT ![p] = "bot"]
    /\ UNCHANGED <<top, bottom, array, allocated, buf, retired, ppc, pb, pt, pa, sent,
                   opc, ob, oval, tb, ta, tval, gotBy>>

(* Mutant of StealBottom: t <= b instead of t < b.                         *)
StealBottomOffByOne(p) ==
    /\ tpc[p] = "bot"
    /\ tb' = [tb EXCEPT ![p] = bottom]
    /\ tpc' = [tpc EXCEPT ![p] = IF tt[p] <= bottom THEN "arr" ELSE "idle"]
    /\ UNCHANGED <<top, bottom, array, allocated, buf, retired, ppc, pb, pt, pa, sent,
                   opc, ob, oval, tt, ta, tval, gotBy>>

(* b = bottom; if (t < b) go on, else return nullopt.                      *)
StealBottom(p) ==
    /\ tpc[p] = "bot"
    /\ tb' = [tb EXCEPT ![p] = bottom]
    /\ tpc' = [tpc EXCEPT ![p] = IF tt[p] < bottom THEN "arr" ELSE "idle"]
    /\ UNCHANGED <<top, bottom, array, allocated, buf, retired, ppc, pb, pt, pa, sent,
                   opc, ob, oval, tt, ta, tval, gotBy>>

(* a = array.load(): possibly an array the owner is about to retire.       *)
StealArray(p) ==
    /\ tpc[p] = "arr"
    /\ ta' = [ta EXCEPT ![p] = array]
    /\ tpc' = [tpc EXCEPT ![p] = "get"]
    /\ UNCHANGED <<top, bottom, array, allocated, buf, retired, ppc, pb, pt, pa, sent,
                   opc, ob, oval, tt, tb, tval, gotBy>>

(* val = a->get(t).                                                        *)
StealGet(p) ==
    /\ tpc[p] = "get"
    /\ tval' = [tval EXCEPT ![p] = Get(ta[p], tt[p])]
    /\ tpc' = [tpc EXCEPT ![p] = "cas"]
    /\ UNCHANGED <<top, bottom, array, allocated, buf, retired, ppc, pb, pt, pa, sent,
                   opc, ob, oval, tt, tb, ta, gotBy>>

(* top.compare_exchange_strong(t, t + 1); on success return val.           *)
StealCas(p) ==
    /\ tpc[p] = "cas"
    /\ IF top = tt[p]
       THEN /\ top' = top + 1
            /\ Took(p, tval[p])
       ELSE UNCHANGED <<top, gotBy>>
    /\ tpc' = [tpc EXCEPT ![p] = "idle"]
    /\ UNCHANGED <<bottom, array, allocated, buf, retired, ppc, pb, pt, pa, sent,
                   opc, ob, oval, tt, tb, ta, tval>>

Next ==
    \/ \E p \in Pushers : PushRead(p) \/ PushGrow(p) \/ PushPut(p) \/ PushPublish(p)
    \/ PopDec \/ PopTop \/ PopCas \/ PopRestore
    \/ \E p \in Thieves :
          StealTop(p) \/ StealBottom(p) \/ StealArray(p) \/ StealGet(p) \/ StealCas(p)

Spec == Init /\ [][Next]_vars

OwnerPop == PopDec \/ PopTop \/ PopCas \/ PopRestore

(* The owner's worker loops in run_once and pops at every iteration, and a *)
(* push it has begun (schedule, from task code on the owner) completes.    *)
(* Thieves get no fairness: a steal may always lose its CAS.               *)
FairSpec ==
    /\ Spec
    /\ WF_vars(OwnerPop)
    /\ WF_vars(PushGrow(Owner) \/ PushPut(Owner) \/ PushPublish(Owner))

-----------------------------------------------------------------------------
(* The deque's contents as the abstract deque sees them: slots top ..     *)
(* bottom-1 of the current array, where a pop in progress has not yet     *)
(* given up the bottom item it decremented past.                          *)
LogicalBottom == IF opc = "idle" THEN bottom ELSE bottom + 1

Contents == [i \in 1 .. LogicalBottom - top |-> Get(array, top + i - 1)]

Deque == INSTANCE AbstractDeque WITH items <- Contents, Items <- Items

(* Spec section 8, property 5, strengthened: StealQueue implements a     *)
(* linearizable work-stealing deque.  Every pop returns the newest item,  *)
(* every steal the oldest, each item once, also when pop and steal race   *)
(* for the last item and when a thief reads an array push just replaced.  *)
DequeRefinement == Deque!Spec

(* The live slots top .. bottom-1 never wrap onto each other: push grows  *)
(* the array before the ring can fill.                                     *)
NoSlotAliasing == bottom - top <= Cap(array)

(* Every task a push has published (bottom.store(b + 1) done) is          *)
(* eventually returned by a pop or a steal: the owner's pop, repeated by   *)
(* run_once, only fails when a thief's CAS won, and the empty and          *)
(* last-item paths give bottom back, so no item is left behind top or      *)
(* below bottom where nobody can reach it.                                 *)
Published(x) == x[2] <= sent[x[1]]

EveryItemTaken ==
    \A x \in Items :
        Published(x)
            ~> (\E p \in {Owner} \cup Thieves : \E i \in DOMAIN gotBy[p] : gotBy[p][i] = x)
====
