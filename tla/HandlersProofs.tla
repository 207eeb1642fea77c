--------------------------- MODULE HandlersProofs ---------------------------
(***************************************************************************)
(* What the steps of Handlers do to the requests in progress, for any      *)
(* number of processes and any stages and jobs. The proofs about the       *)
(* services cite these lemmas and leave Begin, GoTo, Carry, Finish and     *)
(* Dies folded.                                                            *)
(***************************************************************************)
EXTENDS Handlers, FiniteSetTheorems, TLAPS

(* Only p moves on.                                                          *)
OthersStay(p) == \A q \in Procs : q # p => pc'[q] = pc[q] /\ job'[q] = job[q]

(* Unless requests overlapped, there is one at a time.                       *)
Lone == ~overlapped => \A p, q \in Procs : pc[p] # "idle" /\ pc[q] # "idle" => p = q

(* How many requests there can be at a time.                                 *)
Width == IF overlapped THEN Cardinality(Procs) ELSE 1

LEMMA HandlersInitType ==
    ASSUME NEW stages, NEW jobs, HandlersInit
    PROVE  HandlersTypeOK(stages, jobs) /\ Lone /\ Quiescent
<1>1. MaxFaults \in Nat
    BY HandlersAssumptions DEF HandlersAssumptions
<1>2. HandlersTypeOK(stages, jobs)
    <2>1. faults \in 0..MaxFaults
        BY <1>1 DEF HandlersInit
    <2>2. overlapped \in BOOLEAN
        BY DEF HandlersInit
    <2>3. /\ pc \in [Procs -> stages \cup {"idle"}]
          /\ job \in [Procs -> jobs \cup {NoJob}]
          /\ \A p \in Procs : pc[p] # "idle" => job[p] \in jobs
        BY DEF HandlersInit
    <2> QED BY <2>1, <2>2, <2>3 DEF HandlersTypeOK
<1> QED BY <1>2 DEF HandlersInit, Lone, Quiescent

(* A request is taken up.                                                    *)
LEMMA BeginStep ==
    ASSUME NEW stages, NEW jobs, HandlersTypeOK(stages, jobs), Lone,
           NEW p \in Procs, NEW j \in jobs, NEW stage \in stages, "idle" \notin stages,
           Begin(p, j, stage)
    PROVE  /\ HandlersTypeOK(stages, jobs)' /\ Lone'
           /\ pc[p] = "idle" /\ pc'[p] = stage /\ job'[p] = j /\ OthersStay(p)
           /\ faults' = faults /\ overlapped' = (overlapped \/ ~Quiescent)
           /\ overlapped => overlapped'
           /\ ~overlapped' => \A q \in Procs : pc[q] = "idle"
<1>1. /\ pc[p] = "idle" /\ pc'[p] = stage /\ job'[p] = j /\ OthersStay(p)
      /\ faults' = faults /\ overlapped' = (overlapped \/ ~Quiescent)
    BY DEF HandlersTypeOK, Begin, OthersStay
<1>2. ~overlapped' => ~overlapped /\ \A q \in Procs : pc[q] = "idle"
    BY <1>1 DEF Quiescent
<1>3. Lone'
    BY <1>1, <1>2 DEF Lone, OthersStay
<1>4. HandlersTypeOK(stages, jobs)'
    BY <1>1 DEF HandlersTypeOK, Begin, OthersStay
<1> QED BY <1>1, <1>2, <1>3, <1>4

(* It goes on to another stage.                                              *)
LEMMA GoToStep ==
    ASSUME NEW stages, NEW jobs, HandlersTypeOK(stages, jobs), Lone,
           NEW p \in Procs, pc[p] # "idle", NEW stage \in stages, "idle" \notin stages,
           GoTo(p, stage)
    PROVE  /\ HandlersTypeOK(stages, jobs)' /\ Lone'
           /\ pc'[p] = stage /\ job' = job /\ OthersStay(p)
           /\ faults' = faults /\ overlapped' = overlapped
<1>1. /\ pc'[p] = stage /\ job' = job /\ OthersStay(p)
      /\ faults' = faults /\ overlapped' = overlapped
    BY DEF HandlersTypeOK, GoTo, OthersStay
<1>2. Lone'
    BY <1>1 DEF Lone, OthersStay
<1>3. HandlersTypeOK(stages, jobs)'
    BY <1>1 DEF HandlersTypeOK, GoTo, OthersStay
<1> QED BY <1>1, <1>2, <1>3

LEMMA CarryStep ==
    ASSUME NEW stages, NEW jobs, HandlersTypeOK(stages, jobs), Lone,
           NEW p \in Procs, pc[p] # "idle", NEW j \in jobs, NEW stage \in stages,
           "idle" \notin stages, Carry(p, j, stage)
    PROVE  /\ HandlersTypeOK(stages, jobs)' /\ Lone'
           /\ pc'[p] = stage /\ job'[p] = j /\ OthersStay(p)
           /\ faults' = faults /\ overlapped' = overlapped
<1>1. /\ pc'[p] = stage /\ job'[p] = j /\ OthersStay(p)
      /\ faults' = faults /\ overlapped' = overlapped
    BY DEF HandlersTypeOK, Carry, OthersStay
<1>2. Lone'
    BY <1>1 DEF Lone, OthersStay
<1>3. HandlersTypeOK(stages, jobs)'
    BY <1>1 DEF HandlersTypeOK, Carry, OthersStay
<1> QED BY <1>1, <1>2, <1>3

(* It ends, as it should or by a death.                                      *)
LEMMA FinishStep ==
    ASSUME NEW stages, NEW jobs, HandlersTypeOK(stages, jobs), Lone,
           NEW p \in Procs, pc[p] # "idle", Finish(p) \/ Dies(p)
    PROVE  /\ HandlersTypeOK(stages, jobs)' /\ Lone'
           /\ pc'[p] = "idle" /\ OthersStay(p)
           /\ overlapped' = overlapped /\ faults' \in Nat /\ faults' >= faults
           /\ Finish(p) => faults' = faults
           /\ Dies(p) => faults' = faults + 1 /\ faults' > 0
<1>1. /\ pc'[p] = "idle" /\ OthersStay(p) /\ overlapped' = overlapped
    BY DEF HandlersTypeOK, Finish, Dies, OthersStay
<1>2. /\ Finish(p) => faults' = faults
      /\ Dies(p) => faults' = faults + 1 /\ faults < MaxFaults
    BY DEF Finish, Dies
<1>3. faults \in 0..MaxFaults /\ MaxFaults \in Nat
    BY HandlersAssumptions DEF HandlersTypeOK
<1>4. Lone'
    BY <1>1 DEF Lone, OthersStay
<1>5. job' \in [Procs -> jobs \cup {NoJob}] /\ pc' \in [Procs -> stages \cup {"idle"}]
    BY DEF HandlersTypeOK, Finish, Dies
<1>6. HandlersTypeOK(stages, jobs)'
    BY <1>1, <1>2, <1>3, <1>5 DEF HandlersTypeOK, OthersStay
<1> QED BY <1>1, <1>2, <1>3, <1>4, <1>6

(* A call whose outcome may be lost, after which it goes on or ends.         *)
Lossy(p, stage) ==
    /\ pc[p] # "idle" /\ pc' = [pc EXCEPT ![p] = stage]
    /\ \/ job' = job
       \/ stage = "idle" /\ job' = [job EXCEPT ![p] = NoJob]
    /\ \/ UNCHANGED faults
       \/ faults < MaxFaults /\ faults' = faults + 1
    /\ UNCHANGED overlapped

LEMMA LossyStep ==
    ASSUME NEW stages, NEW jobs, HandlersTypeOK(stages, jobs), Lone,
           NEW p \in Procs, NEW stage \in stages \cup {"idle"}, "idle" \notin stages,
           Lossy(p, stage)
    PROVE  /\ HandlersTypeOK(stages, jobs)' /\ Lone'
           /\ pc'[p] = stage /\ OthersStay(p)
           /\ stage # "idle" => job'[p] = job[p]
           /\ faults' \in Nat /\ faults' >= faults
           /\ faults' # faults => faults' > 0
<1>1. /\ pc[p] # "idle" /\ pc'[p] = stage
      /\ OthersStay(p) /\ (stage # "idle" => job'[p] = job[p])
    BY DEF Lossy, HandlersTypeOK, OthersStay
<1>2. faults \in 0..MaxFaults /\ MaxFaults \in Nat
    BY HandlersAssumptions DEF HandlersTypeOK
<1>3. /\ faults' \in 0..MaxFaults /\ faults' \in Nat /\ faults' >= faults
      /\ faults' # faults => faults' > 0
    BY <1>2 DEF Lossy
<1>4. Lone' /\ UNCHANGED overlapped
    BY <1>1 DEF Lossy, Lone, OthersStay
<1>5. job' \in [Procs -> jobs \cup {NoJob}] /\ pc' \in [Procs -> stages \cup {"idle"}]
    BY DEF Lossy, HandlersTypeOK
<1>6. HandlersTypeOK(stages, jobs)'
    BY <1>1, <1>3, <1>4, <1>5 DEF HandlersTypeOK, OthersStay
<1> QED BY <1>1, <1>3, <1>4, <1>6

(* It stays where it is.                                                     *)
LEMMA HandlersStutter ==
    ASSUME NEW stages, NEW jobs, HandlersTypeOK(stages, jobs), Lone, UNCHANGED handlerVars
    PROVE  /\ HandlersTypeOK(stages, jobs)' /\ Lone'
           /\ pc' = pc /\ job' = job /\ faults' = faults /\ overlapped' = overlapped
BY DEF HandlersTypeOK, Lone, handlerVars

(* Of a group of requests there are no more than there can be at a time.     *)
LEMMA GroupBound ==
    ASSUME NEW o, NEW S \in SUBSET Procs, ~o => \A p, q \in S : p = q
    PROVE  /\ IsFiniteSet(S) /\ Cardinality(S) \in Nat
           /\ Cardinality(S) <= IF o THEN Cardinality(Procs) ELSE 1
<1>1. IsFiniteSet(Procs)
    BY HandlersAssumptions DEF HandlersAssumptions
<1>2. IsFiniteSet(S) /\ Cardinality(S) \in Nat /\ Cardinality(S) <= Cardinality(Procs)
    BY <1>1, FS_Subset, FS_CardinalityType
<1>3. ASSUME ~o PROVE Cardinality(S) <= 1
    <2>1. CASE S = {}
        BY <2>1, FS_EmptySet
    <2>2. CASE S # {}
        <3>1. PICK p \in S : S = {p}
            BY <1>3, <2>2
        <3>2. Cardinality({p}) = 1
            BY FS_Singleton
        <3> QED BY <3>1, <3>2
    <2> QED BY <2>1, <2>2
<1> QED BY <1>2, <1>3

(* One request leaves a group, or joins it.                                  *)
LEMMA GroupStep ==
    ASSUME NEW S \in SUBSET Procs, NEW T \in SUBSET Procs, NEW p \in Procs,
           \A q \in Procs : q # p => (q \in S <=> q \in T)
    PROVE  /\ Cardinality(S) \in Nat /\ Cardinality(T) \in Nat
           /\ p \in S /\ p \notin T => Cardinality(S) = Cardinality(T) + 1
           /\ p \notin S /\ p \in T => Cardinality(T) = Cardinality(S) + 1
           /\ (p \in S <=> p \in T) => Cardinality(S) = Cardinality(T)
<1>1. IsFiniteSet(Procs)
    BY HandlersAssumptions DEF HandlersAssumptions
<1>2. /\ IsFiniteSet(S) /\ IsFiniteSet(T)
      /\ Cardinality(S) \in Nat /\ Cardinality(T) \in Nat
    BY <1>1, FS_Subset, FS_CardinalityType
<1>3. ASSUME p \in S, p \notin T PROVE Cardinality(S) = Cardinality(T) + 1
    <2>1. T = S \ {p}
        BY <1>3
    <2>2. Cardinality(S \ {p}) = Cardinality(S) - 1
        BY <1>2, <1>3, FS_RemoveElement
    <2> QED BY <1>2, <2>1, <2>2
<1>4. ASSUME p \notin S, p \in T PROVE Cardinality(T) = Cardinality(S) + 1
    <2>1. S = T \ {p}
        BY <1>4
    <2>2. Cardinality(T \ {p}) = Cardinality(T) - 1
        BY <1>2, <1>4, FS_RemoveElement
    <2> QED BY <1>2, <2>1, <2>2
<1>5. (p \in S <=> p \in T) => S = T
    OBVIOUS
<1> QED BY <1>2, <1>3, <1>4, <1>5

(* There is room for one at least, and for more once requests overlap.       *)
LEMMA WidthType ==
    ASSUME NEW p \in Procs, overlapped \in BOOLEAN, overlapped' \in BOOLEAN, overlapped => overlapped'
    PROVE  /\ Width \in Nat /\ Width' \in Nat /\ Width >= 1 /\ Width' >= 1
           /\ Width <= Width'
<1>1. IsFiniteSet(Procs)
    BY HandlersAssumptions DEF HandlersAssumptions
<1>2. Cardinality(Procs) \in Nat /\ Cardinality({p}) <= Cardinality(Procs) /\ Cardinality({p}) = 1
    BY <1>1, FS_CardinalityType, FS_Singleton, FS_Subset, ZenonT(60)
<1>3. Cardinality(Procs) >= 1
    BY <1>2
<1> QED BY <1>2, <1>3 DEF Width
=============================================================================
