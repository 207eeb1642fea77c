--------------------------- MODULE RollCallProofs ---------------------------
(***************************************************************************)
(* Proofs about RollCallServer and OfflineRollCalls, for any students,     *)
(* roll calls, requests, jobs, attempts, deaths and failures.              *)
(***************************************************************************)
EXTENDS OfflineRollCalls, FiniteSetTheorems, SequenceTheorems, TLAPS

(* The job of submission i that alerts the guardian of s.                    *)
Alert(i, s) == [post |-> i, kind |-> "absent-sms", student |-> s]

AlertsOf(s) == {j \in Jobs : j.kind = "absent-sms" /\ j.student = s}

(* What job j may have sent, by its attempts and by the deaths so far.       *)
Spent(j) ==
    crashes + IF jobs[j].state = "failed" THEN Attempts
              ELSE IF jobs[j].state \in {"sent", "done"} THEN jobs[j].tries + 1
              ELSE jobs[j].tries

(* Jobs with something to count for each, as pairs.                          *)
Pairs(S, f) == {jk \in S \X Nat : jk[2] < f[jk[1]]}

Spending(s) == Pairs(AlertJobs(s), [j \in AlertJobs(s) |-> Spent(j)])

MessagesCounted == \A s \in Students : told[s] <= Cardinality(Spending(s))

(* A job that has not failed has attempts left.                              *)
TriesLeft == \A j \in Jobs : jobs[j].state # "failed" => jobs[j].tries < Attempts

(* Every submission has a number of its own, and no job before it ends.      *)
PostsOK ==
    /\ \A p \in Procs : pc[p] # "idle" => post[p] <= posts
    /\ \A p, q \in Procs : pc[p] # "idle" /\ pc[q] # "idle" /\ post[p] = post[q] => p = q
    /\ \A p \in Procs : \A j \in Jobs : pc[p] # "idle" /\ j.post = post[p] => jobs[j].state = "none"
    /\ \A j \in Jobs : j.post > posts => jobs[j].state = "none"

(* Somebody has seen to the absence of s.                                    *)
Covered(s) == \/ AlertJobs(s) # {}
              \/ \E p \in Procs : pc[p] = "hand_over" /\ s \in NewlyAbsent(p)

(* Also of an absence that a request has only read.                          *)
AlertsKept ==
    crashes = 0 => \A s \in Students :
        /\ roll[s] = "ABSENT" => Covered(s)
        /\ \A p \in Procs : pc[p] \in {"write", "hand_over"} /\ before[p][s] = "ABSENT" => Covered(s)

ServerInv == ServerTypeOK /\ TriesLeft /\ PostsOK /\ MessagesCounted /\ AlertsKept

----------------------------------------------------------------------------
(* Counting                                                                  *)

(* A submission alerts a guardian with one job: they are finitely many.      *)
LEMMA AlertsFinite ==
    ASSUME NEW s
    PROVE  IsFiniteSet(AlertsOf(s))
<1> DEFINE T == {Alert(i, s) : i \in 1..MaxPosts}
           f == [i \in 1..MaxPosts |-> Alert(i, s)]
<1>1. MaxPosts \in Nat
    BY RollCallAssumptions DEF RollCallAssumptions
<1>2. f \in [1..MaxPosts -> T]
    OBVIOUS
<1>3. \A t \in T : \E i \in 1..MaxPosts : f[i] = t
    <2>1. ASSUME NEW t \in T PROVE \E i \in 1..MaxPosts : f[i] = t
        <3>1. PICK i \in 1..MaxPosts : t = Alert(i, s)
            OBVIOUS
        <3>2. f[i] = t
            BY <3>1
        <3> QED BY <3>2
    <2> QED BY <2>1
<1>4. AlertsOf(s) \subseteq T
    BY DEF AlertsOf, Alert, Jobs
<1> HIDE DEF T, f
<1>5. ExistsSurjection(1..MaxPosts, T)
    BY <1>2, <1>3 DEF ExistsSurjection, Surjection
<1>6. IsFiniteSet(T)
    BY <1>1, <1>5, FS_NatSurjection
<1> QED BY <1>4, <1>6, FS_Subset

LEMMA PairsBound ==
    ASSUME NEW S, IsFiniteSet(S), NEW n \in Nat, NEW f \in [S -> Nat], \A j \in S : f[j] <= n
    PROVE  /\ IsFiniteSet(Pairs(S, f)) /\ Cardinality(Pairs(S, f)) \in Nat
           /\ Cardinality(Pairs(S, f)) <= n * Cardinality(S)
<1> DEFINE I == 0..(n - 1)
<1>1. IsFiniteSet(I) /\ Cardinality(I) = n
    <2>1. IsFiniteSet(I) /\ Cardinality(I) = IF 0 > n - 1 THEN 0 ELSE (n - 1) - 0 + 1
        BY FS_Interval
    <2> QED BY <2>1
<1>2. Pairs(S, f) \subseteq S \X I
    BY DEF Pairs
<1> HIDE DEF I
<1>3. IsFiniteSet(S \X I) /\ Cardinality(S \X I) = Cardinality(S) * Cardinality(I)
    BY <1>1, FS_Product
<1>4. /\ IsFiniteSet(Pairs(S, f)) /\ Cardinality(Pairs(S, f)) \in Nat /\ Cardinality(S) \in Nat
      /\ Cardinality(Pairs(S, f)) <= Cardinality(S \X I)
    BY <1>2, <1>3, FS_Subset, FS_CardinalityType
<1>5. \A c \in Nat : c * n = n * c
    OBVIOUS
<1> QED BY <1>1, <1>3, <1>4, <1>5

(* More jobs and more for each is more in all.                               *)
LEMMA PairsGrow ==
    ASSUME NEW S, NEW T, S \subseteq T, IsFiniteSet(T), NEW n \in Nat,
           NEW f \in [S -> Nat], NEW g \in [T -> Nat], \A j \in T : g[j] <= n,
           \A j \in S : f[j] <= g[j]
    PROVE  /\ Cardinality(Pairs(S, f)) \in Nat /\ Cardinality(Pairs(T, g)) \in Nat
           /\ Cardinality(Pairs(S, f)) <= Cardinality(Pairs(T, g))
           /\ (\E j \in S : f[j] < g[j]) => Cardinality(Pairs(S, f)) + 1 <= Cardinality(Pairs(T, g))
<1>1. IsFiniteSet(Pairs(T, g))
    BY PairsBound
<1>2. Pairs(S, f) \subseteq Pairs(T, g)
    BY DEF Pairs
<1>3. /\ IsFiniteSet(Pairs(S, f))
      /\ Cardinality(Pairs(S, f)) \in Nat /\ Cardinality(Pairs(T, g)) \in Nat
      /\ Cardinality(Pairs(S, f)) <= Cardinality(Pairs(T, g))
    BY <1>1, <1>2, FS_Subset, FS_CardinalityType
<1>4. ASSUME NEW j \in S, f[j] < g[j]
      PROVE  Cardinality(Pairs(S, f)) + 1 <= Cardinality(Pairs(T, g))
    <2>1. <<j, f[j]>> \in Pairs(T, g) /\ <<j, f[j]>> \notin Pairs(S, f)
        BY <1>4 DEF Pairs
    <2>2. Pairs(S, f) \cup {<<j, f[j]>>} \subseteq Pairs(T, g)
        BY <1>2, <2>1
    <2>3. Cardinality(Pairs(S, f) \cup {<<j, f[j]>>}) = Cardinality(Pairs(S, f)) + 1
        BY <1>3, <2>1, FS_AddElement
    <2>4. Cardinality(Pairs(S, f) \cup {<<j, f[j]>>}) <= Cardinality(Pairs(T, g))
        BY <1>1, <2>2, FS_Subset
    <2> QED BY <2>3, <2>4
<1> QED BY <1>3, <1>4

(* What is spent is a number, and no more than a job has attempts and deaths. *)
LEMMA SpentIs ==
    ASSUME ServerTypeOK, NEW j \in Jobs
    PROVE  Spent(j) \in Nat /\ Spent(j) <= Attempts + 1 + crashes
<1>1. /\ Attempts \in Nat /\ crashes \in Nat /\ jobs[j].tries \in Nat /\ jobs[j].tries <= Attempts
    BY RollCallAssumptions DEF RollCallAssumptions, ServerTypeOK
<1> QED BY <1>1 DEF Spent

(* The same after a step.                                                    *)
LEMMA SpentIsThen ==
    ASSUME ServerTypeOK', NEW j \in Jobs
    PROVE  Spent(j)' \in Nat /\ Spent(j)' <= Attempts + 1 + crashes'
<1>1. Attempts \in Nat /\ MaxCrashes \in Nat
    BY RollCallAssumptions DEF RollCallAssumptions
<1>2. /\ crashes' \in 0..MaxCrashes
      /\ jobs' \in [Jobs -> [state : JobStates, tries : 0..Attempts]]
    BY DEF ServerTypeOK
<1>3. PICK t \in 0..Attempts : jobs'[j].tries = t
    BY <1>2
<1>4. PICK c \in Nat : crashes' = c
    BY <1>1, <1>2
<1> QED BY <1>1, <1>3, <1>4 DEF Spent

(* A message more is counted if some alert spent more; none is forgotten.    *)
LEMMA MessageCounted ==
    ASSUME ServerTypeOK, ServerTypeOK', NEW s \in Students, told[s] <= Cardinality(Spending(s)),
           AlertJobs(s) \subseteq AlertJobs(s)',
           \A j \in AlertJobs(s) : Spent(j) <= Spent(j)',
           \/ told'[s] = told[s]
           \/ told'[s] = told[s] + 1 /\ \E j \in AlertJobs(s) : Spent(j) < Spent(j)'
    PROVE  told'[s] <= Cardinality(Spending(s)')
<1> DEFINE S == AlertJobs(s)
           T == AlertJobs(s)'
           f == [j \in S |-> Spent(j)]
           g == [j \in T |-> Spent(j)']
           n == Attempts + 1 + crashes'
<1>1. S \subseteq AlertsOf(s) /\ T \subseteq AlertsOf(s) /\ S \subseteq Jobs /\ T \subseteq Jobs
    BY DEF AlertJobs, AlertsOf
<1>2. IsFiniteSet(T)
    BY <1>1, AlertsFinite, FS_Subset
<1>3. n \in Nat /\ told[s] \in Nat /\ told'[s] \in Nat
    <2>1. Attempts \in Nat /\ MaxCrashes \in Nat
        BY RollCallAssumptions DEF RollCallAssumptions
    <2>2. crashes' \in 0..MaxCrashes /\ told \in [Students -> Nat] /\ told' \in [Students -> Nat]
        BY DEF ServerTypeOK
    <2>3. crashes' \in Nat
        BY <2>1, <2>2
    <2>4. told[s] \in Nat /\ told'[s] \in Nat
        BY <2>2
    <2>5. \A a, c \in Nat : a + 1 + c \in Nat
        OBVIOUS
    <2> QED BY <2>1, <2>3, <2>4, <2>5
<1>4. f \in [S -> Nat] /\ g \in [T -> Nat] /\ \A j \in T : g[j] <= n
    BY <1>1, SpentIs, SpentIsThen
<1>5. \A j \in S : f[j] <= g[j] /\ f[j] = Spent(j) /\ g[j] = Spent(j)'
    OBVIOUS
<1>6. Spending(s) = Pairs(S, f) /\ Spending(s)' = Pairs(T, g)
    BY DEF Spending
<1>7. S \subseteq T
    OBVIOUS
<1> HIDE DEF S, T, f, g, n
<1>8. /\ Cardinality(Pairs(S, f)) \in Nat /\ Cardinality(Pairs(T, g)) \in Nat
      /\ Cardinality(Pairs(S, f)) <= Cardinality(Pairs(T, g))
      /\ (\E j \in S : f[j] < g[j]) => Cardinality(Pairs(S, f)) + 1 <= Cardinality(Pairs(T, g))
    BY <1>2, <1>3, <1>4, <1>5, <1>7, PairsGrow
<1>9. CASE told'[s] = told[s]
    BY <1>3, <1>6, <1>8, <1>9
<1>10. CASE told'[s] = told[s] + 1 /\ \E j \in AlertJobs(s) : Spent(j) < Spent(j)'
    <2>1. \E j \in S : f[j] < g[j]
        BY <1>5, <1>10 DEF S
    <2> QED BY <1>3, <1>6, <1>8, <1>10, <2>1
<1> QED BY <1>9, <1>10

----------------------------------------------------------------------------
(* The requests                                                              *)

LEMMA ServerStart == ServerInit => ServerInv
<1> SUFFICES ASSUME ServerInit PROVE ServerInv
    OBVIOUS
<1>1. MaxPosts \in Nat /\ MaxCrashes \in Nat /\ Attempts \in Nat \ {0}
    BY RollCallAssumptions DEF RollCallAssumptions
<1>2. ServerTypeOK
    BY <1>1 DEF ServerInit, ServerTypeOK, Rows, Marks, Stages, JobStates
<1>3. TriesLeft
    BY <1>1 DEF ServerInit, TriesLeft
<1>4. PostsOK
    BY DEF ServerInit, PostsOK
<1>5. MessagesCounted
    <2> SUFFICES ASSUME NEW s \in Students PROVE told[s] <= Cardinality(Spending(s))
        BY DEF MessagesCounted
    <2>1. AlertJobs(s) = {} /\ told[s] = 0
        BY DEF ServerInit, AlertJobs
    <2>2. Spending(s) = {}
        BY <2>1 DEF Spending, Pairs
    <2>3. Cardinality({}) = 0
        BY FS_EmptySet
    <2> QED BY <2>1, <2>2, <2>3
<1>6. AlertsKept
    BY DEF ServerInit, AlertsKept
<1> QED BY <1>2, <1>3, <1>4, <1>5, <1>6 DEF ServerInv

(* As long as the jobs and the deaths are left alone, so is their count.     *)
LEMMA JobsUndisturbed ==
    ASSUME ServerInv, UNCHANGED <<jobs, told, refused, crashes>>
    PROVE  TriesLeft' /\ MessagesCounted'
<1>1. TriesLeft'
    BY DEF ServerInv, TriesLeft
<1>2. \A s : Spending(s)' = Spending(s)
    BY DEF Spending, AlertJobs, Spent
<1>3. MessagesCounted'
    BY <1>2 DEF ServerInv, MessagesCounted
<1> QED BY <1>1, <1>3

LEMMA PostStep ==
    ASSUME ServerInv, NEW p \in Procs, NEW r \in Rolls, Post(p, r)
    PROVE  ServerInv'
<1>1. /\ ServerTypeOK /\ PostsOK /\ pc[p] = "idle" /\ posts \in Nat /\ posts' = posts + 1
      /\ posts < MaxPosts /\ MaxPosts \in Nat
      /\ pc'[p] = "read" /\ post'[p] = posts + 1 /\ asked'[p] = r /\ before' = before
      /\ \A q \in Procs : q # p => pc'[q] = pc[q] /\ post'[q] = post[q] /\ asked'[q] = asked[q]
      /\ UNCHANGED <<roll, jobs, told, refused, crashes>>
    BY RollCallAssumptions DEF RollCallAssumptions, ServerInv, ServerTypeOK, Post, messages
<1>2. ServerTypeOK'
    <2>1. /\ pc' \in [Procs -> Stages] /\ post' \in [Procs -> 0..MaxPosts]
          /\ asked' \in [Procs -> Rolls \cup {NoRoll}] /\ posts' \in 0..MaxPosts
        <3>1. posts + 1 \in 0..MaxPosts
            BY <1>1
        <3> QED BY <1>1, <3>1 DEF ServerTypeOK, Post, Stages
    <2>2. \A q \in Procs : pc'[q] # "idle" => asked'[q] \in Rolls /\ post'[q] \in 1..MaxPosts
        <3>1. posts + 1 \in 1..MaxPosts
            BY <1>1
        <3> QED BY <1>1, <3>1 DEF ServerTypeOK
    <2>3. \A q \in Procs : pc'[q] \in {"write", "hand_over"} => before'[q] \in Rows
        BY <1>1 DEF ServerTypeOK
    <2> QED BY <1>1, <2>1, <2>2, <2>3 DEF ServerTypeOK
<1>3. PostsOK'
    <2>1. \A q \in Procs : pc[q] # "idle" => post[q] \in Nat /\ post[q] <= posts
        BY <1>1 DEF PostsOK, ServerTypeOK
    <2>2. \A j \in Jobs : j.post \in Nat
        BY DEF Jobs
    <2> QED BY <1>1, <2>1, <2>2 DEF PostsOK
<1>4. TriesLeft' /\ MessagesCounted'
    BY <1>1, JobsUndisturbed
<1>5. AlertsKept'
    BY <1>1 DEF ServerInv, AlertsKept, Covered, NewlyAbsent, Absent, AlertJobs
<1> QED BY <1>2, <1>3, <1>4, <1>5 DEF ServerInv

LEMMA ReadStep ==
    ASSUME ServerInv, NEW p \in Procs, ReadBefore(p)
    PROVE  ServerInv'
<1>1. /\ ServerTypeOK /\ PostsOK /\ pc[p] = "read" /\ pc'[p] = "write" /\ before'[p] = roll
      /\ \A q \in Procs : q # p => pc'[q] = pc[q] /\ before'[q] = before[q]
      /\ UNCHANGED <<roll, post, asked, jobs, told, refused, posts, crashes>>
    BY DEF ServerInv, ServerTypeOK, ReadBefore, messages
<1>2. ServerTypeOK'
    <2>1. pc' \in [Procs -> Stages] /\ before' \in [Procs -> Rows \cup {NoRoll}]
        BY <1>1 DEF ServerTypeOK, ReadBefore, Stages
    <2>2. \A q \in Procs : pc'[q] # "idle" => asked'[q] \in Rolls /\ post'[q] \in 1..MaxPosts
        BY <1>1 DEF ServerTypeOK
    <2>3. \A q \in Procs : pc'[q] \in {"write", "hand_over"} => before'[q] \in Rows
        BY <1>1 DEF ServerTypeOK
    <2> QED BY <1>1, <2>1, <2>2, <2>3 DEF ServerTypeOK
<1>3. PostsOK'
    BY <1>1 DEF PostsOK
<1>4. TriesLeft' /\ MessagesCounted'
    BY <1>1, JobsUndisturbed
<1>5. AlertsKept'
    <2>1. \A s \in Students : Covered(s) => Covered(s)'
        <3>1. \A s : AlertJobs(s)' = AlertJobs(s)
            BY <1>1 DEF AlertJobs
        <3>2. \A q \in Procs : pc[q] = "hand_over" => pc'[q] = "hand_over" /\ NewlyAbsent(q)' = NewlyAbsent(q)
            BY <1>1 DEF NewlyAbsent, Absent
        <3> QED BY <3>1, <3>2 DEF Covered
    <2> QED BY <1>1, <2>1 DEF ServerInv, AlertsKept
<1> QED BY <1>2, <1>3, <1>4, <1>5 DEF ServerInv

(* The rows become what was asked for: who is absent now and was not when    *)
(* the rows were read is about to be handed over, and whoever was is covered. *)
LEMMA UpsertStep ==
    ASSUME ServerInv, NEW p \in Procs, Upsert(p)
    PROVE  ServerInv'
<1>1. /\ ServerTypeOK /\ PostsOK /\ pc[p] = "write" /\ pc'[p] = "hand_over" /\ roll' = asked[p]
      /\ \A q \in Procs : q # p => pc'[q] = pc[q]
      /\ UNCHANGED <<post, asked, before, jobs, told, refused, posts, crashes>>
    BY DEF ServerInv, ServerTypeOK, Upsert, messages
<1>2. ServerTypeOK'
    <2>1. pc' \in [Procs -> Stages] /\ roll' \in Rows
        BY <1>1, RollCallAssumptions DEF RollCallAssumptions, ServerTypeOK, Upsert, Stages, Rows
    <2>2. \A q \in Procs : pc'[q] # "idle" => asked'[q] \in Rolls /\ post'[q] \in 1..MaxPosts
        BY <1>1 DEF ServerTypeOK
    <2>3. \A q \in Procs : pc'[q] \in {"write", "hand_over"} => before'[q] \in Rows
        BY <1>1 DEF ServerTypeOK
    <2> QED BY <1>1, <2>1, <2>2, <2>3 DEF ServerTypeOK
<1>3. PostsOK'
    BY <1>1 DEF PostsOK
<1>4. TriesLeft' /\ MessagesCounted'
    BY <1>1, JobsUndisturbed
<1>5. AlertsKept'
    <2> SUFFICES ASSUME crashes = 0, NEW s \in Students
                 PROVE  /\ roll'[s] = "ABSENT" => Covered(s)'
                        /\ \A q \in Procs : pc'[q] \in {"write", "hand_over"} /\ before[q][s] = "ABSENT"
                             => Covered(s)'
        BY <1>1 DEF AlertsKept
    <2>1. AlertJobs(s)' = AlertJobs(s) /\ \A q \in Procs : NewlyAbsent(q)' = NewlyAbsent(q)
        BY <1>1 DEF AlertJobs, NewlyAbsent, Absent
    <2>2. Covered(s) => Covered(s)'
        BY <1>1, <2>1 DEF Covered
    <2>3. ASSUME NEW q \in Procs, pc'[q] \in {"write", "hand_over"}, before[q][s] = "ABSENT"
          PROVE  Covered(s)'
        BY <1>1, <2>2, <2>3 DEF ServerInv, AlertsKept
    <2>4. ASSUME roll'[s] = "ABSENT" PROVE Covered(s)'
        <3>1. CASE before[p][s] = "ABSENT"
            BY <1>1, <2>3, <3>1
        <3>2. CASE before[p][s] # "ABSENT"
            <4>1. s \in NewlyAbsent(p)'
                BY <1>1, <2>4, <3>2 DEF NewlyAbsent, Absent
            <4> QED BY <1>1, <4>1 DEF Covered
        <3> QED BY <3>1, <3>2
    <2> QED BY <2>3, <2>4
<1> QED BY <1>2, <1>3, <1>4, <1>5 DEF ServerInv

LEMMA FailStep ==
    ASSUME ServerInv, NEW p \in Procs, UpsertFails(p)
    PROVE  ServerInv'
<1>1. /\ ServerTypeOK /\ PostsOK /\ pc[p] = "write" /\ pc'[p] = "idle"
      /\ \A q \in Procs : q # p =>
           /\ pc'[q] = pc[q] /\ post'[q] = post[q] /\ asked'[q] = asked[q] /\ before'[q] = before[q]
      /\ UNCHANGED <<roll, jobs, told, refused, posts, crashes>>
    BY DEF ServerInv, ServerTypeOK, UpsertFails, Finish, messages
<1>2. ServerTypeOK'
    <2>1. /\ pc' \in [Procs -> Stages] /\ post' \in [Procs -> 0..MaxPosts]
          /\ asked' \in [Procs -> Rolls \cup {NoRoll}] /\ before' \in [Procs -> Rows \cup {NoRoll}]
        BY RollCallAssumptions DEF RollCallAssumptions, ServerInv, ServerTypeOK, UpsertFails, Finish, Stages
    <2>2. \A q \in Procs : pc'[q] # "idle" => asked'[q] \in Rolls /\ post'[q] \in 1..MaxPosts
        BY <1>1 DEF ServerTypeOK
    <2>3. \A q \in Procs : pc'[q] \in {"write", "hand_over"} => before'[q] \in Rows
        BY <1>1 DEF ServerTypeOK
    <2> QED BY <1>1, <2>1, <2>2, <2>3 DEF ServerTypeOK
<1>3. PostsOK'
    BY <1>1 DEF PostsOK
<1>4. TriesLeft' /\ MessagesCounted'
    BY <1>1, JobsUndisturbed
<1>5. AlertsKept'
    <2>1. \A s \in Students : Covered(s) => Covered(s)'
        <3>1. \A s : AlertJobs(s)' = AlertJobs(s)
            BY <1>1 DEF AlertJobs
        <3>2. \A q \in Procs : pc[q] = "hand_over" => pc'[q] = "hand_over" /\ NewlyAbsent(q)' = NewlyAbsent(q)
            BY <1>1 DEF NewlyAbsent, Absent
        <3> QED BY <3>1, <3>2 DEF Covered
    <2> QED BY <1>1, <2>1 DEF ServerInv, AlertsKept
<1> QED BY <1>2, <1>3, <1>4, <1>5 DEF ServerInv

LEMMA ScanStep ==
    ASSUME ServerInv, NEW s \in Students, Scan(s)
    PROVE  ServerInv'
<1>1. /\ ServerTypeOK /\ UNCHANGED <<request, jobs, told, refused, posts, crashes>>
      /\ UNCHANGED <<pc, post, asked, before>>
    BY DEF ServerInv, Scan, request, messages
<1>2. ServerTypeOK'
    <2>1. roll' \in Rows
        BY <1>1 DEF ServerTypeOK, Scan, Rows, Marks
    <2> QED BY <1>1, <2>1 DEF ServerTypeOK
<1>3. PostsOK'
    BY <1>1 DEF ServerInv, PostsOK
<1>4. TriesLeft' /\ MessagesCounted'
    BY <1>1, JobsUndisturbed
<1>5. AlertsKept'
    <2>1. \A t \in Students : roll'[t] = "ABSENT" => roll[t] = "ABSENT"
        BY <1>1 DEF ServerTypeOK, Scan, Rows
    <2>2. \A t : Covered(t)' <=> Covered(t)
        BY <1>1 DEF Covered, AlertJobs, NewlyAbsent, Absent
    <2> QED BY <1>1, <2>1, <2>2 DEF ServerInv, AlertsKept
<1> QED BY <1>2, <1>3, <1>4, <1>5 DEF ServerInv

(* The jobs of a request are new: none of them is counted yet.               *)
LEMMA HandOverStep ==
    ASSUME ServerInv, NEW p \in Procs, HandOver(p)
    PROVE  ServerInv'
<1>1. /\ ServerTypeOK /\ PostsOK /\ TriesLeft /\ pc[p] = "hand_over" /\ pc'[p] = "idle"
      /\ \A q \in Procs : q # p =>
           /\ pc'[q] = pc[q] /\ post'[q] = post[q] /\ asked'[q] = asked[q] /\ before'[q] = before[q]
      /\ UNCHANGED <<roll, told, refused, posts, crashes>>
    BY DEF ServerInv, ServerTypeOK, HandOver, Finish, messages
<1>2. PICK i \in 1..MaxPosts : post[p] = i
    BY <1>1 DEF ServerTypeOK
<1> DEFINE new == [state |-> "handed", tries |-> 0]
           mine(j) == j.post = i /\ j.student \in NewlyAbsent(p)
<1>3. jobs' = [j \in Jobs |-> IF mine(j) THEN new ELSE jobs[j]]
    BY <1>2 DEF HandOver
<1>4. \A j \in Jobs : mine(j) => jobs[j].state = "none"
    BY <1>1, <1>2 DEF PostsOK
<1>5. \A j \in Jobs : jobs'[j] = IF mine(j) THEN new ELSE jobs[j]
    BY <1>3
<1>6. ServerTypeOK'
    <2>1. /\ pc' \in [Procs -> Stages] /\ post' \in [Procs -> 0..MaxPosts]
          /\ asked' \in [Procs -> Rolls \cup {NoRoll}] /\ before' \in [Procs -> Rows \cup {NoRoll}]
        BY RollCallAssumptions DEF RollCallAssumptions, ServerInv, ServerTypeOK, HandOver, Finish, Stages
    <2>2. \A q \in Procs : pc'[q] # "idle" => asked'[q] \in Rolls /\ post'[q] \in 1..MaxPosts
        BY <1>1 DEF ServerTypeOK
    <2>3. \A q \in Procs : pc'[q] \in {"write", "hand_over"} => before'[q] \in Rows
        BY <1>1 DEF ServerTypeOK
    <2>4. new \in [state : JobStates, tries : 0..Attempts]
        BY RollCallAssumptions DEF RollCallAssumptions, JobStates
    <2>5. jobs' \in [Jobs -> [state : JobStates, tries : 0..Attempts]]
        <3> HIDE DEF new, mine
        <3> QED BY <1>1, <1>3, <2>4 DEF ServerTypeOK
    <2> QED BY <1>1, <2>1, <2>2, <2>3, <2>5 DEF ServerTypeOK
<1>7. TriesLeft'
    BY <1>1, <1>5, RollCallAssumptions DEF RollCallAssumptions, TriesLeft
<1>8. PostsOK'
    <2>1. /\ \A q \in Procs : pc'[q] # "idle" => post'[q] <= posts'
          /\ \A q, r \in Procs : pc'[q] # "idle" /\ pc'[r] # "idle" /\ post'[q] = post'[r] => q = r
        BY <1>1 DEF PostsOK
    <2>2. \A q \in Procs : \A j \in Jobs : pc'[q] # "idle" /\ j.post = post'[q] => ~mine(j)
        BY <1>1, <1>2 DEF PostsOK
    <2>3. \A q \in Procs : \A j \in Jobs : pc'[q] # "idle" /\ j.post = post'[q] => jobs'[j].state = "none"
        <3> HIDE DEF mine
        <3> QED BY <1>1, <1>5, <2>2 DEF PostsOK
    <2>4. \A j \in Jobs : j.post > posts => ~mine(j)
        BY <1>1, <1>2 DEF PostsOK, ServerTypeOK
    <2>5. \A j \in Jobs : j.post > posts' => jobs'[j].state = "none"
        <3> HIDE DEF mine
        <3> QED BY <1>1, <1>5, <2>4 DEF PostsOK
    <2> QED BY <2>1, <2>3, <2>5 DEF PostsOK
<1>9. \A s : AlertJobs(s) \subseteq AlertJobs(s)'
    BY <1>5 DEF AlertJobs
<1>10. MessagesCounted'
    <2> SUFFICES ASSUME NEW s \in Students PROVE told'[s] <= Cardinality(Spending(s)')
        BY DEF MessagesCounted
    <2>1. \A j \in AlertJobs(s) : j \in Jobs /\ ~mine(j)
        BY <1>4 DEF AlertJobs
    <2>2. \A j \in AlertJobs(s) : jobs'[j] = jobs[j]
        <3> HIDE DEF mine
        <3> QED BY <1>5, <2>1
    <2>3. \A j \in AlertJobs(s) : Spent(j) <= Spent(j)'
        <3>1. \A j \in AlertJobs(s) : Spent(j)' = Spent(j) /\ Spent(j) \in Nat
            BY <1>1, <2>1, <2>2, SpentIs DEF Spent
        <3> QED BY <3>1
    <2>4. told'[s] = told[s] /\ told[s] <= Cardinality(Spending(s))
        BY <1>1 DEF ServerInv, MessagesCounted
    <2> QED BY <1>1, <1>6, <1>9, <2>3, <2>4, MessageCounted
<1>11. AlertsKept'
    <2>1. ASSUME NEW s \in Students, Covered(s) PROVE Covered(s)'
        <3>1. CASE AlertJobs(s) # {}
            BY <1>9, <3>1 DEF Covered
        <3>2. CASE s \in NewlyAbsent(p)
            <4> DEFINE a == Alert(i, s)
            <4>1. a \in Jobs /\ a.post = i /\ a.student = s /\ a.kind = "absent-sms"
                BY RollCallAssumptions DEF RollCallAssumptions, Alert, Jobs
            <4> HIDE DEF a
            <4>2. jobs'[a].state = "handed"
                BY <1>5, <3>2, <4>1
            <4>3. a \in AlertJobs(s)'
                BY <4>1, <4>2 DEF AlertJobs
            <4> QED BY <4>3 DEF Covered
        <3>3. CASE \E q \in Procs : q # p /\ pc[q] = "hand_over" /\ s \in NewlyAbsent(q)
            <4>1. PICK q \in Procs : q # p /\ pc[q] = "hand_over" /\ s \in NewlyAbsent(q)
                BY <3>3
            <4>2. pc'[q] = "hand_over" /\ s \in NewlyAbsent(q)'
                BY <1>1, <4>1 DEF NewlyAbsent, Absent
            <4> QED BY <4>2 DEF Covered
        <3> QED BY <2>1, <3>1, <3>2, <3>3 DEF Covered
    <2> QED BY <1>1, <2>1 DEF ServerInv, AlertsKept
<1> QED BY <1>6, <1>7, <1>8, <1>10, <1>11 DEF ServerInv

----------------------------------------------------------------------------
(* The jobs                                                                  *)

(* One job goes on; if it sent a message, it has spent more than before.     *)
LEMMA JobMoves ==
    ASSUME ServerInv, NEW j \in Jobs, jobs[j].state # "none",
           NEW state \in JobStates \ {"none"}, NEW tries \in 0..Attempts,
           jobs' = [jobs EXCEPT ![j] = [state |-> state, tries |-> tries]],
           UNCHANGED <<roll, request, posts, crashes>>,
           state # "failed" => tries < Attempts,
           Spent(j) <= Spent(j)',
           messages' = messages \/ (Tell(j) /\ Spent(j) < Spent(j)')
    PROVE  ServerInv'
<1>1. /\ ServerTypeOK /\ PostsOK /\ UNCHANGED <<roll, pc, post, asked, before, posts, crashes>>
      /\ jobs'[j].state = state /\ jobs'[j].tries = tries
      /\ \A k \in Jobs : k # j => jobs'[k] = jobs[k]
      /\ j.student \in Students
    BY DEF ServerInv, ServerTypeOK, request, Jobs
<1>2. \A s \in Students : /\ told'[s] = told[s] \/ (told'[s] = told[s] + 1 /\ j \in AlertsOf(s))
                          /\ told'[s] # told[s] => Spent(j) < Spent(j)'
    BY <1>1 DEF ServerTypeOK, Tell, HasMessage, AlertsOf, messages
<1>3. ServerTypeOK'
    <2>1. jobs' \in [Jobs -> [state : JobStates, tries : 0..Attempts]]
        BY <1>1 DEF ServerTypeOK
    <2>2. told' \in [Students -> Nat] /\ refused' \subseteq Students
        BY <1>1 DEF ServerTypeOK, Tell, messages
    <2> QED BY <1>1, <2>1, <2>2 DEF ServerTypeOK
<1>4. TriesLeft'
    BY <1>1 DEF ServerInv, TriesLeft
<1>5. PostsOK'
    BY <1>1 DEF PostsOK
<1>6. \A s : AlertJobs(s)' = AlertJobs(s)
    BY <1>1 DEF AlertJobs
<1>7. MessagesCounted'
    <2> SUFFICES ASSUME NEW s \in Students PROVE told'[s] <= Cardinality(Spending(s)')
        BY DEF MessagesCounted
    <2>1. \A k \in AlertJobs(s) : Spent(k) <= Spent(k)'
        <3>1. \A k \in AlertJobs(s) : k \in Jobs
            BY DEF AlertJobs
        <3>2. \A k \in AlertJobs(s) : k # j => Spent(k)' = Spent(k) /\ Spent(k) \in Nat
            BY <1>1, <3>1, SpentIs DEF Spent
        <3> QED BY <3>2
    <2>2. \/ told'[s] = told[s]
          \/ told'[s] = told[s] + 1 /\ \E k \in AlertJobs(s) : Spent(k) < Spent(k)'
        <3>1. CASE told'[s] = told[s]
            BY <3>1
        <3>2. CASE told'[s] # told[s]
            <4>1. told'[s] = told[s] + 1 /\ j \in AlertsOf(s) /\ Spent(j) < Spent(j)'
                BY <1>2, <3>2
            <4>2. j \in AlertJobs(s)
                BY <4>1 DEF AlertsOf, AlertJobs
            <4> QED BY <4>1, <4>2
        <3> QED BY <3>1, <3>2
    <2>3. told[s] <= Cardinality(Spending(s))
        BY DEF ServerInv, MessagesCounted
    <2>4. AlertJobs(s) \subseteq AlertJobs(s)'
        BY <1>6
    <2> QED BY <1>1, <1>3, <2>1, <2>2, <2>3, <2>4, MessageCounted
<1>8. AlertsKept'
    BY <1>1, <1>6 DEF ServerInv, AlertsKept, Covered, NewlyAbsent, Absent
<1> QED BY <1>3, <1>4, <1>5, <1>7, <1>8 DEF ServerInv

(* What a job in some state with so many attempts may have sent.             *)
SpentIn(state, tries) ==
    crashes + IF state = "failed" THEN Attempts
              ELSE IF state \in {"sent", "done"} THEN tries + 1 ELSE tries

LEMMA JobBecomes ==
    ASSUME ServerInv, NEW j \in Jobs, NEW state, Becomes(j, state)
    PROVE  \E t \in 0..Attempts :
             /\ jobs[j].tries = t
             /\ jobs' = [jobs EXCEPT ![j] = [state |-> state, tries |-> t]]
<1>1. jobs \in [Jobs -> [state : JobStates, tries : 0..Attempts]]
    BY DEF ServerInv, ServerTypeOK
<1>2. PICK t \in 0..Attempts : jobs[j].tries = t
    BY <1>1
<1>3. [jobs[j] EXCEPT !.state = state] = [state |-> state, tries |-> t]
    BY <1>1, <1>2
<1> QED BY <1>1, <1>2, <1>3 DEF Becomes

(* Each state may follow in which a job has spent as much, or a message more. *)
LEMMA JobFollows ==
    ASSUME ServerInv, NEW j \in Jobs, NEW state \in JobStates \ {"none"}, Becomes(j, state),
           UNCHANGED <<roll, request, posts, crashes>>,
           \/ /\ jobs[j].state = "handed" \/ jobs[j].state = "waiting" \/ jobs[j].state = "active"
              /\ messages' = messages \/ (Tell(j) /\ state \in {"sent", "done", "failed"})
           \/ /\ jobs[j].state = "sent" /\ state = "done" /\ messages' = messages
    PROVE  ServerInv'
<1>1. PICK t \in 0..Attempts :
        /\ jobs[j].tries = t
        /\ jobs' = [jobs EXCEPT ![j] = [state |-> state, tries |-> t]]
    BY JobBecomes
<1>2. /\ ServerTypeOK /\ TriesLeft /\ Attempts \in Nat /\ crashes \in Nat /\ crashes' = crashes
      /\ jobs'[j].state = state /\ jobs'[j].tries = t
    BY <1>1, RollCallAssumptions DEF RollCallAssumptions, ServerInv, ServerTypeOK
<1>3. t < Attempts
    BY <1>1, <1>2 DEF TriesLeft
<1>4. Spent(j) = SpentIn(jobs[j].state, t) /\ Spent(j)' = SpentIn(state, t)
    BY <1>1, <1>2 DEF Spent, SpentIn
<1>5. /\ SpentIn(jobs[j].state, t) <= SpentIn(state, t)
      /\ messages' = messages \/ (Tell(j) /\ SpentIn(jobs[j].state, t) < SpentIn(state, t))
    BY <1>2, <1>3 DEF SpentIn
<1>6. Spent(j) <= Spent(j)' /\ (messages' = messages \/ (Tell(j) /\ Spent(j) < Spent(j)'))
    BY <1>4, <1>5
<1> QED BY <1>1, <1>3, <1>6, JobMoves

LEMMA JobStepStep ==
    ASSUME ServerInv, NEW j \in Jobs, JobStep(j)
    PROVE  ServerInv'
<1>1. ASSUME Enqueue(j) PROVE ServerInv'
    <2>1. "waiting" \in JobStates \ {"none"}
        BY DEF JobStates
    <2> QED BY <1>1, <2>1, JobFollows DEF Enqueue
<1>2. ASSUME RunInline(j) PROVE ServerInv'
    <2>1. "done" \in JobStates \ {"none"} /\ "failed" \in JobStates \ {"none"}
        BY DEF JobStates
    <2>2. CASE Becomes(j, "done") /\ Tell(j)
        BY <1>2, <2>1, <2>2, JobFollows DEF RunInline
    <2>3. CASE Becomes(j, "failed") /\ (Tell(j) \/ UNCHANGED messages)
        BY <1>2, <2>1, <2>3, JobFollows DEF RunInline
    <2> QED BY <1>2, <2>2, <2>3 DEF RunInline
<1>3. ASSUME Take(j) PROVE ServerInv'
    <2>1. "active" \in JobStates \ {"none"}
        BY DEF JobStates
    <2> QED BY <1>3, <2>1, JobFollows DEF Take
<1>4. ASSUME Send(j) PROVE ServerInv'
    <2>1. "sent" \in JobStates \ {"none"} /\ "done" \in JobStates \ {"none"}
        BY DEF JobStates
    <2>2. CASE Tell(j) /\ Becomes(j, "sent")
        BY <1>4, <2>1, <2>2, JobFollows DEF Send
    <2>3. CASE Becomes(j, "done") /\ UNCHANGED messages
        BY <1>4, <2>1, <2>3, JobFollows DEF Send
    <2> QED BY <1>4, <2>2, <2>3 DEF Send
<1>5. ASSUME StoreNotice(j) PROVE ServerInv'
    <2>1. "done" \in JobStates \ {"none"}
        BY DEF JobStates
    <2> QED BY <1>5, <2>1, JobFollows DEF StoreNotice
<1> QED BY <1>1, <1>2, <1>3, <1>4, <1>5 DEF JobStep

(* A failed attempt counts, whether or not it had sent its message.          *)
LEMMA ThrowsStep ==
    ASSUME ServerInv, NEW j \in Jobs, Throws(j)
    PROVE  ServerInv'
<1>1. PICK t \in 0..Attempts : jobs[j].tries = t
    BY DEF ServerInv, ServerTypeOK
<1>2. /\ ServerTypeOK /\ TriesLeft /\ Attempts \in Nat /\ crashes \in Nat
      /\ jobs[j].state \in {"active", "sent"} /\ UNCHANGED <<roll, request, told, refused, posts, crashes>>
    BY RollCallAssumptions DEF RollCallAssumptions, ServerInv, ServerTypeOK, Throws, Running, In, messages
<1>3. t + 1 \in 0..Attempts
    BY <1>1, <1>2 DEF TriesLeft
<1> DEFINE state == IF t + 1 < Attempts THEN "waiting" ELSE "failed"
<1>4. state \in JobStates \ {"none"} /\ (state # "failed" => t + 1 < Attempts)
    BY DEF JobStates
<1>5. jobs' = [jobs EXCEPT ![j] = [state |-> state, tries |-> t + 1]]
    BY <1>1 DEF Throws
<1>6. /\ Spent(j) = SpentIn(jobs[j].state, t)
      /\ Spent(j)' = SpentIn(state, t + 1)
    BY <1>1, <1>2, <1>5 DEF Spent, SpentIn, ServerTypeOK
<1>7. SpentIn(jobs[j].state, t) <= SpentIn(state, t + 1)
    BY <1>2, <1>3 DEF SpentIn
<1>8. Spent(j) <= Spent(j)'
    BY <1>6, <1>7
<1>9. jobs[j].state # "none"
    BY <1>2
<1> HIDE DEF state
<1>10. UNCHANGED <<roll, request, posts, crashes>> /\ messages' = messages
    BY <1>2 DEF messages
<1>11. t + 1 \in 0..Attempts /\ state \in JobStates \ {"none"}
    BY <1>3, <1>4
<1> QED BY <1>4, <1>5, <1>8, <1>9, <1>10, <1>11, JobMoves

----------------------------------------------------------------------------
(* Deaths                                                                    *)

(* A death counts for every job.                                             *)
LEMMA DeathCounted ==
    ASSUME ServerInv, ServerTypeOK', crashes' = crashes + 1, UNCHANGED <<told, refused>>,
           \A j \in Jobs : /\ jobs'[j].tries = jobs[j].tries
                           /\ jobs[j].state = "none" <=> jobs'[j].state = "none"
                           /\ jobs'[j].state # jobs[j].state =>
                                jobs'[j].state # "failed" /\ jobs[j].state # "failed"
    PROVE  MessagesCounted' /\ AlertsKept'
<1>1. ServerTypeOK /\ Attempts \in Nat /\ crashes \in Nat
    BY RollCallAssumptions DEF RollCallAssumptions, ServerInv, ServerTypeOK
<1>2. \A s : AlertJobs(s)' = AlertJobs(s) /\ AlertJobs(s) \subseteq Jobs
    BY DEF AlertJobs
<1>3. ASSUME NEW j \in Jobs PROVE Spent(j) <= Spent(j)'
    <2>1. PICK t \in 0..Attempts : jobs[j].tries = t /\ jobs'[j].tries = t
        BY <1>1 DEF ServerTypeOK
    <2>2. PICK c \in Nat : crashes = c /\ crashes' = c + 1
        BY <1>1
    <2> QED BY <1>1, <2>1, <2>2 DEF Spent
<1>4. MessagesCounted'
    <2> SUFFICES ASSUME NEW s \in Students PROVE told'[s] <= Cardinality(Spending(s)')
        BY DEF MessagesCounted
    <2>1. \A j \in AlertJobs(s) : Spent(j) <= Spent(j)'
        BY <1>2, <1>3
    <2>2. told'[s] = told[s] /\ told[s] <= Cardinality(Spending(s))
        BY DEF ServerInv, MessagesCounted
    <2>3. AlertJobs(s) \subseteq AlertJobs(s)'
        BY <1>2
    <2> QED BY <1>1, <2>1, <2>2, <2>3, MessageCounted
<1>5. crashes' # 0
    BY <1>1
<1> QED BY <1>4, <1>5 DEF AlertsKept

LEMMA ServerDiesStep ==
    ASSUME ServerInv, ServerDies
    PROVE  ServerInv'
<1>1. /\ ServerTypeOK /\ TriesLeft /\ crashes' = crashes + 1 /\ UNCHANGED <<roll, told, refused, posts>>
      /\ \A p \in Procs : pc'[p] = "idle"
    BY DEF ServerInv, ServerDies, messages
<1>2. \A j \in Jobs : /\ jobs'[j].tries = jobs[j].tries
                      /\ jobs'[j].state = IF jobs[j].state = "handed" THEN "lost" ELSE jobs[j].state
    BY <1>1 DEF ServerTypeOK, ServerDies
<1>3. ServerTypeOK'
    <2>1. /\ pc' \in [Procs -> Stages] /\ post' \in [Procs -> 0..MaxPosts]
          /\ asked' \in [Procs -> Rolls \cup {NoRoll}] /\ before' \in [Procs -> Rows \cup {NoRoll}]
        BY RollCallAssumptions DEF RollCallAssumptions, ServerDies, Stages
    <2>2. jobs' \in [Jobs -> [state : JobStates, tries : 0..Attempts]]
        BY <1>1 DEF ServerTypeOK, ServerDies, JobStates
    <2>3. crashes' \in 0..MaxCrashes
        BY RollCallAssumptions DEF RollCallAssumptions, ServerInv, ServerTypeOK, ServerDies
    <2> QED BY <1>1, <2>1, <2>2, <2>3 DEF ServerTypeOK
<1>4. TriesLeft'
    BY <1>1, <1>2 DEF TriesLeft
<1>5. PostsOK'
    BY <1>1, <1>2 DEF ServerInv, PostsOK
<1>6. MessagesCounted' /\ AlertsKept'
    BY <1>1, <1>2, <1>3, DeathCounted
<1> QED BY <1>3, <1>4, <1>5, <1>6 DEF ServerInv

LEMMA WorkerDiesStep ==
    ASSUME ServerInv, WorkerDies
    PROVE  ServerInv'
<1>1. /\ ServerTypeOK /\ TriesLeft /\ crashes' = crashes + 1
      /\ UNCHANGED <<roll, told, refused, posts, pc, post, asked, before>>
    BY DEF ServerInv, WorkerDies, request, messages
<1>2. \A j \in Jobs : /\ jobs'[j].tries = jobs[j].tries
                      /\ jobs'[j].state = IF jobs[j].state \in {"active", "sent"} THEN "waiting"
                                          ELSE jobs[j].state
    BY <1>1 DEF ServerTypeOK, WorkerDies, Running, In
<1>3. ServerTypeOK'
    <2>1. jobs' \in [Jobs -> [state : JobStates, tries : 0..Attempts]]
        BY <1>1 DEF ServerTypeOK, WorkerDies, JobStates
    <2>2. crashes' \in 0..MaxCrashes
        BY RollCallAssumptions DEF RollCallAssumptions, ServerInv, ServerTypeOK, WorkerDies
    <2> QED BY <1>1, <2>1, <2>2 DEF ServerTypeOK
<1>4. TriesLeft'
    BY <1>1, <1>2 DEF TriesLeft
<1>5. PostsOK'
    BY <1>1, <1>2 DEF ServerInv, PostsOK
<1>6. MessagesCounted' /\ AlertsKept'
    BY <1>1, <1>2, <1>3, DeathCounted
<1> QED BY <1>3, <1>4, <1>5, <1>6 DEF ServerInv

----------------------------------------------------------------------------
(* The server                                                                *)

LEMMA ServerStep == ServerInv /\ [ServerNext]_serverVars => ServerInv'
<1> SUFFICES ASSUME ServerInv, [ServerNext]_serverVars PROVE ServerInv'
    OBVIOUS
<1>1. ASSUME NEW p \in Procs, RequestStep(p) PROVE ServerInv'
    BY <1>1, ReadStep, UpsertStep, FailStep, HandOverStep DEF RequestStep
<1>2. ASSUME NEW j \in Jobs, JobStep(j) \/ Throws(j) PROVE ServerInv'
    BY <1>2, JobStepStep, ThrowsStep
<1>3. CASE UNCHANGED serverVars
    <2>1. UNCHANGED <<roll, pc, post, asked, before, jobs, told, refused, posts, crashes>>
        BY <1>3 DEF serverVars, request, messages
    <2>2. ServerTypeOK' /\ PostsOK'
        BY <2>1 DEF ServerInv, ServerTypeOK, PostsOK
    <2>3. AlertsKept'
        BY <2>1 DEF ServerInv, AlertsKept, Covered, AlertJobs, NewlyAbsent, Absent
    <2>4. TriesLeft' /\ MessagesCounted'
        BY <2>1, JobsUndisturbed
    <2> QED BY <2>2, <2>3, <2>4 DEF ServerInv
<1> QED BY <1>1, <1>2, <1>3, ServerDiesStep, WorkerDiesStep, PostStep, ScanStep DEF ServerNext, Internal

(* The types, the numbers of submissions and what is spent, however many     *)
(* requests overlap and whoever dies.                                        *)
LEMMA ServerInvariant == ServerSpec => []ServerInv
<1> QED BY ServerStart, ServerStep, PTL DEF ServerSpec

LEMMA ServerInvImplies == ServerInv => AbsenceAlerted
<1> SUFFICES ASSUME ServerInv PROVE AbsenceAlerted
    OBVIOUS
<1>1. ServerTypeOK /\ TriesLeft /\ Attempts \in Nat /\ crashes \in Nat
    BY RollCallAssumptions DEF RollCallAssumptions, ServerInv, ServerTypeOK
<1>2. ASSUME NEW s \in Students
      PROVE  told[s] <= (Attempts + crashes) * Cardinality(AlertJobs(s))
    <2> DEFINE S == AlertJobs(s)
               f == [j \in S |-> Spent(j)]
               n == Attempts + crashes
    <2>1. S \subseteq AlertsOf(s) /\ S \subseteq Jobs
        BY DEF AlertJobs, AlertsOf
    <2>2. IsFiniteSet(S)
        BY <2>1, AlertsFinite, FS_Subset
    <2>3. \A j \in Jobs : Spent(j) \in Nat /\ Spent(j) <= n
        <3> SUFFICES ASSUME NEW j \in Jobs PROVE Spent(j) <= n
            BY <1>1, SpentIs
        <3>1. PICK t \in 0..Attempts : jobs[j].tries = t
            BY <1>1 DEF ServerTypeOK
        <3>2. jobs[j].state # "failed" => t < Attempts
            BY <1>1, <3>1 DEF TriesLeft
        <3> QED BY <1>1, <3>1, <3>2 DEF Spent
    <2>4. f \in [S -> Nat] /\ \A j \in S : f[j] <= n
        BY <2>1, <2>3
    <2>5. n \in Nat
        BY <1>1
    <2>6. Spending(s) = Pairs(S, f)
        BY DEF Spending
    <2> HIDE DEF S, f, n
    <2>7. Cardinality(Pairs(S, f)) \in Nat /\ Cardinality(Pairs(S, f)) <= n * Cardinality(S)
        BY <2>2, <2>4, <2>5, PairsBound
    <2>8. told[s] \in Nat /\ told[s] <= Cardinality(Pairs(S, f))
        BY <1>1, <2>6 DEF ServerInv, MessagesCounted, ServerTypeOK
    <2>9. Cardinality(S) \in Nat
        BY <2>2, FS_CardinalityType
    <2>10. n * Cardinality(S) \in Nat
        <3>1. \A x, y \in Nat : x * y \in Nat
            OBVIOUS
        <3> QED BY <2>5, <2>9, <3>1
    <2>11. told[s] <= n * Cardinality(S)
        BY <2>7, <2>8, <2>10
    <2> QED BY <2>11 DEF n, S
<1>3. MessagesBounded
    BY <1>2 DEF MessagesBounded
<1> QED BY <1>3 DEF ServerInv, AlertsKept, Covered, AbsenceAlerted

(* Nobody is marked absent in silence, however two requests interleave, and  *)
(* a guardian is messaged no more often than the jobs about a student have   *)
(* attempts and deaths (POST api/attendance and the attendance worker).      *)
THEOREM AbsencesAreAlerted == ServerSpec => []AbsenceAlerted
<1> QED BY ServerInvariant, ServerInvImplies, PTL

----------------------------------------------------------------------------
(* The page, the queue and the network                                       *)

CallRow == [from : {"page", "flush"}, tab : Tabs, roll : Rolls, state : CallStates]

CallsOK ==
    /\ queue \in Rolls \cup {NoRoll}
    /\ calls \in [Calls -> CallRow \cup {NoCall}]
    /\ \A c \in Calls : calls[c].state = "listed" => calls[c].from = "flush"
    /\ serving \in [Procs -> Calls \cup {NoCall}]
    /\ \A p \in Procs : serving[p] \in Calls =>
         calls[serving[p]].state = "received" /\ calls[serving[p]].roll = asked[p]
    /\ failures \in 0..MaxFailures
    /\ saved \in Seq(Rolls) /\ Len(saved) <= MaxSaves
    /\ latest \subseteq Rows
    /\ mixed \subseteq {"save", "post"}

(* Who has only just been loaded is offline and waits for nothing.           *)
TabsOK ==
    /\ online \in BOOLEAN
    /\ fresh \subseteq Tabs /\ heard \subseteq Tabs
    /\ \A t \in fresh : ~online /\ t \notin heard /\ \A c \in Calls : calls[c].tab # t

(* A call is answered by one process.                                        *)
ServedOnce == \A p, q \in Procs : serving[p] \in Calls /\ serving[p] = serving[q] => p = q

OnePage(t) ==
    \A c, d \in Calls :
        calls[c].from = "page" /\ calls[c].tab = t /\ calls[d].from = "page" /\ calls[d].tab = t => c = d
PageOnce == \A t \in Tabs : OnePage(t)

Last == saved[Len(saved)]

(* Whatever is on its way is what was saved last.                            *)
OnTheWay ==
    /\ \A p \in Procs : pc[p] # "idle" => asked[p] = Last
    /\ \A p \in Procs : pc[p] = "hand_over" => roll = Last
    /\ \A c \in Calls : ~Free(c) => calls[c].roll = Last
    /\ \A c \in Calls : calls[c].state = "ok" => roll = Last
    /\ queue # NoRoll => queue = Last

(* It is known to be kept: in the rows or, until it is there, in the queue;  *)
(* while the page waits, the rows have it or what was known before.          *)
Known ==
    /\ PageWaits => /\ queue = NoRoll /\ roll \in latest \cup {Last}
                    /\ \A c \in Calls : calls[c].from # "flush"
                    /\ \A c, d \in Calls : calls[c].from = "page" /\ calls[d].from = "page" => c = d
    /\ ~PageWaits => Last \in latest /\ (roll \in latest \/ queue = Last)

NothingSaved == Busy = {} /\ (\A c \in Calls : Free(c)) /\ queue = NoRoll /\ roll \in latest

SavesKept ==
    "save" \notin mixed => IF saved = <<>> THEN NothingSaved ELSE OnTheWay /\ Known

OneAtATime == "post" \notin mixed => \A p, q \in Procs : pc[p] # "idle" /\ pc[q] # "idle" => p = q

SavedAbsent(s) == {k \in DOMAIN saved : saved[k][s] = "ABSENT"}

(* The last save of s as absent is still to be alerted.                      *)
Due(s) ==
    /\ saved # <<>> /\ Last[s] = "ABSENT"
    /\ \/ roll[s] # "ABSENT"
       \/ \E p \in Procs : pc[p] \in {"write", "hand_over"} /\ before[p][s] # "ABSENT"

AlertedOnce(s) ==
    /\ Cardinality(AlertJobs(s)) <= Cardinality(SavedAbsent(s))
    /\ Due(s) => Cardinality(AlertJobs(s)) + 1 <= Cardinality(SavedAbsent(s))

AlertsOnce == mixed = {} => \A s \in Students : AlertedOnce(s)

NetInv == CallsOK /\ TabsOK /\ ServedOnce /\ PageOnce /\ SavesKept

AlertInv == OneAtATime /\ AlertsOnce

OfflineInv == ServerInv /\ NetInv /\ AlertInv

(* What a state is about, by the assumptions on the constants.               *)
LEMMA RollIs ==
    ASSUME ServerInv
    PROVE  /\ Rolls \subseteq Rows /\ NoRoll \notin Rows /\ NoRoll \notin Rolls
           /\ roll \in Rows /\ NoCall \notin CallRow /\ NoCall \notin Calls /\ NoCall.tab \notin Tabs
           /\ \A p \in Procs : pc[p] # "idle" => asked[p] \in Rolls
<1>1. Rolls \subseteq Rows /\ NoRoll \notin Rows
    BY RollCallAssumptions DEF RollCallAssumptions, Rows
<1>2. roll \in Rows /\ \A p \in Procs : pc[p] # "idle" => asked[p] \in Rolls
    BY DEF ServerInv, ServerTypeOK
<1>3. NoCall \notin CallRow /\ NoCall \notin Calls /\ NoCall.tab \notin Tabs
    BY OfflineAssumptions DEF OfflineAssumptions, CallRow, NoCall
<1> QED BY <1>1, <1>2, <1>3

(* A call is there, or its place is free.                                    *)
LEMMA CallIs ==
    ASSUME CallsOK, NEW c \in Calls
    PROVE  /\ Free(c) => calls[c].from = "nobody" /\ calls[c].state = "none"
           /\ ~Free(c) => calls[c] \in CallRow /\ calls[c].from # "nobody" /\ calls[c].state # "none"
           /\ calls[c].from \in {"page", "flush"} => ~Free(c)
           /\ calls[c].state \in CallStates => ~Free(c)
<1>1. calls[c] \in CallRow \cup {NoCall}
    BY DEF CallsOK
<1> QED BY <1>1 DEF CallRow, Free, NoCall, CallStates

(* A call is made by the same one, for the same.                             *)
SameCall(c) ==
    /\ calls'[c].from = calls[c].from /\ calls'[c].tab = calls[c].tab
    /\ calls'[c].roll = calls[c].roll

(* Coverage stays as it is, and no call is made.                             *)
LEMMA TabsStay ==
    ASSUME TabsOK, UNCHANGED coverage, \A c \in Calls : calls'[c] = NoCall \/ calls'[c].tab = calls[c].tab
    PROVE  TabsOK'
<1>1. online' = online /\ fresh' = fresh /\ heard' = heard
    BY DEF coverage
<1>2. NoCall.tab \notin Tabs
    BY OfflineAssumptions DEF OfflineAssumptions, NoCall
<1> QED BY <1>1, <1>2 DEF TabsOK

(* A page that waits for an answer goes on waiting, or no longer does.       *)
LEMMA PagesStay ==
    ASSUME PageOnce,
           \A c \in Calls : \/ calls'[c].from = calls[c].from /\ calls'[c].tab = calls[c].tab
                            \/ calls'[c].from # "page"
    PROVE  PageOnce'
<1> SUFFICES ASSUME NEW t \in Tabs, NEW c \in Calls, NEW d \in Calls,
                    calls'[c].from = "page", calls'[c].tab = t, calls'[d].from = "page", calls'[d].tab = t
             PROVE  c = d
    BY DEF PageOnce, OnePage
<1>1. calls[c].from = "page" /\ calls[c].tab = t
    OBVIOUS
<1>2. calls[d].from = "page" /\ calls[d].tab = t
    OBVIOUS
<1> QED BY <1>1, <1>2 DEF PageOnce, OnePage

(* A call reaches another state.                                             *)
LEMMA CallBecomes ==
    ASSUME CallsOK, NEW c \in Calls, NEW state \in CallStates, ~Free(c), calls' = Becoming(c, state)
    PROVE  /\ calls' \in [Calls -> CallRow \cup {NoCall}]
           /\ calls'[c].state = state /\ \A d \in Calls : d # c => calls'[d] = calls[d]
           /\ \A d \in Calls : SameCall(d)
           /\ \A d \in Calls : Free(d)' <=> Free(d)
           /\ PageWaits' <=> PageWaits
<1>1. calls \in [Calls -> CallRow \cup {NoCall}] /\ calls[c] \in CallRow
    BY CallIs DEF CallsOK
<1>2. /\ calls'[c] = [calls[c] EXCEPT !.state = state] /\ \A d \in Calls : d # c => calls'[d] = calls[d]
    BY <1>1 DEF Becoming
<1>3. calls'[c] \in CallRow /\ calls'[c].state = state /\ SameCall(c)
    BY <1>1, <1>2 DEF CallRow, SameCall
<1>4. calls' \in [Calls -> CallRow \cup {NoCall}]
    <2>1. calls' = [d \in Calls |-> calls'[d]]
        BY <1>1 DEF Becoming
    <2>2. \A d \in Calls : calls'[d] \in CallRow \cup {NoCall}
        BY <1>1, <1>2, <1>3
    <2> QED BY <2>1, <2>2
<1>5. calls'[c] # NoCall
    BY <1>3 DEF CallRow, NoCall
<1>6. \A d \in Calls : SameCall(d)
    BY <1>2, <1>3 DEF SameCall
<1>7. \A d \in Calls : Free(d)' <=> Free(d)
    BY <1>2, <1>5 DEF Free
<1>8. PageWaits' <=> PageWaits
    BY <1>6 DEF PageWaits, SameCall
<1> QED BY <1>2, <1>3, <1>4, <1>6, <1>7, <1>8

(* A call is over, or a new one is made.                                     *)
LEMMA CallSet ==
    ASSUME CallsOK, NEW c \in Calls, NEW r \in CallRow \cup {NoCall}, calls' = [calls EXCEPT ![c] = r]
    PROVE  /\ calls' \in [Calls -> CallRow \cup {NoCall}]
           /\ calls'[c] = r /\ \A d \in Calls : d # c => calls'[d] = calls[d]
           /\ \A d \in Calls : d # c => (Free(d)' <=> Free(d))
<1> QED BY DEF CallsOK, Free

(* Something was saved, if anything is under way.                            *)
LEMMA SavedIs ==
    ASSUME SavesKept, "save" \notin mixed,
           \/ \E c \in Calls : ~Free(c)
           \/ \E p \in Procs : pc[p] # "idle"
           \/ queue # NoRoll
    PROVE  saved # <<>> /\ OnTheWay /\ Known
BY DEF SavesKept, NothingSaved, Busy

(* The history of what is saved does not change what is counted.             *)
LEMMA AlertsUndisturbed ==
    ASSUME AlertInv, UNCHANGED <<serverVars, saved, mixed>>
    PROVE  AlertInv'
<1>1. UNCHANGED <<roll, pc, before, jobs, saved, mixed>>
    BY DEF serverVars, request
<1> QED BY <1>1, ZenonT(60) DEF AlertInv, OneAtATime, AlertsOnce, AlertedOnce, Due, Last, AlertJobs, SavedAbsent

(* A call goes on that is not answered, or answered with a failure.          *)
LEMMA CallGoesOn ==
    ASSUME ServerInv, NetInv, NEW c \in Calls, NEW state \in CallStates \ {"ok", "listed"}, ~Free(c),
           calls' = Becoming(c, state),
           UNCHANGED <<roll, pc, asked, coverage, queue, history>>, failures' \in 0..MaxFailures,
           \/ serving' = serving /\ calls[c].state # "received"
           \/ serving' = [p \in Procs |-> IF serving[p] = c THEN NoCall ELSE serving[p]]
    PROVE  NetInv'
<1>1. /\ CallsOK /\ TabsOK /\ ServedOnce /\ PageOnce /\ SavesKept /\ UNCHANGED <<saved, latest, mixed>>
    BY DEF NetInv, history
<1>2. /\ calls' \in [Calls -> CallRow \cup {NoCall}]
      /\ calls'[c].state = state /\ \A d \in Calls : d # c => calls'[d] = calls[d]
      /\ \A d \in Calls : SameCall(d)
      /\ \A d \in Calls : Free(d)' <=> Free(d)
      /\ PageWaits' <=> PageWaits
    BY <1>1, CallBecomes
<1>3. NoCall \notin Calls
    BY RollIs
<1>4. \A p \in Procs : serving'[p] \in Calls => serving'[p] = serving[p] /\ serving[p] # c
    BY <1>1, <1>3 DEF CallsOK
<1>5. CallsOK'
    <2>1. \A d \in Calls : calls'[d].state = "listed" => calls'[d].from = "flush"
        BY <1>1, <1>2 DEF CallsOK, SameCall
    <2>2. \A p \in Procs : serving'[p] \in Calls =>
            calls'[serving'[p]].state = "received" /\ calls'[serving'[p]].roll = asked'[p]
        BY <1>1, <1>2, <1>4 DEF CallsOK, SameCall
    <2>3. serving' \in [Procs -> Calls \cup {NoCall}]
        BY <1>1 DEF CallsOK
    <2> QED BY <1>1, <1>2, <2>1, <2>2, <2>3 DEF CallsOK
<1>6. ServedOnce' /\ PageOnce' /\ TabsOK'
    BY <1>1, <1>2, <1>4, PagesStay, TabsStay DEF ServedOnce, SameCall
<1>7. SavesKept'
    <2> SUFFICES ASSUME "save" \notin mixed PROVE saved # <<>> /\ OnTheWay' /\ Known'
        BY <1>1 DEF SavesKept
    <2>1. saved # <<>> /\ OnTheWay /\ Known
        BY <1>1, SavedIs
    <2>2. OnTheWay'
        BY <1>1, <1>2, <2>1 DEF OnTheWay, Last, SameCall
    <2>3. Known'
        BY <1>1, <1>2, <2>1 DEF Known, Last, SameCall
    <2> QED BY <2>1, <2>2, <2>3
<1> QED BY <1>5, <1>6, <1>7 DEF NetInv

----------------------------------------------------------------------------
(* The teacher                                                               *)

(* A save that overtakes none finds nothing on its way.                      *)
LEMMA SavesIs ==
    ASSUME CallsOK, NEW r \in Rolls, NEW older \in BOOLEAN, Saves(r, older)
    PROVE  /\ saved' \in Seq(Rolls) /\ Len(saved') <= MaxSaves /\ saved' # <<>> /\ Last' = r
           /\ mixed' \subseteq {"save", "post"} /\ mixed \subseteq mixed'
           /\ "save" \notin mixed' => /\ mixed' = mixed /\ ~older
                                      /\ \A p \in Procs : pc[p] = "idle"
                                      /\ \A c \in Calls : Free(c)
<1>1. saved \in Seq(Rolls) /\ Len(saved) < MaxSaves /\ saved' = Append(saved, r) /\ Len(saved) \in Nat
    BY DEF CallsOK, Saves
<1>2. saved' \in Seq(Rolls) /\ Len(saved') = Len(saved) + 1 /\ saved'[Len(saved) + 1] = r
    BY <1>1, AppendProperties
<1>3. Len(saved') <= MaxSaves /\ saved' # <<>> /\ Last' = r
    <2>1. MaxSaves \in Nat
        BY OfflineAssumptions DEF OfflineAssumptions
    <2>2. Len(saved) + 1 <= MaxSaves
        BY <1>1, <2>1
    <2>3. saved' # <<>>
        BY <1>1
    <2> QED BY <1>2, <2>2, <2>3 DEF Last
<1>4. /\ mixed' \subseteq {"save", "post"} /\ mixed \subseteq mixed'
      /\ "save" \notin mixed' => /\ mixed' = mixed /\ ~older /\ Busy = {}
                                 /\ \A c \in Calls : Free(c)
    BY DEF CallsOK, Saves
<1> QED BY <1>2, <1>3, <1>4 DEF Busy

(* One save more counts once for everybody it names as absent.               *)
LEMMA SavedMore ==
    ASSUME CallsOK, AlertInv, NEW r \in Rolls, NEW older \in BOOLEAN, Saves(r, older), UNCHANGED serverVars
    PROVE  AlertInv'
<1>1. UNCHANGED <<roll, pc, before, jobs>>
    BY DEF serverVars, request
<1>2. /\ mixed \subseteq mixed' /\ Last' = r
      /\ saved \in Seq(Rolls) /\ saved' = Append(saved, r) /\ Len(saved) \in Nat
    BY SavesIs DEF Saves, CallsOK
<1>3. OneAtATime'
    BY <1>1, <1>2 DEF AlertInv, OneAtATime
<1>4. ASSUME mixed' = {}, NEW s \in Students PROVE AlertedOnce(s)'
    <2> DEFINE n == Len(saved)
    <2>1. AlertedOnce(s) /\ AlertJobs(s)' = AlertJobs(s)
        BY <1>1, <1>2, <1>4 DEF AlertInv, AlertsOnce, AlertJobs
    <2>2. DOMAIN saved = 1..n /\ DOMAIN saved' = 1..(n + 1) /\ n \in Nat
        BY <1>2, AppendProperties, LenProperties
    <2>3. saved'[n + 1] = r /\ \A k \in 1..n : saved'[k] = saved[k]
        BY <1>2, AppendProperties
    <2> HIDE DEF n
    <2>4. SavedAbsent(s)' = IF r[s] = "ABSENT" THEN SavedAbsent(s) \cup {n + 1} ELSE SavedAbsent(s)
        BY <2>2, <2>3 DEF SavedAbsent
    <2>5. n + 1 \notin SavedAbsent(s) /\ SavedAbsent(s) \subseteq 1..n
        BY <2>2 DEF SavedAbsent
    <2>6. IsFiniteSet(1..n)
        BY <2>2, FS_Interval
    <2>7. IsFiniteSet(SavedAbsent(s)) /\ Cardinality(SavedAbsent(s)) \in Nat
        BY <2>5, <2>6, FS_Subset, FS_CardinalityType
    <2>8. Cardinality(SavedAbsent(s) \cup {n + 1}) = Cardinality(SavedAbsent(s)) + 1
        BY <2>5, <2>7, FS_AddElement
    <2>9. AlertJobs(s) \subseteq AlertsOf(s)
        BY DEF AlertJobs, AlertsOf
    <2>10. Cardinality(AlertJobs(s)) \in Nat
        BY <2>9, AlertsFinite, FS_Subset, FS_CardinalityType
    <2>11. Cardinality(AlertJobs(s)) <= Cardinality(SavedAbsent(s))
        BY <2>1 DEF AlertedOnce
    <2>12. CASE r[s] = "ABSENT"
        <3>1. Cardinality(SavedAbsent(s)') = Cardinality(SavedAbsent(s)) + 1
            BY <2>4, <2>8, <2>12
        <3>2. /\ Cardinality(AlertJobs(s)) <= Cardinality(SavedAbsent(s)')
              /\ Cardinality(AlertJobs(s)) + 1 <= Cardinality(SavedAbsent(s)')
            BY <2>7, <2>10, <2>11, <3>1
        <3> QED BY <2>1, <3>2 DEF AlertedOnce
    <2>13. CASE r[s] # "ABSENT"
        <3>1. ~Due(s)'
            BY <1>2, <2>13 DEF Due
        <3>2. SavedAbsent(s)' = SavedAbsent(s)
            BY <2>4, <2>13
        <3> QED BY <2>1, <2>11, <3>1, <3>2 DEF AlertedOnce
    <2> QED BY <2>12, <2>13
<1> QED BY <1>3, <1>4 DEF AlertInv, AlertsOnce

LEMMA SaveOfflineStep ==
    ASSUME ServerInv, NetInv, NEW t \in Tabs, NEW r \in Rolls, SaveOffline(t, r)
    PROVE  NetInv'
<1>1. /\ CallsOK /\ TabsOK /\ ServedOnce /\ PageOnce /\ Saves(r, FALSE) /\ queue' = r /\ latest' = {r}
      /\ UNCHANGED <<serverVars, coverage, calls, serving, failures>>
    BY DEF NetInv, SaveOffline
<1>2. UNCHANGED <<roll, pc, asked>>
    BY <1>1 DEF serverVars, request
<1>3. /\ saved' \in Seq(Rolls) /\ Len(saved') <= MaxSaves /\ saved' # <<>> /\ Last' = r
      /\ mixed' \subseteq {"save", "post"}
      /\ "save" \notin mixed' => /\ \A p \in Procs : pc[p] = "idle"
                                 /\ \A c \in Calls : Free(c)
    BY <1>1, SavesIs
<1>4. CallsOK'
    <2>1. latest' \subseteq Rows
        BY <1>1, RollIs
    <2> QED BY <1>1, <1>2, <1>3, <2>1 DEF CallsOK
<1>5. ServedOnce' /\ PageOnce' /\ TabsOK'
    BY <1>1, TabsStay DEF ServedOnce, PageOnce, OnePage
<1>6. SavesKept'
    <2> SUFFICES ASSUME "save" \notin mixed' PROVE OnTheWay' /\ Known'
        BY <1>3 DEF SavesKept
    <2>1. \A c \in Calls : Free(c) /\ calls[c].from = "nobody" /\ calls[c].state = "none"
        BY <1>1, <1>3, CallIs
    <2>2. OnTheWay'
        BY <1>1, <1>2, <1>3, <2>1 DEF OnTheWay, Free
    <2>3. Known'
        BY <1>1, <1>3, <2>1 DEF Known, PageWaits
    <2> QED BY <2>2, <2>3
<1> QED BY <1>4, <1>5, <1>6 DEF NetInv

(* What is saved online while nothing is queued or on its way.               *)
LEMMA SaveOnlineStep ==
    ASSUME ServerInv, NetInv, NEW t \in Tabs, NEW c \in Calls, NEW r \in Rolls, SaveOnline(t, c, r)
    PROVE  NetInv'
<1> DEFINE call == Posted(t, r)
<1>1. /\ CallsOK /\ TabsOK /\ ServedOnce /\ PageOnce /\ SavesKept /\ Saves(r, queue # NoRoll) /\ Free(c)
      /\ online /\ \A d \in Calls : calls[d].tab = t => calls[d].from # "page"
      /\ calls' = [calls EXCEPT ![c] = call]
      /\ UNCHANGED <<serverVars, coverage, queue, serving, failures, latest>>
    BY DEF NetInv, SaveOnline, OfPage, Of
<1>2. UNCHANGED <<roll, pc, asked>>
    BY <1>1 DEF serverVars, request
<1>3. call \in CallRow /\ call.from = "page" /\ call.state = "sent" /\ call.roll = r /\ call.tab = t
    BY DEF CallRow, CallStates, Posted
<1> HIDE DEF call
<1>4. /\ calls' \in [Calls -> CallRow \cup {NoCall}]
      /\ calls'[c] = call /\ \A d \in Calls : d # c => calls'[d] = calls[d]
    BY <1>1, <1>3, CallSet
<1>5. /\ saved' \in Seq(Rolls) /\ Len(saved') <= MaxSaves /\ saved' # <<>> /\ Last' = r
      /\ mixed' \subseteq {"save", "post"} /\ mixed \subseteq mixed'
      /\ "save" \notin mixed' => /\ queue = NoRoll
                                 /\ \A p \in Procs : pc[p] = "idle"
                                 /\ \A d \in Calls : Free(d)
    <2>1. (queue # NoRoll) \in BOOLEAN
        OBVIOUS
    <2> QED BY <1>1, <2>1, SavesIs
<1>6. calls[c].state = "none"
    BY <1>1, CallIs
<1>7. CallsOK'
    <2>1. \A d \in Calls : calls'[d].state = "listed" => calls'[d].from = "flush"
        BY <1>1, <1>3, <1>4 DEF CallsOK
    <2>2. \A p \in Procs : serving[p] \in Calls => serving[p] # c
        BY <1>1, <1>6 DEF CallsOK
    <2>3. \A p \in Procs : serving'[p] \in Calls =>
            calls'[serving'[p]].state = "received" /\ calls'[serving'[p]].roll = asked'[p]
        BY <1>1, <1>2, <1>4, <2>2 DEF CallsOK
    <2> QED BY <1>1, <1>4, <1>5, <2>1, <2>3 DEF CallsOK
<1>8. ServedOnce' /\ PageOnce' /\ TabsOK'
    <2>1. PageOnce'
        BY <1>1, <1>3, <1>4 DEF PageOnce, OnePage
    <2>2. TabsOK'
        BY <1>1 DEF TabsOK, coverage
    <2> QED BY <1>1, <2>1, <2>2 DEF ServedOnce
<1>9. SavesKept'
    <2> SUFFICES ASSUME "save" \notin mixed' PROVE OnTheWay' /\ Known'
        BY <1>5 DEF SavesKept
    <2>1. \A d \in Calls : Free(d) /\ calls[d].from = "nobody" /\ calls[d].state = "none"
        BY <1>1, <1>5, CallIs
    <2>2. roll \in latest
        <3>1. queue = NoRoll /\ ~PageWaits /\ "save" \notin mixed
            BY <1>5, <2>1 DEF PageWaits
        <3>2. CASE saved = <<>>
            BY <1>1, <3>1, <3>2 DEF SavesKept, NothingSaved
        <3>3. CASE saved # <<>>
            <4>1. Last \in latest /\ (roll \in latest \/ queue = Last)
                BY <1>1, <3>1, <3>3 DEF SavesKept, Known
            <4>2. NoRoll \notin latest
                BY <1>1, RollIs DEF CallsOK
            <4> QED BY <3>1, <4>1, <4>2
        <3> QED BY <3>2, <3>3
    <2>3. OnTheWay'
        BY <1>1, <1>2, <1>3, <1>4, <1>5, <2>1 DEF OnTheWay, Free
    <2>4. Known'
        BY <1>1, <1>2, <1>3, <1>4, <1>5, <2>1, <2>2 DEF Known, PageWaits
    <2> QED BY <2>3, <2>4
<1> QED BY <1>7, <1>8, <1>9 DEF NetInv

LEMMA PageAnsweredStep ==
    ASSUME ServerInv, NetInv, NEW c \in Calls, PageAnswered(c)
    PROVE  NetInv'
<1>1. /\ CallsOK /\ TabsOK /\ ServedOnce /\ PageOnce /\ SavesKept /\ calls[c].from = "page"
      /\ calls[c].state \in {"ok", "error", "broken"}
      /\ latest' = IF calls[c].state = "ok" THEN {calls[c].roll} ELSE latest \cup {calls[c].roll}
      /\ calls' = [calls EXCEPT ![c] = NoCall]
      /\ UNCHANGED <<serverVars, coverage, queue, serving, failures, saved, mixed>>
    BY DEF NetInv, PageAnswered
<1>2. UNCHANGED <<roll, pc, asked>>
    BY <1>1 DEF serverVars, request
<1>3. /\ calls' \in [Calls -> CallRow \cup {NoCall}]
      /\ calls'[c] = NoCall /\ \A d \in Calls : d # c => calls'[d] = calls[d]
    BY <1>1, CallSet
<1>4. calls[c] \in CallRow /\ ~Free(c) /\ calls[c].roll \in Rolls /\ PageWaits
    BY <1>1, CallIs DEF CallRow, PageWaits
<1>5. NoCall.from = "nobody" /\ NoCall.state = "none"
    BY DEF NoCall
<1>6. CallsOK'
    <2>1. latest' \subseteq Rows
        BY <1>1, <1>4, RollIs DEF CallsOK
    <2>2. \A d \in Calls : calls'[d].state = "listed" => calls'[d].from = "flush"
        BY <1>1, <1>3, <1>5 DEF CallsOK
    <2>3. \A p \in Procs : serving'[p] \in Calls =>
            calls'[serving'[p]].state = "received" /\ calls'[serving'[p]].roll = asked'[p]
        BY <1>1, <1>2, <1>3 DEF CallsOK
    <2> QED BY <1>1, <1>3, <2>1, <2>2, <2>3 DEF CallsOK
<1>7. ServedOnce' /\ PageOnce' /\ TabsOK'
    BY <1>1, <1>3, <1>5, PagesStay, TabsStay DEF ServedOnce
<1>8. SavesKept'
    <2> SUFFICES ASSUME "save" \notin mixed PROVE saved # <<>> /\ OnTheWay' /\ Known'
        BY <1>1 DEF SavesKept
    <2>1. saved # <<>> /\ OnTheWay /\ Known /\ calls[c].roll = Last /\ Last' = Last
        BY <1>1, <1>4, SavedIs DEF OnTheWay, Last
    <2>2. OnTheWay'
        BY <1>1, <1>2, <1>3, <1>5, <2>1 DEF OnTheWay, Free
    <2>3. ~PageWaits'
        BY <1>1, <1>3, <1>4, <1>5, <2>1 DEF PageWaits, Known
    <2>4. Last \in latest'
        BY <1>1, <2>1
    <2>5. roll \in latest'
        <3>1. CASE calls[c].state = "ok"
            BY <1>1, <2>1, <3>1 DEF OnTheWay
        <3>2. CASE calls[c].state # "ok"
            BY <1>1, <1>4, <2>1, <3>2 DEF Known
        <3> QED BY <3>1, <3>2
    <2>6. Known'
        BY <1>2, <2>1, <2>3, <2>4, <2>5 DEF Known
    <2> QED BY <2>1, <2>2, <2>6
<1> QED BY <1>6, <1>7, <1>8 DEF NetInv

----------------------------------------------------------------------------
(* The flush                                                                 *)

LEMMA CoverageChanges ==
    ASSUME ServerInv, NetInv, TabsOK',
           UNCHANGED <<roll, pc, asked, queue, calls, serving, failures, history>>
    PROVE  NetInv'
<1>1. CallsOK /\ ServedOnce /\ PageOnce /\ SavesKept /\ UNCHANGED <<saved, latest, mixed>>
    BY DEF NetInv, history
<1>2. CallsOK'
    BY <1>1 DEF CallsOK
<1>3. ServedOnce' /\ PageOnce'
    BY <1>1 DEF ServedOnce, PageOnce, OnePage
<1>4. SavesKept'
    BY <1>1 DEF SavesKept, NothingSaved, OnTheWay, Known, Last, PageWaits, Free, Busy
<1> QED BY <1>2, <1>3, <1>4 DEF NetInv

LEMMA CoverageSteps ==
    ASSUME ServerInv, NetInv, GoOffline \/ GoOnline \/ \E t \in Tabs : ListNothing(t)
    PROVE  NetInv'
<1>1. UNCHANGED <<roll, pc, asked, queue, calls, serving, failures, history>>
    BY DEF GoOffline, GoOnline, ListNothing, serverVars, request
<1>2. TabsOK'
    <2>1. CASE GoOffline
        BY <1>1, <2>1 DEF NetInv, TabsOK, GoOffline
    <2>2. CASE GoOnline
        BY <1>1, <2>2 DEF NetInv, TabsOK, GoOnline
    <2>3. CASE \E t \in Tabs : ListNothing(t)
        BY <1>1, <2>3 DEF NetInv, TabsOK, ListNothing
    <2> QED BY <2>1, <2>2, <2>3
<1> QED BY <1>1, <1>2, CoverageChanges

(* A tab that is opened anew forgets its calls: what its page posted may or  *)
(* may not be stored, as far as the teacher knows.                           *)
LEMMA LoadStep ==
    ASSUME ServerInv, NetInv, NEW t \in Tabs, Load(t)
    PROVE  NetInv'
<1>1. /\ CallsOK /\ TabsOK /\ ServedOnce /\ PageOnce /\ SavesKept
      /\ calls' = [c \in Calls |-> IF c \in Of(t) THEN NoCall ELSE calls[c]]
      /\ serving' = [p \in Procs |-> IF serving[p] \in Of(t) THEN NoCall ELSE serving[p]]
      /\ fresh' = IF online THEN fresh ELSE fresh \cup {t}
      /\ heard' = heard \ {t} /\ online' = online
      /\ latest' = latest \cup {calls[c].roll : c \in OfPage(t)}
      /\ UNCHANGED <<roll, pc, asked, queue, saved, mixed>>
    BY DEF NetInv, Load, serverVars, request
<1>2. /\ NoCall.from = "nobody" /\ NoCall.state = "none" /\ NoCall.tab \notin Tabs /\ NoCall \notin Calls
    BY RollIs DEF NoCall
<1>3. \A c \in Calls : IF calls[c].tab = t THEN calls'[c] = NoCall ELSE calls'[c] = calls[c]
    BY <1>1 DEF Of
<1>4. \A p \in Procs : serving'[p] \in Calls => serving'[p] = serving[p] /\ calls[serving[p]].tab # t
    BY <1>1, <1>2 DEF Of, CallsOK
<1>5. \A c \in OfPage(t) : c \in Calls /\ ~Free(c) /\ calls[c].roll \in Rolls /\ calls[c].from = "page"
    BY <1>1, CallIs DEF OfPage, Of, CallRow
<1>6. CallsOK'
    <2>1. calls' \in [Calls -> CallRow \cup {NoCall}]
        BY <1>1 DEF CallsOK
    <2>2. serving' \in [Procs -> Calls \cup {NoCall}]
        BY <1>1 DEF CallsOK
    <2>3. latest' \subseteq Rows
        BY <1>1, <1>5, RollIs DEF CallsOK
    <2>4. failures' \in 0..MaxFailures
        <3>1. failures \in 0..MaxFailures /\ MaxFailures \in Nat
            BY <1>1, OfflineAssumptions DEF OfflineAssumptions, CallsOK
        <3>2. failures' = failures \/ (failures < MaxFailures /\ failures' = failures + 1)
            BY DEF Load, Fail
        <3> QED BY <3>1, <3>2
    <2>5. \A d \in Calls : calls'[d].state = "listed" => calls'[d].from = "flush"
        BY <1>1, <1>2, <1>3 DEF CallsOK
    <2>6. \A p \in Procs : serving'[p] \in Calls =>
            calls'[serving'[p]].state = "received" /\ calls'[serving'[p]].roll = asked'[p]
        BY <1>1, <1>3, <1>4 DEF CallsOK
    <2> QED BY <1>1, <2>1, <2>2, <2>3, <2>4, <2>5, <2>6 DEF CallsOK
<1>7. TabsOK'
    BY <1>1, <1>2, <1>3 DEF TabsOK
<1>8. ServedOnce' /\ PageOnce'
    BY <1>1, <1>2, <1>3, <1>4, PagesStay DEF ServedOnce
<1>9. SavesKept'
    <2> SUFFICES ASSUME "save" \notin mixed
                 PROVE  IF saved = <<>> THEN NothingSaved' ELSE OnTheWay' /\ Known'
        BY <1>1 DEF SavesKept
    <2>1. \A c \in Calls : Free(c) => Free(c)'
        BY <1>3 DEF Free
    <2>2. CASE saved = <<>>
        BY <1>1, <2>1, <2>2 DEF SavesKept, NothingSaved, Busy
    <2>3. CASE saved # <<>>
        <3>1. OnTheWay /\ Known /\ Last' = Last
            BY <1>1, <2>3 DEF SavesKept, Last
        <3>2. OnTheWay'
            BY <1>1, <1>2, <1>3, <3>1 DEF OnTheWay, Free
        <3>3. \A d \in Calls : calls'[d].from # "nobody" => calls'[d].from = calls[d].from /\ calls[d].tab # t
            BY <1>2, <1>3
        <3>4. CASE OfPage(t) = {}
            <4>1. latest' = latest
                BY <1>1, <3>4
            <4>2. PageWaits' <=> PageWaits
                BY <1>2, <1>3, <3>4 DEF PageWaits, OfPage, Of
            <4>3. ASSUME PageWaits PROVE Known'
                <5>1. /\ \A c \in Calls : calls'[c].from # "flush"
                      /\ \A c, d \in Calls : calls'[c].from = "page" /\ calls'[d].from = "page" => c = d
                    BY <3>1, <3>3, <4>3 DEF Known
                <5> QED BY <1>1, <3>1, <4>1, <4>2, <4>3, <5>1 DEF Known
            <4>4. ASSUME ~PageWaits PROVE Known'
                BY <1>1, <3>1, <4>1, <4>2, <4>4 DEF Known
            <4> QED BY <2>3, <3>2, <4>3, <4>4
        <3>5. CASE OfPage(t) # {}
            <4>1. PICK c \in OfPage(t) : TRUE
                BY <3>5
            <4>2. PageWaits /\ calls[c].roll = Last
                BY <1>5, <3>1, <4>1 DEF PageWaits, OnTheWay
            <4>3. Last \in latest' /\ roll \in latest'
                BY <1>1, <3>1, <4>1, <4>2 DEF Known
            <4>4. c \in Calls /\ calls[c].from = "page" /\ calls[c].tab = t
                BY <4>1 DEF OfPage, Of
            <4>5. \A d \in Calls : calls[d].from = "page" => d = c
                BY <3>1, <4>2, <4>4 DEF Known
            <4>6. ~PageWaits'
                BY <3>3, <4>4, <4>5 DEF PageWaits
            <4>7. Known'
                BY <1>1, <3>1, <4>3, <4>6 DEF Known
            <4> QED BY <2>3, <3>2, <4>7
        <3> QED BY <3>4, <3>5
    <2> QED BY <2>2, <2>3
<1> QED BY <1>6, <1>7, <1>8, <1>9 DEF NetInv

(* What is listed is what was saved last, and the page waits for nothing.    *)
LEMMA ListStep ==
    ASSUME ServerInv, NetInv, NEW t \in Tabs, NEW c \in Calls, List(t, c)
    PROVE  NetInv'
<1> DEFINE call == [from |-> "flush", tab |-> t, roll |-> queue, state |-> "listed"]
<1>1. /\ CallsOK /\ TabsOK /\ ServedOnce /\ PageOnce /\ SavesKept
      /\ online /\ queue # NoRoll /\ Free(c) /\ heard' = heard \ {t}
      /\ calls' = [calls EXCEPT ![c] = call]
      /\ UNCHANGED <<online, fresh, queue, serving, failures>>
      /\ UNCHANGED <<roll, pc, asked, saved, latest, mixed>>
    BY DEF NetInv, List, history, serverVars, request
<1>2. call \in CallRow /\ call.from = "flush" /\ call.state = "listed" /\ call.roll = queue
    BY <1>1 DEF CallRow, CallStates, CallsOK
<1> HIDE DEF call
<1>3. /\ calls' \in [Calls -> CallRow \cup {NoCall}]
      /\ calls'[c] = call /\ \A d \in Calls : d # c => calls'[d] = calls[d]
    BY <1>1, <1>2, CallSet
<1>4. calls[c].state = "none"
    BY <1>1, CallIs
<1>5. CallsOK'
    <2>1. \A d \in Calls : calls'[d].state = "listed" => calls'[d].from = "flush"
        BY <1>1, <1>2, <1>3 DEF CallsOK
    <2>2. \A p \in Procs : serving[p] \in Calls => serving[p] # c
        BY <1>1, <1>4 DEF CallsOK
    <2>3. \A p \in Procs : serving'[p] \in Calls =>
            calls'[serving'[p]].state = "received" /\ calls'[serving'[p]].roll = asked'[p]
        BY <1>1, <1>3, <2>2 DEF CallsOK
    <2> QED BY <1>1, <1>3, <2>1, <2>3 DEF CallsOK
<1>6. ServedOnce' /\ PageOnce' /\ TabsOK'
    <2>1. PageOnce'
        BY <1>1, <1>2, <1>3, PagesStay
    <2>2. TabsOK'
        BY <1>1 DEF TabsOK
    <2> QED BY <1>1, <2>1, <2>2 DEF ServedOnce
<1>7. SavesKept'
    <2> SUFFICES ASSUME "save" \notin mixed PROVE saved # <<>> /\ OnTheWay' /\ Known'
        BY <1>1 DEF SavesKept
    <2>1. saved # <<>> /\ OnTheWay /\ Known /\ queue = Last /\ ~PageWaits /\ Last' = Last
        BY <1>1, SavedIs DEF OnTheWay, Known, Last
    <2>2. OnTheWay'
        BY <1>1, <1>2, <1>3, <2>1 DEF OnTheWay, Free
    <2>3. ~PageWaits'
        BY <1>2, <1>3, <2>1 DEF PageWaits
    <2>4. Known'
        BY <1>1, <2>1, <2>3 DEF Known
    <2> QED BY <2>1, <2>2, <2>4
<1> QED BY <1>5, <1>6, <1>7 DEF NetInv

(* A flushed entry leaves the queue for the rows, or goes back to it.        *)
LEMMA FlushOver ==
    ASSUME ServerInv, NetInv, NEW c \in Calls, calls[c].from = "flush",
           calls[c].state # "received",
           calls' = [calls EXCEPT ![c] = NoCall],
           \/ queue' = NoRoll /\ calls[c].state = "ok"
           \/ queue' = calls[c].roll
           \/ queue' = queue,
           failures' \in 0..MaxFailures,
           UNCHANGED <<roll, pc, asked, coverage, serving, history>>
    PROVE  NetInv'
<1>1. /\ CallsOK /\ TabsOK /\ ServedOnce /\ PageOnce /\ SavesKept /\ UNCHANGED <<saved, latest, mixed>>
    BY DEF NetInv, history
<1>2. /\ calls' \in [Calls -> CallRow \cup {NoCall}]
      /\ calls'[c] = NoCall /\ \A d \in Calls : d # c => calls'[d] = calls[d]
    BY <1>1, CallSet
<1>3. calls[c] \in CallRow /\ ~Free(c) /\ calls[c].roll \in Rolls
    BY <1>1, CallIs DEF CallRow
<1>4. NoCall.from = "nobody" /\ NoCall.state = "none"
    BY DEF NoCall
<1>5. CallsOK'
    <2>1. queue' \in Rolls \cup {NoRoll}
        BY <1>1, <1>3 DEF CallsOK
    <2>2. \A d \in Calls : calls'[d].state = "listed" => calls'[d].from = "flush"
        BY <1>1, <1>2, <1>4 DEF CallsOK
    <2>3. \A p \in Procs : serving'[p] \in Calls =>
            calls'[serving'[p]].state = "received" /\ calls'[serving'[p]].roll = asked'[p]
        BY <1>1, <1>2 DEF CallsOK
    <2> QED BY <1>1, <1>2, <2>1, <2>2, <2>3 DEF CallsOK
<1>6. ServedOnce' /\ PageOnce' /\ TabsOK'
    BY <1>1, <1>2, <1>4, PagesStay, TabsStay DEF ServedOnce
<1>7. SavesKept'
    <2> SUFFICES ASSUME "save" \notin mixed PROVE saved # <<>> /\ OnTheWay' /\ Known'
        BY <1>1 DEF SavesKept
    <2>1. saved # <<>> /\ OnTheWay /\ Known /\ calls[c].roll = Last /\ Last' = Last
        BY <1>1, <1>3, SavedIs DEF OnTheWay, Last
    <2>2. ~PageWaits /\ Last \in latest /\ (roll \in latest \/ queue = Last)
        BY <2>1 DEF Known
    <2>3. ~PageWaits'
        BY <1>2, <1>4, <2>2 DEF PageWaits
    <2>4. OnTheWay'
        BY <1>1, <1>2, <1>4, <2>1 DEF OnTheWay, Free
    <2>5. calls[c].state = "ok" => roll = Last
        BY <2>1 DEF OnTheWay
    <2>6. Known'
        BY <1>1, <2>1, <2>2, <2>3, <2>5 DEF Known
    <2> QED BY <2>1, <2>4, <2>6
<1> QED BY <1>5, <1>6, <1>7 DEF NetInv

(* The steps of the browser and of the network before a request arrives.     *)
LEMMA CallSteps ==
    ASSUME ServerInv, NetInv, NEW c \in Calls,
           \/ FlushSends(c) \/ FlushStops(c) \/ FlushAnswered(c) \/ Refuse(c) \/ Break(c)
    PROVE  NetInv'
<1>1. /\ CallsOK /\ failures \in 0..MaxFailures /\ MaxFailures \in Nat
      /\ {"sent", "error", "broken"} \subseteq CallStates \ {"ok", "listed"}
    BY OfflineAssumptions DEF OfflineAssumptions, NetInv, CallsOK, CallStates
<1>2. Fail => failures' \in 0..MaxFailures
    BY <1>1 DEF Fail
<1>3. UNCHANGED serverVars => UNCHANGED <<roll, pc, asked>>
    BY DEF serverVars, request
<1>4. calls[c].state \in {"listed", "sent", "received", "ok", "error", "broken"} => ~Free(c)
    BY <1>1, CallIs DEF CallStates
<1>5. CASE FlushSends(c)
    BY <1>1, <1>3, <1>4, <1>5, CallGoesOn DEF FlushSends
<1>6. CASE FlushStops(c)
    <2>1. calls[c].from = "flush" /\ calls[c].state # "received"
        BY <1>1, <1>6 DEF FlushStops, CallsOK
    <2> QED BY <1>2, <1>3, <1>6, <2>1, FlushOver DEF FlushStops
<1>7. CASE FlushAnswered(c)
    <2>1. calls[c].from = "flush" /\ calls[c].state # "received"
        BY <1>7 DEF FlushAnswered
    <2> QED BY <1>1, <1>3, <1>7, <2>1, FlushOver DEF FlushAnswered
<1>8. CASE Refuse(c)
    BY <1>1, <1>2, <1>3, <1>4, <1>8, CallGoesOn DEF Refuse
<1>9. CASE Break(c)
    BY <1>1, <1>2, <1>3, <1>4, <1>9, CallGoesOn DEF Break
<1> QED BY <1>5, <1>6, <1>7, <1>8, <1>9

----------------------------------------------------------------------------
(* The server, asked by the page and the queue                               *)

(* Nothing more is alerted, and nothing more is due.                         *)
LEMMA AlertsStand ==
    ASSUME AlertInv, OneAtATime', mixed \subseteq mixed', saved' = saved,
           mixed' = {} => \A s \in Students : AlertJobs(s)' = AlertJobs(s) /\ (Due(s)' => Due(s))
    PROVE  AlertInv'
<1>1. ASSUME mixed' = {}, NEW s \in Students PROVE AlertedOnce(s)'
    <2>1. AlertedOnce(s) /\ AlertJobs(s)' = AlertJobs(s) /\ (Due(s)' => Due(s))
        BY <1>1 DEF AlertInv, AlertsOnce
    <2>2. SavedAbsent(s)' = SavedAbsent(s)
        BY DEF SavedAbsent
    <2> QED BY <2>1, <2>2 DEF AlertedOnce
<1> QED BY <1>1 DEF AlertInv, AlertsOnce

LEMMA ReceiveStep ==
    ASSUME OfflineInv, NEW p \in Procs, NEW c \in Calls, Receive(p, c)
    PROVE  NetInv' /\ AlertInv'
<1>1. /\ ServerInv /\ CallsOK /\ TabsOK /\ ServedOnce /\ PageOnce /\ SavesKept /\ AlertInv
      /\ calls[c].state = "sent"
      /\ Post(p, calls[c].roll) /\ calls' = Becoming(c, "received")
      /\ serving' = [serving EXCEPT ![p] = c]
      /\ mixed' = IF Busy # {} THEN mixed \cup {"post"} ELSE mixed
      /\ UNCHANGED <<coverage, queue, failures, saved, latest>>
    BY DEF OfflineInv, NetInv, Receive
<1>2. ~Free(c) /\ calls[c].roll \in Rolls
    BY <1>1, CallIs DEF CallStates, CallRow
<1>3. /\ pc[p] = "idle" /\ pc'[p] = "read" /\ asked'[p] = calls[c].roll /\ UNCHANGED <<roll, before, jobs>>
      /\ \A q \in Procs : q # p => pc'[q] = pc[q] /\ asked'[q] = asked[q]
    BY <1>1 DEF ServerInv, ServerTypeOK, Post
<1>4. "received" \in CallStates
    BY DEF CallStates
<1>5. /\ calls' \in [Calls -> CallRow \cup {NoCall}]
      /\ calls'[c].state = "received" /\ \A d \in Calls : d # c => calls'[d] = calls[d]
      /\ \A d \in Calls : SameCall(d)
      /\ \A d \in Calls : Free(d)' <=> Free(d)
      /\ PageWaits' <=> PageWaits
    BY <1>1, <1>2, <1>4, CallBecomes
<1>6. /\ serving'[p] = c /\ \A q \in Procs : q # p => serving'[q] = serving[q]
      /\ serving' \in [Procs -> Calls \cup {NoCall}]
      /\ \A q \in Procs : serving[q] # c
    BY <1>1 DEF CallsOK
<1>7. CallsOK'
    <2>1. \A d \in Calls : calls'[d].state = "listed" => calls'[d].from = "flush"
        BY <1>1, <1>5 DEF CallsOK, SameCall
    <2>2. ASSUME NEW q \in Procs, serving'[q] \in Calls
          PROVE  calls'[serving'[q]].state = "received" /\ calls'[serving'[q]].roll = asked'[q]
        <3>1. CASE q = p
            BY <1>3, <1>5, <1>6, <3>1 DEF SameCall
        <3>2. CASE q # p
            BY <1>1, <1>3, <1>5, <1>6, <2>2, <3>2 DEF CallsOK, SameCall
        <3> QED BY <3>1, <3>2
    <2>3. mixed' \subseteq {"save", "post"}
        BY <1>1 DEF CallsOK
    <2> QED BY <1>1, <1>5, <1>6, <2>1, <2>2, <2>3 DEF CallsOK
<1>8. ServedOnce' /\ PageOnce' /\ TabsOK'
    BY <1>1, <1>5, <1>6, PagesStay, TabsStay DEF ServedOnce, SameCall
<1>9. SavesKept'
    <2> SUFFICES ASSUME "save" \notin mixed PROVE saved # <<>> /\ OnTheWay' /\ Known'
        BY <1>1 DEF SavesKept
    <2>1. saved # <<>> /\ OnTheWay /\ Known /\ calls[c].roll = Last /\ Last' = Last
        BY <1>1, <1>2, SavedIs DEF OnTheWay, Last
    <2>2. OnTheWay'
        BY <1>1, <1>3, <1>5, <2>1 DEF OnTheWay, SameCall
    <2>3. Known'
        BY <1>1, <1>3, <1>5, <2>1 DEF Known, SameCall
    <2> QED BY <2>1, <2>2, <2>3
<1>10. OneAtATime' /\ mixed \subseteq mixed'
    BY <1>1, <1>3 DEF AlertInv, OneAtATime, Busy
<1>11. \A s \in Students : AlertJobs(s)' = AlertJobs(s) /\ (Due(s)' => Due(s))
    BY <1>1, <1>3 DEF AlertJobs, Due, Last
<1> QED BY <1>1, <1>7, <1>8, <1>9, <1>10, <1>11, AlertsStand DEF NetInv

(* The request reads what is there, then writes what it was asked.           *)
LEMMA RequestWorks ==
    ASSUME OfflineInv, NEW p \in Procs, ReadBefore(p) \/ Upsert(p),
           UNCHANGED <<calls, serving, coverage, queue, failures, history>>
    PROVE  NetInv' /\ AlertInv'
<1>1. /\ ServerInv /\ CallsOK /\ TabsOK /\ ServedOnce /\ PageOnce /\ SavesKept /\ AlertInv
      /\ UNCHANGED <<saved, latest, mixed>>
    BY DEF OfflineInv, NetInv, history
<1>2. /\ pc[p] \in {"read", "write"} /\ pc'[p] \in {"write", "hand_over"} /\ UNCHANGED <<asked, jobs>>
      /\ \A q \in Procs : q # p => pc'[q] = pc[q] /\ before'[q] = before[q]
      /\ pc'[p] = "write" => pc[p] = "read" /\ roll' = roll /\ before'[p] = roll
      /\ pc'[p] = "hand_over" => pc[p] = "write" /\ roll' = asked[p] /\ before'[p] = before[p]
    BY <1>1 DEF ServerInv, ServerTypeOK, ReadBefore, Upsert
<1>3. CallsOK'
    BY <1>1, <1>2 DEF CallsOK
<1>4. ServedOnce' /\ PageOnce' /\ TabsOK'
    BY <1>1, TabsStay DEF ServedOnce, PageOnce, OnePage
<1>5. ASSUME "save" \notin mixed
      PROVE  saved # <<>> /\ OnTheWay /\ Known /\ asked[p] = Last /\ (roll' = roll \/ roll' = Last)
    BY <1>1, <1>2, <1>5, SavedIs DEF OnTheWay
<1>6. SavesKept'
    <2> SUFFICES ASSUME "save" \notin mixed PROVE saved # <<>> /\ OnTheWay' /\ Known'
        BY <1>1 DEF SavesKept
    <2>1. Last' = Last
        BY <1>1 DEF Last
    <2>2. OnTheWay'
        BY <1>1, <1>2, <1>5, <2>1 DEF OnTheWay, Free
    <2>3. Known'
        BY <1>1, <1>5, <2>1 DEF Known, PageWaits
    <2> QED BY <1>5, <2>2, <2>3
<1>7. OneAtATime'
    BY <1>1, <1>2 DEF AlertInv, OneAtATime
<1>8. ASSUME mixed = {}, NEW s \in Students
      PROVE  AlertJobs(s)' = AlertJobs(s) /\ (Due(s)' => Due(s))
    <2>1. AlertJobs(s)' = AlertJobs(s)
        BY <1>2 DEF AlertJobs
    <2>2. Last' = Last /\ asked[p] = Last
        BY <1>1, <1>5, <1>8 DEF Last
    <2>3. ASSUME Due(s)' PROVE Due(s)
        <3>1. saved # <<>> /\ Last[s] = "ABSENT"
            BY <1>1, <2>2, <2>3 DEF Due
        <3>2. CASE roll'[s] # "ABSENT"
            <4>1. roll[s] # "ABSENT"
                BY <1>2, <2>2, <3>1, <3>2
            <4> QED BY <3>1, <4>1 DEF Due
        <3>3. CASE \E q \in Procs : pc'[q] \in {"write", "hand_over"} /\ before'[q][s] # "ABSENT"
            <4>1. PICK q \in Procs : pc'[q] \in {"write", "hand_over"} /\ before'[q][s] # "ABSENT"
                BY <3>3
            <4>2. CASE q # p
                BY <1>2, <3>1, <4>1, <4>2 DEF Due
            <4>3. CASE q = p /\ pc'[p] = "write"
                BY <1>2, <3>1, <4>1, <4>3 DEF Due
            <4>4. CASE q = p /\ pc'[p] = "hand_over"
                BY <1>2, <3>1, <4>1, <4>4 DEF Due
            <4> QED BY <1>2, <4>2, <4>3, <4>4
        <3> QED BY <2>3, <3>2, <3>3 DEF Due
    <2> QED BY <2>1, <2>3
<1>9. mixed \subseteq mixed' /\ saved' = saved
    BY <1>1
<1>10. mixed' = {} => \A s \in Students : AlertJobs(s)' = AlertJobs(s) /\ (Due(s)' => Due(s))
    BY <1>1, <1>8
<1> QED BY <1>1, <1>3, <1>4, <1>6, <1>7, <1>9, <1>10, AlertsStand DEF NetInv

(* A request is over, and whoever still waits for it is told.                *)
LEMMA Answered ==
    ASSUME ServerInv, NetInv, NEW p \in Procs, pc[p] # "idle", NEW state \in {"ok", "error"},
           Finish(p), Answer(p, state), roll' = roll, state = "ok" => pc[p] = "hand_over",
           UNCHANGED <<coverage, queue, history>>, failures' \in 0..MaxFailures
    PROVE  NetInv'
<1>1. /\ CallsOK /\ TabsOK /\ ServedOnce /\ PageOnce /\ SavesKept /\ UNCHANGED <<saved, latest, mixed>>
      /\ state \in CallStates /\ state # "listed"
    BY DEF NetInv, history, CallStates
<1>2. /\ pc'[p] = "idle"
      /\ \A q \in Procs : q # p => pc'[q] = pc[q] /\ asked'[q] = asked[q]
    BY DEF ServerInv, ServerTypeOK, Finish
<1>3. /\ serving' \in [Procs -> Calls \cup {NoCall}]
      /\ serving'[p] = NoCall /\ \A q \in Procs : q # p => serving'[q] = serving[q]
    BY <1>1 DEF CallsOK, Answer
<1>4. /\ calls' \in [Calls -> CallRow \cup {NoCall}]
      /\ \A d \in Calls : /\ SameCall(d)
                          /\ Free(d)' <=> Free(d)
                          /\ d = serving[p] => calls'[d].state = state
                          /\ d # serving[p] => calls'[d] = calls[d]
      /\ PageWaits' <=> PageWaits
    <2>1. CASE serving[p] \in Calls
        <3>1. PICK c \in Calls : serving[p] = c
            BY <2>1
        <3>2. ~Free(c)
            BY <1>1, <3>1, CallIs DEF CallsOK, CallStates
        <3>3. calls' = Becoming(c, state)
            BY <3>1 DEF Answer
        <3> QED BY <1>1, <3>1, <3>2, <3>3, CallBecomes
    <2>2. CASE serving[p] \notin Calls
        <3>1. calls' = calls
            BY <2>2 DEF Answer
        <3> QED BY <1>1, <2>2, <3>1 DEF CallsOK, Free, PageWaits, SameCall
    <2> QED BY <2>1, <2>2
<1>5. \A q \in Procs : serving'[q] \in Calls => q # p /\ serving'[q] = serving[q] /\ serving[q] # serving[p]
    <2>1. NoCall \notin Calls
        BY RollIs
    <2> QED BY <1>1, <1>3, <2>1 DEF ServedOnce
<1>6. CallsOK'
    <2>1. \A d \in Calls : calls'[d].state = "listed" => calls'[d].from = "flush"
        BY <1>1, <1>4 DEF CallsOK, SameCall
    <2>2. \A q \in Procs : serving'[q] \in Calls =>
            calls'[serving'[q]].state = "received" /\ calls'[serving'[q]].roll = asked'[q]
        BY <1>1, <1>2, <1>4, <1>5 DEF CallsOK, SameCall
    <2> QED BY <1>1, <1>3, <1>4, <2>1, <2>2 DEF CallsOK
<1>7. ServedOnce' /\ PageOnce' /\ TabsOK'
    BY <1>1, <1>4, <1>5, PagesStay, TabsStay DEF ServedOnce, SameCall
<1>8. SavesKept'
    <2> SUFFICES ASSUME "save" \notin mixed PROVE saved # <<>> /\ OnTheWay' /\ Known'
        BY <1>1 DEF SavesKept
    <2>1. saved # <<>> /\ OnTheWay /\ Known /\ Last' = Last
        BY <1>1, SavedIs DEF Last
    <2>2. state = "ok" => roll = Last
        BY <2>1 DEF OnTheWay
    <2>3. OnTheWay'
        BY <1>1, <1>2, <1>4, <2>1, <2>2 DEF OnTheWay, SameCall
    <2>4. Known'
        BY <1>1, <1>4, <2>1 DEF Known, SameCall
    <2> QED BY <2>1, <2>3, <2>4
<1> QED BY <1>6, <1>7, <1>8 DEF NetInv

(* A request that hands its jobs over alerts those its save is due to, once: *)
(* they are in the rows as it saved them, and nobody else is at work.        *)
LEMMA HandOverAlerts ==
    ASSUME OfflineInv, NEW p \in Procs, HandOver(p), UNCHANGED history
    PROVE  AlertInv'
<1>1. /\ ServerInv /\ ServerTypeOK /\ SavesKept /\ AlertInv
      /\ UNCHANGED <<saved, mixed, roll>>
      /\ pc[p] = "hand_over" /\ pc'[p] = "idle"
      /\ \A q \in Procs : q # p => pc'[q] = pc[q] /\ before'[q] = before[q]
    BY DEF OfflineInv, NetInv, history, HandOver, Finish, ServerInv, ServerTypeOK
<1>2. OneAtATime'
    BY <1>1 DEF AlertInv, OneAtATime
<1>3. ASSUME mixed = {}, NEW s \in Students PROVE AlertedOnce(s)'
    <2>1. /\ saved # <<>> /\ asked[p] = Last /\ roll = Last /\ Last' = Last
          /\ \A q \in Procs : q # p => pc[q] = "idle"
        <3>1. saved # <<>> /\ OnTheWay
            BY <1>1, <1>3, SavedIs
        <3> QED BY <1>1, <1>3, <3>1 DEF OnTheWay, Last, AlertInv, OneAtATime
    <2>2. ~Due(s)'
        BY <1>1, <2>1 DEF Due
    <2>3. SavedAbsent(s)' = SavedAbsent(s) /\ AlertedOnce(s)
        BY <1>1, <1>3 DEF SavedAbsent, AlertInv, AlertsOnce
    <2>4. jobs' = [j \in Jobs |-> IF j.post = post[p] /\ j.student \in NewlyAbsent(p)
                                  THEN [state |-> "handed", tries |-> 0] ELSE jobs[j]]
        BY DEF HandOver
    <2>5. CASE s \in NewlyAbsent(p)
        <3> DEFINE a == Alert(post[p], s)
        <3>1. Due(s)
            BY <1>1, <2>1, <2>5 DEF Due, NewlyAbsent, Absent
        <3>2. AlertJobs(s)' \subseteq AlertJobs(s) \cup {a}
            BY <2>4 DEF AlertJobs, Alert, Jobs
        <3>3. AlertJobs(s) \subseteq AlertsOf(s)
            BY DEF AlertJobs, AlertsOf
        <3> HIDE DEF a
        <3>4. IsFiniteSet(AlertJobs(s)) /\ Cardinality(AlertJobs(s)) \in Nat
            BY <3>3, AlertsFinite, FS_Subset, FS_CardinalityType
        <3>5. /\ IsFiniteSet(AlertJobs(s) \cup {a})
              /\ Cardinality(AlertJobs(s) \cup {a}) \in Nat
              /\ Cardinality(AlertJobs(s) \cup {a}) <= Cardinality(AlertJobs(s)) + 1
            <4>1. CASE a \in AlertJobs(s)
                <5>1. AlertJobs(s) \cup {a} = AlertJobs(s)
                    BY <4>1
                <5>2. \A n \in Nat : n <= n + 1
                    OBVIOUS
                <5>3. Cardinality(AlertJobs(s)) <= Cardinality(AlertJobs(s)) + 1
                    BY <3>4, <5>2
                <5> QED BY <3>4, <5>1, <5>3
            <4>2. CASE a \notin AlertJobs(s)
                BY <3>4, <4>2, FS_AddElement
            <4> QED BY <4>1, <4>2
        <3>6. PICK T : T = AlertJobs(s)'
            OBVIOUS
        <3>7. Cardinality(T) \in Nat /\ Cardinality(T) <= Cardinality(AlertJobs(s) \cup {a})
            BY <3>2, <3>5, <3>6, FS_Subset, FS_CardinalityType
        <3>8. Cardinality(AlertJobs(s)) + 1 <= Cardinality(SavedAbsent(s)) /\ Cardinality(SavedAbsent(s)) \in Nat
            <4>1. DOMAIN saved = 1..Len(saved) /\ Len(saved) \in Nat
                BY DEF OfflineInv, NetInv, CallsOK
            <4>2. SavedAbsent(s) \subseteq 1..Len(saved)
                BY <4>1 DEF SavedAbsent
            <4>3. IsFiniteSet(1..Len(saved))
                BY <4>1, FS_Interval
            <4>4. IsFiniteSet(SavedAbsent(s))
                BY <4>2, <4>3, FS_Subset
            <4> QED BY <2>3, <3>1, <4>4, FS_CardinalityType DEF AlertedOnce
        <3>9. Cardinality(T) <= Cardinality(SavedAbsent(s))
            BY <3>4, <3>5, <3>7, <3>8
        <3> QED BY <2>2, <2>3, <3>6, <3>9 DEF AlertedOnce
    <2>6. CASE s \notin NewlyAbsent(p)
        <3>1. AlertJobs(s)' = AlertJobs(s)
            BY <2>4, <2>6 DEF AlertJobs
        <3> QED BY <2>2, <2>3, <3>1 DEF AlertedOnce
    <2> QED BY <2>5, <2>6
<1> QED BY <1>1, <1>2, <1>3 DEF AlertInv, AlertsOnce

LEMMA RequestGoesOnStep ==
    ASSUME OfflineInv, NEW p \in Procs, RequestGoesOn(p)
    PROVE  NetInv' /\ AlertInv'
<1>1. UNCHANGED <<coverage, queue, failures, history>> /\ ServerInv /\ NetInv
    BY DEF RequestGoesOn, OfflineInv
<1>2. CASE HandOver(p) /\ Answer(p, "ok")
    <2>1. pc[p] = "hand_over" /\ Finish(p) /\ roll' = roll /\ Answer(p, "ok")
        BY <1>2 DEF HandOver
    <2>2. failures' \in 0..MaxFailures
        BY <1>1 DEF NetInv, CallsOK
    <2>3. NetInv'
        BY <1>1, <2>1, <2>2, Answered
    <2>4. AlertInv'
        BY <1>1, <1>2, HandOverAlerts
    <2> QED BY <2>3, <2>4
<1>3. CASE (ReadBefore(p) \/ Upsert(p)) /\ UNCHANGED <<calls, serving>>
    BY <1>1, <1>3, RequestWorks
<1> QED BY <1>2, <1>3 DEF RequestGoesOn

(* A request that is given up, or all of them, leaves what is due where it is. *)
LEMMA GivenUp ==
    ASSUME AlertInv, UNCHANGED <<roll, history>>,
           \A p \in Procs : pc'[p] = "idle" \/ (pc'[p] = pc[p] /\ before'[p] = before[p]),
           \A j \in Jobs : jobs'[j].state = "none" <=> jobs[j].state = "none"
    PROVE  AlertInv'
<1>1. UNCHANGED <<saved, mixed>>
    BY DEF history
<1>2. OneAtATime'
    BY <1>1 DEF AlertInv, OneAtATime
<1>3. \A s \in Students : AlertJobs(s)' = AlertJobs(s) /\ (Due(s)' => Due(s))
    BY <1>1 DEF AlertJobs, Due, Last
<1> QED BY <1>1, <1>2, <1>3, AlertsStand

LEMMA RequestFailsStep ==
    ASSUME OfflineInv, RequestFails
    PROVE  NetInv' /\ AlertInv'
<1>1. /\ ServerInv /\ ServerTypeOK /\ NetInv /\ AlertInv /\ CallsOK
      /\ UNCHANGED <<coverage, queue, history>>
    BY DEF OfflineInv, NetInv, ServerInv, RequestFails
<1>2. failures' \in 0..MaxFailures
    <2>1. failures \in 0..MaxFailures /\ MaxFailures \in Nat /\ failures < MaxFailures
          /\ failures' = failures + 1
        BY <1>1, OfflineAssumptions DEF OfflineAssumptions, CallsOK, RequestFails, Fail
    <2> QED BY <2>1
<1>3. ASSUME NEW p \in Procs, UpsertFails(p), Answer(p, "error") PROVE NetInv' /\ AlertInv'
    <2>1. /\ pc[p] = "write" /\ Finish(p) /\ UNCHANGED <<roll, jobs>>
          /\ pc'[p] = "idle" /\ \A q \in Procs : q # p => pc'[q] = pc[q] /\ before'[q] = before[q]
        BY <1>1, <1>3 DEF UpsertFails, Finish, ServerTypeOK
    <2>2. NetInv'
        BY <1>1, <1>2, <1>3, <2>1, Answered
    <2>3. AlertInv'
        BY <1>1, <2>1, GivenUp
    <2> QED BY <2>2, <2>3
<1>4. ASSUME ServerDies,
             calls' = [c \in Calls |-> IF \E p \in Procs : serving[p] = c
                                       THEN [calls[c] EXCEPT !.state = "broken"] ELSE calls[c]],
             serving' = [p \in Procs |-> NoCall]
      PROVE  NetInv' /\ AlertInv'
    <2>1. /\ TabsOK /\ ServedOnce /\ PageOnce /\ SavesKept /\ UNCHANGED <<roll, saved, latest, mixed>>
          /\ \A p \in Procs : pc'[p] = "idle"
        BY <1>1, <1>4 DEF NetInv, history, ServerDies
    <2>2. ASSUME NEW c \in Calls
          PROVE  /\ calls'[c] \in CallRow \cup {NoCall}
                 /\ SameCall(c)
                 /\ calls'[c].state = calls[c].state \/ calls'[c].state = "broken"
                 /\ Free(c)' <=> Free(c)
        <3>1. CASE \E p \in Procs : serving[p] = c
            <4>1. calls[c].state = "received"
                BY <1>1, <3>1 DEF CallsOK
            <4>2. ~Free(c) /\ calls[c] \in CallRow
                BY <1>1, <4>1, CallIs DEF CallStates
            <4>3. calls'[c] = [calls[c] EXCEPT !.state = "broken"]
                BY <1>4, <3>1
            <4>4. calls'[c] \in CallRow /\ calls'[c].state = "broken" /\ SameCall(c)
                BY <4>2, <4>3 DEF CallRow, CallStates, SameCall
            <4>5. calls'[c] # NoCall
                BY <4>4 DEF NoCall
            <4> QED BY <4>2, <4>4, <4>5 DEF Free
        <3>2. CASE ~\E p \in Procs : serving[p] = c
            <4>1. calls'[c] = calls[c]
                BY <1>4, <3>2
            <4> QED BY <1>1, <4>1 DEF CallsOK, Free, SameCall
        <3> QED BY <3>1, <3>2
    <2>3. CallsOK'
        <3>1. calls' \in [Calls -> CallRow \cup {NoCall}]
            BY <1>4, <2>2
        <3>2. \A c \in Calls : calls'[c].state = "listed" => calls'[c].from = "flush"
            BY <1>1, <2>2 DEF CallsOK, SameCall
        <3>3. serving' \in [Procs -> Calls \cup {NoCall}]
            BY <1>4
        <3>4. \A p \in Procs : serving'[p] \notin Calls
            BY <1>1, <1>4, RollIs
        <3> QED BY <1>1, <1>2, <2>1, <3>1, <3>2, <3>3, <3>4 DEF CallsOK
    <2>4. ServedOnce' /\ PageOnce' /\ TabsOK'
        <3>1. \A p \in Procs : serving'[p] \notin Calls
            BY <1>1, <1>4, RollIs
        <3> QED BY <1>1, <2>1, <2>2, <3>1, PagesStay, TabsStay DEF ServedOnce, SameCall
    <2>5. SavesKept'
        <3>1. Busy' = {}
            BY <2>1 DEF Busy
        <3>2. Last' = Last /\ (PageWaits' <=> PageWaits)
            BY <2>1, <2>2 DEF Last, PageWaits, SameCall
        <3>3. NothingSaved => NothingSaved'
            BY <1>1, <2>1, <2>2, <3>1 DEF NothingSaved
        <3>4. OnTheWay => OnTheWay'
            BY <1>1, <2>1, <2>2, <3>2 DEF OnTheWay, SameCall
        <3>5. Known => Known'
            BY <1>1, <2>1, <2>2, <3>2 DEF Known, SameCall
        <3> QED BY <2>1, <3>3, <3>4, <3>5 DEF SavesKept
    <2>6. AlertInv'
        <3>1. \A j \in Jobs : jobs'[j].state = "none" <=> jobs[j].state = "none"
            BY <1>1, <1>4 DEF ServerDies, ServerTypeOK
        <3> QED BY <1>1, <2>1, <3>1, GivenUp
    <2> QED BY <2>3, <2>4, <2>5, <2>6 DEF NetInv
<1> QED BY <1>3, <1>4 DEF RequestFails

----------------------------------------------------------------------------
(* The whole                                                                 *)

(* What the page, the queue and the network do to the server is a step of its *)
(* own specification, and nothing else.                                      *)
LEMMA StepRefines == OfflineInv /\ [OfflineNext]_offlineVars => [ServerNext]_serverVars
<1> SUFFICES ASSUME OfflineInv, [OfflineNext]_offlineVars PROVE [ServerNext]_serverVars
    OBVIOUS
<1>1. ASSUME NEW p \in Procs, NEW c \in Calls, Receive(p, c) PROVE ServerNext
    <2>1. calls[c].roll \in Rolls
        BY <1>1, CallIs DEF OfflineInv, NetInv, Receive, CallStates, CallRow
    <2> QED BY <1>1, <2>1 DEF Receive, ServerNext
<1>2. ASSUME NEW p \in Procs, RequestGoesOn(p) PROVE ServerNext
    BY <1>2 DEF RequestGoesOn, RequestStep, Internal, ServerNext
<1>3. ASSUME RequestFails PROVE ServerNext
    BY <1>3 DEF RequestFails, RequestStep, Internal, ServerNext
<1>4. ASSUME NEW t \in Tabs, NEW r \in Rolls, SaveOffline(t, r) \/ \E c \in Calls : SaveOnline(t, c, r)
      PROVE  UNCHANGED serverVars
    BY <1>4 DEF SaveOffline, SaveOnline
<1>5. ASSUME GoOffline \/ GoOnline PROVE UNCHANGED serverVars
    BY <1>5 DEF GoOffline, GoOnline
<1>6. ASSUME NEW t \in Tabs, Load(t) \/ ListNothing(t) \/ \E c \in Calls : List(t, c)
      PROVE  UNCHANGED serverVars
    BY <1>6 DEF Load, ListNothing, List
<1>7. ASSUME NEW c \in Calls, CallStep(c) \/ FlushStops(c) \/ Refuse(c) \/ Break(c)
      PROVE  UNCHANGED serverVars
    BY <1>7 DEF CallStep, PageAnswered, FlushSends, FlushAnswered, FlushStops, Refuse, Break
<1>8. CASE UNCHANGED offlineVars
    BY <1>8 DEF offlineVars
<1> QED BY <1>1, <1>2, <1>3, <1>4, <1>5, <1>6, <1>7, <1>8 DEF OfflineNext

LEMMA OfflineStart == OfflineInit => OfflineInv
<1> SUFFICES ASSUME OfflineInit PROVE OfflineInv
    OBVIOUS
<1>1. ServerInv
    BY ServerStart DEF OfflineInit
<1>2. /\ TabsOK /\ queue = NoRoll /\ failures = 0 /\ saved = <<>> /\ latest = {roll} /\ mixed = {}
      /\ calls = [c \in Calls |-> NoCall] /\ serving = [p \in Procs |-> NoCall]
      /\ \A p \in Procs : pc[p] = "idle"
      /\ \A j \in Jobs : jobs[j].state = "none"
    BY OfflineAssumptions DEF OfflineAssumptions, OfflineInit, ServerInit, TabsOK, NoCall
<1>3. NoCall.from = "nobody" /\ NoCall.state = "none" /\ NoCall \notin Calls /\ roll \in Rows
    BY <1>1, RollIs DEF NoCall
<1>4. CallsOK
    <2>1. MaxSaves \in Nat /\ MaxFailures \in Nat
        BY OfflineAssumptions DEF OfflineAssumptions
    <2>2. failures \in 0..MaxFailures /\ saved \in Seq(Rolls) /\ Len(saved) <= MaxSaves
        BY <1>2, <2>1
    <2>3. latest \subseteq Rows /\ mixed \subseteq {"save", "post"}
        BY <1>2, <1>3
    <2>4. calls \in [Calls -> CallRow \cup {NoCall}] /\ serving \in [Procs -> Calls \cup {NoCall}]
        BY <1>2
    <2> QED BY <1>2, <1>3, <2>2, <2>3, <2>4 DEF CallsOK
<1>5. ServedOnce /\ PageOnce
    <2>1. \A c \in Calls : calls[c].from = "nobody" /\ calls[c].state = "none"
        BY <1>2, <1>3
    <2>2. \A p \in Procs : serving[p] \notin Calls
        BY <1>2, <1>3
    <2>3. ServedOnce
        BY <2>1, <2>2 DEF ServedOnce
    <2>4. PageOnce
        BY <2>1 DEF PageOnce, OnePage
    <2> QED BY <2>3, <2>4
<1>6. SavesKept
    BY <1>2 DEF SavesKept, NothingSaved, Busy, Free
<1>7. OneAtATime
    BY <1>2 DEF OneAtATime
<1>8. AlertsOnce
    <2> SUFFICES ASSUME NEW s \in Students PROVE AlertedOnce(s)
        BY DEF AlertsOnce
    <2>1. AlertJobs(s) = {} /\ SavedAbsent(s) = {}
        BY <1>2 DEF AlertJobs, SavedAbsent
    <2>2. ~Due(s)
        BY <1>2 DEF Due
    <2>3. Cardinality({}) <= Cardinality({})
        BY FS_EmptySet
    <2> QED BY <2>1, <2>2, <2>3 DEF AlertedOnce
<1> QED BY <1>1, <1>2, <1>4, <1>5, <1>6, <1>7, <1>8 DEF OfflineInv, NetInv, AlertInv

LEMMA OfflineStep == OfflineInv /\ [OfflineNext]_offlineVars => OfflineInv'
<1> SUFFICES ASSUME OfflineInv, [OfflineNext]_offlineVars PROVE OfflineInv'
    OBVIOUS
<1>1. ServerInv /\ NetInv /\ AlertInv /\ CallsOK /\ queue \in Rolls \cup {NoRoll}
    BY DEF OfflineInv, NetInv, CallsOK
<1>2. ServerInv'
    BY <1>1, StepRefines, ServerStep
<1>3. ASSUME NEW t \in Tabs, NEW r \in Rolls, SaveOffline(t, r) PROVE NetInv' /\ AlertInv'
    <2>1. Saves(r, FALSE) /\ UNCHANGED serverVars /\ FALSE \in BOOLEAN
        BY <1>3 DEF SaveOffline
    <2>2. AlertInv'
        BY <1>1, <2>1, SavedMore
    <2> QED BY <1>1, <1>3, <2>2, SaveOfflineStep
<1>4. ASSUME NEW t \in Tabs, NEW r \in Rolls, NEW c \in Calls, SaveOnline(t, c, r) PROVE NetInv' /\ AlertInv'
    <2>1. Saves(r, queue # NoRoll) /\ UNCHANGED serverVars
        BY <1>4 DEF SaveOnline
    <2>2. PICK older \in BOOLEAN : older = (queue # NoRoll)
        OBVIOUS
    <2>3. Saves(r, older)
        BY <2>1, <2>2
    <2>4. AlertInv'
        BY <1>1, <2>1, <2>3, SavedMore
    <2> QED BY <1>1, <1>4, <2>4, SaveOnlineStep
<1>5. ASSUME GoOffline \/ GoOnline \/ \E t \in Tabs : ListNothing(t) PROVE NetInv' /\ AlertInv'
    <2>1. UNCHANGED <<serverVars, saved, mixed>>
        BY <1>5 DEF GoOffline, GoOnline, ListNothing, history
    <2> QED BY <1>1, <1>5, <2>1, AlertsUndisturbed, CoverageSteps
<1>10. ASSUME NEW t \in Tabs, Load(t) \/ \E c \in Calls : List(t, c) PROVE NetInv' /\ AlertInv'
    <2>1. UNCHANGED <<serverVars, saved, mixed>>
        BY <1>10 DEF Load, List, history
    <2> QED BY <1>1, <1>10, <2>1, AlertsUndisturbed, LoadStep, ListStep
<1>6. ASSUME NEW c \in Calls, CallStep(c) \/ FlushStops(c) \/ Refuse(c) \/ Break(c)
      PROVE  NetInv' /\ AlertInv'
    <2>1. UNCHANGED <<serverVars, saved, mixed>>
        BY <1>6 DEF CallStep, PageAnswered, FlushSends, FlushAnswered, FlushStops, Refuse, Break, history
    <2> QED BY <1>1, <1>6, <2>1, AlertsUndisturbed, PageAnsweredStep, CallSteps DEF CallStep
<1>7. ASSUME NEW p \in Procs, NEW c \in Calls, Receive(p, c) PROVE NetInv' /\ AlertInv'
    BY <1>7, ReceiveStep
<1>8. ASSUME NEW p \in Procs, RequestGoesOn(p) PROVE NetInv' /\ AlertInv'
    BY <1>8, RequestGoesOnStep
<1>9. CASE UNCHANGED offlineVars
    <2>1. /\ UNCHANGED <<serverVars, saved, mixed>> /\ UNCHANGED coverage
          /\ UNCHANGED <<roll, pc, asked, queue, calls, serving, failures, history>>
        BY <1>9 DEF offlineVars, serverVars, request, history
    <2>2. TabsOK'
        BY <1>1, <2>1, TabsStay DEF NetInv
    <2>3. NetInv'
        BY <1>1, <2>1, <2>2, CoverageChanges
    <2>4. AlertInv'
        BY <1>1, <2>1, AlertsUndisturbed
    <2> QED BY <1>2, <2>3, <2>4 DEF OfflineInv
<1> QED BY <1>2, <1>3, <1>4, <1>5, <1>6, <1>7, <1>8, <1>9, <1>10, RequestFailsStep DEF OfflineNext, OfflineInv

(* What is on its way is what was saved last, and what was known to be saved  *)
(* is kept, whatever fails.                                                   *)
LEMMA OfflineInvariant == OfflineSpec => []OfflineInv
<1> QED BY OfflineStart, OfflineStep, PTL DEF OfflineSpec

LEMMA OfflineInvImplies == OfflineInv => OfflineTypeOK /\ LatestKept
<1> SUFFICES ASSUME OfflineInv PROVE OfflineTypeOK /\ LatestKept
    OBVIOUS
<1>1. ServerInv /\ CallsOK /\ TabsOK /\ PageOnce /\ SavesKept /\ AlertInv
    BY DEF OfflineInv, NetInv
<1>2. ASSUME NEW t \in Tabs PROVE Cardinality(OfPage(t)) <= 1
    <2> DEFINE P == OfPage(t)
    <2>1. \A c, d \in P : c = d
        BY <1>1 DEF PageOnce, OnePage, OfPage, Of
    <2> SUFFICES Cardinality(P) <= 1
        OBVIOUS
    <2> HIDE DEF P
    <2>2. CASE P = {}
        <3>1. Cardinality({}) = 0
            BY FS_EmptySet
        <3>2. Cardinality(P) = 0
            BY <2>2, <3>1
        <3> QED BY <3>2
    <2>3. CASE P # {}
        <3>1. PICK c \in P : TRUE
            BY <2>3
        <3>2. P = {c}
            BY <2>1, <3>1
        <3>3. Cardinality({c}) = 1
            BY FS_Singleton
        <3>4. Cardinality(P) = 1
            BY <3>2, <3>3
        <3> QED BY <3>4
    <2> QED BY <2>2, <2>3
<1>3. OfflineTypeOK
    <2>1. \A t \in fresh : ~online /\ t \notin heard /\ Of(t) = {}
        BY <1>1 DEF TabsOK, Of
    <2> QED BY <1>1, <1>2, <2>1 DEF OfflineTypeOK, CallsOK, TabsOK, CallRow, ServerInv
<1>4. ReplayAlertsOnce
    BY <1>1 DEF ReplayAlertsOnce, AlertInv, AlertsOnce, AlertedOnce, SavedAbsent
<1>5. ASSUME "save" \notin mixed, ~PageWaits
      PROVE  roll \in latest \/ queue \in latest
    BY <1>1, <1>5 DEF SavesKept, NothingSaved, Known
<1> QED BY <1>3, <1>4, <1>5 DEF LatestKept

(* The page, the queue and the network are one way to use the server: roll    *)
(* calls made by teachers reach it as its own specification allows, so what   *)
(* is proved of POST api/attendance holds of replayed and repeated posts.     *)
THEOREM OfflineUsesServer == OfflineSpec => ServerSpec
<1>1. OfflineInit => ServerInit
    BY DEF OfflineInit
<1> QED BY <1>1, StepRefines, OfflineInvariant, PTL DEF OfflineSpec, ServerSpec

(* So uploads that are lost, repeated or late lose no alert either: while no  *)
(* process died, whoever is absent on record has an alert on its way or told, *)
(* and nobody gets more messages than hand-overs and retries account for.     *)
THEOREM OfflineAbsencesAreAlerted == OfflineSpec => []AbsenceAlerted
BY OfflineUsesServer, AbsencesAreAlerted, PTL

(* The variables have their types, the page waits for one answer, and the     *)
(* call a process answers is the one it was given (submit, flushQueue).       *)
THEOREM OfflineTypes == OfflineSpec => []OfflineTypeOK
<1> QED BY OfflineInvariant, OfflineInvImplies, PTL

(* What a teacher was told is saved is in the rows, in the queue or on its    *)
(* way, and replaying it alerts a guardian no more often than it was saved,   *)
(* whatever fails (queueAttendance, flushQueue, POST api/attendance).         *)
THEOREM NoSaveIsLost == OfflineSpec => []LatestKept
<1> QED BY OfflineInvariant, OfflineInvImplies, PTL
=============================================================================
