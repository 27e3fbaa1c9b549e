------------------------- MODULE BullResourcesProofs -------------------------
(***************************************************************************)
(* Proofs about BullResources, for any processes, queues and jobs, and any   *)
(* periods that leave the lateness room (BullResourcesAssumption).           *)
(*                                                                          *)
(* The argument is about three times: an interval runs before due + Late     *)
(* (IntervalsKeepUp), an entry expires half the expiry after any interval    *)
(* that keeps it is due (EntriesOutlastIntervals), and Late is no more than  *)
(* Half + Grace; so an entry that somebody keeps is never Grace past its     *)
(* expiry.  As long as nobody crashes every entry is kept by somebody, the   *)
(* cleaner finds nothing, and what is used stays (AllIsKept).                *)
(***************************************************************************)
EXTENDS BullResources, TLAPS

\* An interval that keeps an entry is due within half the expiry, and it has not
\* fallen behind.
IntervalsKeepUp ==
    \A n \in Nodes, q \in Queues :
        /\ due[n][q] <= now + Half
        /\ n \in up /\ due[n][q] # 0 => now < due[n][q] + Late

\* Every process that keeps an entry has half the expiry to push it on.
EntriesOutlastIntervals ==
    \A n \in Nodes, q \in Queues :
        due[n][q] # 0 /\ score[q] # 0 => due[n][q] + Half <= score[q]

\* Without a crash the set holds what is used, and nothing of it was picked.
AllIsKept ==
    up = Nodes => Registered = Used /\ expired = {}

IInv ==
    /\ TypeOK
    /\ IntervalsKeepUp
    /\ EntriesOutlastIntervals
    /\ AllIsKept

-----------------------------------------------------------------------------
USE BullResourcesAssumption

\* An entry that a running process keeps is not Grace past its expiry.
LEMMA KeptIsFresh ==
    ASSUME IInv, NEW q \in Used, score[q] # 0
    PROVE  q \in Queues /\ score[q] + Grace > now
  <1>1. PICK n \in up : q \in KeptBy(n)
    BY DEF Used
  <1>2. n \in Nodes /\ q \in Queues /\ due[n][q] # 0
    BY <1>1 DEF KeptBy, IInv, TypeOK
  <1>3. now < due[n][q] + Late /\ due[n][q] + Half <= score[q]
    BY <1>1, <1>2 DEF IInv, IntervalsKeepUp, EntriesOutlastIntervals
  <1>4. due[n][q] \in Nat /\ score[q] \in Nat /\ now \in Nat
    BY <1>2 DEF IInv, TypeOK, Times, Expiry
  <1> QED
    BY <1>2, <1>3, <1>4 DEF BullResourcesAssumption

\* What the cleaner finds, nobody keeps.
LEMMA CleanerFindsUnused ==
    ASSUME IInv, CleanRead, NEW q \in expired'
    PROVE  q \in Registered /\ q \notin Used
  <1>1. q \in Registered /\ score[q] <= now - Grace /\ now >= Grace
    BY DEF CleanRead
  <1>2. score[q] # 0 /\ score[q] \in Nat /\ now \in Nat
    BY <1>1 DEF Registered, IInv, TypeOK, Times, Expiry
  <1>3. ~ (score[q] + Grace > now)
    BY <1>1, <1>2
  <1> QED
    BY <1>1, <1>2, <1>3, KeptIsFresh

-----------------------------------------------------------------------------
LEMMA InitIInv == Init => IInv
  <1> SUFFICES ASSUME Init PROVE IInv
    OBVIOUS
  <1>1. TypeOK
    <2>1. 0 \in Times /\ 1 \in 0..MaxTime
      BY DEF Times, Expiry
    <2>2. score \in [Queues -> Times] /\ due \in [Nodes -> [Queues -> Times]]
      BY <2>1 DEF Init
    <2>3. queues \in [Nodes -> SUBSET Queues] /\ jobs \in [Queues -> SUBSET Jobs]
      BY DEF Init
    <2> QED
      BY <2>1, <2>2, <2>3 DEF Init, TypeOK
  <1>2. IntervalsKeepUp /\ EntriesOutlastIntervals
    BY DEF Init, IntervalsKeepUp, EntriesOutlastIntervals
  <1>3. AllIsKept
    BY DEF Init, AllIsKept, Registered, Used, KeptBy
  <1> QED
    BY <1>1, <1>2, <1>3 DEF IInv

\* Time goes on as far as the intervals let it.
LEMMA TickKeepsIInv == ASSUME IInv, Tick PROVE IInv'
  <1> USE DEF Tick, processVars, bullVars, removerVars
  <1>1. TypeOK'
    BY DEF IInv, TypeOK, Times, Expiry
  <1>2. IntervalsKeepUp'
    <2> SUFFICES ASSUME NEW n \in Nodes, NEW q \in Queues
                 PROVE  /\ due[n][q] <= now + 1 + Half
                        /\ n \in up /\ due[n][q] # 0 => now + 1 < due[n][q] + Late
      BY DEF IntervalsKeepUp
    <2>1. now \in Nat /\ due[n][q] \in Nat /\ due[n][q] <= now + Half
      BY DEF IInv, TypeOK, IntervalsKeepUp, Times, Expiry
    <2> QED
      BY <2>1
  <1>3. EntriesOutlastIntervals' /\ AllIsKept'
    BY DEF IInv, EntriesOutlastIntervals, AllIsKept, Registered, Used, KeptBy
  <1> QED
    BY <1>1, <1>2, <1>3 DEF IInv

\* Pushing an entry on, and perhaps the interval of the process that does.
LEMMA PushKeepsIInv ==
    ASSUME IInv, NEW n \in up, NEW q \in Queues, SetTemp(q),
           due' = [due EXCEPT ![n][q] = now + Half] \/ (due[n][q] # 0 /\ due' = due),
           storing' \subseteq storing,
           UNCHANGED <<now, queues, adding, bullVars, expired, removerVars, up>>
    PROVE  IInv'
  <1> USE DEF bullVars, removerVars
  <1>0. n \in Nodes
    BY DEF IInv, TypeOK
  <1>1. now \in 0..MaxTime /\ now + Half \in Times /\ now + Half # 0
        /\ now + Expiry \in Times /\ now + Expiry # 0
    BY DEF IInv, TypeOK, Times, Expiry
  <1>2. \A m \in Nodes, r \in Queues :
            due'[m][r] = IF m = n /\ r = q /\ due' # due THEN now + Half ELSE due[m][r]
    BY <1>0 DEF IInv, TypeOK
  <1>3. \A r \in Queues : score'[r] = IF r = q THEN now + Expiry ELSE score[r]
    BY DEF SetTemp, IInv, TypeOK
  <1>4. TypeOK'
    <2>1. score' \in [Queues -> Times]
      BY <1>1 DEF SetTemp, IInv, TypeOK
    <2>2. due \in [Nodes -> [Queues -> Times]]
      BY DEF IInv, TypeOK
    <2>3. due' \in [Nodes -> [Queues -> Times]]
      BY <1>0, <1>1, <2>2
    <2> QED
      BY <2>1, <2>3 DEF IInv, TypeOK
  <1>5. IntervalsKeepUp'
    <2> SUFFICES ASSUME NEW m \in Nodes, NEW r \in Queues
                 PROVE  /\ due'[m][r] <= now + Half
                        /\ m \in up /\ due'[m][r] # 0 => now < due'[m][r] + Late
      BY DEF IntervalsKeepUp
    <2> QED
      BY <1>1, <1>2 DEF IInv, IntervalsKeepUp
  <1>6. EntriesOutlastIntervals'
    <2> SUFFICES ASSUME NEW m \in Nodes, NEW r \in Queues, due'[m][r] # 0, score'[r] # 0
                 PROVE  due'[m][r] + Half <= score'[r]
      BY DEF EntriesOutlastIntervals
    <2>1. due[m][r] \in Nat /\ due[m][r] <= now + Half
      BY DEF IInv, TypeOK, IntervalsKeepUp, Times, Expiry
    <2>2. CASE r = q
      <3>1. due'[m][r] <= now + Half /\ due'[m][r] \in Nat
        BY <1>1, <1>2, <2>1 DEF Times, Expiry
      <3> QED
        BY <1>1, <1>3, <2>2, <3>1 DEF Expiry
    <2>3. CASE r # q
      <3>1. due'[m][r] = due[m][r] /\ score'[r] = score[r]
        BY <1>2, <1>3, <2>3
      <3> QED
        BY <3>1 DEF IInv, EntriesOutlastIntervals
    <2> QED
      BY <2>2, <2>3
  <1>7. AllIsKept'
    <2>1. Registered' = Registered \cup {q}
      BY <1>1, <1>3 DEF Registered
    <2>2. \A m \in Nodes : KeptBy(m)' = IF m = n THEN KeptBy(m) \cup {q} ELSE KeptBy(m)
      <3> SUFFICES ASSUME NEW m \in Nodes, NEW r \in Queues
                   PROVE  due'[m][r] # 0 <=> (due[m][r] # 0 \/ (m = n /\ r = q))
        BY DEF KeptBy
      <3>1. CASE due' = [due EXCEPT ![n][q] = now + Half]
        BY <1>0, <1>1, <3>1 DEF IInv, TypeOK
      <3>2. CASE due[n][q] # 0 /\ due' = due
        BY <3>2
      <3> QED
        BY <3>1, <3>2
    <2>3. Used' = Used \cup {q}
      BY <1>0, <2>2 DEF Used, IInv, TypeOK
    <2> QED
      BY <2>1, <2>3 DEF AllIsKept, IInv
  <1> QED
    BY <1>4, <1>5, <1>6, <1>7 DEF IInv

LEMMA CrashKeepsIInv ==
    ASSUME IInv, NEW n \in Nodes, Crash(n) PROVE IInv'
  <1> USE DEF Crash, bullVars, removerVars
  <1>1. \A m \in Nodes, r \in Queues : due'[m][r] = IF m = n THEN 0 ELSE due[m][r]
    BY DEF IInv, TypeOK
  <1>2. TypeOK'
    <2>1. due' \in [Nodes -> [Queues -> Times]]
      BY DEF IInv, TypeOK, Times, Expiry
    <2>2. storing' \subseteq up' \X Queues /\ adding' \subseteq up' \X Queues \X Jobs
      BY DEF IInv, TypeOK
    <2>3. queues' \in [Nodes -> SUBSET Queues] /\ up' \subseteq Nodes
      BY DEF IInv, TypeOK
    <2> QED
      BY <2>1, <2>2, <2>3 DEF IInv, TypeOK
  <1>3. IntervalsKeepUp'
    <2> SUFFICES ASSUME NEW m \in Nodes, NEW r \in Queues
                 PROVE  /\ due'[m][r] <= now + Half
                        /\ m \in up' /\ due'[m][r] # 0 => now < due'[m][r] + Late
      BY DEF IntervalsKeepUp
    <2>1. now \in Nat
      BY DEF IInv, TypeOK
    <2> QED
      BY <1>1, <2>1 DEF IInv, IntervalsKeepUp
  <1>4. EntriesOutlastIntervals'
    BY <1>1 DEF IInv, EntriesOutlastIntervals
  <1>5. AllIsKept'
    BY DEF AllIsKept
  <1> QED
    BY <1>2, <1>3, <1>4, <1>5 DEF IInv

LEMMA CleanReadKeepsIInv == ASSUME IInv, CleanRead PROVE IInv'
  <1> USE DEF CleanRead, processVars, bullVars, removerVars
  <1>1. TypeOK'
    BY DEF IInv, TypeOK, Registered
  <1>2. IntervalsKeepUp' /\ EntriesOutlastIntervals'
    BY DEF IInv, IntervalsKeepUp, EntriesOutlastIntervals
  <1>3. AllIsKept'
    <2>1. Registered' = Registered /\ Used' = Used
      BY DEF Registered, Used, KeptBy
    <2>2. \A q \in expired' : q \in Registered /\ q \notin Used
      BY CleanerFindsUnused
    <2> QED
      BY <2>1, <2>2 DEF AllIsKept, IInv
  <1> QED
    BY <1>1, <1>2, <1>3 DEF IInv

LEMMA CleanRemoveKeepsIInv ==
    ASSUME IInv, NEW q \in Queues, CleanRemove(q) PROVE IInv'
  <1> USE DEF CleanRemove, processVars, bullVars, removerVars
  <1>1. TypeOK'
    BY DEF IInv, TypeOK, Times, Expiry
  <1>2. \A r \in Queues : score'[r] # 0 => score'[r] = score[r]
    BY DEF IInv, TypeOK
  <1>3. IntervalsKeepUp' /\ EntriesOutlastIntervals'
    BY <1>2 DEF IInv, IntervalsKeepUp, EntriesOutlastIntervals
  <1>4. AllIsKept'
    BY DEF AllIsKept, IInv
  <1> QED
    BY <1>1, <1>3, <1>4 DEF IInv

\* The other steps leave the clock, the set and the intervals alone.
LEMMA OtherStepsKeepIInv ==
    ASSUME IInv, TypeOK', UNCHANGED <<now, score, due, expired, up>> PROVE IInv'
  BY DEF IInv, IntervalsKeepUp, EntriesOutlastIntervals, AllIsKept, Registered, Used, KeptBy

LEMMA NextIInv == IInv /\ [Next]_vars => IInv'
  <1> SUFFICES ASSUME IInv, [Next]_vars PROVE IInv'
    OBVIOUS
  <1> USE DEF processVars, bullVars, removerVars
  <1>1. CASE Tick
    BY <1>1, TickKeepsIInv
  <1>2. ASSUME NEW n \in Nodes, NEW q \in Queues, Stored(n, q) PROVE IInv'
    <2>1. n \in up /\ storing' \subseteq storing /\ SetTemp(q)
      BY <1>2 DEF Stored, IInv, TypeOK
    <2>2. \/ due' = [due EXCEPT ![n][q] = now + Half]
          \/ due[n][q] # 0 /\ due' = due
      BY <1>2 DEF Stored
    <2>3. UNCHANGED <<now, queues, adding, bullVars, expired, removerVars, up>>
      BY <1>2 DEF Stored
    <2> QED
      BY <2>1, <2>2, <2>3, PushKeepsIInv
  <1>3. ASSUME NEW n \in Nodes, NEW q \in Queues, Refresh(n, q) PROVE IInv'
    <2>1. UNCHANGED <<now, queues, adding, bullVars, expired, removerVars, up>>
          /\ storing' \subseteq storing
      BY <1>3 DEF Refresh
    <2> QED
      BY <1>3, <2>1, PushKeepsIInv DEF Refresh
  <1>4. ASSUME NEW n \in Nodes, NEW q \in Queues, StopProcessing(n, q) PROVE IInv'
    <2>1. TypeOK'
      BY <1>4 DEF StopProcessing, IInv, TypeOK
    <2> QED
      BY <1>4, <2>1, OtherStepsKeepIInv DEF StopProcessing
  <1>5. ASSUME NEW n \in Nodes, NEW q \in Queues, NEW j \in Jobs, Enqueue(n, q, j)
        PROVE  IInv'
    <2>1. queues' \in [Nodes -> SUBSET Queues] /\ storing' \subseteq up \X Queues
      BY <1>5 DEF Enqueue, IInv, TypeOK
    <2>2. adding' \subseteq up \X Queues \X Jobs
      BY <1>5 DEF Enqueue, IInv, TypeOK
    <2>3. TypeOK'
      BY <1>5, <2>1, <2>2 DEF Enqueue, IInv, TypeOK
    <2> QED
      BY <1>5, <2>3, OtherStepsKeepIInv DEF Enqueue
  <1>6. ASSUME NEW n \in Nodes, NEW q \in Queues, NEW j \in Jobs, Added(n, q, j)
        PROVE  IInv'
    <2>1. TypeOK'
      BY <1>6 DEF Added, IInv, TypeOK
    <2> QED
      BY <1>6, <2>1, OtherStepsKeepIInv DEF Added
  <1>7. ASSUME NEW n \in Nodes, Crash(n) PROVE IInv'
    BY <1>7, CrashKeepsIInv
  <1>8. CASE CleanRead
    BY <1>8, CleanReadKeepsIInv
  <1>9. ASSUME NEW q \in Queues, CleanRemove(q) PROVE IInv'
    BY <1>9, CleanRemoveKeepsIInv
  <1>10. ASSUME NEW q \in Queues, RemoverEmpty(q) PROVE IInv'
    <2>1. TypeOK'
      BY <1>10 DEF RemoverEmpty, IInv, TypeOK
    <2> QED
      BY <1>10, <2>1, OtherStepsKeepIInv DEF RemoverEmpty
  <1>11. CASE RemoverRead
    <2>1. TypeOK'
      BY <1>11 DEF RemoverRead, IInv, TypeOK, Registered
    <2> QED
      BY <1>11, <2>1, OtherStepsKeepIInv DEF RemoverRead
  <1>12. CASE RemoverScan
    <2>1. TypeOK'
      <3>1. exists \subseteq Queues
        BY DEF IInv, TypeOK
      <3>2. unused' \subseteq Queues /\ registeredThen' = Idle
        BY <1>12, <3>1 DEF RemoverScan
      <3> QED
        BY <1>12, <3>2 DEF RemoverScan, IInv, TypeOK
    <2> QED
      BY <1>12, <2>1, OtherStepsKeepIInv DEF RemoverScan
  <1>13. CASE UNCHANGED vars
    <2>1. TypeOK'
      BY <1>13 DEF vars, IInv, TypeOK
    <2> QED
      BY <1>13, <2>1, OtherStepsKeepIInv DEF vars
  <1> QED
    BY <1>1, <1>2, <1>3, <1>4, <1>5, <1>6, <1>7, <1>8, <1>9, <1>10, <1>11, <1>12, <1>13
       DEF Next

\* The three times are related in every state.
THEOREM Invariance == Spec => []IInv
  <1> QED
    BY InitIInv, NextIInv, PTL DEF Spec

\* The state keeps its shape; in particular only a running process has commands
\* under way.
THEOREM TypeCorrect == Spec => []TypeOK
  <1>1. IInv => TypeOK
    BY DEF IInv
  <1> QED
    BY <1>1, Invariance, PTL

-----------------------------------------------------------------------------
LEMMA KeptImpliesRegistered == IInv => UsedIsRegistered
  <1> SUFFICES ASSUME IInv, up = Nodes, NEW q \in Used
               PROVE  q \in Registered /\ score[q] + Grace > now
    BY DEF UsedIsRegistered
  <1>1. q \in Registered
    BY DEF IInv, AllIsKept
  <1>2. score[q] # 0
    BY <1>1 DEF Registered
  <1> QED
    BY <1>1, <1>2, KeptIsFresh

\* Without crashes, no process loses the entry of a queue it uses, whatever the
\* others and the periodic tasks do and however late the intervals run
\* (UsedIsRegistered).
THEOREM UsedStaysRegistered == Spec => []UsedIsRegistered
  <1> QED
    BY Invariance, KeptImpliesRegistered, PTL

LEMMA StepSparesUsed ==
    ASSUME IInv, [Next]_vars
    PROVE  [\A q \in expired' \ expired : q \notin Used]_vars
  <1> SUFFICES ASSUME NEW q \in expired' \ expired PROVE q \notin Used
    OBVIOUS
  <1>1. CASE CleanRead
    BY <1>1, CleanerFindsUnused
  <1>2. CASE ~ CleanRead
    <2>1. expired' \subseteq expired
      BY <1>2 DEF Next, vars, processVars, bullVars, removerVars, Tick, Stored, Refresh,
                  StopProcessing, Enqueue, Added, Crash, CleanRemove, RemoverEmpty,
                  RemoverRead, RemoverScan
    <2> QED
      BY <2>1
  <1> QED
    BY <1>1, <1>2

\* _cleanResources never picks the entry of a queue that a running process keeps,
\* whether or not another one that kept it has died (CleanerSparesUsed).
THEOREM CleanerSparesTheUsed == Spec => CleanerSparesUsed
  <1>1. IInv /\ [Next]_vars => [\A q \in expired' \ expired : q \notin Used]_vars
    BY StepSparesUsed
  <1> QED
    BY <1>1, Invariance, PTL DEF Spec, CleanerSparesUsed
==============================================================================
