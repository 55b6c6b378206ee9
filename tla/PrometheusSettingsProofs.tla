---------------------- MODULE PrometheusSettingsProofs ----------------------
(***************************************************************************)
(* For any number of requests, configs and permits: the settings file is   *)
(* whole unless edited by hand, a save only replaces the revision its page *)
(* was loaded at, a shown test result is of the shown config, and permits  *)
(* are conserved, whatever reads and writes fail.                          *)
(*                                                                         *)
(* The inductive invariant adds to these that the lock excludes (Exclusive *)
(* below) and that what a save has checked stays true while it holds the   *)
(* lock, unless the file was edited by hand (CheckedStays).                *)
(***************************************************************************)
EXTENDS PrometheusSettings, FiniteSetTheorems, TLAPS

\* A thread between the check and the release of save is the only lock holder.
Exclusive == \A t \in Threads : call[t].pc \in Locked => lock = {t}

CheckedStays ==
  \A t \in Threads :
    call[t].pc \in {"writing", "replacing"} => Loaded = call[t].expected \/ t \in overtaken

\* A cached result is kept under the config it was probed with.
CacheFaithful == cache # NoTest => cache.tested = cache.key

IInv == TypeOK /\ SlotsConserved /\ Exclusive /\ CheckedStays /\ CacheFaithful

-----------------------------------------------------------------------------
(* Permits *)

LEMMA TestersFinite == IsFiniteSet(Testers) /\ Cardinality(Testers) \in Nat
<1>1. Testers \subseteq Threads BY DEF Testers
<1>2. IsFiniteSet(Testers) BY <1>1, ThreadAssumption, FS_Subset
<1> QED BY <1>2, FS_CardinalityType

\* A thread that tests holds a permit, so one can be given back.
LEMMA TesterHoldsPermit ==
  ASSUME TypeOK, SlotsConserved, NEW t \in Testers
  PROVE  slots < MaxSlots
<1>1. Cardinality(Testers) # 0
  BY TestersFinite, FS_EmptySet
<1> QED BY <1>1, TestersFinite, SlotAssumption DEF SlotsConserved, TypeOK

LEMMA PermitsKept ==
  ASSUME SlotsConserved, slots' = slots, Testers' = Testers
  PROVE  SlotsConserved'
BY DEF SlotsConserved

LEMMA PermitTaken ==
  ASSUME TypeOK, SlotsConserved, NEW t, t \notin Testers,
         slots' = slots - 1, Testers' = Testers \cup {t}
  PROVE  SlotsConserved'
<1>1. Cardinality(Testers \cup {t}) = Cardinality(Testers) + 1
  BY TestersFinite, FS_AddElement
<1> QED BY <1>1, TestersFinite, SlotAssumption DEF SlotsConserved, TypeOK

LEMMA PermitReturned ==
  ASSUME TypeOK, SlotsConserved, NEW t \in Testers,
         slots' = slots + 1, Testers' = Testers \ {t}
  PROVE  SlotsConserved'
<1>1. Cardinality(Testers \ {t}) = Cardinality(Testers) - 1
  BY TestersFinite, FS_RemoveElement
<1> QED BY <1>1, TestersFinite, SlotAssumption DEF SlotsConserved, TypeOK

-----------------------------------------------------------------------------
(* What a thread is doing *)

LEMMA RestTyped == Rest \in Calls
BY ConfigAssumption DEF Rest, Calls, Points, Statuses

LEMMA CallTyped ==
  ASSUME call \in [Threads -> Calls], NEW t \in Threads, NEW r \in Calls,
         call' = [call EXCEPT ![t] = r]
  PROVE  call' \in [Threads -> Calls]
OBVIOUS

LEMMA GotoTyped ==
  ASSUME call \in [Threads -> Calls], NEW t \in Threads, NEW pc \in Points, Goto(t, pc)
  PROVE  call' \in [Threads -> Calls]
<1>1. [call[t] EXCEPT !.pc = pc] \in Calls
  BY DEF Calls
<1>2. call' = [call EXCEPT ![t] = [call[t] EXCEPT !.pc = pc]]
  BY DEF Goto
<1> QED BY <1>1, <1>2, CallTyped

LEMMA ReturnTyped ==
  ASSUME call \in [Threads -> Calls], NEW t \in Threads, Return(t)
  PROVE  call' \in [Threads -> Calls]
BY RestTyped, CallTyped DEF Return

\* Every step leaves every thread at a point of its request, with its locals.
LEMMA CallStep ==
  ASSUME TypeOK, [Next]_vars
  PROVE  call' \in [Threads -> Calls]
<1>0. call \in [Threads -> Calls] /\ file \in Configs \cup {Absent, Broken}
  BY DEF TypeOK
<1> USE <1>0
<1>1. ASSUME NEW t \in Threads, Get(t) PROVE call' \in [Threads -> Calls]
  BY <1>1, GotoTyped DEF Get, Points, Locked, Probing
<1>2. ASSUME NEW t \in Threads, NEW expected \in Configs, NEW config \in Configs,
             Save(t, expected, config)
      PROVE  call' \in [Threads -> Calls]
  <2>1. [Rest EXCEPT !.pc = "locking", !.expected = expected, !.config = config] \in Calls
    BY RestTyped DEF Calls, Points
  <2> QED BY <1>2, <2>1, CallTyped DEF Save
<1>3. ASSUME NEW t \in Threads, NEW expected \in Configs,
             Test(t, expected)
      PROVE  call' \in [Threads -> Calls]
  <2>1. [Rest EXCEPT !.pc = "comparing", !.expected = expected] \in Calls
    BY RestTyped DEF Calls, Points
  <2> QED BY <1>3, <2>1, CallTyped DEF Test
<1>4. ASSUME NEW t \in Threads, SaveLocks(t) PROVE call' \in [Threads -> Calls]
  BY <1>4, GotoTyped DEF SaveLocks, Points, Locked, Probing
<1>5. ASSUME NEW t \in Threads, DescribeReads(t) PROVE call' \in [Threads -> Calls]
  <2>1. [call[t] EXCEPT !.pc = "looking", !.config = Loaded] \in Calls
    BY <1>5, ConfigAssumption DEF DescribeReads, Readable, Calls, Points, Loaded
  <2>2. call' = [call EXCEPT ![t] = [call[t] EXCEPT !.pc = "looking", !.config = Loaded]]
    BY <1>5 DEF DescribeReads
  <2> QED BY <2>1, <2>2, CallTyped
<1>6. ASSUME NEW t \in Threads, DescribeLooks(t) PROVE call' \in [Threads -> Calls]
  BY <1>6, ReturnTyped DEF DescribeLooks
<1>7. ASSUME NEW t \in Threads, SaveChecks(t) PROVE call' \in [Threads -> Calls]
  BY <1>7, GotoTyped, ReturnTyped DEF SaveChecks, Points, Locked, Probing
<1>8. ASSUME NEW t \in Threads, SaveWrites(t) PROVE call' \in [Threads -> Calls]
  BY <1>8, GotoTyped DEF SaveWrites, Points, Locked, Probing
<1>9. ASSUME NEW t \in Threads, SaveReplaces(t) PROVE call' \in [Threads -> Calls]
  <2>1. [Rest EXCEPT !.pc = "clearing"] \in Calls
    BY RestTyped DEF Calls, Points, Locked
  <2> QED BY <1>9, <2>1, CallTyped DEF SaveReplaces
<1>10. ASSUME NEW t \in Threads, SaveClears(t) PROVE call' \in [Threads -> Calls]
  BY <1>10, GotoTyped DEF SaveClears, Points, Locked, Probing
<1>11. ASSUME NEW t \in Threads, SaveFails(t) PROVE call' \in [Threads -> Calls]
  BY <1>11, ReturnTyped DEF SaveFails
<1>12. ASSUME NEW t \in Threads, TestRefused(t) PROVE call' \in [Threads -> Calls]
  BY <1>12, ReturnTyped DEF TestRefused
<1>13. ASSUME NEW t \in Threads, TestAdmitted(t) PROVE call' \in [Threads -> Calls]
  <2>1. CASE slots = 0
    BY <1>13, <2>1, ReturnTyped DEF TestAdmitted
  <2>2. CASE slots # 0
    <3>1. [Rest EXCEPT !.pc = "probing", !.config = file] \in Calls
      BY <1>13, RestTyped DEF TestAdmitted, Readable, Calls, Points, Probing, TypeOK
    <3> QED BY <1>13, <2>2, <3>1, CallTyped DEF TestAdmitted
  <2> QED BY <2>1, <2>2
<1>14. ASSUME NEW t \in Threads, TestProbes(t) PROVE call' \in [Threads -> Calls]
  <2>1. PICK status \in Statuses :
          call' = [call EXCEPT ![t].pc = "rereading", ![t].status = status]
    BY <1>14 DEF TestProbes
  <2>2. [call[t] EXCEPT !.pc = "rereading", !.status = status] \in Calls
    BY DEF Calls, Points, Probing
  <2>3. call' = [call EXCEPT ![t] = [call[t] EXCEPT !.pc = "rereading", !.status = status]]
    BY <2>1
  <2> QED BY <2>2, <2>3, CallTyped
<1>15. ASSUME NEW t \in Threads, TestRereads(t) PROVE call' \in [Threads -> Calls]
  BY <1>15, GotoTyped, ReturnTyped DEF TestRereads, Points, Locked, Probing
<1>16. ASSUME NEW t \in Threads, TestStores(t) PROVE call' \in [Threads -> Calls]
  BY <1>16, ReturnTyped DEF TestStores
<1>17. ASSUME NEW content \in Configs \cup {Broken}, Edit(content) PROVE call' \in [Threads -> Calls]
  BY <1>17 DEF Edit
<1>18. CASE Restart
  BY <1>18, RestTyped DEF Restart
<1>19. CASE UNCHANGED vars
  BY <1>19 DEF vars
<1>20. ASSUME NEW t \in Threads, LockFails(t) PROVE call' \in [Threads -> Calls]
  BY <1>20, ReturnTyped DEF LockFails
<1>21. ASSUME NEW t \in Threads, LoadFails(t) PROVE call' \in [Threads -> Calls]
  BY <1>21, ReturnTyped DEF LoadFails
<1> QED
  BY [Next]_vars, <1>1, <1>2, <1>3, <1>4, <1>5, <1>6, <1>7, <1>8, <1>9,
     <1>10, <1>11, <1>12, <1>13, <1>14, <1>15, <1>16, <1>17, <1>18, <1>19, <1>20, <1>21
  DEF Next, Request, Step, SaveStep, TestStep

-----------------------------------------------------------------------------
(* The inductive invariant *)

LEMMA Initially == Init => IInv
<1> SUFFICES ASSUME Init PROVE IInv OBVIOUS
<1>1. Rest \in Calls
  BY ConfigAssumption DEF Rest, Calls, Points, Statuses, Locked, Probing
<1>2. TypeOK
  BY <1>1, SlotAssumption, ConfigAssumption DEF Init, TypeOK, Calls
<1>3. Testers = {}
  BY DEF Init, Testers, Rest, Probing
<1>4. SlotsConserved
  BY <1>3, FS_EmptySet, SlotAssumption DEF Init, SlotsConserved
<1> QED
  BY <1>2, <1>4 DEF Init, IInv, Exclusive, CheckedStays, CacheFaithful, Rest, Locked

\* No step leaves the types: the file is whole after every one of them.
LEMMA TypeStep ==
  ASSUME TypeOK, SlotsConserved, [Next]_vars
  PROVE  TypeOK'
<1>1. ASSUME NEW t \in Threads, Get(t) PROVE TypeOK'
  BY <1>1, CallStep DEF Get, TypeOK
<1>2. ASSUME NEW t \in Threads, NEW expected \in Configs, NEW config \in Configs,
             Save(t, expected, config)
      PROVE  TypeOK'
  BY <1>2, CallStep DEF Save, TypeOK
<1>3. ASSUME NEW t \in Threads, NEW expected \in Configs,
             Test(t, expected)
      PROVE  TypeOK'
  BY <1>3, CallStep DEF Test, TypeOK
<1>4. ASSUME NEW t \in Threads, SaveLocks(t) PROVE TypeOK'
  BY <1>4, CallStep DEF SaveLocks, TypeOK
<1>5. ASSUME NEW t \in Threads, DescribeReads(t) PROVE TypeOK'
  BY <1>5, CallStep DEF DescribeReads, TypeOK
<1>6. ASSUME NEW t \in Threads, DescribeLooks(t) PROVE TypeOK'
  BY <1>6, CallStep DEF DescribeLooks, TypeOK
<1>7. ASSUME NEW t \in Threads, SaveChecks(t) PROVE TypeOK'
  BY <1>7, CallStep DEF SaveChecks, TypeOK
<1>8. ASSUME NEW t \in Threads, SaveWrites(t) PROVE TypeOK'
  BY <1>8, CallStep DEF SaveWrites, TypeOK
<1>9. ASSUME NEW t \in Threads, SaveReplaces(t) PROVE TypeOK'
  BY <1>9, CallStep, ConfigAssumption DEF SaveReplaces, TypeOK, Calls
<1>10. ASSUME NEW t \in Threads, SaveClears(t) PROVE TypeOK'
  BY <1>10, CallStep DEF SaveClears, TypeOK
<1>11. ASSUME NEW t \in Threads, SaveFails(t) PROVE TypeOK'
  BY <1>11, CallStep DEF SaveFails, TypeOK
<1>12. ASSUME NEW t \in Threads, TestRefused(t) PROVE TypeOK'
  BY <1>12, CallStep DEF TestRefused, TypeOK
<1>13. ASSUME NEW t \in Threads, TestAdmitted(t) PROVE TypeOK'
  BY <1>13, CallStep, SlotAssumption DEF TestAdmitted, TypeOK
<1>14. ASSUME NEW t \in Threads, TestProbes(t) PROVE TypeOK'
  BY <1>14, CallStep DEF TestProbes, TypeOK
<1>15. ASSUME NEW t \in Threads, TestRereads(t) PROVE TypeOK'
  <2>1. t \in Testers BY <1>15 DEF TestRereads, At, Testers, Probing
  <2> QED BY <1>15, <2>1, CallStep, TesterHoldsPermit, SlotAssumption DEF TestRereads, TypeOK
<1>16. ASSUME NEW t \in Threads, TestStores(t) PROVE TypeOK'
  <2>1. t \in Testers BY <1>16 DEF TestStores, At, Testers, Probing
  <2>2. slots + 1 \in 0 .. MaxSlots
    BY <2>1, TesterHoldsPermit, SlotAssumption DEF TypeOK
  <2>3. cache' \in Results
    BY <1>16 DEF TestStores, TypeOK, Calls, Results
  <2> QED BY <1>16, <2>2, <2>3, CallStep DEF TestStores, TypeOK
<1>17. ASSUME NEW content \in Configs \cup {Broken}, Edit(content) PROVE TypeOK'
  BY <1>17, CallStep, SlotAssumption DEF Edit, Savers, TypeOK
<1>18. CASE Restart
  BY <1>18, CallStep, SlotAssumption DEF Restart, TypeOK
<1>19. CASE UNCHANGED vars
  BY <1>19 DEF vars, TypeOK
<1>20. ASSUME NEW t \in Threads, LockFails(t) PROVE TypeOK'
  BY <1>20, CallStep DEF LockFails, TypeOK
<1>21. ASSUME NEW t \in Threads, LoadFails(t) PROVE TypeOK'
  <2>1. CASE At(t, "rereading")
    <3>1. t \in Testers BY <2>1 DEF At, Testers, Probing
    <3>2. slots + 1 \in 0 .. MaxSlots
      BY <3>1, TesterHoldsPermit, SlotAssumption DEF TypeOK
    <3> QED BY <1>21, <2>1, <3>2, CallStep DEF LoadFails, TypeOK
  <2>2. CASE ~At(t, "rereading")
    BY <1>21, <2>2, CallStep DEF LoadFails, TypeOK
  <2> QED BY <2>1, <2>2
<1> QED
  BY [Next]_vars, <1>1, <1>2, <1>3, <1>4, <1>5, <1>6, <1>7, <1>8, <1>9,
     <1>10, <1>11, <1>12, <1>13, <1>14, <1>15, <1>16, <1>17, <1>18, <1>19, <1>20, <1>21
  DEF Next, Request, Step, SaveStep, TestStep

\* Every way out of a test gives its permit back, and nothing else does.
LEMMA SlotStep ==
  ASSUME TypeOK, SlotsConserved, [Next]_vars
  PROVE  SlotsConserved'
<1>0. call \in [Threads -> Calls] BY DEF TypeOK
<1> USE <1>0
<1>1. ASSUME NEW t \in Threads, Get(t) PROVE SlotsConserved'
  <2>1. Testers' = Testers
    BY <1>1
    DEF Get, At, Goto, Return, Rest, Calls, Testers, Probing
  <2> QED BY <1>1, <2>1, PermitsKept DEF Get
<1>2. ASSUME NEW t \in Threads, NEW expected \in Configs, NEW config \in Configs,
             Save(t, expected, config)
      PROVE  SlotsConserved'
  <2>1. Testers' = Testers
    BY <1>2
    DEF Save, At, Goto, Return, Rest, Calls, Testers, Probing
  <2> QED BY <1>2, <2>1, PermitsKept DEF Save
<1>3. ASSUME NEW t \in Threads, NEW expected \in Configs,
             Test(t, expected)
      PROVE  SlotsConserved'
  <2>1. Testers' = Testers
    BY <1>3
    DEF Test, At, Goto, Return, Rest, Calls, Testers, Probing
  <2> QED BY <1>3, <2>1, PermitsKept DEF Test
<1>4. ASSUME NEW t \in Threads, SaveLocks(t) PROVE SlotsConserved'
  <2>1. Testers' = Testers
    BY <1>4
    DEF SaveLocks, At, Goto, Return, Rest, Calls, Testers, Probing
  <2> QED BY <1>4, <2>1, PermitsKept DEF SaveLocks
<1>5. ASSUME NEW t \in Threads, DescribeReads(t) PROVE SlotsConserved'
  <2>1. Testers' = Testers
    BY <1>5
    DEF DescribeReads, At, Goto, Return, Rest, Calls, Testers, Probing
  <2> QED BY <1>5, <2>1, PermitsKept DEF DescribeReads
<1>6. ASSUME NEW t \in Threads, DescribeLooks(t) PROVE SlotsConserved'
  <2>1. Testers' = Testers
    BY <1>6
    DEF DescribeLooks, At, Goto, Return, Rest, Calls, Testers, Probing
  <2> QED BY <1>6, <2>1, PermitsKept DEF DescribeLooks
<1>7. ASSUME NEW t \in Threads, SaveChecks(t) PROVE SlotsConserved'
  <2>1. Testers' = Testers
    BY <1>7
    DEF SaveChecks, At, Goto, Return, Rest, Calls, Testers, Probing
  <2> QED BY <1>7, <2>1, PermitsKept DEF SaveChecks
<1>8. ASSUME NEW t \in Threads, SaveWrites(t) PROVE SlotsConserved'
  <2>1. Testers' = Testers
    BY <1>8
    DEF SaveWrites, At, Goto, Return, Rest, Calls, Testers, Probing
  <2> QED BY <1>8, <2>1, PermitsKept DEF SaveWrites
<1>9. ASSUME NEW t \in Threads, SaveReplaces(t) PROVE SlotsConserved'
  <2>1. Testers' = Testers
    BY <1>9
    DEF SaveReplaces, At, Goto, Return, Rest, Calls, Testers, Probing
  <2> QED BY <1>9, <2>1, PermitsKept DEF SaveReplaces
<1>10. ASSUME NEW t \in Threads, SaveClears(t) PROVE SlotsConserved'
  <2>1. Testers' = Testers
    BY <1>10
    DEF SaveClears, At, Goto, Return, Rest, Calls, Testers, Probing
  <2> QED BY <1>10, <2>1, PermitsKept DEF SaveClears
<1>11. ASSUME NEW t \in Threads, SaveFails(t) PROVE SlotsConserved'
  <2>1. Testers' = Testers
    BY <1>11
    DEF SaveFails, At, Goto, Return, Rest, Calls, Testers, Probing
  <2> QED BY <1>11, <2>1, PermitsKept DEF SaveFails
<1>12. ASSUME NEW t \in Threads, TestRefused(t) PROVE SlotsConserved'
  <2>1. Testers' = Testers
    BY <1>12
    DEF TestRefused, At, Goto, Return, Rest, Calls, Testers, Probing
  <2> QED BY <1>12, <2>1, PermitsKept DEF TestRefused
<1>13. ASSUME NEW t \in Threads, TestAdmitted(t) PROVE SlotsConserved'
  <2>1. CASE slots = 0
    <3>1. Testers' = Testers
      BY <1>13, <2>1
      DEF TestAdmitted, At, Goto, Return, Rest, Calls, Testers, Probing
    <3> QED BY <1>13, <2>1, <3>1, PermitsKept DEF TestAdmitted
  <2>2. CASE slots # 0
    <3>1. Testers' = Testers \cup {t} /\ t \notin Testers
      BY <1>13, <2>2
      DEF TestAdmitted, At, Goto, Return, Rest, Calls, Testers, Probing
    <3> QED BY <1>13, <2>2, <3>1, PermitTaken DEF TestAdmitted
  <2> QED BY <2>1, <2>2
<1>14. ASSUME NEW t \in Threads, TestProbes(t) PROVE SlotsConserved'
  <2>1. Testers' = Testers
    BY <1>14
    DEF TestProbes, At, Goto, Return, Rest, Calls, Testers, Probing
  <2> QED BY <1>14, <2>1, PermitsKept DEF TestProbes
<1>15. ASSUME NEW t \in Threads, TestRereads(t) PROVE SlotsConserved'
  <2>1. CASE Loaded = call[t].config
    <3>1. Testers' = Testers
      BY <1>15, <2>1
      DEF TestRereads, At, Goto, Return, Rest, Calls, Testers, Probing
    <3> QED BY <1>15, <2>1, <3>1, PermitsKept DEF TestRereads
  <2>2. CASE Loaded # call[t].config
    <3>1. Testers' = Testers \ {t} /\ t \in Testers
      BY <1>15, <2>2 DEF TestRereads, At, Goto, Return, Rest, Calls, Testers, Probing
    <3> QED BY <1>15, <2>2, <3>1, PermitReturned DEF TestRereads
  <2> QED BY <2>1, <2>2
<1>16. ASSUME NEW t \in Threads, TestStores(t) PROVE SlotsConserved'
  <2>1. Testers' = Testers \ {t} /\ t \in Testers
    BY <1>16 DEF TestStores, At, Goto, Return, Rest, Calls, Testers, Probing
  <2> QED BY <1>16, <2>1, PermitReturned DEF TestStores
<1>17. ASSUME NEW content \in Configs \cup {Broken}, Edit(content) PROVE SlotsConserved'
  BY <1>17, PermitsKept DEF Edit, Testers
<1>18. CASE Restart
  <2>1. Testers' = {} BY <1>18 DEF Restart, Rest, Testers, Probing
  <2> QED BY <1>18, <2>1, FS_EmptySet, SlotAssumption DEF Restart, SlotsConserved
<1>19. CASE UNCHANGED vars
  BY <1>19, PermitsKept DEF vars, Testers
<1>20. ASSUME NEW t \in Threads, LockFails(t) PROVE SlotsConserved'
  <2>1. Testers' = Testers
    BY <1>20
    DEF LockFails, At, Goto, Return, Rest, Calls, Testers, Probing
  <2> QED BY <1>20, <2>1, PermitsKept DEF LockFails
<1>21. ASSUME NEW t \in Threads, LoadFails(t) PROVE SlotsConserved'
  <2>1. CASE At(t, "rereading")
    <3>1. Testers' = Testers \ {t} /\ t \in Testers
      BY <1>21, <2>1 DEF LoadFails, At, Return, Rest, Calls, Testers, Probing
    <3> QED BY <1>21, <2>1, <3>1, PermitReturned DEF LoadFails
  <2>2. CASE ~At(t, "rereading")
    <3>1. Testers' = Testers
      BY <1>21, <2>2 DEF LoadFails, Reading, At, Return, Rest, Calls, Testers, Probing
    <3> QED BY <1>21, <2>2, <3>1, PermitsKept DEF LoadFails
  <2> QED BY <2>1, <2>2
<1> QED
  BY [Next]_vars, <1>1, <1>2, <1>3, <1>4, <1>5, <1>6, <1>7, <1>8, <1>9,
     <1>10, <1>11, <1>12, <1>13, <1>14, <1>15, <1>16, <1>17, <1>18, <1>19, <1>20, <1>21
  DEF Next, Request, Step, SaveStep, TestStep

\* The lock is taken when free and closed by its holder only.
LEMMA LockStep ==
  ASSUME TypeOK, Exclusive, [Next]_vars
  PROVE  Exclusive'
<1>0. call \in [Threads -> Calls] BY DEF TypeOK
<1> USE <1>0
<1>1. ASSUME NEW t \in Threads, Get(t) PROVE Exclusive'
  BY <1>1 DEF Get, At, Goto, Return, Rest, Calls, Exclusive, Locked
<1>2. ASSUME NEW t \in Threads, NEW expected \in Configs, NEW config \in Configs,
             Save(t, expected, config)
      PROVE  Exclusive'
  BY <1>2 DEF Save, At, Goto, Return, Rest, Calls, Exclusive, Locked
<1>3. ASSUME NEW t \in Threads, NEW expected \in Configs,
             Test(t, expected)
      PROVE  Exclusive'
  BY <1>3 DEF Test, At, Goto, Return, Rest, Calls, Exclusive, Locked
<1>4. ASSUME NEW t \in Threads, SaveLocks(t) PROVE Exclusive'
  BY <1>4 DEF SaveLocks, At, Goto, Return, Rest, Calls, Exclusive, Locked
<1>5. ASSUME NEW t \in Threads, DescribeReads(t) PROVE Exclusive'
  BY <1>5 DEF DescribeReads, At, Goto, Return, Rest, Calls, Exclusive, Locked
<1>6. ASSUME NEW t \in Threads, DescribeLooks(t) PROVE Exclusive'
  BY <1>6 DEF DescribeLooks, At, Goto, Return, Rest, Calls, Exclusive, Locked
<1>7. ASSUME NEW t \in Threads, SaveChecks(t) PROVE Exclusive'
  BY <1>7 DEF SaveChecks, At, Goto, Return, Rest, Calls, Exclusive, Locked
<1>8. ASSUME NEW t \in Threads, SaveWrites(t) PROVE Exclusive'
  BY <1>8 DEF SaveWrites, At, Goto, Return, Rest, Calls, Exclusive, Locked
<1>9. ASSUME NEW t \in Threads, SaveReplaces(t) PROVE Exclusive'
  BY <1>9 DEF SaveReplaces, At, Goto, Return, Rest, Calls, Exclusive, Locked
<1>10. ASSUME NEW t \in Threads, SaveClears(t) PROVE Exclusive'
  BY <1>10 DEF SaveClears, At, Goto, Return, Rest, Calls, Exclusive, Locked
<1>11. ASSUME NEW t \in Threads, SaveFails(t) PROVE Exclusive'
  BY <1>11 DEF SaveFails, At, Goto, Return, Rest, Calls, Exclusive, Locked
<1>12. ASSUME NEW t \in Threads, TestRefused(t) PROVE Exclusive'
  BY <1>12 DEF TestRefused, At, Goto, Return, Rest, Calls, Exclusive, Locked
<1>13. ASSUME NEW t \in Threads, TestAdmitted(t) PROVE Exclusive'
  <2>1. CASE slots = 0
    BY <1>13, <2>1 DEF TestAdmitted, Return, Rest, Calls, Exclusive, Locked
  <2>2. CASE slots # 0
    <3>1. \A u \in Threads \ {t} : call'[u] = call[u]
      BY <1>13, <2>2 DEF TestAdmitted
    <3>2. call'[t].pc = "probing" /\ lock' = lock
      BY <1>13, <2>2 DEF TestAdmitted, Rest
    <3> QED BY <3>1, <3>2 DEF Exclusive, Locked
  <2> QED BY <2>1, <2>2
<1>14. ASSUME NEW t \in Threads, TestProbes(t) PROVE Exclusive'
  BY <1>14 DEF TestProbes, At, Goto, Return, Rest, Calls, Exclusive, Locked
<1>15. ASSUME NEW t \in Threads, TestRereads(t) PROVE Exclusive'
  BY <1>15 DEF TestRereads, At, Goto, Return, Rest, Calls, Exclusive, Locked
<1>16. ASSUME NEW t \in Threads, TestStores(t) PROVE Exclusive'
  BY <1>16 DEF TestStores, At, Goto, Return, Rest, Calls, Exclusive, Locked
<1>17. ASSUME NEW content \in Configs \cup {Broken}, Edit(content) PROVE Exclusive'
  BY <1>17 DEF Edit, Exclusive
<1>18. CASE Restart
  BY <1>18 DEF Restart, Rest, Exclusive, Locked
<1>19. CASE UNCHANGED vars
  BY <1>19 DEF vars, Exclusive
<1>20. ASSUME NEW t \in Threads, LockFails(t) PROVE Exclusive'
  BY <1>20 DEF LockFails, At, Goto, Return, Rest, Calls, Exclusive, Locked
<1>21. ASSUME NEW t \in Threads, LoadFails(t) PROVE Exclusive'
  BY <1>21 DEF LoadFails, At, Goto, Return, Rest, Calls, Exclusive, Locked
<1> QED
  BY [Next]_vars, <1>1, <1>2, <1>3, <1>4, <1>5, <1>6, <1>7, <1>8, <1>9,
     <1>10, <1>11, <1>12, <1>13, <1>14, <1>15, <1>16, <1>17, <1>18, <1>19, <1>20, <1>21
  DEF Next, Request, Step, SaveStep, TestStep

\* Only a save that holds the lock, or an edit by hand, changes the file.
LEMMA CheckStep ==
  ASSUME TypeOK, Exclusive, CheckedStays, [Next]_vars
  PROVE  CheckedStays'
<1>0. call \in [Threads -> Calls] BY DEF TypeOK
<1> USE <1>0
<1>1. ASSUME NEW t \in Threads, Get(t) PROVE CheckedStays'
  BY <1>1 DEF Get, At, Goto, Return, Rest, Calls, CheckedStays, Loaded
<1>2. ASSUME NEW t \in Threads, NEW expected \in Configs, NEW config \in Configs,
             Save(t, expected, config)
      PROVE  CheckedStays'
  BY <1>2 DEF Save, At, Goto, Return, Rest, Calls, CheckedStays, Loaded
<1>3. ASSUME NEW t \in Threads, NEW expected \in Configs,
             Test(t, expected)
      PROVE  CheckedStays'
  BY <1>3 DEF Test, At, Goto, Return, Rest, Calls, CheckedStays, Loaded
<1>4. ASSUME NEW t \in Threads, SaveLocks(t) PROVE CheckedStays'
  BY <1>4 DEF SaveLocks, At, Goto, Return, Rest, Calls, CheckedStays, Loaded
<1>5. ASSUME NEW t \in Threads, DescribeReads(t) PROVE CheckedStays'
  BY <1>5 DEF DescribeReads, At, Goto, Return, Rest, Calls, CheckedStays, Loaded
<1>6. ASSUME NEW t \in Threads, DescribeLooks(t) PROVE CheckedStays'
  BY <1>6 DEF DescribeLooks, At, Goto, Return, Rest, Calls, CheckedStays, Loaded
<1>7. ASSUME NEW t \in Threads, SaveChecks(t) PROVE CheckedStays'
  BY <1>7 DEF SaveChecks, At, Goto, Return, Rest, Calls, CheckedStays, Loaded
<1>8. ASSUME NEW t \in Threads, SaveWrites(t) PROVE CheckedStays'
  BY <1>8 DEF SaveWrites, At, Goto, Return, Rest, Calls, CheckedStays, Loaded
<1>9. ASSUME NEW t \in Threads, SaveReplaces(t) PROVE CheckedStays'
  \* No other thread is past its check.
  <2>1. \A u \in Threads \ {t} : call[u].pc \notin Locked
    BY <1>9 DEF SaveReplaces, At, Exclusive, Locked
  <2> QED BY <1>9, <2>1 DEF SaveReplaces, Rest, Calls, Locked, CheckedStays
<1>10. ASSUME NEW t \in Threads, SaveClears(t) PROVE CheckedStays'
  BY <1>10 DEF SaveClears, At, Goto, Return, Rest, Calls, CheckedStays, Loaded
<1>11. ASSUME NEW t \in Threads, SaveFails(t) PROVE CheckedStays'
  BY <1>11 DEF SaveFails, At, Goto, Return, Rest, Calls, CheckedStays, Loaded
<1>12. ASSUME NEW t \in Threads, TestRefused(t) PROVE CheckedStays'
  BY <1>12 DEF TestRefused, At, Goto, Return, Rest, Calls, CheckedStays, Loaded
<1>13. ASSUME NEW t \in Threads, TestAdmitted(t) PROVE CheckedStays'
  <2>1. CASE slots = 0
    BY <1>13, <2>1 DEF TestAdmitted, Return, Rest, Calls, CheckedStays, Loaded
  <2>2. CASE slots # 0
    BY <1>13, <2>2 DEF TestAdmitted, Rest, Calls, CheckedStays, Loaded
  <2> QED BY <2>1, <2>2
<1>14. ASSUME NEW t \in Threads, TestProbes(t) PROVE CheckedStays'
  BY <1>14 DEF TestProbes, At, Goto, Return, Rest, Calls, CheckedStays, Loaded
<1>15. ASSUME NEW t \in Threads, TestRereads(t) PROVE CheckedStays'
  BY <1>15 DEF TestRereads, At, Goto, Return, Rest, Calls, CheckedStays, Loaded
<1>16. ASSUME NEW t \in Threads, TestStores(t) PROVE CheckedStays'
  BY <1>16 DEF TestStores, At, Goto, Return, Rest, Calls, CheckedStays, Loaded
<1>17. ASSUME NEW content \in Configs \cup {Broken}, Edit(content) PROVE CheckedStays'
  BY <1>17 DEF Edit, Savers, CheckedStays, Loaded
<1>18. CASE Restart
  BY <1>18 DEF Restart, Rest, CheckedStays, Loaded
<1>19. CASE UNCHANGED vars
  BY <1>19 DEF vars, CheckedStays, Loaded
<1>20. ASSUME NEW t \in Threads, LockFails(t) PROVE CheckedStays'
  BY <1>20 DEF LockFails, At, Goto, Return, Rest, Calls, CheckedStays, Loaded
<1>21. ASSUME NEW t \in Threads, LoadFails(t) PROVE CheckedStays'
  BY <1>21 DEF LoadFails, At, Goto, Return, Rest, Calls, CheckedStays, Loaded
<1> QED
  BY [Next]_vars, <1>1, <1>2, <1>3, <1>4, <1>5, <1>6, <1>7, <1>8, <1>9,
     <1>10, <1>11, <1>12, <1>13, <1>14, <1>15, <1>16, <1>17, <1>18, <1>19, <1>20, <1>21
  DEF Next, Request, Step, SaveStep, TestStep

\* A result is stored under the revision that was probed.
LEMMA CacheStep ==
  ASSUME CacheFaithful, [Next]_vars
  PROVE  CacheFaithful'
<1>1. ASSUME NEW t \in Threads, Get(t) PROVE CacheFaithful'
  BY <1>1 DEF Get, CacheFaithful
<1>2. ASSUME NEW t \in Threads, NEW expected \in Configs, NEW config \in Configs,
             Save(t, expected, config)
      PROVE  CacheFaithful'
  BY <1>2 DEF Save, CacheFaithful
<1>3. ASSUME NEW t \in Threads, NEW expected \in Configs,
             Test(t, expected)
      PROVE  CacheFaithful'
  BY <1>3 DEF Test, CacheFaithful
<1>4. ASSUME NEW t \in Threads, SaveLocks(t) PROVE CacheFaithful'
  BY <1>4 DEF SaveLocks, CacheFaithful
<1>5. ASSUME NEW t \in Threads, DescribeReads(t) PROVE CacheFaithful'
  BY <1>5 DEF DescribeReads, CacheFaithful
<1>6. ASSUME NEW t \in Threads, DescribeLooks(t) PROVE CacheFaithful'
  BY <1>6 DEF DescribeLooks, CacheFaithful
<1>7. ASSUME NEW t \in Threads, SaveChecks(t) PROVE CacheFaithful'
  BY <1>7 DEF SaveChecks, CacheFaithful
<1>8. ASSUME NEW t \in Threads, SaveWrites(t) PROVE CacheFaithful'
  BY <1>8 DEF SaveWrites, CacheFaithful
<1>9. ASSUME NEW t \in Threads, SaveReplaces(t) PROVE CacheFaithful'
  BY <1>9 DEF SaveReplaces, CacheFaithful
<1>10. ASSUME NEW t \in Threads, SaveClears(t) PROVE CacheFaithful'
  BY <1>10 DEF SaveClears, CacheFaithful
<1>11. ASSUME NEW t \in Threads, SaveFails(t) PROVE CacheFaithful'
  BY <1>11 DEF SaveFails, CacheFaithful
<1>12. ASSUME NEW t \in Threads, TestRefused(t) PROVE CacheFaithful'
  BY <1>12 DEF TestRefused, CacheFaithful
<1>13. ASSUME NEW t \in Threads, TestAdmitted(t) PROVE CacheFaithful'
  BY <1>13 DEF TestAdmitted, CacheFaithful
<1>14. ASSUME NEW t \in Threads, TestProbes(t) PROVE CacheFaithful'
  BY <1>14 DEF TestProbes, CacheFaithful
<1>15. ASSUME NEW t \in Threads, TestRereads(t) PROVE CacheFaithful'
  BY <1>15 DEF TestRereads, CacheFaithful
<1>16. ASSUME NEW t \in Threads, TestStores(t) PROVE CacheFaithful'
  BY <1>16 DEF TestStores, CacheFaithful
<1>17. ASSUME NEW content \in Configs \cup {Broken}, Edit(content) PROVE CacheFaithful'
  BY <1>17 DEF Edit, CacheFaithful
<1>18. CASE Restart
  BY <1>18 DEF Restart, CacheFaithful
<1>19. CASE UNCHANGED vars
  BY <1>19 DEF vars, CacheFaithful
<1>20. ASSUME NEW t \in Threads, LockFails(t) PROVE CacheFaithful'
  BY <1>20 DEF LockFails, CacheFaithful
<1>21. ASSUME NEW t \in Threads, LoadFails(t) PROVE CacheFaithful'
  BY <1>21 DEF LoadFails, CacheFaithful
<1> QED
  BY [Next]_vars, <1>1, <1>2, <1>3, <1>4, <1>5, <1>6, <1>7, <1>8, <1>9,
     <1>10, <1>11, <1>12, <1>13, <1>14, <1>15, <1>16, <1>17, <1>18, <1>19, <1>20, <1>21
  DEF Next, Request, Step, SaveStep, TestStep

LEMMA Inductive == IInv /\ [Next]_vars => IInv'
BY TypeStep, SlotStep, LockStep, CheckStep, CacheStep DEF IInv

LEMMA Invariance == Spec => []IInv
BY Initially, Inductive, PTL DEF Spec

-----------------------------------------------------------------------------
(* Theorems *)

\* The settings file is whole or absent at every instant until it is edited by
\* hand, and permits stay within their number, for any number of requests,
\* edits and restarts.
THEOREM SettingsTypeCorrect == Spec => []TypeOK
<1>1. IInv => TypeOK BY DEF IInv
<1> QED BY <1>1, Invariance, PTL

\* Permits of test_connection are neither leaked nor invented.
THEOREM PermitsConserved == Spec => []SlotsConserved
<1>1. IInv => SlotsConserved BY DEF IInv
<1> QED BY <1>1, Invariance, PTL

\* describe shows a result only next to the config it was probed with.
THEOREM ShownResultsBelong == Spec => []ShownResultIsOfShownConfig
<1>1. IInv => ShownResultIsOfShownConfig
  BY DEF IInv, CacheFaithful, ShownResultIsOfShownConfig, Result
<1> QED BY <1>1, Invariance, PTL

\* No save replaces a revision other than the one its page was loaded at,
\* edits by hand after the check apart.
THEOREM NoLostUpdate == Spec => ReplacesWhatItChecked
<1> DEFINE Kept ==
      \A t \in Threads :
        At(t, "replacing") /\ call'[t].pc = "clearing"
          => Loaded = call[t].expected \/ t \in overtaken
<1>1. IInv => Kept
  BY DEF IInv, CheckedStays, At
<1>2. IInv => [Kept]_vars BY <1>1
<1> HIDE DEF Kept
<1>3. Spec => [][Kept]_vars BY <1>2, Invariance, PTL
<1> QED BY <1>3 DEF Kept, ReplacesWhatItChecked

=============================================================================
