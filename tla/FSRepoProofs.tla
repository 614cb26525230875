---------------------------- MODULE FSRepoProofs ----------------------------
(***************************************************************************)
(* Proofs about FSRepo, for any number of processes, callers and openings  *)
(* and with every fault: repo.lock protects the datastore, OnlyOne's entry *)
(* holds it, and Close releases it; and when no caller closes twice nobody *)
(* loses an open repository.                                               *)
(***************************************************************************)
EXTENDS FSRepo, FiniteSetTheorems, TLAPS

-----------------------------------------------------------------------------
(* The closes that callers still owe to an FSRepo, as a set of pairs.      *)
Owed(h, k, r) == {x \in Callers \X (1 .. 2) : h[x[1]] = r /\ x[2] <= k[x[1]]}
Pending(r) == Owed(handle, closes, r)
Bound == 2 * Cardinality(Callers)

LEMMA CallersFinite == IsFiniteSet(Callers) /\ Cardinality(Callers) \in Nat
BY FSRepoAssumption, FS_CardinalityType

LEMMA OwedFinite ==
    ASSUME NEW h, NEW k, NEW r
    PROVE  /\ IsFiniteSet(Owed(h, k, r)) /\ Cardinality(Owed(h, k, r)) \in Nat
           /\ Cardinality(Owed(h, k, r)) <= Bound
           /\ Cardinality(Owed(h, k, r)) = 0 <=> Owed(h, k, r) = {}
<1>1. IsFiniteSet(1 .. 2) /\ Cardinality(1 .. 2) = 2
  <2>1. 1 \in Int /\ 2 \in Int /\ ~(1 > 2) /\ 2 - 1 + 1 = 2
    OBVIOUS
  <2>2. IsFiniteSet(1 .. 2) /\ Cardinality(1 .. 2) = IF 1 > 2 THEN 0 ELSE 2 - 1 + 1
    BY <2>1, FS_Interval, Zenon
  <2> QED BY <2>1, <2>2
<1>2. /\ IsFiniteSet(Callers \X (1 .. 2))
      /\ Cardinality(Callers \X (1 .. 2)) = Cardinality(Callers) * Cardinality(1 .. 2)
  BY <1>1, CallersFinite, FS_Product
<1>3. Cardinality(Callers \X (1 .. 2)) = Bound
  BY <1>1, <1>2, CallersFinite DEF Bound
<1>4. Owed(h, k, r) \in SUBSET (Callers \X (1 .. 2))
  BY DEF Owed
<1> QED BY <1>2, <1>3, <1>4, FS_Subset, FS_CardinalityType, FS_EmptySet

LEMMA ClosesType == \A c : Closes(c) \in 1 .. 2 /\ (Twice = {} => Closes(c) = 1)
BY DEF Closes

HandlesOK == handle \in [Callers -> Repos \cup {None}] /\ closes \in [Callers -> 0 .. 2]

(* A caller that owed nothing gets an FSRepo to close.                     *)
LEMMA OwedOpen ==
    ASSUME HandlesOK, NEW c \in Callers, NEW r \in Repos, closes[c] = 0,
           handle' = [handle EXCEPT ![c] = r],
           closes' = [closes EXCEPT ![c] = Closes(c)]
    PROVE  /\ Cardinality(Pending(r)') >= Cardinality(Pending(r)) + 1
           /\ Twice = {} => Cardinality(Pending(r)') = Cardinality(Pending(r)) + 1
           /\ \A s : s # r => Pending(s)' = Pending(s)
<1> DEFINE P == Pending(r)
<1>1. <<c, 1>> \notin P /\ <<c, 2>> \notin P
  BY DEF Pending, Owed
<1>2. \A s : s # r => Pending(s)' = Pending(s)
  BY DEF Pending, Owed, HandlesOK
<1>3. Cardinality(P) \in Nat /\ IsFiniteSet(P)
  BY OwedFinite DEF Pending
<1>4. /\ IsFiniteSet(P \cup {<<c, 1>>})
      /\ Cardinality(P \cup {<<c, 1>>}) = Cardinality(P) + 1
  BY <1>1, <1>3, FS_AddElement
<1>5. Cardinality((P \cup {<<c, 1>>}) \cup {<<c, 2>>}) = (Cardinality(P) + 1) + 1
  <2>1. <<c, 2>> \notin P \cup {<<c, 1>>}
    BY <1>1
  <2> DEFINE Q == P \cup {<<c, 1>>}
  <2>2. Cardinality(Q \cup {<<c, 2>>}) = Cardinality(Q) + 1
    <3> HIDE DEF Q
    <3> QED BY <2>1, <1>4, FS_AddElement DEF Q
  <2> QED BY <1>4, <2>2
<1>6. Closes(c) = 1 => Pending(r)' = P \cup {<<c, 1>>}
  BY <1>1 DEF Pending, Owed, HandlesOK
<1>7. Closes(c) = 2 => Pending(r)' = (P \cup {<<c, 1>>}) \cup {<<c, 2>>}
  BY <1>1 DEF Pending, Owed, HandlesOK
<1>8. Closes(c) = 1 \/ Closes(c) = 2
  BY DEF Closes
<1>9. Cardinality(Pending(r)') = Cardinality(P) + 1
         \/ (Twice # {} /\ Cardinality(Pending(r)') = (Cardinality(P) + 1) + 1)
  <2>1. CASE Closes(c) = 1
    BY <2>1, <1>4, <1>6
  <2>2. CASE Closes(c) = 2
    <3>1. Twice # {}
      BY <2>2 DEF Closes
    <3>2. Cardinality(Pending(r)') = (Cardinality(P) + 1) + 1
      BY <2>2, <1>5, <1>7
    <3> QED BY <3>1, <3>2
  <2> QED BY <1>8, <2>1, <2>2
<1>10. /\ Cardinality(Pending(r)') >= Cardinality(P) + 1
       /\ Twice = {} => Cardinality(Pending(r)') = Cardinality(P) + 1
  <2> HIDE DEF P
  <2> QED BY <1>3, <1>9
<1> QED BY <1>2, <1>10

(* A caller closes once.                                                   *)
LEMMA OwedClose ==
    ASSUME HandlesOK, NEW c \in Callers, NEW r \in Repos, closes[c] > 0, handle[c] = r,
           handle' = handle, closes' = [closes EXCEPT ![c] = closes[c] - 1]
    PROVE  /\ Cardinality(Pending(r)') = Cardinality(Pending(r)) - 1
           /\ \A s : s # r => Pending(s)' = Pending(s)
<1> DEFINE P == Pending(r)
<1>1. <<c, closes[c]>> \in P /\ Pending(r)' = P \ {<<c, closes[c]>>}
  BY DEF Pending, Owed, HandlesOK
<1>2. Cardinality(P \ {<<c, closes[c]>>}) = Cardinality(P) - 1
  <2>1. IsFiniteSet(P)
    BY OwedFinite DEF Pending
  <2> QED BY <1>1, <2>1, FS_RemoveElement
<1>3. \A s : s # r => Pending(s)' = Pending(s)
  BY DEF Pending, Owed, HandlesOK
<1> QED BY <1>1, <1>2, <1>3

-----------------------------------------------------------------------------
(* The inductive invariant.                                                *)
Opening == {"openStore", "openKeystore"}
Closing == {"closeStore", "unlock"}

(* repo.lock is held for an FSRepo exactly while it is being opened, open  *)
(* or stuck, and a datastore is open only then or after a failed open.     *)
LockInv == \A r \in Repos : (status[r] \in {"opening", "open", "stuck"}) <=> (fslock = r)
StoreInv == \A r \in ds : status[r] \in {"opening", "open", "stuck", "failed"}

(* What a process is opening or closing, and for whom.                     *)
SubjectInv ==
    \A p \in Procs :
        /\ (op[p] \in Opening \cup Closing) <=> (subject[p] # None)
        /\ op[p] \in Opening \cup Closing => owner[subject[p]] = p /\ active[p] = None
        /\ op[p] \in Opening =>
              /\ status[subject[p]] = "opening"
              /\ client[p] \in Callers /\ Home[client[p]] = p /\ closes[client[p]] = 0
        /\ op[p] = "openKeystore" => subject[p] \in ds
        /\ op[p] \in Closing => status[subject[p]] = "open"
        /\ op[p] = "unlock" => subject[p] \notin ds

(* OnlyOne's entry is open and referenced, never more often than callers   *)
(* owe a close.                                                            *)
ActiveInv ==
    \A p \in Procs :
        active[p] # None =>
            /\ owner[active[p]] = p /\ status[active[p]] = "open" /\ active[p] \in ds
            /\ refs[active[p]] >= 1
            /\ refs[active[p]] <= Cardinality(Pending(active[p]))
            /\ Twice = {} => refs[active[p]] = Cardinality(Pending(active[p]))

(* Any other FSRepo is not referenced, or surplus closes have wrapped the  *)
(* counter around and are too few to bring it down to zero again.          *)
Forgotten(r) == \A p \in Procs : active[p] # r
CountInv ==
    \A r \in Repos : Forgotten(r) =>
        /\ Pending(r) = {} \/ refs[r] = 0
              \/ (RefMod - refs[r]) + Cardinality(Pending(r)) <= Bound
        /\ Twice = {} => Pending(r) = {}

(* Nobody forgets an FSRepo that is being opened or is open, and whoever   *)
(* owes a close got the FSRepo in its own process.                         *)
HeldInv ==
    \A r \in Repos :
        /\ status[r] = "opening" => \E p \in Procs : subject[p] = r
        /\ status[r] = "open" => \E p \in Procs : active[p] = r \/ subject[p] = r
HandleInv ==
    \A c \in Callers : closes[c] > 0 =>
        /\ handle[c] \in Repos /\ owner[handle[c]] = Home[c]
        /\ status[handle[c]] \notin {"unused", "opening"}

IInv == /\ TypeOK /\ LockInv /\ StoreInv /\ SubjectInv
        /\ ActiveInv /\ CountInv /\ HeldInv /\ HandleInv

(* It holds of an empty disk.                                             *)
LEMMA InitIInv == Init => IInv
<1> SUFFICES ASSUME Init PROVE IInv
  OBVIOUS
<1>1. RefMod \in Nat /\ RefMod > 1 /\ None \notin Repos
  BY FSRepoAssumption, CallersFinite
<1>2. TypeOK
  <2>1. 0 \in 0 .. RefMod - 1 /\ 0 \in 0 .. 2
    BY <1>1
  <2> QED BY <2>1 DEF Init, TypeOK, Ops
<1>3. LockInv /\ StoreInv /\ HeldInv /\ HandleInv
  BY <1>1 DEF Init, LockInv, StoreInv, HeldInv, HandleInv
<1>4. SubjectInv /\ ActiveInv
  BY DEF Init, SubjectInv, ActiveInv, Opening, Closing
<1>5. \A r : Pending(r) = {}
  BY DEF Init, Pending, Owed
<1>6. CountInv
  BY <1>5 DEF CountInv
<1> QED BY <1>2, <1>3, <1>4, <1>6 DEF IInv

(* Init changes nothing the invariant is about.                            *)
LEMMA InitSteps ==
    ASSUME IInv, NEW p \in Procs,
           \/ \E s \in Specs : InitStart(p, s)
           \/ initConfig(p) \/ WriteConfig(p) \/ initSpec(p) \/ WriteSpec(p) \/ WriteVersion(p)
           \/ InitFail(p)
    PROVE  IInv'
<1>1. TypeOK'
  <2> USE DEF IInv, TypeOK, Goto, Ops
  <2>1. CASE \E s \in Specs : InitStart(p, s)
    BY <2>1 DEF InitStart, diskVars, repoVars, callerVars
  <2>2. CASE initConfig(p)
    BY <2>2 DEF initConfig, diskVars, repoVars, callerVars
  <2>3. CASE WriteConfig(p)
    <3>1. conf[p] \in Specs \cup {None}
      OBVIOUS
    <3> QED BY <2>3, <3>1 DEF WriteConfig, repoVars, callerVars
  <2>4. CASE initSpec(p)
    BY <2>4 DEF initSpec, diskVars, repoVars, callerVars
  <2>5. CASE WriteSpec(p)
    <3>1. conf[p] \in Specs \cup {None}
      OBVIOUS
    <3> QED BY <2>5, <3>1 DEF WriteSpec, repoVars, callerVars
  <2>6. CASE WriteVersion(p)
    BY <2>6 DEF WriteVersion, repoVars, callerVars
  <2>7. CASE InitFail(p)
    BY <2>7 DEF InitFail, diskVars, repoVars, callerVars
  <2> QED BY <2>1, <2>2, <2>3, <2>4, <2>5, <2>6, <2>7
<1>2. UNCHANGED <<fslock, ds, owner, status, refs, active, subject, client, handle, closes>>
  BY DEF InitStart, initConfig, WriteConfig, initSpec, WriteSpec, WriteVersion,
         InitFail, repoVars, callerVars
<1>3. \A q \in Procs : op'[q] = op[q] \/ (op[q] \notin Opening \cup Closing
                                            /\ op'[q] \notin Opening \cup Closing)
  BY DEF IInv, TypeOK, InitStart, initConfig, WriteConfig, initSpec, WriteSpec, WriteVersion,
         InitFail, Goto, Opening, Closing
<1>4. SubjectInv'
  BY <1>2, <1>3 DEF IInv, SubjectInv, Opening, Closing
<1>5. \A r : Pending(r)' = Pending(r)
  BY <1>2 DEF Pending, Owed
<1>6. LockInv' /\ StoreInv' /\ HeldInv' /\ HandleInv'
  BY <1>2 DEF IInv, LockInv, StoreInv, HeldInv, HandleInv
<1>7. ActiveInv' /\ CountInv'
  BY <1>2, <1>5 DEF IInv, ActiveInv, CountInv, Forgotten
<1> QED BY <1>1, <1>4, <1>6, <1>7 DEF IInv

-----------------------------------------------------------------------------
(* Open.                                                                   *)
LEMMA OpenSharedStep == ASSUME IInv, NEW c \in Callers, OpenShared(c) PROVE IInv'
<1> DEFINE p == Home[c]  n == Closes(c)
<1>0. PICK r \in Repos : r = active[p] /\ r # None
  BY FSRepoAssumption DEF IInv, TypeOK, OpenShared
<1>1. p \in Procs /\ r = active[p] /\ r # None
  BY <1>0, FSRepoAssumption
<1>2. /\ handle \in [Callers -> Repos \cup {None}] /\ closes \in [Callers -> 0 .. 2]
      /\ handle' = [handle EXCEPT ![c] = r] /\ closes' = [closes EXCEPT ![c] = n]
      /\ closes[c] = 0 /\ n \in 1 .. 2 /\ (Twice = {} => n = 1)
  BY <1>1, ClosesType DEF IInv, TypeOK, OpenShared
<1>3. /\ Cardinality(Pending(r)') >= Cardinality(Pending(r)) + 1
      /\ Twice = {} => Cardinality(Pending(r)') = Cardinality(Pending(r)) + 1
      /\ \A s : s # r => Pending(s)' = Pending(s)
  BY <1>2, OwedOpen DEF HandlesOK
<1>4. UNCHANGED <<fslock, ds, owner, status, active, op, subject, client>>
  BY DEF OpenShared, procVars
<1>5. /\ refs[r] \in Nat /\ refs[r] >= 1 /\ refs[r] <= Cardinality(Pending(r))
      /\ Twice = {} => refs[r] = Cardinality(Pending(r))
      /\ owner[r] = p /\ status[r] = "open"
  BY <1>1 DEF IInv, TypeOK, ActiveInv
<1>6. refs'[r] = refs[r] + 1 /\ \A s \in Repos : s # r => refs'[s] = refs[s]
  <2>1. refs[r] + 1 < RefMod
    BY <1>5, OwedFinite, CallersFinite, FSRepoAssumption DEF Bound, Pending
  <2>2. (refs[r] + 1) % RefMod = refs[r] + 1
    BY <1>5, <2>1, FSRepoAssumption
  <2> QED BY <1>1, <2>2 DEF OpenShared, IInv, TypeOK
<1>7. TypeOK'
  <2>1. refs' \in [Repos -> 0 .. RefMod - 1]
    <3>1. refs' = [refs EXCEPT ![r] = (refs[r] + 1) % RefMod]
      BY <1>1 DEF OpenShared
    <3>2. (refs[r] + 1) % RefMod \in 0 .. RefMod - 1
      BY <1>5, FSRepoAssumption, CallersFinite
    <3> QED BY <3>1, <3>2 DEF IInv, TypeOK
  <2>2. handle' \in [Callers -> Repos \cup {None}] /\ closes' \in [Callers -> 0 .. 2]
    BY <1>1, <1>2
  <2> QED BY <1>4, <2>1, <2>2 DEF IInv, TypeOK, OpenShared, diskVars, procVars
<1>8. LockInv' /\ StoreInv' /\ HeldInv'
  BY <1>4 DEF IInv, LockInv, StoreInv, HeldInv
<1>9. HandleInv'
  BY <1>1, <1>2, <1>4, <1>5 DEF IInv, HandleInv
<1>10. SubjectInv'
  <2>1. \A q \in Procs : op[q] \in Opening => client[q] # c
    BY <1>1, <1>4 DEF IInv, SubjectInv, OpenShared, Opening
  <2> QED BY <1>2, <1>4, <2>1 DEF IInv, SubjectInv
<1>11. ActiveInv'
  <2> SUFFICES ASSUME NEW q \in Procs, NEW s \in Repos, active[q] = s
               PROVE  /\ owner[s] = q /\ status[s] = "open" /\ s \in ds
                      /\ refs'[s] >= 1
                      /\ refs'[s] <= Cardinality(Pending(s)')
                      /\ Twice = {} => refs'[s] = Cardinality(Pending(s)')
    BY <1>4 DEF ActiveInv, Pending, IInv, TypeOK
  <2>1. s # None
    BY FSRepoAssumption
  <2>2. /\ owner[s] = q /\ status[s] = "open" /\ s \in ds
        /\ refs[s] >= 1 /\ refs[s] <= Cardinality(Pending(s))
        /\ Twice = {} => refs[s] = Cardinality(Pending(s))
    BY <2>1 DEF IInv, ActiveInv
  <2>3. CASE s = r
    <3>1. Cardinality(Pending(r)) \in Nat /\ Cardinality(Pending(r)') \in Nat
      BY OwedFinite DEF Pending
    <3>2. refs'[r] >= 1 /\ refs'[r] <= Cardinality(Pending(r)')
      BY <1>3, <1>5, <1>6, <3>1
    <3>3. Twice = {} => refs'[r] = Cardinality(Pending(r)')
      BY <1>3, <1>5, <1>6
    <3> QED BY <2>2, <2>3, <3>2, <3>3
  <2>4. CASE s # r
    BY <2>2, <2>4, <1>3, <1>6
  <2> QED BY <2>3, <2>4
<1>12. CountInv'
  <2> SUFFICES ASSUME NEW s \in Repos, Forgotten(s)
               PROVE  /\ Pending(s)' = {} \/ refs'[s] = 0
                            \/ (RefMod - refs'[s]) + Cardinality(Pending(s)') <= Bound
                      /\ Twice = {} => Pending(s)' = {}
    BY <1>4 DEF CountInv, Forgotten
  <2>1. s # r
    BY <1>1 DEF Forgotten
  <2> QED BY <2>1, <1>3, <1>6 DEF IInv, CountInv
<1> QED BY <1>7, <1>8, <1>9, <1>10, <1>11, <1>12 DEF IInv

(* While repo.lock is free, nobody has the repository open.                *)
LEMMA FreeLock ==
    ASSUME IInv, fslock = None
    PROVE  /\ \A r \in Repos : status[r] \notin {"opening", "open", "stuck"}
           /\ \A p \in Procs : active[p] = None /\ subject[p] = None
<1>1. \A r \in Repos : status[r] \notin {"opening", "open", "stuck"}
  BY FSRepoAssumption DEF IInv, LockInv
<1>2. \A p \in Procs : active[p] = None
  BY <1>1 DEF IInv, TypeOK, ActiveInv
<1>3. \A p \in Procs : subject[p] = None
  BY <1>1 DEF IInv, TypeOK, SubjectInv, Opening, Closing
<1> QED BY <1>1, <1>2, <1>3

LEMMA OpenLockStep ==
    ASSUME IInv, NEW c \in Callers, NEW r \in Repos, OpenLock(c, r) PROVE IInv'
<1> DEFINE p == Home[c]
<1>1. p \in Procs /\ r # None
  BY FSRepoAssumption
<1>2. /\ fslock = None /\ status[r] = "unused" /\ op[p] = "idle" /\ closes[c] = 0
      /\ fslock' = r /\ status' = [status EXCEPT ![r] = "opening"]
      /\ owner' = [owner EXCEPT ![r] = p] /\ op' = [op EXCEPT ![p] = "openStore"]
      /\ subject' = [subject EXCEPT ![p] = r] /\ client' = [client EXCEPT ![p] = c]
      /\ UNCHANGED <<config, spec, version, ds, refs, active, conf, handle, closes>>
  BY DEF OpenLock, Goto, diskVars, callerVars
<1>3. /\ \A s \in Repos : status[s] \notin {"opening", "open", "stuck"}
      /\ \A q \in Procs : active[q] = None /\ subject[q] = None
  BY <1>2, FreeLock
<1>4. TypeOK'
  BY <1>1, <1>2 DEF IInv, TypeOK, Ops
<1>5. LockInv' /\ StoreInv'
  BY <1>2, <1>3 DEF IInv, TypeOK, LockInv, StoreInv
<1>6. SubjectInv'
  BY <1>1, <1>2, <1>3 DEF IInv, TypeOK, SubjectInv, Opening, Closing
<1>7. \A s : Pending(s)' = Pending(s)
  BY <1>2 DEF Pending
<1>8. ActiveInv' /\ CountInv'
  BY <1>2, <1>3, <1>7 DEF IInv, ActiveInv, CountInv, Forgotten
<1>9. HeldInv'
  BY <1>1, <1>2, <1>3 DEF IInv, TypeOK, HeldInv
<1>10. HandleInv'
  BY <1>2 DEF IInv, TypeOK, HandleInv
<1> QED BY <1>4, <1>5, <1>6, <1>8, <1>9, <1>10 DEF IInv

(* The FSRepo a process is opening has the lock, so nothing else is open.  *)
LEMMA OnlyOpening ==
    ASSUME IInv, NEW p \in Procs, op[p] \in Opening
    PROVE  /\ subject[p] \in Repos /\ status[subject[p]] = "opening" /\ fslock = subject[p]
           /\ owner[subject[p]] = p /\ active[p] = None
           /\ \A s \in Repos : s # subject[p] => status[s] \notin {"opening", "open", "stuck"}
           /\ \A q \in Procs : active[q] = None
           /\ \A q \in Procs : q # p => subject[q] = None
           /\ client[p] \in Callers /\ Home[client[p]] = p /\ closes[client[p]] = 0
<1>1. /\ subject[p] \in Repos /\ status[subject[p]] = "opening"
      /\ owner[subject[p]] = p /\ active[p] = None
      /\ client[p] \in Callers /\ Home[client[p]] = p /\ closes[client[p]] = 0
  BY DEF IInv, TypeOK, SubjectInv
<1>2. fslock = subject[p] /\ \A s \in Repos :
          s # subject[p] => status[s] \notin {"opening", "open", "stuck"}
  BY <1>1 DEF IInv, LockInv
<1>3. \A q \in Procs : active[q] = None
  BY <1>1, <1>2 DEF IInv, TypeOK, ActiveInv
<1>4. \A q \in Procs : q # p => subject[q] = None
  BY <1>1, <1>2 DEF IInv, TypeOK, SubjectInv, Opening, Closing
<1> QED BY <1>1, <1>2, <1>3, <1>4

LEMMA OpenFailsStep ==
    ASSUME IInv, NEW p \in Procs, op[p] \in Opening, OpenFails(p) PROVE IInv'
<1> DEFINE r == subject[p]
<1>1. /\ fslock' = None /\ status' = [status EXCEPT ![r] = "failed"]
      /\ op' = [op EXCEPT ![p] = "idle"] /\ subject' = [subject EXCEPT ![p] = None]
      /\ client' = [client EXCEPT ![p] = None]
      /\ UNCHANGED <<config, spec, version, ds, owner, refs, active, conf, handle, closes>>
  BY DEF OpenFails, Goto, diskVars, callerVars
<1>2. /\ r \in Repos /\ None \notin Repos /\ status[r] = "opening"
      /\ \A s \in Repos : s # r => status[s] \notin {"opening", "open", "stuck"}
      /\ \A q \in Procs : active[q] = None
      /\ \A q \in Procs : q # p => subject[q] = None
  BY OnlyOpening, FSRepoAssumption
<1>3. TypeOK'
  BY <1>1, <1>2 DEF IInv, TypeOK, Ops
<1>4. LockInv' /\ StoreInv'
  BY <1>1, <1>2 DEF IInv, TypeOK, LockInv, StoreInv
<1>5. SubjectInv'
  BY <1>1, <1>2 DEF IInv, TypeOK, SubjectInv, Opening, Closing
<1>6. \A s : Pending(s)' = Pending(s)
  BY <1>1 DEF Pending
<1>7. ActiveInv' /\ CountInv'
  BY <1>1, <1>2, <1>6 DEF IInv, ActiveInv, CountInv, Forgotten
<1>8. HeldInv' /\ HandleInv'
  BY <1>1, <1>2 DEF IInv, TypeOK, HeldInv, HandleInv
<1> QED BY <1>3, <1>4, <1>5, <1>7, <1>8 DEF IInv

LEMMA OpenStoreStep == ASSUME IInv, NEW p \in Procs, OpenStore(p) PROVE IInv'
<1>1. op[p] \in Opening
  BY DEF OpenStore, Opening
<1>2. CASE OpenFails(p)
  BY <1>1, <1>2, OpenFailsStep
<1>3. CASE /\ ds = {} /\ ds' = ds \cup {subject[p]} /\ op' = [op EXCEPT ![p] = "openKeystore"]
           /\ UNCHANGED <<diskVars, fslock, owner, status, refs, active, conf, subject, client,
                          callerVars>>
  <2>1. /\ subject[p] \in Repos /\ status[subject[p]] = "opening"
        /\ \A q \in Procs : active[q] = None
        /\ \A q \in Procs : q # p => subject[q] = None
    BY <1>1, OnlyOpening
  <2>2. TypeOK'
    BY <1>3, <2>1 DEF IInv, TypeOK, Ops, diskVars, callerVars
  <2>3. LockInv' /\ StoreInv' /\ HeldInv' /\ HandleInv'
    BY <1>3, <2>1 DEF IInv, LockInv, StoreInv, HeldInv, HandleInv, callerVars
  <2>4. SubjectInv'
    BY <1>1, <1>3, <2>1 DEF IInv, TypeOK, SubjectInv, Opening, Closing, callerVars
  <2>5. \A s : Pending(s)' = Pending(s)
    BY <1>3 DEF Pending, callerVars
  <2>6. ActiveInv' /\ CountInv'
    BY <1>3, <2>1, <2>5 DEF IInv, ActiveInv, CountInv, Forgotten
  <2> QED BY <2>2, <2>3, <2>4, <2>6 DEF IInv
<1> QED BY <1>2, <1>3 DEF OpenStore, Openable, Goto

LEMMA OpenKeystoreStep == ASSUME IInv, NEW p \in Procs, OpenKeystore(p) PROVE IInv'
<1> DEFINE c == client[p]
<1>0. op[p] \in Opening
  BY DEF OpenKeystore, Opening
<1>1. PICK r \in Repos : r = subject[p]
  BY <1>0, OnlyOpening
<1>2. /\ status[r] = "opening" /\ fslock = r /\ owner[r] = p /\ r # None /\ r \in ds
      /\ \A s \in Repos : s # r => status[s] \notin {"opening", "open", "stuck"}
      /\ \A q \in Procs : active[q] = None
      /\ \A q \in Procs : q # p => subject[q] = None
      /\ c \in Callers /\ Home[c] = p /\ closes[c] = 0
  <2>1. r \in ds
    BY <1>1 DEF IInv, SubjectInv, OpenKeystore
  <2> QED BY <1>0, <1>1, <2>1, OnlyOpening, FSRepoAssumption
<1>3. /\ status' = [status EXCEPT ![r] = "open"] /\ refs' = [refs EXCEPT ![r] = 1]
      /\ active' = [active EXCEPT ![p] = r] /\ handle' = [handle EXCEPT ![c] = r]
      /\ closes' = [closes EXCEPT ![c] = Closes(c)] /\ op' = [op EXCEPT ![p] = "idle"]
      /\ subject' = [subject EXCEPT ![p] = None] /\ client' = [client EXCEPT ![p] = None]
      /\ UNCHANGED <<config, spec, version, fslock, ds, owner, conf>>
  BY <1>1 DEF OpenKeystore, Goto, diskVars
<1>4. HandlesOK
  BY DEF IInv, TypeOK, HandlesOK
<1>5. /\ Cardinality(Pending(r)') >= Cardinality(Pending(r)) + 1
      /\ Twice = {} => Cardinality(Pending(r)') = Cardinality(Pending(r)) + 1
      /\ \A s : s # r => Pending(s)' = Pending(s)
  BY <1>2, <1>3, <1>4, OwedOpen
<1>6. TypeOK'
  <2>1. 1 \in 0 .. RefMod - 1 /\ Closes(c) \in 0 .. 2
    BY FSRepoAssumption, CallersFinite, ClosesType
  <2> QED BY <1>2, <1>3, <2>1 DEF IInv, TypeOK, Ops
<1>7. LockInv' /\ StoreInv'
  BY <1>2, <1>3 DEF IInv, TypeOK, LockInv, StoreInv
<1>8. SubjectInv'
  BY <1>2, <1>3 DEF IInv, TypeOK, SubjectInv, Opening, Closing
<1>9. HeldInv'
  BY <1>2, <1>3 DEF IInv, TypeOK, HeldInv
<1>10. HandleInv'
  BY <1>2, <1>3 DEF IInv, TypeOK, HandleInv
<1>11. refs'[r] = 1 /\ \A s \in Repos : s # r => refs'[s] = refs[s]
  BY <1>3 DEF IInv, TypeOK
<1>12. ActiveInv'
  <2>1. \A q \in Procs : active'[q] # None => q = p /\ active'[q] = r
    BY <1>2, <1>3 DEF IInv, TypeOK
  <2>2. owner'[r] = p /\ status'[r] = "open" /\ r \in ds'
    BY <1>2, <1>3 DEF IInv, TypeOK
  <2>3. Twice = {} => Cardinality(Pending(r)) = 0
    BY <1>2, OwedFinite DEF IInv, CountInv, Forgotten, Pending
  <2>4. Cardinality(Pending(r)) \in Nat /\ Cardinality(Pending(r)') \in Nat
    BY OwedFinite DEF Pending
  <2>5. 1 <= Cardinality(Pending(r)') /\ (Twice = {} => Cardinality(Pending(r)') = 1)
    BY <1>5, <2>3, <2>4
  <2>6. \A q \in Procs : active'[q] # None =>
           /\ owner'[active'[q]] = q /\ status'[active'[q]] = "open" /\ active'[q] \in ds'
           /\ refs'[active'[q]] >= 1
           /\ refs'[active'[q]] <= Cardinality(Owed(handle', closes', active'[q]))
           /\ Twice = {} => refs'[active'[q]] = Cardinality(Owed(handle', closes', active'[q]))
    BY <1>11, <2>1, <2>2, <2>5 DEF Pending
  <2> QED BY <2>6 DEF ActiveInv, Pending
<1>13. CountInv'
  <2> SUFFICES ASSUME NEW s \in Repos, Forgotten(s)'
               PROVE  /\ Pending(s)' = {} \/ refs'[s] = 0
                            \/ (RefMod - refs'[s]) + Cardinality(Pending(s)') <= Bound
                      /\ Twice = {} => Pending(s)' = {}
    BY DEF CountInv
  <2>1. s # r /\ Forgotten(s)
    BY <1>2, <1>3, FSRepoAssumption DEF Forgotten, IInv, TypeOK
  <2> QED BY <2>1, <1>5, <1>11 DEF IInv, CountInv
<1> QED BY <1>6, <1>7, <1>8, <1>9, <1>10, <1>12, <1>13 DEF IInv

-----------------------------------------------------------------------------
(* Close.                                                                  *)

(* A process closes the FSRepo that has the lock.                          *)
LEMMA OnlyClosing ==
    ASSUME IInv, NEW p \in Procs, op[p] \in Closing
    PROVE  /\ subject[p] \in Repos /\ status[subject[p]] = "open" /\ fslock = subject[p]
           /\ \A s \in Repos : s # subject[p] => status[s] \notin {"opening", "open", "stuck"}
           /\ \A q \in Procs : active[q] = None
           /\ \A q \in Procs : q # p => subject[q] = None
<1>1. /\ subject[p] \in Repos /\ status[subject[p]] = "open"
      /\ owner[subject[p]] = p /\ active[p] = None
  BY DEF IInv, TypeOK, SubjectInv
<1>2. fslock = subject[p] /\ \A s \in Repos :
          s # subject[p] => status[s] \notin {"opening", "open", "stuck"}
  BY <1>1 DEF IInv, LockInv
<1>3. \A q \in Procs : active[q] = None
  BY <1>1, <1>2 DEF IInv, TypeOK, ActiveInv
<1>4. \A q \in Procs : q # p => subject[q] = None
  BY <1>1, <1>2 DEF IInv, TypeOK, SubjectInv, Opening, Closing
<1> QED BY <1>1, <1>2, <1>3, <1>4

LEMMA CloseSteps ==
    ASSUME IInv, NEW p \in Procs, CloseStore(p) \/ CloseStoreFail(p) \/ Unlock(p)
    PROVE  IInv'
<1>1. op[p] \in Closing
  BY DEF CloseStore, CloseStoreFail, Unlock, Closing
<1>2. PICK r \in Repos : r = subject[p]
  BY <1>1, OnlyClosing
<1>3. /\ status[r] = "open" /\ fslock = r /\ r # None
      /\ \A s \in Repos : s # r => status[s] \notin {"opening", "open", "stuck"}
      /\ \A q \in Procs : active[q] = None
      /\ \A q \in Procs : q # p => subject[q] = None
  BY <1>1, <1>2, OnlyClosing, FSRepoAssumption
<1>4. UNCHANGED <<config, spec, version, owner, refs, active, conf, client, handle, closes>>
  BY DEF CloseStore, CloseStoreFail, Unlock, diskVars, callerVars
<1>5. \A s : Pending(s)' = Pending(s)
  BY <1>4 DEF Pending
<1>6. ActiveInv' /\ CountInv'
  BY <1>3, <1>4, <1>5 DEF IInv, ActiveInv, CountInv, Forgotten
<1>7. CASE CloseStore(p)
  <2>1. /\ ds' = ds \ {r} /\ op' = [op EXCEPT ![p] = "unlock"] /\ UNCHANGED <<fslock, status, subject>>
    BY <1>2, <1>7 DEF CloseStore, Goto
  <2>2. TypeOK'
    BY <1>4, <2>1 DEF IInv, TypeOK, Ops
  <2>3. LockInv' /\ StoreInv' /\ HeldInv' /\ HandleInv'
    BY <1>4, <2>1 DEF IInv, LockInv, StoreInv, HeldInv, HandleInv
  <2>4. SubjectInv'
    BY <1>1, <1>2, <1>3, <1>4, <2>1 DEF IInv, TypeOK, SubjectInv, Opening, Closing
  <2> QED BY <1>6, <2>2, <2>3, <2>4 DEF IInv
<1>8. CASE CloseStoreFail(p)
  <2>1. /\ ds' \subseteq ds /\ status' = [status EXCEPT ![r] = "stuck"]
        /\ op' = [op EXCEPT ![p] = "idle"] /\ subject' = [subject EXCEPT ![p] = None]
        /\ fslock' = fslock
    BY <1>2, <1>8 DEF CloseStoreFail, Goto
  <2>2. TypeOK'
    BY <1>4, <2>1 DEF IInv, TypeOK, Ops
  <2>3. LockInv' /\ StoreInv'
    BY <1>3, <2>1 DEF IInv, TypeOK, LockInv, StoreInv
  <2>4. HeldInv' /\ HandleInv'
    BY <1>3, <1>4, <2>1 DEF IInv, TypeOK, HeldInv, HandleInv
  <2>5. SubjectInv'
    BY <1>3, <1>4, <2>1 DEF IInv, TypeOK, SubjectInv, Opening, Closing
  <2> QED BY <1>6, <2>2, <2>3, <2>4, <2>5 DEF IInv
<1>9. CASE Unlock(p)
  <2>1. /\ status' = [status EXCEPT ![r] = "closed"] /\ fslock' = None
        /\ op' = [op EXCEPT ![p] = "idle"] /\ subject' = [subject EXCEPT ![p] = None]
        /\ ds' = ds /\ r \notin ds
    BY <1>2, <1>9 DEF Unlock, Goto, IInv, SubjectInv
  <2>2. TypeOK'
    BY <1>4, <2>1 DEF IInv, TypeOK, Ops
  <2>3. LockInv' /\ StoreInv'
    BY <1>3, <2>1, FSRepoAssumption DEF IInv, TypeOK, LockInv, StoreInv
  <2>4. HeldInv' /\ HandleInv'
    BY <1>3, <1>4, <2>1 DEF IInv, TypeOK, HeldInv, HandleInv
  <2>5. SubjectInv'
    BY <1>3, <1>4, <2>1 DEF IInv, TypeOK, SubjectInv, Opening, Closing
  <2> QED BY <1>6, <2>2, <2>3, <2>4, <2>5 DEF IInv
<1> QED BY <1>7, <1>8, <1>9

LEMMA Decrement ==
    ASSUME NEW x \in 0 .. RefMod - 1
    PROVE  /\ x >= 1 => (x + RefMod - 1) % RefMod = x - 1
           /\ x = 0 => (x + RefMod - 1) % RefMod = RefMod - 1
<1>1. RefMod \in Nat /\ RefMod > 1
  BY FSRepoAssumption, CallersFinite
<1>2. ASSUME x >= 1 PROVE (x + RefMod - 1) % RefMod = x - 1
  <2>1. x - 1 \in 0 .. RefMod - 1 /\ x + RefMod - 1 = (x - 1) + RefMod
    BY <1>1, <1>2
  <2>2. ((x - 1) + RefMod) % RefMod = x - 1
    BY <1>1, <2>1
  <2> QED BY <2>1, <2>2
<1>3. ASSUME x = 0 PROVE (x + RefMod - 1) % RefMod = RefMod - 1
  BY <1>1, <1>3
<1> QED BY <1>2, <1>3

(* What a close does to the counter: it closes the FSRepo exactly when the *)
(* entry of the process has one reference left.                            *)
LEMMA RefCloseCases ==
    ASSUME IInv, NEW c \in Callers, NEW r \in Repos, RefClose(c), r = handle[c]
    PROVE  LET p == Home[c]
           IN  /\ p \in Procs /\ op[p] = "idle" /\ owner[r] = p /\ subject[p] = None
               /\ Cardinality(Pending(r)') = Cardinality(Pending(r)) - 1
               /\ \A s : s # r => Pending(s)' = Pending(s)
               /\ \A s \in Repos : s # r => refs'[s] = refs[s]
               /\ \/ /\ r = active[p] /\ refs[r] = 1 /\ refs'[r] = 0 /\ status[r] = "open"
                     /\ active' = [active EXCEPT ![p] = None]
                     /\ op' = [op EXCEPT ![p] = "closeStore"]
                     /\ subject' = [subject EXCEPT ![p] = r]
                  \/ /\ r = active[p] /\ refs[r] >= 2 /\ refs'[r] = refs[r] - 1
                     /\ UNCHANGED <<active, op, subject>>
                  \/ /\ Forgotten(r) /\ refs[r] = 0 /\ refs'[r] = RefMod - 1
                     /\ Twice # {} /\ UNCHANGED <<active, op, subject>>
                  \/ /\ Forgotten(r) /\ refs[r] >= 2 /\ refs'[r] = refs[r] - 1
                     /\ (RefMod - refs[r]) + Cardinality(Pending(r)) <= Bound
                     /\ Twice # {} /\ UNCHANGED <<active, op, subject>>
<1> DEFINE p == Home[c]  left == (refs[r] + RefMod - 1) % RefMod
<1>1. /\ p \in Procs /\ op[p] = "idle" /\ closes[c] > 0 /\ owner[r] = p /\ r # None
      /\ subject[p] = None
  BY FSRepoAssumption DEF RefClose, IInv, HandleInv, SubjectInv, Opening, Closing
<1>2. HandlesOK /\ handle' = handle /\ closes' = [closes EXCEPT ![c] = closes[c] - 1]
  BY DEF RefClose, IInv, TypeOK, HandlesOK
<1>3. /\ Cardinality(Pending(r)') = Cardinality(Pending(r)) - 1
      /\ \A s : s # r => Pending(s)' = Pending(s)
  BY <1>1, <1>2, OwedClose
<1>4. Cardinality(Pending(r)) \in Nat /\ Pending(r) # {} /\ Cardinality(Pending(r)) >= 1
  <2>1. <<c, closes[c]>> \in Pending(r)
    BY <1>1, <1>2 DEF Pending, Owed, HandlesOK
  <2> QED BY <2>1, OwedFinite DEF Pending
<1>5. /\ refs' = [refs EXCEPT ![r] = left]
      /\ active' = [active EXCEPT ![p] = IF left = 0 THEN None ELSE active[p]]
      /\ left = 0 /\ status[r] = "open" =>
            op' = [op EXCEPT ![p] = "closeStore"] /\ subject' = [subject EXCEPT ![p] = r]
      /\ left # 0 => UNCHANGED <<op, subject>>
  BY DEF RefClose, Goto
<1>6. refs[r] \in 0 .. RefMod - 1 /\ RefMod \in Nat /\ RefMod > Bound + 1 /\ Bound \in Nat
  BY FSRepoAssumption, CallersFinite DEF IInv, TypeOK, Bound
<1>7. refs'[r] = left /\ \A s \in Repos : s # r => refs'[s] = refs[s]
  BY <1>5 DEF IInv, TypeOK
<1>8. /\ refs[r] >= 1 => left = refs[r] - 1
      /\ refs[r] = 0 => left = RefMod - 1
  BY <1>6, Decrement
<1>9. left # 0 => active' = active
  BY <1>1, <1>5 DEF IInv, TypeOK
<1> HIDE DEF left
<1>10. CASE r = active[p]
  <2>1. refs[r] >= 1 /\ status[r] = "open"
    BY <1>1, <1>10 DEF IInv, ActiveInv
  <2>2. CASE refs[r] = 1
    <3>1. left = 0
      BY <1>8, <2>2
    <3> QED BY <1>1, <1>3, <1>5, <1>7, <1>10, <2>1, <2>2, <3>1
  <2>3. CASE refs[r] # 1
    <3>1. left = refs[r] - 1 /\ refs[r] >= 2 /\ left # 0
      BY <1>6, <1>8, <2>1, <2>3
    <3> QED BY <1>1, <1>3, <1>5, <1>7, <1>9, <1>10, <3>1
  <2> QED BY <2>2, <2>3
<1>11. CASE r # active[p]
  <2>1. Forgotten(r)
    BY <1>1, <1>11 DEF Forgotten, IInv, ActiveInv
  <2>2. /\ Twice # {}
        /\ refs[r] = 0 \/ (RefMod - refs[r]) + Cardinality(Pending(r)) <= Bound
    BY <1>4, <2>1 DEF IInv, CountInv
  <2>3. CASE refs[r] = 0
    <3>1. left = RefMod - 1 /\ left # 0
      BY <1>6, <1>8, <2>3
    <3> QED BY <1>1, <1>3, <1>5, <1>7, <1>9, <2>1, <2>2, <2>3, <3>1
  <2>4. CASE refs[r] # 0
    <3>1. refs[r] >= 2
      BY <1>4, <1>6, <2>2, <2>4
    <3>2. left = refs[r] - 1 /\ left # 0
      BY <1>6, <1>8, <3>1
    <3> QED BY <1>1, <1>3, <1>5, <1>7, <1>9, <2>1, <2>2, <2>4, <3>1, <3>2
  <2> QED BY <2>3, <2>4
<1> QED BY <1>10, <1>11

LEMMA RefCloseStep == ASSUME IInv, NEW c \in Callers, RefClose(c) PROVE IInv'
<1> DEFINE p == Home[c]
<1>1. PICK r \in Repos : r = handle[c]
  BY DEF RefClose, IInv, HandleInv
<1>2. /\ p \in Procs /\ op[p] = "idle" /\ owner[r] = p /\ subject[p] = None /\ r # None
      /\ Cardinality(Pending(r)') = Cardinality(Pending(r)) - 1
      /\ \A s : s # r => Pending(s)' = Pending(s)
      /\ \A s \in Repos : s # r => refs'[s] = refs[s]
  BY <1>1, RefCloseCases, FSRepoAssumption
<1>3. \/ /\ r = active[p] /\ refs[r] = 1 /\ refs'[r] = 0 /\ status[r] = "open"
         /\ active' = [active EXCEPT ![p] = None]
         /\ op' = [op EXCEPT ![p] = "closeStore"]
         /\ subject' = [subject EXCEPT ![p] = r]
      \/ /\ r = active[p] /\ refs[r] >= 2 /\ refs'[r] = refs[r] - 1
         /\ UNCHANGED <<active, op, subject>>
      \/ /\ Forgotten(r) /\ refs[r] = 0 /\ refs'[r] = RefMod - 1
         /\ Twice # {} /\ UNCHANGED <<active, op, subject>>
      \/ /\ Forgotten(r) /\ refs[r] >= 2 /\ refs'[r] = refs[r] - 1
         /\ (RefMod - refs[r]) + Cardinality(Pending(r)) <= Bound
         /\ Twice # {} /\ UNCHANGED <<active, op, subject>>
  BY <1>1, RefCloseCases
<1>4. /\ UNCHANGED <<config, spec, version, fslock, ds, owner, status, conf, client, handle>>
      /\ closes' = [closes EXCEPT ![c] = closes[c] - 1] /\ closes[c] > 0
  BY DEF RefClose, diskVars
<1>5. /\ Cardinality(Pending(r)) \in Nat /\ Cardinality(Pending(r)') \in Nat
      /\ Cardinality(Pending(r)') <= Bound
      /\ (Cardinality(Pending(r)') = 0) => Pending(r)' = {}
  BY OwedFinite DEF Pending
<1>6. refs[r] \in 0 .. RefMod - 1 /\ RefMod \in Nat /\ RefMod > Bound + 1 /\ Bound \in Nat
  BY FSRepoAssumption, CallersFinite DEF IInv, TypeOK, Bound
<1>7. TypeOK'
  <2>1. refs' \in [Repos -> 0 .. RefMod - 1]
    BY <1>1, FSRepoAssumption DEF IInv, TypeOK, RefClose
  <2>2. closes' \in [Callers -> 0 .. 2]
    BY <1>4 DEF IInv, TypeOK
  <2>3. active' \in [Procs -> Repos \cup {None}] /\ op' \in [Procs -> Ops]
           /\ subject' \in [Procs -> Repos \cup {None}]
    BY <1>3 DEF IInv, TypeOK, Ops
  <2> QED BY <1>4, <2>1, <2>2, <2>3 DEF IInv, TypeOK
<1>8. LockInv' /\ StoreInv' /\ HandleInv'
  BY <1>4 DEF IInv, TypeOK, LockInv, StoreInv, HandleInv
<1>9. HeldInv'
  <2>1. CASE UNCHANGED <<active, op, subject>>
    BY <1>4, <2>1 DEF IInv, HeldInv
  <2>2. CASE /\ r = active[p] /\ active' = [active EXCEPT ![p] = None]
             /\ subject' = [subject EXCEPT ![p] = r]
    <3>1. /\ \A q \in Procs : q # p => active'[q] = active[q] /\ subject'[q] = subject[q]
          /\ subject'[p] = r
      BY <1>2, <2>2 DEF IInv, TypeOK
    <3>2. \A s \in Repos, q \in Procs : active[q] = s \/ subject[q] = s =>
             active'[q] = s \/ subject'[q] = s
      BY <1>2, <2>2, <3>1, FSRepoAssumption
    <3>3. \A s \in Repos, q \in Procs : subject[q] = s => subject'[q] = s
      BY <1>2, <3>1, FSRepoAssumption
    <3> QED BY <1>4, <3>2, <3>3 DEF IInv, HeldInv
  <2> QED BY <1>3, <2>1, <2>2
<1>10. SubjectInv'
  <2>1. \A q \in Procs : op[q] \in Opening => closes[client[q]] = 0 /\ client[q] # c
    BY <1>4 DEF IInv, SubjectInv
  <2>2. CASE UNCHANGED <<active, op, subject>>
    BY <1>4, <2>1, <2>2 DEF IInv, SubjectInv, TypeOK
  <2>3. CASE /\ r = active[p] /\ status[r] = "open" /\ active' = [active EXCEPT ![p] = None]
             /\ op' = [op EXCEPT ![p] = "closeStore"] /\ subject' = [subject EXCEPT ![p] = r]
    BY <1>2, <1>4, <2>1, <2>3 DEF IInv, SubjectInv, TypeOK, Opening, Closing
  <2> QED BY <1>3, <2>2, <2>3
<1>11. ActiveInv'
  <2>0. active' \in [Procs -> Repos \cup {None}]
    BY <1>7 DEF TypeOK
  <2> SUFFICES ASSUME NEW q \in Procs, NEW s \in Repos, active'[q] = s
               PROVE  /\ owner[s] = q /\ status[s] = "open" /\ s \in ds
                      /\ refs'[s] >= 1
                      /\ refs'[s] <= Cardinality(Pending(s)')
                      /\ Twice = {} => refs'[s] = Cardinality(Pending(s)')
    BY <1>4, <2>0, Zenon DEF ActiveInv, Pending
  <2>1. s # None /\ active[q] = s
    BY <1>3, FSRepoAssumption DEF IInv, TypeOK
  <2>2. /\ owner[s] = q /\ status[s] = "open" /\ s \in ds
        /\ refs[s] >= 1 /\ refs[s] <= Cardinality(Pending(s))
        /\ Twice = {} => refs[s] = Cardinality(Pending(s))
    BY <2>1 DEF IInv, ActiveInv
  <2>3. CASE s = r
    <3>1. q = p
      BY <1>2, <2>2, <2>3
    <3>2. r = active[p] /\ refs[r] >= 2 /\ refs'[r] = refs[r] - 1
      BY <1>2, <1>3, <2>1, <2>3, <3>1 DEF Forgotten, IInv, TypeOK
    <3>3. refs'[r] >= 1 /\ refs'[r] <= Cardinality(Pending(r)')
      BY <1>2, <1>5, <1>6, <2>2, <2>3, <3>2
    <3>4. Twice = {} => refs'[r] = Cardinality(Pending(r)')
      BY <1>2, <2>2, <2>3, <3>2
    <3> QED BY <2>2, <2>3, <3>3, <3>4
  <2>4. CASE s # r
    BY <1>2, <2>2, <2>4
  <2> QED BY <2>3, <2>4
<1>12. CountInv'
  <2> SUFFICES ASSUME NEW s \in Repos, Forgotten(s)'
               PROVE  /\ Pending(s)' = {} \/ refs'[s] = 0
                            \/ (RefMod - refs'[s]) + Cardinality(Pending(s)') <= Bound
                      /\ Twice = {} => Pending(s)' = {}
    BY DEF CountInv
  <2>1. CASE s # r
    <3>1. Forgotten(s)
      BY <1>2, <1>3, <2>1 DEF Forgotten, IInv, TypeOK
    <3> QED BY <1>2, <2>1, <3>1 DEF IInv, CountInv
  <2>2. CASE s = r
    <3>1. CASE r = active[p] /\ refs[r] = 1 /\ refs'[r] = 0
      <4>1. Twice = {} => Cardinality(Pending(r)) = 1
        BY <1>2, <3>1 DEF IInv, ActiveInv
      <4>2. Twice = {} => Pending(r)' = {}
        BY <1>2, <1>5, <4>1
      <4> QED BY <2>2, <3>1, <4>2
    <3>2. CASE Forgotten(r) /\ refs[r] = 0 /\ refs'[r] = RefMod - 1 /\ Twice # {}
      <4>1. Cardinality(Pending(r)) <= Bound
        BY OwedFinite DEF Pending
      <4>2. (RefMod - refs'[r]) + Cardinality(Pending(r)') <= Bound
        BY <1>2, <1>5, <1>6, <3>2, <4>1
      <4> QED BY <2>2, <3>2, <4>2
    <3>3. CASE /\ Forgotten(r) /\ refs[r] >= 2 /\ refs'[r] = refs[r] - 1
               /\ (RefMod - refs[r]) + Cardinality(Pending(r)) <= Bound /\ Twice # {}
      <4>1. (RefMod - refs'[r]) + Cardinality(Pending(r)') <= Bound
        BY <1>2, <1>5, <1>6, <3>3
      <4> QED BY <2>2, <3>3, <4>1
    <3>4. CASE r = active[p] /\ UNCHANGED active
      BY <1>2, <2>2, <3>4 DEF Forgotten
    <3> QED BY <1>3, <3>1, <3>2, <3>3, <3>4
  <2> QED BY <2>1, <2>2
<1> QED BY <1>7, <1>8, <1>9, <1>10, <1>11, <1>12 DEF IInv

-----------------------------------------------------------------------------
(* A crash takes away what belongs to the process and nothing else.        *)
LEMMA CrashStep == ASSUME IInv, NEW p \in Procs, Crash(p) PROVE IInv'
<1> DEFINE mine == {r \in Repos : owner[r] = p}
<1>1. /\ fslock' = IF fslock \in mine THEN None ELSE fslock
      /\ ds' = ds \ mine
      /\ status' = [r \in Repos |-> IF r \in mine THEN "closed" ELSE status[r]]
      /\ active' = [active EXCEPT ![p] = None] /\ op' = [op EXCEPT ![p] = "idle"]
      /\ conf' = [conf EXCEPT ![p] = None] /\ subject' = [subject EXCEPT ![p] = None]
      /\ client' = [client EXCEPT ![p] = None]
      /\ handle' = [c \in Callers |-> IF Home[c] = p THEN None ELSE handle[c]]
      /\ closes' = [c \in Callers |-> IF Home[c] = p THEN 0 ELSE closes[c]]
      /\ UNCHANGED <<config, spec, version, owner, refs>>
  BY DEF Crash, Goto, diskVars
<1>2. None \notin Repos /\ Home \in [Callers -> Procs]
  BY FSRepoAssumption
<1>3. TypeOK'
  BY <1>1 DEF IInv, TypeOK, Ops
<1>4. LockInv' /\ StoreInv'
  BY <1>1, <1>2 DEF IInv, TypeOK, LockInv, StoreInv
<1>5. \A q \in Procs : /\ active[q] # None => (active[q] \in mine <=> q = p)
                       /\ subject[q] # None => (subject[q] \in mine <=> q = p)
  BY DEF IInv, TypeOK, SubjectInv, ActiveInv
<1>6. \A q \in Procs : /\ q = p => op'[q] = "idle" /\ subject'[q] = None /\ active'[q] = None
                       /\ q # p => /\ op'[q] = op[q] /\ subject'[q] = subject[q]
                                   /\ active'[q] = active[q] /\ client'[q] = client[q]
  BY <1>1 DEF IInv, TypeOK
<1>7. \A r \in Repos : /\ r \in mine => status'[r] = "closed"
                       /\ r \notin mine => /\ status'[r] = status[r]
                                           /\ (r \in ds') = (r \in ds)
  BY <1>1
<1>8. \A c \in Callers : /\ Home[c] = p => closes'[c] = 0 /\ handle'[c] = None
                         /\ Home[c] # p => closes'[c] = closes[c] /\ handle'[c] = handle[c]
  BY <1>1
<1>9. \A c \in Callers : closes[c] > 0 => (handle[c] \in mine <=> Home[c] = p)
  BY DEF IInv, HandleInv
<1>10. \A r \in Repos : /\ r \in mine => Pending(r)' = {}
                        /\ r \notin mine => Pending(r)' = Pending(r)
  <2> SUFFICES ASSUME NEW r \in Repos, NEW c \in Callers, NEW i \in 1 .. 2
               PROVE  /\ r \in mine => ~(handle'[c] = r /\ i <= closes'[c])
                      /\ r \notin mine => ((handle'[c] = r /\ i <= closes'[c])
                                            <=> (handle[c] = r /\ i <= closes[c]))
    BY DEF Pending, Owed
  <2>1. closes[c] \in 0 .. 2 /\ (i <= closes[c] => closes[c] > 0)
    BY DEF IInv, TypeOK
  <2> HIDE DEF mine
  <2> QED BY <1>2, <1>8, <1>9, <2>1
<1> HIDE DEF mine
<1>11. SubjectInv'
  <2> SUFFICES ASSUME NEW q \in Procs, q # p
               PROVE  /\ (op[q] \in Opening \cup Closing) <=> (subject[q] # None)
                      /\ op[q] \in Opening \cup Closing =>
                            owner[subject[q]] = q /\ active[q] = None
                      /\ op[q] \in Opening =>
                            /\ status'[subject[q]] = "opening"
                            /\ client[q] \in Callers /\ Home[client[q]] = q
                            /\ closes'[client[q]] = 0
                      /\ op[q] = "openKeystore" => subject[q] \in ds'
                      /\ op[q] \in Closing => status'[subject[q]] = "open"
                      /\ op[q] = "unlock" => subject[q] \notin ds'
    BY <1>1, <1>6 DEF SubjectInv, Opening, Closing
  <2>1. subject[q] # None => subject[q] \in Repos /\ subject[q] \notin mine
    BY <1>5 DEF IInv, TypeOK
  <2> QED BY <1>7, <1>8, <2>1 DEF IInv, SubjectInv, Opening, Closing
<1>12. ActiveInv'
  <2> SUFFICES ASSUME NEW q \in Procs, active'[q] # None
               PROVE  /\ owner'[active'[q]] = q /\ status'[active'[q]] = "open" /\ active'[q] \in ds'
                      /\ refs'[active'[q]] >= 1
                      /\ refs'[active'[q]] <= Cardinality(Pending(active[q]))'
                      /\ Twice = {} => refs'[active'[q]] = Cardinality(Pending(active[q]))'
    BY DEF ActiveInv
  <2>2. PICK s \in Repos : s = active'[q] /\ s = active[q] /\ q # p
    BY <1>6 DEF IInv, TypeOK
  <2>3. owner' = owner /\ refs' = refs
    BY <1>1
  <2>1. s \notin mine /\ s # None
    BY <1>2, <1>5, <2>2
  <2>4. /\ owner[s] = q /\ status'[s] = "open" /\ s \in ds' /\ refs[s] >= 1
        /\ refs[s] <= Cardinality(Pending(s)')
        /\ Twice = {} => refs[s] = Cardinality(Pending(s)')
    BY <1>7, <1>10, <2>1, <2>2 DEF IInv, ActiveInv
  <2>5. Cardinality(Pending(active[q]))' = Cardinality(Pending(s)')
    BY <2>2 DEF Pending
  <2> QED BY <2>2, <2>3, <2>4, <2>5
<1>13. CountInv'
  <2> SUFFICES ASSUME NEW s \in Repos, Forgotten(s)'
               PROVE  /\ Pending(s)' = {} \/ refs[s] = 0
                            \/ (RefMod - refs[s]) + Cardinality(Pending(s)') <= Bound
                      /\ Twice = {} => Pending(s)' = {}
    BY <1>1 DEF CountInv
  <2>1. CASE s \in mine
    BY <1>10, <2>1
  <2>2. CASE s \notin mine
    <3>1. Forgotten(s)
      BY <1>2, <1>5, <1>6, <2>2 DEF Forgotten
    <3> QED BY <1>10, <2>2, <3>1 DEF IInv, CountInv
  <2> QED BY <2>1, <2>2
<1>14. HeldInv'
  <2> SUFFICES ASSUME NEW s \in Repos
               PROVE  /\ status'[s] = "opening" => \E q \in Procs : subject'[q] = s
                      /\ status'[s] = "open" =>
                            \E q \in Procs : active'[q] = s \/ subject'[q] = s
    BY DEF HeldInv
  <2>1. CASE s \in mine
    BY <1>7, <2>1
  <2>2. CASE s \notin mine
    <3>1. \A q \in Procs : active[q] = s \/ subject[q] = s => q # p
      BY <1>2, <1>5, <2>2
    <3> QED BY <1>6, <1>7, <2>2, <3>1 DEF IInv, HeldInv
  <2> QED BY <2>1, <2>2
<1>15. HandleInv'
  <2> SUFFICES ASSUME NEW c \in Callers, closes'[c] > 0
               PROVE  /\ handle'[c] \in Repos /\ owner[handle'[c]] = Home[c]
                      /\ status'[handle'[c]] \notin {"unused", "opening"}
    BY <1>1 DEF HandleInv
  <2>1. Home[c] # p /\ closes[c] > 0 /\ handle'[c] = handle[c]
    BY <1>8
  <2> QED BY <1>7, <1>9, <2>1 DEF IInv, HandleInv
<1> QED BY <1>3, <1>4, <1>11, <1>12, <1>13, <1>14, <1>15 DEF IInv

-----------------------------------------------------------------------------
(* The inductive invariant holds, whatever the faults.                     *)
THEOREM Invariance == Spec => []IInv
<1>1. IInv /\ [Next]_vars => IInv'
  <2> SUFFICES ASSUME IInv, [Next]_vars PROVE IInv'
    OBVIOUS
  <2>1. ASSUME NEW p \in Procs, Step(p) PROVE IInv'
    BY <2>1, InitSteps, OpenStoreStep, OpenKeystoreStep, CloseSteps DEF Step
  <2>2. ASSUME NEW p \in Procs, Fault(p) PROVE IInv'
    <3>1. CASE OpenKeystoreFail(p)
      BY <3>1, OpenFailsStep DEF OpenKeystoreFail, Opening
    <3> QED BY <2>2, <3>1, InitSteps, CloseSteps, CrashStep DEF Fault
  <2>3. ASSUME NEW p \in Procs, NEW s \in Specs, InitStart(p, s) PROVE IInv'
    BY <2>3, InitSteps
  <2>4. ASSUME NEW c \in Callers, OpenShared(c) PROVE IInv'
    BY <2>4, OpenSharedStep
  <2>5. ASSUME NEW c \in Callers, RefClose(c) PROVE IInv'
    BY <2>5, RefCloseStep
  <2>6. ASSUME NEW c \in Callers, NEW r \in Repos, OpenLock(c, r) PROVE IInv'
    BY <2>6, OpenLockStep
  <2>7. CASE UNCHANGED vars
    <3>1. \A r : Pending(r)' = Pending(r)
      BY <2>7 DEF vars, callerVars, Pending
    <3>2. ActiveInv' /\ CountInv'
      BY <2>7, <3>1 DEF vars, repoVars, procVars, IInv, ActiveInv, CountInv, Forgotten
    <3>3. TypeOK' /\ LockInv' /\ StoreInv' /\ SubjectInv' /\ HeldInv' /\ HandleInv'
      BY <2>7 DEF vars, diskVars, repoVars, procVars, callerVars, IInv, TypeOK, LockInv,
                  StoreInv, SubjectInv, HeldInv, HandleInv
    <3> QED BY <3>2, <3>3 DEF IInv
  <2> QED BY <2>1, <2>2, <2>3, <2>4, <2>5, <2>6, <2>7 DEF Next
<1> QED BY <1>1, InitIInv, PTL DEF Spec

(* Every state is well typed: the counter of references stays a uint32.    *)
THEOREM TypeCorrect == Spec => []TypeOK
<1>1. IInv => TypeOK
  BY DEF IInv
<1> QED BY <1>1, Invariance, PTL

(* No process has the datastore open without repo.lock, unless its open()  *)
(* failed in the keystore, which forgets to close it.                      *)
THEOREM StoreProtected == Spec => []StoreUnderLock
<1>1. IInv => StoreUnderLock
  BY DEF IInv, TypeOK, LockInv, StoreInv, StoreUnderLock
<1> QED BY <1>1, Invariance, PTL

(* The entry OnlyOne shares between callers is open and has repo.lock.     *)
THEOREM EntryHoldsLock == Spec => []ActiveHoldsLock
<1>1. IInv => ActiveHoldsLock
  BY DEF IInv, TypeOK, LockInv, ActiveInv, ActiveHoldsLock
<1> QED BY <1>1, Invariance, PTL

(* repo.lock is never left behind, except by a datastore that fails to     *)
(* close.                                                                  *)
THEOREM NoLockLeft == Spec => []LockReleased
<1>1. IInv => LockReleased
  BY DEF IInv, TypeOK, LockInv, HeldInv, LockReleased
<1> QED BY <1>1, Invariance, PTL

(* When nobody closes twice, whoever holds the repository finds it open.   *)
THEOREM HeldIsUsable == ASSUME Twice = {} PROVE Spec => []UsableWhileHeld
<1>1. IInv => UsableWhileHeld
  <2> SUFFICES ASSUME IInv, NEW c \in Callers, handle[c] # None, closes[c] = Closes(c)
               PROVE  status[handle[c]] = "open" /\ handle[c] \in ds
    BY DEF UsableWhileHeld
  <2>1. handle[c] \in Repos /\ closes[c] = 1
    BY ClosesType DEF IInv, TypeOK
  <2>2. <<c, 1>> \in Pending(handle[c])
    BY <2>1 DEF Pending, Owed
  <2>3. ~Forgotten(handle[c])
    BY <2>1, <2>2 DEF IInv, CountInv
  <2> QED BY <2>1, <2>3, FSRepoAssumption DEF Forgotten, IInv, ActiveInv
<1> QED BY <1>1, Invariance, PTL

-----------------------------------------------------------------------------
(* The refinement of RepoGuard: an action on repo.lock or on OnlyOne's     *)
(* entry is the guard's action of the same process, the others stutter.    *)
Holder  == IF fslock = None THEN None ELSE owner[fslock]
Serving == {p \in Procs : active[p] # None}

(* OnlyOne's entry belongs to the process that holds repo.lock.            *)
LEMMA ServingHolds ==
    ASSUME IInv, NEW p \in Procs, active[p] # None
    PROVE  fslock = active[p] /\ fslock \in Repos /\ owner[fslock] = p
BY FSRepoAssumption DEF IInv, TypeOK, LockInv, ActiveInv

(* What a process opens or closes has repo.lock, and no entry.             *)
LEMMA SubjectHolds ==
    ASSUME IInv, NEW p \in Procs, op[p] \in Opening \cup Closing
    PROVE  /\ fslock = subject[p] /\ subject[p] \in Repos /\ subject[p] # None
           /\ owner[subject[p]] = p /\ active[p] = None
BY FSRepoAssumption DEF IInv, TypeOK, LockInv, SubjectInv, Opening, Closing

(* Every step of the processes is a step of the guard or leaves it alone.  *)
LEMMA GuardStep ==
    ASSUME IInv, [Next]_vars
    PROVE  [Guard!GuardNext]_(Guard!guardVars)
<1> DEFINE H == Holder  S == Serving
<1> USE FSRepoAssumption
<1>0. SUFFICES \/ UNCHANGED <<H, S>>
               \/ \E p \in Procs : \/ H = None /\ H' = p /\ S' = S
                                   \/ H = p /\ S' = S \cup {p} /\ H' = H
                                   \/ p \in S /\ S' = S \ {p} /\ H' = H
                                   \/ H = p /\ p \notin S /\ H' = None /\ S' = S
                                   \/ H = p /\ H' = None /\ S' = S \ {p}
  BY DEF Guard!GuardNext, Guard!guardVars, Guard!Take, Guard!Publish, Guard!Withdraw,
         Guard!Leave, Guard!Die, Holder, Serving
<1>1. CASE UNCHANGED <<fslock, owner, active>>
  BY <1>1 DEF Holder, Serving
<1>2. ASSUME NEW p \in Procs, Step(p) \/ Fault(p) \/ \E s \in Specs : InitStart(p, s)
      PROVE  \/ UNCHANGED <<fslock, owner, active>>
             \/ OpenFails(p) /\ op[p] \in Opening
             \/ OpenKeystore(p) \/ Unlock(p) \/ Crash(p)
  BY <1>2 DEF Step, Fault, InitStart, initConfig, WriteConfig, initSpec, WriteSpec,
       WriteVersion, OpenStore, CloseStore, InitFail, OpenKeystoreFail, CloseStoreFail,
       repoVars, Opening
<1>3. ASSUME NEW p \in Procs, (OpenFails(p) /\ op[p] \in Opening) \/ Unlock(p)
      PROVE  H = p /\ p \notin S /\ H' = None /\ S' = S
  <2>1. op[p] \in Opening \cup Closing /\ fslock' = None /\ active' = active
    BY <1>3 DEF OpenFails, Unlock, Closing
  <2> QED BY <2>1, SubjectHolds DEF Holder, Serving
<1>4. ASSUME NEW p \in Procs, OpenKeystore(p)
      PROVE  H = p /\ S' = S \cup {p} /\ H' = H
  <2>1. op[p] \in Opening \cup Closing /\ UNCHANGED <<fslock, owner>>
    BY <1>4 DEF OpenKeystore, Opening
  <2>2. active' = [active EXCEPT ![p] = subject[p]]
    BY <1>4 DEF OpenKeystore
  <2>3. active \in [Procs -> Repos \cup {None}]
    BY DEF IInv, TypeOK
  <2> QED BY <2>1, <2>2, <2>3, SubjectHolds DEF Holder, Serving
<1>5. ASSUME NEW p \in Procs, Crash(p)
      PROVE  UNCHANGED <<H, S>> \/ (H = p /\ H' = None /\ S' = S \ {p})
  <2>1. /\ fslock' = IF fslock \in {r \in Repos : owner[r] = p} THEN None ELSE fslock
        /\ active' = [active EXCEPT ![p] = None] /\ owner' = owner
    BY <1>5 DEF Crash
  <2>2. active \in [Procs -> Repos \cup {None}] /\ fslock \in Repos \cup {None}
    BY DEF IInv, TypeOK
  <2>3. S' = S \ {p}
    BY <2>1, <2>2 DEF Serving
  <2>4. CASE fslock \in Repos /\ owner[fslock] = p
    BY <2>1, <2>2, <2>3, <2>4 DEF Holder
  <2>5. CASE ~(fslock \in Repos /\ owner[fslock] = p)
    <3>1. p \notin S
      BY <2>5, ServingHolds DEF Serving
    <3>2. fslock' = fslock
      BY <2>1, <2>5
    <3> QED BY <2>1, <2>3, <3>1, <3>2 DEF Holder
  <2> QED BY <2>4, <2>5
<1>6. ASSUME NEW c \in Callers, RefClose(c)
      PROVE  UNCHANGED <<H, S>> \/ (Home[c] \in S /\ S' = S \ {Home[c]} /\ H' = H)
  <2>1. active' = active \/ active' = [active EXCEPT ![Home[c]] = None]
    <3>1. active' = [active EXCEPT ![Home[c]] =
                       IF (refs[handle[c]] + RefMod - 1) % RefMod = 0 THEN None ELSE @]
      BY <1>6 DEF RefClose
    <3>2. active \in [Procs -> Repos \cup {None}] /\ Home[c] \in Procs
      BY DEF IInv, TypeOK
    <3> QED BY <3>1, <3>2
  <2>2. UNCHANGED <<fslock, owner>>
    BY <1>6 DEF RefClose
  <2>3. active \in [Procs -> Repos \cup {None}] /\ Home[c] \in Procs
    BY DEF IInv, TypeOK
  <2>4. H' = H
    BY <2>2 DEF Holder
  <2>5. CASE active' = active
    BY <2>4, <2>5 DEF Serving
  <2>6. CASE active' = [active EXCEPT ![Home[c]] = None]
    <3>1. S' = S \ {Home[c]}
      BY <2>3, <2>6 DEF Serving
    <3> QED BY <2>4, <3>1
  <2> QED BY <2>1, <2>5, <2>6
<1>7. ASSUME NEW c \in Callers, NEW r \in Repos, OpenLock(c, r)
      PROVE  H = None /\ H' = Home[c] /\ S' = S
  <2>1. /\ fslock = None /\ fslock' = r /\ active' = active
        /\ owner' = [owner EXCEPT ![r] = Home[c]]
    BY <1>7 DEF OpenLock
  <2>2. owner \in [Repos -> Procs \cup {None}]
    BY DEF IInv, TypeOK
  <2> QED BY <2>1, <2>2 DEF Holder, Serving
<1>8. \A c \in Callers : Home[c] \in Procs
  OBVIOUS
<1>9. CASE \E p \in Procs : Step(p) \/ Fault(p) \/ \E s \in Specs : InitStart(p, s)
  <2> PICK p \in Procs : Step(p) \/ Fault(p) \/ \E s \in Specs : InitStart(p, s)
    BY <1>9
  <2> HIDE DEF H, S
  <2> QED BY <1>1, <1>2, <1>3, <1>4, <1>5
<1>10. CASE \E c \in Callers : OpenShared(c)
  BY <1>1, <1>10 DEF OpenShared, procVars
<1>11. CASE \E c \in Callers : RefClose(c)
  <2> HIDE DEF H, S
  <2> QED BY <1>6, <1>8, <1>11
<1>12. CASE \E c \in Callers : \E r \in Repos : OpenLock(c, r)
  <2> HIDE DEF H, S
  <2> QED BY <1>7, <1>8, <1>12
<1>13. CASE UNCHANGED vars
  BY <1>1, <1>13 DEF vars, repoVars, procVars
<1> HIDE DEF H, S
<1> QED BY <1>9, <1>10, <1>11, <1>12, <1>13 DEF Next

(* The repository on disk implements RepoGuard, for any number of          *)
(* processes, callers and openings: exclusive access that survives         *)
(* failures and crashes.                                                   *)
THEOREM Guarded == Spec => GuardedAccess
<1>1. Init => Guard!GuardInit
  BY DEF Init, Guard!GuardInit
<1>2. IInv /\ [Next]_vars => [Guard!GuardNext]_(Guard!guardVars)
  BY GuardStep
<1> QED BY <1>1, <1>2, Invariance, PTL DEF Spec, GuardedAccess, Guard!GuardSpec

\* Whatever is open is open under repo.lock (open, Close, OnlyOne).
THEOREM Disciplined == Spec => []LockDiscipline
<1>1. TypeOK /\ StoreUnderLock /\ ActiveHoldsLock => LockDiscipline
  BY DEF LockDiscipline
<1> QED BY <1>1, TypeCorrect, StoreProtected, EntryHoldsLock, PTL
=============================================================================
